----------------------------- MODULE RecoveryRun -----------------------------
(***************************************************************************)
(* What one recovery run promises to whoever inspects it, with no calls,    *)
(* crashes or backends: the phase of its latest checkpoint and its schedule *)
(* result (RecoverySnapshot in orchestration/recovery.py).                  *)
(* TaskRecoveryRuntime implements it.                                       *)
(***************************************************************************)
CONSTANTS
    Results,     \* schedule results
    NoResult,    \* none of them
    StatusOf,    \* [Results -> Ended]: the terminal phase a result stands for
    StopResult   \* the result of a run stopped before execution

VARIABLES phase, result

runVars == <<phase, result>>

Open == {"QUEUED", "RUNNING", "INTERRUPTED"}
Ended == {"COMPLETED", "PARTIAL", "FAILED", "CANCELLED"}

Init == phase = "NONE" /\ result = NoResult

Accept == phase = "NONE" /\ phase' = "QUEUED" /\ UNCHANGED result

\* An attempt starts, or starts again after a process loss or an interrupt.
Attempt ==
    /\ phase \in Open
    /\ result = NoResult
    /\ phase' = "RUNNING"
    /\ UNCHANGED result

Deliver(res) ==
    /\ phase = "RUNNING"
    /\ result = NoResult
    /\ result' = res
    /\ UNCHANGED phase

\* A run that has its result is interrupted only while it is RUNNING.
Interrupt ==
    /\ phase \in Open
    /\ result # NoResult => phase = "RUNNING"
    /\ phase' = "INTERRUPTED"
    /\ UNCHANGED result

Finalize ==
    /\ phase \in {"RUNNING", "INTERRUPTED"}
    /\ result # NoResult
    /\ phase' = StatusOf[result]
    /\ UNCHANGED result

\* The budget denies another attempt.
Stop ==
    /\ phase \in Open
    /\ result = NoResult
    /\ result' = StopResult
    /\ phase' = StatusOf[StopResult]

Next ==
    \/ Accept
    \/ Attempt
    \/ \E res \in Results : Deliver(res)
    \/ Interrupt
    \/ Finalize
    \/ Stop

Spec == Init /\ [][Next]_runVars

\* A schedule result never changes once a run has it, and an ended run stays as
\* it is: a caller that saw either may rely on it.
ResultAndEndAreFinal ==
    [][/\ result # NoResult => result' = result
       /\ phase \in Ended => UNCHANGED runVars]_runVars
=============================================================================
