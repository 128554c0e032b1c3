------------------------ MODULE TaskRecoveryRuntime ------------------------
(***************************************************************************)
(* TaskRecoveryRuntime, RecoveryControl, _DurableExecutor and the recovery  *)
(* backend (orchestration/recovery.py), with the child subgraph they drive  *)
(* (orchestration/subgraph.py).                                             *)
(*                                                                          *)
(* One recovery run (one idempotency key in one scope) is shared by several *)
(* calls r \in Runtimes: a call of submit, advance, resume or               *)
(* request_interrupt in some process.  Every await of a backend operation   *)
(* is an interleaving point, so a call takes one step per backend           *)
(* operation.  Crash(r) loses everything but the backend.  Nothing stops a  *)
(* second call from advancing a run that a first one is still executing: no *)
(* lease exists, and the second call treats it as lost.                     *)
(*                                                                          *)
(* Artifact storage always returns what it stored (its integrity checks     *)
(* turn a corrupt payload into an error before any state changes).  Within  *)
(* a schedule children start in dependency order, at most Concurrency at a  *)
(* time; TaskScheduler.tla models its waves and batches exactly.            *)
(***************************************************************************)
EXTENDS Integers, Sequences, FiniteSets

CONSTANTS
    Runtimes,        \* concurrent calls on the run
    Requests,        \* request hashes submitted under the one key
    Children,        \* assignments of the schedule
    DependsOn,       \* dependency_assignment_ids of each assignment
    Concurrency,     \* the active professional concurrency
    Effects,         \* side-effect IDs
    EffectOf,        \* the side effect a child's executor performs, or NoEffect
    EffectRequest,   \* request hash a child passes for its side effect
    NoEffect,
    Values,          \* canonical outputs an executor can return
    StatusOfValue,   \* the assignment status a validated output yields
    NoValue,
    NoRequest,
    NoResult,
    GraphLimit,      \* active graph-step limit of the policy
    MaxInterrupts,   \* bound: interrupt requests
    MaxCrashes       \* bound: process losses

ASSUME RecoveryAssumption ==
    /\ IsFiniteSet(Children) /\ Children # {}
    /\ DependsOn \in [Children -> SUBSET Children]
    /\ Concurrency \in Nat \ {0}
    /\ EffectOf \in [Children -> Effects \cup {NoEffect}]
    /\ NoEffect \notin Effects
    /\ StatusOfValue \in [Values -> {"COMPLETED", "FAILED", "BLOCKED"}]
    /\ NoValue \notin Values
    /\ NoRequest \notin Requests
    /\ GraphLimit \in Nat
    /\ MaxInterrupts \in Nat
    /\ MaxCrashes \in Nat

Terminal == {"COMPLETED", "PARTIAL", "FAILED", "CANCELLED"}
Phase == {"QUEUED", "RUNNING", "INTERRUPTED"} \cup Terminal

\* Statuses an assignment of a ScheduleResult can end in under run_sync.
AssignmentStatus == {"COMPLETED", "FAILED", "BLOCKED"}
Result == [Children -> AssignmentStatus]

ASSUME NoResultAssumption == NoResult \notin Result

\* A child inside one scheduler attempt: not launched, then waiting for each of
\* its backend operations in turn, then one of the assignment statuses.
ChildState == {"waiting", "get", "begin", "operate", "commit", "put", "verify"}
              \cup AssignmentStatus

\* Where a call stands: the operation it performs next.
CallState == {"idle", "initialize", "clear", "reload", "decide", "write",
              "append", "running", "executed", "interrupt"}

EffectStatus == {"ABSENT", "STARTED", "COMMITTED"}

\* The part of the budget telemetry that recovery decides on: consumed and
\* reserved graph steps, and whether the wall-time limit was found reached.
FreshBudget == [steps |-> 0, reserved |-> 0, late |-> FALSE]

VARIABLES
    claim,       \* _claims: the request hash the key is bound to
    log,         \* _checkpoints: log[i] has sequence i - 1
    interrupt,   \* _interrupts: a request is recorded
    outputs,     \* _outputs
    effects,     \* _effects: status and request hash
    pc,          \* per call: a member of CallState
    base,        \* per call: the snapshot it loaded or wrote last
    pending,     \* per call: the snapshot it is about to append
    budget,      \* per call: its BudgetGuard
    child,       \* per call: ChildState of every assignment
    opRuns,      \* history: how often each external operation was invoked
    spent,       \* history: graph steps consumed by every attempt together
    interrupts,  \* requests so far
    crashes      \* process losses so far

durable == <<claim, log, interrupt, outputs, effects>>
local == <<pc, base, pending, budget, child>>
ghosts == <<opRuns, spent, interrupts, crashes>>
vars == <<claim, log, interrupt, outputs, effects, pc, base, pending, budget,
          child, opRuns, spent, interrupts, crashes>>

Blank == [seq |-> 0, request |-> NoRequest, phase |-> "QUEUED",
          result |-> NoResult, budget |-> FreshBudget, committed |-> {}]

Hashes == {EffectRequest[c] : c \in Children} \cup {NoRequest}

NotLaunched == [c \in Children |-> "waiting"]

Init ==
    /\ claim = NoRequest
    /\ log = <<>>
    /\ interrupt = FALSE
    /\ outputs = [c \in Children |-> NoValue]
    /\ effects = [e \in Effects |-> [status |-> "ABSENT", request |-> NoRequest]]
    /\ pc = [r \in Runtimes |-> "idle"]
    /\ base = [r \in Runtimes |-> Blank]
    /\ pending = [r \in Runtimes |-> Blank]
    /\ budget = [r \in Runtimes |-> FreshBudget]
    /\ child = [r \in Runtimes |-> NotLaunched]
    /\ opRuns = [e \in Effects |-> 0]
    /\ spent = 0
    /\ interrupts = 0
    /\ crashes = 0

-----------------------------------------------------------------------------
(* Snapshots and local control.                                             *)

Last == log[Len(log)]

Committed == {e \in Effects : effects[e].status = "COMMITTED"}

\* _next_snapshot: the result and the interrupt reason do not carry over.
NextSnapshot(snapshot, phase, result, telemetry) ==
    [seq |-> snapshot.seq + 1, request |-> snapshot.request, phase |-> phase,
     result |-> result, budget |-> telemetry, committed |-> snapshot.committed]

ScheduleStatus(result) ==
    IF \A c \in Children : result[c] = "COMPLETED" THEN "COMPLETED"
    ELSE IF \E c \in Children : result[c] = "COMPLETED" THEN "PARTIAL"
    ELSE "FAILED"

TerminalSnapshot(snapshot, result, telemetry) ==
    NextSnapshot(snapshot, ScheduleStatus(result), result, telemetry)

BudgetStopResult == [c \in Children |-> "BLOCKED"]

\* The call r returns or raises: its local state is dropped.
Return(r) ==
    /\ pc' = [pc EXCEPT ![r] = "idle"]
    /\ base' = [base EXCEPT ![r] = Blank]
    /\ pending' = [pending EXCEPT ![r] = Blank]
    /\ budget' = [budget EXCEPT ![r] = FreshBudget]
    /\ child' = [child EXCEPT ![r] = NotLaunched]

\* The call r goes on to write the snapshot s.
StartWrite(r, s) ==
    /\ pending' = [pending EXCEPT ![r] = s]
    /\ pc' = [pc EXCEPT ![r] = "write"]

Goto(r, label) == pc' = [pc EXCEPT ![r] = label]

-----------------------------------------------------------------------------
(* submit.                                                                  *)

\* A call that finds the key claimed only loads the run or raises; that
\* changes nothing, so only the creating claim is a step.
Submit(r, request) ==
    /\ pc[r] = "idle"
    /\ claim = NoRequest
    /\ claim' = request
    /\ pending' = [pending EXCEPT ![r] = [Blank EXCEPT !.request = request]]
    /\ Goto(r, "initialize")
    /\ UNCHANGED <<log, interrupt, outputs, effects, base, budget, child>>
    /\ UNCHANGED ghosts

\* The sequence-zero QUEUED checkpoint, which reads no side-effect IDs.
InitializeRun(r) ==
    /\ pc[r] = "initialize"
    /\ log' = IF Len(log) = pending[r].seq THEN Append(log, pending[r]) ELSE log
    /\ Return(r)
    /\ UNCHANGED <<claim, interrupt, outputs, effects>>
    /\ UNCHANGED ghosts

-----------------------------------------------------------------------------
(* advance, resume and request_interrupt up to their first decision.        *)

\* advance: a terminal or interrupted run is returned unchanged.
Advance(r) ==
    /\ pc[r] = "idle"
    /\ log # <<>>
    /\ Last.phase \in {"QUEUED", "RUNNING"}
    /\ base' = [base EXCEPT ![r] = Last]
    /\ Goto(r, "decide")
    /\ UNCHANGED durable
    /\ UNCHANGED <<pending, budget, child>>
    /\ UNCHANGED ghosts

Resume(r) ==
    /\ pc[r] = "idle"
    /\ log # <<>>
    /\ Last.phase = "INTERRUPTED"
    /\ Goto(r, "clear")
    /\ UNCHANGED durable
    /\ UNCHANGED <<base, pending, budget, child>>
    /\ UNCHANGED ghosts

ClearInterrupt(r) ==
    /\ pc[r] = "clear"
    /\ interrupt' = FALSE
    /\ Goto(r, "reload")
    /\ UNCHANGED <<claim, log, outputs, effects, base, pending, budget, child>>
    /\ UNCHANGED ghosts

\* The second load of resume: whatever is latest by now.
Reload(r) ==
    /\ pc[r] = "reload"
    /\ log # <<>>
    /\ \/ /\ Last.phase \in Terminal
          /\ Return(r)
       \/ /\ Last.phase \notin Terminal
          /\ base' = [base EXCEPT ![r] = Last]
          /\ Goto(r, "decide")
          /\ UNCHANGED <<pending, budget, child>>
    /\ UNCHANGED durable
    /\ UNCHANGED ghosts

\* request_interrupt loads first and records the request in a later step.
RequestInterrupt(r) ==
    /\ pc[r] = "idle"
    /\ interrupts < MaxInterrupts
    /\ log # <<>>
    /\ Last.phase \notin Terminal
    /\ interrupts' = interrupts + 1
    /\ Goto(r, "interrupt")
    /\ UNCHANGED durable
    /\ UNCHANGED <<base, pending, budget, child, opRuns, spent, crashes>>

SetInterrupt(r) ==
    /\ pc[r] = "interrupt"
    /\ interrupt' = TRUE
    /\ Return(r)
    /\ UNCHANGED <<claim, log, outputs, effects>>
    /\ UNCHANGED ghosts

-----------------------------------------------------------------------------
(* _advance: from the loaded snapshot to the next checkpoint.               *)

\* A resumed INTERRUPTED run with a result is finalised without reading the
\* interrupt.
FinalizeInterrupted(r) ==
    /\ pc[r] = "decide"
    /\ base[r].phase = "INTERRUPTED"
    /\ base[r].result # NoResult
    /\ StartWrite(r, TerminalSnapshot(base[r], base[r].result, base[r].budget))
    /\ UNCHANGED durable
    /\ UNCHANGED <<base, budget, child>>
    /\ UNCHANGED ghosts

\* A result is checkpointed (by this call or by a lost one): interrupt or end.
InterruptOrFinalize(r) ==
    StartWrite(r, IF interrupt
                  THEN NextSnapshot(base[r], "INTERRUPTED", base[r].result,
                                    base[r].budget)
                  ELSE TerminalSnapshot(base[r], base[r].result, base[r].budget))

FinalizeRunning(r) ==
    /\ pc[r] = "decide"
    /\ base[r].phase = "RUNNING"
    /\ base[r].result # NoResult
    /\ InterruptOrFinalize(r)
    /\ UNCHANGED durable
    /\ UNCHANGED <<base, budget, child>>
    /\ UNCHANGED ghosts

InterruptBeforeExecution(r) ==
    /\ pc[r] = "decide"
    /\ base[r].result = NoResult
    /\ interrupt
    /\ StartWrite(r, NextSnapshot(base[r], "INTERRUPTED", NoResult, base[r].budget))
    /\ UNCHANGED durable
    /\ UNCHANGED <<base, budget, child>>
    /\ UNCHANGED ghosts

\* Mutant: an outstanding reservation is dropped instead of charged.
RestoredReleasing(telemetry) == [telemetry EXCEPT !.reserved = 0]

\* from_telemetry followed by abandon_graph_reservation: the outstanding
\* reservation of a lost attempt is charged.
Restored(telemetry) ==
    [steps |-> telemetry.steps + telemetry.reserved, reserved |-> 0,
     late |-> telemetry.late]

AttemptSteps == 4 * Cardinality(Children)

\* reserve_graph_steps: clock, capacity, and authorisation as a STANDARD action.
CanReserve(telemetry) ==
    /\ ~telemetry.late
    /\ telemetry.steps + AttemptSteps <= GraphLimit
    /\ telemetry.steps * 100 < 95 * GraphLimit

BeginAttempt(r) ==
    /\ pc[r] = "decide"
    /\ base[r].result = NoResult
    /\ ~interrupt
    /\ CanReserve(Restored(base[r].budget))
    /\ LET reserved == [Restored(base[r].budget) EXCEPT !.reserved = AttemptSteps]
       IN /\ budget' = [budget EXCEPT ![r] = reserved]
          /\ StartWrite(r, NextSnapshot(base[r], "RUNNING", NoResult, reserved))
    /\ UNCHANGED durable
    /\ UNCHANGED <<base, child>>
    /\ UNCHANGED ghosts

\* Mutant: the denial is raised to the caller and never checkpointed.
StopRaising(r) ==
    /\ pc[r] = "decide"
    /\ base[r].result = NoResult
    /\ ~interrupt
    /\ ~CanReserve(Restored(base[r].budget))
    /\ Return(r)
    /\ UNCHANGED durable
    /\ UNCHANGED ghosts

\* The reservation is denied: by the counters, or by the clock at this moment.
StopOnBudget(r) ==
    /\ pc[r] = "decide"
    /\ base[r].result = NoResult
    /\ ~interrupt
    /\ \E late \in BOOLEAN :
          /\ late \/ ~CanReserve(Restored(base[r].budget))
          /\ base[r].budget.late => late
          /\ StartWrite(r, TerminalSnapshot(base[r], BudgetStopResult,
                              [Restored(base[r].budget) EXCEPT !.late = late]))
    /\ UNCHANGED durable
    /\ UNCHANGED <<base, budget, child>>
    /\ UNCHANGED ghosts

\* _write_checkpoint reads the committed side-effect IDs and stores the
\* artifact; the append is a later step.
ReadCommitted(r) ==
    /\ pc[r] = "write"
    /\ pending' = [pending EXCEPT ![r].committed = Committed]
    /\ Goto(r, "append")
    /\ UNCHANGED durable
    /\ UNCHANGED <<base, budget, child>>
    /\ UNCHANGED ghosts

\* Mutant: the backend appends without comparing the sequence.
AppendUnchecked(r) ==
    /\ pc[r] = "append"
    /\ log' = Append(log, pending[r])
    /\ \/ /\ pending[r].phase = "RUNNING"
          /\ base' = [base EXCEPT ![r] = pending[r]]
          /\ pending' = [pending EXCEPT ![r] = Blank]
          /\ Goto(r, IF pending[r].result = NoResult THEN "running" ELSE "executed")
          /\ UNCHANGED <<budget, child>>
       \/ pending[r].phase # "RUNNING" /\ Return(r)
    /\ UNCHANGED <<claim, interrupt, outputs, effects>>
    /\ UNCHANGED ghosts

\* append_checkpoint compares the sequence under the backend's lock.
AppendCheckpoint(r) ==
    /\ pc[r] = "append"
    /\ pending[r].seq = Len(log)
    /\ log' = Append(log, pending[r])
    /\ \/ /\ pending[r].phase = "RUNNING"
          /\ base' = [base EXCEPT ![r] = pending[r]]
          /\ pending' = [pending EXCEPT ![r] = Blank]
          /\ Goto(r, IF pending[r].result = NoResult THEN "running" ELSE "executed")
          /\ UNCHANGED <<budget, child>>
       \/ pending[r].phase # "RUNNING" /\ Return(r)
    /\ UNCHANGED <<claim, interrupt, outputs, effects>>
    /\ UNCHANGED ghosts

\* CHECKPOINT_SEQUENCE_CONFLICT: another call wrote first; this one raises.
AppendConflict(r) ==
    /\ pc[r] = "append"
    /\ pending[r].seq # Len(log)
    /\ Return(r)
    /\ UNCHANGED durable
    /\ UNCHANGED ghosts

-----------------------------------------------------------------------------
(* One scheduler attempt: the children and their backend operations.        *)

SetChild(r, c, state) == child' = [child EXCEPT ![r][c] = state]

\* record_graph_step against the attempt's reservation, n times; late tells
\* whether the next one finds the wall-time limit reached.
Spend(b, n, late) ==
    [steps |-> b.steps + n, reserved |-> b.reserved - n, late |-> late]

RecordSteps(r, n, late) ==
    /\ budget' = [budget EXCEPT ![r] = Spend(budget[r], n, late)]
    /\ spent' = spent + n

InProgress(r) ==
    {c \in Children : child[r][c] \notin AssignmentStatus \cup {"waiting"}}

Launchable(r, c) ==
    /\ pc[r] = "running"
    /\ child[r][c] = "waiting"
    /\ Cardinality(InProgress(r)) < Concurrency
    /\ \A d \in DependsOn[c] : child[r][d] = "COMPLETED"

\* Observe, Plan and Act are counted, then the durable executor is entered.
LaunchChild(r, c) ==
    /\ Launchable(r, c)
    /\ ~budget[r].late
    /\ RecordSteps(r, 3, FALSE)
    /\ SetChild(r, c, "get")
    /\ UNCHANGED durable
    /\ UNCHANGED <<pc, base, pending, opRuns, interrupts, crashes>>

\* The wall-time limit is reached after n of the three steps.  At the slot the
\* assignment is BLOCKED, inside the subgraph it is FAILED; no executor call.
LaunchTooLate(r, c, n) ==
    /\ Launchable(r, c)
    /\ budget[r].late => n = 0
    /\ \E status \in {"BLOCKED", "FAILED"} :
          /\ status = "BLOCKED" => n = 0
          /\ SetChild(r, c, status)
    /\ RecordSteps(r, n, TRUE)
    /\ UNCHANGED durable
    /\ UNCHANGED <<pc, base, pending, opRuns, interrupts, crashes>>

\* SCHEDULE_PREREQUISITE_FAILED.
BlockChild(r, c) ==
    /\ pc[r] = "running"
    /\ child[r][c] = "waiting"
    /\ \A d \in DependsOn[c] : child[r][d] \in AssignmentStatus
    /\ \E d \in DependsOn[c] : child[r][d] # "COMPLETED"
    /\ SetChild(r, c, "BLOCKED")
    /\ UNCHANGED durable
    /\ UNCHANGED <<pc, base, pending, budget>>
    /\ UNCHANGED ghosts

\* A durable output is replayed; otherwise the physical executor runs.
GetOutput(r, c) ==
    /\ child[r][c] = "get"
    /\ SetChild(r, c, IF outputs[c] # NoValue THEN "verify"
                      ELSE IF EffectOf[c] = NoEffect THEN "put" ELSE "begin")
    /\ UNCHANGED durable
    /\ UNCHANGED <<pc, base, pending, budget>>
    /\ UNCHANGED ghosts

\* Mutant: a STARTED record is taken over as if the attempt were new.
BeginRepeatingStarted(r, c) ==
    /\ child[r][c] = "begin"
    /\ LET effect == effects[EffectOf[c]]
       IN \/ /\ effect.status \in {"ABSENT", "STARTED"}
             /\ effects' = [effects EXCEPT ![EffectOf[c]] =
                               [status |-> "STARTED", request |-> EffectRequest[c]]]
             /\ SetChild(r, c, "operate")
          \/ /\ effect.status = "COMMITTED" /\ effect.request = EffectRequest[c]
             /\ SetChild(r, c, "put")
             /\ UNCHANGED effects
    /\ UNCHANGED <<claim, log, interrupt, outputs, pc, base, pending, budget>>
    /\ UNCHANGED ghosts

\* begin_side_effect: NEW starts the operation, COMMITTED replays its result, a
\* STARTED record or a different request hash is a typed stop.
BeginSideEffect(r, c) ==
    /\ child[r][c] = "begin"
    /\ LET effect == effects[EffectOf[c]]
       IN \/ /\ effect.status = "ABSENT"
             /\ effects' = [effects EXCEPT ![EffectOf[c]] =
                               [status |-> "STARTED", request |-> EffectRequest[c]]]
             /\ SetChild(r, c, "operate")
          \/ /\ effect.status = "COMMITTED" /\ effect.request = EffectRequest[c]
             /\ SetChild(r, c, "put")
             /\ UNCHANGED effects
          \/ /\ effect.status # "ABSENT"
             /\ effect.status = "STARTED" \/ effect.request # EffectRequest[c]
             /\ SetChild(r, c, "FAILED")
             /\ UNCHANGED effects
    /\ UNCHANGED <<claim, log, interrupt, outputs, pc, base, pending, budget>>
    /\ UNCHANGED ghosts

\* The external operation; it may raise after having had its effect.
RunOperation(r, c) ==
    /\ child[r][c] = "operate"
    /\ opRuns' = [opRuns EXCEPT ![EffectOf[c]] = @ + 1]
    /\ \E state \in {"commit", "FAILED"} : SetChild(r, c, state)
    /\ UNCHANGED durable
    /\ UNCHANGED <<pc, base, pending, budget, spent, interrupts, crashes>>

CommitSideEffect(r, c) ==
    /\ child[r][c] = "commit"
    /\ LET effect == effects[EffectOf[c]]
       IN IF effect.status = "STARTED" /\ effect.request = EffectRequest[c]
          THEN /\ effects' = [effects EXCEPT ![EffectOf[c]] =
                                 [status |-> "COMMITTED", request |-> EffectRequest[c]]]
               /\ SetChild(r, c, "put")
          ELSE SetChild(r, c, "FAILED") /\ UNCHANGED effects
    /\ UNCHANGED <<claim, log, interrupt, outputs, pc, base, pending, budget>>
    /\ UNCHANGED ghosts

\* The physical executor returned v; a different durable output is a conflict.
PutOutput(r, c, v) ==
    /\ child[r][c] = "put"
    /\ \/ /\ outputs[c] \in {NoValue, v}
          /\ outputs' = [outputs EXCEPT ![c] = v]
          /\ SetChild(r, c, "verify")
       \/ /\ outputs[c] \notin {NoValue, v}
          /\ SetChild(r, c, "FAILED")
          /\ UNCHANGED outputs
    /\ UNCHANGED <<claim, log, interrupt, effects, pc, base, pending, budget>>
    /\ UNCHANGED ghosts

\* The physical executor raises before any durable output.
ExecutorFails(r, c) ==
    /\ child[r][c] \in {"begin", "put"}
    /\ SetChild(r, c, "FAILED")
    /\ UNCHANGED durable
    /\ UNCHANGED <<pc, base, pending, budget>>
    /\ UNCHANGED ghosts

\* The Verify step, then the status the validated output stands for.
VerifyChild(r, c) ==
    /\ child[r][c] = "verify"
    /\ \/ /\ ~budget[r].late
          /\ RecordSteps(r, 1, FALSE)
          /\ SetChild(r, c, StatusOfValue[outputs[c]])
       \/ /\ RecordSteps(r, 0, TRUE)
          /\ SetChild(r, c, "FAILED")
    /\ UNCHANGED durable
    /\ UNCHANGED <<pc, base, pending, opRuns, interrupts, crashes>>

\* run_sync returned: the unused reservation is released and the result is
\* checkpointed while the run is still RUNNING.
FinishSchedule(r) ==
    /\ pc[r] = "running"
    /\ \A c \in Children : child[r][c] \in AssignmentStatus
    /\ LET released == [budget[r] EXCEPT !.reserved = 0]
       IN /\ budget' = [budget EXCEPT ![r] = released]
          /\ StartWrite(r, NextSnapshot(base[r], "RUNNING", child[r], released))
    /\ UNCHANGED durable
    /\ UNCHANGED <<base, child>>
    /\ UNCHANGED ghosts

\* After the post-execution checkpoint the interrupt is read once more.
FinalizeExecuted(r) ==
    /\ pc[r] = "executed"
    /\ InterruptOrFinalize(r)
    /\ UNCHANGED durable
    /\ UNCHANGED <<base, budget, child>>
    /\ UNCHANGED ghosts

\* Process loss (SimulatedProcessTermination in the tests).
Crash(r) ==
    /\ pc[r] # "idle"
    /\ crashes < MaxCrashes
    /\ crashes' = crashes + 1
    /\ Return(r)
    /\ UNCHANGED durable
    /\ UNCHANGED <<opRuns, spent, interrupts>>

ChildStep(r, c) ==
    \/ LaunchChild(r, c)
    \/ \E n \in 0..2 : LaunchTooLate(r, c, n)
    \/ BlockChild(r, c)
    \/ GetOutput(r, c)
    \/ BeginSideEffect(r, c)
    \/ RunOperation(r, c)
    \/ CommitSideEffect(r, c)
    \/ \E v \in Values : PutOutput(r, c, v)
    \/ ExecutorFails(r, c)
    \/ VerifyChild(r, c)

\* A step of a call that is under way.
CallStep(r) ==
    \/ InitializeRun(r)
    \/ ClearInterrupt(r)
    \/ Reload(r)
    \/ SetInterrupt(r)
    \/ FinalizeInterrupted(r)
    \/ FinalizeRunning(r)
    \/ InterruptBeforeExecution(r)
    \/ BeginAttempt(r)
    \/ StopOnBudget(r)
    \/ ReadCommitted(r)
    \/ AppendCheckpoint(r)
    \/ AppendConflict(r)
    \/ \E c \in Children : ChildStep(r, c)
    \/ FinishSchedule(r)
    \/ FinalizeExecuted(r)

Next ==
    \E r \in Runtimes :
        \/ \E request \in Requests : Submit(r, request)
        \/ Advance(r)
        \/ Resume(r)
        \/ RequestInterrupt(r)
        \/ CallStep(r)
        \/ Crash(r)

Spec == Init /\ [][Next]_vars
-----------------------------------------------------------------------------
(* Properties.                                                              *)

Budget == [steps : Int, reserved : Int, late : BOOLEAN]

Snapshot == [seq : Nat, request : Requests \cup {NoRequest}, phase : Phase,
             result : Result \cup {NoResult}, budget : Budget,
             committed : SUBSET Effects]

\* The shapes of the backend's tables, of RecoverySnapshot and of the local
\* state of a call.
TypeOK ==
    /\ claim \in Requests \cup {NoRequest}
    /\ log \in Seq(Snapshot)
    /\ interrupt \in BOOLEAN
    /\ outputs \in [Children -> Values \cup {NoValue}]
    /\ effects \in [Effects -> [status : EffectStatus, request : Hashes]]
    /\ pc \in [Runtimes -> CallState]
    /\ base \in [Runtimes -> Snapshot]
    /\ pending \in [Runtimes -> Snapshot]
    /\ budget \in [Runtimes -> Budget]
    /\ child \in [Runtimes -> [Children -> ChildState]]
    /\ opRuns \in [Effects -> Nat]
    /\ spent \in Nat
    /\ interrupts \in Nat
    /\ crashes \in Nat

\* execute_side_effect: the external operation of a side-effect ID is invoked at
\* most once, whatever crashes, retries and concurrent calls of advance do.
SideEffectAtMostOnce == \A e \in Effects : opRuns[e] <= 1

\* Whatever any attempt, lost or superseded, consumed is covered by what the
\* latest checkpoint has charged or reserved, that is within the limit, and no
\* attempt takes more steps than it reserved.
StepsCharged ==
    /\ \A r \in Runtimes : budget[r].reserved >= 0
    /\ log # <<>> =>
        /\ spent <= Last.budget.steps + Last.budget.reserved
        /\ Last.budget.steps + Last.budget.reserved <= GraphLimit

\* The run a caller sees: the latest checkpoint.
RunPhase == IF log = <<>> THEN "NONE" ELSE Last.phase
RunResult == IF log = <<>> THEN NoResult ELSE Last.result
RunStatus == [res \in Result |-> ScheduleStatus(res)]

Run == INSTANCE RecoveryRun WITH
    Results <- Result, StatusOf <- RunStatus, StopResult <- BudgetStopResult,
    phase <- RunPhase, result <- RunResult

\* The backend, the calls and the crashes implement the abstract run: phases
\* follow its transitions, a result is delivered once and ended runs stay put.
ImplementsRun == Run!Spec

\* A caller that saw a schedule result or a terminal phase may rely on it: no
\* later checkpoint changes either, not even one of a call that started earlier.
ResultAndEndAreFinal == Run!ResultAndEndAreFinal

\* committed_side_effect_ids of a checkpoint are committed in the journal and
\* include those of every earlier checkpoint.
CommittedIdsGrow ==
    \A i, j \in DOMAIN log :
        /\ log[i].committed \subseteq Committed
        /\ i < j => log[i].committed \subseteq log[j].committed

\* Every checkpoint belongs to the request the idempotency key is bound to, and
\* carries the sequence number of its place.
CheckpointsBelongToClaim ==
    /\ claim = NoRequest => log = <<>>
    /\ \A i \in DOMAIN log : log[i].request = claim /\ log[i].seq = i - 1

\* An assignment reported COMPLETED has a durable output that says so, so every
\* replay of the run reports it COMPLETED again.
CompletedHasOutput ==
    \A i \in DOMAIN log, c \in Children :
        log[i].result # NoResult =>
            (log[i].result[c] = "COMPLETED" =>
                outputs[c] # NoValue /\ StatusOfValue[outputs[c]] = "COMPLETED")

\* The latest checkpoint accounts for what attempts consumed, lost ones included,
\* and for what they left behind (restore of the budget, put_assignment_output).
RunIsAccounted == StepsCharged /\ CompletedHasOutput

\* The side-effect journal against the operations in flight: one child at most
\* is between begin_side_effect and commit_side_effect for an ID, its journal
\* entry is STARTED under its own request, so its commit never conflicts.
JournalMatchesOperations ==
    /\ \A e \in Effects :
          /\ effects[e].status = "ABSENT" => opRuns[e] = 0
          /\ effects[e].status = "COMMITTED" => opRuns[e] = 1
          /\ opRuns[e] <= 1
    /\ \A r \in Runtimes, c \in Children :
          child[r][c] \in {"operate", "commit"} =>
              /\ effects[EffectOf[c]] =
                    [status |-> "STARTED", request |-> EffectRequest[c]]
              /\ opRuns[EffectOf[c]] = IF child[r][c] = "operate" THEN 0 ELSE 1
    /\ \A r, s \in Runtimes, c, d \in Children :
          /\ child[r][c] \in {"operate", "commit"}
          /\ child[s][d] \in {"operate", "commit"}
          /\ EffectOf[c] = EffectOf[d]
          => r = s /\ c = d

\* What a snapshot may follow in the log, the cases of _advance.
MayFollow(s, b) ==
    \/ /\ b.result = NoResult /\ s.result = NoResult /\ s.phase = "RUNNING"
    \/ /\ b.result = NoResult /\ s.result \in Result
       /\ b.phase = "RUNNING" /\ s.phase = "RUNNING"
    \/ /\ s.result = b.result /\ s.phase = "INTERRUPTED"
       /\ b.result # NoResult => b.phase = "RUNNING"
    \/ /\ b.result # NoResult /\ s.result = b.result
       /\ b.phase \in {"RUNNING", "INTERRUPTED"}
       /\ s.phase = ScheduleStatus(b.result)
    \/ /\ b.result = NoResult /\ s.result = BudgetStopResult
       /\ s.phase = ScheduleStatus(BudgetStopResult)

CallWorksFromLog(r) ==
    /\ pc[r] = "initialize" =>
          pending[r] = [Blank EXCEPT !.request = claim] /\ claim # NoRequest
    /\ pc[r] \in {"decide", "running", "executed", "write", "append"} =>
          /\ base[r].seq + 1 \in DOMAIN log
          /\ base[r] = log[base[r].seq + 1]
          /\ base[r].phase \notin Terminal
    /\ pc[r] = "running" =>
          base[r].phase = "RUNNING" /\ base[r].result = NoResult
    /\ pc[r] = "executed" =>
          base[r].phase = "RUNNING" /\ base[r].result # NoResult
    /\ pc[r] \in {"write", "append"} =>
          /\ pending[r].seq = base[r].seq + 1
          /\ pending[r].request = base[r].request
          /\ MayFollow(pending[r], base[r])
    /\ pc[r] = "append" =>
          /\ base[r].committed \subseteq pending[r].committed
          /\ pending[r].committed \subseteq Committed

\* What a call under way works from is a checkpoint that is still in the log,
\* open when the call read it, and what it is about to append may follow it.
CallsWorkFromLog == \A r \in Runtimes : CallWorksFromLog(r)

-----------------------------------------------------------------------------
(* Liveness: calls under way make progress (asyncio runs every ready task), *)
(* and some worker calls advance again while the run is QUEUED or RUNNING.  *)

Fairness ==
    \A r \in Runtimes : WF_vars(CallStep(r)) /\ WF_vars(Advance(r))

FairSpec == Spec /\ Fairness

Settled == log # <<>> /\ Last.phase \in Terminal \cup {"INTERRUPTED"}

\* Once its first checkpoint is written, a run reaches a terminal or interrupted
\* checkpoint in spite of crashes and of calls that lose the append race: the
\* graph-step budget bounds the attempts.
RunSettles == (log # <<>>) ~> Settled

=============================================================================
