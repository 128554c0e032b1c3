------------------------- MODULE TaskRecoveryProofs -------------------------
(***************************************************************************)
(* Proofs about TaskRecoveryRuntime, for any number of calls, children,     *)
(* side effects and crashes.                                                *)
(***************************************************************************)
EXTENDS TaskRecoveryRuntime, FiniteSetTheorems, TLAPS

-----------------------------------------------------------------------------
(* Facts that type correctness needs: a child in a side-effect state has a  *)
(* side effect, and one about to be verified has a durable output.          *)

EffectsKnown ==
    \A r \in Runtimes, c \in Children :
        child[r][c] \in {"begin", "operate", "commit"} => EffectOf[c] \in Effects

OutputKnown ==
    \A r \in Runtimes, c \in Children :
        child[r][c] = "verify" => outputs[c] \in Values

-----------------------------------------------------------------------------
(* Type correctness.                                                        *)

LEMMA BlankType == Blank \in Snapshot
BY DEF Blank, Snapshot, Budget, FreshBudget, Phase, Terminal

LEMMA NextSnapshotType ==
    ASSUME NEW s \in Snapshot, NEW p \in Phase, NEW res \in Result \cup {NoResult},
           NEW t \in Budget
    PROVE  NextSnapshot(s, p, res, t) \in Snapshot
BY DEF NextSnapshot, Snapshot

LEMMA ScheduleStatusType ==
    ASSUME NEW res
    PROVE  ScheduleStatus(res) \in Terminal \cap Phase
BY DEF ScheduleStatus, Terminal, Phase

LEMMA TerminalSnapshotType ==
    ASSUME NEW s \in Snapshot, NEW res \in Result \cup {NoResult}, NEW t \in Budget
    PROVE  TerminalSnapshot(s, res, t) \in Snapshot
BY NextSnapshotType, ScheduleStatusType DEF TerminalSnapshot

LEMMA BudgetStopType == BudgetStopResult \in Result
BY DEF BudgetStopResult, Result, AssignmentStatus

LEMMA ReturnType ==
    ASSUME TypeOK, NEW r \in Runtimes, Return(r)
    PROVE  /\ pc' \in [Runtimes -> CallState]
           /\ base' \in [Runtimes -> Snapshot]
           /\ pending' \in [Runtimes -> Snapshot]
           /\ budget' \in [Runtimes -> Budget]
           /\ child' \in [Runtimes -> [Children -> ChildState]]
BY BlankType DEF TypeOK, Return, CallState, FreshBudget, Budget, NotLaunched, ChildState

LEMMA StartWriteType ==
    ASSUME TypeOK, NEW r \in Runtimes, NEW s \in Snapshot, StartWrite(r, s)
    PROVE  /\ pc' \in [Runtimes -> CallState]
           /\ pending' \in [Runtimes -> Snapshot]
BY DEF TypeOK, StartWrite, CallState

LEMMA SetChildType ==
    ASSUME TypeOK, NEW r \in Runtimes, NEW c \in Children, NEW s \in ChildState,
           SetChild(r, c, s)
    PROVE  child' \in [Runtimes -> [Children -> ChildState]]
BY DEF TypeOK, SetChild

LEMMA RestoredType ==
    ASSUME NEW t \in Budget
    PROVE  Restored(t) \in Budget
BY DEF Restored, Budget

LEMMA AttemptStepsType == AttemptSteps \in Int
BY RecoveryAssumption, FS_CardinalityType DEF AttemptSteps

LEMMA InitTypeOK == Init => TypeOK
<1> SUFFICES ASSUME Init PROVE TypeOK
    OBVIOUS
<1>1. effects \in [Effects -> [status : EffectStatus, request : Hashes]]
    BY DEF Init, EffectStatus, Hashes
<1>2. child \in [Runtimes -> [Children -> ChildState]]
    BY DEF Init, NotLaunched, ChildState
<1>3. /\ base \in [Runtimes -> Snapshot]
      /\ pending \in [Runtimes -> Snapshot]
      /\ budget \in [Runtimes -> Budget]
      /\ pc \in [Runtimes -> CallState]
    BY BlankType DEF Init, FreshBudget, Budget, CallState
<1>4. /\ log \in Seq(Snapshot)
      /\ outputs \in [Children -> Values \cup {NoValue}]
      /\ opRuns \in [Effects -> Nat]
      /\ spent \in Nat /\ interrupts \in Nat /\ crashes \in Nat
    BY DEF Init
<1>5. claim \in Requests \cup {NoRequest} /\ interrupt \in BOOLEAN
    BY DEF Init
<1> QED
    BY <1>1, <1>2, <1>3, <1>4, <1>5 DEF TypeOK

LEMMA LastType ==
    ASSUME TypeOK, log # <<>>
    PROVE  Last \in Snapshot
BY DEF TypeOK, Last

LEMMA TypeOKStutter == TypeOK /\ UNCHANGED vars => TypeOK'
BY DEF TypeOK, vars

LEMMA SubmitType ==
    ASSUME TypeOK, NEW r \in Runtimes, NEW request \in Requests, Submit(r, request)
    PROVE  TypeOK'
<1>1. [Blank EXCEPT !.request = request] \in Snapshot
    BY BlankType DEF Snapshot
<1>2. pending' \in [Runtimes -> Snapshot] /\ pc' \in [Runtimes -> CallState]
    BY <1>1 DEF Submit, TypeOK, Goto, CallState
<1> QED
    BY <1>2 DEF Submit, TypeOK, ghosts

LEMMA InitializeRunType ==
    ASSUME TypeOK, NEW r \in Runtimes, InitializeRun(r)
    PROVE  TypeOK'
<1>1. log' \in Seq(Snapshot)
    BY DEF InitializeRun, TypeOK
<1> QED
    BY <1>1, ReturnType DEF InitializeRun, TypeOK, ghosts

LEMMA EntryType ==
    ASSUME TypeOK, NEW r \in Runtimes,
           Advance(r) \/ Resume(r) \/ ClearInterrupt(r) \/ Reload(r)
           \/ RequestInterrupt(r) \/ SetInterrupt(r)
    PROVE  TypeOK'
<1>1. CASE Advance(r)
    BY <1>1, LastType DEF Advance, TypeOK, durable, ghosts, Goto, CallState
<1>2. CASE Resume(r)
    BY <1>2 DEF Resume, TypeOK, durable, ghosts, Goto, CallState
<1>3. CASE ClearInterrupt(r)
    BY <1>3 DEF ClearInterrupt, TypeOK, ghosts, Goto, CallState
<1>4. CASE Reload(r)
  <2>1. CASE Return(r)
    BY <1>4, <2>1, ReturnType DEF Reload, TypeOK, durable, ghosts
  <2>2. CASE ~Return(r)
    <3>1. Last \in Snapshot
      BY <1>4, LastType DEF Reload
    <3>2. base' = [base EXCEPT ![r] = Last] /\ pc' = [pc EXCEPT ![r] = "decide"]
      BY <1>4, <2>2 DEF Reload, Goto
    <3> QED
      BY <1>4, <2>2, <3>1, <3>2 DEF Reload, TypeOK, durable, ghosts, CallState
  <2> QED
    BY <2>1, <2>2
<1>5. CASE RequestInterrupt(r)
    BY <1>5 DEF RequestInterrupt, TypeOK, durable, Goto, CallState
<1>6. CASE SetInterrupt(r)
    BY <1>6, ReturnType DEF SetInterrupt, TypeOK, ghosts
<1> QED
    BY <1>1, <1>2, <1>3, <1>4, <1>5, <1>6


LEMMA InterruptOrFinalizeType ==
    ASSUME TypeOK, NEW r \in Runtimes, InterruptOrFinalize(r)
    PROVE  /\ pc' \in [Runtimes -> CallState]
           /\ pending' \in [Runtimes -> Snapshot]
<1>1. base[r] \in Snapshot /\ base[r].result \in Result \cup {NoResult}
      /\ base[r].budget \in Budget
    BY DEF TypeOK, Snapshot
<1>2. TerminalSnapshot(base[r], base[r].result, base[r].budget) \in Snapshot
    BY <1>1, TerminalSnapshotType
<1>3. NextSnapshot(base[r], "INTERRUPTED", base[r].result, base[r].budget) \in Snapshot
    BY <1>1, NextSnapshotType DEF Phase
<1> QED
    BY <1>2, <1>3, StartWriteType DEF InterruptOrFinalize

LEMMA DecideType ==
    ASSUME TypeOK, NEW r \in Runtimes,
           FinalizeInterrupted(r) \/ FinalizeRunning(r)
           \/ InterruptBeforeExecution(r) \/ BeginAttempt(r) \/ StopOnBudget(r)
    PROVE  TypeOK'
<1>1. base[r] \in Snapshot /\ base[r].budget \in Budget
      /\ base[r].result \in Result \cup {NoResult}
    BY DEF TypeOK, Snapshot
<1>2. Restored(base[r].budget) \in Budget
    BY <1>1, RestoredType
<1>3. CASE FinalizeInterrupted(r)
  <2>1. TerminalSnapshot(base[r], base[r].result, base[r].budget) \in Snapshot
    BY <1>1, <1>3, TerminalSnapshotType DEF FinalizeInterrupted
  <2> QED
    BY <1>3, <2>1, StartWriteType DEF FinalizeInterrupted, TypeOK, durable, ghosts
<1>4. CASE FinalizeRunning(r)
    BY <1>4, InterruptOrFinalizeType DEF FinalizeRunning, TypeOK, durable, ghosts
<1>5. CASE InterruptBeforeExecution(r)
  <2>1. NextSnapshot(base[r], "INTERRUPTED", NoResult, base[r].budget) \in Snapshot
    BY <1>1, NextSnapshotType DEF Phase
  <2> QED
    BY <1>5, <2>1, StartWriteType DEF InterruptBeforeExecution, TypeOK, durable, ghosts
<1>6. CASE BeginAttempt(r)
  <2> DEFINE reserved == [Restored(base[r].budget) EXCEPT !.reserved = AttemptSteps]
  <2>1. reserved \in Budget
    BY <1>2, AttemptStepsType DEF Budget
  <2>2. NextSnapshot(base[r], "RUNNING", NoResult, reserved) \in Snapshot
    BY <1>1, <2>1, NextSnapshotType DEF Phase
  <2>3. /\ budget' = [budget EXCEPT ![r] = reserved]
        /\ StartWrite(r, NextSnapshot(base[r], "RUNNING", NoResult, reserved))
    BY <1>6 DEF BeginAttempt
  <2> HIDE DEF reserved
  <2> QED
    BY <1>6, <2>1, <2>2, <2>3, StartWriteType DEF BeginAttempt, TypeOK, durable, ghosts
<1>7. CASE StopOnBudget(r)
  <2>1. PICK late \in BOOLEAN :
            StartWrite(r, TerminalSnapshot(base[r], BudgetStopResult,
                             [Restored(base[r].budget) EXCEPT !.late = late]))
    BY <1>7 DEF StopOnBudget
  <2>2. [Restored(base[r].budget) EXCEPT !.late = late] \in Budget
    BY <1>2 DEF Budget
  <2>3. TerminalSnapshot(base[r], BudgetStopResult,
                             [Restored(base[r].budget) EXCEPT !.late = late]) \in Snapshot
    BY <1>1, <2>2, BudgetStopType, TerminalSnapshotType
  <2> QED
    BY <1>7, <2>1, <2>3, StartWriteType DEF StopOnBudget, TypeOK, durable, ghosts
<1> QED
    BY <1>3, <1>4, <1>5, <1>6, <1>7

LEMMA WriteType ==
    ASSUME TypeOK, NEW r \in Runtimes,
           ReadCommitted(r) \/ AppendCheckpoint(r) \/ AppendConflict(r)
    PROVE  TypeOK'
<1>1. CASE ReadCommitted(r)
  <2>1. Committed \in SUBSET Effects
    BY DEF Committed
  <2>2. pending' \in [Runtimes -> Snapshot]
    BY <1>1, <2>1 DEF ReadCommitted, TypeOK, Snapshot
  <2> QED
    BY <1>1, <2>2 DEF ReadCommitted, TypeOK, durable, ghosts, Goto, CallState
<1>2. CASE AppendCheckpoint(r)
  <2>1. log' \in Seq(Snapshot)
    BY <1>2 DEF AppendCheckpoint, TypeOK
  <2>2. CASE Return(r)
    BY <1>2, <2>1, <2>2, ReturnType DEF AppendCheckpoint, TypeOK, ghosts
  <2>3. CASE pending[r].phase = "RUNNING"
    <3>1. base' \in [Runtimes -> Snapshot] /\ pending' \in [Runtimes -> Snapshot]
      BY <1>2, <2>3, BlankType DEF AppendCheckpoint, TypeOK
    <3>2. pc' \in [Runtimes -> CallState]
      BY <1>2, <2>3 DEF AppendCheckpoint, TypeOK, Goto, CallState
    <3> QED
      BY <1>2, <2>1, <2>3, <3>1, <3>2 DEF AppendCheckpoint, TypeOK, ghosts
  <2> QED
    BY <1>2, <2>2, <2>3 DEF AppendCheckpoint
<1>3. CASE AppendConflict(r)
    BY <1>3, ReturnType DEF AppendConflict, TypeOK, durable, ghosts
<1> QED
    BY <1>1, <1>2, <1>3

LEMMA RecordStepsType ==
    ASSUME TypeOK, NEW r \in Runtimes, NEW n \in Nat, NEW late \in BOOLEAN,
           RecordSteps(r, n, late)
    PROVE  budget' \in [Runtimes -> Budget] /\ spent' \in Nat
<1>1. Spend(budget[r], n, late) \in Budget
    BY DEF TypeOK, Budget, Spend
<1> QED
    BY <1>1 DEF TypeOK, RecordSteps

LEMMA ChildStepType ==
    ASSUME TypeOK, EffectsKnown, OutputKnown,
           NEW r \in Runtimes, NEW c \in Children, ChildStep(r, c)
    PROVE  TypeOK'
<1> USE DEF durable, ghosts
<1>1. CASE LaunchChild(r, c)
  <2>1. budget' \in [Runtimes -> Budget] /\ spent' \in Nat
    BY <1>1, RecordStepsType DEF LaunchChild
  <2>2. child' \in [Runtimes -> [Children -> ChildState]]
    BY <1>1, SetChildType DEF LaunchChild, ChildState
  <2> QED
    BY <1>1, <2>1, <2>2 DEF LaunchChild, TypeOK
<1>2. ASSUME NEW n \in 0..2, LaunchTooLate(r, c, n) PROVE TypeOK'
  <2>1. budget' \in [Runtimes -> Budget] /\ spent' \in Nat
    <3>1. n \in Nat
      OBVIOUS
    <3> QED
      BY <1>2, <3>1, RecordStepsType DEF LaunchTooLate
  <2>2. child' \in [Runtimes -> [Children -> ChildState]]
    BY <1>2, SetChildType DEF LaunchTooLate, ChildState, AssignmentStatus
  <2> QED
    BY <1>2, <2>1, <2>2 DEF LaunchTooLate, TypeOK
<1>3. CASE BlockChild(r, c)
  <2>1. child' \in [Runtimes -> [Children -> ChildState]]
    BY <1>3, SetChildType DEF BlockChild, ChildState, AssignmentStatus
  <2> QED
    BY <1>3, <2>1 DEF BlockChild, TypeOK
<1>4. CASE GetOutput(r, c)
  <2>1. child' \in [Runtimes -> [Children -> ChildState]]
    BY <1>4, SetChildType DEF GetOutput, ChildState
  <2> QED
    BY <1>4, <2>1 DEF GetOutput, TypeOK
<1>5. CASE BeginSideEffect(r, c)
  <2>1. child' \in [Runtimes -> [Children -> ChildState]]
    BY <1>5, SetChildType DEF BeginSideEffect, ChildState, AssignmentStatus
  <2>2. effects' \in [Effects -> [status : EffectStatus, request : Hashes]]
    <3>1. [status |-> "STARTED", request |-> EffectRequest[c]]
             \in [status : EffectStatus, request : Hashes]
      BY DEF EffectStatus, Hashes
    <3> QED
      BY <1>5, <3>1 DEF BeginSideEffect, TypeOK
  <2> QED
    BY <1>5, <2>1, <2>2 DEF BeginSideEffect, TypeOK
<1>6. CASE RunOperation(r, c)
  <2>1. child' \in [Runtimes -> [Children -> ChildState]]
    BY <1>6, SetChildType DEF RunOperation, ChildState, AssignmentStatus
  <2>2. opRuns' \in [Effects -> Nat]
    BY <1>6 DEF RunOperation, TypeOK, EffectsKnown
  <2> QED
    BY <1>6, <2>1, <2>2 DEF RunOperation, TypeOK
<1>7. CASE CommitSideEffect(r, c)
  <2>1. child' \in [Runtimes -> [Children -> ChildState]]
    BY <1>7, SetChildType DEF CommitSideEffect, ChildState, AssignmentStatus
  <2>2. effects' \in [Effects -> [status : EffectStatus, request : Hashes]]
    <3>1. [status |-> "COMMITTED", request |-> EffectRequest[c]]
             \in [status : EffectStatus, request : Hashes]
      BY DEF EffectStatus, Hashes
    <3> QED
      BY <1>7, <3>1 DEF CommitSideEffect, TypeOK
  <2> QED
    BY <1>7, <2>1, <2>2 DEF CommitSideEffect, TypeOK
<1>8. ASSUME NEW v \in Values, PutOutput(r, c, v) PROVE TypeOK'
  <2>1. child' \in [Runtimes -> [Children -> ChildState]]
    BY <1>8, SetChildType DEF PutOutput, ChildState, AssignmentStatus
  <2>2. outputs' \in [Children -> Values \cup {NoValue}]
    BY <1>8 DEF PutOutput, TypeOK
  <2> QED
    BY <1>8, <2>1, <2>2 DEF PutOutput, TypeOK
<1>9. CASE ExecutorFails(r, c)
  <2>1. child' \in [Runtimes -> [Children -> ChildState]]
    BY <1>9, SetChildType DEF ExecutorFails, ChildState, AssignmentStatus
  <2> QED
    BY <1>9, <2>1 DEF ExecutorFails, TypeOK
<1>10. CASE VerifyChild(r, c)
  <2>1. budget' \in [Runtimes -> Budget] /\ spent' \in Nat
    BY <1>10, RecordStepsType DEF VerifyChild
  <2>2. child' \in [Runtimes -> [Children -> ChildState]]
    <3>1. StatusOfValue[outputs[c]] \in ChildState
      BY <1>10, RecoveryAssumption DEF VerifyChild, OutputKnown, ChildState,
         AssignmentStatus
    <3> QED
      BY <1>10, <3>1, SetChildType DEF VerifyChild, ChildState, AssignmentStatus
  <2> QED
    BY <1>10, <2>1, <2>2 DEF VerifyChild, TypeOK
<1> QED
    BY <1>1, <1>2, <1>3, <1>4, <1>5, <1>6, <1>7, <1>8, <1>9, <1>10 DEF ChildStep


LEMMA FinishType ==
    ASSUME TypeOK, NEW r \in Runtimes, FinishSchedule(r)
    PROVE  TypeOK'
<1> DEFINE released == [budget[r] EXCEPT !.reserved = 0]
<1>1. released \in Budget
  <2>1. budget[r] \in Budget
    BY DEF TypeOK
  <2> QED
    BY <2>1 DEF Budget
<1>2. child[r] \in Result
    BY DEF FinishSchedule, TypeOK, Result
<1>3. NextSnapshot(base[r], "RUNNING", child[r], released) \in Snapshot
  <2>1. base[r] \in Snapshot /\ "RUNNING" \in Phase
    BY DEF TypeOK, Phase
  <2> QED
    BY <1>1, <1>2, <2>1, NextSnapshotType
<1>4. /\ budget' = [budget EXCEPT ![r] = released]
      /\ StartWrite(r, NextSnapshot(base[r], "RUNNING", child[r], released))
    BY DEF FinishSchedule
<1> HIDE DEF released
<1> QED
    BY <1>1, <1>3, <1>4, StartWriteType DEF FinishSchedule, TypeOK, durable, ghosts

LEMMA CrashType ==
    ASSUME TypeOK, NEW r \in Runtimes, Crash(r)
    PROVE  TypeOK'
BY ReturnType DEF Crash, TypeOK, durable

-----------------------------------------------------------------------------
(* Children and the side-effect journal.                                    *)

ChildInv == EffectsKnown /\ OutputKnown /\ JournalMatchesOperations

\* A step outside ChildStep leaves the children alone or forgets those of one
\* call, and touches neither journal nor outputs.
LEMMA CallsLeaveChildren ==
    ASSUME NEW r \in Runtimes,
           \/ \E request \in Requests : Submit(r, request)
           \/ Advance(r) \/ Resume(r) \/ RequestInterrupt(r) \/ Crash(r)
           \/ InitializeRun(r) \/ ClearInterrupt(r) \/ Reload(r) \/ SetInterrupt(r)
           \/ FinalizeInterrupted(r) \/ FinalizeRunning(r)
           \/ InterruptBeforeExecution(r) \/ BeginAttempt(r) \/ StopOnBudget(r)
           \/ ReadCommitted(r) \/ AppendCheckpoint(r) \/ AppendConflict(r)
           \/ FinishSchedule(r) \/ FinalizeExecuted(r)
    PROVE  /\ child' = child \/ child' = [child EXCEPT ![r] = NotLaunched]
           /\ UNCHANGED <<outputs, effects, opRuns>>
BY DEF Submit, Advance, Resume, RequestInterrupt, Crash, InitializeRun,
       ClearInterrupt, Reload, SetInterrupt, FinalizeInterrupted,
       FinalizeRunning, InterruptBeforeExecution, BeginAttempt, StopOnBudget,
       ReadCommitted, AppendCheckpoint, AppendConflict, FinishSchedule,
       FinalizeExecuted, Return, durable, ghosts

LEMMA ChildInvQuiet ==
    ASSUME TypeOK, ChildInv, NEW r \in Runtimes,
           child' = child \/ child' = [child EXCEPT ![r] = NotLaunched],
           UNCHANGED <<outputs, effects, opRuns>>
    PROVE  ChildInv'
<1>1. \A s \in Runtimes, c \in Children :
          child'[s][c] = child[s][c] \/ child'[s][c] = "waiting"
    BY DEF TypeOK, NotLaunched
<1>2. EffectsKnown' /\ OutputKnown'
    BY <1>1 DEF ChildInv, EffectsKnown, OutputKnown
<1>3. JournalMatchesOperations'
    BY <1>1 DEF ChildInv, JournalMatchesOperations
<1> QED
    BY <1>2, <1>3 DEF ChildInv

\* A child step that starts or ends no operation.
LEMMA ChildInvMove ==
    ASSUME TypeOK, ChildInv, NEW r \in Runtimes, NEW c \in Children,
           NEW state \in ChildState \ {"operate", "commit"},
           state = "begin" => EffectOf[c] \in Effects,
           state = "verify" => outputs'[c] \in Values,
           SetChild(r, c, state),
           \A d \in Children : outputs[d] \in Values => outputs'[d] \in Values,
           UNCHANGED <<effects, opRuns>>
    PROVE  ChildInv'
<1>1. \A s \in Runtimes, d \in Children :
          child'[s][d] = IF s = r /\ d = c THEN state ELSE child[s][d]
    BY DEF TypeOK, SetChild
<1>2. EffectsKnown'
    BY <1>1 DEF ChildInv, EffectsKnown
<1>3. OutputKnown'
    BY <1>1 DEF ChildInv, OutputKnown
<1>4. JournalMatchesOperations'
    BY <1>1 DEF ChildInv, JournalMatchesOperations
<1> QED
    BY <1>2, <1>3, <1>4 DEF ChildInv


LEMMA ChildInvStep ==
    ASSUME TypeOK, ChildInv, NEW r \in Runtimes, NEW c \in Children,
           ChildStep(r, c)
    PROVE  ChildInv'
<1> USE DEF durable, ghosts
<1> DEFINE e == EffectOf[c]
<1>1. CASE LaunchChild(r, c)
    BY <1>1, ChildInvMove DEF LaunchChild, ChildState
<1>2. ASSUME NEW n \in 0..2, LaunchTooLate(r, c, n) PROVE ChildInv'
    BY <1>2, ChildInvMove DEF LaunchTooLate, ChildState, AssignmentStatus
<1>3. CASE BlockChild(r, c)
    BY <1>3, ChildInvMove DEF BlockChild, ChildState, AssignmentStatus
<1>4. CASE GetOutput(r, c)
  <2>1. PICK state \in {"verify", "put", "begin"} :
            /\ SetChild(r, c, state)
            /\ state = "verify" => outputs[c] # NoValue
            /\ state = "begin" => EffectOf[c] # NoEffect
    BY <1>4 DEF GetOutput
  <2>2. /\ outputs[c] # NoValue => outputs[c] \in Values
        /\ EffectOf[c] # NoEffect => EffectOf[c] \in Effects
    BY RecoveryAssumption DEF TypeOK
  <2> QED
    BY <1>4, <2>1, <2>2, ChildInvMove DEF GetOutput, ChildState
<1>5. CASE BeginSideEffect(r, c)
  <2>1. CASE effects[e].status # "ABSENT"
    BY <1>5, <2>1, ChildInvMove DEF BeginSideEffect, ChildState, AssignmentStatus
  <2>2. CASE effects[e].status = "ABSENT"
    <3>1. /\ child[r][c] = "begin"
          /\ e \in Effects
          /\ effects[e].status = "ABSENT"
          /\ effects' = [effects EXCEPT ![e] =
                            [status |-> "STARTED", request |-> EffectRequest[c]]]
          /\ SetChild(r, c, "operate")
          /\ UNCHANGED <<outputs, opRuns>>
      BY <1>5, <2>2 DEF BeginSideEffect, ChildInv, EffectsKnown
    <3>2. \A s \in Runtimes, d \in Children :
              child'[s][d] = IF s = r /\ d = c THEN "operate" ELSE child[s][d]
      BY <3>1 DEF TypeOK, SetChild
    <3>3. effects'[e] = [status |-> "STARTED", request |-> EffectRequest[c]]
          /\ \A f \in Effects \ {e} : effects'[f] = effects[f]
      BY <3>1 DEF TypeOK
    <3>4. \A s \in Runtimes, d \in Children :
              child[s][d] \in {"operate", "commit"} =>
                  EffectOf[d] \in Effects \ {e}
      <4>1. ASSUME NEW s \in Runtimes, NEW d \in Children,
                   child[s][d] \in {"operate", "commit"}
            PROVE  EffectOf[d] \in Effects /\ effects[EffectOf[d]].status = "STARTED"
        <5>1. effects[EffectOf[d]] =
                  [status |-> "STARTED", request |-> EffectRequest[d]]
          BY <4>1 DEF ChildInv, JournalMatchesOperations
        <5> QED
          BY <4>1, <5>1 DEF ChildInv, EffectsKnown
      <4> QED
        BY <3>1, <4>1
    <3>5. EffectsKnown' /\ OutputKnown'
      BY <3>1, <3>2 DEF ChildInv, EffectsKnown, OutputKnown
    <3>6. JournalMatchesOperations'
      <4>1. \A f \in Effects :
                /\ effects'[f].status = "ABSENT" => opRuns'[f] = 0
                /\ effects'[f].status = "COMMITTED" => opRuns'[f] = 1
                /\ opRuns'[f] <= 1
        BY <3>1, <3>3 DEF ChildInv, JournalMatchesOperations
      <4>2. \A s \in Runtimes, d \in Children :
                child'[s][d] \in {"operate", "commit"} =>
                    /\ effects'[EffectOf[d]] =
                          [status |-> "STARTED", request |-> EffectRequest[d]]
                    /\ opRuns'[EffectOf[d]] =
                          IF child'[s][d] = "operate" THEN 0 ELSE 1
        BY <3>1, <3>2, <3>3, <3>4 DEF ChildInv, JournalMatchesOperations
      <4>3. \A s, t \in Runtimes, d, g \in Children :
                /\ child'[s][d] \in {"operate", "commit"}
                /\ child'[t][g] \in {"operate", "commit"}
                /\ EffectOf[d] = EffectOf[g]
                => s = t /\ d = g
        BY <3>2, <3>4 DEF ChildInv, JournalMatchesOperations
      <4> QED
        BY <4>1, <4>2, <4>3 DEF JournalMatchesOperations
    <3> QED
      BY <3>5, <3>6 DEF ChildInv
  <2> QED
    BY <2>1, <2>2
<1>6. CASE RunOperation(r, c)
  <2>1. PICK state \in {"commit", "FAILED"} : SetChild(r, c, state)
    BY <1>6 DEF RunOperation
  <2>2. /\ child[r][c] = "operate"
        /\ e \in Effects
        /\ opRuns[e] = 0
        /\ effects[e] = [status |-> "STARTED", request |-> EffectRequest[c]]
        /\ opRuns' = [opRuns EXCEPT ![e] = @ + 1]
        /\ UNCHANGED <<outputs, effects>>
    BY <1>6 DEF RunOperation, ChildInv, EffectsKnown, JournalMatchesOperations
  <2>3. \A s \in Runtimes, d \in Children :
            child'[s][d] = IF s = r /\ d = c THEN state ELSE child[s][d]
    BY <2>1 DEF TypeOK, SetChild
  <2>4. opRuns'[e] = 1 /\ \A f \in Effects \ {e} : opRuns'[f] = opRuns[f]
    BY <2>2 DEF TypeOK
  <2>5. \A s \in Runtimes, d \in Children :
            child[s][d] \in {"operate", "commit"} =>
                (s = r /\ d = c) \/ EffectOf[d] \in Effects \ {e}
    BY <2>2 DEF ChildInv, EffectsKnown, JournalMatchesOperations
  <2>6. EffectsKnown' /\ OutputKnown'
    BY <2>2, <2>3 DEF ChildInv, EffectsKnown, OutputKnown
  <2>7. JournalMatchesOperations'
    <3>1. \A f \in Effects :
              /\ effects'[f].status = "ABSENT" => opRuns'[f] = 0
              /\ effects'[f].status = "COMMITTED" => opRuns'[f] = 1
              /\ opRuns'[f] <= 1
      BY <2>2, <2>4 DEF ChildInv, JournalMatchesOperations
    <3>2. \A s \in Runtimes, d \in Children :
              child'[s][d] \in {"operate", "commit"} =>
                  /\ effects'[EffectOf[d]] =
                        [status |-> "STARTED", request |-> EffectRequest[d]]
                  /\ opRuns'[EffectOf[d]] =
                        IF child'[s][d] = "operate" THEN 0 ELSE 1
      BY <2>2, <2>3, <2>4, <2>5 DEF ChildInv, JournalMatchesOperations
    <3>3. \A s, t \in Runtimes, d, g \in Children :
              /\ child'[s][d] \in {"operate", "commit"}
              /\ child'[t][g] \in {"operate", "commit"}
              /\ EffectOf[d] = EffectOf[g]
              => s = t /\ d = g
      BY <2>2, <2>3 DEF ChildInv, JournalMatchesOperations
    <3> QED
      BY <3>1, <3>2, <3>3 DEF JournalMatchesOperations
  <2> QED
    BY <2>6, <2>7 DEF ChildInv
<1>7. CASE CommitSideEffect(r, c)
  <2>1. /\ child[r][c] = "commit"
        /\ e \in Effects
        /\ opRuns[e] = 1
        /\ effects[e] = [status |-> "STARTED", request |-> EffectRequest[c]]
    BY <1>7 DEF CommitSideEffect, ChildInv, EffectsKnown, JournalMatchesOperations
  <2>2. /\ effects' = [effects EXCEPT ![e] =
                          [status |-> "COMMITTED", request |-> EffectRequest[c]]]
        /\ SetChild(r, c, "put")
        /\ UNCHANGED <<outputs, opRuns>>
    BY <1>7, <2>1 DEF CommitSideEffect
  <2>3. \A s \in Runtimes, d \in Children :
            child'[s][d] = IF s = r /\ d = c THEN "put" ELSE child[s][d]
    BY <2>2 DEF TypeOK, SetChild
  <2>4. effects'[e].status = "COMMITTED"
        /\ \A f \in Effects \ {e} : effects'[f] = effects[f]
    BY <2>1, <2>2 DEF TypeOK
  <2>5. \A s \in Runtimes, d \in Children :
            child[s][d] \in {"operate", "commit"} =>
                (s = r /\ d = c) \/ EffectOf[d] \in Effects \ {e}
    BY <2>1 DEF ChildInv, EffectsKnown, JournalMatchesOperations
  <2>6. EffectsKnown' /\ OutputKnown'
    BY <2>2, <2>3 DEF ChildInv, EffectsKnown, OutputKnown
  <2>7. JournalMatchesOperations'
    BY <2>1, <2>2, <2>3, <2>4, <2>5 DEF ChildInv, JournalMatchesOperations
  <2> QED
    BY <2>6, <2>7 DEF ChildInv
<1>8. ASSUME NEW v \in Values, PutOutput(r, c, v) PROVE ChildInv'
  <2>1. /\ \A d \in Children : outputs[d] \in Values => outputs'[d] \in Values
        /\ UNCHANGED <<effects, opRuns>>
    BY <1>8 DEF PutOutput, TypeOK
  <2>2. CASE SetChild(r, c, "verify") /\ outputs' = [outputs EXCEPT ![c] = v]
    <3>1. outputs'[c] \in Values
      BY <2>2 DEF TypeOK
    <3> QED
      BY <2>1, <2>2, <3>1, ChildInvMove DEF ChildState
  <2>3. CASE SetChild(r, c, "FAILED")
    BY <2>1, <2>3, ChildInvMove DEF ChildState, AssignmentStatus
  <2> QED
    BY <1>8, <2>2, <2>3 DEF PutOutput
<1>9. CASE ExecutorFails(r, c)
    BY <1>9, ChildInvMove DEF ExecutorFails, ChildState, AssignmentStatus
<1>10. CASE VerifyChild(r, c)
  <2>1. StatusOfValue[outputs[c]] \in AssignmentStatus
    BY <1>10, RecoveryAssumption DEF VerifyChild, ChildInv, OutputKnown,
       AssignmentStatus
  <2>2. PICK state \in AssignmentStatus : SetChild(r, c, state)
    BY <1>10, <2>1 DEF VerifyChild, AssignmentStatus
  <2> QED
    BY <1>10, <2>2, ChildInvMove DEF VerifyChild, ChildState, AssignmentStatus
<1> QED
    BY <1>1, <1>2, <1>3, <1>4, <1>5, <1>6, <1>7, <1>8, <1>9, <1>10 DEF ChildStep


LEMMA FinalizeExecutedType ==
    ASSUME TypeOK, NEW r \in Runtimes, FinalizeExecuted(r)
    PROVE  TypeOK'
BY InterruptOrFinalizeType DEF FinalizeExecuted, TypeOK, durable, ghosts

LEMMA InitChildInv == Init => ChildInv
<1> SUFFICES ASSUME Init PROVE ChildInv
    OBVIOUS
<1>1. \A r \in Runtimes, c \in Children : child[r][c] = "waiting"
    BY DEF Init, NotLaunched
<1>2. \A e \in Effects : effects[e].status = "ABSENT" /\ opRuns[e] = 0
    BY DEF Init
<1> QED
    BY <1>1, <1>2 DEF ChildInv, EffectsKnown, OutputKnown, JournalMatchesOperations

LEMMA TypeAndChildStep ==
    TypeOK /\ ChildInv /\ [Next]_vars => TypeOK' /\ ChildInv'
<1> SUFFICES ASSUME TypeOK, ChildInv, [Next]_vars PROVE TypeOK' /\ ChildInv'
    OBVIOUS
<1>1. CASE UNCHANGED vars
  <2>1. ChildInv'
    BY <1>1 DEF vars, ChildInv, EffectsKnown, OutputKnown, JournalMatchesOperations
  <2> QED
    BY <1>1, <2>1, TypeOKStutter
<1>2. ASSUME NEW r \in Runtimes, NEW c \in Children, ChildStep(r, c)
      PROVE  TypeOK' /\ ChildInv'
  <2>1. EffectsKnown /\ OutputKnown
    BY DEF ChildInv
  <2> QED
    BY <1>2, <2>1, ChildStepType, ChildInvStep
<1>3. ASSUME NEW r \in Runtimes,
             \/ \E request \in Requests : Submit(r, request)
             \/ Advance(r) \/ Resume(r) \/ RequestInterrupt(r) \/ Crash(r)
             \/ InitializeRun(r) \/ ClearInterrupt(r) \/ Reload(r) \/ SetInterrupt(r)
             \/ FinalizeInterrupted(r) \/ FinalizeRunning(r)
             \/ InterruptBeforeExecution(r) \/ BeginAttempt(r) \/ StopOnBudget(r)
             \/ ReadCommitted(r) \/ AppendCheckpoint(r) \/ AppendConflict(r)
             \/ FinishSchedule(r) \/ FinalizeExecuted(r)
      PROVE  TypeOK' /\ ChildInv'
  <2>1. ChildInv'
    BY <1>3, CallsLeaveChildren, ChildInvQuiet
  <2>2. TypeOK'
    BY <1>3, SubmitType, InitializeRunType, EntryType, DecideType, WriteType,
       FinishType, FinalizeExecutedType, CrashType
  <2> QED
    BY <2>1, <2>2
<1> QED
    BY <1>1, <1>2, <1>3 DEF Next, CallStep

\* Type correctness of the runtime for any number of calls, children, side
\* effects and crashes.
THEOREM TypeCorrect == Spec => []TypeOK
<1>1. Init => TypeOK /\ ChildInv
    BY InitTypeOK, InitChildInv
<1>2. TypeOK /\ ChildInv /\ [Next]_vars => (TypeOK /\ ChildInv)'
    BY TypeAndChildStep
<1> QED
    BY <1>1, <1>2, PTL DEF Spec

\* No external operation is invoked twice under one side-effect ID: neither a
\* crash at any point nor a concurrent call of advance repeats it.
THEOREM AtMostOnce == Spec => []SideEffectAtMostOnce
<1>1. Init => TypeOK /\ ChildInv
    BY InitTypeOK, InitChildInv
<1>2. TypeOK /\ ChildInv /\ [Next]_vars => (TypeOK /\ ChildInv)'
    BY TypeAndChildStep
<1>3. ChildInv => SideEffectAtMostOnce
    BY DEF ChildInv, JournalMatchesOperations, SideEffectAtMostOnce
<1> QED
    BY <1>1, <1>2, <1>3, PTL DEF Spec

\* The journal and the operations in flight agree: one claimant per side-effect
\* ID, and commit_side_effect always finds its own STARTED entry.
THEOREM JournalSound == Spec => []JournalMatchesOperations
<1>1. Init => TypeOK /\ ChildInv
    BY InitTypeOK, InitChildInv
<1>2. TypeOK /\ ChildInv /\ [Next]_vars => (TypeOK /\ ChildInv)'
    BY TypeAndChildStep
<1>3. ChildInv => JournalMatchesOperations
    BY DEF ChildInv
<1> QED
    BY <1>1, <1>2, <1>3, PTL DEF Spec


-----------------------------------------------------------------------------
(* The checkpoint log and the calls that work on it.                        *)

LogInv == CallsWorkFromLog /\ CheckpointsBelongToClaim /\ CommittedIdsGrow

LEMMA InitLogInv == Init => LogInv
BY DEF Init, LogInv, CallsWorkFromLog, CallWorksFromLog, CheckpointsBelongToClaim,
       CommittedIdsGrow

LogExtends ==
    /\ \A i \in DOMAIN log : i \in DOMAIN log' /\ log'[i] = log[i]
    /\ claim' = claim
    /\ Committed \subseteq Committed'

\* A call that does not move keeps its part of the invariant while the others
\* append checkpoints and commit side effects.
LEMMA OtherCalls ==
    ASSUME NEW s \in Runtimes, CallWorksFromLog(s), LogExtends,
           pc'[s] = pc[s], base'[s] = base[s], pending'[s] = pending[s]
    PROVE  CallWorksFromLog(s)'
BY DEF CallWorksFromLog, LogExtends, MayFollow

\* The log invariants when no checkpoint is appended.
LEMMA SameLog ==
    ASSUME LogInv, UNCHANGED <<log, claim>>, Committed \subseteq Committed'
    PROVE  CheckpointsBelongToClaim' /\ CommittedIdsGrow' /\ LogExtends
BY DEF LogInv, CheckpointsBelongToClaim, CommittedIdsGrow, LogExtends

\* One call moves to a state in which its part of the invariant holds.
LEMMA OneCallMoves ==
    ASSUME TypeOK, LogInv, NEW r \in Runtimes, LogExtends,
           \A s \in Runtimes \ {r} :
               pc'[s] = pc[s] /\ base'[s] = base[s] /\ pending'[s] = pending[s],
           CallWorksFromLog(r)'
    PROVE  CallsWorkFromLog'
<1>1. ASSUME NEW s \in Runtimes \ {r} PROVE CallWorksFromLog(s)'
    BY <1>1, OtherCalls DEF LogInv, CallsWorkFromLog
<1> QED
    BY <1>1 DEF CallsWorkFromLog

LEMMA ReturnMoves ==
    ASSUME TypeOK, NEW r \in Runtimes, Return(r)
    PROVE  /\ CallWorksFromLog(r)'
           /\ \A s \in Runtimes \ {r} :
                 pc'[s] = pc[s] /\ base'[s] = base[s] /\ pending'[s] = pending[s]
<1>1. pc'[r] = "idle"
    BY DEF TypeOK, Return
<1>2. CallWorksFromLog(r)'
    BY <1>1 DEF CallWorksFromLog
<1> QED
    BY <1>2 DEF TypeOK, Return

LEMMA LogInvReturn ==
    ASSUME TypeOK, LogInv, NEW r \in Runtimes, Return(r),
           UNCHANGED <<log, claim, effects>>
    PROVE  LogInv'
<1>1. Committed' = Committed
    BY DEF Committed
<1>2. CheckpointsBelongToClaim' /\ CommittedIdsGrow' /\ LogExtends
    BY <1>1, SameLog
<1> QED
    BY <1>2, ReturnMoves, OneCallMoves DEF LogInv

LEMMA LogInvChild ==
    ASSUME TypeOK, ChildInv, LogInv, NEW r \in Runtimes, NEW c \in Children,
           ChildStep(r, c)
    PROVE  LogInv'
<1>1. UNCHANGED <<log, claim, pc, base, pending>>
    BY DEF ChildStep, LaunchChild, LaunchTooLate, BlockChild, GetOutput,
           BeginSideEffect, RunOperation, CommitSideEffect, PutOutput,
           ExecutorFails, VerifyChild, durable
<1>2. Committed \subseteq Committed'
  <2>1. CASE BeginSideEffect(r, c)
    BY <2>1 DEF BeginSideEffect, Committed, TypeOK
  <2>2. CASE CommitSideEffect(r, c)
    BY <2>2 DEF CommitSideEffect, Committed, TypeOK
  <2>3. CASE UNCHANGED effects
    BY <2>3 DEF Committed
  <2> QED
    BY <2>1, <2>2, <2>3 DEF ChildStep, LaunchChild, LaunchTooLate, BlockChild,
       GetOutput, RunOperation, PutOutput, ExecutorFails, VerifyChild, durable
<1>3. CheckpointsBelongToClaim' /\ CommittedIdsGrow' /\ LogExtends
    BY <1>1, <1>2, SameLog
<1>4. CallsWorkFromLog'
    BY <1>1, <1>3, OtherCalls DEF LogInv, CallsWorkFromLog
<1> QED
    BY <1>3, <1>4 DEF LogInv


LEMMA LogInvSubmit ==
    ASSUME TypeOK, LogInv, NEW r \in Runtimes, NEW request \in Requests,
           Submit(r, request)
    PROVE  LogInv'
<1>1. log = <<>> /\ log' = <<>> /\ claim' = request /\ request # NoRequest
      /\ claim = NoRequest
    BY RecoveryAssumption DEF Submit, LogInv, CheckpointsBelongToClaim
<1>2. CheckpointsBelongToClaim' /\ CommittedIdsGrow'
    BY <1>1 DEF CheckpointsBelongToClaim, CommittedIdsGrow
<1>3. ASSUME NEW s \in Runtimes PROVE CallWorksFromLog(s)'
  <2>1. CASE s = r
    <3>1. pc'[s] = "initialize" /\ pending'[s] = [Blank EXCEPT !.request = request]
      BY <2>1 DEF TypeOK, Submit, Goto
    <3> QED
      BY <1>1, <3>1 DEF CallWorksFromLog, Blank
  <2>2. CASE s # r
    <3>1. pc'[s] = pc[s]
      BY <2>2 DEF TypeOK, Submit, Goto
    <3>2. pc[s] \notin {"initialize", "decide", "running", "executed", "write", "append"}
      BY <1>1 DEF LogInv, CallsWorkFromLog, CallWorksFromLog
    <3> QED
      BY <3>1, <3>2 DEF CallWorksFromLog
  <2> QED
    BY <2>1, <2>2
<1> QED
    BY <1>2, <1>3 DEF LogInv, CallsWorkFromLog

\* Reading the latest checkpoint establishes what a deciding call needs.
LEMMA LogInvLoad ==
    ASSUME TypeOK, LogInv, NEW r \in Runtimes, log # <<>>, Last.phase \notin Terminal,
           base' = [base EXCEPT ![r] = Last], pc' = [pc EXCEPT ![r] = "decide"],
           UNCHANGED <<pending, log, claim, effects>>
    PROVE  LogInv'
<1>1. Committed' = Committed
    BY DEF Committed
<1>2. CheckpointsBelongToClaim' /\ CommittedIdsGrow' /\ LogExtends
    BY <1>1, SameLog
<1>3. Len(log) \in DOMAIN log /\ Last.seq + 1 = Len(log)
    BY DEF TypeOK, Last, LogInv, CheckpointsBelongToClaim
<1>4. pc'[r] = "decide" /\ base'[r] = Last
    BY DEF TypeOK
<1>5. CallWorksFromLog(r)'
    BY <1>3, <1>4 DEF CallWorksFromLog, Last
<1>6. \A s \in Runtimes \ {r} :
          pc'[s] = pc[s] /\ base'[s] = base[s] /\ pending'[s] = pending[s]
    BY DEF TypeOK
<1> QED
    BY <1>2, <1>5, <1>6, OneCallMoves DEF LogInv

LEMMA LogInvEntry ==
    ASSUME TypeOK, LogInv, NEW r \in Runtimes,
           Advance(r) \/ Resume(r) \/ ClearInterrupt(r) \/ Reload(r)
           \/ RequestInterrupt(r)
    PROVE  LogInv'
<1>1. CASE Advance(r)
    BY <1>1, LogInvLoad DEF Advance, Goto, durable, Terminal
<1>2. CASE Reload(r)
    BY <1>2, LogInvLoad, LogInvReturn DEF Reload, Goto, durable
<1>3. CASE Resume(r) \/ ClearInterrupt(r) \/ RequestInterrupt(r)
  <2>1. pc'[r] \in {"clear", "reload", "interrupt"}
        /\ \A s \in Runtimes \ {r} :
              pc'[s] = pc[s] /\ base'[s] = base[s] /\ pending'[s] = pending[s]
    BY <1>3 DEF TypeOK, Resume, ClearInterrupt, RequestInterrupt, Goto
  <2>2. UNCHANGED <<log, claim>> /\ Committed' = Committed
    BY <1>3 DEF Resume, ClearInterrupt, RequestInterrupt, durable, Committed
  <2>3. CheckpointsBelongToClaim' /\ CommittedIdsGrow' /\ LogExtends
    BY <2>2, SameLog
  <2>4. CallWorksFromLog(r)'
    BY <2>1 DEF CallWorksFromLog
  <2> QED
    BY <2>1, <2>3, <2>4, OneCallMoves DEF LogInv
<1> QED
    BY <1>1, <1>2, <1>3

\* A call that has decided: what it will append may follow what it loaded.
LEMMA LogInvStartWrite ==
    ASSUME TypeOK, LogInv, NEW r \in Runtimes, NEW s,
           pc[r] \in {"decide", "running", "executed"},
           StartWrite(r, s), s.seq = base[r].seq + 1, s.request = base[r].request,
           MayFollow(s, base[r]),
           UNCHANGED <<log, claim, effects, base>>
    PROVE  LogInv'
<1>1. Committed' = Committed
    BY DEF Committed
<1>2. CheckpointsBelongToClaim' /\ CommittedIdsGrow' /\ LogExtends
    BY <1>1, SameLog
<1>3. pc'[r] = "write" /\ pending'[r] = s /\ base'[r] = base[r]
    BY DEF TypeOK, StartWrite
<1>4. CallWorksFromLog(r)
    BY DEF LogInv, CallsWorkFromLog
<1>5. CallWorksFromLog(r)'
    BY <1>3, <1>4 DEF CallWorksFromLog
<1>6. \A t \in Runtimes \ {r} :
          pc'[t] = pc[t] /\ base'[t] = base[t] /\ pending'[t] = pending[t]
    BY DEF TypeOK, StartWrite
<1> QED
    BY <1>2, <1>5, <1>6, OneCallMoves DEF LogInv

LEMMA LogInvDecide ==
    ASSUME TypeOK, LogInv, NEW r \in Runtimes,
           FinalizeInterrupted(r) \/ FinalizeRunning(r)
           \/ InterruptBeforeExecution(r) \/ BeginAttempt(r) \/ StopOnBudget(r)
           \/ FinishSchedule(r) \/ FinalizeExecuted(r)
    PROVE  LogInv'
<1> USE DEF NextSnapshot, TerminalSnapshot, durable
<1>1. base[r].result \in Result \cup {NoResult}
    BY DEF TypeOK, Snapshot
<1>2. CallWorksFromLog(r)
    BY DEF LogInv, CallsWorkFromLog
<1>3. ASSUME base[r].result # NoResult, base[r].phase = "RUNNING",
             InterruptOrFinalize(r), pc[r] \in {"decide", "executed"},
             UNCHANGED <<log, claim, effects, base>>
      PROVE  LogInv'
  <2>1. PICK s : /\ StartWrite(r, s) /\ s.seq = base[r].seq + 1
                 /\ s.request = base[r].request /\ s.result = base[r].result
                 /\ \/ s.phase = "INTERRUPTED"
                    \/ s.phase = ScheduleStatus(base[r].result)
    BY <1>3 DEF InterruptOrFinalize
  <2>2. MayFollow(s, base[r])
    BY <1>3, <2>1 DEF MayFollow
  <2> QED
    BY <1>3, <2>1, <2>2, LogInvStartWrite
<1>4. CASE FinalizeInterrupted(r)
  <2> DEFINE s == TerminalSnapshot(base[r], base[r].result, base[r].budget)
  <2>1. MayFollow(s, base[r])
    BY <1>4 DEF FinalizeInterrupted, MayFollow
  <2> QED
    BY <1>4, <2>1, LogInvStartWrite DEF FinalizeInterrupted
<1>5. CASE FinalizeRunning(r)
    BY <1>3, <1>5 DEF FinalizeRunning
<1>6. CASE FinalizeExecuted(r)
    BY <1>2, <1>3, <1>6 DEF FinalizeExecuted, CallWorksFromLog
<1>7. CASE InterruptBeforeExecution(r)
  <2> DEFINE s == NextSnapshot(base[r], "INTERRUPTED", NoResult, base[r].budget)
  <2>1. MayFollow(s, base[r])
    BY <1>7 DEF InterruptBeforeExecution, MayFollow
  <2> QED
    BY <1>7, <2>1, LogInvStartWrite DEF InterruptBeforeExecution
<1>8. CASE BeginAttempt(r)
  <2>1. PICK s : /\ StartWrite(r, s) /\ s.seq = base[r].seq + 1
                 /\ s.request = base[r].request /\ s.result = NoResult
                 /\ s.phase = "RUNNING"
    BY <1>8 DEF BeginAttempt
  <2>2. MayFollow(s, base[r])
    BY <1>8, <2>1 DEF BeginAttempt, MayFollow
  <2> QED
    BY <1>8, <2>1, <2>2, LogInvStartWrite DEF BeginAttempt
<1>9. CASE StopOnBudget(r)
  <2>1. PICK s : /\ StartWrite(r, s) /\ s.seq = base[r].seq + 1
                 /\ s.request = base[r].request /\ s.result = BudgetStopResult
                 /\ s.phase = ScheduleStatus(BudgetStopResult)
    BY <1>9 DEF StopOnBudget
  <2>2. MayFollow(s, base[r])
    BY <1>9, <2>1 DEF StopOnBudget, MayFollow
  <2> QED
    BY <1>9, <2>1, <2>2, LogInvStartWrite DEF StopOnBudget
<1>10. CASE FinishSchedule(r)
  <2>1. child[r] \in Result
    BY <1>10 DEF FinishSchedule, TypeOK, Result
  <2>2. PICK s : /\ StartWrite(r, s) /\ s.seq = base[r].seq + 1
                 /\ s.request = base[r].request /\ s.result = child[r]
                 /\ s.phase = "RUNNING"
    BY <1>10 DEF FinishSchedule
  <2>3. MayFollow(s, base[r])
    BY <1>2, <1>10, <2>1, <2>2 DEF FinishSchedule, MayFollow, CallWorksFromLog
  <2> QED
    BY <1>10, <2>2, <2>3, LogInvStartWrite DEF FinishSchedule
<1> QED
    BY <1>4, <1>5, <1>6, <1>7, <1>8, <1>9, <1>10


LEMMA LogInvReadCommitted ==
    ASSUME TypeOK, LogInv, NEW r \in Runtimes, ReadCommitted(r)
    PROVE  LogInv'
<1>1. UNCHANGED <<log, claim>> /\ Committed' = Committed
    BY DEF ReadCommitted, durable, Committed
<1>2. CheckpointsBelongToClaim' /\ CommittedIdsGrow' /\ LogExtends
    BY <1>1, SameLog
<1>3. CallWorksFromLog(r) /\ pc[r] = "write"
    BY DEF LogInv, CallsWorkFromLog, ReadCommitted
<1>4. base[r].committed \subseteq Committed
    BY <1>3 DEF CallWorksFromLog, LogInv, CommittedIdsGrow
<1>5. /\ pc'[r] = "append" /\ base'[r] = base[r]
      /\ pending'[r].committed = Committed
      /\ pending'[r].seq = pending[r].seq
      /\ pending'[r].request = pending[r].request
      /\ pending'[r].phase = pending[r].phase
      /\ pending'[r].result = pending[r].result
    BY DEF TypeOK, Snapshot, ReadCommitted, Goto
<1>6. MayFollow(pending[r], base[r]) => MayFollow(pending'[r], base'[r])
    BY <1>5 DEF MayFollow
<1>7. CallWorksFromLog(r)'
    BY <1>1, <1>3, <1>4, <1>5, <1>6 DEF CallWorksFromLog
<1>8. \A s \in Runtimes \ {r} :
          pc'[s] = pc[s] /\ base'[s] = base[s] /\ pending'[s] = pending[s]
    BY DEF TypeOK, ReadCommitted, Goto
<1> QED
    BY <1>2, <1>7, <1>8, OneCallMoves DEF LogInv

\* An append that passes the sequence test extends the very checkpoint the
\* call worked from.
LEMMA AppendExtendsLast ==
    ASSUME TypeOK, LogInv, NEW r \in Runtimes, AppendCheckpoint(r)
    PROVE  /\ log # <<>>
           /\ Last \in Snapshot /\ Last.phase \notin Terminal
           /\ base[r] = Last
           /\ log' = Append(log, pending[r])
           /\ pending[r] \in Snapshot
           /\ MayFollow(pending[r], Last)
           /\ pending[r].seq = Len(log)
           /\ pending[r].request = Last.request
           /\ Last.committed \subseteq pending[r].committed
           /\ pending[r].committed \subseteq Committed
<1>1. CallWorksFromLog(r) /\ pc[r] = "append" /\ pending[r].seq = Len(log)
      /\ log' = Append(log, pending[r])
    BY DEF LogInv, CallsWorkFromLog, AppendCheckpoint
<1>2. base[r].seq + 1 = Len(log) /\ Len(log) \in DOMAIN log
    BY <1>1 DEF CallWorksFromLog
<1>3. base[r] = Last /\ log # <<>>
    BY <1>1, <1>2 DEF CallWorksFromLog, Last, TypeOK
<1> QED
    BY <1>1, <1>3 DEF CallWorksFromLog, TypeOK

LEMMA LogInvAppend ==
    ASSUME TypeOK, LogInv, NEW r \in Runtimes, AppendCheckpoint(r)
    PROVE  LogInv'
<1>1. /\ log # <<>> /\ base[r] = Last
      /\ log' = Append(log, pending[r])
      /\ pending[r] \in Snapshot
      /\ pending[r].seq = Len(log)
      /\ pending[r].request = Last.request
      /\ Last.committed \subseteq pending[r].committed
      /\ pending[r].committed \subseteq Committed
    BY AppendExtendsLast
<1>2. claim' = claim /\ Committed' = Committed
    BY DEF AppendCheckpoint, Committed
<1>3. /\ DOMAIN log = 1..Len(log) /\ Len(log) \in Nat \ {0}
      /\ DOMAIN log' = 1..(Len(log) + 1)
      /\ \A i \in DOMAIN log : log'[i] = log[i]
      /\ log'[Len(log) + 1] = pending[r]
    BY <1>1 DEF TypeOK
<1>4. LogExtends
    BY <1>2, <1>3 DEF LogExtends
<1>5. CheckpointsBelongToClaim'
  <2>1. Last.request = claim /\ claim # NoRequest
    BY <1>1, <1>3 DEF LogInv, CheckpointsBelongToClaim, Last
  <2> QED
    BY <1>1, <1>2, <1>3, <2>1 DEF LogInv, CheckpointsBelongToClaim
<1>6. CommittedIdsGrow'
  <2>1. \A i \in DOMAIN log : log[i].committed \subseteq Last.committed
    BY <1>3 DEF LogInv, CommittedIdsGrow, Last
  <2> QED
    BY <1>1, <1>2, <1>3, <2>1 DEF LogInv, CommittedIdsGrow
<1>7. CASE Return(r)
    BY <1>4, <1>5, <1>6, <1>7, ReturnMoves, OneCallMoves DEF LogInv
<1>8. CASE pending[r].phase = "RUNNING"
  <2>1. /\ base'[r] = pending[r]
        /\ pc'[r] = IF pending[r].result = NoResult THEN "running" ELSE "executed"
        /\ \A s \in Runtimes \ {r} :
              pc'[s] = pc[s] /\ base'[s] = base[s] /\ pending'[s] = pending[s]
    BY <1>8 DEF AppendCheckpoint, TypeOK, Goto
  <2>2. CallWorksFromLog(r)'
    BY <1>1, <1>3, <1>8, <2>1 DEF CallWorksFromLog, Terminal
  <2> QED
    BY <1>4, <1>5, <1>6, <2>1, <2>2, OneCallMoves DEF LogInv
<1> QED
    BY <1>7, <1>8 DEF AppendCheckpoint

LEMMA LogInvInitialize ==
    ASSUME TypeOK, LogInv, NEW r \in Runtimes, InitializeRun(r)
    PROVE  LogInv'
<1>1. CASE log' = log
    BY <1>1, LogInvReturn DEF InitializeRun
<1>2. CASE log' # log
  <2>1. /\ pending[r] = [Blank EXCEPT !.request = claim] /\ claim # NoRequest
        /\ pc[r] = "initialize"
    BY DEF InitializeRun, LogInv, CallsWorkFromLog, CallWorksFromLog
  <2>2. /\ pending[r].seq = 0 /\ pending[r].request = claim
        /\ pending[r].committed = {}
    BY <2>1 DEF Blank
  <2>3. Len(log) = 0 /\ log' = Append(log, pending[r])
    BY <1>2, <2>2 DEF InitializeRun
  <2>4. claim' = claim /\ Committed' = Committed
    BY DEF InitializeRun, Committed
  <2>5. /\ pending[r] \in Snapshot
        /\ DOMAIN log = {} /\ DOMAIN log' = {1} /\ log'[1] = pending[r]
    BY <2>3 DEF TypeOK
  <2>7. LogExtends /\ CheckpointsBelongToClaim' /\ CommittedIdsGrow'
    <3>1. LogExtends
      BY <2>4, <2>5 DEF LogExtends
    <3>2. CheckpointsBelongToClaim'
      <4>1. claim' # NoRequest /\ log'[1].request = claim' /\ log'[1].seq = 0
        BY <2>1, <2>2, <2>4, <2>5
      <4> QED
        BY <2>5, <4>1 DEF CheckpointsBelongToClaim
    <3>3. log'[1].committed = {}
      BY <2>2, <2>5
    <3>4. CommittedIdsGrow'
      BY <2>5, <3>3 DEF CommittedIdsGrow
    <3> QED
      BY <3>1, <3>2, <3>4
  <2>6. Return(r)
    BY DEF InitializeRun
  <2> QED
    BY <2>7, <2>6, ReturnMoves, OneCallMoves DEF LogInv
<1> QED
    BY <1>1, <1>2

RuntimeInv == TypeOK /\ ChildInv /\ LogInv

LEMMA RuntimeInvInit == Init => RuntimeInv
BY InitTypeOK, InitChildInv, InitLogInv DEF RuntimeInv

LEMMA RuntimeInvStep == RuntimeInv /\ [Next]_vars => RuntimeInv'
<1> SUFFICES ASSUME RuntimeInv, [Next]_vars PROVE RuntimeInv'
    OBVIOUS
<1>1. TypeOK /\ ChildInv /\ LogInv /\ TypeOK' /\ ChildInv'
    BY TypeAndChildStep DEF RuntimeInv
<1>2. LogInv'
  <2>1. CASE UNCHANGED vars
    BY <1>1, <2>1 DEF vars, LogInv, CallsWorkFromLog, CallWorksFromLog,
       CheckpointsBelongToClaim, CommittedIdsGrow, Committed
  <2>2. ASSUME NEW r \in Runtimes, NEW c \in Children, ChildStep(r, c)
        PROVE  LogInv'
    BY <1>1, <2>2, LogInvChild
  <2>3. ASSUME NEW r \in Runtimes, Crash(r) \/ SetInterrupt(r) \/ AppendConflict(r)
        PROVE  LogInv'
    BY <1>1, <2>3, LogInvReturn DEF Crash, SetInterrupt, AppendConflict, durable
  <2> QED
    BY <1>1, <2>1, <2>2, <2>3, LogInvSubmit, LogInvEntry, LogInvDecide,
       LogInvReadCommitted, LogInvAppend, LogInvInitialize DEF Next, CallStep
<1> QED
    BY <1>1, <1>2 DEF RuntimeInv


-----------------------------------------------------------------------------
(* What the invariant yields.                                               *)

\* One key, one request, contiguous sequence numbers: whatever races on submit
\* and append_checkpoint, the log is the one of the claimed request.
THEOREM LogBelongsToClaim == Spec => []CheckpointsBelongToClaim
<1>1. RuntimeInv => CheckpointsBelongToClaim
    BY DEF RuntimeInv, LogInv
<1> QED
    BY <1>1, RuntimeInvInit, RuntimeInvStep, PTL DEF Spec

\* The side-effect IDs of a checkpoint are committed and never forgotten by a
\* later checkpoint, although they are read a step before the append.
THEOREM CommittedIdsNeverShrink == Spec => []CommittedIdsGrow
<1>1. RuntimeInv => CommittedIdsGrow
    BY DEF RuntimeInv, LogInv
<1> QED
    BY <1>1, RuntimeInvInit, RuntimeInvStep, PTL DEF Spec

\* A call that loses a race works from a checkpoint that is still in the log.
THEOREM CallsStayOnLog == Spec => []CallsWorkFromLog
<1>1. RuntimeInv => CallsWorkFromLog
    BY DEF RuntimeInv, LogInv
<1> QED
    BY <1>1, RuntimeInvInit, RuntimeInvStep, PTL DEF Spec


-----------------------------------------------------------------------------
(* The runtime implements the abstract run.                                 *)

\* A snapshot that may follow an open checkpoint is a step of the abstract run.
LEMMA MayFollowIsStep ==
    ASSUME NEW b \in Snapshot, NEW s \in Snapshot, b.phase \notin Terminal,
           MayFollow(s, b),
           RunPhase = b.phase, RunResult = b.result,
           RunPhase' = s.phase, RunResult' = s.result
    PROVE  Run!Next
<1> USE DEF Run!Open
<1>1. b.phase \in Run!Open
    BY DEF Snapshot, Phase
<1>2. b.result # NoResult => b.result \in Result
    BY DEF Snapshot
<1>3. CASE b.result = NoResult /\ s.result = NoResult /\ s.phase = "RUNNING"
    BY <1>1, <1>3 DEF Run!Next, Run!Attempt
<1>4. CASE /\ b.result = NoResult /\ s.result \in Result
           /\ b.phase = "RUNNING" /\ s.phase = "RUNNING"
  <2>1. Run!Deliver(s.result)
    BY <1>4 DEF Run!Deliver
  <2> QED
    BY <1>4, <2>1 DEF Run!Next
<1>5. CASE /\ s.result = b.result /\ s.phase = "INTERRUPTED"
           /\ b.result # NoResult => b.phase = "RUNNING"
    BY <1>1, <1>5 DEF Run!Next, Run!Interrupt
<1>6. CASE /\ b.result # NoResult /\ s.result = b.result
           /\ b.phase \in {"RUNNING", "INTERRUPTED"}
           /\ s.phase = ScheduleStatus(b.result)
    BY <1>2, <1>6 DEF Run!Next, Run!Finalize, RunStatus
<1>7. CASE /\ b.result = NoResult /\ s.result = BudgetStopResult
           /\ s.phase = ScheduleStatus(BudgetStopResult)
    BY <1>1, <1>7, BudgetStopType DEF Run!Next, Run!Stop, RunStatus
<1> QED
    BY <1>3, <1>4, <1>5, <1>6, <1>7 DEF MayFollow

\* Only two operations write checkpoints: submit and append_checkpoint.
LEMMA LogChangers ==
    [Next]_vars =>
        \/ log' = log
        \/ \E r \in Runtimes : AppendCheckpoint(r) \/ (InitializeRun(r) /\ log' # log)
<1> SUFFICES ASSUME [Next]_vars, log' # log
             PROVE  \E r \in Runtimes : AppendCheckpoint(r) \/ InitializeRun(r)
    OBVIOUS
<1>1. Next
    BY DEF vars
<1>2. PICK r \in Runtimes :
          \/ \E request \in Requests : Submit(r, request)
          \/ Advance(r) \/ Resume(r) \/ RequestInterrupt(r) \/ CallStep(r) \/ Crash(r)
    BY <1>1 DEF Next
<1>3. CallStep(r)
    BY <1>2 DEF Submit, Advance, Resume, RequestInterrupt, Crash, durable
<1>4. ASSUME NEW c \in Children, ChildStep(r, c) PROVE FALSE
    BY <1>4 DEF ChildStep, LaunchChild, LaunchTooLate, BlockChild, GetOutput,
                BeginSideEffect, RunOperation, CommitSideEffect, PutOutput,
                ExecutorFails, VerifyChild, durable
<1>5. ~ClearInterrupt(r) /\ ~Reload(r) /\ ~SetInterrupt(r) /\ ~AppendConflict(r)
    BY DEF ClearInterrupt, Reload, SetInterrupt, AppendConflict, durable
<1>6. /\ ~FinalizeInterrupted(r) /\ ~FinalizeRunning(r) /\ ~FinalizeExecuted(r)
      /\ ~InterruptBeforeExecution(r) /\ ~BeginAttempt(r) /\ ~StopOnBudget(r)
      /\ ~ReadCommitted(r) /\ ~FinishSchedule(r)
    BY DEF FinalizeInterrupted, FinalizeRunning, FinalizeExecuted,
           InterruptBeforeExecution, BeginAttempt, StopOnBudget, ReadCommitted,
           FinishSchedule, durable
<1> QED
    BY <1>3, <1>4, <1>5, <1>6 DEF CallStep

LEMMA RunStep == RuntimeInv /\ [Next]_vars => [Run!Next]_(Run!runVars)
<1> SUFFICES ASSUME RuntimeInv, [Next]_vars
             PROVE  Run!Next \/ UNCHANGED <<RunPhase, RunResult>>
    BY DEF Run!runVars
<1>1. TypeOK /\ LogInv
    BY DEF RuntimeInv
<1>2. CASE log' = log
    BY <1>2 DEF RunPhase, RunResult, Last
<1>3. ASSUME NEW r \in Runtimes, AppendCheckpoint(r) PROVE Run!Next
  <2>1. /\ log # <<>> /\ Last \in Snapshot /\ Last.phase \notin Terminal
        /\ log' = Append(log, pending[r]) /\ pending[r] \in Snapshot
        /\ MayFollow(pending[r], Last)
    BY <1>1, <1>3, AppendExtendsLast
  <2>2. log' # <<>> /\ log'[Len(log')] = pending[r]
    <3>1. log \in Seq(Snapshot) /\ pending[r] \in Snapshot
      BY <1>1, <2>1 DEF TypeOK
    <3>2. log' = Append(log, pending[r])
      BY <2>1
    <3> HIDE DEF Snapshot
    <3> QED
      BY <3>1, <3>2
  <2>3. /\ RunPhase = Last.phase /\ RunResult = Last.result
        /\ RunPhase' = pending[r].phase /\ RunResult' = pending[r].result
    BY <2>1, <2>2 DEF RunPhase, RunResult, Last
  <2> QED
    BY <2>1, <2>3, MayFollowIsStep
<1>4. ASSUME NEW r \in Runtimes, InitializeRun(r), log' # log PROVE Run!Next
  <2>1. /\ pending[r] = [Blank EXCEPT !.request = claim]
        /\ pc[r] = "initialize"
    BY <1>1, <1>4 DEF InitializeRun, LogInv, CallsWorkFromLog, CallWorksFromLog
  <2>2. /\ pending[r].seq = 0 /\ pending[r].phase = "QUEUED"
        /\ pending[r].result = NoResult
    BY <2>1 DEF Blank
  <2>3. Len(log) = 0 /\ log' = Append(log, pending[r])
    BY <1>4, <2>2 DEF InitializeRun
  <2>4. log = <<>> /\ log' # <<>> /\ log'[Len(log')] = pending[r]
    BY <1>1, <2>3 DEF TypeOK
  <2>5. /\ RunPhase = "NONE" /\ RunResult = NoResult
        /\ RunPhase' = "QUEUED" /\ RunResult' = NoResult
    BY <2>2, <2>4 DEF RunPhase, RunResult, Last
  <2> QED
    BY <2>5 DEF Run!Next, Run!Accept
<1>5. \/ log' = log
      \/ \E r \in Runtimes : AppendCheckpoint(r) \/ (InitializeRun(r) /\ log' # log)
    BY LogChangers
<1> QED
    BY <1>2, <1>3, <1>4, <1>5

\* Whatever calls, races and crashes do, whoever inspects the run sees a
\* behaviour of RecoveryRun: allowed phase changes only, one result, no way back
\* from a terminal phase.
THEOREM RuntimeImplementsRun == Spec => ImplementsRun
<1>1. Init => Run!Init
    BY DEF Init, Run!Init, RunPhase, RunResult
<1> QED
    BY <1>1, RuntimeInvInit, RuntimeInvStep, RunStep, PTL
    DEF Spec, ImplementsRun, Run!Spec

\* Of the abstract run, hence of the runtime: a result and an end are final, also
\* against the late checkpoint of a call that was thought lost.
THEOREM ResultAndEndStay == Spec => ResultAndEndAreFinal
<1>1. [Run!Next]_(Run!runVars) =>
         [/\ RunResult # NoResult => RunResult' = RunResult
          /\ RunPhase \in Run!Ended => UNCHANGED Run!runVars]_(Run!runVars)
    BY DEF Run!Next, Run!Accept, Run!Attempt, Run!Deliver, Run!Interrupt,
           Run!Finalize, Run!Stop, Run!runVars, Run!Open, Run!Ended
<1> QED
    BY <1>1, RuntimeImplementsRun, PTL
    DEF ImplementsRun, Run!Spec, ResultAndEndAreFinal, Run!ResultAndEndAreFinal

-----------------------------------------------------------------------------
(* What attempts consume and what checkpoints charge.                       *)

\* The steps a checkpoint stands for once a lost reservation is charged.
Charged(snapshot) == snapshot.budget.steps + snapshot.budget.reserved

\* The call r holds a reservation: its schedule runs, or its result waits to be
\* appended.
Attempting(r) ==
    \/ pc[r] = "running"
    \/ /\ pc[r] \in {"write", "append"}
       /\ base[r].phase = "RUNNING" /\ base[r].result = NoResult
       /\ pending[r].phase = "RUNNING" /\ pending[r].result # NoResult

\* The place in the log of the checkpoint the call r works from, and what its
\* attempt has reserved there and not consumed.
Place(r) == base[r].seq + 1
Unspent(r) == Charged(base[r]) - budget[r].steps

Waiting(r) == {c \in Children : child[r][c] = "waiting"}

BeforeAttempt == {"idle", "initialize", "clear", "reload", "decide", "interrupt"}

\* What the call r is about to append: the begin of an attempt, its result, or a
\* checkpoint that charges no more than the one before it.
PendingAccounted(r) ==
    \/ /\ pending[r].phase = "RUNNING" /\ pending[r].result = NoResult
       /\ pending[r].budget = budget[r]
       /\ budget[r].steps = Charged(base[r]) /\ budget[r].reserved = AttemptSteps
       /\ Charged(pending[r]) <= GraphLimit
       /\ child[r] = NotLaunched
    \/ /\ Attempting(r)
       /\ pending[r].budget = budget[r]
       /\ budget[r].reserved = 0
       /\ budget[r].steps <= Charged(base[r])
    \/ /\ pending[r].phase # "RUNNING"
       /\ Charged(pending[r]) = Charged(base[r])

\* A running attempt holds four steps for each child that waits and one for each
\* that is under way, so its reservation is never exceeded.
CallAccounted(r) ==
    /\ budget[r].reserved >= 0
    /\ pc[r] # "running" => InProgress(r) = {}
    /\ pc[r] \in BeforeAttempt => child[r] = NotLaunched
    /\ pc[r] = "running" =>
          /\ budget[r].steps + budget[r].reserved = Charged(base[r])
          /\ budget[r].reserved >= 4 * Cardinality(Waiting(r)) + Cardinality(InProgress(r))
    /\ pc[r] \in {"write", "append"} => PendingAccounted(r)

CallsAccounted == \A r \in Runtimes : CallAccounted(r)

\* e[i] bounds from above the steps that attempts at the first i checkpoints have
\* reserved and may still consume; with what is spent they are charged by the last.
Ledger(e) ==
    /\ e \in [0..Len(log) -> Nat]
    /\ \A i, j \in 0..Len(log) : i <= j => e[i] <= e[j]
    /\ \A r \in Runtimes : Attempting(r) =>
          /\ Place(r) \in 1..Len(log)
          /\ e[Place(r) - 1] + Unspent(r) <= e[Place(r)]
    /\ spent + e[Len(log)] <= IF log = <<>> THEN 0 ELSE Charged(Last)

LedgerInv ==
    /\ \E e : Ledger(e)
    /\ \A r, s \in Runtimes :
          Attempting(r) /\ Attempting(s) /\ Place(r) = Place(s) => r = s
    /\ log # <<>> => Charged(Last) <= GraphLimit

\* A COMPLETED child, in an attempt, in a result under way and in the log, has an
\* output that says so.
Backed(c) == outputs[c] # NoValue /\ StatusOfValue[outputs[c]] = "COMPLETED"

OutputInv ==
    /\ \A r \in Runtimes, c \in Children : child[r][c] = "COMPLETED" => Backed(c)
    /\ \A r \in Runtimes, c \in Children :
          pc[r] \in {"write", "append"} /\ pending[r].result # NoResult =>
              (pending[r].result[c] = "COMPLETED" => Backed(c))
    /\ CompletedHasOutput

AccountInv == CallsAccounted /\ LedgerInv /\ OutputInv

LEMMA NotLaunchedFacts ==
    ASSUME NEW r \in Runtimes, child[r] = NotLaunched
    PROVE  InProgress(r) = {} /\ Waiting(r) = Children
BY DEF InProgress, Waiting, NotLaunched, AssignmentStatus

LEMMA CountsAreNat ==
    ASSUME NEW r \in Runtimes
    PROVE  /\ IsFiniteSet(Waiting(r)) /\ Cardinality(Waiting(r)) \in Nat
           /\ IsFiniteSet(InProgress(r)) /\ Cardinality(InProgress(r)) \in Nat
<1>1. Waiting(r) \in SUBSET Children /\ InProgress(r) \in SUBSET Children
    BY DEF Waiting, InProgress
<1> QED
    BY <1>1, RecoveryAssumption, FS_Subset, FS_CardinalityType

LEMMA InitAccountInv == Init => AccountInv
<1> SUFFICES ASSUME Init PROVE AccountInv
    OBVIOUS
<1>1. CallsAccounted
    BY NotLaunchedFacts DEF Init, CallsAccounted, CallAccounted, FreshBudget
<1>2. LedgerInv
  <2>1. Ledger([i \in 0..0 |-> 0])
    BY DEF Init, Ledger, Attempting
  <2> QED
    BY <2>1 DEF Init, LedgerInv, Attempting
<1>3. OutputInv
    BY DEF Init, OutputInv, NotLaunched, CompletedHasOutput
<1> QED
    BY <1>1, <1>2, <1>3 DEF AccountInv

-----------------------------------------------------------------------------
(* Outputs.                                                                 *)

\* What is backed stays so, and children complete only when verified.
LEMMA OutputsStay ==
    ASSUME RuntimeInv, [Next]_vars
    PROVE  \A c \in Children : Backed(c) => Backed(c)'
<1>1. CASE UNCHANGED vars
    BY <1>1 DEF vars, Backed
<1>2. ASSUME NEW r \in Runtimes, NEW c \in Children, ChildStep(r, c),
             NEW d \in Children, Backed(d)
      PROVE  Backed(d)'
  <2>1. CASE \E v \in Values : PutOutput(r, c, v)
    BY <1>2, <2>1 DEF PutOutput, Backed, RuntimeInv, TypeOK
  <2>2. CASE UNCHANGED outputs
    BY <1>2, <2>2 DEF Backed
  <2> QED
    BY <1>2, <2>1, <2>2 DEF ChildStep, LaunchChild, LaunchTooLate, BlockChild, GetOutput,
       BeginSideEffect, RunOperation, CommitSideEffect, ExecutorFails, VerifyChild, durable
<1>3. ASSUME NEW r \in Runtimes, NEW d \in Children, Backed(d),
             \/ \E request \in Requests : Submit(r, request)
             \/ Advance(r) \/ Resume(r) \/ RequestInterrupt(r) \/ Crash(r)
             \/ InitializeRun(r) \/ ClearInterrupt(r) \/ Reload(r) \/ SetInterrupt(r)
             \/ FinalizeInterrupted(r) \/ FinalizeRunning(r)
             \/ InterruptBeforeExecution(r) \/ BeginAttempt(r) \/ StopOnBudget(r)
             \/ ReadCommitted(r) \/ AppendCheckpoint(r) \/ AppendConflict(r)
             \/ FinishSchedule(r) \/ FinalizeExecuted(r)
      PROVE  Backed(d)'
    BY <1>3, CallsLeaveChildren DEF Backed
<1> QED
    BY <1>1, <1>2, <1>3 DEF Next, CallStep

LEMMA ChildrenBacked ==
    ASSUME RuntimeInv, OutputInv, [Next]_vars
    PROVE  \A s \in Runtimes, d \in Children : child'[s][d] = "COMPLETED" => Backed(d)'
<1>1. \A s \in Runtimes, d \in Children : child[s][d] = "COMPLETED" => Backed(d)'
    BY OutputsStay DEF OutputInv
<1>2. CASE UNCHANGED vars
    BY <1>1, <1>2 DEF vars
<1>3. ASSUME NEW r \in Runtimes, NEW c \in Children, ChildStep(r, c)
      PROVE  \A s \in Runtimes, d \in Children : child'[s][d] = "COMPLETED" => Backed(d)'
  <2> USE DEF RuntimeInv, TypeOK
  <2>1. PICK state : /\ SetChild(r, c, state)
                     /\ state = "COMPLETED" =>
                            VerifyChild(r, c) /\ state = StatusOfValue[outputs[c]]
    <3>1. CASE LaunchChild(r, c) \/ BlockChild(r, c)
      <4>1. SetChild(r, c, "get") \/ SetChild(r, c, "BLOCKED")
        BY <3>1 DEF LaunchChild, BlockChild
      <4> QED
        BY <4>1
    <3>7. CASE \E n \in 0..2 : LaunchTooLate(r, c, n)
      <4>1. SetChild(r, c, "BLOCKED") \/ SetChild(r, c, "FAILED")
        BY <3>7 DEF LaunchTooLate
      <4> QED
        BY <4>1
    <3>2. CASE GetOutput(r, c) \/ RunOperation(r, c) \/ ExecutorFails(r, c)
      BY <3>2 DEF GetOutput, RunOperation, ExecutorFails
    <3>3. CASE BeginSideEffect(r, c)
      BY <3>3 DEF BeginSideEffect
    <3>4. CASE CommitSideEffect(r, c)
      BY <3>4 DEF CommitSideEffect
    <3>5. CASE \E v \in Values : PutOutput(r, c, v)
      BY <3>5 DEF PutOutput
    <3>6. CASE VerifyChild(r, c)
      <4>1. SetChild(r, c, StatusOfValue[outputs[c]]) \/ SetChild(r, c, "FAILED")
        BY <3>6 DEF VerifyChild
      <4> QED
        BY <3>6, <4>1
    <3> QED
      BY <1>3, <3>1, <3>2, <3>3, <3>4, <3>5, <3>6, <3>7 DEF ChildStep
  <2>2. /\ child'[r][c] = state
        /\ \A s \in Runtimes, d \in Children :
            child'[s][d] = IF s = r /\ d = c THEN state ELSE child[s][d]
    BY <2>1 DEF SetChild
  <2>3. state = "COMPLETED" => Backed(c)'
    <3>1. ASSUME state = "COMPLETED" PROVE Backed(c)'
      <4>1. VerifyChild(r, c) /\ state = StatusOfValue[outputs[c]]
        BY <2>1, <3>1
      <4>2. outputs[c] \in Values /\ outputs' = outputs
        BY <4>1 DEF VerifyChild, ChildInv, OutputKnown, durable
      <4> QED
        BY <3>1, <4>1, <4>2, RecoveryAssumption DEF Backed
    <3> QED
      BY <3>1
  <2> QED
    BY <1>1, <2>2, <2>3
<1>4. ASSUME NEW r \in Runtimes,
             \/ \E request \in Requests : Submit(r, request)
             \/ Advance(r) \/ Resume(r) \/ RequestInterrupt(r) \/ Crash(r)
             \/ InitializeRun(r) \/ ClearInterrupt(r) \/ Reload(r) \/ SetInterrupt(r)
             \/ FinalizeInterrupted(r) \/ FinalizeRunning(r)
             \/ InterruptBeforeExecution(r) \/ BeginAttempt(r) \/ StopOnBudget(r)
             \/ ReadCommitted(r) \/ AppendCheckpoint(r) \/ AppendConflict(r)
             \/ FinishSchedule(r) \/ FinalizeExecuted(r)
      PROVE  \A s \in Runtimes, d \in Children : child'[s][d] = "COMPLETED" => Backed(d)'
  <2>1. child' = child \/ child' = [child EXCEPT ![r] = NotLaunched]
    BY <1>4, CallsLeaveChildren
  <2> QED
    BY <1>1, <2>1 DEF RuntimeInv, TypeOK, NotLaunched
<1> QED
    BY <1>2, <1>3, <1>4 DEF Next, CallStep

\* A step is of one call; the others keep their locals.
LEMMA OthersStay ==
    ASSUME RuntimeInv, NEW r \in Runtimes,
           \/ \E request \in Requests : Submit(r, request)
           \/ Advance(r) \/ Resume(r) \/ RequestInterrupt(r) \/ Crash(r) \/ CallStep(r),
           NEW s \in Runtimes \ {r}
    PROVE  /\ pc'[s] = pc[s] /\ base'[s] = base[s] /\ pending'[s] = pending[s]
           /\ budget'[s] = budget[s] /\ child'[s] = child[s]
<1> USE DEF RuntimeInv, TypeOK, durable, ghosts
<1>1. ASSUME NEW c \in Children, ChildStep(r, c)
      PROVE  /\ pc'[s] = pc[s] /\ base'[s] = base[s] /\ pending'[s] = pending[s]
             /\ budget'[s] = budget[s] /\ child'[s] = child[s]
    BY <1>1 DEF ChildStep, LaunchChild, LaunchTooLate, BlockChild, GetOutput,
       BeginSideEffect, RunOperation, CommitSideEffect, PutOutput, ExecutorFails,
       VerifyChild, SetChild, RecordSteps
<1>2. ASSUME Return(r)
      PROVE  /\ pc'[s] = pc[s] /\ base'[s] = base[s] /\ pending'[s] = pending[s]
             /\ budget'[s] = budget[s] /\ child'[s] = child[s]
    BY <1>2 DEF Return
<1>3. CASE \/ \E request \in Requests : Submit(r, request)
           \/ Advance(r) \/ Resume(r) \/ RequestInterrupt(r)
           \/ ClearInterrupt(r) \/ (Reload(r) /\ ~Return(r)) \/ ReadCommitted(r)
           \/ (AppendCheckpoint(r) /\ ~Return(r))
    BY <1>3 DEF Submit, Advance, Resume, RequestInterrupt, ClearInterrupt, Reload,
       ReadCommitted, AppendCheckpoint, Goto
<1>4. CASE \/ FinalizeInterrupted(r) \/ FinalizeRunning(r) \/ InterruptBeforeExecution(r)
           \/ BeginAttempt(r) \/ StopOnBudget(r) \/ FinishSchedule(r) \/ FinalizeExecuted(r)
    BY <1>4 DEF FinalizeInterrupted, FinalizeRunning, InterruptBeforeExecution,
       BeginAttempt, StopOnBudget, FinishSchedule, FinalizeExecuted, InterruptOrFinalize,
       StartWrite
<1>5. CASE Crash(r) \/ InitializeRun(r) \/ SetInterrupt(r) \/ AppendConflict(r)
    BY <1>2, <1>5 DEF Crash, InitializeRun, SetInterrupt, AppendConflict
<1> QED
    BY <1>1, <1>2, <1>3, <1>4, <1>5 DEF CallStep

\* A result that is about to be written is the one of the checkpoint the call works
\* from, the one it was to write before, what its children ended with, or a stop.
LEMMA PendingResult ==
    ASSUME RuntimeInv, NEW r \in Runtimes,
           \/ \E request \in Requests : Submit(r, request)
           \/ Advance(r) \/ Resume(r) \/ RequestInterrupt(r) \/ Crash(r) \/ CallStep(r),
           pc'[r] \in {"write", "append"}
    PROVE  \/ pc[r] \in {"write", "append"} /\ pending'[r].result = pending[r].result
           \/ /\ pc[r] \in {"decide", "running", "executed"}
              /\ pending'[r].result \in {base[r].result, NoResult, child[r], BudgetStopResult}
<1> USE DEF RuntimeInv, TypeOK, durable, ghosts
<1>1. ASSUME NEW c \in Children, ChildStep(r, c)
      PROVE  pc' = pc /\ pending' = pending
    BY <1>1 DEF ChildStep, LaunchChild, LaunchTooLate, BlockChild, GetOutput,
       BeginSideEffect, RunOperation, CommitSideEffect, PutOutput, ExecutorFails,
       VerifyChild
<1>2. ~Return(r)
    BY DEF Return
<1>3. CASE \/ \E request \in Requests : Submit(r, request)
           \/ Advance(r) \/ Resume(r) \/ RequestInterrupt(r) \/ ClearInterrupt(r) \/ Reload(r)
    BY <1>2, <1>3 DEF Submit, Advance, Resume, RequestInterrupt, ClearInterrupt, Reload, Goto
<1>4. CASE AppendCheckpoint(r)
    BY <1>2, <1>4 DEF AppendCheckpoint, Goto
<1>5. CASE ReadCommitted(r)
    BY <1>5 DEF ReadCommitted, Goto, Snapshot
<1>6. CASE \/ FinalizeInterrupted(r) \/ FinalizeRunning(r) \/ InterruptBeforeExecution(r)
           \/ BeginAttempt(r) \/ StopOnBudget(r) \/ FinishSchedule(r) \/ FinalizeExecuted(r)
    BY <1>6 DEF FinalizeInterrupted, FinalizeRunning, InterruptBeforeExecution,
       BeginAttempt, StopOnBudget, FinishSchedule, FinalizeExecuted, InterruptOrFinalize,
       StartWrite, NextSnapshot, TerminalSnapshot
<1> QED
    BY <1>1, <1>2, <1>3, <1>4, <1>5, <1>6
    DEF CallStep, Crash, InitializeRun, SetInterrupt, AppendConflict

LEMMA OutputInvStep ==
    ASSUME RuntimeInv, OutputInv, [Next]_vars
    PROVE  OutputInv'
<1> USE DEF RuntimeInv, TypeOK
<1> DEFINE Fine(res) == res # NoResult =>
                           \A c \in Children : res[c] = "COMPLETED" => Backed(c)'
<1>1. \A c \in Children : Backed(c) => Backed(c)'
    BY OutputsStay
<1>2. \A r \in Runtimes, c \in Children : child'[r][c] = "COMPLETED" => Backed(c)'
    BY ChildrenBacked
<1>3. \A i \in DOMAIN log : Fine(log[i].result)
    BY <1>1 DEF OutputInv, CompletedHasOutput, Backed
<1>4. \A r \in Runtimes : pc[r] \in {"decide", "running", "executed"} => Fine(base[r].result)
    BY <1>3 DEF LogInv, CallsWorkFromLog, CallWorksFromLog
<1>5. \A r \in Runtimes : pc[r] \in {"write", "append"} => Fine(pending[r].result)
    BY <1>1 DEF OutputInv
<1>6. \A r \in Runtimes : Fine(child[r])
    BY <1>1 DEF OutputInv
<1>7. Fine(NoResult) /\ Fine(BudgetStopResult)
    BY DEF BudgetStopResult
<1>8. \A r \in Runtimes : pc'[r] \in {"write", "append"} => Fine(pending'[r].result)
  <2> SUFFICES ASSUME NEW q \in Runtimes, pc'[q] \in {"write", "append"}
               PROVE  Fine(pending'[q].result)
    OBVIOUS
  <2> HIDE DEF Fine
  <2>1. CASE UNCHANGED vars
    BY <1>5, <2>1 DEF vars
  <2>2. CASE Next
    <3>1. PICK r \in Runtimes :
           \/ \E request \in Requests : Submit(r, request)
           \/ Advance(r) \/ Resume(r) \/ RequestInterrupt(r) \/ Crash(r) \/ CallStep(r)
      BY <2>2 DEF Next
    <3>2. CASE q # r
      BY <1>5, <3>1, <3>2, OthersStay
    <3>3. CASE q = r
      BY <1>4, <1>5, <1>6, <1>7, <3>1, <3>3, PendingResult
    <3> QED
      BY <3>2, <3>3
  <2> QED
    BY <2>1, <2>2
<1>9. \A i \in DOMAIN log' : Fine(log'[i].result)
  <2> HIDE DEF Fine
  <2>1. CASE log' = log
    BY <1>3, <2>1
  <2>2. ASSUME NEW r \in Runtimes, log' = Append(log, pending[r]), Fine(pending[r].result)
        PROVE  \A i \in DOMAIN log' : Fine(log'[i].result)
    <3>1. \A i \in DOMAIN log' : log'[i] = pending[r] \/ (i \in DOMAIN log /\ log'[i] = log[i])
      BY <2>2
    <3> QED
      BY <1>3, <2>2, <3>1
  <2>3. ASSUME NEW r \in Runtimes, AppendCheckpoint(r)
        PROVE  log' = Append(log, pending[r]) /\ Fine(pending[r].result)
    BY <1>5, <2>3 DEF AppendCheckpoint
  <2>4. ASSUME NEW r \in Runtimes, InitializeRun(r), log' # log
        PROVE  log' = Append(log, pending[r]) /\ Fine(pending[r].result)
    BY <1>7, <2>4 DEF InitializeRun, LogInv, CallsWorkFromLog, CallWorksFromLog, Blank
  <2> QED
    BY <2>1, <2>2, <2>3, <2>4, LogChangers
<1> QED
    BY <1>2, <1>8, <1>9 DEF OutputInv, CompletedHasOutput, Backed

-----------------------------------------------------------------------------
(* The reservation of one call.                                             *)

\* A call whose locals stay is accounted for as before.
LEMMA StaysAccounted ==
    ASSUME NEW s \in Runtimes, CallAccounted(s),
           pc'[s] = pc[s], base'[s] = base[s], pending'[s] = pending[s],
           budget'[s] = budget[s], child'[s] = child[s]
    PROVE  CallAccounted(s)'
<1>1. /\ Attempting(s)' <=> Attempting(s)
      /\ InProgress(s)' = InProgress(s) /\ Waiting(s)' = Waiting(s)
    BY DEF Attempting, InProgress, Waiting
<1>2. PendingAccounted(s) => PendingAccounted(s)'
    BY <1>1 DEF PendingAccounted, Charged
<1> QED
    BY <1>1, <1>2 DEF CallAccounted, Charged

LEMMA ReturnAccounted ==
    ASSUME RuntimeInv, NEW r \in Runtimes, Return(r)
    PROVE  CallAccounted(r)'
<1>1. pc'[r] = "idle" /\ budget'[r] = FreshBudget /\ child'[r] = NotLaunched
    BY DEF RuntimeInv, TypeOK, Return
<1>2. InProgress(r)' = {}
    BY <1>1 DEF InProgress, NotLaunched, AssignmentStatus
<1> QED
    BY <1>1, <1>2 DEF CallAccounted, FreshBudget, BeforeAttempt

\* States of a child between its launch and its end.
UnderWay == ChildState \ (AssignmentStatus \cup {"waiting"})

\* The child c moves to the state to and takes n of its call's reserved steps.
Pays(r, c, to, n) ==
    /\ SetChild(r, c, to)
    /\ budget'[r].steps = budget[r].steps + n
    /\ budget'[r].reserved = budget[r].reserved - n
    /\ \/ child[r][c] = "waiting" /\ to = "get" /\ n = 3
       \/ child[r][c] = "waiting" /\ to \in AssignmentStatus /\ n \in 0..2
       \/ child[r][c] \in UnderWay /\ to \in UnderWay /\ n = 0
       \/ child[r][c] \in UnderWay /\ to \in AssignmentStatus /\ n \in 0..1

LEMMA ChildPays ==
    ASSUME RuntimeInv, NEW r \in Runtimes, NEW c \in Children, ChildStep(r, c)
    PROVE  \E to \in ChildState, n \in Int : Pays(r, c, to, n)
<1> USE DEF RuntimeInv, TypeOK
<1>1. /\ AssignmentStatus \subseteq ChildState
      /\ "FAILED" \in AssignmentStatus /\ "BLOCKED" \in AssignmentStatus
      /\ "get" \in UnderWay /\ "verify" \in UnderWay /\ "put" \in UnderWay
      /\ "begin" \in UnderWay /\ "operate" \in UnderWay /\ "commit" \in UnderWay
      /\ UnderWay \subseteq ChildState
    BY DEF ChildState, AssignmentStatus, UnderWay
<1>2. budget[r].steps \in Int /\ budget[r].reserved \in Int
    BY DEF Budget
<1>3. ASSUME NEW m \in Int, NEW late, RecordSteps(r, m, late)
      PROVE  /\ budget'[r].steps = budget[r].steps + m
             /\ budget'[r].reserved = budget[r].reserved - m
    BY <1>2, <1>3 DEF RecordSteps, Spend
<1>4. budget' = budget => /\ budget'[r].steps = budget[r].steps + 0
                          /\ budget'[r].reserved = budget[r].reserved - 0
    BY <1>2
<1>5. CASE LaunchChild(r, c)
  <2>1. /\ SetChild(r, c, "get") /\ child[r][c] = "waiting" /\ RecordSteps(r, 3, FALSE)
    BY <1>5 DEF LaunchChild, Launchable
  <2>2. PICK m \in Int : m = 3
    OBVIOUS
  <2>3. Pays(r, c, "get", m)
    BY <1>3, <2>1, <2>2 DEF Pays
  <2> QED
    BY <1>1, <2>3
<1>6. ASSUME NEW m \in 0..2, LaunchTooLate(r, c, m)
      PROVE  \E to \in ChildState, n \in Int : Pays(r, c, to, n)
  <2>1. PICK status \in {"BLOCKED", "FAILED"} : SetChild(r, c, status)
    BY <1>6 DEF LaunchTooLate
  <2>2. child[r][c] = "waiting" /\ RecordSteps(r, m, TRUE)
    BY <1>6 DEF LaunchTooLate, Launchable
  <2>3. m \in Int /\ status \in AssignmentStatus
    BY <1>1, <2>1
  <2>4. /\ budget'[r].steps = budget[r].steps + m
        /\ budget'[r].reserved = budget[r].reserved - m
    BY <1>3, <2>2, <2>3
  <2>5. Pays(r, c, status, m)
    BY <1>6, <2>1, <2>2, <2>3, <2>4 DEF Pays
  <2> QED
    BY <1>1, <2>3, <2>5
<1>7. ASSUME NEW to \in {"verify", "put", "begin", "operate", "commit", "FAILED", "BLOCKED"},
             SetChild(r, c, to), budget' = budget,
             \/ child[r][c] \in UnderWay /\ to # "BLOCKED"
             \/ child[r][c] = "waiting" /\ to = "BLOCKED"
      PROVE  \E state \in ChildState, n \in Int : Pays(r, c, state, n)
  <2>1. PICK m \in Int : m = 0
    OBVIOUS
  <2>2. Pays(r, c, to, m)
    BY <1>1, <1>4, <1>7, <2>1 DEF Pays
  <2> QED
    BY <1>1, <1>7, <2>2
<1>8. CASE BlockChild(r, c)
  <2>1. SetChild(r, c, "BLOCKED") /\ child[r][c] = "waiting" /\ budget' = budget
    BY <1>8 DEF BlockChild
  <2> QED
    BY <1>7, <2>1
<1>9. CASE \/ GetOutput(r, c) \/ BeginSideEffect(r, c) \/ RunOperation(r, c)
           \/ CommitSideEffect(r, c) \/ (\E v \in Values : PutOutput(r, c, v))
           \/ ExecutorFails(r, c)
  <2>1. /\ budget' = budget /\ child[r][c] \in UnderWay
        /\ \/ SetChild(r, c, "verify") \/ SetChild(r, c, "put") \/ SetChild(r, c, "begin")
           \/ SetChild(r, c, "operate") \/ SetChild(r, c, "commit")
           \/ SetChild(r, c, "FAILED")
    BY <1>9 DEF GetOutput, BeginSideEffect, RunOperation, CommitSideEffect, PutOutput,
       ExecutorFails, ghosts, ChildState, AssignmentStatus, UnderWay
  <2>2. PICK to \in {"verify", "put", "begin", "operate", "commit", "FAILED"} :
            SetChild(r, c, to)
    BY <2>1
  <2> QED
    BY <1>7, <2>1, <2>2
<1>10. CASE VerifyChild(r, c)
  <2>1. child[r][c] = "verify" /\ outputs[c] \in Values
    BY <1>10 DEF VerifyChild, ChildInv, OutputKnown
  <2>2. StatusOfValue[outputs[c]] \in AssignmentStatus
    BY <2>1, RecoveryAssumption DEF AssignmentStatus
  <2>3. PICK one \in Int, zero \in Int : one = 1 /\ zero = 0
    OBVIOUS
  <2>4. \/ RecordSteps(r, one, FALSE) /\ SetChild(r, c, StatusOfValue[outputs[c]])
        \/ RecordSteps(r, zero, TRUE) /\ SetChild(r, c, "FAILED")
    BY <1>10, <2>3 DEF VerifyChild
  <2>5. ASSUME NEW m \in {zero, one}, NEW status \in AssignmentStatus, NEW late,
               RecordSteps(r, m, late), SetChild(r, c, status)
        PROVE  Pays(r, c, status, m)
    <3>1. m \in Int
      BY <2>3
    <3>2. /\ budget'[r].steps = budget[r].steps + m
          /\ budget'[r].reserved = budget[r].reserved - m
      BY <1>3, <2>5, <3>1
    <3> QED
      BY <1>1, <2>1, <2>3, <2>5, <3>2 DEF Pays
  <2>6. Pays(r, c, StatusOfValue[outputs[c]], one) \/ Pays(r, c, "FAILED", zero)
    BY <1>1, <2>2, <2>4, <2>5
  <2> QED
    BY <1>1, <2>2, <2>6
<1> QED
    BY <1>5, <1>6, <1>8, <1>9, <1>10 DEF ChildStep

\* Children of an attempt: each pays for the steps it takes.
LEMMA ChildAccounted ==
    ASSUME RuntimeInv, NEW r \in Runtimes, CallAccounted(r), NEW c \in Children,
           ChildStep(r, c)
    PROVE  CallAccounted(r)' /\ pc[r] = "running"
<1> USE DEF RuntimeInv, TypeOK
<1>1. pc[r] = "running"
  <2>1. child[r][c] \notin AssignmentStatus \cup {"waiting"} => c \in InProgress(r)
    BY DEF InProgress
  <2>2. CASE c \in InProgress(r)
    BY <2>2 DEF CallAccounted
  <2> QED
    BY <2>1, <2>2 DEF ChildStep, LaunchChild, LaunchTooLate, BlockChild, GetOutput,
       BeginSideEffect, RunOperation, CommitSideEffect, PutOutput, ExecutorFails,
       VerifyChild, Launchable, AssignmentStatus
<1>2. pc' = pc /\ base' = base
    BY DEF ChildStep, LaunchChild, LaunchTooLate, BlockChild, GetOutput,
       BeginSideEffect, RunOperation, CommitSideEffect, PutOutput, ExecutorFails,
       VerifyChild
<1>3. budget[r] \in Budget /\ Charged(base[r]) \in Int
    BY DEF Budget, Snapshot, Charged
<1>4. PICK state \in ChildState, n \in Int : Pays(r, c, state, n)
    BY ChildPays
<1>5. /\ child'[r][c] = state
      /\ \A d \in Children \ {c} : child'[r][d] = child[r][d]
    BY <1>4 DEF Pays, SetChild
<1> DEFINE w == Waiting(r)
           p == InProgress(r)
<1>6. /\ IsFiniteSet(w) /\ Cardinality(w) \in Nat
      /\ IsFiniteSet(p) /\ Cardinality(p) \in Nat
    BY CountsAreNat
<1>7. "get" \in UnderWay /\ "waiting" \notin AssignmentStatus
    BY DEF ChildState, AssignmentStatus, UnderWay
<1>8. /\ Waiting(r)' = IF state = "waiting" THEN w \cup {c} ELSE w \ {c}
      /\ InProgress(r)' = IF state \in UnderWay THEN p \cup {c} ELSE p \ {c}
    BY <1>4, <1>5, <1>7 DEF Waiting, InProgress, UnderWay
<1>9. /\ c \in w <=> child[r][c] = "waiting"
      /\ c \in p <=> child[r][c] \in UnderWay
    BY DEF Waiting, InProgress, UnderWay
<1>10. 4 * Cardinality(Waiting(r)') + Cardinality(InProgress(r)') + n
          <= 4 * Cardinality(w) + Cardinality(p)
  <2> HIDE DEF w, p
  <2>1. /\ Cardinality(w \ {c}) = IF c \in w THEN Cardinality(w) - 1 ELSE Cardinality(w)
        /\ Cardinality(p \ {c}) = IF c \in p THEN Cardinality(p) - 1 ELSE Cardinality(p)
    BY <1>6, FS_RemoveElement
  <2>2. Cardinality(p \cup {c}) = IF c \in p THEN Cardinality(p) ELSE Cardinality(p) + 1
    BY <1>6, FS_AddElement
  <2> HIDE DEF UnderWay
  <2>3. CASE child[r][c] = "waiting" /\ state = "get" /\ n = 3
    BY <1>6, <1>7, <1>8, <1>9, <2>1, <2>2, <2>3
  <2>4. CASE child[r][c] = "waiting" /\ state \in AssignmentStatus /\ n \in 0..2
    BY <1>6, <1>7, <1>8, <1>9, <2>1, <2>2, <2>4 DEF UnderWay
  <2>5. CASE child[r][c] \in UnderWay /\ state \in UnderWay /\ n = 0
    BY <1>6, <1>7, <1>8, <1>9, <2>1, <2>2, <2>5 DEF UnderWay
  <2>6. CASE child[r][c] \in UnderWay /\ state \in AssignmentStatus /\ n \in 0..1
    BY <1>6, <1>7, <1>8, <1>9, <2>1, <2>2, <2>6 DEF UnderWay
  <2> QED
    BY <1>4, <2>3, <2>4, <2>5, <2>6 DEF Pays
<1>11. /\ Cardinality(Waiting(r)') \in Nat /\ Cardinality(InProgress(r)') \in Nat
       /\ budget'[r].reserved \in Int
  <2> HIDE DEF w, p
  <2>2. /\ IsFiniteSet(w \cup {c}) /\ IsFiniteSet(w \ {c})
        /\ IsFiniteSet(p \cup {c}) /\ IsFiniteSet(p \ {c})
    BY <1>6, FS_AddElement, FS_RemoveElement
  <2>1. IsFiniteSet(Waiting(r)') /\ IsFiniteSet(InProgress(r)')
    BY <1>8, <2>2
  <2> QED
    BY <2>1, <1>3, <1>4, FS_CardinalityType DEF Budget, Pays
<1>12. /\ budget'[r].steps + budget'[r].reserved = Charged(base'[r])
       /\ budget'[r].reserved >= 4 * Cardinality(Waiting(r)') + Cardinality(InProgress(r)')
  <2>1. /\ budget[r].steps + budget[r].reserved = Charged(base[r])
        /\ budget[r].reserved >= 4 * Cardinality(w) + Cardinality(p)
        /\ Charged(base[r])' = Charged(base[r])
    BY <1>1, <1>2 DEF CallAccounted, Charged
  <2> HIDE DEF w, p
  <2>2. Cardinality(Waiting(r)') \in Int /\ Cardinality(InProgress(r)') \in Int
    BY <1>11
  <2>3. budget[r].steps \in Int /\ budget[r].reserved \in Int
    BY <1>3 DEF Budget
  <2>4. budget'[r].steps + budget'[r].reserved = Charged(base[r])
    BY <1>4, <2>1, <2>3 DEF Pays
  <2>5. budget'[r].reserved >= 4 * Cardinality(Waiting(r)') + Cardinality(InProgress(r)')
    BY <1>4, <1>6, <1>10, <2>1, <2>2, <2>3 DEF Pays
  <2> QED
    BY <1>2, <2>4, <2>5 DEF Charged
<1>13. budget'[r].reserved >= 0
    BY <1>11, <1>12
<1> QED
    BY <1>1, <1>2, <1>12, <1>13 DEF CallAccounted, BeforeAttempt

\* A call enters decide, from which an attempt may begin, with nothing launched.
LEMMA EntryAccounted ==
    ASSUME RuntimeInv, NEW r \in Runtimes, CallAccounted(r),
           \/ \E request \in Requests : Submit(r, request)
           \/ Advance(r) \/ Resume(r) \/ RequestInterrupt(r)
           \/ ClearInterrupt(r) \/ (Reload(r) /\ ~Return(r))
    PROVE  CallAccounted(r)'
<1> USE DEF RuntimeInv, TypeOK, ghosts
<1>1. /\ budget' = budget /\ child' = child
      /\ pc[r] \in BeforeAttempt /\ pc'[r] \in BeforeAttempt
    BY DEF Submit, Advance, Resume, RequestInterrupt, ClearInterrupt, Reload, Goto,
           BeforeAttempt
<1>2. InProgress(r)' = {}
    BY <1>1, NotLaunchedFacts DEF CallAccounted, InProgress
<1> QED
    BY <1>1, <1>2 DEF CallAccounted, BeforeAttempt

\* A call that starts to write a checkpoint outside an attempt.
LEMMA StartWriteAccounted ==
    ASSUME RuntimeInv, NEW r \in Runtimes, CallAccounted(r),
           pc[r] \in {"decide", "executed"}, NEW s, StartWrite(r, s),
           s.phase # "RUNNING", Charged(s) = Charged(base[r]),
           UNCHANGED <<base, budget, child>>
    PROVE  CallAccounted(r)'
<1> USE DEF RuntimeInv, TypeOK
<1>1. pc'[r] = "write" /\ pending'[r] = s
    BY DEF StartWrite
<1>2. InProgress(r)' = {}
    BY DEF CallAccounted, InProgress
<1>3. PendingAccounted(r)'
    BY <1>1 DEF PendingAccounted, Charged
<1> QED
    BY <1>1, <1>2, <1>3 DEF CallAccounted, BeforeAttempt

LEMMA DecideAccounted ==
    ASSUME RuntimeInv, NEW r \in Runtimes, CallAccounted(r),
           \/ FinalizeInterrupted(r) \/ FinalizeRunning(r) \/ InterruptBeforeExecution(r)
           \/ StopOnBudget(r) \/ FinalizeExecuted(r)
    PROVE  CallAccounted(r)'
<1> USE DEF RuntimeInv, TypeOK, NextSnapshot, TerminalSnapshot, Charged
<1>1. \A res : ScheduleStatus(res) # "RUNNING"
    BY DEF ScheduleStatus
<1>2. base[r].budget \in Budget
    BY DEF Snapshot
<1>3. CASE InterruptOrFinalize(r) /\ pc[r] \in {"decide", "executed"}
           /\ UNCHANGED <<base, budget, child>>
    BY <1>1, <1>3, StartWriteAccounted DEF InterruptOrFinalize
<1>4. CASE FinalizeInterrupted(r)
    BY <1>1, <1>4, StartWriteAccounted DEF FinalizeInterrupted
<1>5. CASE InterruptBeforeExecution(r)
    BY <1>5, StartWriteAccounted DEF InterruptBeforeExecution
<1>6. CASE StopOnBudget(r)
  <2>1. PICK late \in BOOLEAN :
            StartWrite(r, TerminalSnapshot(base[r], BudgetStopResult,
                              [Restored(base[r].budget) EXCEPT !.late = late]))
    BY <1>6 DEF StopOnBudget
  <2> DEFINE b == [Restored(base[r].budget) EXCEPT !.late = late]
             s == TerminalSnapshot(base[r], BudgetStopResult, b)
  <2>2. b.steps = base[r].budget.steps + base[r].budget.reserved /\ b.reserved = 0
    BY DEF Restored
  <2>3. s.phase # "RUNNING" /\ s.budget = b
    BY <1>1
  <2>4. StartWrite(r, s) /\ pc[r] = "decide" /\ UNCHANGED <<base, budget, child>>
    BY <1>6, <2>1 DEF StopOnBudget
  <2>5. base[r].budget.steps \in Int /\ base[r].budget.reserved \in Int
    BY <1>2 DEF Budget
  <2> HIDE DEF s, b
  <2>6. Charged(s) = Charged(base[r])
    BY <2>2, <2>3, <2>5
  <2> QED
    BY <2>3, <2>4, <2>6, StartWriteAccounted
<1> QED
    BY <1>3, <1>4, <1>5, <1>6 DEF FinalizeRunning, FinalizeExecuted

\* reserve_graph_steps: four steps for every child, none of which has started.
LEMMA BeginAccounted ==
    ASSUME RuntimeInv, NEW r \in Runtimes, CallAccounted(r), BeginAttempt(r)
    PROVE  CallAccounted(r)'
<1> USE DEF RuntimeInv, TypeOK
<1> DEFINE b == [Restored(base[r].budget) EXCEPT !.reserved = AttemptSteps]
           s == NextSnapshot(base[r], "RUNNING", NoResult, b)
<1>1. base[r].budget \in Budget /\ AttemptSteps \in Int
    BY AttemptStepsType DEF Snapshot
<1>2. b.steps = Charged(base[r]) /\ b.reserved = AttemptSteps
    BY DEF Restored, Charged
<1>3. Charged(base[r]) + AttemptSteps <= GraphLimit
    BY DEF BeginAttempt, CanReserve, Restored, Charged
<1>4. s.phase = "RUNNING" /\ s.result = NoResult /\ s.budget = b
    BY DEF NextSnapshot
<1>5. /\ StartWrite(r, s) /\ budget' = [budget EXCEPT ![r] = b]
      /\ UNCHANGED <<base, child>> /\ pc[r] = "decide"
    BY DEF BeginAttempt
<1>6. AttemptSteps >= 0
    BY RecoveryAssumption, FS_CardinalityType DEF AttemptSteps
<1> HIDE DEF b, s
<1>7. pc'[r] = "write" /\ pending'[r] = s /\ budget'[r] = b /\ child'[r] = NotLaunched
    BY <1>5 DEF StartWrite, CallAccounted, BeforeAttempt
<1>8. InProgress(r)' = {}
    BY <1>5 DEF CallAccounted, InProgress
<1>9. PendingAccounted(r)'
    BY <1>2, <1>3, <1>4, <1>5, <1>7 DEF PendingAccounted, Charged
<1> QED
    BY <1>2, <1>6, <1>7, <1>8, <1>9 DEF CallAccounted, BeforeAttempt

\* The result is written with what the attempt has consumed.
LEMMA FinishAccounted ==
    ASSUME RuntimeInv, NEW r \in Runtimes, CallAccounted(r), FinishSchedule(r)
    PROVE  /\ CallAccounted(r)' /\ Attempting(r)'
           /\ budget'[r].steps = budget[r].steps
<1> USE DEF RuntimeInv, TypeOK
<1> DEFINE b == [budget[r] EXCEPT !.reserved = 0]
           s == NextSnapshot(base[r], "RUNNING", child[r], b)
<1>1. budget[r] \in Budget
    OBVIOUS
<1>2. b.steps = budget[r].steps /\ b.reserved = 0
    BY <1>1 DEF Budget
<1>3. s.phase = "RUNNING" /\ s.result = child[r] /\ s.budget = b
    BY DEF NextSnapshot
<1>4. /\ StartWrite(r, s) /\ budget' = [budget EXCEPT ![r] = b]
      /\ UNCHANGED <<base, child>> /\ pc[r] = "running"
    BY DEF FinishSchedule
<1>5. child[r] # NoResult
    BY NoResultAssumption DEF FinishSchedule, Result
<1>6. base[r].phase = "RUNNING" /\ base[r].result = NoResult
    BY <1>4 DEF LogInv, CallsWorkFromLog, CallWorksFromLog
<1> HIDE DEF b, s
<1>7. pc'[r] = "write" /\ pending'[r] = s /\ budget'[r] = b /\ base'[r] = base[r]
    BY <1>4 DEF StartWrite
<1>8. InProgress(r)' = {}
    BY DEF FinishSchedule, InProgress
<1>9. Attempting(r)'
    BY <1>3, <1>5, <1>6, <1>7 DEF Attempting
<1>10. budget[r].steps <= Charged(base[r])
  <2>1. /\ budget[r].steps + budget[r].reserved = Charged(base[r])
        /\ budget[r].reserved >= 0
    BY <1>4 DEF CallAccounted
  <2> QED
    BY <1>1, <2>1 DEF Budget
<1>11. PendingAccounted(r)'
    BY <1>2, <1>3, <1>7, <1>9, <1>10 DEF PendingAccounted, Charged
<1> QED
    BY <1>2, <1>7, <1>8, <1>9, <1>11 DEF CallAccounted, BeforeAttempt

LEMMA ReadCommittedAccounted ==
    ASSUME RuntimeInv, NEW r \in Runtimes, CallAccounted(r), ReadCommitted(r)
    PROVE  CallAccounted(r)' /\ (Attempting(r)' => Attempting(r))
<1> USE DEF RuntimeInv, TypeOK
<1>1. /\ pc[r] = "write" /\ pc'[r] = "append"
      /\ UNCHANGED <<base, budget, child>>
      /\ pending'[r].phase = pending[r].phase
      /\ pending'[r].result = pending[r].result
      /\ pending'[r].budget = pending[r].budget
    BY DEF ReadCommitted, Goto, Snapshot
<1>2. InProgress(r)' = InProgress(r) /\ (Attempting(r)' <=> Attempting(r))
    BY <1>1 DEF InProgress, Attempting
<1>3. PendingAccounted(r)'
    BY <1>1, <1>2 DEF CallAccounted, PendingAccounted, Charged
<1> QED
    BY <1>1, <1>2, <1>3 DEF CallAccounted, BeforeAttempt

LEMMA AppendAccounted ==
    ASSUME RuntimeInv, NEW r \in Runtimes, CallAccounted(r), AppendCheckpoint(r)
    PROVE  CallAccounted(r)'
<1> USE DEF RuntimeInv, TypeOK
<1>1. CASE Return(r)
    BY <1>1, ReturnAccounted
<1>2. CASE ~Return(r)
  <2>1. /\ pc[r] = "append" /\ pending[r].phase = "RUNNING"
        /\ base'[r] = pending[r] /\ UNCHANGED <<budget, child>>
        /\ pc'[r] = IF pending[r].result = NoResult THEN "running" ELSE "executed"
    BY <1>2 DEF AppendCheckpoint, Goto
  <2>2. InProgress(r) = {} /\ InProgress(r)' = InProgress(r) /\ Waiting(r)' = Waiting(r)
    BY <2>1 DEF CallAccounted, InProgress, Waiting
  <2>3. CASE pending[r].result # NoResult
    BY <2>1, <2>2, <2>3 DEF CallAccounted, BeforeAttempt
  <2>4. CASE pending[r].result = NoResult
    <3>1. /\ pending[r].budget = budget[r] /\ budget[r].reserved = AttemptSteps
          /\ child[r] = NotLaunched
      BY <2>1, <2>4 DEF CallAccounted, PendingAccounted, Attempting
    <3>2. Waiting(r) = Children
      BY <3>1, NotLaunchedFacts
    <3>3. budget[r].reserved >= 4 * Cardinality(Waiting(r)) + Cardinality(InProgress(r))
      BY <2>2, <3>1, <3>2, FS_EmptySet, FS_CardinalityType, RecoveryAssumption
      DEF AttemptSteps
    <3> QED
      BY <2>1, <2>2, <2>4, <3>1, <3>3 DEF CallAccounted, BeforeAttempt, Charged
  <2> QED
    BY <2>3, <2>4
<1> QED
    BY <1>1, <1>2

LEMMA CallsAccountedStep ==
    ASSUME RuntimeInv, CallsAccounted, [Next]_vars
    PROVE  CallsAccounted'
<1>1. CASE UNCHANGED vars
  <2> SUFFICES ASSUME NEW s \in Runtimes PROVE CallAccounted(s)'
    BY DEF CallsAccounted
  <2> QED
    BY <1>1, StaysAccounted DEF vars, CallsAccounted
<1>2. CASE Next
  <2>1. PICK r \in Runtimes :
           \/ \E request \in Requests : Submit(r, request)
           \/ Advance(r) \/ Resume(r) \/ RequestInterrupt(r) \/ Crash(r) \/ CallStep(r)
    BY <1>2 DEF Next
  <2>2. \A s \in Runtimes : CallAccounted(s)
    BY DEF CallsAccounted
  <2>3. ASSUME NEW s \in Runtimes \ {r} PROVE CallAccounted(s)'
    BY <2>1, <2>2, OthersStay, StaysAccounted
  <2>4. CallAccounted(r)'
    <3>1. CASE Return(r)
      BY <3>1, ReturnAccounted
    <3>2. CASE ~Return(r)
      BY <2>1, <2>2, <3>2, EntryAccounted, DecideAccounted, BeginAccounted, FinishAccounted,
         ReadCommittedAccounted, AppendAccounted, ChildAccounted
      DEF CallStep, Crash, InitializeRun, SetInterrupt, AppendConflict
    <3> QED
      BY <3>1, <3>2
  <2> QED
    BY <2>3, <2>4 DEF CallsAccounted
<1> QED
    BY <1>1, <1>2

-----------------------------------------------------------------------------
(* The ledger of all attempts.                                              *)

\* Calls that hold reservations give them up or keep them, and nothing is spent.
LEMMA LedgerStays ==
    ASSUME RuntimeInv, LedgerInv, UNCHANGED <<log, spent>>,
           \A s \in Runtimes : Attempting(s)' =>
               /\ Attempting(s) /\ base'[s] = base[s]
               /\ budget'[s].steps = budget[s].steps
    PROVE  LedgerInv'
<1>1. PICK e : Ledger(e)
    BY DEF LedgerInv
<1>2. \A s \in Runtimes : Attempting(s)' =>
          Place(s)' = Place(s) /\ Unspent(s)' = Unspent(s)
    BY DEF Place, Unspent, Charged
<1>3. Ledger(e)'
    BY <1>1, <1>2 DEF Ledger, Last
<1>4. \A r, s \in Runtimes :
          Attempting(r)' /\ Attempting(s)' /\ Place(r)' = Place(s)' => r = s
    BY <1>2 DEF LedgerInv
<1> QED
    BY <1>3, <1>4 DEF LedgerInv, Last

LEMMA UnspentType ==
    ASSUME RuntimeInv, NEW r \in Runtimes
    PROVE  /\ Unspent(r) \in Int /\ Place(r) \in Nat \ {0}
           /\ budget[r].steps \in Int /\ budget[r].reserved \in Int
           /\ Charged(base[r]) \in Int
BY DEF RuntimeInv, TypeOK, Snapshot, Budget, Unspent, Place, Charged

\* An attempt at place p consumes n of its steps: all later bounds shrink with it.
LEMMA LedgerSpend ==
    ASSUME RuntimeInv, CallsAccounted, CallsAccounted', RuntimeInv', LedgerInv,
           NEW r \in Runtimes, NEW n \in Nat, pc[r] = "running",
           UNCHANGED <<log, pc, base, pending>>,
           budget'[r].steps = budget[r].steps + n,
           \A s \in Runtimes \ {r} : budget'[s] = budget[s],
           spent' = spent + n
    PROVE  LedgerInv'
<1>1. PICK e : Ledger(e)
    BY DEF LedgerInv
<1> DEFINE p == Place(r)
           N == Len(log)
           f == [i \in 0..N |-> IF i < p THEN e[i] ELSE e[i] - n]
<1>2. N \in Nat /\ spent \in Nat
    BY DEF RuntimeInv, TypeOK
<1>3. \A s \in Runtimes : /\ Attempting(s)' <=> Attempting(s)
                          /\ Place(s)' = Place(s)
    BY DEF Attempting, Place
<1>4. Attempting(r)
    BY DEF Attempting
<1>5. /\ p \in 1..N /\ e[p - 1] + Unspent(r) <= e[p]
      /\ e \in [0..N -> Nat]
      /\ \A i, j \in 0..N : i <= j => e[i] <= e[j]
    BY <1>1, <1>4 DEF Ledger
<1>6. Unspent(r)' = Unspent(r) - n
    BY UnspentType DEF Unspent, Charged
<1>7. Unspent(r)' >= 0
  <2>1. pc'[r] = "running"
    OBVIOUS
  <2>2. /\ budget'[r].reserved >= 0
        /\ budget'[r].steps + budget'[r].reserved = Charged(base[r])'
    BY <2>1 DEF CallsAccounted, CallAccounted, Charged
  <2>3. budget'[r].steps \in Int /\ budget'[r].reserved \in Int /\ Charged(base[r])' \in Int
    BY DEF RuntimeInv, TypeOK, Snapshot, Budget, Charged
  <2> QED
    BY <2>2, <2>3 DEF Unspent, Charged
<1>8. \A s \in Runtimes \ {r} : Unspent(s)' = Unspent(s)
    BY DEF Unspent, Charged
<1>9. e[p - 1] + n <= e[p]
  <2>1. Unspent(r) >= n
    BY <1>6, <1>7, UnspentType
  <2>2. e[p - 1] \in Nat /\ e[p] \in Nat
    BY <1>2, <1>5
  <2> QED
    BY <1>5, <2>1, <2>2, UnspentType
<1> HIDE DEF p, N
<1>10. \A i \in 0..N : i >= p => e[i] >= e[p] /\ e[i] - n >= e[p - 1]
  <2> SUFFICES ASSUME NEW i \in 0..N, i >= p PROVE e[i] >= e[p] /\ e[i] - n >= e[p - 1]
    OBVIOUS
  <2>1. /\ p \in 0..N /\ p - 1 \in 0..N /\ e[p] <= e[i]
        /\ e[i] \in Nat /\ e[p] \in Nat /\ e[p - 1] \in Nat
    BY <1>2, <1>5
  <2> QED
    BY <1>9, <2>1
<1>11. f \in [0..N -> Nat]
  <2> SUFFICES ASSUME NEW i \in 0..N, i >= p PROVE e[i] - n \in Nat
    BY <1>2, <1>5
  <2>1. e[i] \in Nat /\ e[p - 1] \in Nat /\ e[i] - n >= e[p - 1]
    BY <1>2, <1>5, <1>10
  <2> QED
    BY <2>1
<1>12. \A i, j \in 0..N : i <= j => f[i] <= f[j]
  <2> SUFFICES ASSUME NEW i \in 0..N, NEW j \in 0..N, i <= j PROVE f[i] <= f[j]
    OBVIOUS
  <2>1. e[i] \in Nat /\ e[j] \in Nat /\ e[i] <= e[j] /\ e[p - 1] \in Nat
    BY <1>2, <1>5
  <2>2. i < p => e[i] <= e[p - 1]
    BY <1>2, <1>5
  <2>3. j >= p => e[j] - n >= e[p - 1]
    BY <1>10
  <2> QED
    BY <1>2, <1>5, <2>1, <2>2, <2>3
<1>13. ASSUME NEW s \in Runtimes, Attempting(s)
       PROVE  Place(s) \in 1..N /\ f[Place(s) - 1] + Unspent(s)' <= f[Place(s)]
  <2>1. Place(s) \in 1..N /\ e[Place(s) - 1] + Unspent(s) <= e[Place(s)]
    BY <1>1, <1>13 DEF Ledger, N
  <2>2. /\ e[Place(s) - 1] \in Nat /\ e[Place(s)] \in Nat
        /\ Place(s) \in 0..N /\ Place(s) - 1 \in 0..N
    BY <1>2, <1>5, <2>1
  <2>3. CASE s = r
    BY <1>2, <1>5, <1>6, <2>1, <2>2, <2>3, UnspentType DEF p
  <2>4. CASE s # r
    <3>1. Place(s) # p
      BY <1>4, <1>13, <2>4 DEF LedgerInv, p
    <3>2. Unspent(s)' = Unspent(s) /\ Unspent(s) \in Int /\ p \in Int
      BY <1>2, <1>5, <1>8, <2>4, UnspentType
    <3>3. CASE Place(s) < p
      <4>1. f[Place(s) - 1] = e[Place(s) - 1] /\ f[Place(s)] = e[Place(s)]
        BY <2>2, <3>2, <3>3
      <4> QED
        BY <2>1, <3>2, <4>1
    <3>4. CASE Place(s) > p
      <4>1. f[Place(s) - 1] = e[Place(s) - 1] - n /\ f[Place(s)] = e[Place(s)] - n
        BY <2>2, <3>2, <3>4
      <4> QED
        BY <2>1, <2>2, <3>2, <4>1
    <3> QED
      BY <2>2, <3>1, <3>2, <3>3, <3>4
  <2> QED
    BY <2>3, <2>4
<1>14. spent' + f[N] <= IF log = <<>> THEN 0 ELSE Charged(Last)
  <2>1. spent + e[N] <= IF log = <<>> THEN 0 ELSE Charged(Last)
    BY <1>1 DEF Ledger, N
  <2>2. f[N] = e[N] - n /\ e[N] \in Nat
    BY <1>2, <1>5
  <2>3. spent' + f[N] = spent + e[N]
    BY <1>2, <2>2
  <2> QED
    BY <2>1, <2>3
<1> HIDE DEF f
<1>15. PICK g : g = f
    OBVIOUS
<1>16. Ledger(g)'
  <2>1. /\ g \in [0..N -> Nat]
        /\ \A i, j \in 0..N : i <= j => g[i] <= g[j]
        /\ spent' + g[N] <= IF log = <<>> THEN 0 ELSE Charged(Last)
    BY <1>11, <1>12, <1>14, <1>15
  <2>2. \A s \in Runtimes : Attempting(s) =>
            Place(s) \in 1..N /\ g[Place(s) - 1] + Unspent(s)' <= g[Place(s)]
    BY <1>13, <1>15
  <2> QED
    BY <1>3, <2>1, <2>2 DEF Ledger, N, Last
<1>17. \A q, s \in Runtimes :
           Attempting(q)' /\ Attempting(s)' /\ Place(q)' = Place(s)' => q = s
    BY <1>3 DEF LedgerInv
<1> QED
    BY <1>16, <1>17 DEF LedgerInv, Last

\* An append reserves the steps of a new attempt, settles the attempt whose result
\* it is, or charges what was charged before.
LEMMA LedgerAppend ==
    ASSUME RuntimeInv, RuntimeInv', CallsAccounted, LedgerInv, NEW r \in Runtimes,
           AppendCheckpoint(r)
    PROVE  LedgerInv'
<1> USE DEF RuntimeInv
<1>1. /\ log # <<>> /\ base[r] = Last /\ pending[r].seq = Len(log)
      /\ log' = Append(log, pending[r]) /\ pending[r] \in Snapshot /\ pc[r] = "append"
      /\ spent' = spent
    BY AppendExtendsLast DEF AppendCheckpoint, ghosts
<1> DEFINE N == Len(log)
<1>2. /\ N \in Nat \ {0} /\ Len(log') = N + 1 /\ log' # <<>>
      /\ log'[N + 1] = pending[r] /\ spent \in Nat
  <2>1. log \in Seq(Snapshot) /\ spent \in Nat
    BY DEF TypeOK
  <2> HIDE DEF Snapshot
  <2> QED
    BY <1>1, <2>1
<1>3. Place(r) = N
  <2>1. CallWorksFromLog(r)
    BY DEF LogInv, CallsWorkFromLog
  <2> QED
    BY <1>1, <2>1, UnspentType DEF CallWorksFromLog, Place
<1>4. PendingAccounted(r) /\ Charged(Last) <= GraphLimit
    BY <1>1 DEF CallsAccounted, CallAccounted, LedgerInv
<1>5. \A s \in Runtimes \ {r} :
          /\ pc'[s] = pc[s] /\ base'[s] = base[s] /\ pending'[s] = pending[s]
          /\ budget'[s] = budget[s]
    BY OthersStay DEF CallStep
<1>6. \A s \in Runtimes \ {r} : /\ Attempting(s)' <=> Attempting(s)
                                /\ Place(s)' = Place(s) /\ Unspent(s)' = Unspent(s)
    BY <1>5 DEF Attempting, Place, Unspent, Charged
<1>7. Attempting(r)' => /\ pending[r].phase = "RUNNING" /\ pending[r].result = NoResult
                        /\ base'[r] = pending[r] /\ budget' = budget
  <2>1. pc'[r] \in {"idle", "running", "executed"}
    BY DEF AppendCheckpoint, Return, Goto, TypeOK
  <2>2. Attempting(r)' => pc'[r] = "running"
    BY <2>1 DEF Attempting
  <2> QED
    BY <2>2 DEF AppendCheckpoint, Return, Goto, TypeOK
<1>8. PICK e : Ledger(e)
    BY DEF LedgerInv
<1>9. /\ e \in [0..N -> Nat]
      /\ \A i, j \in 0..N : i <= j => e[i] <= e[j]
      /\ spent + e[N] <= Charged(Last)
      /\ e[N] \in Nat /\ e[N - 1] \in Nat /\ e[N - 1] <= e[N]
    BY <1>1, <1>2, <1>8 DEF Ledger
<1>10. Charged(Last) \in Int /\ Charged(pending[r]) \in Int /\ AttemptSteps \in Nat
  <2>1. AttemptSteps \in Nat
    BY RecoveryAssumption, FS_CardinalityType DEF AttemptSteps
  <2> QED
    BY <1>1, <2>1, UnspentType DEF Snapshot, Budget, Charged
\* The bounds x and y at the old and the new end of the log.
<1>11. ASSUME NEW x \in Nat, NEW y \in Nat, e[N - 1] <= x, x <= e[N], x <= y,
              spent + y <= Charged(pending[r]), Charged(pending[r]) <= GraphLimit,
              \A s \in Runtimes \ {r} : Attempting(s) /\ Place(s) = N => x = e[N],
              Attempting(r)' => x + AttemptSteps <= y
       PROVE  LedgerInv'
  <2> DEFINE f == [i \in 0..(N + 1) |-> IF i < N THEN e[i] ELSE IF i = N THEN x ELSE y]
  <2>1. f \in [0..(N + 1) -> Nat]
    BY <1>2, <1>9, <1>11
  <2>2. \A i, j \in 0..(N + 1) : i <= j => f[i] <= f[j]
    <3> SUFFICES ASSUME NEW i \in 0..(N + 1), NEW j \in 0..(N + 1), i <= j
                 PROVE  f[i] <= f[j]
      OBVIOUS
    <3>1. i < N => e[i] \in Nat /\ e[i] <= e[N - 1]
      BY <1>2, <1>9
    <3>2. i < N /\ j < N => e[j] \in Nat /\ e[i] <= e[j]
      BY <1>2, <1>9
    <3> QED
      BY <1>2, <1>9, <1>11, <3>1, <3>2
  <2>3. ASSUME NEW s \in Runtimes, Attempting(s)'
        PROVE  /\ Place(s)' \in 1..(N + 1)
               /\ f[Place(s)' - 1] + Unspent(s)' <= f[Place(s)']
    <3>1. CASE s = r
      <4>1. Place(s)' = N + 1
        BY <1>1, <1>2, <1>7, <2>3, <3>1 DEF Place
      <4>2. /\ pending[r].phase = "RUNNING" /\ pending[r].result = NoResult
            /\ base'[r] = pending[r] /\ budget' = budget
        BY <1>7, <2>3, <3>1
      <4>3. /\ pending[r].budget = budget[r]
            /\ budget[r].reserved = AttemptSteps
        BY <1>1, <1>4, <4>2 DEF PendingAccounted, Attempting
      <4>4. Unspent(s)' = AttemptSteps
        BY <3>1, <4>2, <4>3, UnspentType, AttemptStepsType DEF Unspent, Charged
      <4> QED
        BY <1>2, <1>11, <2>3, <3>1, <4>1, <4>4
    <3>2. CASE s # r
      <4>1. Attempting(s) /\ Place(s)' = Place(s) /\ Unspent(s)' = Unspent(s)
        BY <1>6, <2>3, <3>2
      <4>2. Place(s) \in 1..N /\ e[Place(s) - 1] + Unspent(s) <= e[Place(s)]
        BY <1>8, <4>1 DEF Ledger
      <4>3. f[Place(s) - 1] = e[Place(s) - 1]
        BY <1>2, <4>2
      <4>4. f[Place(s)] = e[Place(s)]
        BY <1>2, <1>11, <3>2, <4>1, <4>2
      <4> QED
        BY <1>2, <4>1, <4>2, <4>3, <4>4
    <3> QED
      BY <3>1, <3>2
  <2>4. spent' + f[N + 1] <= Charged(pending[r])
    BY <1>1, <1>2, <1>11
  <2> HIDE DEF f
  <2>5. PICK g : g = f
    OBVIOUS
  <2>6. Ledger(g)'
    <3>1. /\ g \in [0..(N + 1) -> Nat]
          /\ \A i, j \in 0..(N + 1) : i <= j => g[i] <= g[j]
          /\ spent' + g[N + 1] <= Charged(pending[r])
      BY <2>1, <2>2, <2>4, <2>5
    <3>2. \A s \in Runtimes : Attempting(s)' =>
              Place(s)' \in 1..(N + 1) /\ g[Place(s)' - 1] + Unspent(s)' <= g[Place(s)']
      BY <2>3, <2>5
    <3>3. Charged(Last)' = Charged(pending[r])
      BY <1>2 DEF Last, Charged
    <3> QED
      BY <1>2, <3>1, <3>2, <3>3 DEF Ledger
  <2>7. \A q, s \in Runtimes :
            Attempting(q)' /\ Attempting(s)' /\ Place(q)' = Place(s)' => q = s
    <3>1. \A s \in Runtimes \ {r} : Attempting(s)' => Place(s)' \in 1..N
      BY <1>6, <1>8 DEF Ledger
    <3>2. Attempting(r)' => Place(r)' = N + 1
      BY <1>1, <1>2, <1>7 DEF Place
    <3> QED
      BY <1>2, <1>6, <3>1, <3>2 DEF LedgerInv
  <2>8. Charged(Last)' <= GraphLimit
    BY <1>2, <1>11 DEF Last, Charged
  <2> QED
    BY <2>6, <2>7, <2>8 DEF LedgerInv
<1>12. CASE /\ pending[r].phase = "RUNNING" /\ pending[r].result = NoResult
            /\ Charged(pending[r]) = Charged(Last) + AttemptSteps
            /\ Charged(pending[r]) <= GraphLimit
  <2>1. e[N] + AttemptSteps \in Nat /\ spent + (e[N] + AttemptSteps) <= Charged(pending[r])
    BY <1>2, <1>9, <1>10, <1>12
  <2> QED
    BY <1>9, <1>10, <1>11, <1>12, <2>1
<1>13. CASE /\ Attempting(r) /\ ~Attempting(r)'
            /\ Charged(pending[r]) = budget[r].steps
            /\ budget[r].steps <= Charged(Last)
  <2>1. e[N - 1] + Unspent(r) <= e[N]
    BY <1>3, <1>8, <1>13 DEF Ledger
  <2>2. Unspent(r) = Charged(Last) - budget[r].steps
    BY <1>1 DEF Unspent
  <2>3. spent + e[N - 1] <= Charged(pending[r])
    <3> DEFINE b == budget[r].steps
    <3>1. b \in Int /\ e[N - 1] + (Charged(Last) - b) <= e[N] /\ Charged(pending[r]) = b
      BY <1>13, <2>1, <2>2, UnspentType
    <3> HIDE DEF b
    <3> QED
      BY <1>2, <1>9, <1>10, <3>1
  <2>4. Charged(pending[r]) <= GraphLimit
    BY <1>4, <1>10, <1>13, RecoveryAssumption
  <2>5. \A s \in Runtimes \ {r} : ~(Attempting(s) /\ Place(s) = N)
    BY <1>3, <1>13 DEF LedgerInv
  <2> QED
    BY <1>9, <1>11, <1>13, <2>3, <2>4, <2>5
<1>14. CASE /\ ~Attempting(r)' /\ Charged(pending[r]) = Charged(Last)
  <2>1. spent + e[N] <= Charged(pending[r]) /\ Charged(pending[r]) <= GraphLimit
    BY <1>4, <1>9, <1>14
  <2> QED
    BY <1>9, <1>11, <1>14, <2>1
<1> QED
  <2>1. CASE pending[r].phase = "RUNNING" /\ pending[r].result = NoResult
    <3>1. /\ pending[r].budget = budget[r]
          /\ budget[r].steps = Charged(Last) /\ budget[r].reserved = AttemptSteps
          /\ Charged(pending[r]) <= GraphLimit
      BY <1>1, <1>4, <2>1 DEF PendingAccounted, Attempting
    <3> QED
      BY <1>12, <2>1, <3>1 DEF Charged
  <2>2. CASE pending[r].phase = "RUNNING" /\ pending[r].result # NoResult
    <3>1. /\ Attempting(r) /\ pending[r].budget = budget[r] /\ budget[r].reserved = 0
          /\ budget[r].steps <= Charged(Last)
      BY <1>1, <1>4, <2>2 DEF PendingAccounted
    <3>2. Charged(pending[r]) = budget[r].steps
      BY <3>1, UnspentType DEF Charged
    <3> QED
      BY <1>7, <1>13, <2>2, <3>1, <3>2
  <2>3. CASE pending[r].phase # "RUNNING"
    <3>1. Charged(pending[r]) = Charged(Last)
      BY <1>1, <1>4, <2>3 DEF PendingAccounted, Attempting
    <3> QED
      BY <1>7, <1>14, <2>3, <3>1
  <2> QED
    BY <2>1, <2>2, <2>3

\* The first checkpoint charges nothing, and nothing is spent before it.
LEMMA LedgerInitialize ==
    ASSUME RuntimeInv, LedgerInv, NEW r \in Runtimes, InitializeRun(r), log' # log
    PROVE  LedgerInv'
<1>1. /\ pending[r] = [Blank EXCEPT !.request = claim] /\ pending[r] \in Snapshot
      /\ log \in Seq(Snapshot) /\ spent \in Nat /\ spent' = spent
    BY DEF InitializeRun, RuntimeInv, TypeOK, LogInv, CallsWorkFromLog, CallWorksFromLog,
           ghosts
<1>2. /\ pending[r].seq = 0 /\ pending[r].budget = FreshBudget
    BY <1>1 DEF Blank
<1>3. Len(log) = 0 /\ log' = Append(log, pending[r])
    BY <1>2 DEF InitializeRun
<1>4. log = <<>> /\ log' # <<>> /\ Len(log') = 1 /\ log'[1] = pending[r]
  <2> HIDE DEF Snapshot
  <2> QED
    BY <1>1, <1>3
<1>5. PICK e : Ledger(e)
    BY DEF LedgerInv
<1>6. spent = 0
  <2>1. e[0] \in Nat /\ spent + e[0] <= 0
    BY <1>4, <1>5 DEF Ledger
  <2> QED
    BY <1>1, <2>1
<1>7. \A s \in Runtimes : ~Attempting(s)
    BY <1>3, <1>5 DEF Ledger
<1>8. \A s \in Runtimes : ~Attempting(s)'
  <2>1. Return(r)
    BY DEF InitializeRun
  <2> QED
    BY <1>7, <2>1 DEF Return, RuntimeInv, TypeOK, Attempting
<1>9. Charged(Last)' = 0
    BY <1>2, <1>4 DEF Charged, Last, FreshBudget
<1>10. PICK g : g = [i \in 0..1 |-> 0]
    OBVIOUS
<1>11. Ledger(g)'
    BY <1>1, <1>4, <1>6, <1>8, <1>9, <1>10 DEF Ledger
<1> QED
    BY <1>8, <1>9, <1>11, RecoveryAssumption DEF LedgerInv

LEMMA LedgerChild ==
    ASSUME RuntimeInv, RuntimeInv', CallsAccounted, CallsAccounted', LedgerInv,
           NEW r \in Runtimes, NEW c \in Children, ChildStep(r, c)
    PROVE  LedgerInv'
<1>1. /\ UNCHANGED <<log, pc, base, pending>> /\ pc[r] = "running"
    BY ChildAccounted DEF CallsAccounted, ChildStep, LaunchChild, LaunchTooLate, BlockChild,
       GetOutput, BeginSideEffect, RunOperation, CommitSideEffect, PutOutput, ExecutorFails,
       VerifyChild, durable
<1>2. CASE UNCHANGED <<budget, spent>>
    BY <1>1, <1>2, LedgerStays DEF Attempting
<1>3. ASSUME NEW n \in Nat, NEW late, RecordSteps(r, n, late) PROVE LedgerInv'
  <2>1. /\ budget'[r].steps = budget[r].steps + n /\ spent' = spent + n
        /\ \A s \in Runtimes \ {r} : budget'[s] = budget[s]
    BY <1>3 DEF RecordSteps, Spend, RuntimeInv, TypeOK
  <2> QED
    BY <1>1, <2>1, LedgerSpend
<1>4. CASE LaunchChild(r, c)
  <2>1. PICK n \in Nat : n = 3
    OBVIOUS
  <2> QED
    BY <1>3, <1>4, <2>1 DEF LaunchChild
<1>5. ASSUME NEW n \in 0..2, LaunchTooLate(r, c, n) PROVE LedgerInv'
  <2>1. n \in Nat
    OBVIOUS
  <2> QED
    BY <1>3, <1>5, <2>1 DEF LaunchTooLate
<1>6. CASE VerifyChild(r, c)
  <2>1. PICK zero \in Nat, one \in Nat : zero = 0 /\ one = 1
    OBVIOUS
  <2>2. RecordSteps(r, one, FALSE) \/ RecordSteps(r, zero, TRUE)
    BY <1>6, <2>1 DEF VerifyChild
  <2> QED
    BY <1>3, <2>2
<1> QED
    BY <1>2, <1>4, <1>5, <1>6 DEF ChildStep, BlockChild, GetOutput, BeginSideEffect,
       RunOperation, CommitSideEffect, PutOutput, ExecutorFails, ghosts

\* A call that does not execute keeps no reservation that it did not hold.
LEMMA LedgerCall ==
    ASSUME RuntimeInv, CallsAccounted, LedgerInv, NEW r \in Runtimes,
           \/ \E request \in Requests : Submit(r, request)
           \/ Advance(r) \/ Resume(r) \/ RequestInterrupt(r) \/ Crash(r)
           \/ (InitializeRun(r) /\ log' = log)
           \/ ClearInterrupt(r) \/ Reload(r) \/ SetInterrupt(r)
           \/ FinalizeInterrupted(r) \/ FinalizeRunning(r)
           \/ InterruptBeforeExecution(r) \/ BeginAttempt(r) \/ StopOnBudget(r)
           \/ ReadCommitted(r) \/ AppendConflict(r)
           \/ FinishSchedule(r) \/ FinalizeExecuted(r)
    PROVE  LedgerInv'
<1> USE DEF RuntimeInv, TypeOK, durable, ghosts
<1>1. CallAccounted(r)
    BY DEF CallsAccounted
<1>2. UNCHANGED <<log, spent>>
    BY DEF Submit, Advance, Resume, RequestInterrupt, Crash, InitializeRun,
       ClearInterrupt, Reload, SetInterrupt, FinalizeInterrupted,
       FinalizeRunning, InterruptBeforeExecution, BeginAttempt, StopOnBudget,
       ReadCommitted, AppendConflict, FinishSchedule, FinalizeExecuted
<1>3. \A s \in Runtimes \ {r} :
          /\ Attempting(s)' <=> Attempting(s)
          /\ base'[s] = base[s] /\ budget'[s] = budget[s]
    BY OthersStay DEF CallStep, Attempting
<1>4. Attempting(r)' => /\ Attempting(r) /\ base'[r] = base[r]
                        /\ budget'[r].steps = budget[r].steps
  <2>1. CASE Return(r)
    BY <2>1 DEF Return, Attempting
  <2>2. CASE /\ ~Return(r)
             /\ \/ \E request \in Requests : Submit(r, request)
                \/ Advance(r) \/ Resume(r) \/ RequestInterrupt(r)
                \/ ClearInterrupt(r) \/ Reload(r)
    BY <2>2 DEF Submit, Advance, Resume, RequestInterrupt, ClearInterrupt, Reload, Goto,
       Attempting
  <2>3. CASE ReadCommitted(r)
    BY <1>1, <2>3, ReadCommittedAccounted DEF ReadCommitted
  <2>4. CASE FinishSchedule(r)
    BY <1>1, <2>4, FinishAccounted DEF FinishSchedule, Attempting
  <2>5. \A res : ScheduleStatus(res) # "RUNNING"
    BY DEF ScheduleStatus
  <2>6. CASE \/ FinalizeInterrupted(r) \/ FinalizeRunning(r) \/ InterruptBeforeExecution(r)
             \/ BeginAttempt(r) \/ StopOnBudget(r) \/ FinalizeExecuted(r)
    BY <2>5, <2>6 DEF FinalizeInterrupted, FinalizeRunning, InterruptBeforeExecution,
       BeginAttempt, StopOnBudget, FinalizeExecuted, InterruptOrFinalize,
       StartWrite, NextSnapshot, TerminalSnapshot, Attempting
  <2> QED
    BY <2>1, <2>2, <2>3, <2>4, <2>6
    DEF Crash, InitializeRun, SetInterrupt, AppendConflict
<1> QED
    BY <1>2, <1>3, <1>4, LedgerStays

LEMMA AccountInvStep ==
    ASSUME RuntimeInv, AccountInv, [Next]_vars
    PROVE  AccountInv'
<1>1. RuntimeInv'
    BY RuntimeInvStep
<1>2. CallsAccounted /\ LedgerInv /\ OutputInv
    BY DEF AccountInv
<1>3. CallsAccounted' /\ OutputInv'
    BY <1>2, CallsAccountedStep, OutputInvStep
<1>4. LedgerInv'
  <2>1. CASE UNCHANGED vars
    BY <1>2, <2>1, LedgerStays DEF vars, Attempting
  <2>2. ASSUME NEW r \in Runtimes, NEW c \in Children, ChildStep(r, c)
        PROVE  LedgerInv'
    BY <1>1, <1>2, <1>3, <2>2, LedgerChild
  <2>3. ASSUME NEW r \in Runtimes, AppendCheckpoint(r) PROVE LedgerInv'
    BY <1>1, <1>2, <2>3, LedgerAppend
  <2>4. ASSUME NEW r \in Runtimes, InitializeRun(r), log' # log PROVE LedgerInv'
    BY <1>2, <2>4, LedgerInitialize
  <2> QED
    BY <1>2, <2>1, <2>2, <2>3, <2>4, LedgerCall DEF Next, CallStep
<1> QED
    BY <1>3, <1>4 DEF AccountInv

\* The latest checkpoint charges or reserves what all attempts together consumed,
\* lost and superseded ones included, and stays within the limit; no attempt
\* exceeds its reservation; what is reported COMPLETED has its output (recovery.py,
\* from_telemetry with abandon_graph_reservation, and put_assignment_output).
THEOREM RunAccounted == Spec => []RunIsAccounted
<1>1. RuntimeInv /\ AccountInv => RunIsAccounted
  <2> SUFFICES ASSUME RuntimeInv, AccountInv PROVE RunIsAccounted
    OBVIOUS
  <2>1. \A r \in Runtimes : budget[r].reserved >= 0
    BY DEF AccountInv, CallsAccounted, CallAccounted
  <2>2. ASSUME log # <<>>
        PROVE  /\ spent <= Last.budget.steps + Last.budget.reserved
               /\ Last.budget.steps + Last.budget.reserved <= GraphLimit
    <3>1. PICK e : Ledger(e)
      BY DEF AccountInv, LedgerInv
    <3>2. e[Len(log)] \in Nat /\ spent + e[Len(log)] <= Charged(Last)
      BY <2>2, <3>1 DEF Ledger, RuntimeInv, TypeOK
    <3>3. spent \in Nat /\ Charged(Last) \in Int /\ Charged(Last) <= GraphLimit
      BY <2>2, LastType DEF AccountInv, LedgerInv, RuntimeInv, TypeOK, Charged, Snapshot, Budget
    <3> QED
      BY <3>2, <3>3 DEF Charged
  <2> QED
    BY <2>1, <2>2 DEF RunIsAccounted, StepsCharged, AccountInv, OutputInv
<1>2. Init => RuntimeInv /\ AccountInv
    BY RuntimeInvInit, InitAccountInv
<1>3. RuntimeInv /\ AccountInv /\ [Next]_vars => (RuntimeInv /\ AccountInv)'
    BY RuntimeInvStep, AccountInvStep
<1> QED
    BY <1>1, <1>2, <1>3, PTL DEF Spec
=============================================================================
