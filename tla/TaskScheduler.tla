--------------------------- MODULE TaskScheduler ---------------------------
(***************************************************************************)
(* TaskScheduler (orchestration/scheduler.py): child DAGs run in waves, the *)
(* read-only assignments of a wave in bounded gathers, the mutating ones    *)
(* one by one.  Several schedules of one scheduler instance may execute at  *)
(* the same time and share its BudgetGuard.                                 *)
(*                                                                          *)
(* enqueue, cancel and cancel_assignment are synchronous; the coroutine     *)
(* _execute yields at every gather and at every child, so a schedule takes  *)
(* one step per wave, per batch, per launch and per finished child.         *)
(* Of the child subgraph only the assignment status of its outcome is kept; *)
(* TaskRecoveryRuntime.tla has its steps.                                   *)
(***************************************************************************)
EXTENDS Integers, Sequences, FiniteSets

CONSTANTS
    Schedules,     \* schedule IDs
    Plans,         \* what callers submit, see PlanType
    Assignments,   \* assignment IDs
    Outcomes,      \* assignment statuses the children return, see _from_outcome
    HardCeiling,   \* hard_professional_concurrency of the scheduler
    GuardPolicy,   \* professional_concurrency of the guard's policy, or NoGuard
    NoGuard,
    NoPlan

\* Limit of contracts/v1.py: active and hard, in this order.
Policy == {q \in [active : Nat, hard : Nat] : q.active <= q.hard}

PlanType ==
    [order : Seq(Assignments),                  \* the contexts, in input order
     deps : [Assignments -> SUBSET Assignments],
     mutating : SUBSET Assignments,             \* side_effect_class MUTATING
     general : SUBSET Assignments,              \* kind GENERAL
     bound : SUBSET Assignments,                \* keys of executors
     policies : SUBSET Policy]                  \* budgets of the contexts

ASSUME SchedulerAssumption ==
    /\ IsFiniteSet(Assignments)
    /\ Plans \subseteq PlanType
    /\ \A p \in Plans : p.policies # {}
    /\ Outcomes \subseteq {"COMPLETED", "FAILED", "BLOCKED"}
    /\ HardCeiling \in 1..4
    /\ GuardPolicy \in Policy \cup {NoGuard}
    /\ NoPlan \notin Plans

Final == {"COMPLETED", "FAILED", "BLOCKED", "CANCELLED"}

\* An assignment of an executing schedule: not reached, runnable in the current
\* wave, handed to gather or launch, inside execute_child, or final.
AssignmentState == {"none", "runnable", "launching", "running"} \cup Final

VARIABLES
    place,      \* "absent", "queued" (_queued), "executing", "terminal" (_terminal
                \* or returned by run_sync) or "lost"
    plan,       \* the submitted plan
    cancelled,  \* cancelled_assignment_ids
    wave,       \* wave_number of _execute: the waves entered
    state,      \* AssignmentState of every assignment
    slots,      \* professional slots held on the guard
    launches,   \* history: how often each assignment was launched
    late        \* the guard's wall time is used up

vars == <<place, plan, cancelled, wave, state, slots, launches, late>>

Items(p) == {p.order[i] : i \in DOMAIN p.order}

\* IDs resolved by the first n rounds of _topological_waves.
ResolvedAfter(p) ==
    LET after[n \in 0..Len(p.order)] ==
            IF n = 0 THEN {}
            ELSE after[n - 1] \cup {a \in Items(p) : p.deps[a] \subseteq after[n - 1]}
    IN after

\* The wave an assignment is in.
Wave(p, a) ==
    CHOOSE n \in 1..Len(p.order) :
        a \in ResolvedAfter(p)[n] \ ResolvedAfter(p)[n - 1]

PolicyOf(p) == CHOOSE q \in p.policies : TRUE

IsGeneral(p) == p.order[1] \in p.general

ActiveLimit(p) == IF IsGeneral(p) THEN 1 ELSE PolicyOf(p).active

\* _validate; scope and manifest checks are left out.
Valid(p) ==
    /\ Len(p.order) \in 1..4
    /\ p.bound = Items(p)
    /\ Cardinality(Items(p)) = Len(p.order)
    /\ \A a \in Items(p) : a \notin p.deps[a] /\ p.deps[a] \subseteq Items(p)
    /\ \/ p.general \cap Items(p) # {} /\ Len(p.order) = 1 /\ p.deps[p.order[1]] = {}
       \/ /\ p.general \cap Items(p) = {}
          /\ Cardinality(p.policies) = 1
          /\ PolicyOf(p).active \in 1..HardCeiling
          /\ PolicyOf(p).hard <= HardCeiling
    /\ ResolvedAfter(p)[Len(p.order)] = Items(p)

\* The assignments of a schedule that are in one of the given states.
In(s, states) == {a \in Items(plan[s]) : state[s][a] \in states}

NotReached == [a \in Assignments |-> "none"]

Init ==
    /\ place = [s \in Schedules |-> "absent"]
    /\ plan = [s \in Schedules |-> NoPlan]
    /\ cancelled = [s \in Schedules |-> {}]
    /\ wave = [s \in Schedules |-> 0]
    /\ state = [s \in Schedules |-> NotReached]
    /\ slots = 0
    /\ launches = [s \in Schedules |-> [a \in Assignments |-> 0]]
    /\ late = FALSE

-----------------------------------------------------------------------------
(* Public operations.                                                       *)

Enqueue(s, p) ==
    /\ place[s] = "absent"
    /\ Valid(p)
    /\ GuardPolicy # NoGuard => GuardPolicy = PolicyOf(p)
    /\ place' = [place EXCEPT ![s] = "queued"]
    /\ plan' = [plan EXCEPT ![s] = p]
    /\ UNCHANGED <<cancelled, wave, state, slots, launches, late>>

\* run_sync does not compare the guard's policy.
RunSync(s, p) ==
    /\ place[s] = "absent"
    /\ Valid(p)
    /\ place' = [place EXCEPT ![s] = "executing"]
    /\ plan' = [plan EXCEPT ![s] = p]
    /\ UNCHANGED <<cancelled, wave, state, slots, launches, late>>

\* Mutant: the schedule stays in the queue until it has its result.
AdvanceWithoutPop(s) ==
    /\ place[s] \in {"queued", "executing"}
    /\ place' = [place EXCEPT ![s] = "executing"]
    /\ wave' = [wave EXCEPT ![s] = 0]
    /\ state' = [state EXCEPT ![s] = NotReached]
    /\ UNCHANGED <<plan, cancelled, slots, launches, late>>

\* The schedule leaves the queue before the first await.
Advance(s) ==
    /\ place[s] = "queued"
    /\ place' = [place EXCEPT ![s] = "executing"]
    /\ UNCHANGED <<plan, cancelled, wave, state, slots, launches, late>>

CancelAssignment(s, a) ==
    /\ place[s] = "queued"
    /\ a \in Items(plan[s])
    /\ cancelled' = [cancelled EXCEPT ![s] = @ \cup {a}]
    /\ UNCHANGED <<place, plan, wave, state, slots, launches, late>>

\* cancel: every assignment is CANCELLED, with no executor call.
Cancel(s) ==
    /\ place[s] = "queued"
    /\ place' = [place EXCEPT ![s] = "terminal"]
    /\ state' = [state EXCEPT ![s] =
                    [a \in Assignments |->
                        IF a \in Items(plan[s]) THEN "CANCELLED" ELSE "none"]]
    /\ UNCHANGED <<plan, cancelled, wave, slots, launches, late>>

-----------------------------------------------------------------------------
(* _execute.                                                                *)

InWave(s, n) == {a \in Items(plan[s]) : Wave(plan[s], a) = n}

\* Every assignment of the next wave is cancelled, blocked or runnable.
StartWave(s) ==
    /\ place[s] = "executing"
    /\ In(s, {"runnable", "launching", "running"}) = {}
    /\ In(s, {"none"}) # {}
    /\ wave' = [wave EXCEPT ![s] = @ + 1]
    /\ state' = [state EXCEPT ![s] =
           [a \in Assignments |->
               IF a \notin InWave(s, wave[s] + 1) THEN state[s][a]
               ELSE IF a \in cancelled[s] THEN "CANCELLED"
               ELSE IF \E d \in plan[s].deps[a] : state[s][d] # "COMPLETED"
                    THEN "BLOCKED"
               ELSE "runnable"]]
    /\ UNCHANGED <<place, plan, cancelled, slots, launches, late>>

\* The members of set with fewer than n members before them in input order.
FirstOf(p, set, n) ==
    {p.order[i] : i \in {j \in DOMAIN p.order :
        /\ p.order[j] \in set
        /\ Cardinality({k \in 1..(j - 1) : p.order[k] \in set}) < n}}

\* The next slice of read-only assignments, or else the next mutating one.
NextBatch(s) ==
    LET readOnly == In(s, {"runnable"}) \ plan[s].mutating
    IN IF readOnly # {} THEN FirstOf(plan[s], readOnly, ActiveLimit(plan[s]))
       ELSE FirstOf(plan[s], In(s, {"runnable"}), 1)

StartBatch(s) ==
    /\ place[s] = "executing"
    /\ In(s, {"launching", "running"}) = {}
    /\ In(s, {"runnable"}) # {}
    /\ state' = [state EXCEPT ![s] =
           [a \in Assignments |-> IF a \in NextBatch(s) THEN "launching"
                                  ELSE state[s][a]]]
    /\ UNCHANGED <<place, plan, cancelled, wave, slots, launches, late>>

NeedsSlot(s, a) == GuardPolicy # NoGuard /\ a \notin plan[s].general

SlotFree == slots < GuardPolicy.active /\ slots < GuardPolicy.hard

Launch(s, a) ==
    /\ state[s][a] = "launching"
    /\ NeedsSlot(s, a) => ~late /\ SlotFree
    /\ state' = [state EXCEPT ![s][a] = "running"]
    /\ slots' = IF NeedsSlot(s, a) THEN slots + 1 ELSE slots
    /\ launches' = [launches EXCEPT ![s][a] = @ + 1]
    /\ UNCHANGED <<place, plan, cancelled, wave, late>>

\* Mutant: a child without a slot waits for one.
DenyWaiting(s, a) ==
    /\ state[s][a] = "launching"
    /\ NeedsSlot(s, a) /\ (late \/ ~SlotFree)
    /\ UNCHANGED vars

\* BudgetExceeded from professional_slot.
DenyLaunch(s, a) ==
    /\ state[s][a] = "launching"
    /\ NeedsSlot(s, a) /\ (late \/ ~SlotFree)
    /\ state' = [state EXCEPT ![s][a] = "BLOCKED"]
    /\ UNCHANGED <<place, plan, cancelled, wave, slots, launches, late>>

\* Mutant: a failed child keeps its slot.
FinishLeaking(s, a, status) ==
    /\ state[s][a] = "running"
    /\ state' = [state EXCEPT ![s][a] = status]
    /\ slots' = IF NeedsSlot(s, a) /\ status = "COMPLETED" THEN slots - 1 ELSE slots
    /\ UNCHANGED <<place, plan, cancelled, wave, launches, late>>

\* The child returned; _from_outcome gives its status.
FinishChild(s, a, status) ==
    /\ state[s][a] = "running"
    /\ state' = [state EXCEPT ![s][a] = status]
    /\ slots' = IF NeedsSlot(s, a) THEN slots - 1 ELSE slots
    /\ UNCHANGED <<place, plan, cancelled, wave, launches, late>>

\* The ScheduleResult is built; advance also records it in _terminal.
Complete(s) ==
    /\ place[s] = "executing"
    /\ In(s, Final) = Items(plan[s])
    /\ place' = [place EXCEPT ![s] = "terminal"]
    /\ UNCHANGED <<plan, cancelled, wave, state, slots, launches, late>>

\* The caller's task is cancelled: the children it gathers are cancelled, their
\* slots are released, and the schedule is neither queued nor terminal.
Abort(s) ==
    /\ place[s] = "executing"
    /\ place' = [place EXCEPT ![s] = "lost"]
    /\ state' = [state EXCEPT ![s] =
           [a \in Assignments |-> IF state[s][a] \in Final THEN state[s][a] ELSE "none"]]
    /\ slots' = slots - Cardinality({a \in In(s, {"running"}) : NeedsSlot(s, a)})
    /\ UNCHANGED <<plan, cancelled, wave, launches, late>>

\* The guard's wall-time limit is reached.
WallTimeReached ==
    /\ GuardPolicy # NoGuard
    /\ late' = TRUE
    /\ UNCHANGED <<place, plan, cancelled, wave, state, slots, launches>>

Step(s) ==
    \/ StartWave(s)
    \/ StartBatch(s)
    \/ \E a \in Assignments : Launch(s, a) \/ DenyLaunch(s, a)
    \/ \E a \in Assignments, status \in Outcomes : FinishChild(s, a, status)
    \/ Complete(s)

Next ==
    \/ \E s \in Schedules :
          \/ \E p \in Plans : Enqueue(s, p) \/ RunSync(s, p)
          \/ Advance(s)
          \/ \E a \in Assignments : CancelAssignment(s, a)
          \/ Cancel(s)
          \/ Step(s)
          \/ Abort(s)
    \/ WallTimeReached

Spec == Init /\ [][Next]_vars

\* Every coroutine that can run is run, and children return.
FairSpec == Spec /\ \A s \in Schedules : WF_vars(Step(s))
-----------------------------------------------------------------------------
(* Properties.                                                              *)

\* The dictionaries and locals of the scheduler.
TypeOK ==
    /\ place \in [Schedules -> {"absent", "queued", "executing", "terminal", "lost"}]
    /\ \A s \in Schedules :
          /\ plan[s] \in Plans \cup {NoPlan}
          /\ place[s] # "absent" => plan[s] # NoPlan
    /\ cancelled \in [Schedules -> SUBSET Assignments]
    /\ wave \in [Schedules -> Nat]
    /\ state \in [Schedules -> [Assignments -> AssignmentState]]
    /\ slots \in Nat
    /\ launches \in [Schedules -> [Assignments -> Nat]]
    /\ late \in BOOLEAN

\* task-scheduler-v1.md: a mutating assignment never overlaps another assignment
\* of its schedule.
MutatingRunsAlone ==
    \A s \in Schedules : plan[s] # NoPlan =>
        \A a \in In(s, {"launching", "running"}) :
            a \in plan[s].mutating => In(s, {"launching", "running"}) = {a}

\* An assignment is launched only when every prerequisite completed, and it is
\* launched once, however advance, cancel and aborts race.
LaunchedAfterPrerequisites ==
    \A s \in Schedules, a \in Assignments :
        /\ launches[s][a] <= 1
        /\ launches[s][a] = 1 => \A d \in plan[s].deps[a] : state[s][d] = "COMPLETED"

\* The guard counts exactly the running professional children of all schedules,
\* and neither it nor a schedule runs more than its active limit.
SlotsMatchChildren ==
    /\ GuardPolicy # NoGuard =>
          /\ slots = Cardinality({x \in Schedules \X Assignments :
                        state[x[1]][x[2]] = "running" /\ NeedsSlot(x[1], x[2])})
          /\ slots <= GuardPolicy.active
    /\ \A s \in Schedules : plan[s] # NoPlan =>
          Cardinality(In(s, {"running"})) <= ActiveLimit(plan[s])

\* A schedule that has the guard to itself, under the guard's own policy, is
\* never denied a slot: batches fit the slots the policy grants.
OwnGuardNeverDenies ==
    \A s \in Schedules :
        /\ plan[s] # NoPlan /\ GuardPolicy # NoGuard
        /\ ~late /\ PolicyOf(plan[s]) = GuardPolicy
        /\ \A t \in Schedules \ {s} : place[t] # "executing"
        => \A a \in In(s, {"launching"}) : NeedsSlot(s, a) => SlotFree

\* Slots and children agree: nothing leaks when children fail, are cancelled or
\* lose their caller (the professional_slot of _execute), and so a schedule alone on
\* its guard always finds the slots its batches were sized for.
SlotsAreSound == SlotsMatchChildren /\ OwnGuardNeverDenies

\* A terminal schedule has a final status for every assignment; a cancelled
\* assignment was not executed, and nothing but a failed, blocked or cancelled
\* prerequisite, a denied slot or the child itself blocks one.
ResultIsComplete ==
    \A s \in Schedules : place[s] = "terminal" =>
        \A a \in Items(plan[s]) :
            /\ state[s][a] \in Final
            /\ a \in cancelled[s] => state[s][a] = "CANCELLED" /\ launches[s][a] = 0
            /\ state[s][a] = "COMPLETED" => launches[s][a] = 1
            /\ state[s][a] = "BLOCKED" /\ launches[s][a] = 0 =>
                  \/ NeedsSlot(s, a)
                  \/ \E d \in plan[s].deps[a] : state[s][d] # "COMPLETED"

\* Waves and batches of _execute: launches respect prerequisites and
\* mutations, no assignment is launched twice, and the result accounts for all.
WavesAreSound == LaunchedAfterPrerequisites /\ MutatingRunsAlone /\ ResultIsComplete

\* An executing schedule gets its result unless its caller is cancelled.
ExecutionEnds ==
    \A s \in Schedules : (place[s] = "executing") ~> (place[s] \in {"terminal", "lost"})

=============================================================================
