------------------------- MODULE WorkbenchExecution -------------------------
(***************************************************************************)
(* WorkbenchRuntime and its task repository (client/service.py,             *)
(* client/sqlite_repository.py) with the executors they dispatch            *)
(* (client/execution.py).                                                   *)
(*                                                                          *)
(* An owner is one incarnation of the application process with its          *)
(* coordinator (a fresh owner_id).  It claims accepted tasks under a lease, *)
(* runs their executors, and after a restart reconciles what an earlier     *)
(* owner left behind.  Every repository operation is one transaction and    *)
(* one step; any of them may fail, and a crash may come between any two.    *)
(* Time is a countdown per lease: the clock is read where the code reads    *)
(* it, and may advance between any two steps.                               *)
(***************************************************************************)
EXTENDS Integers, Sequences, FiniteSets

CONSTANTS
    Tasks,
    Owners,
    Class,        \* task class: "G0", "P1", or another one ("K1")
    Lease,        \* lease_seconds, in ticks
    MaxActive,    \* max_active_tasks
    MaxSweeps,    \* recovery_max_sweeps
    MaxFaults,    \* bound: repository operations that fail (database busy)
    Overlap,      \* TRUE: an owner may start while another one is still up
    NoOwner

ASSUME WorkbenchAssumption ==
    /\ Class \in [Tasks -> {"G0", "P1", "K1"}]
    /\ Lease \in Nat \ {0}
    /\ MaxActive \in Nat \ {0}
    /\ MaxSweeps \in Nat \ {0}
    /\ MaxFaults \in Nat
    /\ Overlap \in BOOLEAN
    /\ NoOwner \notin Owners

Terminal == {"SUCCEEDED", "PARTIAL", "BLOCKED", "FAILED", "CANCELLED"}
Open == {"ACCEPTED", "RUNNING", "REVIEW_REQUIRED", "HUMAN_REQUIRED"}

\* _ALLOWED_STATE_TRANSITIONS.
AllowedAfter(state) ==
    CASE state = "ACCEPTED" -> {"RUNNING", "BLOCKED", "FAILED", "CANCELLED"}
      [] state = "RUNNING" -> {"REVIEW_REQUIRED", "HUMAN_REQUIRED"} \cup Terminal
      [] state = "REVIEW_REQUIRED" ->
            {"RUNNING", "HUMAN_REQUIRED"} \cup (Terminal \ {"CANCELLED"})
      [] state = "HUMAN_REQUIRED" -> {"RUNNING"} \cup Terminal
      [] OTHER -> {}

\* What an executor appends at each of its steps and where it goes on, by the
\* outcome of the append.  "failing" is its own except clause, "rescue" and
\* "rescuing" the one of _execute_claimed, "leaving" the finally clause.
Script ==
    [begin     |-> [kind |-> "STATUS", state |-> "RUNNING", ok |-> "body", refused |-> "rescue"],
     deny      |-> [kind |-> "ISSUE", state |-> "FAILED", ok |-> "leaving", refused |-> "rescue"],
     result    |-> [kind |-> "RESULT", state |-> "SUCCEEDED", ok |-> "leaving", refused |-> "failing"],
     toReview  |-> [kind |-> "REVIEW", state |-> "REVIEW_REQUIRED", ok |-> "reviewing", refused |-> "failing"],
     reviewing |-> [kind |-> "REVIEW", state |-> "RUNNING", ok |-> "result", refused |-> "failing"],
     toStop    |-> [kind |-> "REVIEW", state |-> "REVIEW_REQUIRED", ok |-> "failure", refused |-> "failing"],
     failure   |-> [kind |-> "ISSUE", state |-> "FAILED", ok |-> "leaving", refused |-> "failing"],
     failing   |-> [kind |-> "ISSUE", state |-> "FAILED", ok |-> "leaving", refused |-> "rescue"],
     rescuing  |-> [kind |-> "ISSUE", state |-> "FAILED", ok |-> "leaving", refused |-> "leaving"]]

Label == DOMAIN Script \cup {"none", "body", "rescue", "leaving"}

VARIABLES
    events,    \* per task: the events, <<>> before the task is created
    reviewed,  \* review_completed
    exec,      \* workbench_execution: status, owner, ticks left of the lease
    up,        \* per owner: "new", "starting", "up" or "down"
    run,       \* per owner and task: label and the sequence numbers it knows
    fill,      \* per owner: calls of _fill_execution_capacity under way
    watch,     \* per owner: _watch_foreign_leases and the reconciliation it awaits:
               \* mode, ticks to sleep, sweeps, orphans found, sequence read
    bodies,    \* history: how often a task's runtime was started
    faults

vars == <<events, reviewed, exec, up, run, fill, watch, bodies, faults>>

LastSequence(t) == Len(events[t])
State(t) == events[t][Len(events[t])].state
Created(t) == events[t] # <<>>

Idle == [at |-> "none", seq |-> 0, running |-> 0]
Off == [mode |-> "off", sleep |-> 0, sweeps |-> 0, todo |-> {}, seq |-> 0]

Init ==
    /\ events = [t \in Tasks |-> <<>>]
    /\ reviewed = [t \in Tasks |-> Class[t] = "G0"]
    /\ exec = [t \in Tasks |-> [status |-> "PENDING", owner |-> NoOwner, left |-> 0]]
    /\ up = [o \in Owners |-> "new"]
    /\ run = [o \in Owners |-> [t \in Tasks |-> Idle]]
    /\ fill = [o \in Owners |-> {}]
    /\ watch = [o \in Owners |-> Off]
    /\ bodies = [t \in Tasks |-> 0]
    /\ faults = 0

-----------------------------------------------------------------------------
(* The repository.                                                          *)

ReviewCompleted(t, kind, state) ==
    reviewed[t] \/ (State(t) = "REVIEW_REQUIRED" /\ kind = "REVIEW" /\ state = "RUNNING")

\* Mutant: the sequence number of an append is not compared.
ValidAppendUnsequenced(t, seq, kind, state) ==
    /\ State(t) \notin Terminal
    /\ state \in AllowedAfter(State(t))
    /\ state = "SUCCEEDED" => ReviewCompleted(t, kind, state)

\* _validated_appended_task.
ValidAppend(t, seq, kind, state) ==
    /\ State(t) \notin Terminal
    /\ seq = LastSequence(t) + 1
    /\ state \in AllowedAfter(State(t))
    /\ state = "SUCCEEDED" => ReviewCompleted(t, kind, state)

\* append: the event, the task and, for a terminal state, the execution record
\* change in one transaction.
AppendEvent(t, kind, state) ==
    /\ events' = [events EXCEPT ![t] = Append(@, [kind |-> kind, state |-> state])]
    /\ reviewed' = [reviewed EXCEPT ![t] = ReviewCompleted(t, kind, state)]
    /\ exec' = IF state \in Terminal
               THEN [exec EXCEPT ![t] =
                        [status |-> "COMPLETED", owner |-> NoOwner, left |-> 0]]
               ELSE exec

ExpiredForeign(o, t) ==
    exec[t].status = "CLAIMED" /\ exec[t].owner # o /\ exec[t].left = 0

\* Mutant: an expired claim is taken over whatever the task has reached.
ClaimableOpen(o, t) ==
    Created(t) /\ (exec[t].status = "PENDING" \/ ExpiredForeign(o, t))

\* pending_executions and claim_execution.
Claimable(o, t) ==
    /\ Created(t) /\ State(t) = "ACCEPTED"
    /\ exec[t].status = "PENDING" \/ ExpiredForeign(o, t)

Orphaned(o, t) ==
    Created(t) /\ State(t) \notin Terminal \cup {"ACCEPTED"} /\ ExpiredForeign(o, t)

\* next_foreign_lease_expiry, in ticks from now.
ForeignLeases(o) ==
    {exec[t].left : t \in {u \in Tasks : exec[u].status = "CLAIMED"
                                         /\ exec[u].owner # o /\ exec[u].left > 0}}

-----------------------------------------------------------------------------
(* The coordinator.                                                         *)

Active(o) == {t \in Tasks : run[o][t].at # "none"}

Live(o) == up[o] \in {"starting", "up"}

\* _reconcile_expired_executions awaits nothing: meanwhile no other step of the
\* same process is taken, but other processes and the clock go on.
Reconciling(o) == watch[o].mode \in {"scan", "read", "append"}

\* stop() cancels what the process runs, and so does its death: nothing is written.
GoesDown(o) ==
    /\ up' = [up EXCEPT ![o] = "down"]
    /\ run' = [run EXCEPT ![o] = [t \in Tasks |-> Idle]]
    /\ fill' = [fill EXCEPT ![o] = {}]
    /\ watch' = [watch EXCEPT ![o] = Off]

\* start: reconcile first; filling and watching follow.
Start(o) ==
    /\ up[o] = "new"
    /\ Overlap \/ \A p \in Owners : ~Live(p)
    /\ up' = [up EXCEPT ![o] = "starting"]
    /\ watch' = [watch EXCEPT ![o].mode = "scan"]
    /\ UNCHANGED <<events, reviewed, exec, run, fill, bodies, faults>>

Scan(o) ==
    /\ watch[o].mode = "scan"
    /\ watch' = [watch EXCEPT ![o].mode = "read", ![o].todo = {t \in Tasks : Orphaned(o, t)}]
    /\ UNCHANGED <<events, reviewed, exec, up, run, fill, bodies, faults>>

\* The scan is ordered by task_id.
NextOrphan(o) == CHOOSE t \in watch[o].todo : TRUE

\* _append_execution_failure reads the task again before it appends.
ReadOrphan(o) ==
    /\ watch[o].mode = "read"
    /\ watch[o].todo # {}
    /\ LET t == NextOrphan(o)
       IN watch' = IF State(t) \in Terminal
                   THEN [watch EXCEPT ![o].todo = @ \ {t}]
                   ELSE [watch EXCEPT ![o].mode = "append", ![o].seq = LastSequence(t) + 1]
    /\ UNCHANGED <<events, reviewed, exec, up, run, fill, bodies, faults>>

CanBlock(o) ==
    ValidAppend(NextOrphan(o), watch[o].seq, "ISSUE", "BLOCKED")

AppendBlocked(o) ==
    /\ watch[o].mode = "append"
    /\ CanBlock(o)
    /\ AppendEvent(NextOrphan(o), "ISSUE", "BLOCKED")
    /\ watch' = [watch EXCEPT ![o].mode = "read", ![o].seq = 0,
                              ![o].todo = @ \ {NextOrphan(o)}]
    /\ UNCHANGED <<up, run, fill, bodies, faults>>

Reconciled(o) ==
    /\ watch[o].mode = "read"
    /\ watch[o].todo = {}
    /\ IF up[o] = "starting"
       THEN /\ fill' = [fill EXCEPT ![o] = {"start"}]
            /\ watch' = [watch EXCEPT ![o].mode = "off"]
       ELSE /\ fill' = [fill EXCEPT ![o] = @ \cup {"watch"}]
            /\ watch' = [watch EXCEPT ![o].mode = "swept"]
    /\ UNCHANGED <<events, reviewed, exec, up, run, bodies, faults>>

OneFault == faults < MaxFaults /\ faults' = faults + 1

\* An operation of the watcher or of the reconciliation fails, or its append is
\* refused, and nothing catches it: a start ends the process, the watcher ends for good.
WatchFails(o) ==
    /\ \/ /\ \/ watch[o].mode \in {"check", "scan", "append"}
             \/ watch[o].mode = "read" /\ watch[o].todo # {}
          /\ OneFault
       \/ /\ watch[o].mode = "append" /\ ~CanBlock(o)
          /\ UNCHANGED faults
    /\ IF up[o] = "starting" THEN GoesDown(o)
       ELSE /\ watch' = [watch EXCEPT ![o] = [Off EXCEPT !.mode = "failed"]]
            /\ UNCHANGED <<up, run, fill>>
    /\ UNCHANGED <<events, reviewed, exec, bodies>>

\* The watcher is created once the first fill is done.
Started(o) ==
    /\ up[o] = "starting"
    /\ watch[o].mode = "off"
    /\ "start" \notin fill[o]
    /\ up' = [up EXCEPT ![o] = "up"]
    /\ watch' = [watch EXCEPT ![o].mode = "check"]
    /\ UNCHANGED <<events, reviewed, exec, run, fill, bodies, faults>>

\* create_and_schedule; a replay of the same request only fills.
CreateAndSchedule(o, t) ==
    /\ up[o] = "up" /\ ~Reconciling(o)
    /\ ~Created(t)
    /\ events' = [events EXCEPT ![t] = <<[kind |-> "STATUS", state |-> "ACCEPTED"]>>]
    /\ fill' = [fill EXCEPT ![o] = @ \cup {"call"}]
    /\ UNCHANGED <<reviewed, exec, up, run, watch, bodies, faults>>

ReplayCreate(o, t) ==
    /\ up[o] = "up" /\ ~Reconciling(o)
    /\ Created(t)
    /\ fill' = [fill EXCEPT ![o] = @ \cup {"call"}]
    /\ UNCHANGED <<events, reviewed, exec, up, run, watch, bodies, faults>>

\* One claim of _fill_execution_capacity, which creates the execution.
Claim(o, t) ==
    /\ fill[o] # {} /\ ~Reconciling(o)
    /\ Cardinality(Active(o)) < MaxActive
    /\ t \notin Active(o)
    /\ Claimable(o, t)
    /\ exec' = [exec EXCEPT ![t] = [status |-> "CLAIMED", owner |-> o, left |-> Lease]]
    /\ run' = [run EXCEPT ![o][t] =
                  [at |-> IF Class[t] = "K1" THEN "deny" ELSE "begin",
                   seq |-> LastSequence(t), running |-> LastSequence(t)]]
    /\ UNCHANGED <<events, reviewed, up, fill, watch, bodies, faults>>

\* No capacity or no candidate: the fill is over.
FillDone(o, call) ==
    /\ call \in fill[o] /\ ~Reconciling(o)
    /\ \/ Cardinality(Active(o)) >= MaxActive
       \/ \A t \in Tasks \ Active(o) : ~Claimable(o, t)
    /\ fill' = [fill EXCEPT ![o] = @ \ {call}]
    /\ UNCHANGED <<events, reviewed, exec, up, run, watch, bodies, faults>>

\* An operation of the fill fails: the caller of a request is told, an execution is
\* over anyway, but start and the watcher end with it.
FillFails(o, call) ==
    /\ call \in fill[o] /\ ~Reconciling(o)
    /\ OneFault
    /\ IF call = "start" THEN GoesDown(o)
       ELSE /\ fill' = [fill EXCEPT ![o] = @ \ {call}]
            /\ watch' = IF call = "watch"
                        THEN [watch EXCEPT ![o] = [Off EXCEPT !.mode = "failed"]]
                        ELSE watch
            /\ UNCHANGED <<up, run>>
    /\ UNCHANGED <<events, reviewed, exec, bodies>>

\* _watch_foreign_leases looks for the next lease that is still running.
WatchCheck(o) ==
    /\ watch[o].mode = "check"
    /\ watch' = [watch EXCEPT ![o] =
           IF ForeignLeases(o) = {} \/ watch[o].sweeps = MaxSweeps THEN Off
           ELSE [Off EXCEPT !.mode = "sleep", !.sweeps = watch[o].sweeps,
                 !.sleep = CHOOSE n \in ForeignLeases(o) :
                               \A m \in ForeignLeases(o) : n <= m]]
    /\ UNCHANGED <<events, reviewed, exec, up, run, fill, bodies, faults>>

\* Mutant: the watcher looks for work but does not reconcile.
WatchWakeFilling(o) ==
    /\ watch[o].mode = "sleep"
    /\ watch[o].sleep = 0
    /\ fill' = [fill EXCEPT ![o] = @ \cup {"watch"}]
    /\ watch' = [watch EXCEPT ![o].mode = "swept"]
    /\ UNCHANGED <<events, reviewed, exec, up, run, bodies, faults>>

WatchWake(o) ==
    /\ watch[o].mode = "sleep"
    /\ watch[o].sleep = 0
    /\ watch' = [watch EXCEPT ![o].mode = "scan"]
    /\ UNCHANGED <<events, reviewed, exec, up, run, fill, bodies, faults>>

\* The fill of this sweep is done; the next sweep begins.
WatchAgain(o) ==
    /\ watch[o].mode = "swept"
    /\ "watch" \notin fill[o]
    /\ watch' = [watch EXCEPT ![o].mode = "check", ![o].sweeps = @ + 1]
    /\ UNCHANGED <<events, reviewed, exec, up, run, fill, bodies, faults>>

-----------------------------------------------------------------------------
(* One execution.                                                           *)

\* The sequence number an append of this step is made with: the except clause
\* of an executor uses the task it held when it began to run.
NextSequence(o, t) ==
    IF run[o][t].at = "failing" THEN run[o][t].running + 1 ELSE run[o][t].seq + 1

GoOn(o, t, label) ==
    run' = [run EXCEPT ![o][t] =
               [at |-> label, seq |-> run[o][t].seq + 1,
                running |-> IF run[o][t].at = "begin" THEN run[o][t].seq + 1
                            ELSE run[o][t].running]]

\* The append succeeds.
AppendStep(o, t) ==
    /\ run[o][t].at \in DOMAIN Script
    /\ LET step == Script[run[o][t].at]
       IN /\ ValidAppend(t, NextSequence(o, t), step.kind, step.state)
          /\ AppendEvent(t, step.kind, step.state)
          /\ GoOn(o, t, step.ok)
          /\ bodies' = IF step.ok = "body" THEN [bodies EXCEPT ![t] = @ + 1] ELSE bodies
    /\ UNCHANGED <<up, fill, watch, faults>>

\* Mutant: an executor that fails is not rescued by the coordinator.
AppendRefusedUnrescued(o, t) ==
    /\ run[o][t].at \in DOMAIN Script
    /\ LET step == Script[run[o][t].at]
       IN /\ \/ /\ ~ValidAppend(t, NextSequence(o, t), step.kind, step.state)
                /\ UNCHANGED faults
             \/ OneFault
          /\ run' = [run EXCEPT ![o][t].at =
                        IF step.refused = "rescue" THEN "leaving" ELSE step.refused]
    /\ UNCHANGED <<events, reviewed, exec, up, fill, watch, bodies>>

\* The repository refuses the append, or fails.
AppendRefused(o, t) ==
    /\ run[o][t].at \in DOMAIN Script
    /\ LET step == Script[run[o][t].at]
       IN /\ \/ /\ ~ValidAppend(t, NextSequence(o, t), step.kind, step.state)
                /\ UNCHANGED faults
             \/ OneFault
          /\ run' = [run EXCEPT ![o][t].at = step.refused]
    /\ UNCHANGED <<events, reviewed, exec, up, fill, watch, bodies>>

\* The except clause of _execute_claimed reads the task, which may fail as well.
RescueRead(o, t) ==
    /\ run[o][t].at = "rescue"
    /\ \/ /\ run' = [run EXCEPT ![o][t] =
                IF State(t) \in Terminal THEN [@ EXCEPT !.at = "leaving"]
                ELSE [@ EXCEPT !.at = "rescuing", !.seq = LastSequence(t)]]
          /\ UNCHANGED faults
       \/ /\ OneFault
          /\ run' = [run EXCEPT ![o][t].at = "leaving"]
    /\ UNCHANGED <<events, reviewed, exec, up, fill, watch, bodies>>

\* The configured runtime returns or raises.
BodyReturns(o, t) ==
    /\ run[o][t].at = "body"
    /\ \E label \in {"failure", "failing"}
                    \cup (IF Class[t] = "G0" THEN {"result"} ELSE {"toReview", "toStop"}) :
          run' = [run EXCEPT ![o][t].at = label]
    /\ UNCHANGED <<events, reviewed, exec, up, fill, watch, bodies, faults>>

Leave(o, t) ==
    /\ run[o][t].at = "leaving"
    /\ run' = [run EXCEPT ![o][t] = Idle]
    /\ fill' = [fill EXCEPT ![o] = @ \cup {"call"}]
    /\ UNCHANGED <<events, reviewed, exec, up, watch, bodies, faults>>

Crash(o) ==
    /\ Live(o)
    /\ GoesDown(o)
    /\ UNCHANGED <<events, reviewed, exec, bodies, faults>>

Tick ==
    /\ exec' = [t \in Tasks |-> [exec[t] EXCEPT !.left = IF @ > 0 THEN @ - 1 ELSE 0]]
    /\ watch' = [o \in Owners |-> [watch[o] EXCEPT !.sleep = IF @ > 0 THEN @ - 1 ELSE 0]]
    /\ UNCHANGED <<events, reviewed, up, run, fill, bodies, faults>>

ReconcileStep(o) == Scan(o) \/ ReadOrphan(o) \/ AppendBlocked(o) \/ Reconciled(o)

WatchStep(o) ==
    ReconcileStep(o) \/ WatchCheck(o) \/ WatchWake(o) \/ WatchAgain(o) \/ WatchFails(o)

FillStep(o) ==
    \/ Started(o)
    \/ \E t \in Tasks : Claim(o, t)
    \/ \E call \in fill[o] : FillDone(o, call) \/ FillFails(o, call)

RunStep(o, t) ==
    /\ ~Reconciling(o)
    /\ \/ AppendStep(o, t) \/ AppendRefused(o, t) \/ RescueRead(o, t)
       \/ BodyReturns(o, t) \/ Leave(o, t)

Next ==
    \/ \E o \in Owners :
          \/ Start(o)
          \/ \E t \in Tasks : CreateAndSchedule(o, t) \/ ReplayCreate(o, t) \/ RunStep(o, t)
          \/ FillStep(o)
          \/ WatchStep(o)
          \/ Crash(o)
    \/ Tick

Spec == Init /\ [][Next]_vars

\* The event loop runs what is ready, executors return, and time passes.
FairSpec ==
    /\ Spec
    /\ \A o \in Owners :
          /\ WF_vars(Started(o))
          /\ WF_vars(\E t \in Tasks : Claim(o, t))
          /\ \A call \in {"start", "call", "watch"} : WF_vars(FillDone(o, call))
          /\ WF_vars(WatchStep(o))
    /\ \A o \in Owners, t \in Tasks : WF_vars(RunStep(o, t))
    /\ WF_vars(Tick)
-----------------------------------------------------------------------------
(* Properties.                                                              *)

\* The tables of the repository and the locals of the coordinator.
TypeOK ==
    /\ \A t \in Tasks : \A i \in DOMAIN events[t] : events[t][i].state \in Open \cup Terminal
    /\ reviewed \in [Tasks -> BOOLEAN]
    /\ exec \in [Tasks -> [status : {"PENDING", "CLAIMED", "COMPLETED"},
                           owner : Owners \cup {NoOwner}, left : 0..Lease]]
    /\ up \in [Owners -> {"new", "starting", "up", "down"}]
    /\ run \in [Owners -> [Tasks -> [at : Label, seq : Nat, running : Nat]]]
    /\ fill \in [Owners -> SUBSET {"start", "call", "watch"}]
    /\ watch \in [Owners -> [mode : {"off", "check", "sleep", "scan", "read", "append",
                                     "swept", "failed"},
                             sleep : 0..Lease, sweeps : 0..MaxSweeps,
                             todo : SUBSET Tasks, seq : Nat]]
    /\ bodies \in [Tasks -> Nat]
    /\ faults \in 0..MaxFaults

\* client-api-v1.md: the runtime of a task is started at most once, over restarts,
\* expired leases and two owners at the same time.
StartedAtMostOnce == \A t \in Tasks : bodies[t] <= 1

\* A task that succeeded shows one undisturbed execution: no event of another owner
\* between its steps, and for a professional task the review asked for and passed
\* right before the result (_validated_appended_task and the executors together).
SuccessIsOneReviewedRun ==
    \A t \in Tasks : Created(t) /\ State(t) = "SUCCEEDED" =>
        [i \in DOMAIN events[t] |-> events[t][i].state] =
            IF Class[t] = "G0" THEN <<"ACCEPTED", "RUNNING", "SUCCEEDED">>
            ELSE <<"ACCEPTED", "RUNNING", "REVIEW_REQUIRED", "RUNNING", "SUCCEEDED">>

\* _execute_claimed: a task that an owner has claimed ends, unless the owner goes
\* down, even when one operation of the repository fails on the way.
ClaimedTaskEnds ==
    \A t \in Tasks, o \in Owners :
        exec[t].owner = o ~> ((Created(t) /\ State(t) \in Terminal) \/ ~Live(o))

Interrupted(o, t) ==
    /\ exec[t].status = "CLAIMED"
    /\ State(t) \notin Terminal \cup {"ACCEPTED"}
    /\ exec[t].owner # o /\ ~Live(exec[t].owner)

\* An interrupted task whose lease the watcher is waiting for ends BLOCKED, unless an
\* operation of the watcher itself fails: _watch_foreign_leases has no except clause.
\* A failure anywhere else in the process does not excuse it.
WatchedTaskIsBlocked ==
    \A t \in Tasks, o \in Owners :
        /\ watch[o].mode = "sleep" /\ watch[o].sleep = exec[t].left
        /\ Interrupted(o, t)
        ~> ((Created(t) /\ State(t) = "BLOCKED") \/ ~Live(o) \/ watch[o].mode = "failed")

\* client-api-v1.md: an expired claim whose task already advanced becomes BLOCKED.
InterruptedTaskIsBlocked ==
    \A t \in Tasks, o \in Owners :
        up[o] = "up" /\ Interrupted(o, t)
        ~> ((Created(t) /\ State(t) = "BLOCKED") \/ ~Live(o))
=============================================================================
