----------------------------- MODULE EventStream -----------------------------
(***************************************************************************)
(* The event stream of one workbench task (client/service.py):             *)
(* WorkbenchRuntime.stream_events, _NotifyingTaskRepository and the        *)
(* _TaskEventSignal between them.  A repository commits an event under its *)
(* lock; the publication follows as a step of its own, and a stream reads  *)
(* the generation, reads a batch and waits in three steps.  Another        *)
(* process with the same database commits without publishing here.         *)
(***************************************************************************)
EXTENDS Naturals

CONSTANTS
  Streams,      \* open SSE responses
  Writers,      \* threads of this process that append events
  MaxEvents,    \* bound of the history
  MaxBatches    \* stream_max_batches

VARIABLES
  lastSequence, \* last_sequence of the task
  ended,        \* the task state is terminal
  foreign,      \* sequence numbers committed by another process
  version,      \* _versions[task_id]
  waiters,      \* _waiters[task_id]
  writer,       \* writer -> "idle" or "committed" (not yet published)
  stream,       \* stream -> [step, generation, cursor, batches, last, set]
  bound         \* an executor is bound to the runtime

streamVars == <<lastSequence, ended, foreign, version, waiters, writer, stream, bound>>

Closed == [step |-> "closed", generation |-> 0, cursor |-> 0, batches |-> 0, set |-> FALSE]

-----------------------------------------------------------------------------
(* Writers                                                                 *)

\* repository.append in this process; the publication is still to come.
Append(w, terminal) ==
  /\ ~ended /\ lastSequence < MaxEvents
  /\ writer[w] = "idle"
  /\ lastSequence' = lastSequence + 1
  /\ ended' = terminal
  /\ writer' = [writer EXCEPT ![w] = "committed"]
  /\ UNCHANGED <<foreign, version, waiters, stream, bound>>

\* repository.append in another process.
ForeignAppend(terminal) ==
  /\ ~ended /\ lastSequence < MaxEvents
  /\ lastSequence' = lastSequence + 1
  /\ ended' = terminal
  /\ foreign' = foreign \cup {lastSequence + 1}
  /\ UNCHANGED <<version, waiters, writer, stream, bound>>

\* _TaskEventSignal.publish: a new version, and every registered waiter is set.
Publish(w) ==
  /\ writer[w] = "committed"
  /\ version' = version + 1
  /\ stream' = [s \in Streams |-> [stream[s] EXCEPT !.set = @ \/ s \in waiters]]
  /\ writer' = [writer EXCEPT ![w] = "idle"]
  /\ UNCHANGED <<lastSequence, ended, foreign, waiters, bound>>

-----------------------------------------------------------------------------
(* Streams                                                                 *)

\* The route reads once with the cursor of the client, which refuses one
\* beyond the history, and then starts the stream.
Open(s, after) ==
  /\ stream[s].step = "closed"
  /\ after <= lastSequence
  /\ stream' = [stream EXCEPT ![s] = [Closed EXCEPT !.step = "generation", !.cursor = after]]
  /\ UNCHANGED <<lastSequence, ended, foreign, version, waiters, writer, bound>>

ReadGeneration(s) ==
  /\ stream[s].step = "generation"
  /\ stream' = [stream EXCEPT ![s].step = "read", ![s].generation = version]
  /\ UNCHANGED <<lastSequence, ended, foreign, version, waiters, writer, bound>>

\* events(cursor), under the lock of the repository, and what follows the
\* yield: the stream ends behind a terminal batch or without an executor.
ReadBatch(s) ==
  /\ stream[s].step = "read"
  /\ LET st == stream[s] IN stream' = [stream EXCEPT ![s] =
       IF ended \/ ~bound THEN [st EXCEPT !.step = "done", !.cursor = lastSequence]
       ELSE [st EXCEPT !.step = "wait", !.cursor = lastSequence, !.batches = @ + 1]]
  /\ UNCHANGED <<lastSequence, ended, foreign, version, waiters, writer, bound>>

\* Goes on with the next batch, or ends after the last one.
Proceed(st) ==
  [st EXCEPT !.step = IF st.batches < MaxBatches THEN "generation" ELSE "done", !.set = FALSE]

\* Mutant: registers although the version has moved on.
WaitAnyway(s) ==
  /\ stream[s].step = "wait"
  /\ stream' = [stream EXCEPT ![s].step = "waiting"]
  /\ waiters' = waiters \cup {s}
  /\ UNCHANGED <<lastSequence, ended, foreign, version, writer, bound>>

\* _TaskEventSignal.wait under its lock: compares the version, or registers.
Wait(s) ==
  /\ stream[s].step = "wait"
  /\ IF version # stream[s].generation
     THEN stream' = [stream EXCEPT ![s] = Proceed(@)] /\ UNCHANGED waiters
     ELSE /\ stream' = [stream EXCEPT ![s].step = "waiting"]
          /\ waiters' = waiters \cup {s}
  /\ UNCHANGED <<lastSequence, ended, foreign, version, writer, bound>>

Wake(s) ==
  /\ stream[s].step = "waiting" /\ stream[s].set
  /\ stream' = [stream EXCEPT ![s] = Proceed(@)]
  /\ waiters' = waiters \ {s}
  /\ UNCHANGED <<lastSequence, ended, foreign, version, writer, bound>>

\* No time remains, or the wait runs out: the response ends, and the client
\* may connect again with its cursor.
Timeout(s) ==
  /\ stream[s].step \in {"wait", "waiting"}
  /\ stream' = [stream EXCEPT ![s] = [@ EXCEPT !.step = "done", !.set = FALSE]]
  /\ waiters' = waiters \ {s}
  /\ UNCHANGED <<lastSequence, ended, foreign, version, writer, bound>>

Reconnect(s) ==
  /\ stream[s].step = "done" /\ ~ended
  /\ stream' = [stream EXCEPT ![s] = [Closed EXCEPT !.step = "generation",
                                                    !.cursor = stream[s].cursor]]
  /\ UNCHANGED <<lastSequence, ended, foreign, version, waiters, writer, bound>>

-----------------------------------------------------------------------------
\* create has committed the first event and published it.
Init ==
  /\ lastSequence = 1 /\ ended = FALSE /\ foreign = {}
  /\ version = 1 /\ waiters = {}
  /\ writer = [w \in Writers |-> "idle"]
  /\ stream = [s \in Streams |-> Closed]
  /\ bound \in BOOLEAN

Next ==
  \/ \E w \in Writers : Publish(w) \/ \E terminal \in BOOLEAN : Append(w, terminal)
  \/ \E terminal \in BOOLEAN : ForeignAppend(terminal)
  \/ \E s \in Streams :
       \/ \E after \in 0..MaxEvents : Open(s, after)
       \/ ReadGeneration(s) \/ ReadBatch(s) \/ Wait(s) \/ Wake(s) \/ Timeout(s) \/ Reconnect(s)

Spec == Init /\ [][Next]_streamVars

\* A stream that waits and will not be woken has delivered every event this
\* process has committed: no commit falls between the read and the wait.
WaitingStreamIsComplete ==
  \A s \in Streams :
    /\ stream[s].step = "waiting" /\ ~stream[s].set
    /\ \A w \in Writers : writer[w] = "idle"
    => (stream[s].cursor + 1)..lastSequence \subseteq foreign
==============================================================================
