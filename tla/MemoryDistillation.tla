------------------------- MODULE MemoryDistillation -------------------------
(***************************************************************************)
(* The scoped memory of one project namespace (memory/store.py) and the    *)
(* distillation of context events into candidates (memory/distillation.py).*)
(* The distiller and the repository are asynchronous ports: other callers  *)
(* run at every await, so each of them is a step.  Content stands for its  *)
(* hash.                                                                   *)
(***************************************************************************)
EXTENDS Refusals, FiniteSets

CONSTANTS
  Runs,       \* calls of distill
  Requests,   \* [user, permissions, clearance, signals, older]: what they are made with
  Outputs,    \* [attested, proposals]: what the distiller answers
  Direct,     \* records other callers put, of any scope
  MaxFacts,   \* max_project_facts (30)
  ShownLimit, \* records a query of the pipeline is shown at most (500)
  MaxTime     \* bound of the clock

VARIABLES
  memoryTime,
  records,    \* the repository
  distill     \* run -> its progress

memoryVars == <<memoryTime, records, distill>>

Idle == [step |-> "idle", request |-> 0, now |-> 0, base |-> 0, last |-> 0, existing |-> {},
         todo |-> <<>>, stored |-> {}, deduplicated |-> 0, conflicts |-> {}]

-----------------------------------------------------------------------------
(* MemoryStore                                                             *)

\* _record_visible inside one project: the other records need the exact user.
RecordVisible(user, r) == r.scope \in {"PROJECT", "AUDIT"} \/ r.user = user

\* _included
Included(r, now, candidates) ==
  /\ r.expires = 0 \/ now < r.expires
  /\ r.state \notin {"REJECTED", "EXPIRED"}
  /\ r.state = "CANDIDATE" => candidates

\* _authorize and the further permission for candidates
QueryError(request, scope) ==
  FirstRefusal(<<
    <<<<scope, "read">> \notin request.permissions, "MEMORY_PERMISSION_DENIED">>,
    <<<<"CANDIDATE", "read">> \notin request.permissions, "MEMORY_CANDIDATE_DENIED">> >>)

Matching(request, scope, now) ==
  {r \in records : /\ r.scope = scope /\ RecordVisible(request.user, r)
                   /\ r.class <= request.clearance
                   /\ Included(r, now, TRUE)}

\* MemoryStore.query with candidates: the oldest of the matching records, up to
\* the limit; the ids decide between records of one time, in any order here.
Query(request, scope, now) ==
  LET matching == Matching(request, scope, now) IN
  {shown \in SUBSET matching :
    /\ Cardinality(shown) <= ShownLimit
    /\ shown # matching => Cardinality(shown) = ShownLimit
    /\ \A r \in shown, q \in matching \ shown : r.created <= q.created}

\* MemoryStore.put and InMemoryMemoryRepository.insert
PutError(request, r) ==
  FirstRefusal(<<
    <<<<r.scope, "write">> \notin request.permissions, "MEMORY_PERMISSION_DENIED">>,
    <<~RecordVisible(request.user, r), "MEMORY_SCOPE_DENIED">>,
    <<r.class > request.clearance, "MEMORY_CLASSIFICATION_DENIED">>,
    <<\E q \in records : q.id = r.id, "MEMORY_IMMUTABLE_CONFLICT">> >>)

\* A stored record, by whom it was put and its place in the order of insertion.
Placed(r, by, place) ==
  [id |-> r.id, user |-> r.user, scope |-> r.scope, key |-> r.key, content |-> r.content,
   class |-> r.class, state |-> r.state, expires |-> r.expires, created |-> r.created,
   by |-> by, place |-> place]

Insert(r, by) == records' = records \cup {Placed(r, by, Cardinality(records) + 1)}

Put(request, r) ==
  /\ PutError(request, r) = None
  /\ Insert(r, 0)
  /\ UNCHANGED <<memoryTime, distill>>

-----------------------------------------------------------------------------
(* MemoryDistillationPipeline                                              *)

\* _triggers; signals names the ones that reach their threshold.
Triggers(request) ==
  request.signals \cap {"CONTEXT_PRESSURE", "TURN_COUNT", "TASK_COMPLETED",
                        "USER_MEMORY_INTENT", "ARCHIVED"}

\* older is the number of events that are neither protected nor among the six
\* latest turns (_retained_event_ids).
DistillError(request) ==
  FirstRefusal(<<
    <<Triggers(request) = {}, "MEMORY_DISTILLATION_NOT_TRIGGERED">>,
    <<request.older = 0, "MEMORY_DISTILLATION_NO_ELIGIBLE_EVENTS">> >>)

Distill(d, request) ==
  /\ distill[d].step = "idle"
  /\ distill' = [distill EXCEPT ![d] =
       [Idle EXCEPT !.step = IF DistillError(request) = None THEN "adapter" ELSE "failed",
                    !.request = request, !.now = memoryTime]]
  /\ UNCHANGED <<memoryTime, records>>

OutputError(output) ==
  FirstRefusal(<<
    <<~output.attested, "MEMORY_DISTILLATION_SOURCE_MISMATCH">>,
    <<Cardinality({i \in DOMAIN output.proposals :
                    output.proposals[i].kind = "FACT" /\ output.proposals[i].scope = "PROJECT"})
        > MaxFacts, "MEMORY_DISTILLATION_FACT_LIMIT">> >>)

Answer(d, output) ==
  /\ distill[d].step = "adapter"
  /\ distill' = [distill EXCEPT
       ![d].step = IF OutputError(output) = None THEN "USER" ELSE "failed",
       ![d].todo = output.proposals]
  /\ UNCHANGED <<memoryTime, records>>

\* _persist_candidates reads the user records, then those of the project.
Read(d) ==
  LET run == distill[d] IN
  /\ run.step \in {"USER", "PROJECT"}
  /\ IF QueryError(run.request, run.step) # None
     THEN distill' = [distill EXCEPT ![d] = [run EXCEPT !.step = "failed"]]
     ELSE \E shown \in Query(run.request, run.step, run.now) :
       distill' = [distill EXCEPT ![d] =
         [run EXCEPT !.step = IF run.step = "USER" THEN "PROJECT" ELSE "persist",
                     !.base = IF run.step = "USER" THEN Cardinality(records) ELSE run.base,
                     !.last = Cardinality(records), !.existing = run.existing \cup shown]]
  /\ UNCHANGED <<memoryTime, records>>

\* The id of a candidate is made of project, namespace and content, without
\* the user; a value stands for the value of the fact with its kind and flags.
Candidate(run, proposal) ==
  [id |-> <<proposal.key, proposal.value>>, user |-> run.request.user, scope |-> proposal.scope,
   key |-> proposal.key, content |-> <<proposal.key, proposal.value>>, class |-> proposal.class,
   state |-> "CANDIDATE", expires |-> proposal.expires, created |-> run.now]

\* Mutant: compares with what was read only.
ClashesRead(run, r) == {q \in run.existing : q.key = r.key /\ q.content # r.content}

\* existing_by_key grows with the candidates of this run.
Clashes(run, r) == {q \in run.existing \cup run.stored : q.key = r.key /\ q.content # r.content}

\* One proposal of the loop: a duplicate is dropped, a new candidate is put; an
\* error ends the run and leaves the candidates before it in the store.
Persist(d) ==
  LET run == distill[d]
      r == Candidate(run, Head(run.todo))
      conflict == {<<r.id, q.id>> : q \in Clashes(run, r)}
  IN
  /\ run.step = "persist" /\ run.todo # <<>>
  /\ IF \E q \in run.existing \cup run.stored : q.content = r.content
     THEN /\ distill' = [distill EXCEPT ![d] = [run EXCEPT !.todo = Tail(run.todo),
                                                         !.deduplicated = run.deduplicated + 1]]
          /\ UNCHANGED records
     ELSE IF PutError(run.request, r) # None
     THEN /\ distill' = [distill EXCEPT ![d].step = "failed"]
          /\ UNCHANGED records
     ELSE /\ Insert(r, d)
          /\ distill' = [distill EXCEPT ![d] =
               [run EXCEPT !.todo = Tail(run.todo), !.stored = run.stored \cup {r},
                           !.conflicts = run.conflicts \cup conflict]]
  /\ UNCHANGED memoryTime

Return(d) ==
  /\ distill[d].step = "persist" /\ distill[d].todo = <<>>
  /\ distill' = [distill EXCEPT ![d].step = "done"]
  /\ UNCHANGED <<memoryTime, records>>

-----------------------------------------------------------------------------
Tick ==
  /\ memoryTime < MaxTime
  /\ memoryTime' = memoryTime + 1
  /\ UNCHANGED <<records, distill>>

Init ==
  /\ memoryTime = 1
  /\ records = {}
  /\ distill = [d \in Runs |-> Idle]

Next ==
  \/ Tick
  \/ \E request \in Requests, r \in Direct : Put(request, r)
  \/ \E d \in Runs :
       \/ \E request \in Requests : Distill(d, request)
       \/ \E output \in Outputs : Answer(d, output)
       \/ Read(d) \/ Persist(d) \/ Return(d)

Spec == Init /\ [][Next]_memoryVars

\* What a run was to see: the records of the user that were there at its first
\* read and those of the project that were there at its second.
There(run, q) ==
  /\ \/ q.scope = "USER" /\ q.place <= run.base
     \/ q.scope = "PROJECT" /\ q.place <= run.last
  /\ RecordVisible(run.request.user, q) /\ q.class <= run.request.clearance
  /\ Included(q, run.now, TRUE)

\* Records of the scope that may come before q in the answer to the run.
Ahead(run, q) == {p \in records \ {q} : p.scope = q.scope /\ There(run, p) /\ p.created <= q.created}

\* A distillation that returns has reported every clash of a candidate it stored
\* with an earlier record of the same key, but with one that was put after its read
\* or has ShownLimit records ahead of it: of those neither it nor anyone is told.
ClashesAreReported ==
  \A d \in Runs : distill[d].step = "done" =>
    \A r, q \in records :
      r.by = d /\ q.place < r.place /\ q.key = r.key /\ q.content # r.content =>
        \/ <<r.id, q.id>> \in distill[d].conflicts
        \/ /\ q.by # d
           /\ There(distill[d], q) => Cardinality(Ahead(distill[d], q)) >= ShownLimit
==============================================================================
