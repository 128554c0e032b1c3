-------------------------- MODULE KnowledgeRelease --------------------------
(***************************************************************************)
(* The knowledge release service and repository (knowledge/release.py)     *)
(* over the standard catalog (knowledge/standards.py) and the retrieval    *)
(* index (knowledge/retrieval.py), for one scope and one corpus. A publish,*)
(* withdraw or rollback call first obtains its approval grant and then     *)
(* commits; other calls may come in between, and the commit checks the     *)
(* corpus head again. A hash is what it is taken of: a candidate's hash is *)
(* the candidate, an action's hash the operation, a review's the workflow. *)
(***************************************************************************)
EXTENDS Refusals, FiniteSets

CONSTANTS
  Threads,        \* calls that may wait between grant and commit
  Candidates,     \* candidate ids
  Publications,   \* publication ids callers choose
  Operations,     \* operation ids, also the ids of restored publications
  Approvals,      \* approval ids
  Workflows,      \* approved review workflows of the task
  Batches,        \* snapshot sets: records [key, doc, chunk, std, sound]
  StandardVersions, \* [id, lineage, lifecycle, usable, effective, expiry, replaces]
  Dates,          \* dates a retrieval may ask for
  NoId

VARIABLES
  standards,      \* ids of the registered standard versions
  candidate,      \* candidate id -> record, or NoRecord
  publication,    \* publication id -> record, or NoRecord
  head,           \* _current: the corpus head, or NoId
  index,          \* snapshot key -> [snap, status], or NoRecord
  operation,      \* operation id -> record, or NoRecord
  checkpoint,     \* approval id -> record, or NoRecord
  commit,         \* per thread, the call that has its grant and not yet committed
  retrieved       \* what a retrieval has just returned, {} after other steps

relVars == <<standards, candidate, publication, head, index, operation,
             checkpoint, commit, retrieved>>

NoRecord == [state |-> "absent"]
PubIds == Publications \cup Operations
Keys == UNION {{s.key : s \in b} : b \in Batches}

\* What the identifiers promise: NoId stands for None, which is no identifier, and an
\* index key contains the document id (retrieval.py, _key), so that snapshots of one
\* key are snapshots of one document.
IdentifierFacts ==
  /\ NoId \notin PubIds /\ NoId \notin Workflows /\ NoId \notin Approvals
  /\ \A b \in Batches : \A s, u \in b : s.key = u.key => s.doc = u.doc

-----------------------------------------------------------------------------
(* The standard catalog                                                    *)

Standard(id) == CHOOSE v \in StandardVersions : v.id = id
Live(v) == v.lifecycle \in {"CURRENT", "RESTRICTED"}

\* StandardCatalog.is_superseded
IsSuperseded(id) == \E v \in StandardVersions :
                      v.id \in standards /\ Live(v) /\ id \in v.replaces

\* StandardCatalog.register: the versions it replaces are registered and of
\* one lineage. An id is a hash of the replaced ids, so there is no cycle.
Register(v) ==
  /\ v.id \notin standards
  /\ \A id \in v.replaces : id \in standards /\ Standard(id).lineage = v.lineage
  /\ standards' = standards \cup {v.id}
  /\ UNCHANGED <<candidate, publication, head, index, operation, checkpoint,
                 commit>>

\* StandardApplicabilityService.evaluate
Applicable(v, date) ==
  /\ Live(v)
  /\ v.effective <= date /\ date <= v.expiry
  /\ v.usable
  /\ ~IsSuperseded(v.id)

-----------------------------------------------------------------------------
(* The index                                                               *)

\* InMemoryKnowledgeIndex.replace_many: one swap for the whole batch.
ReplaceMany(batch) ==
  index' = [k \in Keys |-> IF \E e \in batch : e.snap.key = k
                           THEN CHOOSE e \in batch : e.snap.key = k
                           ELSE index[k]]

WithStatus(snaps, status) == {[snap |-> s, status |-> status] : s \in snaps}

\* The part of a publication's snapshots that a new one does not replace.
Leaving(p, snaps, status) ==
  WithStatus({s \in publication[p].snaps : s.key \notin {n.key : n \in snaps}}, status)

\* StandardRetrievalService.retrieve: published snapshots whose standard is
\* registered and applicable on the date.
Retrieve(date) ==
  /\ retrieved' = {index[k].snap : k \in {q \in Keys :
                     /\ index[q] # NoRecord
                     /\ index[q].status = "PUBLISHED"
                     /\ index[q].snap.std \in standards
                     /\ Applicable(Standard(index[q].snap.std), date)}}
  /\ UNCHANGED <<standards, candidate, publication, head, index, operation,
                 checkpoint, commit>>

-----------------------------------------------------------------------------
Init ==
  /\ standards = {}
  /\ candidate = [c \in Candidates |-> NoRecord]
  /\ publication = [p \in PubIds |-> NoRecord]
  /\ head = NoId
  /\ index = [k \in Keys |-> NoRecord]
  /\ operation = [o \in Operations |-> NoRecord]
  /\ checkpoint = [a \in Approvals |-> NoRecord]
  /\ commit = [t \in Threads |-> NoRecord]
  /\ retrieved = {}

\* create_candidate, against the current head. A replay changes nothing.
CreateCandidate(c, snaps) ==
  /\ candidate[c] = NoRecord
  /\ candidate' = [candidate EXCEPT ![c] =
       [state |-> "DRAFT", base |-> head, snaps |-> snaps, review |-> NoId,
        approval |-> NoId, pub |-> NoId]]
  /\ UNCHANGED <<standards, publication, head, index, operation, checkpoint,
                 commit>>

\* _validation_codes: unchanged base, unique documents and chunks, draft
\* snapshots of the candidate's versions, usable standards.
ValidCandidate(r) ==
  /\ r.base = head
  /\ \A s, t \in r.snaps : (s.doc = t.doc \/ s.chunk = t.chunk) => s = t
  /\ \A s \in r.snaps :
       /\ s.sound
       /\ s.std \in standards
       /\ Live(Standard(s.std)) /\ Standard(s.std).usable
       /\ ~IsSuperseded(s.std)

\* validate, through VALIDATING within the call.
Validate(c) ==
  /\ candidate[c].state = "DRAFT"
  /\ candidate' = [candidate EXCEPT ![c].state =
                     IF ValidCandidate(candidate[c]) THEN "REVIEW_REQUIRED" ELSE "FAILED"]
  /\ UNCHANGED <<standards, publication, head, index, operation, checkpoint,
                 commit>>

\* record_review: evidence of one approved workflow about this candidate. It
\* may replace earlier evidence at any time before publication.
RecordReview(c, w) ==
  /\ candidate[c].state = "REVIEW_REQUIRED"
  /\ candidate' = [candidate EXCEPT ![c].review = w]
  /\ UNCHANGED <<standards, publication, head, index, operation, checkpoint,
                 commit>>

\* ApprovalService.create: an id that exists must carry the same content.
Creatable(a, content) == checkpoint[a] # NoRecord => checkpoint[a].content = content

Created(a, content) ==
  checkpoint' = IF checkpoint[a] = NoRecord
                THEN [checkpoint EXCEPT ![a] =
                        [state |-> "PENDING", content |-> content]]
                ELSE checkpoint

RequestPublishApproval(c, a) ==
  LET content == [action |-> "publish", target |-> c, preview |-> candidate[c].review] IN
  /\ candidate[c].state = "REVIEW_REQUIRED"
  /\ candidate[c].review # NoId
  /\ candidate[c].approval \in {NoId, a}
  /\ Creatable(a, content)
  /\ Created(a, content)
  /\ candidate' = [candidate EXCEPT ![c].approval = a]
  /\ UNCHANGED <<standards, publication, head, index, operation, commit>>

\* The approval service reaches a decision.
Decide(a, outcome) ==
  /\ checkpoint[a].state = "PENDING"
  /\ checkpoint' = [checkpoint EXCEPT ![a].state = outcome]
  /\ UNCHANGED <<standards, candidate, publication, head, index, operation,
                 commit>>

\* ApprovalService.resume: the grant of an approved checkpoint; a call that is
\* repeated after a failed commit gets the grant it had (one with a new resume
\* id is refused and changes nothing).
Resumable(a) == checkpoint[a].state = "APPROVED"

\* Mutant: any checkpoint of the release service will do.
CheckpointMatchesAny(a, action, target) == checkpoint[a] # NoRecord

\* _require_checkpoint: the action, the target and its hash.
CheckpointMatches(a, action, target) ==
  /\ checkpoint[a] # NoRecord
  /\ checkpoint[a].content.action = action
  /\ checkpoint[a].content.target = target

\* publish up to its commit.
Publish(t, c, p) ==
  LET a == candidate[c].approval IN
  /\ commit[t] = NoRecord
  /\ candidate[c].state = "REVIEW_REQUIRED"
  /\ candidate[c].review # NoId
  /\ a # NoId
  /\ CheckpointMatches(a, "publish", c)
  /\ candidate[c].base = head
  /\ Resumable(a)
  /\ commit' = [commit EXCEPT ![t] = [state |-> "publish", cand |-> c,
                                    copy |-> candidate[c], pub |-> p, grant |-> a]]
  /\ UNCHANGED <<standards, candidate, publication, head, index, operation,
                 checkpoint>>

Leave(t) == commit' = [commit EXCEPT ![t] = NoRecord]

NewPublication(snaps, c, grant) ==
  [state |-> "PUBLISHED", snaps |-> snaps, cand |-> c, grant |-> grant]

\* commit_publication: the previous publication is superseded, the index
\* swapped, and head, publication and candidate updated together.
CommitPublication(t) ==
  LET k == commit[t]
      snaps == k.copy.snaps IN
  /\ commit[t].state = "publish"
  /\ publication[k.pub] = NoRecord
  /\ k.copy.base = head
  /\ ReplaceMany((IF head = NoId THEN {} ELSE Leaving(head, snaps, "SUPERSEDED"))
                   \cup WithStatus(snaps, "PUBLISHED"))
  /\ publication' = [p \in PubIds |->
       IF p = k.pub THEN NewPublication(snaps, k.cand, k.grant)
       ELSE IF p = head THEN [publication[p] EXCEPT !.state = "SUPERSEDED"]
       ELSE publication[p]]
  /\ head' = k.pub
  /\ candidate' = [candidate EXCEPT ![k.cand] =
                     [k.copy EXCEPT !.state = "PUBLISHED", !.pub = k.pub]]
  /\ Leave(t)
  /\ UNCHANGED <<standards, operation, checkpoint>>

\* The injected fault, a stale base or a publication id in use: the call ends
\* and nothing has changed.
CommitFails(t) ==
  /\ commit[t] # NoRecord
  /\ Leave(t)
  /\ UNCHANGED <<standards, candidate, publication, head, index, operation,
                 checkpoint>>

-----------------------------------------------------------------------------
\* request_action: the action is stored, then its checkpoint created.
RequestAction(o, a, kind, target) ==
  LET action == [state |-> "PENDING", kind |-> kind, target |-> target,
                 expected |-> head, approval |-> a]
      content == [action |-> kind, target |-> o, preview |-> NoId] IN
  /\ publication[target] # NoRecord
  /\ head # NoId
  /\ kind = "withdraw" => head = target
  /\ kind = "rollback" => head # target
  /\ operation[o] \in {NoRecord, action}
  /\ operation' = [operation EXCEPT ![o] = action]
  /\ IF Creatable(a, content) THEN Created(a, content) ELSE UNCHANGED checkpoint
  /\ UNCHANGED <<standards, candidate, publication, head, index, commit>>

\* withdraw and rollback up to their commit.
Act(t, o, kind) ==
  LET a == operation[o].approval IN
  /\ commit[t] = NoRecord
  /\ operation[o].state = "PENDING"
  /\ operation[o].kind = kind
  /\ operation[o].expected = head
  /\ CheckpointMatches(a, kind, o)
  /\ Resumable(a)
  /\ commit' = [commit EXCEPT ![t] = [state |-> kind, op |-> o, grant |-> a]]
  /\ UNCHANGED <<standards, candidate, publication, head, index, operation,
                 checkpoint>>

\* commit_withdrawal
CommitWithdrawal(t) ==
  LET o == commit[t].op
      target == operation[o].target IN
  /\ commit[t].state = "withdraw"
  /\ operation[o].state = "PENDING"
  /\ operation[o].expected = head
  /\ ReplaceMany(WithStatus(publication[target].snaps, "WITHDRAWN"))
  /\ publication' = [publication EXCEPT ![target].state = "WITHDRAWN"]
  /\ head' = NoId
  /\ operation' = [operation EXCEPT ![o].state = "COMPLETED"]
  /\ Leave(t)
  /\ UNCHANGED <<standards, candidate, checkpoint>>

\* Mutant: the snapshots of the replaced publication stay published.
CommitRollbackOver(t) ==
  LET o == commit[t].op
      snaps == publication[operation[o].target].snaps IN
  /\ commit[t].state = "rollback"
  /\ operation[o].expected = head
  /\ ReplaceMany(WithStatus(snaps, "PUBLISHED"))
  /\ publication' = [p \in PubIds |->
       IF p = o THEN NewPublication(snaps, publication[operation[o].target].cand, commit[t].grant)
       ELSE IF p = head THEN [publication[p] EXCEPT !.state = "SUPERSEDED"]
       ELSE publication[p]]
  /\ head' = o
  /\ operation' = [operation EXCEPT ![o].state = "COMPLETED"]
  /\ Leave(t)
  /\ UNCHANGED <<standards, candidate, checkpoint>>

\* commit_rollback: the target's snapshots are published again, under the
\* operation's id, whatever state the target is in.
CommitRollback(t) ==
  LET o == commit[t].op
      snaps == publication[operation[o].target].snaps IN
  /\ commit[t].state = "rollback"
  /\ operation[o].state = "PENDING"
  /\ operation[o].expected = head
  /\ ReplaceMany(Leaving(head, snaps, "SUPERSEDED") \cup WithStatus(snaps, "PUBLISHED"))
  /\ publication' = [p \in PubIds |->
       IF p = o THEN NewPublication(snaps, publication[operation[o].target].cand, commit[t].grant)
       ELSE IF p = head THEN [publication[p] EXCEPT !.state = "SUPERSEDED"]
       ELSE publication[p]]
  /\ head' = o
  /\ operation' = [operation EXCEPT ![o].state = "COMPLETED"]
  /\ Leave(t)
  /\ UNCHANGED <<standards, candidate, checkpoint>>

\* The calls that change the release.
Change ==
  \/ \E v \in StandardVersions : Register(v)
  \/ \E c \in Candidates :
       \/ \E b \in Batches : CreateCandidate(c, b)
       \/ Validate(c)
       \/ \E w \in Workflows : RecordReview(c, w)
       \/ \E a \in Approvals : RequestPublishApproval(c, a)
       \/ \E t \in Threads, p \in Publications : Publish(t, c, p)
  \/ \E a \in Approvals, outcome \in {"APPROVED", "REJECTED"} : Decide(a, outcome)
  \/ \E o \in Operations, kind \in {"withdraw", "rollback"} :
       \/ \E a \in Approvals, p \in PubIds : RequestAction(o, a, kind, p)
       \/ \E t \in Threads : Act(t, o, kind)
  \/ \E t \in Threads : \/ CommitPublication(t) \/ CommitWithdrawal(t)
                        \/ CommitRollback(t) \/ CommitFails(t)

Next ==
  \/ \E d \in Dates : Retrieve(d)
  \/ Change /\ retrieved' = {}

Spec == Init /\ [][Next]_relVars
-----------------------------------------------------------------------------
\* The snapshots the index serves are exactly those of the corpus head: no
\* failed commit, head change between approval and commit, withdrawal or
\* rollback of an older or withdrawn publication leaves others published, and
\* at most the head is PUBLISHED (release.py, the three commits).
ServedIsCurrent ==
  /\ {index[k].snap : k \in {q \in Keys : index[q] # NoRecord
                                           /\ index[q].status = "PUBLISHED"}}
       = IF head = NoId THEN {} ELSE publication[head].snaps
  /\ \A p \in PubIds : publication[p].state = "PUBLISHED" <=> p = head

\* Every publication rests on an approved checkpoint made for it: for the
\* publish of its candidate, which was validated and reviewed, or for the
\* rollback that restored it (release.py, _require_checkpoint and resume).
PublicationIsAuthorized ==
  \A p \in PubIds :
    publication[p] # NoRecord =>
      LET r == publication[p]
          k == checkpoint[r.grant] IN
      /\ k.state = "APPROVED"
      /\ \/ p \in Publications /\ k.content.action = "publish" /\ k.content.target = r.cand
         \/ p \in Operations /\ k.content.action = "rollback" /\ k.content.target = p
      /\ candidate[r.cand].state \notin {"DRAFT", "FAILED"}
      /\ candidate[r.cand].review # NoId

=============================================================================
