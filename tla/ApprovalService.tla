-------------------------- MODULE ApprovalService --------------------------
(***************************************************************************)
(* One checkpoint of ApprovalService over its append-only event journal     *)
(* (approval/service.py).                                                   *)
(*                                                                          *)
(* No operation holds a lock: each one derives the status from the journal, *)
(* checks its request against that status, writes an audit record and       *)
(* appends an event, and other calls may append between any two of these    *)
(* steps.  The clock may move between the checks of a decision and the time *)
(* the decision carries: the code reads it again for that.  With a single    *)
(* element in Calls the service is used sequentially.                       *)
(* A SHA-256 is the value it is the hash of; the hash chain of the journal  *)
(* is its order.                                                            *)
(***************************************************************************)
EXTENDS Integers, Sequences, FiniteSets

CONSTANTS
    Calls,              \* operations that may be under way at once
    Ids,                \* delegation, decision and resume IDs
    Actors, Requester,
    RolesOf,            \* actor -> roles
    Contents,           \* candidates (their hashes)
    Rules,              \* ApprovalRules: roles, whether all of them, delegation allowed
    Delegates,          \* actors that roles are delegated to
    Answers,            \* outcomes that people decide for
    Validity,           \* validity_seconds, in ticks
    MaxTime,            \* bound: ticks of the clock
    MaxEvents,          \* bound: length of the journal
    ApprovalId, System, NoActor, NoRole

ASSUME ApprovalAssumption ==
    /\ Requester \in Actors /\ Delegates \subseteq Actors
    /\ System \notin Actors /\ NoActor \notin Actors
    /\ \A r \in Rules :
          /\ r.roles # {} /\ NoRole \notin r.roles
          /\ r.all \in BOOLEAN /\ r.delegation \in BOOLEAN
    /\ Validity \in Nat \ {0} /\ MaxTime \in Nat /\ MaxEvents \in Nat
    /\ ApprovalId \notin Ids
    /\ Answers \subseteq {"APPROVED", "REJECTED", "CHANGES_REQUESTED"}

HumanOutcome == {"APPROVED", "REJECTED", "CHANGES_REQUESTED"}
EndOutcome == {"REJECTED", "CHANGES_REQUESTED", "EXPIRED", "CANCELLED"}

VARIABLES
    rule,      \* the rule of the checkpoint's kind
    journal,   \* the ApprovalEvents of the checkpoint, in order
    audited,   \* IDs with a SUCCESS audit record
    now,
    call,      \* per call: the step it is at, the record it made, the events it read
    raced      \* history: two calls have been under way at once

vars == <<rule, journal, audited, now, call, raced>>

RequiredRoles == rule.roles

Roles == RequiredRoles \cup UNION {RolesOf[a] : a \in Actors}

\* One record for the payload of every kind of event.  "checked" is history: when the
\* authority for a human decision was checked, which is not stored.
NoEvent == [type |-> "NONE", id |-> ApprovalId, actor |-> NoActor, to |-> NoActor,
            role |-> NoRole, outcome |-> "NONE", hash |-> "NONE", checked |-> 0, time |-> 0,
            until |-> 0]

Idle == [at |-> "idle", record |-> NoEvent, seen |-> <<>>]

Init ==
    /\ rule \in Rules
    /\ raced = FALSE
    /\ journal = <<>>
    /\ audited = {}
    /\ now = 0
    /\ call = [c \in Calls |-> Idle]

-----------------------------------------------------------------------------
(* ApprovalStatus, derived from a journal.                                  *)

EventsOf(events, type) == {events[i] : i \in {j \in DOMAIN events : events[j].type = type}}

Decisions(events) == EventsOf(events, "DECISION")

\* Mutant: one of the required roles is enough.
CompleteByAny(events) ==
    LET roles == {d.role : d \in {e \in Decisions(events) : e.outcome = "APPROVED"}}
    IN roles \cap RequiredRoles # {}

\* The role condition of the rule.
Complete(events) ==
    LET roles == {d.role : d \in {e \in Decisions(events) : e.outcome = "APPROVED"}}
    IN IF rule.all THEN RequiredRoles \subseteq roles ELSE roles \cap RequiredRoles # {}

\* _state: the first ending decision counts, whatever was approved before it.
State(events) ==
    LET ends == {i \in DOMAIN events : events[i].outcome \in EndOutcome}
    IN IF ends # {}
       THEN events[CHOOSE i \in ends : \A j \in ends : i <= j].outcome
       ELSE IF Complete(events) THEN "APPROVED" ELSE "PENDING"

Candidate(events) == events[1]

\* Mutant: a delegation has no end.
DelegatedForever(events, actor, role, time) ==
    \E d \in EventsOf(events, "DELEGATION") : d.to = actor /\ d.role = role

\* A delegation of a role that an actor can use at this time.
Delegated(events, actor, role, time) ==
    \E d \in EventsOf(events, "DELEGATION") :
        d.to = actor /\ d.role = role /\ d.until > time

\* _choose_role: the order in which it picks one of these is left open.
Choosable(events, actor) ==
    LET used == {d.role : d \in Decisions(events)}
        direct == (RolesOf[actor] \cap RequiredRoles) \ used
        delegated == {r \in RequiredRoles \ used : Delegated(events, actor, r, now)}
    IN IF direct # {} THEN direct ELSE delegated

\* _authorize_role.
Authorized(events, actor, role) ==
    role \in RequiredRoles
    /\ (role \in RolesOf[actor] \/ Delegated(events, actor, role, now))

-----------------------------------------------------------------------------
(* The operations.  Each reads the status first; what the caller asks for    *)
(* matters from the checks on, so it is chosen there.                        *)

\* status, the first thing every operation does.
ReadStatus(c) ==
    /\ call[c].at = "idle"
    /\ Len(journal) < MaxEvents
    /\ call' = [call EXCEPT ![c] = [at |-> "read", record |-> NoEvent, seen |-> journal]]
    /\ raced' = (raced \/ \E d \in Calls \ {c} : call[d].at # "idle")
    /\ UNCHANGED <<rule, journal, audited, now>>

KnownId(id) == \E i \in DOMAIN journal : journal[i].id = id

\* The checks have passed against the status that was read; the ID is not known.
Proceed(c, record) ==
    /\ call[c].at = "read"
    /\ ~KnownId(record.id)
    /\ call' = [call EXCEPT ![c] = [at |-> "checked", record |-> record, seen |-> <<>>]]
    /\ UNCHANGED <<rule, journal, audited, now, raced>>

\* _require_pending_current without the expiry.
PendingCurrent(s, hash) ==
    s # <<>> /\ hash = Candidate(s).hash /\ State(s) = "PENDING"

InWindow(s) == now < Candidate(s).until

Create(c, hash) ==
    /\ call[c].seen = <<>>
    /\ Proceed(c, [NoEvent EXCEPT !.type = "CANDIDATE", !.actor = Requester, !.hash = hash,
                      !.until = now + Validity])

Delegate(c, id, actor, to, role, until, hash) ==
    /\ PendingCurrent(call[c].seen, hash) /\ InWindow(call[c].seen)
    /\ rule.delegation /\ role \in RequiredRoles
    /\ role \in RolesOf[actor] /\ actor # Requester
    /\ now < until /\ until <= Candidate(call[c].seen).until
    /\ Proceed(c, [NoEvent EXCEPT !.type = "DELEGATION", !.id = id, !.actor = actor,
                      !.to = to, !.role = role, !.until = until, !.hash = hash])

\* Not the requester, and nobody who has decided before.
Independent(s, actor) ==
    actor # Requester /\ \A d \in Decisions(s) : d.actor # actor

\* asked is the role the caller names, or NoRole: then the service chooses.  The code
\* reads the clock for the choice, for the window and for the authority.  These are one
\* step: a delegation ends within the window, so what passes the last of the three
\* would have passed all of them at that time.
Decide(c, id, actor, asked, outcome, hash) ==
    /\ PendingCurrent(call[c].seen, hash) /\ InWindow(call[c].seen)
    /\ Independent(call[c].seen, actor)
    /\ \E role \in (IF asked = NoRole THEN Choosable(call[c].seen, actor) ELSE {asked}) :
          /\ Authorized(call[c].seen, actor, role)
          /\ Proceed(c, [NoEvent EXCEPT !.type = "DECISION", !.id = id, !.actor = actor,
                            !.role = role, !.outcome = outcome, !.hash = hash, !.checked = now])

\* _terminal_system_decision.
EndDecision(c, id, actor, outcome, hash) ==
    /\ PendingCurrent(call[c].seen, hash)
    /\ Proceed(c, [NoEvent EXCEPT !.type = "DECISION", !.id = id, !.actor = actor,
                      !.outcome = outcome, !.hash = hash])

Expire(c, id, hash) ==
    /\ call[c].seen # <<>> /\ ~InWindow(call[c].seen)
    /\ EndDecision(c, id, System, "EXPIRED", hash)

Cancel(c, id, actor, hash) ==
    /\ actor = Requester \/ "PROJECT_ADMINISTRATOR" \in RolesOf[actor]
    /\ EndDecision(c, id, actor, "CANCELLED", hash)

\* Mutant: an earlier grant is not looked for.
ResumeAgain(c, id, hash) ==
    /\ call[c].seen # <<>>
    /\ State(call[c].seen) = "APPROVED"
    /\ hash = Candidate(call[c].seen).hash
    /\ Proceed(c, [NoEvent EXCEPT !.type = "RESUME", !.id = id, !.hash = hash])

Resume(c, id, hash) ==
    /\ call[c].seen # <<>>
    /\ EventsOf(call[c].seen, "RESUME") = {}
    /\ State(call[c].seen) = "APPROVED"
    /\ hash = Candidate(call[c].seen).hash
    /\ Proceed(c, [NoEvent EXCEPT !.type = "RESUME", !.id = id, !.hash = hash])

\* A check fails, or the ID is known and the stored record is returned or a
\* conflict denied: the journal stays as it was.
End(c) ==
    /\ call[c].at = "read"
    /\ call' = [call EXCEPT ![c] = Idle]
    /\ UNCHANGED <<rule, journal, audited, now, raced>>

Stamped(record) == IF record.type = "DECISION" THEN [record EXCEPT !.time = now] ELSE record

\* Behind the checks the clock is read once more, for decided_at; _audit comes before
\* the append.
Audit(c) ==
    /\ call[c].at = "checked"
    /\ audited' = audited \cup {call[c].record.id}
    /\ call' = [call EXCEPT ![c].at = "audited", ![c].record = Stamped(@)]
    /\ UNCHANGED <<rule, journal, now, raced>>

\* append: a known ID is returned or refused, a new one appended.
AppendEvent(c) ==
    /\ call[c].at = "audited"
    /\ journal' = IF KnownId(call[c].record.id) THEN journal
                  ELSE Append(journal, call[c].record)
    /\ call' = [call EXCEPT ![c] = Idle]
    /\ UNCHANGED <<rule, audited, now, raced>>

\* The audit service or the process fails.
Fail(c) ==
    /\ call[c].at \in {"checked", "audited"}
    /\ call' = [call EXCEPT ![c] = Idle]
    /\ UNCHANGED <<rule, journal, audited, now, raced>>

\* Time counts from the candidate on: one that is appended late is one with a shorter
\* validity.
Tick ==
    /\ now < MaxTime
    /\ journal # <<>>
    /\ now' = now + 1
    /\ UNCHANGED <<rule, journal, audited, call, raced>>

Operation(c) ==
    \E hash \in Contents :
        \/ Create(c, hash)
        \/ \E id \in Ids :
              \/ \E actor \in Actors, to \in Delegates, role \in RequiredRoles,
                    until \in 1..MaxTime : Delegate(c, id, actor, to, role, until, hash)
              \/ \E actor \in Actors, role \in Roles \cup {NoRole},
                    outcome \in Answers : Decide(c, id, actor, role, outcome, hash)
              \/ Expire(c, id, hash)
              \/ \E actor \in Actors : Cancel(c, id, actor, hash)
              \/ Resume(c, id, hash)

Next ==
    \/ \E c \in Calls :
          ReadStatus(c) \/ Operation(c) \/ End(c) \/ Audit(c) \/ AppendEvent(c) \/ Fail(c)
    \/ Tick

Spec == Init /\ [][Next]_vars

-----------------------------------------------------------------------------
(* Properties.                                                              *)

EventType == [type : {"NONE", "CANDIDATE", "DELEGATION", "DECISION", "RESUME"},
              id : Ids \cup {ApprovalId}, actor : Actors \cup {System, NoActor},
              to : Actors \cup {NoActor}, role : RequiredRoles \cup {NoRole},
              outcome : HumanOutcome \cup EndOutcome \cup {"NONE"},
              hash : Contents \cup {"NONE"}, checked : Nat, time : Nat, until : Nat]

\* The journal, the audit trail and the calls under way.
TypeOK ==
    /\ rule \in Rules /\ raced \in BOOLEAN
    /\ journal \in Seq(EventType)
    /\ audited \subseteq Ids \cup {ApprovalId}
    /\ now \in 0..MaxTime
    /\ call \in [Calls -> [at : {"idle", "read", "checked", "audited"},
                           record : EventType, seen : Seq(EventType)]]

\* Whoever approves is not the requester and holds the role, or was given it by
\* someone else who holds it, earlier in the journal, for the time at which decide
\* checked it: within the window, and not after the time the decision shows.
DecisionsHaveAuthority ==
    \A i \in DOMAIN journal : journal[i].outcome \in HumanOutcome =>
        /\ journal[i].actor # Requester
        /\ \/ journal[i].role \in RolesOf[journal[i].actor]
           \/ \E j \in 1..(i - 1) :
                 /\ journal[j].type = "DELEGATION"
                 /\ journal[j].to = journal[i].actor /\ journal[j].role = journal[i].role
                 /\ journal[j].role \in RolesOf[journal[j].actor]
                 /\ journal[j].actor # Requester
                 /\ journal[i].checked < journal[j].until
        /\ journal[i].checked < journal[1].until
        /\ journal[i].checked <= journal[i].time

\* A grant rests on approvals of its candidate in every role the rule asks for, all
\* before it in the journal: also when calls race.
GrantIsBacked ==
    \A i \in DOMAIN journal : journal[i].type = "RESUME" =>
        /\ journal[i].hash = journal[1].hash
        /\ LET roles == {journal[j].role : j \in {k \in 1..(i - 1) :
                             journal[k].outcome = "APPROVED" /\ journal[k].hash = journal[1].hash}}
           IN IF rule.all THEN RequiredRoles \subseteq roles
              ELSE RequiredRoles \cap roles # {}

\* Nothing is in the journal that was not audited before, whichever of the two
\* writes fails.
EventsAreAudited == \A i \in DOMAIN journal : journal[i].id \in audited

\* The journal is lawful whoever raced and whatever failed: each decision had
\* authority when it was checked (_authorize_role), each event an audit record first
\* (_audit).
JournalIsLawful == DecisionsHaveAuthority /\ EventsAreAudited

\* approval-service-v1.md: a second resume is denied.
OneGrant ==
    \A i, j \in DOMAIN journal :
        journal[i].type = "RESUME" /\ journal[j].type = "RESUME" => i = j

\* Calls that do not overlap give a checkpoint one grant at most, also when some of
\* them fail half-way and are tried again.
SequentialGrantIsUnique == ~raced => OneGrant

\* As long as calls do not overlap, one actor does not decide the same candidate
\* twice, so that two required roles are two people.
SequentialActorsDecideOnce ==
    ~raced => \A i, j \in DOMAIN journal :
        /\ journal[i].outcome \in HumanOutcome /\ journal[j].outcome \in HumanOutcome
        /\ journal[i].actor = journal[j].actor
        => i = j

\* Calls that follow one another, failed and repeated ones included, decide and
\* resume a checkpoint once: one grant, one decision per person (decide, resume).
SequentialCallsAreUnique == SequentialGrantIsUnique /\ SequentialActorsDecideOnce

=============================================================================
