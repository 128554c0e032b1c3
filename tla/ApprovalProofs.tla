--------------------------- MODULE ApprovalProofs ---------------------------
(***************************************************************************)
(* Proofs about ApprovalService, for any number of calls under way, actors, *)
(* roles, rules and IDs, and a journal of any length.                       *)
(***************************************************************************)
EXTENDS ApprovalService, WellFoundedInduction, TLAPS

CallType == [at : {"idle", "read", "checked", "audited"}, record : EventType,
             seen : Seq(EventType)]

-----------------------------------------------------------------------------
(* The inductive invariant.                                                 *)

\* Event j of history h lets an actor act in a role at this time.
Empowers(h, j, actor, role, time) ==
    /\ h[j].type = "DELEGATION"
    /\ h[j].to = actor /\ h[j].role = role
    /\ h[j].role \in RolesOf[h[j].actor]
    /\ h[j].actor # Requester
    /\ time < h[j].until

\* A role in which one of the first n events of h approves its candidate.
ApprovedIn(h, n, role) ==
    \E k \in 1..n : h[k].outcome = "APPROVED" /\ h[k].hash = h[1].hash /\ h[k].role = role

\* These roles are all, or some of them, that rule q asks for.
RolesMet(q, h, n) ==
    IF q.all THEN \A r \in q.roles : ApprovedIn(h, n, r)
    ELSE \E r \in q.roles : ApprovedIn(h, n, r)

\* The first n events of h justify event e under rule q.
Justified(q, h, n, e) ==
    /\ e.type # "NONE"
    /\ e.type # "CANDIDATE" => n >= 1 /\ e.hash = h[1].hash
    /\ e.type = "DELEGATION" => e.role \in RolesOf[e.actor] /\ e.actor # Requester
    /\ e.outcome # "NONE" => e.type = "DECISION"
    /\ e.outcome \in HumanOutcome =>
          /\ e.actor # Requester
          /\ \/ e.role \in RolesOf[e.actor]
             \/ \E j \in 1..n : Empowers(h, j, e.actor, e.role, e.checked)
          /\ e.checked < h[1].until
    /\ e.type = "RESUME" => RolesMet(q, h, n)

\* A decision shows a time at which its checks were over.
Timed(e) == e.outcome \in HumanOutcome => e.checked <= e.time

\* Each event of the journal is justified by those before it.
JournalInv ==
    \A i \in 1..Len(journal) :
        /\ Justified(rule, journal, i - 1, journal[i])
        /\ journal[i].id \in audited /\ Timed(journal[i])

\* A call has read a prefix of the journal, and what it is about to append is
\* justified by the journal, however that has grown since.
CallInv ==
    \A c \in Calls :
        /\ call[c].at = "read" =>
              /\ Len(call[c].seen) <= Len(journal)
              /\ \A i \in 1..Len(call[c].seen) : journal[i] = call[c].seen[i]
        /\ call[c].at \in {"checked", "audited"} =>
              Justified(rule, journal, Len(journal), call[c].record)
        /\ call[c].at = "checked" => call[c].record.checked <= now
        /\ call[c].at = "audited" => call[c].record.id \in audited /\ Timed(call[c].record)

\* The journal has at most one grant and one decision of a person.
Unique(h) ==
    /\ \A i, j \in 1..Len(h) : h[i].type = "RESUME" /\ h[j].type = "RESUME" => i = j
    /\ \A i, j \in 1..Len(h) :
          h[i].outcome \in HumanOutcome /\ h[j].outcome \in HumanOutcome
          /\ h[i].actor = h[j].actor => i = j

\* Event e is neither a second grant nor a second decision of its actor.
Fresh(h, e) ==
    /\ e.type = "RESUME" => \A i \in 1..Len(h) : h[i].type # "RESUME"
    /\ e.outcome \in HumanOutcome =>
          \A i \in 1..Len(h) : h[i].outcome \in HumanOutcome => h[i].actor # e.actor

\* While no two calls have been under way at once, the one that is has read the
\* journal as it still is.
SequentialInv ==
    ~raced =>
        /\ \A c, d \in Calls : call[c].at # "idle" /\ call[d].at # "idle" => c = d
        /\ \A c \in Calls :
              /\ call[c].at = "read" => call[c].seen = journal
              /\ call[c].at \in {"checked", "audited"} => Fresh(journal, call[c].record)
        /\ Unique(journal)

ApprovalInv == TypeOK /\ JournalInv /\ CallInv /\ SequentialInv

-----------------------------------------------------------------------------
(* The properties follow from the invariant.                                *)

LEMMA LawfulJournal ==
    ASSUME ApprovalInv
    PROVE  JournalIsLawful /\ GrantIsBacked /\ SequentialCallsAreUnique
<1>1. journal \in Seq(EventType) /\ DOMAIN journal = 1..Len(journal) /\ Len(journal) \in Nat
  BY DEF ApprovalInv, TypeOK
<1>2. \A i \in 1..Len(journal) : i \in Nat /\ i - 1 \in Nat
  OBVIOUS
<1>3. DecisionsHaveAuthority
  BY <1>1 DEF ApprovalInv, JournalInv, Justified, Timed, Empowers, DecisionsHaveAuthority
<1>4. EventsAreAudited
  BY <1>1 DEF ApprovalInv, JournalInv, EventsAreAudited
<1>5. GrantIsBacked
  <2> SUFFICES ASSUME NEW i \in 1..Len(journal), journal[i].type = "RESUME"
               PROVE  /\ journal[i].hash = journal[1].hash
                      /\ LET roles == {journal[j].role : j \in {k \in 1..(i - 1) :
                                journal[k].outcome = "APPROVED" /\ journal[k].hash = journal[1].hash}}
                         IN IF rule.all THEN RequiredRoles \subseteq roles
                            ELSE RequiredRoles \cap roles # {}
    BY <1>1 DEF GrantIsBacked
  <2>1. RolesMet(rule, journal, i - 1) /\ journal[i].hash = journal[1].hash
    BY DEF ApprovalInv, JournalInv, Justified
  <2> QED
    BY <2>1 DEF RolesMet, ApprovedIn, RequiredRoles
<1>6. SequentialCallsAreUnique
  BY <1>1 DEF ApprovalInv, SequentialInv, Unique, SequentialCallsAreUnique,
     SequentialGrantIsUnique, OneGrant, SequentialActorsDecideOnce
<1> QED
  BY <1>3, <1>4, <1>5, <1>6 DEF JournalIsLawful

-----------------------------------------------------------------------------
(* The status of a history.                                                 *)

\* A nonempty set of naturals has a smallest element.
LEMMA SmallestElement ==
    ASSUME NEW S, S \subseteq Nat, S # {}
    PROVE  \E n \in S : \A m \in S : n <= m
<1> DEFINE R == OpToRel(<, Nat)
<1>1. IsWellFoundedOn(R, Nat)
  BY NatLessThanWellFounded
<1>2. \A m, n \in Nat : <<m, n>> \in R <=> m < n
  BY DEF OpToRel
<1> HIDE DEF R
<1>3. PICK n \in S : \A m \in S : ~(<<m, n>> \in R)
  BY <1>1, WFMin
<1>4. ASSUME NEW m \in S PROVE n <= m
  <2>1. ~(m < n)
    BY <1>2, <1>3
  <2> QED
    BY <2>1
<1> QED
  BY <1>4

\* A history in state APPROVED meets the role condition: what ends it comes out in
\* an ending state.
LEMMA ApprovedIsComplete ==
    ASSUME NEW s \in Seq(EventType), State(s) = "APPROVED"
    PROVE  Complete(s)
<1> DEFINE ends == {i \in DOMAIN s : s[i].outcome \in EndOutcome}
<1>1. CASE ends # {}
  <2>1. ends \subseteq Nat
    OBVIOUS
  <2>2. \E n \in ends : \A m \in ends : n <= m
    BY <1>1, <2>1, SmallestElement
  <2>3. (CHOOSE i \in ends : \A j \in ends : i <= j) \in ends
    BY <2>2
  <2>4. State(s) \in EndOutcome
    BY <1>1, <2>3 DEF State
  <2> QED
    BY <2>4 DEF EndOutcome
<1>2. CASE ends = {}
  BY <1>2 DEF State
<1> QED
  BY <1>1, <1>2

\* More events justify what fewer did.
LEMMA StillJustified ==
    ASSUME NEW h \in Seq(EventType), NEW g \in Seq(EventType),
           Len(h) <= Len(g), \A i \in 1..Len(h) : g[i] = h[i],
           NEW m \in Nat, NEW n \in Nat, m <= n, m <= Len(h), n <= Len(g),
           NEW q, NEW e, Justified(q, h, m, e)
    PROVE  Justified(q, g, n, e)
<1>1. Len(h) \in Nat /\ Len(g) \in Nat
  OBVIOUS
<1>2. \A i \in 1..m : i \in 1..n /\ g[i] = h[i]
  BY <1>1
<1>3. m >= 1 => n >= 1 /\ g[1] = h[1]
  BY <1>1
<1>4. \A r : ApprovedIn(h, m, r) => ApprovedIn(g, n, r)
  <2> SUFFICES ASSUME NEW r, ApprovedIn(h, m, r) PROVE ApprovedIn(g, n, r)
    OBVIOUS
  <2>1. PICK k \in 1..m : h[k].outcome = "APPROVED" /\ h[k].hash = h[1].hash /\ h[k].role = r
    BY DEF ApprovedIn
  <2>2. m >= 1
    OBVIOUS
  <2> QED
    BY <1>2, <1>3, <2>1, <2>2 DEF ApprovedIn
<1>5. RolesMet(q, h, m) => RolesMet(q, g, n)
  BY <1>4 DEF RolesMet
<1>6. \A a, r, time : (\E j \in 1..m : Empowers(h, j, a, r, time)) =>
                      (\E j \in 1..n : Empowers(g, j, a, r, time))
  BY <1>2 DEF Empowers
<1>7. e.outcome \in HumanOutcome => m >= 1
  BY DEF Justified, HumanOutcome
<1> QED
  BY <1>3, <1>5, <1>6, <1>7 DEF Justified

-----------------------------------------------------------------------------
(* Init and the steps that leave the journal alone.                         *)

LEMMA InitKeeps == Init => ApprovalInv
<1> SUFFICES ASSUME Init PROVE ApprovalInv
  OBVIOUS
<1>1. NoEvent \in EventType
  BY DEF NoEvent, EventType
<1>2. Idle \in CallType /\ Idle.at = "idle"
  BY <1>1 DEF Idle, CallType
<1>3. call \in [Calls -> CallType] /\ \A c \in Calls : call[c].at = "idle"
  BY <1>2 DEF Init
<1>4. TypeOK
  <2>1. journal \in Seq(EventType)
    BY DEF Init
  <2>3. raced \in BOOLEAN /\ rule \in Rules /\ audited \subseteq Ids \cup {ApprovalId}
    BY DEF Init
  <2>2. now \in 0..MaxTime
    BY ApprovalAssumption DEF Init
  <2> QED
    BY <1>3, <2>1, <2>2, <2>3 DEF TypeOK, CallType
<1>5. JournalInv /\ CallInv /\ SequentialInv
  BY <1>3 DEF Init, JournalInv, CallInv, SequentialInv, Unique
<1> QED
  BY <1>4, <1>5 DEF ApprovalInv

\* One call moves; the journal and what was audited stay.
LEMMA CallMoves ==
    ASSUME ApprovalInv, NEW c \in Calls, NEW r \in CallType,
           call' = [call EXCEPT ![c] = r],
           UNCHANGED <<rule, journal, now>>,
           audited' \subseteq Ids \cup {ApprovalId}, audited \subseteq audited',
           raced' \in BOOLEAN, raced => raced',
           r.at = "read" => r.seen = journal,
           r.at \in {"checked", "audited"} => Justified(rule, journal, Len(journal), r.record),
           r.at = "checked" => r.record.checked <= now,
           r.at = "audited" => r.record.id \in audited' /\ Timed(r.record),
           ~raced' =>
              /\ r.at \in {"checked", "audited"} => Fresh(journal, r.record)
              /\ r.at # "idle" => \A d \in Calls \ {c} : call[d].at = "idle"
    PROVE  ApprovalInv'
<1>1. \A d \in Calls : call'[d] = IF d = c THEN r ELSE call[d]
  BY DEF ApprovalInv, TypeOK
<1>2. EventType' = EventType /\ CallType' = CallType
  BY DEF EventType, CallType, RequiredRoles
<1>3. TypeOK'
  <2>1. call' \in [Calls -> CallType]
    BY DEF ApprovalInv, TypeOK, CallType
  <2> QED
    BY <1>2, <2>1 DEF ApprovalInv, TypeOK, CallType
<1>4. JournalInv'
  BY DEF ApprovalInv, JournalInv
<1>5. CallInv'
  <2>1. Len(journal) \in Nat
    BY DEF ApprovalInv, TypeOK
  <2> QED
    BY <1>1, <2>1 DEF ApprovalInv, CallInv
<1>6. SequentialInv'
  BY <1>1 DEF ApprovalInv, SequentialInv
<1> QED
  BY <1>3, <1>4, <1>5, <1>6 DEF ApprovalInv

LEMMA ReadStatusKeeps ==
    ASSUME ApprovalInv, NEW c \in Calls, ReadStatus(c)
    PROVE  ApprovalInv'
<1> DEFINE r == [at |-> "read", record |-> NoEvent, seen |-> journal]
<1>1. r \in CallType
  BY DEF ApprovalInv, TypeOK, CallType, NoEvent, EventType
<1>2. /\ call' = [call EXCEPT ![c] = r]
      /\ UNCHANGED <<rule, journal, audited, now>>
  BY DEF ReadStatus
<1>3. /\ raced' \in BOOLEAN
      /\ raced => raced'
      /\ ~raced' => \A d \in Calls \ {c} : call[d].at = "idle"
      /\ audited' \subseteq Ids \cup {ApprovalId}
  BY DEF ReadStatus, ApprovalInv, TypeOK
<1>4. r.at = "read" /\ r.seen = journal
  OBVIOUS
<1> HIDE DEF r
<1>5. /\ audited \subseteq audited'
      /\ r.at \notin {"checked", "audited"} /\ r.at # "audited"
  BY <1>2, <1>4
<1> QED
  BY <1>1, <1>2, <1>3, <1>4, <1>5, CallMoves

\* A call that ends without an event, for whatever reason.
LEMMA IdleKeeps ==
    ASSUME ApprovalInv, NEW c \in Calls, call' = [call EXCEPT ![c] = Idle],
           UNCHANGED <<rule, journal, audited, now, raced>>
    PROVE  ApprovalInv'
<1>1. Idle \in CallType /\ Idle.at = "idle"
  BY DEF Idle, CallType, NoEvent, EventType
<1>2. /\ audited' \subseteq Ids \cup {ApprovalId}
      /\ raced' \in BOOLEAN
  BY DEF ApprovalInv, TypeOK
<1> QED
  BY <1>1, <1>2, CallMoves

\* The time of a decision changes nothing that its checks looked at.
LEMMA StampedKeeps ==
    ASSUME ApprovalInv, NEW e \in EventType
    PROVE  /\ Stamped(e) \in EventType /\ Stamped(e).id = e.id
           /\ \A q, h, n : Justified(q, h, n, e) => Justified(q, h, n, Stamped(e))
           /\ \A h : Fresh(h, e) => Fresh(h, Stamped(e))
           /\ Stamped(e).outcome = e.outcome /\ Stamped(e).checked = e.checked
           /\ e.type = "DECISION" => Stamped(e).time = now
<1>1. now \in Nat
  BY ApprovalAssumption DEF ApprovalInv, TypeOK
<1>2. /\ Stamped(e) \in EventType
      /\ Stamped(e).id = e.id /\ Stamped(e).type = e.type /\ Stamped(e).hash = e.hash
      /\ Stamped(e).role = e.role /\ Stamped(e).actor = e.actor
      /\ Stamped(e).outcome = e.outcome /\ Stamped(e).checked = e.checked
      /\ e.type = "DECISION" => Stamped(e).time = now
  <2>1. CASE e.type = "DECISION"
    BY <1>1, <2>1 DEF Stamped, EventType
  <2>2. CASE e.type # "DECISION"
    BY <2>2 DEF Stamped
  <2> QED
    BY <2>1, <2>2
<1> QED
  BY <1>2 DEF Justified, Fresh

LEMMA AuditKeeps ==
    ASSUME ApprovalInv, NEW c \in Calls, Audit(c)
    PROVE  ApprovalInv'
<1>1. call[c] \in CallType /\ call[c].record \in EventType
  BY DEF ApprovalInv, TypeOK, CallType
<1> DEFINE e == Stamped(call[c].record)
           r == [call[c] EXCEPT !.at = "audited", !.record = e]
<1>2. /\ call' = [call EXCEPT ![c] = r]
      /\ UNCHANGED <<rule, journal, now, raced>>
      /\ call[c].at = "checked"
      /\ audited' = audited \cup {call[c].record.id}
  BY DEF Audit, ApprovalInv, TypeOK
<1>3. /\ e \in EventType /\ e.id = call[c].record.id
      /\ Justified(rule, journal, Len(journal), e)
      /\ ~raced => Fresh(journal, e)
  <2>1. Justified(rule, journal, Len(journal), call[c].record)
    BY <1>2 DEF ApprovalInv, CallInv
  <2>2. ~raced => Fresh(journal, call[c].record)
    BY <1>2 DEF ApprovalInv, SequentialInv
  <2> QED
    BY <1>1, <2>1, <2>2, StampedKeeps
<1>4. Timed(e)
  <2>1. e.outcome \in HumanOutcome => call[c].record.type = "DECISION"
    BY <1>1, <1>2, StampedKeeps DEF ApprovalInv, CallInv, Justified, HumanOutcome
  <2>2. call[c].record.checked <= now
    BY <1>2 DEF ApprovalInv, CallInv
  <2> QED
    BY <1>1, <2>1, <2>2, StampedKeeps DEF Timed
<1> HIDE DEF e
<1>5. r \in CallType /\ r.at = "audited" /\ r.record = e
  BY <1>1, <1>3 DEF CallType
<1> HIDE DEF r
<1>6. /\ audited' \subseteq Ids \cup {ApprovalId} /\ audited \subseteq audited'
      /\ r.record.id \in audited' /\ raced' \in BOOLEAN
  BY <1>1, <1>2, <1>3, <1>5 DEF ApprovalInv, TypeOK, EventType
<1>7. ~raced => \A d \in Calls \ {c} : call[d].at = "idle"
  BY <1>2 DEF ApprovalInv, SequentialInv
<1> QED
  BY <1>2, <1>3, <1>4, <1>5, <1>6, <1>7, CallMoves

-----------------------------------------------------------------------------
(* The checks of the operations.                                            *)

LEMMA NowIsNat == ApprovalInv => now \in Nat
BY ApprovalAssumption DEF ApprovalInv, TypeOK

\* An event that the status a call has read justifies may be taken on.
LEMMA ProceedKeeps ==
    ASSUME ApprovalInv, NEW c \in Calls, NEW e \in EventType, Proceed(c, e),
           Justified(rule, call[c].seen, Len(call[c].seen), e),
           Fresh(call[c].seen, e), e.checked <= now
    PROVE  ApprovalInv'
<1> DEFINE r == [at |-> "checked", record |-> e, seen |-> <<>>]
<1>1. r \in CallType /\ r.at = "checked" /\ r.record = e
  BY DEF CallType
<1>2. /\ call' = [call EXCEPT ![c] = r]
      /\ UNCHANGED <<rule, journal, audited, now, raced>>
      /\ call[c].at = "read"
  BY DEF Proceed
<1> HIDE DEF r
<1>3. /\ call[c].seen \in Seq(EventType) /\ journal \in Seq(EventType)
      /\ audited' \subseteq Ids \cup {ApprovalId} /\ raced' \in BOOLEAN
  BY <1>2 DEF ApprovalInv, TypeOK
<1>4. /\ Len(call[c].seen) <= Len(journal)
      /\ \A i \in 1..Len(call[c].seen) : journal[i] = call[c].seen[i]
  BY <1>2 DEF ApprovalInv, CallInv
<1>5. Len(call[c].seen) \in Nat /\ Len(journal) \in Nat
  BY <1>3
<1>6. Justified(rule, journal, Len(journal), e)
  BY <1>3, <1>4, <1>5, StillJustified
<1>7. ~raced => Fresh(journal, e) /\ \A d \in Calls \ {c} : call[d].at = "idle"
  BY <1>2 DEF ApprovalInv, SequentialInv
<1> QED
  BY <1>1, <1>2, <1>3, <1>6, <1>7, CallMoves

\* The facts of a call that has read the status.
LEMMA SeenFacts ==
    ASSUME ApprovalInv, NEW c \in Calls, call[c].seen # <<>>, call[c].at = "read"
    PROVE  /\ call[c].seen \in Seq(EventType)
           /\ Len(call[c].seen) \in Nat /\ Len(call[c].seen) >= 1
           /\ DOMAIN call[c].seen = 1..Len(call[c].seen)
           /\ \A i \in 1..Len(call[c].seen) : call[c].seen[i] \in EventType
           /\ \A i \in 1..Len(call[c].seen) :
                 Justified(rule, call[c].seen, Len(call[c].seen), call[c].seen[i])
<1>1. /\ call[c].seen \in Seq(EventType) /\ journal \in Seq(EventType)
  BY DEF ApprovalInv, TypeOK
<1>2. /\ Len(call[c].seen) \in Nat /\ Len(call[c].seen) >= 1
      /\ DOMAIN call[c].seen = 1..Len(call[c].seen) /\ Len(journal) \in Nat
      /\ \A i \in 1..Len(call[c].seen) : call[c].seen[i] \in EventType
  BY <1>1
<1>3. /\ Len(call[c].seen) <= Len(journal)
      /\ \A i \in 1..Len(call[c].seen) : journal[i] = call[c].seen[i]
  BY DEF ApprovalInv, CallInv
<1>4. ASSUME NEW i \in 1..Len(call[c].seen)
      PROVE  Justified(rule, call[c].seen, Len(call[c].seen), call[c].seen[i])
  <2> DEFINE s == call[c].seen
  <2>1. Justified(rule, journal, i - 1, s[i])
    BY <1>2, <1>3 DEF ApprovalInv, JournalInv
  <2>2. i - 1 \in Nat /\ i - 1 < Len(s) /\ \A j \in 1..(i - 1) : j \in 1..Len(s)
    BY <1>2
  <2>3. Justified(rule, s, i - 1, s[i])
    <3>1. \A j \in 1..(i - 1) : s[j] = journal[j]
      BY <1>3, <2>2
    <3>2. i - 1 >= 1 => s[1] = journal[1]
      BY <1>3, <1>2
    <3>3. \A r : ApprovedIn(journal, i - 1, r) => ApprovedIn(s, i - 1, r)
      BY <3>1, <3>2, <2>2 DEF ApprovedIn
    <3>4. RolesMet(rule, journal, i - 1) => RolesMet(rule, s, i - 1)
      BY <3>3 DEF RolesMet
    <3>5. \A a, r, time : (\E j \in 1..(i - 1) : Empowers(journal, j, a, r, time)) =>
                          (\E j \in 1..(i - 1) : Empowers(s, j, a, r, time))
      BY <3>1 DEF Empowers
    <3>6. s[i].outcome \in HumanOutcome => i - 1 >= 1
      BY <2>1 DEF Justified, HumanOutcome
    <3> HIDE DEF s
    <3> QED
      BY <2>1, <3>2, <3>4, <3>5, <3>6 DEF Justified
  <2> HIDE DEF s
  <2> QED
    BY <1>1, <1>2, <2>2, <2>3, StillJustified DEF s
<1> QED
  BY <1>1, <1>2, <1>4

LEMMA CreateKeeps ==
    ASSUME ApprovalInv, NEW c \in Calls, NEW hash \in Contents, Create(c, hash)
    PROVE  ApprovalInv'
<1> DEFINE e == [NoEvent EXCEPT !.type = "CANDIDATE", !.actor = Requester, !.hash = hash,
                    !.until = now + Validity]
<1>1. /\ e \in EventType /\ e.type = "CANDIDATE" /\ e.outcome = "NONE" /\ e.checked = 0
  <2>1. now + Validity \in Nat
    BY ApprovalAssumption DEF ApprovalInv, TypeOK
  <2> QED
    BY <2>1, ApprovalAssumption DEF NoEvent, EventType
<1>2. Proceed(c, e)
  BY DEF Create
<1> HIDE DEF e
<1>3. Justified(rule, call[c].seen, Len(call[c].seen), e) /\ Fresh(call[c].seen, e)
  BY <1>1 DEF Justified, Fresh, HumanOutcome
<1> QED
  BY <1>1, <1>2, <1>3, ProceedKeeps, NowIsNat

LEMMA DelegateKeeps ==
    ASSUME ApprovalInv, NEW c \in Calls, NEW hash \in Contents, NEW id \in Ids,
           NEW actor \in Actors, NEW to \in Delegates, NEW role \in RequiredRoles,
           NEW until \in 1..MaxTime, Delegate(c, id, actor, to, role, until, hash)
    PROVE  ApprovalInv'
<1> DEFINE e == [NoEvent EXCEPT !.type = "DELEGATION", !.id = id, !.actor = actor,
                    !.to = to, !.role = role, !.until = until, !.hash = hash]
<1>1. /\ e \in EventType /\ e.type = "DELEGATION" /\ e.outcome = "NONE"
      /\ e.role = role /\ e.actor = actor /\ e.hash = hash /\ e.checked = 0
  <2>1. to \in Actors /\ until \in Nat
    BY ApprovalAssumption
  <2>2. NoEvent \in EventType /\ NoEvent.outcome = "NONE" /\ NoEvent.checked = 0
    BY DEF NoEvent, EventType
  <2> QED
    BY <2>1, <2>2 DEF EventType
<1>2. /\ Proceed(c, e) /\ call[c].at = "read" /\ call[c].seen # <<>>
      /\ role \in RolesOf[actor] /\ actor # Requester /\ hash = call[c].seen[1].hash
  BY DEF Delegate, PendingCurrent, Candidate, Proceed
<1> HIDE DEF e
<1>3. Justified(rule, call[c].seen, Len(call[c].seen), e) /\ Fresh(call[c].seen, e)
  BY <1>1, <1>2, SeenFacts DEF Justified, Fresh, HumanOutcome
<1> QED
  BY <1>1, <1>2, <1>3, ProceedKeeps, NowIsNat

LEMMA DecideKeeps ==
    ASSUME ApprovalInv, NEW c \in Calls, NEW hash \in Contents, NEW id \in Ids,
           NEW actor \in Actors, NEW asked \in Roles \cup {NoRole}, NEW outcome \in Answers,
           Decide(c, id, actor, asked, outcome, hash)
    PROVE  ApprovalInv'
<1> DEFINE s == call[c].seen
           e(role) == [NoEvent EXCEPT !.type = "DECISION", !.id = id, !.actor = actor,
                          !.role = role, !.outcome = outcome, !.hash = hash, !.checked = now]
<1>1. PICK role : Authorized(s, actor, role) /\ Proceed(c, e(role))
  BY DEF Decide
<1>2. /\ call[c].at = "read" /\ s # <<>> /\ hash = s[1].hash
      /\ actor # Requester /\ \A d \in Decisions(s) : d.actor # actor
      /\ role \in RequiredRoles /\ now < s[1].until
  BY <1>1 DEF Decide, PendingCurrent, InWindow, Candidate, Independent, Proceed, Authorized
<1>3. /\ e(role) \in EventType /\ e(role).type = "DECISION" /\ e(role).outcome = outcome
      /\ e(role).role = role /\ e(role).actor = actor /\ e(role).hash = hash
      /\ e(role).checked = now
      /\ outcome \in HumanOutcome
  <2>1. now \in Nat /\ outcome \in HumanOutcome
    BY ApprovalAssumption DEF ApprovalInv, TypeOK, HumanOutcome
  <2>2. NoEvent \in EventType
    BY DEF NoEvent, EventType
  <2> QED
    BY <1>2, <2>1, <2>2 DEF EventType
<1> HIDE DEF e
<1>4. /\ Len(s) \in Nat /\ Len(s) >= 1
      /\ DOMAIN s = 1..Len(s)
      /\ \A i \in 1..Len(s) : Justified(rule, s, Len(s), s[i])
  BY <1>2, SeenFacts
<1> HIDE DEF s
<1>5. role \in RolesOf[actor] \/ \E j \in 1..Len(s) : Empowers(s, j, actor, role, now)
  <2>1. CASE role \in RolesOf[actor]
    BY <2>1
  <2>2. CASE Delegated(s, actor, role, now)
    <3>1. PICK j \in 1..Len(s) : /\ s[j].type = "DELEGATION"
                                 /\ s[j].to = actor /\ s[j].role = role /\ s[j].until > now
      BY <1>4, <2>2 DEF Delegated, EventsOf
    <3>2. s[j].role \in RolesOf[s[j].actor] /\ s[j].actor # Requester
      BY <1>4, <3>1 DEF Justified
    <3>3. s[j].until \in Int /\ now \in Int
      <4>1. s[j] \in EventType
        BY <1>2, <3>1, SeenFacts DEF s
      <4> QED
        BY <4>1 DEF EventType, ApprovalInv, TypeOK
    <3> QED
      BY <3>1, <3>2, <3>3 DEF Empowers
  <2> QED
    BY <1>1, <2>1, <2>2 DEF Authorized
<1>6. Fresh(s, e(role))
  <2>1. \A i \in 1..Len(s) : s[i].outcome \in HumanOutcome => s[i].type = "DECISION"
    BY <1>4 DEF Justified, HumanOutcome
  <2>2. \A i \in 1..Len(s) : s[i].type = "DECISION" => s[i].actor # actor
    BY <1>2, <1>4 DEF Decisions, EventsOf
  <2> QED
    BY <1>3, <2>1, <2>2 DEF Fresh
<1>7. Justified(rule, s, Len(s), e(role))
  BY <1>2, <1>3, <1>4, <1>5 DEF Justified
<1> QED
  BY <1>1, <1>3, <1>6, <1>7, ProceedKeeps, NowIsNat DEF s

LEMMA EndDecisionKeeps ==
    ASSUME ApprovalInv, NEW c \in Calls, NEW hash \in Contents, NEW id \in Ids,
           NEW actor \in Actors \cup {System}, NEW outcome \in {"EXPIRED", "CANCELLED"},
           EndDecision(c, id, actor, outcome, hash)
    PROVE  ApprovalInv'
<1> DEFINE e == [NoEvent EXCEPT !.type = "DECISION", !.id = id, !.actor = actor,
                    !.outcome = outcome, !.hash = hash]
<1>1. /\ e \in EventType /\ e.type = "DECISION" /\ e.outcome = outcome /\ e.hash = hash
      /\ e.checked = 0
      /\ outcome \notin HumanOutcome
  <2>1. now \in Nat /\ outcome \notin HumanOutcome /\ outcome \in EndOutcome
    BY ApprovalAssumption DEF ApprovalInv, TypeOK, HumanOutcome, EndOutcome
  <2>2. NoEvent \in EventType /\ NoEvent.checked = 0
    BY DEF NoEvent, EventType
  <2> QED
    BY <2>1, <2>2 DEF EventType
<1>2. Proceed(c, e) /\ call[c].at = "read" /\ call[c].seen # <<>> /\ hash = call[c].seen[1].hash
  BY DEF EndDecision, PendingCurrent, Candidate, Proceed
<1> HIDE DEF e
<1>3. Justified(rule, call[c].seen, Len(call[c].seen), e) /\ Fresh(call[c].seen, e)
  BY <1>1, <1>2, SeenFacts DEF Justified, Fresh
<1> QED
  BY <1>1, <1>2, <1>3, ProceedKeeps, NowIsNat

LEMMA ResumeKeeps ==
    ASSUME ApprovalInv, NEW c \in Calls, NEW hash \in Contents, NEW id \in Ids,
           Resume(c, id, hash)
    PROVE  ApprovalInv'
<1> DEFINE s == call[c].seen
           e == [NoEvent EXCEPT !.type = "RESUME", !.id = id, !.hash = hash]
<1>1. /\ e \in EventType /\ e.type = "RESUME" /\ e.outcome = "NONE" /\ e.hash = hash
      /\ e.checked = 0
  BY DEF NoEvent, EventType
<1>2. /\ Proceed(c, e) /\ call[c].at = "read" /\ s # <<>> /\ hash = s[1].hash
      /\ EventsOf(s, "RESUME") = {} /\ State(s) = "APPROVED"
  BY DEF Resume, Candidate, Proceed
<1> HIDE DEF e
<1>3. /\ Len(s) \in Nat /\ Len(s) >= 1 /\ s \in Seq(EventType)
      /\ DOMAIN s = 1..Len(s)
      /\ \A i \in 1..Len(s) : Justified(rule, s, Len(s), s[i])
  BY <1>2, SeenFacts
<1> HIDE DEF s
<1>4. RolesMet(rule, s, Len(s))
  <2>1. Complete(s)
    BY <1>2, <1>3, ApprovedIsComplete
  <2> DEFINE roles == {d.role : d \in {x \in Decisions(s) : x.outcome = "APPROVED"}}
  <2>2. ASSUME NEW r \in roles PROVE ApprovedIn(s, Len(s), r)
    <3>1. PICK j \in 1..Len(s) : /\ s[j].type = "DECISION" /\ s[j].outcome = "APPROVED"
                                 /\ s[j].role = r
      BY <1>3 DEF Decisions, EventsOf
    <3>2. s[j].hash = s[1].hash
      BY <1>3, <3>1 DEF Justified
    <3> QED
      BY <3>1, <3>2 DEF ApprovedIn
  <2>3. IF rule.all THEN rule.roles \subseteq roles ELSE roles \cap rule.roles # {}
    BY <2>1 DEF Complete, RequiredRoles
  <2> HIDE DEF roles
  <2> QED
    BY <2>2, <2>3 DEF RolesMet
<1>5. Fresh(s, e)
  BY <1>1, <1>2, <1>3 DEF Fresh, EventsOf, HumanOutcome
<1>6. Justified(rule, s, Len(s), e)
  BY <1>1, <1>2, <1>3, <1>4 DEF Justified, HumanOutcome
<1> QED
  BY <1>1, <1>2, <1>5, <1>6, ProceedKeeps, NowIsNat DEF s

-----------------------------------------------------------------------------
(* The append, and time.                                                    *)

LEMMA AppendEventKeeps ==
    ASSUME ApprovalInv, NEW c \in Calls, AppendEvent(c)
    PROVE  ApprovalInv'
<1> DEFINE e == call[c].record
<1>1. CASE KnownId(e.id)
  <2>1. UNCHANGED <<rule, journal, audited, now, raced>> /\ call' = [call EXCEPT ![c] = Idle]
    BY <1>1 DEF AppendEvent
  <2> QED
    BY <2>1, IdleKeeps
<1>2. CASE ~KnownId(e.id)
  <2>1. /\ journal' = Append(journal, e)
        /\ UNCHANGED <<rule, audited, now, raced>>
        /\ call' = [call EXCEPT ![c] = Idle]
        /\ call[c].at = "audited"
    BY <1>2 DEF AppendEvent
  <2>2. journal \in Seq(EventType) /\ e \in EventType
    BY DEF ApprovalInv, TypeOK
  <2>3. /\ Len(journal) \in Nat /\ Len(journal') = Len(journal) + 1
        /\ journal' \in Seq(EventType)
        /\ \A i \in 1..Len(journal) : journal'[i] = journal[i]
        /\ journal'[Len(journal) + 1] = e
    BY <2>1, <2>2
  <2>4. \A i \in 1..Len(journal') : i \in 1..Len(journal) \/ i = Len(journal) + 1
    BY <2>3
  <2>5. Justified(rule, journal, Len(journal), e) /\ e.id \in audited /\ Timed(e)
    BY <2>1 DEF ApprovalInv, CallInv
  <2>6. \A d \in Calls : call'[d] = IF d = c THEN Idle ELSE call[d]
    BY <2>1 DEF ApprovalInv, TypeOK
  <2>7. Idle \in CallType /\ Idle.at = "idle"
    BY DEF Idle, CallType, NoEvent, EventType
  <2> HIDE DEF e
  <2>8. TypeOK'
    <3>1. EventType' = EventType
      BY <2>1 DEF EventType, RequiredRoles
    <3>2. call' \in [Calls -> CallType]
      BY <2>1, <2>7 DEF ApprovalInv, TypeOK, CallType
    <3> QED
      BY <2>1, <2>3, <3>1, <3>2 DEF ApprovalInv, TypeOK, CallType
  <2>9. ASSUME NEW m \in Nat, NEW n \in Nat, m <= n, m <= Len(journal), n <= Len(journal'),
               NEW x, Justified(rule, journal, m, x)
        PROVE  Justified(rule', journal', n, x)
    <3>1. Justified(rule, journal', n, x)
      BY <2>2, <2>3, <2>9, StillJustified
    <3> QED
      BY <2>1, <3>1
  <2>10. JournalInv'
    <3> SUFFICES ASSUME NEW i \in 1..Len(journal')
                 PROVE  /\ Justified(rule', journal', i - 1, journal'[i])
                        /\ journal'[i].id \in audited' /\ Timed(journal'[i])
      BY DEF JournalInv
    <3>1. CASE i \in 1..Len(journal)
      <4>1. Justified(rule, journal, i - 1, journal[i]) /\ journal[i].id \in audited
            /\ Timed(journal[i])
        BY <3>1 DEF ApprovalInv, JournalInv
      <4>2. i - 1 \in Nat /\ i - 1 <= Len(journal) /\ i - 1 <= Len(journal')
        BY <2>3, <3>1
      <4> QED
        BY <2>1, <2>3, <2>9, <3>1, <4>1, <4>2
    <3>2. CASE i = Len(journal) + 1
      <4>1. i - 1 = Len(journal)
        BY <2>3, <3>2
      <4> QED
        BY <2>1, <2>3, <2>5, <2>9, <3>2, <4>1
    <3> QED
      BY <2>4, <3>1, <3>2
  <2>11. CallInv'
    <3> SUFFICES ASSUME NEW d \in Calls, d # c
                 PROVE  /\ call[d].at = "read" =>
                              /\ Len(call[d].seen) <= Len(journal')
                              /\ \A i \in 1..Len(call[d].seen) : journal'[i] = call[d].seen[i]
                        /\ call[d].at \in {"checked", "audited"} =>
                              Justified(rule', journal', Len(journal'), call[d].record)
                        /\ call[d].at = "checked" => call[d].record.checked <= now'
                        /\ call[d].at = "audited" =>
                              call[d].record.id \in audited' /\ Timed(call[d].record)
      BY <2>6, <2>7 DEF CallInv
    <3>1. Len(call[d].seen) \in Nat
      BY DEF ApprovalInv, TypeOK
    <3>2. call[d].at = "read" =>
             /\ Len(call[d].seen) <= Len(journal')
             /\ \A i \in 1..Len(call[d].seen) : journal'[i] = call[d].seen[i]
      BY <2>3, <3>1 DEF ApprovalInv, CallInv
    <3>3. call[d].at \in {"checked", "audited"} =>
             Justified(rule, journal, Len(journal), call[d].record)
      BY DEF ApprovalInv, CallInv
    <3> QED
      BY <2>1, <2>3, <2>9, <3>2, <3>3 DEF ApprovalInv, CallInv
  <2>12. SequentialInv'
    <3> SUFFICES ASSUME ~raced
                 PROVE  /\ \A d \in Calls : call'[d].at = "idle"
                        /\ Unique(journal')
      BY <2>1 DEF SequentialInv
    <3>1. Fresh(journal, e) /\ Unique(journal)
      BY <2>1 DEF ApprovalInv, SequentialInv, e
    <3>2. \A d \in Calls : call'[d].at = "idle"
      BY <2>1, <2>6, <2>7 DEF ApprovalInv, SequentialInv
    <3>3. Unique(journal')
      BY <2>3, <2>4, <3>1 DEF Unique, Fresh
    <3> QED
      BY <3>2, <3>3
  <2> QED
    BY <2>8, <2>10, <2>11, <2>12 DEF ApprovalInv
<1> QED
  BY <1>1, <1>2

LEMMA TickKeeps ==
    ASSUME ApprovalInv, Tick
    PROVE  ApprovalInv'
<1>1. EventType' = EventType
  BY DEF Tick, EventType, RequiredRoles
<1>2. now' \in 0..MaxTime
  BY ApprovalAssumption DEF Tick, ApprovalInv, TypeOK
<1>3. TypeOK'
  BY <1>1, <1>2 DEF Tick, ApprovalInv, TypeOK
<1>4. JournalInv' /\ SequentialInv'
  BY DEF Tick, ApprovalInv, JournalInv, SequentialInv
<1>5. CallInv'
  <2>1. \A c \in Calls : call[c].record.checked \in Nat
    BY DEF ApprovalInv, TypeOK, EventType
  <2>2. now' = now + 1 /\ now \in Nat
    BY NowIsNat DEF Tick
  <2> QED
    BY <2>1, <2>2 DEF Tick, ApprovalInv, CallInv
<1> QED
  BY <1>3, <1>4, <1>5 DEF ApprovalInv

-----------------------------------------------------------------------------
(* The theorems.                                                            *)

LEMMA OperationKeeps ==
    ASSUME ApprovalInv, NEW c \in Calls, Operation(c)
    PROVE  ApprovalInv'
<1>1. PICK hash \in Contents :
        \/ Create(c, hash)
        \/ \E id \in Ids :
              \/ \E actor \in Actors, to \in Delegates, role \in RequiredRoles,
                    until \in 1..MaxTime : Delegate(c, id, actor, to, role, until, hash)
              \/ \E actor \in Actors, role \in Roles \cup {NoRole},
                    outcome \in Answers : Decide(c, id, actor, role, outcome, hash)
              \/ Expire(c, id, hash)
              \/ \E actor \in Actors : Cancel(c, id, actor, hash)
              \/ Resume(c, id, hash)
  BY DEF Operation
<1>2. ASSUME NEW id \in Ids, Expire(c, id, hash) PROVE ApprovalInv'
  BY <1>2, EndDecisionKeeps DEF Expire
<1>3. ASSUME NEW id \in Ids, NEW actor \in Actors, Cancel(c, id, actor, hash) PROVE ApprovalInv'
  BY <1>3, EndDecisionKeeps DEF Cancel
<1> QED
  BY <1>1, <1>2, <1>3, CreateKeeps, DelegateKeeps, DecideKeeps, ResumeKeeps

LEMMA StepKeeps == ApprovalInv /\ [Next]_vars => ApprovalInv'
<1> SUFFICES ASSUME ApprovalInv, [Next]_vars PROVE ApprovalInv'
  OBVIOUS
<1>1. CASE UNCHANGED vars
  <2>1. EventType' = EventType
    BY <1>1 DEF vars, EventType, RequiredRoles
  <2>2. TypeOK'
    BY <1>1, <2>1 DEF vars, ApprovalInv, TypeOK
  <2> QED
    BY <1>1, <2>2 DEF vars, ApprovalInv, JournalInv, CallInv, SequentialInv
<1>2. CASE Tick
  BY <1>2, TickKeeps
<1>3. ASSUME NEW c \in Calls, End(c) \/ Fail(c) PROVE ApprovalInv'
  BY <1>3, IdleKeeps DEF End, Fail
<1> QED
  BY <1>1, <1>2, <1>3, ReadStatusKeeps, OperationKeeps, AuditKeeps, AppendEventKeeps DEF Next

\* The invariant of the service holds of every reachable state.
THEOREM InvariantHolds == Spec => []ApprovalInv
BY InitKeeps, StepKeeps, PTL DEF Spec

\* The journal, the audit trail and the calls under way keep their types.
THEOREM TypeCorrect == Spec => []TypeOK
<1>1. ApprovalInv => TypeOK
  BY DEF ApprovalInv
<1> QED
  BY <1>1, InvariantHolds, PTL

\* Whoever raced and whatever failed, each decision had authority when that was checked,
\* within the window and not after the time the decision shows, and each event was audited first (service.py, _authorize_role and _audit).
THEOREM LawfulWhateverRaces == Spec => []JournalIsLawful
<1>1. ApprovalInv => JournalIsLawful
  BY LawfulJournal
<1> QED
  BY <1>1, InvariantHolds, PTL

\* A grant rests on approvals of its candidate in every role the rule asks for, all
\* before it in the journal (service.py, resume).
THEOREM GrantsBacked == Spec => []GrantIsBacked
<1>1. ApprovalInv => GrantIsBacked
  BY LawfulJournal
<1> QED
  BY <1>1, InvariantHolds, PTL

\* Calls that follow one another give one grant and one decision per person, failed
\* and repeated calls included (service.py, decide and resume).
THEOREM SequentialUniqueness == Spec => []SequentialCallsAreUnique
<1>1. ApprovalInv => SequentialCallsAreUnique
  BY LawfulJournal
<1> QED
  BY <1>1, InvariantHolds, PTL
=============================================================================
