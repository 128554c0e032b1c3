------------------------- MODULE ReviewGraphProofs -------------------------
(***************************************************************************)
(* Proofs about ReviewGraph: what MainAggregationGate lets through was      *)
(* reviewed in exactly the form it has, for any number of calls, overlaps,  *)
(* crashes and answers of reviewers and correctors; and calls that follow   *)
(* one another neither repeat a committed call nor give two results, and    *)
(* their work together is within the limits of one call.                    *)
(***************************************************************************)
EXTENDS ReviewGraph, FiniteSetTheorems, SequenceTheorems, TLAPS

OutputType == [verdict : Decision \cup {"INVALID"}, targets : Seq(Assignments),
               version : Versions \cup {NoVersion}]

Ats == {"idle", "round", "review", "reviewing", "judged", "correct", "correcting",
        "toCross", "cross", "crossing", "over", "committed"}

\* What a correction after a cross review carries.
CauseType == {NoCross} \cup [on : [Assignments -> Versions \cup {NoVersion}],
                             count : {Largest(c) : c \in [Assignments -> Nat]}]

Statuses == {"NONE", "APPROVED", "PARTIAL", "HUMAN_REQUIRED", "CONFLICT", "FAILED"}

WorkType == [at : Ats, version : [Assignments -> Versions \cup {NoVersion}],
             decision : [Assignments -> Decision \cup {"NONE"}],
             count : [Assignments -> Nat], batch : Seq(Assignments), next : Nat \ {0},
             cause : CauseType, steps : Nat, reviews : Nat, corrections : Nat,
             status : Statuses]

-----------------------------------------------------------------------------
(* Kept.                                                                    *)

\* No assignment is named twice.
Distinct(batch) == \A i, j \in DOMAIN batch : i # j => batch[i] # batch[j]

\* The members of a batch that are in a set are a sequence of assignments, none is
\* left out, and none comes twice.
LEMMA KeptMembers ==
    ASSUME NEW batch \in Seq(Assignments), NEW set
    PROVE  /\ Kept(batch, set) \in Seq(Assignments)
           /\ \A i \in DOMAIN batch : batch[i] \in set =>
                 \E n \in DOMAIN Kept(batch, set) : Kept(batch, set)[n] = batch[i]
           /\ Distinct(batch) => Distinct(Kept(batch, set))
<1> DEFINE places == {i \in DOMAIN batch : batch[i] \in set}
           Upto(i) == {j \in places : j <= i}
           Rank(i) == Cardinality(Upto(i))
           N == Cardinality(places)
           f == [i \in places |-> Rank(i)]
<1>1. Len(batch) \in Nat /\ DOMAIN batch = 1..Len(batch)
  OBVIOUS
<1>2. IsFiniteSet(1..Len(batch))
  BY <1>1, FS_Interval
<1>3. places \in SUBSET (1..Len(batch))
  BY <1>1
<1>4. IsFiniteSet(places) /\ N \in Nat
  <2> HIDE DEF places
  <2> QED  BY <1>2, <1>3, FS_Subset, FS_CardinalityType
<1>5. \A i \in places : i \in Nat
  BY <1>1
<1>6. \A i \in places : batch[i] \in Assignments /\ i \in DOMAIN batch
  BY <1>1
<1>7. Kept(batch, set) = [n \in 1..N |-> batch[CHOOSE i \in places : Rank(i) = n]]
  BY DEF Kept
<1>8. \A i \in DOMAIN batch : batch[i] \in set => i \in places
  OBVIOUS
<1> HIDE DEF places
<1>9. ASSUME NEW i \in places
      PROVE  IsFiniteSet(Upto(i)) /\ Rank(i) \in 1..N
  <2>1. Upto(i) \in SUBSET places /\ i \in Upto(i)
    BY <1>5
  <2> HIDE DEF Upto
  <2>2. IsFiniteSet(Upto(i)) /\ Cardinality(Upto(i)) \in Nat /\ Cardinality(Upto(i)) <= N
    BY <1>4, <2>1, FS_Subset, FS_CardinalityType
  <2>3. Cardinality(Upto(i)) # 0
    BY <2>1, <2>2, FS_EmptySet
  <2> QED  BY <1>4, <2>2, <2>3
<1>10. ASSUME NEW i \in places, NEW k \in places, i < k
       PROVE  Rank(i) # Rank(k)
  <2>1. Upto(i) \in SUBSET Upto(k) /\ k \in Upto(k) /\ k \notin Upto(i)
    BY <1>5, <1>10
  <2>2. IsFiniteSet(Upto(k))
    BY <1>9
  <2> HIDE DEF Upto
  <2> QED  BY <2>1, <2>2, FS_Subset
<1> HIDE DEF Upto, Rank
<1>11. \A i, k \in places : Rank(i) = Rank(k) => i = k
  BY <1>5, <1>10
<1>12. f \in Injection(places, 1..N)
  BY <1>9, <1>11 DEF Injection, IsInjective
<1>13. IsFiniteSet(1..N) /\ Cardinality(1..N) = N
  BY <1>4, FS_Interval
<1>14. f \in Surjection(places, 1..N)
  <2> HIDE DEF f
  <2> QED  BY <1>12, <1>13, FS_Injection
<1>15. \A n \in 1..N : \E i \in places : Rank(i) = n
  BY <1>14 DEF Surjection
<1> DEFINE g == [n \in 1..N |-> batch[CHOOSE i \in places : Rank(i) = n]]
<1>16. \A n \in 1..N : (CHOOSE i \in places : Rank(i) = n) \in places
  BY <1>15
<1> HIDE DEF N
<1>17. g \in [1..N -> Assignments]
  BY <1>6, <1>16
<1>18. g \in Seq(Assignments)
  BY <1>4, <1>17, SeqDef
<1>19. ASSUME NEW i \in places
       PROVE  Rank(i) \in DOMAIN g /\ g[Rank(i)] = batch[i]
  <2>1. Rank(i) \in 1..N
    BY <1>9
  <2>2. (CHOOSE k \in places : Rank(k) = Rank(i)) = i
    BY <1>11
  <2> QED  BY <2>1, <2>2
<1>20. Distinct(batch) => Distinct(g)
  <2> SUFFICES ASSUME Distinct(batch), NEW n \in 1..N, NEW m \in 1..N, n # m
               PROVE  g[n] # g[m]
    BY DEF Distinct
  <2>1. PICK i \in places : i = (CHOOSE k \in places : Rank(k) = n) /\ Rank(i) = n
    BY <1>15
  <2>2. PICK j \in places : j = (CHOOSE k \in places : Rank(k) = m) /\ Rank(j) = m
    BY <1>15
  <2>3. i # j /\ i \in DOMAIN batch /\ j \in DOMAIN batch
    BY <1>6, <2>1, <2>2
  <2>4. g[n] = batch[i] /\ g[m] = batch[j]
    BY <2>1, <2>2
  <2> QED  BY <2>3, <2>4 DEF Distinct
<1> HIDE DEF g
<1> QED  BY <1>7, <1>8, <1>18, <1>19, <1>20 DEF g

-----------------------------------------------------------------------------
(* The inductive invariant.                                                 *)

IsList(events) == Len(events) \in Nat /\ events = [i \in 1..Len(events) |-> events[i]]

\* The journal holds this output, or a pass, for a context.
Holds(events, context, output) ==
    \E i \in DOMAIN events : /\ events[i].type = "OUTPUT"
                             /\ events[i].context = context
                             /\ events[i].output = output

PassedIn(events, context) ==
    \E i \in DOMAIN events : /\ events[i].type = "OUTPUT"
                             /\ events[i].context = context
                             /\ events[i].output.verdict = "PASS"

AllPassed(events, w) == \A a \in Assignments : PassedIn(events, ReviewOf(w, a))

\* A result the gate lets through is reviewed.
Reviewed(events, cross, result) ==
    result.status \in {"APPROVED", "PARTIAL"} =>
        AllPassed(events, result) /\ (cross => PassedIn(events, CrossOf(result)))

Batch(w) == {w.batch[i] : i \in DOMAIN w.batch}

\* What a call knows: what is not in its batch has passed as it is; of the batch,
\* what was reviewed in this round and passed; before and after a cross review,
\* everything.
CallInv(events, cross, w) ==
    /\ w.at \in {"round", "review", "reviewing", "judged", "correct", "correcting"} =>
          \A a \in Assignments \ Batch(w) : PassedIn(events, ReviewOf(w, a))
    /\ w.at \in {"review", "reviewing"} =>
          \A i \in DOMAIN w.batch : i < w.next =>
              /\ w.decision[w.batch[i]] \in Decision
              /\ w.decision[w.batch[i]] = "PASS" => PassedIn(events, ReviewOf(w, w.batch[i]))
    /\ w.at \in {"reviewing", "correcting"} => w.next <= Len(w.batch)
    /\ w.at \in {"toCross", "cross", "crossing"} => AllPassed(events, w)
    /\ w.at \in {"over", "committed"} => Reviewed(events, cross, ResultOf(w))

\* What a call has cached is in the journal.
CacheInv(events, cache) ==
    \A c \in DOMAIN cache : cache[c] \in OutputType /\ Holds(events, c, cache[c])

JournalInv(events, cross) ==
    /\ \A i \in DOMAIN events : events[i].type = "OUTPUT" => events[i].output \in OutputType
    /\ \A i \in Results(events) : Reviewed(events, cross, events[i].result)

\* While calls follow one another, the one under way has everything cached that
\* the journal holds, and there is one result.
SequentialInv ==
    /\ \A r, s \in Runs : r # s => work[r].at = "idle" \/ work[s].at = "idle"
    /\ \A r \in Runs : work[r].at # "idle" =>
          \A i \in DOMAIN journal : journal[i].type = "OUTPUT" =>
              journal[i].context \in DOMAIN outputs[r]
    /\ \A i, j \in Results(journal) : i = j
    /\ \A r \in Runs : work[r].at \notin {"idle", "committed"} => Results(journal) = {}
    /\ \A r \in Runs : work[r].at = "committed" =>
          \E i \in Results(journal) : journal[i].result = ResultOf(work[r])
    /\ \A x \in returned : \E i \in Results(journal) : journal[i].result = x

ShapeInv ==
    /\ request \in Requests
    /\ IsList(journal)
    /\ work \in [Runs -> WorkType]
    /\ outputs = [r \in Runs |-> outputs[r]]
    /\ raced \in BOOLEAN

ReviewInv ==
    /\ ShapeInv
    /\ JournalInv(journal, request.cross)
    /\ \A r \in Runs : CallInv(journal, request.cross, work[r])
                       /\ CacheInv(journal, outputs[r])
    /\ \A x \in returned : Reviewed(journal, request.cross, x)
    /\ ~raced => SequentialInv

-----------------------------------------------------------------------------
(* The journal only grows.                                                  *)

Grown(e1, e2) == DOMAIN e1 \subseteq DOMAIN e2 /\ \A i \in DOMAIN e1 : e2[i] = e1[i]

\* An appended event is the last one.
LEMMA AppendIs ==
    ASSUME NEW events, IsList(events), NEW e
    PROVE  /\ IsList(Append(events, e)) /\ Grown(events, Append(events, e))
           /\ DOMAIN events = 1..Len(events)
           /\ DOMAIN Append(events, e) = 1..(Len(events) + 1)
           /\ Append(events, e)[Len(events) + 1] = e
           /\ Len(events) + 1 \notin DOMAIN events
<1> DEFINE T == {events[i] : i \in 1..Len(events)} \cup {e}
           n == Len(events)
<1>1. n \in Nat /\ events = [i \in 1..n |-> events[i]]
  BY DEF IsList
<1>2. \A i \in 1..n : events[i] \in T
  OBVIOUS
<1>3. e \in T
  OBVIOUS
<1> HIDE DEF T
<1>4. events \in [1..n -> T]
  BY <1>1, <1>2
<1>5. events \in Seq(T)
  BY <1>1, <1>4, SeqDef
<1>6. Append(events, e) \in Seq(T) /\ Len(Append(events, e)) = n + 1
  BY <1>3, <1>5
<1>7. \A i \in 1..n : Append(events, e)[i] = events[i]
  BY <1>3, <1>5
<1>8. Append(events, e)[n + 1] = e
  BY <1>3, <1>5
<1>9. DOMAIN events = 1..n /\ DOMAIN Append(events, e) = 1..(n + 1)
  BY <1>1, <1>5, <1>6
<1>10. IsList(Append(events, e))
  <2> DEFINE q == Append(events, e)
  <2> HIDE DEF q
  <2>1. q \in Seq(T) /\ Len(q) \in Nat /\ DOMAIN q = 1..Len(q)
    BY <1>6 DEF q
  <2>2. q = [i \in 1..Len(q) |-> q[i]]
    BY <2>1
  <2> QED  BY <2>1, <2>2 DEF IsList, q
<1> QED  BY <1>1, <1>7, <1>8, <1>9, <1>10 DEF Grown

\* What was passed stays passed, and what a call knows stays true.
LEMMA GrownKeeps ==
    ASSUME NEW e1, NEW e2, Grown(e1, e2), NEW cross
    PROVE  /\ \A c : PassedIn(e1, c) => PassedIn(e2, c)
           /\ \A c, o : Holds(e1, c, o) => Holds(e2, c, o)
           /\ \A x : Reviewed(e1, cross, x) => Reviewed(e2, cross, x)
           /\ \A w : CallInv(e1, cross, w) => CallInv(e2, cross, w)
           /\ \A cache : CacheInv(e1, cache) => CacheInv(e2, cache)
<1>1. \A c : PassedIn(e1, c) => PassedIn(e2, c)
  BY DEF PassedIn, Grown
<1>2. \A c, o : Holds(e1, c, o) => Holds(e2, c, o)
  BY DEF Holds, Grown
<1>3. \A x : AllPassed(e1, x) => AllPassed(e2, x)
  BY <1>1 DEF AllPassed
<1>4. \A x : Reviewed(e1, cross, x) => Reviewed(e2, cross, x)
  BY <1>1, <1>3 DEF Reviewed
<1>5. ASSUME NEW w, CallInv(e1, cross, w) PROVE CallInv(e2, cross, w)
  BY <1>1, <1>3, <1>4, <1>5 DEF CallInv
<1>6. \A cache : CacheInv(e1, cache) => CacheInv(e2, cache)
  BY <1>2 DEF CacheInv
<1> QED  BY <1>1, <1>2, <1>4, <1>5, <1>6

-----------------------------------------------------------------------------
(* The graph.                                                               *)

\* Both calls start from a well-typed state.
LEMMA FreshType == Fresh \in WorkType /\ Idle \in WorkType
<1>1. Order \in Seq(Assignments) /\ Original \in Versions
  BY ReviewAssumption
<1>2. NoCross \in CauseType
  BY DEF CauseType
<1>3. Fresh \in WorkType
  BY <1>1, <1>2 DEF Fresh, WorkType, Ats, Statuses
<1>4. Idle \in WorkType
  BY <1>3 DEF Idle, WorkType, Ats
<1> QED  BY <1>3, <1>4

\* The locals a call ends with are well typed, and Reviewed is all there is to show.
LEMMA OverIs ==
    ASSUME NEW w \in WorkType, NEW status \in Statuses, NEW events, NEW cross
    PROVE  /\ Over(w, status) \in WorkType /\ Over(w, status).at = "over"
           /\ status \notin {"APPROVED", "PARTIAL"} => CallInv(events, cross, Over(w, status))
           /\ (AllPassed(events, w) /\ (cross => PassedIn(events, CrossOf(w)))) =>
                 CallInv(events, cross, Over(w, status))
<1> DEFINE v == Over(w, status)
<1>1. v \in WorkType
  BY DEF Over, WorkType, Ats
<1>2. v.at = "over" /\ v.status = status /\ v.version = w.version /\ v.count = w.count
  BY DEF Over, WorkType
<1>3. \A a \in Assignments : ReviewOf(ResultOf(v), a) = ReviewOf(w, a)
  BY <1>2 DEF ReviewOf, ResultOf
<1>4. CrossOf(ResultOf(v)) = CrossOf(w) /\ ResultOf(v).status = status
  BY <1>2 DEF CrossOf, ResultOf
<1> HIDE DEF v
<1>5. status \notin {"APPROVED", "PARTIAL"} => CallInv(events, cross, v)
  BY <1>2, <1>4 DEF CallInv, Reviewed
<1>6. (AllPassed(events, w) /\ (cross => PassedIn(events, CrossOf(w)))) => CallInv(events, cross, v)
  BY <1>2, <1>3, <1>4 DEF CallInv, Reviewed, AllPassed
<1> QED  BY <1>1, <1>2, <1>5, <1>6 DEF v

LEMMA AfterReviewKeeps ==
    ASSUME NEW w \in WorkType, NEW events, NEW cross, NEW output \in OutputType,
           w.at \in {"review", "reviewing"}, w.next <= Len(w.batch),
           CallInv(events, cross, w), Holds(events, ReviewOf(w, w.batch[w.next]), output)
    PROVE  /\ AfterReview(w, output) \in WorkType
           /\ AfterReview(w, output).at \in {"review", "over"}
           /\ CallInv(events, cross, AfterReview(w, output))
<1>1. CASE output.verdict = "INVALID"
  <2>1. "FAILED" \in Statuses
    BY DEF Statuses
  <2> QED  BY <1>1, <2>1, OverIs DEF AfterReview
<1>2. CASE output.verdict # "INVALID"
  <2> DEFINE a == w.batch[w.next]
             v == [w EXCEPT !.at = "review", !.decision[a] = output.verdict, !.next = @ + 1]
  <2>1. AfterReview(w, output) = v
    BY <1>2 DEF AfterReview
  <2>2. w.next \in DOMAIN w.batch /\ a \in Assignments /\ output.verdict \in Decision
    BY <1>2 DEF WorkType, OutputType
  <2>3. v \in WorkType
    <3> DEFINE d == [w.decision EXCEPT ![a] = output.verdict]
               n == w.next + 1
    <3>1. v = [w EXCEPT !.at = "review", !.decision = d, !.next = n]
      OBVIOUS
    <3>2. d \in [Assignments -> Decision \cup {"NONE"}]
      BY <2>2 DEF WorkType
    <3>3. n \in Nat \ {0}
      BY DEF WorkType
    <3> HIDE DEF v, d, n, a
    <3> QED  BY <3>1, <3>2, <3>3 DEF WorkType, Ats
  <2>4. /\ v.at = "review" /\ v.batch = w.batch /\ v.next = w.next + 1
        /\ v.version = w.version /\ v.count = w.count
        /\ v.decision = [w.decision EXCEPT ![a] = output.verdict]
    BY DEF WorkType
  <2>5. \A b \in Assignments : ReviewOf(v, b) = ReviewOf(w, b)
    BY <2>4 DEF ReviewOf
  <2>6. output.verdict = "PASS" => PassedIn(events, ReviewOf(w, a))
    BY DEF Holds, PassedIn
  <2>7. w.next \in Nat /\ \A i \in DOMAIN w.batch : w.batch[i] \in Assignments /\ i \in Nat
    BY DEF WorkType
  <2> HIDE DEF v
  <2>8. \A b \in Assignments \ Batch(v) : PassedIn(events, ReviewOf(v, b))
    BY <2>4, <2>5 DEF CallInv, Batch
  <2>9. ASSUME NEW i \in DOMAIN v.batch, i < v.next
        PROVE  /\ v.decision[v.batch[i]] \in Decision
               /\ v.decision[v.batch[i]] = "PASS" => PassedIn(events, ReviewOf(v, v.batch[i]))
    <3>1. v.batch[i] = w.batch[i] /\ w.batch[i] \in Assignments /\ i \in DOMAIN w.batch
      BY <2>4, <2>7
    <3>2. CASE w.batch[i] = a
      <4>1. v.decision[a] = output.verdict
        BY <2>2, <2>4 DEF WorkType
      <4> QED  BY <2>2, <2>5, <2>6, <3>1, <3>2, <4>1
    <3>3. CASE w.batch[i] # a
      <4>1. i < w.next
        BY <2>4, <2>7, <2>9, <3>1, <3>3
      <4>2. v.decision[w.batch[i]] = w.decision[w.batch[i]]
        BY <2>2, <2>4, <3>1, <3>3 DEF WorkType
      <4> QED  BY <2>5, <3>1, <4>1, <4>2 DEF CallInv
    <3> QED  BY <3>2, <3>3
  <2>10. CallInv(events, cross, v)
    BY <2>4, <2>8, <2>9 DEF CallInv
  <2> QED  BY <2>1, <2>3, <2>4, <2>10
<1> QED  BY <1>1, <1>2

LEMMA AfterCrossKeeps ==
    ASSUME NEW w \in WorkType, NEW events, NEW cross, NEW output \in OutputType,
           w.at \in {"cross", "crossing"},
           CallInv(events, cross, w), Holds(events, CrossOf(w), output)
    PROVE  /\ AfterCross(w, output) \in WorkType
           /\ AfterCross(w, output).at \in {"judged", "over"}
           /\ CallInv(events, cross, AfterCross(w, output))
<1>0. AllPassed(events, w) /\ {"FAILED", Completed} \subseteq Statuses
  BY DEF CallInv, Completed, Statuses
<1>1. CASE output.verdict = "INVALID"
  BY <1>0, <1>1, OverIs DEF AfterCross
<1>2. CASE output.verdict = "REVISE"
  <2> DEFINE c == [on |-> w.version, count |-> Largest(w.count)]
             v == [w EXCEPT !.at = "judged", !.batch = output.targets, !.cause = c]
  <2>1. AfterCross(w, output) = v
    BY <1>2 DEF AfterCross
  <2>2. c \in CauseType
    BY DEF CauseType, WorkType
  <2> HIDE DEF c
  <2>3. v \in WorkType /\ v.at = "judged" /\ v.version = w.version /\ v.count = w.count
    BY <2>2 DEF WorkType, Ats, OutputType
  <2>4. \A b \in Assignments : ReviewOf(v, b) = ReviewOf(w, b)
    BY <2>3 DEF ReviewOf
  <2> HIDE DEF v
  <2>5. CallInv(events, cross, v)
    BY <1>0, <2>3, <2>4 DEF CallInv, AllPassed
  <2> QED  BY <2>1, <2>3, <2>5
<1>3. CASE output.verdict = "PASS"
  <2>1. PassedIn(events, CrossOf(w))
    BY <1>3 DEF Holds, PassedIn
  <2>2. AfterCross(w, output) = Over(w, Completed)
    BY <1>3 DEF AfterCross
  <2> QED  BY <1>0, <2>1, <2>2, OverIs
<1>4. CASE output.verdict \notin {"INVALID", "REVISE", "PASS"}
  <2> DEFINE st == Blocking({output.verdict})
  <2>1. AfterCross(w, output) = Over(w, st)
    BY <1>4 DEF AfterCross
  <2>2. st \in Statuses /\ st \notin {"APPROVED", "PARTIAL"}
    BY DEF Blocking, Statuses
  <2> HIDE DEF st
  <2> QED  BY <2>1, <2>2, OverIs
<1> QED  BY <1>1, <1>2, <1>3, <1>4

LEMMA AfterCorrectionKeeps ==
    ASSUME NEW w \in WorkType, NEW events, NEW cross, NEW output \in OutputType,
           w.at \in {"correct", "correcting"}, w.next <= Len(w.batch),
           CallInv(events, cross, w)
    PROVE  /\ AfterCorrection(w, output) \in WorkType
           /\ AfterCorrection(w, output).at \in {"correct", "over"}
           /\ CallInv(events, cross, AfterCorrection(w, output))
<1> DEFINE a == w.batch[w.next]
<1>1. CASE output.verdict = "INVALID" \/ output.version = w.version[a]
  <2>1. "FAILED" \in Statuses
    BY DEF Statuses
  <2> QED  BY <1>1, <2>1, OverIs DEF AfterCorrection
<1>2. CASE ~(output.verdict = "INVALID" \/ output.version = w.version[a])
  <2> DEFINE v == [w EXCEPT !.at = "correct", !.version[a] = output.version, !.count[a] = @ + 1,
                            !.decision[a] = "NONE", !.next = @ + 1]
  <2>1. AfterCorrection(w, output) = v
    BY <1>2 DEF AfterCorrection
  <2>2. w.next \in DOMAIN w.batch /\ a \in Assignments /\ a \in Batch(w)
    BY DEF WorkType, Batch
  <2>3. v \in WorkType
    <3> DEFINE u == [w.version EXCEPT ![a] = output.version]
               c == [w.count EXCEPT ![a] = @ + 1]
               d == [w.decision EXCEPT ![a] = "NONE"]
               n == w.next + 1
    <3>1. v = [w EXCEPT !.at = "correct", !.version = u, !.count = c, !.decision = d, !.next = n]
      OBVIOUS
    <3>2. u \in [Assignments -> Versions \cup {NoVersion}]
      BY <2>2 DEF WorkType, OutputType
    <3>3. d \in [Assignments -> Decision \cup {"NONE"}]
      BY <2>2 DEF WorkType
    <3>4. c \in [Assignments -> Nat] /\ n \in Nat \ {0}
      BY <2>2 DEF WorkType
    <3> HIDE DEF v, u, c, d, n, a
    <3> QED  BY <3>1, <3>2, <3>3, <3>4 DEF WorkType, Ats
  <2>4. /\ v.at = "correct" /\ v.batch = w.batch
        /\ v.version = [w.version EXCEPT ![a] = output.version]
        /\ v.count = [w.count EXCEPT ![a] = w.count[a] + 1]
    BY <2>2 DEF WorkType
  <2> HIDE DEF v
  <2>5. \A b \in Assignments \ Batch(w) : ReviewOf(v, b) = ReviewOf(w, b)
    BY <2>2, <2>4 DEF ReviewOf, WorkType
  <2>6. Batch(v) = Batch(w)
    BY <2>4 DEF Batch
  <2>7. CallInv(events, cross, v)
    BY <2>4, <2>5, <2>6 DEF CallInv
  <2> QED  BY <2>1, <2>3, <2>4, <2>7
<1> QED  BY <1>1, <1>2

\* An answer that is in the journal takes the graph to its next step.
LEMMA AfterKeeps ==
    ASSUME NEW w \in WorkType, NEW events, NEW cross, NEW output \in OutputType,
           w.at \in {"review", "correct", "cross"} \cup Awaiting,
           w.at \notin {"cross", "crossing"} => w.next <= Len(w.batch),
           CallInv(events, cross, w), Holds(events, Context(w), output)
    PROVE  /\ After(w, output) \in WorkType
           /\ After(w, output).at \in {"review", "judged", "correct", "over"}
           /\ CallInv(events, cross, After(w, output))
<1>1. CASE w.at \in {"review", "reviewing"}
  BY <1>1, AfterReviewKeeps DEF After, Context
<1>2. CASE w.at \in {"cross", "crossing"}
  BY <1>2, AfterCrossKeeps DEF After, Context
<1>3. CASE w.at \in {"correct", "correcting"}
  BY <1>3, AfterCorrectionKeeps DEF After, Context
<1> QED  BY <1>1, <1>2, <1>3 DEF Awaiting

-----------------------------------------------------------------------------
(* Steps that only move one call along.                                     *)

\* No call starts to wait for an executor.
Quiet == \A s \in Runs : work'[s].at = work[s].at \/ work'[s].at \notin Awaiting

\* The frame of these steps: one call that was under way stays under way.
LEMMA BecomesKeeps ==
    ASSUME ReviewInv, NEW r \in Runs, NEW w \in WorkType, Becomes(r, w),
           work[r].at \notin {"idle", "committed"}, w.at \notin {"idle", "committed"},
           CallInv(journal, request.cross, w)
    PROVE  ReviewInv' /\ (w.at \notin Awaiting => Quiet)
<1>1. /\ work' = [work EXCEPT ![r] = w] /\ request' = request /\ journal' = journal
      /\ outputs' = outputs /\ returned' = returned /\ raced' = raced
  BY DEF Becomes
<1>2. work \in [Runs -> WorkType]
  BY DEF ReviewInv, ShapeInv
<1>3. work'[r] = w /\ \A s \in Runs \ {r} : work'[s] = work[s]
  BY <1>1, <1>2
<1>4. ShapeInv'
  BY <1>1, <1>2 DEF ReviewInv, ShapeInv
<1>5. JournalInv(journal, request.cross)'
  BY <1>1 DEF ReviewInv
<1>6. \A s \in Runs : CallInv(journal, request.cross, work'[s]) /\ CacheInv(journal, outputs[s])
  BY <1>3 DEF ReviewInv
<1>7. \A s \in Runs : (CallInv(journal, request.cross, work[s]) /\ CacheInv(journal, outputs[s]))'
  BY <1>1, <1>6
<1>8. (\A x \in returned : Reviewed(journal, request.cross, x))'
  BY <1>1 DEF ReviewInv
<1>9. ASSUME SequentialInv PROVE SequentialInv'
  <2>1. Results(journal') = Results(journal)
    BY <1>1
  <2> QED  BY <1>1, <1>3, <1>9, <2>1 DEF SequentialInv
<1>10. Quiet \/ w.at \in Awaiting
  BY <1>3 DEF Quiet
<1> QED  BY <1>1, <1>4, <1>5, <1>7, <1>8, <1>9, <1>10 DEF ReviewInv

\* What the invariant says of one call.
LEMMA CallFacts ==
    ASSUME ReviewInv, NEW r \in Runs
    PROVE  /\ work[r] \in WorkType /\ CallInv(journal, request.cross, work[r])
           /\ CacheInv(journal, outputs[r])
BY DEF ReviewInv, ShapeInv

\* A call that ends without a result the gate lets through.
LEMMA FailsKeeps ==
    ASSUME ReviewInv, NEW r \in Runs, NEW status \in Statuses \ {"APPROVED", "PARTIAL"},
           work[r].at \notin {"idle", "committed"}, Becomes(r, Over(work[r], status))
    PROVE  ReviewInv' /\ Quiet
<1> DEFINE v == Over(work[r], status)
<1>1. v \in WorkType /\ v.at = "over" /\ CallInv(journal, request.cross, v)
  BY CallFacts, OverIs
<1> HIDE DEF v
<1>2. Becomes(r, v)
  BY DEF v
<1>3. v.at \notin Awaiting
  BY <1>1 DEF Awaiting
<1> QED  BY <1>1, <1>2, <1>3, BecomesKeeps

LEMMA Stopped ==
    ASSUME ReviewInv, NEW r \in Runs,
           BudgetStop(r) \/ ExecutorFails(r) \/ CorrectionDenied(r)
    PROVE  ReviewInv' /\ Quiet
<1>1. "FAILED" \in Statuses \ {"APPROVED", "PARTIAL"}
  BY DEF Statuses
<1>2. Becomes(r, Over(work[r], "FAILED")) /\ work[r].at \notin {"idle", "committed"}
  BY DEF BudgetStop, ExecutorFails, CorrectionDenied, Awaiting
<1> QED  BY <1>1, <1>2, FailsKeeps

\* The steps that keep what is to be reviewed: the start of a round, of a cross
\* review, of a correction, and the way back to a round.
LEMMA MovedKeeps ==
    ASSUME ReviewInv, NEW r \in Runs, NEW v \in WorkType, Becomes(r, v),
           v.version = work[r].version, v.count = work[r].count, v.batch = work[r].batch,
           \/ work[r].at \in {"round", "judged", "correct"}
              /\ v.at \in {"round", "review", "correct"} /\ (v.at = "review" => v.next = 1)
           \/ work[r].at = "toCross" /\ v.at = "cross"
    PROVE  ReviewInv' /\ Quiet
<1> DEFINE w == work[r]
<1>1. w \in WorkType /\ CallInv(journal, request.cross, w)
  BY CallFacts
<1>2. \A a \in Assignments : ReviewOf(v, a) = ReviewOf(w, a)
  BY DEF ReviewOf
<1>3. Batch(v) = Batch(w)
  BY DEF Batch
<1>4. \A i \in DOMAIN v.batch : ~(i < 1)
  BY DEF WorkType
<1>5. CallInv(journal, request.cross, v)
  BY <1>1, <1>2, <1>3, <1>4 DEF CallInv, AllPassed
<1>6. w.at \notin {"idle", "committed"} /\ v.at \notin {"idle", "committed"} /\ v.at \notin Awaiting
  BY DEF Awaiting
<1> QED  BY <1>5, <1>6, BecomesKeeps

LEMMA Moved ==
    ASSUME ReviewInv, NEW r \in Runs,
           StartRound(r) \/ StartCross(r) \/ StartCorrection(r) \/ Corrected(r)
    PROVE  ReviewInv' /\ Quiet
<1> DEFINE w == work[r]
           n == w.steps + 1
           m == w.reviews + 1
           k == w.corrections + 1
           one == 1
<1>0. w \in WorkType /\ n \in Nat /\ m \in Nat /\ k \in Nat /\ one \in Nat \ {0}
  BY CallFacts DEF WorkType
<1>1. CASE StartRound(r)
  <2> DEFINE v == [w EXCEPT !.at = "review", !.next = one, !.steps = n, !.reviews = m]
  <2>1. w.at = "round" /\ Becomes(r, v)
    BY <1>1 DEF StartRound
  <2>2. /\ v \in WorkType /\ v.at = "review" /\ v.next = one /\ v.version = w.version
        /\ v.count = w.count /\ v.batch = w.batch
    <3> HIDE DEF w, n, m, k, one
    <3>1. v \in WorkType
      BY <1>0 DEF WorkType, Ats
    <3> QED  BY <1>0, <3>1 DEF WorkType
  <2> HIDE DEF v
  <2> QED  BY <2>1, <2>2, MovedKeeps
<1>2. CASE StartCross(r)
  <2> DEFINE v == [w EXCEPT !.at = "cross", !.steps = n]
  <2>1. w.at = "toCross" /\ Becomes(r, v)
    BY <1>2 DEF StartCross
  <2>2. /\ v \in WorkType /\ v.at = "cross" /\ v.version = w.version
        /\ v.count = w.count /\ v.batch = w.batch
    <3> HIDE DEF w, n, m, k, one
    <3>1. v \in WorkType
      BY <1>0 DEF WorkType, Ats
    <3> QED  BY <1>0, <3>1 DEF WorkType
  <2> HIDE DEF v
  <2> QED  BY <2>1, <2>2, MovedKeeps
<1>3. CASE StartCorrection(r)
  <2> DEFINE v == [w EXCEPT !.at = "correct", !.next = one, !.steps = n, !.corrections = k]
  <2>1. w.at = "judged" /\ Becomes(r, v)
    BY <1>3 DEF StartCorrection
  <2>2. /\ v \in WorkType /\ v.at = "correct" /\ v.version = w.version
        /\ v.count = w.count /\ v.batch = w.batch
    <3> HIDE DEF w, n, m, k, one
    <3>1. v \in WorkType
      BY <1>0 DEF WorkType, Ats
    <3> QED  BY <1>0, <3>1 DEF WorkType
  <2> HIDE DEF v
  <2> QED  BY <2>1, <2>2, MovedKeeps
<1>4. CASE Corrected(r)
  <2> DEFINE v == [w EXCEPT !.at = "round"]
  <2>1. w.at = "correct" /\ Becomes(r, v)
    BY <1>4 DEF Corrected
  <2>2. /\ v \in WorkType /\ v.at = "round" /\ v.version = w.version
        /\ v.count = w.count /\ v.batch = w.batch
    <3> HIDE DEF w, n, m, k, one
    <3>1. v \in WorkType
      BY <1>0 DEF WorkType, Ats
    <3> QED  BY <1>0, <3>1 DEF WorkType
  <2> HIDE DEF v
  <2> QED  BY <2>1, <2>2, MovedKeeps
<1> QED  BY <1>1, <1>2, <1>3, <1>4

\* A call starts to wait for an executor.
LEMMA Asked ==
    ASSUME ReviewInv, NEW r \in Runs, Ask(r)
    PROVE  /\ ReviewInv' /\ Context(work'[r]) = Context(work[r])
           /\ \A s \in Runs \ {r} : work'[s] = work[s]
<1> DEFINE w == work[r]
           at == Asking[w.at]
           v == [w EXCEPT !.at = at]
<1>1. w \in WorkType /\ CallInv(journal, request.cross, w) /\ Ready(w) /\ Becomes(r, v)
  BY CallFacts DEF Ask
<1>2. \/ w.at = "review" /\ at = "reviewing" /\ w.next <= Len(w.batch)
      \/ w.at = "correct" /\ at = "correcting" /\ w.next <= Len(w.batch)
      \/ w.at = "cross" /\ at = "crossing"
  BY <1>1 DEF Ready, Asking
<1> HIDE DEF w, at
<1>3. /\ v \in WorkType /\ v.at = at /\ v.next = w.next /\ v.batch = w.batch
      /\ v.version = w.version /\ v.count = w.count /\ v.decision = w.decision
      /\ v.cause = w.cause
  BY <1>1, <1>2 DEF WorkType, Ats
<1> HIDE DEF v
<1>4. \A a \in Assignments : ReviewOf(v, a) = ReviewOf(w, a)
  BY <1>3 DEF ReviewOf
<1>5. Batch(v) = Batch(w)
  BY <1>3 DEF Batch
<1>6. \A j \in DOMAIN w.batch : w.batch[j] \in Assignments
  BY <1>1 DEF WorkType
<1>7. CallInv(journal, request.cross, v)
  BY <1>1, <1>2, <1>3, <1>4, <1>5, <1>6 DEF CallInv, AllPassed
<1>8. ReviewInv'
  BY <1>1, <1>2, <1>3, <1>7, BecomesKeeps DEF w
<1>9. work'[r] = v /\ \A s \in Runs \ {r} : work'[s] = work[s]
  BY <1>1 DEF Becomes, ReviewInv, ShapeInv
<1>10. Context(v) = Context(w)
  BY <1>2, <1>3 DEF Context, ReviewOf, CrossOf, CorrectionOf
<1> QED  BY <1>8, <1>9, <1>10 DEF w

\* An answer is taken from the journal.
LEMMA Replayed ==
    ASSUME ReviewInv, NEW r \in Runs, Replay(r)
    PROVE  ReviewInv' /\ Quiet
<1> DEFINE w == work[r]
           output == outputs[r][Context(w)]
           v == After(w, output)
<1>1. /\ w \in WorkType /\ CallInv(journal, request.cross, w) /\ Ready(w) /\ Becomes(r, v)
      /\ CacheInv(journal, outputs[r]) /\ Context(w) \in DOMAIN outputs[r]
  BY CallFacts DEF Replay
<1>2. output \in OutputType /\ Holds(journal, Context(w), output)
  BY <1>1 DEF CacheInv
<1>3. w.at \in {"review", "correct", "cross"} /\ (w.at # "cross" => w.next <= Len(w.batch))
  BY <1>1 DEF Ready
<1> HIDE DEF w, output
<1>4. /\ v \in WorkType /\ v.at \in {"review", "judged", "correct", "over"}
      /\ CallInv(journal, request.cross, v)
  BY <1>1, <1>2, <1>3, AfterKeeps
<1> HIDE DEF v
<1>5. v.at \notin Awaiting /\ v.at \notin {"idle", "committed"} /\ w.at \notin {"idle", "committed"}
  BY <1>3, <1>4 DEF Awaiting
<1> QED  BY <1>1, <1>4, <1>5, BecomesKeeps DEF w

\* The round is judged: what is not to be revised has passed.
LEMMA Judged ==
    ASSUME ReviewInv, NEW r \in Runs, Judge(r)
    PROVE  ReviewInv' /\ Quiet
<1> DEFINE w == work[r]
           decisions == {w.decision[w.batch[i]] : i \in DOMAIN w.batch}
           wanted == {a \in Assignments : w.decision[a] = "REVISE"}
           revise == Kept(w.batch, wanted)
<1>1. w \in WorkType /\ CallInv(journal, request.cross, w)
  BY CallFacts
<1>2. w.at = "review" /\ w.next > Len(w.batch)
  BY DEF Judge
<1>3. \A i \in DOMAIN w.batch :
         /\ w.batch[i] \in Assignments /\ w.decision[w.batch[i]] \in Decision \cap decisions
         /\ w.decision[w.batch[i]] = "PASS" => PassedIn(journal, ReviewOf(w, w.batch[i]))
  <2>1. \A i \in DOMAIN w.batch : i < w.next /\ w.batch[i] \in Assignments
    BY <1>1, <1>2 DEF WorkType
  <2> QED  BY <1>1, <1>2, <2>1 DEF CallInv
<1>4. \A a \in Assignments \ Batch(w) : PassedIn(journal, ReviewOf(w, a))
  BY <1>1, <1>2 DEF CallInv
<1>5. CASE Blocked(decisions) /\ Becomes(r, Over(w, Blocking(decisions)))
  <2> DEFINE st == Blocking(decisions)
  <2>1. st \in Statuses \ {"APPROVED", "PARTIAL"}
    BY DEF Blocking, Statuses
  <2> HIDE DEF st
  <2>2. Becomes(r, Over(work[r], st)) /\ work[r].at \notin {"idle", "committed"}
    BY <1>2, <1>5 DEF st
  <2> QED  BY <2>1, <2>2, FailsKeeps
<1>6. ASSUME ~Blocked(decisions), NEW i \in DOMAIN w.batch
      PROVE  w.decision[w.batch[i]] \in {"PASS", "REVISE"}
  BY <1>3, <1>6 DEF Blocked, Decision
<1>7. CASE /\ ~Blocked(decisions)
           /\ Becomes(r, [w EXCEPT !.at = "judged", !.batch = revise, !.cause = NoCross])
  <2> DEFINE v == [w EXCEPT !.at = "judged", !.batch = revise, !.cause = NoCross]
  <2>1. /\ revise \in Seq(Assignments)
        /\ \A i \in DOMAIN w.batch : w.batch[i] \in wanted =>
              \E n \in DOMAIN revise : revise[n] = w.batch[i]
    <3>1. w.batch \in Seq(Assignments)
      BY <1>1 DEF WorkType
    <3> HIDE DEF w, wanted
    <3> QED  BY <3>1, KeptMembers
  <2>2. NoCross \in CauseType
    BY DEF CauseType
  <2>3. Becomes(r, v)
    BY <1>7
  <2>4. \A i \in DOMAIN w.batch : w.decision[w.batch[i]] = "REVISE" => w.batch[i] \in wanted
    BY <1>3
  <2> HIDE DEF w, revise, wanted, decisions
  <2>5. /\ v \in WorkType /\ v.at = "judged" /\ v.batch = revise /\ v.version = w.version
        /\ v.count = w.count
    BY <1>1, <2>1, <2>2 DEF WorkType, Ats
  <2> HIDE DEF v
  <2>6. \A a \in Assignments : ReviewOf(v, a) = ReviewOf(w, a)
    BY <2>5 DEF ReviewOf
  <2>7. ASSUME NEW a \in Assignments \ Batch(v)
        PROVE  PassedIn(journal, ReviewOf(w, a))
    <3>1. CASE a \in Batch(w)
      <4>1. PICK i \in DOMAIN w.batch : a = w.batch[i]
        BY <3>1 DEF Batch
      <4>2. w.batch[i] \notin wanted
        BY <2>1, <2>5, <2>7, <4>1 DEF Batch
      <4> QED  BY <1>3, <1>6, <1>7, <2>4, <4>1, <4>2
    <3> QED  BY <1>4, <3>1
  <2>8. CallInv(journal, request.cross, v)
    BY <2>5, <2>6, <2>7 DEF CallInv
  <2>9. v.at \notin Awaiting /\ v.at \notin {"idle", "committed"} /\ w.at \notin {"idle", "committed"}
    BY <1>2, <2>5 DEF Awaiting
  <2> QED  BY <2>3, <2>5, <2>8, <2>9, BecomesKeeps DEF w
<1>8. CASE /\ ~Blocked(decisions) /\ "REVISE" \notin decisions
           /\ Becomes(r, IF request.cross THEN [w EXCEPT !.at = "toCross"] ELSE Over(w, Completed))
  <2>1. AllPassed(journal, w)
    <3>1. \A i \in DOMAIN w.batch : w.decision[w.batch[i]] = "PASS"
      BY <1>3, <1>6, <1>8
    <3>2. \A a \in Batch(w) : PassedIn(journal, ReviewOf(w, a))
      BY <1>3, <3>1 DEF Batch
    <3> QED  BY <1>4, <3>2 DEF AllPassed
  <2>2. CASE request.cross
    <3> DEFINE v == [w EXCEPT !.at = "toCross"]
    <3>1. Becomes(r, v)
      BY <1>8, <2>2
    <3> HIDE DEF w
    <3>2. v \in WorkType /\ v.at = "toCross" /\ v.version = w.version /\ v.count = w.count
      BY <1>1 DEF WorkType, Ats
    <3> HIDE DEF v
    <3>3. \A a \in Assignments : ReviewOf(v, a) = ReviewOf(w, a)
      BY <3>2 DEF ReviewOf
    <3>4. CallInv(journal, request.cross, v)
      BY <2>1, <3>2, <3>3 DEF CallInv, AllPassed
    <3>5. v.at \notin Awaiting /\ v.at \notin {"idle", "committed"} /\ w.at \notin {"idle", "committed"}
      BY <1>2, <3>2 DEF Awaiting
    <3> QED  BY <3>1, <3>2, <3>4, <3>5, BecomesKeeps DEF w
  <2>3. CASE ~request.cross
    <3> DEFINE v == Over(w, Completed)
    <3>1. Becomes(r, v)
      BY <1>8, <2>3
    <3>2. Completed \in Statuses
      BY DEF Completed, Statuses
    <3> HIDE DEF w
    <3>3. v \in WorkType /\ v.at = "over" /\ CallInv(journal, request.cross, v)
      BY <1>1, <2>1, <2>3, <3>2, OverIs
    <3> HIDE DEF v
    <3>4. v.at \notin Awaiting /\ v.at \notin {"idle", "committed"} /\ w.at \notin {"idle", "committed"}
      BY <1>2, <3>3 DEF Awaiting
    <3> QED  BY <3>1, <3>3, <3>4, BecomesKeeps DEF w
  <2> QED  BY <2>2, <2>3
<1> QED  BY <1>5, <1>7, <1>8 DEF Judge

-----------------------------------------------------------------------------
(* Steps that write the journal or end a call.                              *)

\* A set of places of a journal has a last one.
LEMMA LastOf ==
    ASSUME NEW n \in Nat, NEW S \in SUBSET (1..n), S # {}
    PROVE  \E i \in S : \A j \in S : j <= i
<1> DEFINE Upto(i) == {j \in S : j <= i}
           Rank(i) == Cardinality(Upto(i))
           N == Cardinality(S)
           f == [i \in S |-> Rank(i)]
<1>1. IsFiniteSet(1..n)
  BY FS_Interval
<1>2. IsFiniteSet(S) /\ N \in Nat /\ N # 0
  BY <1>1, FS_Subset, FS_CardinalityType, FS_EmptySet
<1>3. \A i \in S : i \in Nat
  OBVIOUS
<1>4. ASSUME NEW i \in S
      PROVE  IsFiniteSet(Upto(i)) /\ Rank(i) \in 1..N /\ (Rank(i) = N => Upto(i) = S)
  <2>1. Upto(i) \in SUBSET S /\ i \in Upto(i)
    BY <1>3
  <2> HIDE DEF Upto
  <2>2. /\ IsFiniteSet(Upto(i)) /\ Cardinality(Upto(i)) \in Nat /\ Cardinality(Upto(i)) <= N
        /\ Cardinality(Upto(i)) = N => Upto(i) = S
    BY <1>2, <2>1, FS_Subset, FS_CardinalityType
  <2>3. Cardinality(Upto(i)) # 0
    BY <2>1, <2>2, FS_EmptySet
  <2> QED  BY <1>2, <2>2, <2>3
<1>5. ASSUME NEW i \in S, NEW k \in S, i < k
      PROVE  Rank(i) # Rank(k)
  <2>0. i \in Nat /\ k \in Nat /\ \A j \in S : j <= i => j <= k
    BY <1>3, <1>5
  <2>1. k <= k /\ ~(k <= i)
    BY <1>5, <2>0
  <2>2. \A j \in Upto(i) : j \in Upto(k)
    BY <2>0
  <2>3. Upto(i) \in SUBSET Upto(k) /\ k \in Upto(k) /\ k \notin Upto(i)
    BY <2>1, <2>2
  <2>4. IsFiniteSet(Upto(k))
    BY <1>4
  <2> HIDE DEF Upto
  <2> QED  BY <2>3, <2>4, FS_Subset
<1>6. \A i \in S : Upto(i) = S => \A j \in S : j <= i
  OBVIOUS
<1> HIDE DEF Upto, Rank
<1>7. \A i, k \in S : Rank(i) = Rank(k) => i = k
  BY <1>3, <1>5
<1>8. f \in Injection(S, 1..N)
  BY <1>4, <1>7 DEF Injection, IsInjective
<1>9. IsFiniteSet(1..N) /\ Cardinality(1..N) = N
  BY <1>2, FS_Interval
<1>10. f \in Surjection(S, 1..N)
  <2> HIDE DEF f
  <2> QED  BY <1>8, <1>9, FS_Injection
<1>11. N \in 1..N
  BY <1>2
<1>12. \E i \in S : Rank(i) = N
  BY <1>10, <1>11 DEF Surjection
<1> QED  BY <1>4, <1>6, <1>12

\* The cache a call starts with holds all that the journal holds, and no more.
LEMMA CachedIs ==
    ASSUME NEW events, IsList(events),
           \A i \in DOMAIN events : events[i].type = "OUTPUT" => events[i].output \in OutputType
    PROVE  /\ CacheInv(events, Cached(events))
           /\ \A i \in DOMAIN events : events[i].type = "OUTPUT" =>
                 events[i].context \in DOMAIN Cached(events)
<1> DEFINE contexts == {events[i].context : i \in {j \in DOMAIN events : events[j].type = "OUTPUT"}}
           IsLatest(c, i) == /\ events[i].type = "OUTPUT" /\ events[i].context = c
                             /\ \A j \in DOMAIN events : j > i /\ events[j].type = "OUTPUT"
                                    => events[j].context # c
           Latest(c) == CHOOSE i \in DOMAIN events : IsLatest(c, i)
           cache == [c \in contexts |-> events[Latest(c)].output]
<1>1. Len(events) \in Nat /\ DOMAIN events = 1..Len(events)
  BY DEF IsList
<1>2. Cached(events) = cache
  BY DEF Cached
<1>3. ASSUME NEW c \in contexts
      PROVE  \E i \in DOMAIN events : IsLatest(c, i)
  <2> DEFINE S == {i \in DOMAIN events : events[i].type = "OUTPUT" /\ events[i].context = c}
  <2>1. S # {}
    BY <1>3
  <2>2. S \in SUBSET (1..Len(events))
    BY <1>1
  <2>3. PICK i \in S : \A j \in S : j <= i
    <3> HIDE DEF S
    <3> QED  BY <1>1, <2>1, <2>2, LastOf
  <2> QED  BY <1>1, <2>3
<1>4. \A c \in contexts : Latest(c) \in DOMAIN events /\ IsLatest(c, Latest(c))
  BY <1>3
<1>5. \A i \in DOMAIN events : events[i].type = "OUTPUT" => events[i].context \in contexts
  OBVIOUS
<1> HIDE DEF Latest, contexts
<1>6. \A c \in contexts : cache[c] \in OutputType /\ Holds(events, c, cache[c])
  BY <1>4 DEF Holds
<1> QED  BY <1>2, <1>5, <1>6 DEF CacheInv

\* A call enters the graph.
LEMMA Entered ==
    ASSUME ReviewInv, NEW r \in Runs, Enter(r)
    PROVE  ReviewInv' /\ Quiet
<1> DEFINE cross == request.cross
           cache == Cached(journal)
<1>1. /\ Results(journal) = {} /\ journal' = (IF journal = <<>> THEN <<Prepared>> ELSE journal)
      /\ outputs' = [outputs EXCEPT ![r] = cache] /\ work' = [work EXCEPT ![r] = Fresh]
      /\ raced' = (raced \/ ~Alone(r)) /\ request' = request /\ returned' = returned
  BY DEF Enter
<1>2. IsList(journal) /\ work \in [Runs -> WorkType] /\ outputs = [s \in Runs |-> outputs[s]]
      /\ JournalInv(journal, cross)
  BY DEF ReviewInv, ShapeInv
<1>3. CacheInv(journal, cache) /\ \A i \in DOMAIN journal : journal[i].type = "OUTPUT" =>
                                      journal[i].context \in DOMAIN cache
  BY <1>2, CachedIs DEF JournalInv
<1>4. /\ IsList(journal') /\ Grown(journal, journal') /\ Results(journal') = {}
      /\ \A i \in DOMAIN journal' : journal'[i].type = "OUTPUT" =>
            i \in DOMAIN journal /\ journal'[i] = journal[i]
  <2>1. CASE journal = <<>>
    <3>1. journal' = <<Prepared>> /\ Prepared.type = "PREPARED"
      BY <1>1, <2>1 DEF Prepared
    <3> HIDE DEF Prepared
    <3>2. Len(journal') = 1 /\ DOMAIN journal' = 1..1 /\ journal'[1].type = "PREPARED"
      BY <3>1
    <3>3. IsList(journal')
      BY <3>1, <3>2 DEF IsList
    <3>4. \A i \in DOMAIN journal' : journal'[i].type = "PREPARED"
      BY <3>2
    <3>5. DOMAIN journal = {}
      BY <2>1
    <3> QED  BY <3>3, <3>4, <3>5 DEF Grown, Results
  <2>2. CASE journal # <<>>
    BY <1>1, <1>2, <2>2 DEF Grown
  <2> QED  BY <2>1, <2>2
<1> HIDE DEF cache
<1>5. Fresh \in WorkType /\ Fresh.at = "round" /\ Batch(Fresh) = Assignments
  BY FreshType DEF Fresh, Batch, Assignments
<1>6. CallInv(journal', cross, Fresh)
  BY <1>5 DEF CallInv
<1>7. /\ work'[r] = Fresh /\ outputs'[r] = cache
      /\ \A s \in Runs \ {r} : work'[s] = work[s] /\ outputs'[s] = outputs[s]
  BY <1>1, <1>2
<1>8. ShapeInv'
  <2>1. work' \in [Runs -> WorkType]
    BY <1>1, <1>2, <1>5
  <2>2. outputs' = [s \in Runs |-> outputs'[s]]
    BY <1>1, <1>2
  <2>3. raced' \in BOOLEAN
    BY <1>1
  <2> QED  BY <1>1, <1>4, <2>1, <2>2, <2>3 DEF ShapeInv, ReviewInv
<1>9. JournalInv(journal', cross)
  BY <1>2, <1>4 DEF JournalInv
<1>10. ASSUME NEW s \in Runs
       PROVE  CallInv(journal', cross, work'[s]) /\ CacheInv(journal', outputs'[s])
  <2>1. CASE s = r
    BY <1>3, <1>4, <1>6, <1>7, <2>1, GrownKeeps
  <2>2. CASE s # r
    <3>1. CallInv(journal, cross, work[s]) /\ CacheInv(journal, outputs[s])
      BY DEF ReviewInv
    <3> QED  BY <1>4, <1>7, <2>2, <3>1, GrownKeeps
  <2> QED  BY <2>1, <2>2
<1>11. \A x \in returned : Reviewed(journal', cross, x)
  BY <1>4, GrownKeeps DEF ReviewInv
<1>12. ASSUME ~raced' PROVE SequentialInv'
  <2>1. ~raced /\ Alone(r)
    BY <1>1, <1>12
  <2>2. \A s \in Runs \ {r} : work[s].at = "idle"
    BY <2>1 DEF Alone
  <2>3. \A x \in returned : FALSE
    BY <1>1, <2>1 DEF ReviewInv, SequentialInv
  <2>4. \A i \in DOMAIN journal' : journal'[i].type = "OUTPUT" => journal'[i].context \in DOMAIN cache
    BY <1>3, <1>4
  <2> QED  BY <1>1, <1>4, <1>5, <1>7, <2>2, <2>3, <2>4 DEF SequentialInv
<1>13. Quiet
  BY <1>5, <1>7 DEF Quiet, Awaiting
<1> QED  BY <1>1, <1>8, <1>9, <1>10, <1>11, <1>12, <1>13 DEF ReviewInv

\* What executors answer is an output.
LEMMA AnswersType == ASSUME NEW at PROVE Answers(at) \subseteq OutputType
<1> DEFINE nobody == <<>>
<1>0. /\ NoOutput = [verdict |-> "NONE", targets |-> nobody, version |-> NoVersion]
      /\ nobody \in Seq(Assignments)
  BY DEF NoOutput
<1> HIDE DEF nobody
<1>1. ASSUME NEW v \in Verdicts PROVE [NoOutput EXCEPT !.verdict = v] \in OutputType
  BY <1>0, ReviewAssumption DEF OutputType
<1>2. ASSUME NEW t \in Targets PROVE t \in Seq(Assignments)
  <2>1. PICK n \in 1..Len(Order) : t \in [1..n -> Assignments]
    BY DEF Targets
  <2>2. n \in Nat
    BY ReviewAssumption
  <2> QED  BY <2>1, <2>2, SeqDef
<1>3. CrossOpinions \subseteq OutputType
  <2>1. ASSUME NEW t \in Targets
        PROVE  [NoOutput EXCEPT !.verdict = "REVISE", !.targets = t] \in OutputType
    <3>1. t \in Seq(Assignments) /\ "REVISE" \in Decision
      BY <1>2 DEF Decision
    <3>2. NoOutput \in [verdict : {"NONE"}, targets : Seq(Assignments),
                        version : Versions \cup {NoVersion}]
      BY <1>0
    <3> QED  BY <3>1, <3>2 DEF OutputType
  <2> QED  BY <1>1, <2>1 DEF CrossOpinions, Opinions
<1>4. Corrections \subseteq OutputType
  <2>1. ASSUME NEW v \in Versions
        PROVE  [NoOutput EXCEPT !.verdict = "PASS", !.version = v] \in OutputType
    BY <1>0 DEF OutputType, Decision
  <2> QED  BY <1>1, <2>1 DEF Corrections, Opinions
<1> QED  BY <1>1, <1>3, <1>4 DEF Answers, Opinions

\* The frame of an append: one call goes on, the others know what they knew.
LEMMA AppendKeeps ==
    ASSUME ReviewInv, NEW r \in Runs, NEW w \in WorkType, NEW e, NEW cache,
           journal' = Append(journal, e), work' = [work EXCEPT ![r] = w],
           outputs' = [outputs EXCEPT ![r] = cache],
           request' = request, returned' = returned, raced' = raced,
           JournalInv(journal', request.cross), CallInv(journal', request.cross, w),
           CacheInv(journal', cache), ~raced => SequentialInv', w.at \notin Awaiting
    PROVE  ReviewInv' /\ Quiet
<1> DEFINE cross == request.cross
<1>1. IsList(journal) /\ work \in [Runs -> WorkType] /\ outputs = [s \in Runs |-> outputs[s]]
  BY DEF ReviewInv, ShapeInv
<1>2. IsList(journal') /\ Grown(journal, journal')
  BY <1>1, AppendIs
<1>3. /\ work'[r] = w /\ outputs'[r] = cache
      /\ \A s \in Runs \ {r} : work'[s] = work[s] /\ outputs'[s] = outputs[s]
  BY <1>1
<1>4. ShapeInv'
  <2>1. work' \in [Runs -> WorkType]
    BY <1>1
  <2>2. outputs' = [s \in Runs |-> outputs'[s]]
    BY <1>1
  <2> QED  BY <1>2, <2>1, <2>2 DEF ShapeInv, ReviewInv
<1>5. ASSUME NEW s \in Runs
      PROVE  CallInv(journal', cross, work'[s]) /\ CacheInv(journal', outputs'[s])
  <2>1. CASE s = r
    BY <1>3, <2>1
  <2>2. CASE s # r
    <3>1. CallInv(journal, cross, work[s]) /\ CacheInv(journal, outputs[s])
      BY DEF ReviewInv
    <3> QED  BY <1>2, <1>3, <2>2, <3>1, GrownKeeps
  <2> QED  BY <2>1, <2>2
<1>6. \A x \in returned : Reviewed(journal', cross, x)
  BY <1>2, GrownKeeps DEF ReviewInv
<1>7. Quiet
  BY <1>3 DEF Quiet
<1> QED  BY <1>4, <1>5, <1>6, <1>7 DEF ReviewInv

\* An executor returns.
LEMMA Returned ==
    ASSUME ReviewInv, NEW r \in Runs, NEW output, Return(r, output)
    PROVE  ReviewInv' /\ Quiet
<1> DEFINE w == work[r]
           cross == request.cross
           context == Context(w)
           e == OutputEvent(context, output)
           v == After(w, output)
           cache == Updated(outputs[r], context, output)
<1>1. /\ w.at \in Awaiting /\ output \in Answers(w.at)
      /\ journal' = Append(journal, e) /\ outputs' = [outputs EXCEPT ![r] = cache]
      /\ work' = [work EXCEPT ![r] = v]
      /\ request' = request /\ returned' = returned /\ raced' = raced
  BY DEF Return, ReviewInv, ShapeInv
<1>2. /\ w \in WorkType /\ CallInv(journal, cross, w) /\ CacheInv(journal, outputs[r])
      /\ IsList(journal) /\ work \in [Runs -> WorkType] /\ outputs = [s \in Runs |-> outputs[s]]
      /\ JournalInv(journal, cross)
  BY DEF ReviewInv, ShapeInv
<1>3. output \in OutputType
  BY <1>1, AnswersType
<1>4. e.type = "OUTPUT" /\ e.context = context /\ e.output = output
  BY DEF OutputEvent
<1> HIDE DEF e, context, w
<1>5. /\ Grown(journal, journal') /\ DOMAIN journal = 1..Len(journal)
      /\ DOMAIN journal' = 1..(Len(journal) + 1) /\ journal'[Len(journal) + 1] = e
      /\ Len(journal) \in Nat
  BY <1>1, <1>2, AppendIs DEF IsList
<1>6. \A i \in DOMAIN journal' : i \in DOMAIN journal \/ journal'[i] = e
  BY <1>5
<1>7. \A i \in DOMAIN journal : i \in DOMAIN journal' /\ journal'[i] = journal[i]
  BY <1>5 DEF Grown
<1>8. Results(journal') = Results(journal)
  BY <1>4, <1>6, <1>7 DEF Results
<1>9. Holds(journal', context, output)
  BY <1>4, <1>5 DEF Holds
<1>10. JournalInv(journal', cross)
  <2>1. \A i \in Results(journal) : Reviewed(journal', cross, journal[i].result)
    BY <1>2, <1>5, GrownKeeps DEF JournalInv
  <2>2. \A i \in Results(journal) : i \in DOMAIN journal
    BY DEF Results
  <2> QED  BY <1>2, <1>3, <1>4, <1>6, <1>7, <1>8, <2>1, <2>2 DEF JournalInv
<1>11. w.at \notin {"cross", "crossing"} => w.next <= Len(w.batch)
  BY <1>1, <1>2 DEF CallInv, Awaiting
<1>12. CallInv(journal', cross, w)
  BY <1>2, <1>5, GrownKeeps
<1>13. /\ v \in WorkType /\ v.at \in {"review", "judged", "correct", "over"}
       /\ CallInv(journal', cross, v)
  BY <1>1, <1>2, <1>3, <1>9, <1>11, <1>12, AfterKeeps DEF context
<1> HIDE DEF v
<1>14. CacheInv(journal', cache)
  <2>1. CacheInv(journal', outputs[r])
    BY <1>2, <1>5, GrownKeeps
  <2> QED  BY <1>3, <1>9, <2>1 DEF CacheInv, Updated
<1>15. DOMAIN cache = DOMAIN outputs[r] \cup {context}
  BY DEF Updated
<1> HIDE DEF cache
<1>16. ASSUME ~raced PROVE SequentialInv'
  <2>1. SequentialInv
    BY <1>16 DEF ReviewInv
  <2>2. /\ work'[r] = v /\ outputs'[r] = cache
        /\ \A s \in Runs \ {r} : work'[s] = work[s] /\ outputs'[s] = outputs[s]
    BY <1>1, <1>2
  <2>3. w.at \notin {"idle", "committed"}
    BY <1>1 DEF Awaiting
  <2>4. Results(journal) = {} /\ \A s \in Runs \ {r} : work[s].at = "idle"
    BY <2>1, <2>3 DEF SequentialInv, w
  <2>5. \A x \in returned : FALSE
    BY <2>1, <2>4 DEF SequentialInv
  <2>6. \A i \in DOMAIN journal' : journal'[i].type = "OUTPUT" => journal'[i].context \in DOMAIN cache
    BY <1>4, <1>6, <1>7, <1>15, <2>1, <2>3 DEF SequentialInv, w
  <2> QED  BY <1>1, <1>8, <1>13, <2>2, <2>4, <2>5, <2>6 DEF SequentialInv
<1>17. v.at \notin Awaiting
  BY <1>13 DEF Awaiting
<1> QED  BY <1>1, <1>10, <1>13, <1>14, <1>16, <1>17, AppendKeeps

\* The result is appended.
LEMMA Finished ==
    ASSUME ReviewInv, NEW r \in Runs, Finish(r)
    PROVE  ReviewInv' /\ Quiet
<1> DEFINE w == work[r]
           cross == request.cross
           e == ResultEvent(w)
           v == [w EXCEPT !.at = "committed"]
           cache == outputs[r]
<1>1. /\ w.at = "over" /\ journal' = Append(journal, e) /\ outputs' = outputs
      /\ work' = [work EXCEPT ![r] = v]
      /\ request' = request /\ returned' = returned /\ raced' = raced
  BY DEF Finish
<1>2. /\ w \in WorkType /\ CallInv(journal, cross, w) /\ CacheInv(journal, cache)
      /\ IsList(journal) /\ work \in [Runs -> WorkType] /\ outputs = [s \in Runs |-> outputs[s]]
      /\ JournalInv(journal, cross)
  BY DEF ReviewInv, ShapeInv
<1>3. outputs' = [outputs EXCEPT ![r] = cache]
  BY <1>1, <1>2
<1>4. e.type = "RESULT" /\ e.result = ResultOf(w)
  BY DEF ResultEvent
<1>5. v \in WorkType /\ v.at = "committed" /\ ResultOf(v) = ResultOf(w)
  BY <1>2 DEF WorkType, Ats, ResultOf
<1> HIDE DEF e, w, v, cache
<1>6. /\ Grown(journal, journal') /\ DOMAIN journal = 1..Len(journal)
      /\ DOMAIN journal' = 1..(Len(journal) + 1) /\ journal'[Len(journal) + 1] = e
      /\ Len(journal) \in Nat
  BY <1>1, <1>2, AppendIs DEF IsList
<1>7. \A i \in DOMAIN journal' : i \in DOMAIN journal \/ (i = Len(journal) + 1 /\ journal'[i] = e)
  BY <1>6
<1>8. \A i \in DOMAIN journal : i \in DOMAIN journal' /\ journal'[i] = journal[i]
  BY <1>6 DEF Grown
<1>9. \A i \in Results(journal') : i \in Results(journal) \/ i = Len(journal) + 1
  BY <1>7, <1>8 DEF Results
<1>10. \A i \in Results(journal) : i \in DOMAIN journal
  BY DEF Results
<1>11. Reviewed(journal', cross, ResultOf(w))
  BY <1>1, <1>2, <1>6, GrownKeeps DEF CallInv
<1>12. JournalInv(journal', cross)
  <2>1. \A i \in Results(journal) : Reviewed(journal', cross, journal[i].result)
    BY <1>2, <1>6, GrownKeeps DEF JournalInv
  <2>2. \A i \in DOMAIN journal' : journal'[i].type = "OUTPUT" => journal'[i].output \in OutputType
    BY <1>2, <1>4, <1>7, <1>8 DEF JournalInv
  <2>3. \A i \in Results(journal') : Reviewed(journal', cross, journal'[i].result)
    BY <1>4, <1>6, <1>8, <1>9, <1>10, <1>11, <2>1
  <2> QED  BY <2>2, <2>3 DEF JournalInv
<1>13. CallInv(journal', cross, v)
  BY <1>5, <1>11 DEF CallInv
<1>14. CacheInv(journal', cache)
  BY <1>2, <1>6, GrownKeeps
<1>15. ASSUME ~raced PROVE SequentialInv'
  <2>1. SequentialInv
    BY <1>15 DEF ReviewInv
  <2>2. work'[r] = v /\ \A s \in Runs \ {r} : work'[s] = work[s]
    BY <1>1, <1>2
  <2>3. Results(journal) = {} /\ \A s \in Runs \ {r} : work[s].at = "idle"
    BY <1>1, <2>1 DEF SequentialInv, w
  <2>4. \A x \in returned : FALSE
    BY <2>1, <2>3 DEF SequentialInv
  <2>5. \A i \in Results(journal') : i = Len(journal) + 1
    BY <1>9, <2>3
  <2>6. Len(journal) + 1 \in Results(journal') /\ journal'[Len(journal) + 1].result = ResultOf(v)
    BY <1>4, <1>5, <1>6 DEF Results
  <2>7. \A i \in DOMAIN journal' : journal'[i].type = "OUTPUT" => journal'[i].context \in DOMAIN cache
    BY <1>1, <1>4, <1>7, <1>8, <2>1 DEF SequentialInv, w, cache
  <2> QED  BY <1>1, <1>5, <2>2, <2>3, <2>4, <2>5, <2>6, <2>7 DEF SequentialInv, cache
<1>16. v.at \notin Awaiting
  BY <1>5 DEF Awaiting
<1> QED  BY <1>1, <1>3, <1>5, <1>12, <1>13, <1>14, <1>15, <1>16, AppendKeeps

\* The call returns its result, returns a committed one, is cancelled or lost.
LEMMA Ended ==
    ASSUME ReviewInv, NEW r \in Runs, Deliver(r) \/ ReturnCommitted(r) \/ Cancel(r) \/ Crash
    PROVE  ReviewInv' /\ Quiet
<1> DEFINE cross == request.cross
           idle(s) == work'[s] = Idle /\ outputs'[s] = <<>>
           same(s) == work'[s] = work[s] /\ outputs'[s] = outputs[s]
<1>1. /\ work \in [Runs -> WorkType] /\ outputs = [s \in Runs |-> outputs[s]]
      /\ IsList(journal) /\ JournalInv(journal, cross) /\ request \in Requests /\ raced \in BOOLEAN
  BY DEF ReviewInv, ShapeInv
<1>2. /\ journal' = journal /\ request' = request /\ raced' = raced
      /\ work' \in [Runs -> WorkType] /\ outputs' = [s \in Runs |-> outputs'[s]]
      /\ \A s \in Runs : idle(s) \/ same(s)
  <2>1. CASE Deliver(r)
    BY <1>1, <2>1, FreshType DEF Deliver
  <2>2. CASE ReturnCommitted(r)
    BY <1>1, <2>2 DEF ReturnCommitted
  <2>3. CASE Cancel(r)
    BY <1>1, <2>3, FreshType DEF Cancel
  <2>4. CASE Crash
    BY <1>1, <2>4, FreshType DEF Crash
  <2> QED  BY <2>1, <2>2, <2>3, <2>4
<1>3. Idle.at = "idle"
  BY DEF Idle, Fresh
<1>4. ASSUME NEW s \in Runs
      PROVE  CallInv(journal, cross, work'[s]) /\ CacheInv(journal, outputs'[s])
  <2>1. CASE idle(s)
    <3>1. CallInv(journal, cross, Idle)
      BY <1>3 DEF CallInv
    <3>2. CacheInv(journal, <<>>)
      BY DEF CacheInv
    <3> QED  BY <2>1, <3>1, <3>2
  <2>2. CASE same(s)
    BY <2>2 DEF ReviewInv
  <2> QED  BY <1>2, <2>1, <2>2
<1>5. ASSUME NEW x \in returned', x \notin returned
      PROVE  /\ Reviewed(journal, cross, x)
             /\ ~raced => \E i \in Results(journal) : journal[i].result = x
  <2>1. CASE Deliver(r)
    <3>1. x = ResultOf(work[r]) /\ work[r].at = "committed"
      BY <1>5, <2>1 DEF Deliver
    <3>2. CallInv(journal, cross, work[r])
      BY DEF ReviewInv
    <3> QED  BY <3>1, <3>2 DEF CallInv, ReviewInv, SequentialInv
  <2>2. CASE ReturnCommitted(r)
    <3> DEFINE last == CHOOSE i \in Results(journal) : \A j \in Results(journal) : j <= i
    <3>1. Results(journal) # {} /\ x = journal[last].result
      BY <1>5, <2>2 DEF ReturnCommitted
    <3>2. Results(journal) \in SUBSET (1..Len(journal)) /\ Len(journal) \in Nat
      BY <1>1 DEF Results, IsList
    <3>3. \E i \in Results(journal) : \A j \in Results(journal) : j <= i
      BY <3>1, <3>2, LastOf
    <3>4. last \in Results(journal)
      BY <3>3
    <3> QED  BY <1>1, <3>1, <3>4 DEF JournalInv
  <2>3. CASE Cancel(r)
    BY <1>5, <2>3 DEF Cancel
  <2>4. CASE Crash
    BY <1>5, <2>4 DEF Crash
  <2> QED  BY <2>1, <2>2, <2>3, <2>4
<1>6. \A x \in returned' : Reviewed(journal, cross, x)
  BY <1>5 DEF ReviewInv
<1>7. ASSUME ~raced PROVE SequentialInv'
  <2>1. SequentialInv
    BY <1>7 DEF ReviewInv
  <2>2. \A s \in Runs : work'[s].at = "idle" \/ same(s)
    BY <1>2, <1>3
  <2>3. \A x \in returned' : \E i \in Results(journal) : journal[i].result = x
    BY <1>5, <1>7, <2>1 DEF SequentialInv
  <2> QED  BY <1>2, <2>1, <2>2, <2>3 DEF SequentialInv
<1>8. Quiet
  BY <1>2, <1>3 DEF Quiet, Awaiting
<1>9. ShapeInv'
  BY <1>1, <1>2 DEF ShapeInv
<1> HIDE DEF idle, same
<1> QED  BY <1>1, <1>2, <1>4, <1>6, <1>7, <1>8, <1>9 DEF ReviewInv

-----------------------------------------------------------------------------
(* Theorems.                                                                *)

LEMMA InitKeeps == Init => ReviewInv
<1> SUFFICES ASSUME Init PROVE ReviewInv
  OBVIOUS
<1>1. Idle \in WorkType /\ Idle.at = "idle"
  BY FreshType DEF Idle, Fresh
<1>2. Results(<<>>) = {} /\ Results(journal) = {} /\ DOMAIN journal = {}
  BY DEF Init, Results
<1>3. ShapeInv
  <2>1. IsList(<<>>)
    BY DEF IsList
  <2>2. /\ journal = <<>> /\ work \in [Runs -> WorkType] /\ raced \in BOOLEAN
        /\ outputs = [r \in Runs |-> outputs[r]] /\ request \in Requests
    BY <1>1 DEF Init
  <2> QED  BY <2>1, <2>2 DEF ShapeInv
<1>4. JournalInv(journal, request.cross)
  BY <1>2 DEF JournalInv
<1>5. \A r \in Runs : work[r] = Idle /\ DOMAIN outputs[r] = {}
  BY DEF Init
<1>6. \A r \in Runs : CallInv(journal, request.cross, work[r]) /\ CacheInv(journal, outputs[r])
  BY <1>1, <1>5 DEF CallInv, CacheInv
<1>7. SequentialInv
  BY <1>1, <1>2, <1>5 DEF SequentialInv, Init
<1> QED  BY <1>3, <1>4, <1>6, <1>7 DEF Init, ReviewInv

\* Each step keeps the invariant, and only Ask makes a call wait for an executor.
LEMMA NextKeeps ==
    ASSUME ReviewInv, Next
    PROVE  ReviewInv' /\ (Quiet \/ \E r \in Runs : Ask(r))
<1>1. CASE Crash
  <2>1. CASE Runs = {}
    BY <1>1, <2>1 DEF Crash
  <2>2. CASE Runs # {}
    BY <1>1, <2>2, Ended
  <2> QED  BY <2>1, <2>2
<1>2. ASSUME NEW r \in Runs, Turn(r)
      PROVE  ReviewInv' /\ (Quiet \/ Ask(r))
  <2>1. CASE Enter(r)
    BY <2>1, Entered
  <2>2. CASE Deliver(r) \/ ReturnCommitted(r) \/ Cancel(r)
    BY <2>2, Ended
  <2>3. CASE BudgetStop(r) \/ ExecutorFails(r) \/ CorrectionDenied(r)
    BY <2>3, Stopped
  <2>4. CASE StartRound(r) \/ StartCross(r) \/ StartCorrection(r) \/ Corrected(r)
    BY <2>4, Moved
  <2>5. CASE Ask(r)
    BY <2>5, Asked
  <2>6. CASE Replay(r)
    BY <2>6, Replayed
  <2>7. CASE \E output \in Answers(work[r].at) : Return(r, output)
    BY <2>7, Returned
  <2>8. CASE Judge(r)
    BY <2>8, Judged
  <2>9. CASE Finish(r)
    BY <2>9, Finished
  <2> QED  BY <1>2, <2>1, <2>2, <2>3, <2>4, <2>5, <2>6, <2>7, <2>8, <2>9 DEF Turn, Step
<1> QED  BY <1>1, <1>2 DEF Next

LEMMA StepKeeps == ReviewInv /\ [Next]_vars => ReviewInv'
<1> SUFFICES ASSUME ReviewInv, [Next]_vars PROVE ReviewInv'
  OBVIOUS
<1>1. CASE Next
  BY <1>1, NextKeeps
<1>2. CASE UNCHANGED vars
  BY <1>2 DEF vars, ReviewInv, ShapeInv, SequentialInv
<1> QED  BY <1>1, <1>2

\* The inductive invariant holds of every execution of RecoverableReviewWorkflow.
THEOREM InvariantHolds == Spec => []ReviewInv
BY InitKeeps, StepKeeps, PTL DEF Spec

\* What MainAggregationGate lets through passed a per-result review in exactly its
\* final version, and the cross review where one is required, whatever reviewers
\* and correctors answered, however calls overlapped and were cut off.
THEOREM AggregationIsReviewed == Spec => []AggregatedIsReviewed
<1>1. ReviewInv => AggregatedIsReviewed
  <2> SUFFICES ASSUME ReviewInv, NEW result \in returned,
                      result.status \in {"APPROVED", "PARTIAL"}
               PROVE  /\ \A a \in Assignments : Passed(ReviewOf(result, a))
                      /\ request.cross => Passed(CrossOf(result))
    BY DEF AggregatedIsReviewed
  <2>1. Reviewed(journal, request.cross, result)
    BY DEF ReviewInv
  <2>2. \A c : PassedIn(journal, c) => Passed(c)
    BY DEF PassedIn, Passed, Committed
  <2> QED  BY <2>1, <2>2 DEF Reviewed, AllPassed
<1> QED  BY <1>1, InvariantHolds, PTL

\* Replay from the journal: while calls follow one another no executor is asked
\* for a context whose output is committed.
THEOREM NothingAskedTwice == Spec => CommittedCallsNotRepeated
<1> DEFINE Fine == \A r \in Runs : ~raced' /\ work[r].at # work'[r].at
                                      /\ work'[r].at \in Awaiting
                                   => Committed(Context(work'[r])) = {}
<1>1. ASSUME ReviewInv, [Next]_vars PROVE [Fine]_vars
  <2>1. CASE UNCHANGED vars
    BY <2>1
  <2>2. CASE Next
    <3>1. CASE Quiet
      BY <3>1 DEF Quiet
    <3>2. ASSUME NEW r \in Runs, Ask(r) PROVE Fine
      <4>1. Context(work'[r]) = Context(work[r]) /\ \A s \in Runs \ {r} : work'[s] = work[s]
        BY <1>1, <3>2, Asked
      <4>2. raced' = raced /\ Context(work[r]) \notin DOMAIN outputs[r] /\ work[r].at # "idle"
        BY <3>2 DEF Ask, Becomes, Ready
      <4>3. ~raced => Committed(Context(work[r])) = {}
        BY <1>1, <4>2 DEF ReviewInv, SequentialInv, Committed
      <4> QED  BY <4>1, <4>2, <4>3
    <3> QED  BY <1>1, <2>2, <3>1, <3>2, NextKeeps
  <2> QED  BY <1>1, <2>1, <2>2
<1> QED  BY <1>1, InvariantHolds, PTL DEF Spec, CommittedCallsNotRepeated

\* Calls that follow one another never hand Main two different results, not even
\* after a crash between the commit and the return.
THEOREM SequentialUniqueness == Spec => []SequentialResultIsUnique
<1>1. ReviewInv => SequentialResultIsUnique
  <2> SUFFICES ASSUME ReviewInv, ~raced PROVE Cardinality(returned) <= 1
    BY DEF SequentialResultIsUnique
  <2>1. \A x, y \in returned : x = y
    BY DEF ReviewInv, SequentialInv
  <2>2. CASE returned = {}
    BY <2>2, FS_EmptySet
  <2>3. CASE returned # {}
    <3>1. PICK x \in returned : TRUE
      BY <2>3
    <3>2. returned = {x}
      BY <2>1, <3>1
    <3> QED  BY <3>2, FS_Singleton
  <2> QED  BY <2>2, <2>3
<1> QED  BY <1>1, InvariantHolds, PTL

-----------------------------------------------------------------------------
(* The way of the replay: the states the deterministic graph goes through    *)
(* with the outputs of the journal. While calls follow one another, each of  *)
(* them is somewhere on it, and the journal holds what was asked for on it.  *)

\* A step of the graph that takes an output from the journal.
Takes(events, w, v) ==
    /\ Ready(w)
    /\ \E i \in DOMAIN events : /\ events[i].type = "OUTPUT"
                                /\ events[i].context = Context(w)
                                /\ v = After(w, events[i].output)

\* The round is judged, and the call is not over.
Judgement(w) ==
    IF "REVISE" \in {w.decision[w.batch[i]] : i \in DOMAIN w.batch}
    THEN [w EXCEPT !.at = "judged",
                   !.batch = Kept(w.batch, {a \in Assignments : w.decision[a] = "REVISE"}),
                   !.cause = NoCross]
    ELSE [w EXCEPT !.at = "toCross"]

\* A step of the graph between executors that does not end it.
Goes(w, v) ==
    \/ /\ w.at = "round" /\ w.reviews < ReviewLimit
       /\ v = [w EXCEPT !.at = "review", !.next = 1, !.steps = @ + 1, !.reviews = @ + 1]
    \/ /\ w.at = "review" /\ w.next > Len(w.batch)
       /\ v = Judgement(w)
    \/ /\ w.at = "toCross"
       /\ v = [w EXCEPT !.at = "cross", !.steps = @ + 1]
    \/ /\ w.at = "judged" /\ w.corrections < CorrectionLimit
       /\ v = [w EXCEPT !.at = "correct", !.next = 1, !.steps = @ + 1, !.corrections = @ + 1]
    \/ /\ w.at = "correct" /\ w.next > Len(w.batch)
       /\ v = [w EXCEPT !.at = "round"]

\* What these steps do to the counters and to the place in the batch.
Progress(w, v) ==
    \/ /\ w.at = "round" /\ v.at = "review" /\ v.batch = w.batch /\ v.next = 1
       /\ w.reviews < ReviewLimit /\ v.reviews = w.reviews + 1
       /\ v.corrections = w.corrections
    \/ /\ w.at = "judged" /\ v.at = "correct" /\ v.batch = w.batch /\ v.next = 1
       /\ w.corrections < CorrectionLimit /\ v.corrections = w.corrections + 1
       /\ v.reviews = w.reviews
    \/ /\ v.reviews = w.reviews /\ v.corrections = w.corrections
       /\ \/ /\ w.at \in {"review", "correct"} /\ v.at = w.at
             /\ v.batch = w.batch /\ v.next = w.next + 1
          \/ w.at \in {"review", "cross"} /\ v.at \in {"judged", "toCross"} /\ Distinct(v.batch)
             /\ (w.at = "cross" => v.at = "judged")
          \/ w.at = "toCross" /\ v.at = "cross" /\ v.batch = w.batch
          \/ w.at = "correct" /\ v.at = "round" /\ v.batch = w.batch
          \/ w.at \in {"review", "cross", "correct"} /\ v.at = "over" /\ v.batch = w.batch

\* The counters are within the limits, and the batch names nobody twice.
Counted(w) ==
    /\ w.reviews <= ReviewLimit /\ w.corrections <= CorrectionLimit
    /\ w.at # "round" => w.reviews > 0
    /\ w.at = "correct" => w.corrections > 0
    /\ Distinct(w.batch)

\* v comes after u: another round, or further in the same one; and the same with
\* the corrections and the cross review of a round.
Later(u, v) ==
    /\ u.reviews <= v.reviews /\ u.corrections <= v.corrections
    /\ (u.at = "review" /\ v.at = "review" /\ u.reviews = v.reviews) =>
          u.batch = v.batch /\ u.next < v.next
    /\ (u.at = "correct" /\ v.at = "correct" /\ u.corrections = v.corrections) =>
          u.batch = v.batch /\ u.next < v.next
    /\ (u.at = "cross" /\ u.reviews = v.reviews) =>
          v.at \notin {"review", "toCross", "cross"}

\* A step keeps the counters within the limits and is later than all before it.
LEMMA ProgressKeeps ==
    ASSUME NEW w \in WorkType, NEW v \in WorkType, Progress(w, v), Counted(w)
    PROVE  /\ Counted(v) /\ Later(w, v)
           /\ \A u \in WorkType : Later(u, w) => Later(u, v)
<1>1. /\ w.reviews \in Nat /\ w.corrections \in Nat /\ v.reviews \in Nat /\ v.corrections \in Nat
      /\ w.next \in Nat /\ v.next \in Nat /\ ReviewLimit \in Nat /\ CorrectionLimit \in Nat
  BY ReviewAssumption DEF WorkType
<1>2. Counted(v)
  BY <1>1 DEF Progress, Counted, Distinct
<1>3. Later(w, v)
  BY <1>1 DEF Progress, Later
<1>4. ASSUME NEW u \in WorkType, Later(u, w) PROVE Later(u, v)
  <2>1. u.reviews \in Nat /\ u.corrections \in Nat /\ u.next \in Nat
    BY DEF WorkType
  <2> QED  BY <1>1, <1>4, <2>1 DEF Progress, Later
<1> QED  BY <1>2, <1>3, <1>4

\* A step between executors moves on.
LEMMA GoesProgress ==
    ASSUME NEW w \in WorkType, Counted(w), NEW v, Goes(w, v)
    PROVE  Progress(w, v)
<1>1. CASE /\ w.at = "round" /\ w.reviews < ReviewLimit
           /\ v = [w EXCEPT !.at = "review", !.next = 1, !.steps = @ + 1, !.reviews = @ + 1]
  BY <1>1 DEF Progress, WorkType
<1>2. CASE w.at = "review" /\ w.next > Len(w.batch) /\ v = Judgement(w)
  <2> DEFINE kept == Kept(w.batch, {a \in Assignments : w.decision[a] = "REVISE"})
  <2>1. Distinct(kept)
    <3>1. w.batch \in Seq(Assignments)
      BY DEF WorkType
    <3> QED  BY <3>1, KeptMembers DEF Counted
  <2> HIDE DEF kept
  <2>2. \/ v = [w EXCEPT !.at = "judged", !.batch = kept, !.cause = NoCross]
        \/ v = [w EXCEPT !.at = "toCross"]
    BY <1>2 DEF Judgement, kept
  <2> QED  BY <1>2, <2>1, <2>2 DEF Progress, WorkType, Counted
<1>3. CASE w.at = "toCross" /\ v = [w EXCEPT !.at = "cross", !.steps = @ + 1]
  BY <1>3 DEF Progress, WorkType
<1>4. CASE /\ w.at = "judged" /\ w.corrections < CorrectionLimit
           /\ v = [w EXCEPT !.at = "correct", !.next = 1, !.steps = @ + 1, !.corrections = @ + 1]
  BY <1>4 DEF Progress, WorkType
<1>5. CASE w.at = "correct" /\ w.next > Len(w.batch) /\ v = [w EXCEPT !.at = "round"]
  BY <1>5 DEF Progress, WorkType
<1> QED  BY <1>1, <1>2, <1>3, <1>4, <1>5 DEF Goes

\* So does one that takes an output.
LEMMA TakesProgress ==
    ASSUME NEW w \in WorkType, Counted(w), Ready(w),
           NEW output \in OutputType, Distinct(output.targets)
    PROVE  Progress(w, After(w, output))
<1> SUFFICES ASSUME NEW v, v = After(w, output) PROVE Progress(w, v)
  OBVIOUS
<1>0. ASSUME NEW status, v = Over(w, status), w.at \in {"review", "cross", "correct"}
      PROVE  Progress(w, v)
  BY <1>0 DEF Over, Progress, WorkType
<1>1. CASE w.at = "review"
  <2>1. v = AfterReview(w, output)
    BY <1>1 DEF After
  <2>2. CASE output.verdict = "INVALID"
    BY <1>0, <1>1, <2>1, <2>2 DEF AfterReview
  <2>3. CASE output.verdict # "INVALID"
    <3> DEFINE d == [w.decision EXCEPT ![w.batch[w.next]] = output.verdict]
    <3>1. v = [w EXCEPT !.at = "review", !.decision = d, !.next = @ + 1]
      BY <2>1, <2>3 DEF AfterReview
    <3> HIDE DEF d
    <3> QED  BY <1>1, <3>1 DEF Progress, WorkType
  <2> QED  BY <2>2, <2>3
<1>2. CASE w.at = "cross"
  <2>1. v = AfterCross(w, output)
    BY <1>2 DEF After
  <2>2. CASE output.verdict # "REVISE"
    BY <1>0, <1>2, <2>1, <2>2 DEF AfterCross
  <2>3. CASE output.verdict = "REVISE"
    <3> DEFINE c == [on |-> w.version, count |-> Largest(w.count)]
    <3>1. v = [w EXCEPT !.at = "judged", !.batch = output.targets, !.cause = c]
      BY <2>1, <2>3 DEF AfterCross
    <3> HIDE DEF c
    <3> QED  BY <1>2, <3>1 DEF Progress, WorkType
  <2> QED  BY <2>2, <2>3
<1>3. CASE w.at = "correct"
  <2>1. v = AfterCorrection(w, output)
    BY <1>3 DEF After
  <2>2. CASE output.verdict = "INVALID" \/ output.version = w.version[w.batch[w.next]]
    BY <1>0, <1>3, <2>1, <2>2 DEF AfterCorrection
  <2>3. CASE ~(output.verdict = "INVALID" \/ output.version = w.version[w.batch[w.next]])
    <3> DEFINE a == w.batch[w.next]
               u == [w.version EXCEPT ![a] = output.version]
               c == [w.count EXCEPT ![a] = @ + 1]
               d == [w.decision EXCEPT ![a] = "NONE"]
    <3>1. v = [w EXCEPT !.at = "correct", !.version = u, !.count = c, !.decision = d,
                        !.next = @ + 1]
      BY <2>1, <2>3 DEF AfterCorrection
    <3> HIDE DEF u, c, d, a
    <3> QED  BY <1>3, <3>1 DEF Progress, WorkType
  <2> QED  BY <2>2, <2>3
<1>4. w.at \in {"review", "cross", "correct"}
  BY DEF Ready
<1> QED  BY <1>1, <1>2, <1>3, <1>4

\* Either kind of step.
Moves(events, w, v) == Takes(events, w, v) \/ Goes(w, v)

\* The journal answers each context once, with targets that are named once, and
\* only its outputs are about a context.
AnswersOnce(events) ==
    /\ \A e \in DOMAIN events : IF events[e].type = "OUTPUT" THEN Distinct(events[e].output.targets)
                                                          ELSE events[e].context = Blank
    /\ \A e, f \in DOMAIN events : events[e].type = "OUTPUT" /\ events[f].type = "OUTPUT"
          /\ events[e].context = events[f].context => e = f

\* The journal has no answer to the context.
Unasked(events, context) ==
    \A e \in DOMAIN events : events[e].type = "OUTPUT" => events[e].context # context

\* The way from the start: each output of the journal was asked for on it.
Way(events, n, T) ==
    /\ n \in Nat /\ T \in [0..n -> WorkType] /\ T[0] = Fresh
    /\ \A i \in 0..n : Counted(T[i])
    /\ \A i \in 0..n : i < n => Moves(events, T[i], T[i + 1])
    /\ \A i, k \in 0..n : i < k => Later(T[i], T[k])
    /\ \A e \in DOMAIN events : events[e].type = "OUTPUT" =>
          \E i \in 0..n : i < n /\ Ready(T[i]) /\ Context(T[i]) = events[e].context

\* A call is on the way; it waits for an executor only at the end of it.
OnWay(events, n, T, w) ==
    \/ w.at \in {"idle", "over", "committed"}
    \/ w.at \notin Awaiting /\ \E i \in 0..n : w = T[i]
    \/ /\ w.at \in Awaiting /\ Ready(T[n]) /\ w = [T[n] EXCEPT !.at = Asking[@]]
       /\ Unasked(events, Context(T[n]))

\* One way for the journal and all calls: part of the invariant while calls do not
\* overlap, so that no induction over what happened is needed.
WayInv ==
    /\ AnswersOnce(journal)
    /\ \E n, T : Way(journal, n, T) /\ \A r \in Runs : OnWay(journal, n, T, work[r])

\* The journal answers a context once, so the graph has one way to go.
LEMMA Determined ==
    ASSUME NEW events, AnswersOnce(events), NEW w \in WorkType, NEW v, NEW u,
           Moves(events, w, v), Moves(events, w, u)
    PROVE  v = u
<1>1. ASSUME Takes(events, w, v), Takes(events, w, u) PROVE v = u
  BY <1>1 DEF Takes, AnswersOnce
<1>2. ASSUME Goes(w, v), Goes(w, u) PROVE v = u
  BY <1>2 DEF Goes
<1>3. ASSUME NEW x, NEW y, Takes(events, w, x), Goes(w, y) PROVE FALSE
  BY <1>3 DEF Takes, Goes, Ready, WorkType
<1> QED  BY <1>1, <1>2, <1>3 DEF Moves

\* A step stays one when the journal grows.
LEMMA MovesGrow ==
    ASSUME NEW events, NEW grown, Grown(events, grown), NEW w, NEW v, Moves(events, w, v)
    PROVE  Moves(grown, w, v)
BY DEF Moves, Takes, Grown

\* Every step of the way moves on and stays among the states of calls.
LEMMA MovesProgress ==
    ASSUME NEW events, AnswersOnce(events), NEW w \in WorkType, Counted(w), NEW v,
           Moves(events, w, v),
           \A e \in DOMAIN events : events[e].type = "OUTPUT" => events[e].output \in OutputType
    PROVE  Progress(w, v)
<1>1. CASE Goes(w, v)
  BY <1>1, GoesProgress
<1>2. CASE Takes(events, w, v)
  <2>1. PICK e \in DOMAIN events : events[e].type = "OUTPUT" /\ v = After(w, events[e].output)
    BY <1>2 DEF Takes
  <2>2. events[e].output \in OutputType /\ Distinct(events[e].output.targets) /\ Ready(w)
    BY <1>2, <2>1 DEF AnswersOnce, Takes
  <2> QED  BY <2>1, <2>2, TakesProgress
<1> QED  BY <1>1, <1>2 DEF Moves

\* The way goes one step further.
LEMMA Extended ==
    ASSUME NEW events, NEW n, NEW T, Way(events, n, T), NEW v \in WorkType,
           Progress(T[n], v), NEW grown, Grown(events, grown), Moves(grown, T[n], v),
           \A e \in DOMAIN grown : grown[e].type = "OUTPUT" =>
              e \in DOMAIN events \/ (Ready(T[n]) /\ Context(T[n]) = grown[e].context)
    PROVE  \E U : Way(grown, n + 1, U) /\ (\A i \in 0..n : U[i] = T[i]) /\ U[n + 1] = v
<1>1. /\ n \in Nat /\ T \in [0..n -> WorkType] /\ T[0] = Fresh
      /\ \A i \in 0..n : Counted(T[i])
      /\ \A i \in 0..n : i < n => Moves(events, T[i], T[i + 1])
      /\ \A i, k \in 0..n : i < k => Later(T[i], T[k])
      /\ \A e \in DOMAIN events : events[e].type = "OUTPUT" =>
            \E i \in 0..n : i < n /\ Ready(T[i]) /\ Context(T[i]) = events[e].context
  BY DEF Way
<1>2. PICK m \in Nat : m = n + 1
  BY <1>1
<1> DEFINE U == [i \in 0..m |-> IF i <= n THEN T[i] ELSE v]
<1>3. /\ \A i \in 0..n : U[i] = T[i] /\ i \in 0..m
      /\ U[m] = v /\ m \in 0..m /\ n \in 0..n /\ 0 \in 0..n
      /\ \A i \in 0..m : i \in 0..n \/ i = m
  BY <1>1, <1>2
<1>4. U \in [0..m -> WorkType]
  BY <1>1, <1>2
<1> HIDE DEF U
<1>5. /\ Counted(v) /\ Later(T[n], v)
      /\ \A i \in 0..n : Later(T[i], T[n]) => Later(T[i], v)
  BY <1>1, <1>3, ProgressKeeps
<1>6. \A i \in 0..m : Counted(U[i])
  BY <1>1, <1>3, <1>5
<1>7. ASSUME NEW i \in 0..m, i < m PROVE Moves(grown, U[i], U[i + 1])
  <2>1. i \in 0..n
    BY <1>1, <1>2, <1>7
  <2>2. CASE i = n
    BY <1>2, <1>3, <2>2
  <2>3. CASE i # n
    <3>1. PICK k \in 0..n : k = i + 1
      BY <1>1, <2>1, <2>3
    <3>2. Moves(events, T[i], T[k])
      BY <1>1, <2>1, <3>1
    <3> QED  BY <1>3, <2>1, <3>1, <3>2, MovesGrow
  <2> QED  BY <2>2, <2>3
<1>8. ASSUME NEW i \in 0..m, NEW k \in 0..m, i < k PROVE Later(U[i], U[k])
  <2>1. i \in 0..n
    BY <1>1, <1>2, <1>8
  <2>2. CASE k = m
    <3>1. Later(T[i], v)
      <4>1. CASE i = n
        BY <1>5, <4>1
      <4>2. CASE i # n
        BY <1>1, <1>3, <1>5, <2>1, <4>2
      <4> QED  BY <4>1, <4>2
    <3> QED  BY <1>3, <2>1, <2>2, <3>1
  <2>3. CASE k # m
    BY <1>1, <1>3, <1>8, <2>1, <2>3
  <2> QED  BY <2>2, <2>3
<1>9. ASSUME NEW e \in DOMAIN grown, grown[e].type = "OUTPUT"
      PROVE  \E i \in 0..m : i < m /\ Ready(U[i]) /\ Context(U[i]) = grown[e].context
  <2>1. CASE e \in DOMAIN events
    <3>1. grown[e] = events[e]
      BY <2>1 DEF Grown
    <3>2. PICK i \in 0..n : i < n /\ Ready(T[i]) /\ Context(T[i]) = events[e].context
      BY <1>1, <1>9, <2>1, <3>1
    <3>3. i \in 0..m /\ i < m /\ U[i] = T[i]
      BY <1>1, <1>2, <1>3, <3>2
    <3> QED  BY <3>1, <3>2, <3>3
  <2>2. CASE Ready(T[n]) /\ Context(T[n]) = grown[e].context
    BY <1>1, <1>2, <1>3, <2>2
  <2> QED  BY <1>9, <2>1, <2>2
<1>10. Way(grown, m, U)
  BY <1>1, <1>3, <1>4, <1>6, <1>7, <1>8, <1>9 DEF Way
<1> QED  BY <1>2, <1>3, <1>10

\* Calls leave the way or begin it, and nothing is answered.
LEMMA Rests ==
    ASSUME NEW events, NEW works, NEW n, NEW T, AnswersOnce(events), Way(events, n, T),
           \A r \in Runs : OnWay(events, n, T, works[r]),
           NEW grown, Grown(events, grown),
           \A e \in DOMAIN grown \ DOMAIN events :
              grown[e].type # "OUTPUT" /\ grown[e].context = Blank,
           NEW next, \A r \in Runs : \/ next[r] = works[r] \/ next[r] = Fresh
                                     \/ next[r].at \in {"idle", "over", "committed"}
    PROVE  /\ AnswersOnce(grown) /\ Way(grown, n, T)
           /\ \A r \in Runs : OnWay(grown, n, T, next[r])
<1>1. /\ \A e \in DOMAIN events : e \in DOMAIN grown /\ grown[e] = events[e]
      /\ \A e \in DOMAIN grown : grown[e].type = "OUTPUT" => e \in DOMAIN events
  BY DEF Grown
<1>2. AnswersOnce(grown)
  BY <1>1 DEF AnswersOnce
<1>3. Way(grown, n, T)
  <2>1. \A i \in 0..n : i < n => Moves(grown, T[i], T[i + 1])
    BY MovesGrow DEF Way
  <2> QED  BY <1>1, <2>1 DEF Way
<1>4. ASSUME NEW r \in Runs PROVE OnWay(grown, n, T, next[r])
  <2>1. CASE next[r] = works[r]
    <3>1. OnWay(events, n, T, works[r])
      OBVIOUS
    <3>2. \A c : Unasked(events, c) => Unasked(grown, c)
      BY <1>1 DEF Unasked
    <3> QED  BY <2>1, <3>1, <3>2 DEF OnWay
  <2>2. CASE next[r] = Fresh
    <3>1. Fresh.at \notin Awaiting /\ T[0] = Fresh /\ 0 \in 0..n
      BY DEF Way, Fresh, Awaiting
    <3> QED  BY <2>2, <3>1 DEF OnWay
  <2>3. CASE next[r].at \in {"idle", "over", "committed"}
    BY <2>3 DEF OnWay
  <2> QED  BY <2>1, <2>2, <2>3
<1> QED  BY <1>2, <1>3, <1>4

\* One call goes a step, with an output of the journal or without one.
LEMMA Walks ==
    ASSUME NEW events, NEW works, NEW n, NEW T, AnswersOnce(events), Way(events, n, T),
           NEW r \in Runs, OnWay(events, n, T, works[r]),
           \A e \in DOMAIN events : events[e].type = "OUTPUT" => events[e].output \in OutputType,
           NEW v \in WorkType, v.at \notin Awaiting, Moves(events, works[r], v),
           NEW next, next[r] = v, \A s \in Runs \ {r} : next[s].at = "idle"
    PROVE  \E m, U : Way(events, m, U) /\ \A s \in Runs : OnWay(events, m, U, next[s])
<1> DEFINE w == works[r]
<1>1. \A m, U : \A s \in Runs \ {r} : OnWay(events, m, U, next[s])
  BY DEF OnWay
<1>2. n \in Nat /\ T \in [0..n -> WorkType] /\ \A i \in 0..n : Counted(T[i])
  BY DEF Way
<1>3. w.at \notin {"idle", "over", "committed"} /\ w.at \notin Awaiting
  BY DEF Moves, Takes, Goes, Ready, Awaiting
<1>4. PICK i \in 0..n : w = T[i]
  BY <1>3 DEF OnWay
<1>5. CASE i < n
  <2>1. PICK k \in 0..n : k = i + 1
    BY <1>2, <1>5
  <2>2. Moves(events, T[i], T[k])
    BY <1>5, <2>1 DEF Way
  <2>3. v = T[k]
    BY <1>2, <1>4, <2>2, Determined
  <2>4. OnWay(events, n, T, next[r])
    BY <2>3 DEF OnWay
  <2> QED  BY <1>1, <2>4
<1>6. CASE ~(i < n)
  <2>1. i = n /\ T[n] \in WorkType /\ Counted(T[n])
    BY <1>2, <1>6
  <2>2. Moves(events, T[n], v) /\ Progress(T[n], v) /\ Grown(events, events)
    BY <1>4, <2>1, MovesProgress DEF Grown
  <2>3. PICK U : Way(events, n + 1, U) /\ U[n + 1] = v
    BY <2>2, Extended
  <2>4. n + 1 \in 0..(n + 1)
    BY <1>2
  <2>5. OnWay(events, n + 1, U, next[r])
    BY <2>3, <2>4 DEF OnWay
  <2> QED  BY <1>1, <2>3, <2>5
<1> QED  BY <1>5, <1>6

\* A call that waits has the context it asked for, and goes on from there.
LEMMA AskedSame ==
    ASSUME NEW u \in WorkType, Ready(u), NEW w, w = [u EXCEPT !.at = Asking[@]],
           NEW output \in OutputType
    PROVE  Context(w) = Context(u) /\ After(w, output) = After(u, output)
<1>1. PICK at \in {"reviewing", "crossing", "correcting"} :
         /\ w = [u EXCEPT !.at = at]
         /\ \/ u.at = "review" /\ at = "reviewing"
            \/ u.at = "correct" /\ at = "correcting"
            \/ u.at = "cross" /\ at = "crossing"
  BY DEF Ready, Asking
<1>2. /\ w.at = at /\ w.next = u.next /\ w.batch = u.batch /\ w.version = u.version
      /\ w.count = u.count /\ w.decision = u.decision /\ w.cause = u.cause
      /\ w.steps = u.steps /\ w.reviews = u.reviews /\ w.corrections = u.corrections
      /\ w.status = u.status /\ w \in WorkType
  BY <1>1 DEF WorkType, Ats
<1>3. Context(w) = Context(u)
  BY <1>1, <1>2 DEF Context, ReviewOf, CrossOf, CorrectionOf
<1>4. \A status : Over(w, status) = Over(u, status)
  BY <1>1 DEF Over, WorkType
<1>5. CASE u.at = "review"
  <2>1. AfterReview(w, output) = AfterReview(u, output)
    <3>1. CASE output.verdict = "INVALID"
      BY <1>4, <3>1 DEF AfterReview
    <3>2. CASE output.verdict # "INVALID"
      <4> DEFINE d == [u.decision EXCEPT ![u.batch[u.next]] = output.verdict]
                 n == u.next + 1
      <4>1. AfterReview(w, output) = [w EXCEPT !.at = "review", !.decision = d, !.next = n]
        BY <1>2, <3>2 DEF AfterReview
      <4>2. AfterReview(u, output) = [u EXCEPT !.at = "review", !.decision = d, !.next = n]
        BY <3>2 DEF AfterReview
      <4> HIDE DEF d, n
      <4>3. [w EXCEPT !.at = "review", !.decision = d, !.next = n]
              = [u EXCEPT !.at = "review", !.decision = d, !.next = n]
        BY <1>1 DEF WorkType
      <4> QED  BY <4>1, <4>2, <4>3
    <3> QED  BY <3>1, <3>2
  <2>2. w.at = "reviewing"
    BY <1>1, <1>2, <1>5
  <2> QED  BY <1>3, <1>5, <2>1, <2>2 DEF After
<1>6. CASE u.at = "cross"
  <2>1. AfterCross(w, output) = AfterCross(u, output)
    <3>1. CASE output.verdict # "REVISE"
      BY <1>4, <3>1 DEF AfterCross
    <3>2. CASE output.verdict = "REVISE"
      <4> DEFINE c == [on |-> u.version, count |-> Largest(u.count)]
                 b == output.targets
      <4>1. AfterCross(w, output) = [w EXCEPT !.at = "judged", !.batch = b, !.cause = c]
        BY <1>2, <3>2 DEF AfterCross
      <4>2. AfterCross(u, output) = [u EXCEPT !.at = "judged", !.batch = b, !.cause = c]
        BY <3>2 DEF AfterCross
      <4> HIDE DEF c, b
      <4>3. [w EXCEPT !.at = "judged", !.batch = b, !.cause = c]
              = [u EXCEPT !.at = "judged", !.batch = b, !.cause = c]
        BY <1>1 DEF WorkType
      <4> QED  BY <4>1, <4>2, <4>3
    <3> QED  BY <3>1, <3>2
  <2>2. w.at = "crossing"
    BY <1>1, <1>2, <1>6
  <2> QED  BY <1>3, <1>6, <2>1, <2>2 DEF After
<1>7. CASE u.at = "correct"
  <2>1. AfterCorrection(w, output) = AfterCorrection(u, output)
    <3> DEFINE a == u.batch[u.next]
    <3>1. CASE output.verdict = "INVALID" \/ output.version = u.version[a]
      BY <1>2, <1>4, <3>1 DEF AfterCorrection
    <3>2. CASE ~(output.verdict = "INVALID" \/ output.version = u.version[a])
      <4> DEFINE x == [u.version EXCEPT ![a] = output.version]
                 c == [u.count EXCEPT ![a] = @ + 1]
                 d == [u.decision EXCEPT ![a] = "NONE"]
                 n == u.next + 1
      <4>1. AfterCorrection(w, output)
              = [w EXCEPT !.at = "correct", !.version = x, !.count = c, !.decision = d, !.next = n]
        BY <1>2, <3>2 DEF AfterCorrection
      <4>2. AfterCorrection(u, output)
              = [u EXCEPT !.at = "correct", !.version = x, !.count = c, !.decision = d, !.next = n]
        BY <3>2 DEF AfterCorrection
      <4> HIDE DEF x, c, d, n
      <4>3. [w EXCEPT !.at = "correct", !.version = x, !.count = c, !.decision = d, !.next = n]
              = [u EXCEPT !.at = "correct", !.version = x, !.count = c, !.decision = d, !.next = n]
        BY <1>1 DEF WorkType
      <4> QED  BY <4>1, <4>2, <4>3
    <3> QED  BY <3>1, <3>2
  <2>2. w.at = "correcting"
    BY <1>1, <1>2, <1>7
  <2> QED  BY <1>3, <1>7, <2>1, <2>2 DEF After
<1> QED  BY <1>1, <1>3, <1>5, <1>6, <1>7

\* The targets of a cross review are named once.
LEMMA AnswersDistinct == ASSUME NEW at, NEW output \in Answers(at) PROVE Distinct(output.targets)
<1> DEFINE nobody == <<>>
<1>1. /\ NoOutput = [verdict |-> "NONE", targets |-> nobody, version |-> NoVersion]
      /\ DOMAIN nobody = {}
  BY DEF NoOutput
<1> HIDE DEF nobody
<1>2. \/ output.targets = nobody
      \/ output.targets \in Targets
  BY <1>1 DEF Answers, Opinions, CrossOpinions, Corrections
<1>3. \A t \in Targets : Distinct(t)
  BY DEF Targets, Distinct
<1> QED  BY <1>1, <1>2, <1>3 DEF Distinct

\* The request is bound: what depends on it stays what it was.
LEMMA SameRequest ==
    ASSUME request' = request
    PROVE  /\ \A w : Ready(w)' <=> Ready(w)
           /\ \A w, output : After(w, output)' = After(w, output)
<1>1. \A w : Ready(w)' <=> Ready(w)
  BY DEF Ready, MayCorrect
<1>2. Completed' = Completed
  BY DEF Completed
<1>3. \A w, output : AfterCross(w, output)' = AfterCross(w, output)
  BY <1>2 DEF AfterCross
<1>4. \A w, output : After(w, output)' = After(w, output)
  BY <1>3 DEF After
<1> QED  BY <1>1, <1>4

\* What was shown with the old request is so of the new state, if the request is bound.
LEMMA SameWay ==
    ASSUME request' = request, AnswersOnce(journal'), NEW n, NEW T, Way(journal', n, T),
           \A r \in Runs : OnWay(journal', n, T, work'[r])
    PROVE  WayInv'
<1>1. \A w, v : Takes(journal, w, v)' <=> Takes(journal', w, v)
  BY SameRequest DEF Takes
<1>2. \A w, v : Moves(journal, w, v)' <=> Moves(journal', w, v)
  BY <1>1 DEF Moves
<1>3. Way(journal, n, T)'
  BY <1>2, SameRequest DEF Way
<1>4. \A r \in Runs : OnWay(journal, n, T, work[r])'
  BY SameRequest DEF OnWay, Unasked
<1> QED  BY <1>3, <1>4 DEF WayInv, AnswersOnce

\* Steps that leave the way or go to its start.
LEMMA RestsStep ==
    ASSUME ReviewInv, NEW r \in Runs,
           \/ Enter(r) \/ ReturnCommitted(r) \/ BudgetStop(r) \/ ExecutorFails(r)
           \/ CorrectionDenied(r) \/ Finish(r) \/ Deliver(r) \/ Cancel(r) \/ Crash
    PROVE  /\ request' = request /\ Grown(journal, journal')
           /\ \A e \in DOMAIN journal' \ DOMAIN journal :
                 journal'[e].type # "OUTPUT" /\ journal'[e].context = Blank
           /\ \A s \in Runs : \/ work'[s] = work[s] \/ work'[s] = Fresh
                              \/ work'[s].at \in {"idle", "over", "committed"}
<1>1. work \in [Runs -> WorkType] /\ IsList(journal)
  BY DEF ReviewInv, ShapeInv
<1>2. Idle.at = "idle"
  BY DEF Idle, Fresh
<1>3. \A s \in Runs : \A status : Over(work[s], status).at = "over"
  BY <1>1 DEF Over, WorkType
<1>4. CASE Enter(r)
  <2>1. CASE journal = <<>>
    <3>1. journal' = <<Prepared>> /\ Prepared.type = "PREPARED" /\ Prepared.context = Blank
      BY <1>4, <2>1 DEF Enter, Prepared
    <3>2. DOMAIN journal = {} /\ DOMAIN journal' = 1..1 /\ \A e \in 1..1 : journal'[e] = Prepared
      BY <2>1, <3>1
    <3> QED  BY <1>1, <1>4, <3>1, <3>2 DEF Enter, Grown
  <2>2. CASE journal # <<>>
    BY <1>1, <1>4, <2>2 DEF Enter, Grown
  <2> QED  BY <2>1, <2>2
<1>5. CASE Finish(r)
  <2>1. /\ request' = request /\ journal' = Append(journal, ResultEvent(work[r]))
        /\ work' = [work EXCEPT ![r].at = "committed"]
    BY <1>5 DEF Finish
  <2>2. ResultEvent(work[r]).type = "RESULT" /\ ResultEvent(work[r]).context = Blank
    BY DEF ResultEvent
  <2>3. \A s \in Runs : work'[s] = work[s] \/ work'[s].at = "committed"
    BY <1>1, <2>1 DEF WorkType
  <2>4. /\ Grown(journal, journal') /\ Len(journal) \in Nat /\ DOMAIN journal = 1..Len(journal)
        /\ DOMAIN journal' = 1..(Len(journal) + 1)
        /\ journal'[Len(journal) + 1] = ResultEvent(work[r])
    BY <1>1, <2>1, AppendIs DEF IsList
  <2>5. \A e \in DOMAIN journal' \ DOMAIN journal : e = Len(journal) + 1
    BY <2>4
  <2> QED  BY <2>1, <2>2, <2>3, <2>4, <2>5
<1>6. CASE BudgetStop(r) \/ ExecutorFails(r) \/ CorrectionDenied(r)
  BY <1>1, <1>3, <1>6 DEF BudgetStop, ExecutorFails, CorrectionDenied, Becomes, Grown
<1>7. CASE ReturnCommitted(r) \/ Deliver(r) \/ Cancel(r) \/ Crash
  BY <1>1, <1>2, <1>7 DEF ReturnCommitted, Deliver, Cancel, Crash, Grown
<1> QED  BY <1>4, <1>5, <1>6, <1>7

\* Steps that go along the way, and the judgement of a round that may end it.
LEMMA WalksStep ==
    ASSUME ReviewInv, NEW r \in Runs,
           \/ StartRound(r) \/ StartCross(r) \/ StartCorrection(r) \/ Corrected(r)
           \/ Replay(r) \/ Judge(r)
    PROVE  /\ request' = request /\ journal' = journal
           /\ \A s \in Runs \ {r} : work'[s] = work[s]
           /\ work'[r].at = "over" \/ Moves(journal, work[r], work'[r])
<1> DEFINE w == work[r]
<1>1. /\ work \in [Runs -> WorkType] /\ w \in WorkType /\ CallInv(journal, request.cross, w)
      /\ CacheInv(journal, outputs[r])
  BY DEF ReviewInv, ShapeInv
<1>2. /\ request' = request /\ journal' = journal
      /\ \A s \in Runs \ {r} : work'[s] = work[s]
  BY <1>1 DEF StartRound, StartCross, StartCorrection, Corrected, Replay, Judge, Becomes
<1>3. \A status : Over(w, status).at = "over"
  BY <1>1 DEF Over, WorkType
<1>4. CASE StartRound(r) \/ StartCross(r) \/ StartCorrection(r) \/ Corrected(r)
  <2>1. Goes(w, work'[r])
    BY <1>1, <1>4 DEF StartRound, StartCross, StartCorrection, Corrected, Becomes, Goes
  <2> QED  BY <1>2, <2>1 DEF Moves
<1>5. CASE Replay(r)
  <2> DEFINE output == outputs[r][Context(w)]
  <2>1. /\ Ready(w) /\ Context(w) \in DOMAIN outputs[r] /\ work'[r] = After(w, output)
    BY <1>1, <1>5 DEF Replay, Becomes
  <2>2. Holds(journal, Context(w), output)
    BY <1>1, <2>1 DEF CacheInv
  <2> HIDE DEF output
  <2>3. Takes(journal, w, work'[r])
    BY <2>1, <2>2 DEF Takes, Holds
  <2> QED  BY <1>2, <2>3 DEF Moves
<1>6. CASE Judge(r)
  <2> DEFINE decisions == {w.decision[w.batch[i]] : i \in DOMAIN w.batch}
             kept == Kept(w.batch, {a \in Assignments : w.decision[a] = "REVISE"})
  <2>1. /\ w.at = "review" /\ w.next > Len(w.batch)
        /\ \/ work'[r] = Over(w, Blocking(decisions))
           \/ /\ "REVISE" \in decisions
              /\ work'[r] = [w EXCEPT !.at = "judged", !.batch = kept, !.cause = NoCross]
           \/ /\ "REVISE" \notin decisions
              /\ \/ work'[r] = [w EXCEPT !.at = "toCross"]
                 \/ work'[r] = Over(w, Completed)
    BY <1>1, <1>6 DEF Judge, Becomes
  <2>2. work'[r].at = "over" \/ work'[r] = Judgement(w)
    BY <1>3, <2>1 DEF Judgement
  <2> QED  BY <1>2, <2>1, <2>2 DEF Goes, Moves
<1> QED  BY <1>4, <1>5, <1>6

\* A call asks at the end of the way: what was asked before is in its cache.
LEMMA AsksStep ==
    ASSUME ReviewInv, ~raced, WayInv, NEW r \in Runs, Ask(r)
    PROVE  WayInv'
<1> DEFINE w == work[r]
<1>1. SequentialInv /\ work \in [Runs -> WorkType] /\ w \in WorkType
  BY DEF ReviewInv, ShapeInv
<1>2. PICK n, T : Way(journal, n, T) /\ \A s \in Runs : OnWay(journal, n, T, work[s])
  BY DEF WayInv
<1>3. /\ Ready(w) /\ Context(w) \notin DOMAIN outputs[r]
      /\ request' = request /\ journal' = journal
      /\ work'[r] = [w EXCEPT !.at = Asking[@]] /\ \A s \in Runs \ {r} : work'[s] = work[s]
  BY <1>1 DEF Ask, Becomes
<1>4. w.at \in {"review", "correct", "cross"}
  BY <1>3 DEF Ready
<1>5. Unasked(journal, Context(w))
  BY <1>1, <1>3, <1>4 DEF SequentialInv, Unasked
<1>6. n \in Nat /\ T \in [0..n -> WorkType]
  BY <1>2 DEF Way
<1>7. PICK i \in 0..n : w = T[i]
  BY <1>2, <1>4 DEF OnWay, Awaiting
<1>8. i = n
  <2> SUFFICES ASSUME i < n PROVE FALSE
    BY <1>6
  <2>1. PICK v : Moves(journal, w, v)
    BY <1>2, <1>7 DEF Way
  <2>2. ~Takes(journal, w, v)
    BY <1>5 DEF Takes, Unasked
  <2>3. ~Goes(w, v)
    BY <1>1, <1>3 DEF Goes, Ready, WorkType
  <2> QED  BY <2>1, <2>2, <2>3 DEF Moves
<1>9. work'[r].at \in Awaiting
  BY <1>1, <1>3, <1>4 DEF Asking, Awaiting, WorkType
<1>10. OnWay(journal, n, T, work'[r])
  BY <1>3, <1>5, <1>7, <1>8, <1>9 DEF OnWay
<1>11. \A s \in Runs : OnWay(journal', n, T, work'[s])
  BY <1>2, <1>3, <1>10
<1> QED  BY <1>2, <1>3, <1>11, SameWay DEF WayInv

\* An executor returns, and the way goes on.
LEMMA ReturnsStep ==
    ASSUME ReviewInv, ReviewInv', ~raced, WayInv, NEW r \in Runs,
           NEW output \in Answers(work[r].at), Return(r, output)
    PROVE  WayInv'
<1> DEFINE w == work[r]
           e == OutputEvent(Context(w), output)
           m == Len(journal) + 1
<1>1. /\ SequentialInv /\ work \in [Runs -> WorkType] /\ w \in WorkType /\ IsList(journal)
      /\ AnswersOnce(journal)
  BY DEF ReviewInv, ShapeInv, WayInv
<1>2. PICK n, T : Way(journal, n, T) /\ \A s \in Runs : OnWay(journal, n, T, work[s])
  BY DEF WayInv
<1>3. /\ w.at \in Awaiting /\ request' = request /\ journal' = Append(journal, e)
      /\ work'[r] = After(w, output) /\ \A s \in Runs \ {r} : work'[s] = work[s]
  BY <1>1 DEF Return
<1>4. output \in OutputType /\ Distinct(output.targets)
  BY AnswersType, AnswersDistinct
<1>5. /\ Ready(T[n]) /\ w = [T[n] EXCEPT !.at = Asking[@]]
      /\ Unasked(journal, Context(T[n]))
  BY <1>2, <1>3 DEF OnWay, Awaiting
<1>6. PICK u \in WorkType : u = T[n] /\ Counted(u)
  BY <1>2 DEF Way
<1>7. Context(w) = Context(u) /\ work'[r] = After(u, output)
  BY <1>3, <1>4, <1>5, <1>6, AskedSame
<1>8. /\ Grown(journal, journal') /\ m \in DOMAIN journal' /\ journal'[m] = e
      /\ \A i \in DOMAIN journal' : i \in DOMAIN journal \/ i = m
      /\ \A i \in DOMAIN journal : journal'[i] = journal[i]
      /\ m \notin DOMAIN journal
  <2>1. Len(journal) \in Nat
    BY <1>1 DEF IsList
  <2> HIDE DEF e
  <2> QED  BY <1>1, <1>3, <2>1, AppendIs DEF Grown
<1>9. e.type = "OUTPUT" /\ e.context = Context(u) /\ e.output = output
  BY <1>7 DEF OutputEvent
<1> HIDE DEF e, m, w
<1>10. AnswersOnce(journal')
  <2>1. \A i \in DOMAIN journal : journal[i].type = "OUTPUT" => journal[i].context # e.context
    BY <1>5, <1>6, <1>9 DEF Unasked
  <2> QED  BY <1>1, <1>4, <1>8, <1>9, <2>1 DEF AnswersOnce
<1>11. PICK v \in WorkType : v = work'[r]
  BY DEF ReviewInv, ShapeInv
<1>12. Progress(u, v)
  BY <1>4, <1>5, <1>6, <1>7, <1>11, TakesProgress
<1>13. Moves(journal', T[n], v)
  BY <1>5, <1>6, <1>7, <1>8, <1>9, <1>11 DEF Moves, Takes
<1>14. \A i \in DOMAIN journal' : journal'[i].type = "OUTPUT" =>
          i \in DOMAIN journal \/ (Ready(T[n]) /\ Context(T[n]) = journal'[i].context)
  BY <1>5, <1>6, <1>8, <1>9
<1>15. PICK U : Way(journal', n + 1, U) /\ U[n + 1] = v
  BY <1>2, <1>6, <1>8, <1>12, <1>13, <1>14, Extended
<1>16. v.at \notin Awaiting
  BY <1>12 DEF Progress, Awaiting
<1>17. OnWay(journal', n + 1, U, work'[r])
  <2>1. n + 1 \in 0..(n + 1)
    BY <1>2 DEF Way
  <2> QED  BY <1>11, <1>15, <1>16, <2>1 DEF OnWay
<1>18. \A s \in Runs \ {r} : work'[s].at = "idle"
  BY <1>1, <1>3 DEF SequentialInv, Awaiting, w
<1>19. \A s \in Runs : OnWay(journal', n + 1, U, work'[s])
  BY <1>17, <1>18 DEF OnWay
<1> QED  BY <1>3, <1>10, <1>15, <1>19, SameWay

\* Each step that leaves the calls one after another keeps the way.
LEMMA WayStep ==
    ASSUME ReviewInv, ReviewInv', ~raced, WayInv, Next
    PROVE  WayInv'
<1>1. AnswersOnce(journal) /\ JournalInv(journal, request.cross) /\ SequentialInv
  BY DEF WayInv, ReviewInv
<1>2. PICK n, T : Way(journal, n, T) /\ \A r \in Runs : OnWay(journal, n, T, work[r])
  BY DEF WayInv
<1>3. ASSUME NEW r \in Runs,
             \/ Enter(r) \/ ReturnCommitted(r) \/ BudgetStop(r) \/ ExecutorFails(r)
             \/ CorrectionDenied(r) \/ Finish(r) \/ Deliver(r) \/ Cancel(r) \/ Crash
      PROVE  WayInv'
  <2> DEFINE next == work'
             grown == journal'
  <2>1. /\ request' = request /\ Grown(journal, grown)
        /\ \A e \in DOMAIN grown \ DOMAIN journal :
              grown[e].type # "OUTPUT" /\ grown[e].context = Blank
        /\ \A s \in Runs : \/ next[s] = work[s] \/ next[s] = Fresh
                           \/ next[s].at \in {"idle", "over", "committed"}
    BY <1>3, RestsStep
  <2>2. /\ AnswersOnce(grown) /\ Way(grown, n, T)
        /\ \A s \in Runs : OnWay(grown, n, T, next[s])
    <3> HIDE DEF next, grown
    <3> QED  BY <1>1, <1>2, <2>1, Rests
  <2> QED  BY <2>1, <2>2, SameWay
<1>4. ASSUME NEW r \in Runs,
             \/ StartRound(r) \/ StartCross(r) \/ StartCorrection(r) \/ Corrected(r)
             \/ Replay(r) \/ Judge(r)
      PROVE  WayInv'
  <2>1. /\ request' = request /\ journal' = journal
        /\ \A s \in Runs \ {r} : work'[s] = work[s]
        /\ work'[r].at = "over" \/ Moves(journal, work[r], work'[r])
    BY <1>4, WalksStep
  <2>2. work[r].at # "idle"
    BY <1>4 DEF StartRound, StartCross, StartCorrection, Corrected, Replay, Judge, Ready
  <2>3. \A s \in Runs \ {r} : work'[s].at = "idle"
    BY <1>1, <2>1, <2>2 DEF SequentialInv
  <2>4. CASE work'[r].at = "over"
    <3>1. \A s \in Runs : OnWay(journal', n, T, work'[s])
      BY <2>3, <2>4 DEF OnWay
    <3> QED  BY <1>1, <1>2, <2>1, <3>1, SameWay
  <2>5. CASE Moves(journal, work[r], work'[r])
    <3>1. PICK v \in WorkType : v = work'[r]
      BY DEF ReviewInv, ShapeInv
    <3>2. v.at \notin Awaiting
      <4>1. Quiet
        BY <1>4, Moved, Replayed, Judged
      <4>2. work[r].at \notin Awaiting
        BY <2>5 DEF Moves, Takes, Goes, Ready, Awaiting
      <4> QED  BY <3>1, <4>1, <4>2 DEF Quiet
    <3> DEFINE next == work'
               works == work
    <3>3. /\ next[r] = v /\ \A s \in Runs \ {r} : next[s].at = "idle"
      BY <2>3, <3>1
    <3>4. \A e \in DOMAIN journal : journal[e].type = "OUTPUT" => journal[e].output \in OutputType
      BY <1>1 DEF JournalInv
    <3>5. OnWay(journal, n, T, works[r]) /\ Moves(journal, works[r], v)
      BY <1>2, <2>5, <3>1
    <3>6. \E m, U : Way(journal, m, U) /\ \A s \in Runs : OnWay(journal, m, U, next[s])
      <4> HIDE DEF next, works
      <4> QED  BY <1>1, <1>2, <3>2, <3>3, <3>4, <3>5, Walks
    <3> QED  BY <1>1, <2>1, <3>6, SameWay
  <2> QED  BY <2>1, <2>4, <2>5
<1>5. ASSUME NEW r \in Runs, Turn(r) PROVE WayInv'
  BY <1>3, <1>4, <1>5, AsksStep, ReturnsStep DEF Turn, Step
<1>6. CASE Crash
  <2>1. PICK r \in Runs : work[r].at # "idle"
    BY <1>6 DEF Crash
  <2> QED  BY <1>3, <1>6, <2>1
<1> QED  BY <1>5, <1>6 DEF Next

\* At first the way is its start.
LEMMA WayInit == ReviewInv /\ Init => WayInv
<1> SUFFICES ASSUME ReviewInv, Init PROVE WayInv
  OBVIOUS
<1> DEFINE T == [i \in 0..0 |-> Fresh]
<1>1. T \in [0..0 -> WorkType] /\ T[0] = Fresh /\ 0 \in 0..0 /\ \A i \in 0..0 : i = 0
  BY FreshType
<1>2. DOMAIN journal = {}
  BY DEF Init
<1>3. Counted(Fresh)
  <2> DEFINE f == [i \in DOMAIN Order |-> Order[i]]
             N == Len(Order)
  <2>1. /\ Order \in Seq(Assignments) /\ N \in Nat /\ DOMAIN Order = 1..N
        /\ Cardinality(Assignments) = N
    BY ReviewAssumption
  <2>2. f \in Surjection(1..N, Assignments)
    BY <2>1 DEF Surjection, Assignments
  <2> HIDE DEF N, f
  <2>3. IsFiniteSet(1..N) /\ Cardinality(1..N) = N
    BY <2>1, FS_Interval
  <2>4. f \in Injection(1..N, Assignments)
    BY <2>1, <2>2, <2>3, FS_SurjSameCardinalityImpliesInj
  <2>5. Distinct(Order)
    BY <2>1, <2>4 DEF Injection, IsInjective, Distinct, f
  <2>6. 0 <= ReviewLimit /\ 0 <= CorrectionLimit
    BY ReviewAssumption
  <2> QED  BY <2>5, <2>6 DEF Counted, Fresh
<1> HIDE DEF T
<1>4. Way(journal, 0, T)
  BY <1>1, <1>2, <1>3 DEF Way
<1>5. AnswersOnce(journal)
  BY <1>2 DEF AnswersOnce
<1>6. \A r \in Runs : OnWay(journal, 0, T, work[r])
  BY DEF Init, Idle, Fresh, OnWay
<1> QED  BY <1>4, <1>5, <1>6 DEF WayInv

\* As long as calls follow one another, every step keeps the way.
LEMMA WayKeeps == ReviewInv /\ (~raced => WayInv) /\ [Next]_vars => (~raced => WayInv)'
<1> SUFFICES ASSUME ReviewInv, ~raced => WayInv, [Next]_vars, ~raced' PROVE WayInv'
  OBVIOUS
<1>1. ReviewInv'
  BY StepKeeps
<1>2. ~raced
  BY DEF vars, Next, Turn, Step, Enter, ReturnCommitted, Cancel, Crash, BudgetStop, StartRound, Ask,
         Replay, Return, ExecutorFails, Judge, StartCross, StartCorrection, CorrectionDenied,
         Corrected, Finish, Deliver, Becomes
<1>3. CASE Next
  BY <1>1, <1>2, <1>3, WayStep
<1>4. CASE UNCHANGED vars
  <2>1. PICK n, T : Way(journal, n, T) /\ \A r \in Runs : OnWay(journal, n, T, work[r])
    BY <1>2 DEF WayInv
  <2> QED  BY <1>2, <1>4, <2>1, SameWay DEF vars, WayInv
<1> QED  BY <1>3, <1>4

\* As many events as there are numbers they can have, if no two have the same.
LEMMA Numbered ==
    ASSUME NEW k \in Nat, NEW S \in SUBSET (1..k), NEW L \in Nat, NEW f,
           \A e \in S : f[e] \in 1..L,
           \A d, e \in S : d # e => f[d] # f[e]
    PROVE  Cardinality(S) <= L
<1> DEFINE g == [e \in S |-> f[e]]
<1>1. g \in Injection(S, 1..L)
  BY DEF Injection, IsInjective
<1>2. IsFiniteSet(1..L) /\ Cardinality(1..L) = L
  BY FS_Interval
<1> QED  BY <1>1, <1>2, FS_Injection

\* What a step asks for: the kind of its context, and the assignment it is about.
LEMMA ContextIs ==
    ASSUME NEW w \in WorkType, Ready(w)
    PROVE  /\ Context(w).kind = "REVIEW" <=> w.at = "review"
           /\ Context(w).kind = "CROSS" <=> w.at = "cross"
           /\ Context(w).kind = "CORRECTION" <=> w.at = "correct"
           /\ \A a \in Assignments :
                 w.at # "cross" /\ Context(w).on[a] # NoVersion => w.batch[w.next] = a
           /\ w.at # "cross" => w.next \in DOMAIN w.batch
<1>1. CASE w.at = "review"
  BY <1>1 DEF Ready, Context, ReviewOf, None, WorkType
<1>2. CASE w.at = "cross"
  BY <1>2 DEF Context, CrossOf
<1>3. CASE w.at = "correct"
  BY <1>3 DEF Ready, Context, CorrectionOf, None, WorkType
<1> QED  BY <1>1, <1>2, <1>3 DEF Ready

\* On the way, an assignment is reviewed once in a round and corrected once in a
\* round of corrections, and the combination reviewed once in a round.
LEMMA WayBounds ==
    ASSUME ReviewInv, WayInv, NEW a \in Assignments, NEW kind \in {"REVIEW", "CROSS", "CORRECTION"}
    PROVE  Cardinality({e \in DOMAIN journal : /\ journal[e].context.kind = kind
                                              /\ journal[e].context.on[a] # NoVersion})
              <= IF kind = "CORRECTION" THEN CorrectionLimit ELSE ReviewLimit
<1> DEFINE S == {e \in DOMAIN journal : /\ journal[e].context.kind = kind
                                        /\ journal[e].context.on[a] # NoVersion}
           L == IF kind = "CORRECTION" THEN CorrectionLimit ELSE ReviewLimit
<1>1. PICK n, T : Way(journal, n, T)
  BY DEF WayInv
<1> DEFINE About(i, e) == i < n /\ Ready(T[i]) /\ Context(T[i]) = journal[e].context
           g == [e \in S |-> CHOOSE i \in 0..n : About(i, e)]
           f == [e \in S |-> IF kind = "CORRECTION" THEN T[g[e]].corrections ELSE T[g[e]].reviews]
<1>2. Len(journal) \in Nat /\ DOMAIN journal = 1..Len(journal) /\ L \in Nat
  BY ReviewAssumption DEF ReviewInv, ShapeInv, IsList
<1>3. ASSUME NEW e \in S
      PROVE  g[e] \in 0..n /\ About(g[e], e)
  <2>1. journal[e].type = "OUTPUT"
    BY DEF WayInv, AnswersOnce, Blank
  <2>2. \E i \in 0..n : About(i, e)
    BY <1>1, <2>1 DEF Way
  <2> HIDE DEF About
  <2> QED  BY <2>2
<1> DEFINE at == IF kind = "CORRECTION" THEN "correct" ELSE IF kind = "CROSS" THEN "cross" ELSE "review"
<1> HIDE DEF g
<1>4. ASSUME NEW e \in S
      PROVE  /\ T[g[e]] \in WorkType /\ Counted(T[g[e]]) /\ T[g[e]].at = at
             /\ at # "cross" => /\ T[g[e]].batch[T[g[e]].next] = a
                                /\ T[g[e]].next \in DOMAIN T[g[e]].batch
  <2> DEFINE w == T[g[e]]
  <2>1. w \in WorkType /\ Counted(w) /\ Ready(w) /\ Context(w) = journal[e].context
    BY <1>1, <1>3 DEF Way
  <2>2. Context(w).kind = kind /\ Context(w).on[a] # NoVersion
    BY <2>1
  <2> HIDE DEF w
  <2>3. w.at = at /\ (at # "cross" => w.batch[w.next] = a /\ w.next \in DOMAIN w.batch)
    BY <2>1, <2>2, ContextIs
  <2> QED  BY <2>1, <2>3 DEF w
<1>5. \A e \in S : f[e] \in 1..L
  <2> SUFFICES ASSUME NEW e \in S PROVE f[e] \in 1..L
    OBVIOUS
  <2> DEFINE w == T[g[e]]
  <2>1. w \in WorkType /\ Counted(w) /\ w.at = at
    BY <1>4
  <2>2. f[e] = IF kind = "CORRECTION" THEN w.corrections ELSE w.reviews
    OBVIOUS
  <2> HIDE DEF f, w
  <2> QED  BY <2>1, <2>2, ReviewAssumption DEF Counted, WorkType
<1>6. ASSUME NEW d \in S, NEW e \in S, g[d] < g[e] PROVE f[d] # f[e]
  <2>1. Later(T[g[d]], T[g[e]])
    BY <1>1, <1>3, <1>6 DEF Way
  <2> DEFINE u == T[g[d]]
             w == T[g[e]]
  <2>2. /\ u.at = at /\ w.at = at /\ Counted(u)
        /\ at # "cross" => /\ u.batch[u.next] = a /\ u.next \in DOMAIN u.batch
                           /\ w.batch[w.next] = a /\ w.next \in DOMAIN w.batch
    BY <1>4
  <2>3. u.next \in Nat /\ w.next \in Nat
    BY <1>4 DEF WorkType
  <2> HIDE DEF u, w
  <2>4. IF kind = "CORRECTION" THEN u.corrections # w.corrections ELSE u.reviews # w.reviews
    BY <2>1, <2>2, <2>3 DEF Later, Counted, Distinct, u, w
  <2> QED  BY <2>4 DEF u, w
<1>7. \A d, e \in S : d # e => f[d] # f[e]
  <2> SUFFICES ASSUME NEW d \in S, NEW e \in S, d # e PROVE f[d] # f[e]
    OBVIOUS
  <2>1. journal[d].type = "OUTPUT" /\ journal[e].type = "OUTPUT"
    BY DEF WayInv, AnswersOnce, Blank
  <2>2. journal[d].context # journal[e].context
    BY <2>1 DEF WayInv, AnswersOnce
  <2>3. g[d] # g[e] /\ g[d] \in Int /\ g[e] \in Int
    BY <1>1, <1>3, <2>2 DEF Way
  <2>4. g[d] < g[e] \/ g[e] < g[d]
    BY <2>3
  <2> QED  BY <1>6, <2>4
<1> HIDE DEF f, S, L
<1>8. S \in SUBSET (1..Len(journal))
  BY <1>2 DEF S
<1>9. Cardinality(S) <= L
  BY <1>2, <1>5, <1>7, <1>8, Numbered
<1> QED  BY <1>9 DEF S, L

\* The budget bounds the work of all calls of a review together, as long as they
\* follow one another: however often it is cut off and called again, an assignment
\* is reviewed and corrected no more often than one uninterrupted call could.
THEOREM SequentialBound == Spec => []SequentialWorkIsBounded
<1>1. ReviewInv /\ (~raced => WayInv) => SequentialWorkIsBounded
  BY WayBounds DEF SequentialWorkIsBounded
<1>2. Init => (~raced => WayInv)
  BY InitKeeps, WayInit
<1>3. ReviewInv /\ (~raced => WayInv) /\ [Next]_vars => (~raced => WayInv)'
  BY WayKeeps
<1> QED  BY <1>1, <1>2, <1>3, InvariantHolds, PTL DEF Spec

\* A review that is cut off and called again is one review: one result, within one
\* budget.
THEOREM OneReview == Spec => []SequentialReviewIsOne
<1>1. SequentialResultIsUnique /\ SequentialWorkIsBounded => SequentialReviewIsOne
  BY DEF SequentialReviewIsOne
<1> QED  BY <1>1, SequentialUniqueness, SequentialBound, PTL

=============================================================================
