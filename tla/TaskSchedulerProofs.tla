------------------------ MODULE TaskSchedulerProofs ------------------------
(***************************************************************************)
(* Proofs about TaskScheduler: waves, batches and slots are sound for any   *)
(* number of schedules that share one guard, for any plans _validate        *)
(* accepts, and whatever is cancelled or aborted meanwhile.                 *)
(***************************************************************************)
EXTENDS TaskScheduler, FiniteSetTheorems, TLAPS

Submitted == {p \in Plans : Valid(p)}

-----------------------------------------------------------------------------
(* Plans.                                                                   *)

\* What _validate establishes of an accepted plan.
LEMMA PlanShape ==
    ASSUME NEW p \in Submitted
    PROVE  /\ p \in PlanType /\ Len(p.order) \in 1..4
           /\ DOMAIN p.order = 1..Len(p.order)
           /\ Items(p) \subseteq Assignments /\ IsFiniteSet(Items(p))
           /\ \A a \in Items(p) : p.deps[a] \subseteq Items(p)
           /\ p # NoPlan
<1>1. p \in PlanType /\ Len(p.order) \in 1..4 /\ p # NoPlan
      /\ \A a \in Items(p) : p.deps[a] \subseteq Items(p)
  BY SchedulerAssumption DEF Submitted, Valid
<1>2. DOMAIN p.order = 1..Len(p.order) /\ Items(p) \subseteq Assignments
  BY <1>1 DEF PlanType, Items
<1>3. IsFiniteSet(Items(p))
  BY <1>2, FS_Subset, SchedulerAssumption
<1> QED  BY <1>1, <1>2, <1>3

\* The limit of a batch is positive, and it is the policy's for a plan with a
\* professional assignment.
LEMMA BatchLimit ==
    ASSUME NEW p \in Submitted
    PROVE  /\ ActiveLimit(p) \in Nat /\ ActiveLimit(p) >= 1
           /\ \A a \in Items(p) : a \notin p.general => ActiveLimit(p) = PolicyOf(p).active
<1>1. p.order[1] \in Items(p)
  <2>1. 1 \in DOMAIN p.order
    BY PlanShape
  <2> QED  BY <2>1 DEF Items
<1>2. CASE p.general \cap Items(p) # {} /\ Len(p.order) = 1
  <2>1. Items(p) = {p.order[1]}
    BY <1>2, PlanShape DEF Items
  <2> QED  BY <1>2, <2>1 DEF ActiveLimit, IsGeneral
<1>3. CASE p.general \cap Items(p) = {} /\ PolicyOf(p).active \in 1..HardCeiling
  BY <1>1, <1>3, SchedulerAssumption DEF ActiveLimit, IsGeneral
<1> QED  BY <1>2, <1>3 DEF Submitted, Valid

\* The rounds of _topological_waves: each adds what its predecessors allow.
LEMMA Rounds ==
    ASSUME NEW p \in Submitted
    PROVE  /\ ResolvedAfter(p)[0] = {}
           /\ \A n \in 1..Len(p.order) :
                 ResolvedAfter(p)[n] = ResolvedAfter(p)[n - 1]
                     \cup {a \in Items(p) : p.deps[a] \subseteq ResolvedAfter(p)[n - 1]}
<1> DEFINE Add(r) == r \cup {a \in Items(p) : p.deps[a] \subseteq r}
           Is(f) == f = [n \in 0..Len(p.order) |-> IF n = 0 THEN {} ELSE Add(f[n - 1])]
<1>1. PICK L \in 1..4 : L = Len(p.order)
  BY PlanShape
<1> HIDE DEF Add
<1>2. \E f : Is(f)
  <2> DEFINE r1 == Add({})
             r2 == Add(r1)
             r3 == Add(r2)
             r4 == Add(r3)
             g == [n \in 0..L |-> IF n = 0 THEN {} ELSE IF n = 1 THEN r1
                                  ELSE IF n = 2 THEN r2 ELSE IF n = 3 THEN r3 ELSE r4]
             h == [n \in 0..L |-> IF n = 0 THEN {} ELSE Add(g[n - 1])]
  <2>1. ASSUME NEW n \in 0..L PROVE g[n] = h[n]
    <3>1. CASE n = 0  BY <3>1
    <3>2. CASE n = 1
      <4>1. g[0] = {} /\ g[1] = r1  BY <3>2
      <4> QED  BY <3>2, <4>1
    <3>3. CASE n = 2
      <4>1. g[1] = r1 /\ g[2] = r2  BY <3>3
      <4> QED  BY <3>3, <4>1
    <3>4. CASE n = 3
      <4>1. g[2] = r2 /\ g[3] = r3  BY <3>4
      <4> QED  BY <3>4, <4>1
    <3>5. CASE n = 4
      <4>1. g[3] = r3 /\ g[4] = r4  BY <3>5
      <4> QED  BY <3>5, <4>1
    <3> QED  BY <3>1, <3>2, <3>3, <3>4, <3>5
  <2>2. g = h
    BY <2>1
  <2> QED  BY <1>1, <2>2
<1>3. ResolvedAfter(p) = CHOOSE f : Is(f)
  BY DEF ResolvedAfter, Add
<1> HIDE DEF Is
<1>4. Is(ResolvedAfter(p))
  BY <1>2, <1>3
<1> DEFINE R == ResolvedAfter(p)
<1>5. R = [n \in 0..L |-> IF n = 0 THEN {} ELSE Add(R[n - 1])]
  BY <1>1, <1>4 DEF Is
<1> HIDE DEF R
<1>6. R[0] = {} /\ \A n \in 1..L : R[n] = Add(R[n - 1])
  <2> DEFINE G == [n \in 0..L |-> IF n = 0 THEN {} ELSE Add(R[n - 1])]
  <2>1. \A n \in 0..L : G[n] = IF n = 0 THEN {} ELSE Add(R[n - 1])
    OBVIOUS
  <2>2. R = G
    BY <1>5
  <2> HIDE DEF G
  <2> QED  BY <2>1, <2>2
<1> QED  BY <1>1, <1>6 DEF Add, R

\* The rounds only grow, up to all assignments.
LEMMA RoundsGrow ==
    ASSUME NEW p \in Submitted,
           NEW m \in 0..Len(p.order), NEW n \in 0..Len(p.order), m <= n
    PROVE  ResolvedAfter(p)[m] \subseteq ResolvedAfter(p)[n]
<1> DEFINE R == ResolvedAfter(p)
<1>1. PICK L \in 1..4 : L = Len(p.order)
  BY PlanShape
<1>2. \A k \in 1..L : R[k - 1] \subseteq R[k]
  BY <1>1, Rounds
<1> HIDE DEF R
<1>3. /\ L >= 1 => R[0] \subseteq R[1]
      /\ L >= 2 => R[1] \subseteq R[2]
      /\ L >= 3 => R[2] \subseteq R[3]
      /\ L >= 4 => R[3] \subseteq R[4]
  <2>1. L >= 1 => R[1 - 1] \subseteq R[1]  BY <1>2
  <2>2. L >= 2 => R[2 - 1] \subseteq R[2]  BY <1>2
  <2>3. L >= 3 => R[3 - 1] \subseteq R[3]  BY <1>2
  <2>4. L >= 4 => R[4 - 1] \subseteq R[4]  BY <1>2
  <2> QED  BY <2>1, <2>2, <2>3, <2>4
<1>4. m \in {0, 1, 2, 3, 4} /\ n \in {0, 1, 2, 3, 4} /\ n <= L
  <2>1. m \in 0..L /\ n \in 0..L
    BY <1>1, Zenon
  <2> QED  BY <2>1
<1>5. R[m] \subseteq R[n]
  BY <1>3, <1>4
<1> QED  BY <1>5 DEF R

\* Every assignment of an accepted plan has a wave, after those of its
\* prerequisites.
LEMMA WaveOrder ==
    ASSUME NEW p \in Submitted, NEW a \in Items(p)
    PROVE  /\ Wave(p, a) \in 1..Len(p.order)
           /\ \A d \in p.deps[a] : Wave(p, d) < Wave(p, a)
<1> DEFINE R == ResolvedAfter(p)
           L == Len(p.order)
<1>1. L \in 1..4 /\ R[L] = Items(p) /\ R[0] = {}
  BY PlanShape, Rounds DEF Submitted, Valid
<1>2. ASSUME NEW b \in Items(p)
      PROVE  /\ Wave(p, b) \in 1..L
             /\ b \in R[Wave(p, b)] /\ b \notin R[Wave(p, b) - 1]
  <2>1. \E n \in 1..L : b \in R[n] \ R[n - 1]
    <3> HIDE DEF R, L
    <3>1. b \in R[L] /\ b \notin R[0]
      BY <1>1, <1>2
    <3>2. CASE \A n \in 1..L : b \in R[n] => b \in R[n - 1]
      <4>1. L >= 4 /\ b \in R[4] => b \in R[3]
        <5>1. L >= 4 /\ b \in R[4] => b \in R[4 - 1]  BY <1>1, <3>2
        <5> QED  BY <5>1
      <4>2. L >= 3 /\ b \in R[3] => b \in R[2]
        <5>1. L >= 3 /\ b \in R[3] => b \in R[3 - 1]  BY <1>1, <3>2
        <5> QED  BY <5>1
      <4>3. L >= 2 /\ b \in R[2] => b \in R[1]
        <5>1. L >= 2 /\ b \in R[2] => b \in R[2 - 1]  BY <1>1, <3>2
        <5> QED  BY <5>1
      <4>4. L >= 1 /\ b \in R[1] => b \in R[0]
        <5>1. L >= 1 /\ b \in R[1] => b \in R[1 - 1]  BY <1>1, <3>2
        <5> QED  BY <5>1
      <4>5. L = 1 \/ L = 2 \/ L = 3 \/ L = 4
        BY <1>1
      <4> QED  BY <3>1, <4>1, <4>2, <4>3, <4>4, <4>5
    <3> QED  BY <3>2
  <2> QED  BY <2>1 DEF Wave
<1>3. Wave(p, a) \in 1..L /\ a \in R[Wave(p, a)]
  BY <1>2
<1>4. ASSUME NEW d \in p.deps[a]
      PROVE  Wave(p, d) < Wave(p, a)
  <2>1. d \in Items(p)
    BY PlanShape
  <2> DEFINE n == Wave(p, a)
             k == Wave(p, d)
  <2>2. p.deps[a] \subseteq R[n - 1]
    <3>1. a \notin R[n - 1]
      BY <1>2
    <3> QED  BY <1>3, <3>1, Rounds
  <2>3. k \in 1..L /\ d \notin R[k - 1] /\ d \in R[n - 1]
    BY <1>2, <2>1, <2>2
  <2>4. CASE k >= n
    <3>1. n - 1 \in 0..L /\ k - 1 \in 0..L /\ n - 1 <= k - 1
      BY <1>1, <1>3, <2>3, <2>4
    <3>2. R[n - 1] \subseteq R[k - 1]
      BY <3>1, RoundsGrow
    <3> QED  BY <2>3, <3>2
  <2> QED  BY <1>1, <1>3, <2>3, <2>4
<1> QED  BY <1>3, <1>4

\* A slice of n members has at most n.
LEMMA SliceBound ==
    ASSUME NEW p \in Submitted, NEW set \in SUBSET Items(p), NEW n \in Nat
    PROVE  /\ FirstOf(p, set, n) \subseteq set
           /\ IsFiniteSet(FirstOf(p, set, n))
           /\ Cardinality(FirstOf(p, set, n)) <= n
<1> DEFINE Before(j) == {k \in 1..(j - 1) : p.order[k] \in set}
           J == {j \in DOMAIN p.order : p.order[j] \in set /\ Cardinality(Before(j)) < n}
           f == [j \in J |-> p.order[j]]
<1>1. FirstOf(p, set, n) = {p.order[j] : j \in J}
  BY DEF FirstOf
<1>2. FirstOf(p, set, n) \subseteq set
  BY <1>1
<1>3. J \subseteq 1..Len(p.order) /\ Len(p.order) \in 1..4
  BY PlanShape
<1>4. J \in SUBSET (1..4)
  BY <1>3
<1>5. IsFiniteSet(J) /\ Cardinality(J) \in Nat
  <2>1. IsFiniteSet(1..Len(p.order))
    BY <1>3, FS_Interval
  <2> HIDE DEF J
  <2> QED  BY <1>3, <2>1, FS_Subset, FS_CardinalityType
<1>6. Cardinality(J) <= n
  <2>1. CASE J = {}
    <3> HIDE DEF J
    <3> QED  BY <2>1, FS_EmptySet
  <2>2. CASE J # {}
    <3>1. PICK m \in J : \A j \in J : j <= m
      <4> HIDE DEF J
      <4>1. CASE 4 \in J  BY <1>4, <4>1
      <4>2. CASE 4 \notin J /\ 3 \in J  BY <1>4, <4>2
      <4>3. CASE 4 \notin J /\ 3 \notin J /\ 2 \in J  BY <1>4, <4>3
      <4>4. CASE 4 \notin J /\ 3 \notin J /\ 2 \notin J /\ 1 \in J  BY <1>4, <4>4
      <4>5. PICK x \in J : TRUE
        BY <2>2
      <4>6. x \in 1..4
        BY <1>4
      <4>7. x = 1 \/ x = 2 \/ x = 3 \/ x = 4
        BY <4>6
      <4> QED  BY <4>1, <4>2, <4>3, <4>4, <4>7
    <3>2. Cardinality(Before(m)) < n /\ m \in 1..4
      BY <1>4
    <3>3. J \ {m} \in SUBSET Before(m)
      <4>1. \A j \in J \ {m} : j \in 1..(m - 1) /\ p.order[j] \in set
        <5>1. \A j \in J : p.order[j] \in set /\ j \in 1..4
          BY <1>4
        <5> HIDE DEF J, Before
        <5> QED  BY <3>1, <3>2, <5>1
      <4> QED  BY <4>1
    <3>4. IsFiniteSet(Before(m))
      <4>1. IsFiniteSet(1..(m - 1))
        BY <3>2, FS_Interval
      <4> QED  BY <4>1, FS_Subset
    <3> HIDE DEF Before, J
    <3>5. Cardinality(J \ {m}) <= Cardinality(Before(m)) /\ Cardinality(Before(m)) \in Nat
      BY <3>3, <3>4, FS_Subset, FS_CardinalityType
    <3>6. Cardinality(J \ {m}) = Cardinality(J) - 1
      BY <1>5, FS_RemoveElement
    <3> QED  BY <1>5, <3>2, <3>5, <3>6
  <2> QED  BY <2>1, <2>2
<1>7. f \in Surjection(J, FirstOf(p, set, n))
  <2> HIDE DEF J
  <2> QED  BY <1>1 DEF Surjection
<1>8. IsFiniteSet(FirstOf(p, set, n)) /\ Cardinality(FirstOf(p, set, n)) <= Cardinality(J)
  BY <1>5, <1>7, FS_Surjection
<1>9. Cardinality(FirstOf(p, set, n)) \in Nat
  BY <1>8, FS_CardinalityType
<1> HIDE DEF J
<1> QED  BY <1>2, <1>5, <1>6, <1>8, <1>9

\* A slice of one has at most one member.
LEMMA SliceOfOne ==
    ASSUME NEW p \in Submitted, NEW set \in SUBSET Items(p),
           NEW a \in FirstOf(p, set, 1), NEW b \in FirstOf(p, set, 1)
    PROVE  a = b
<1> DEFINE C == FirstOf(p, set, 1)
<1>1. IsFiniteSet(C) /\ Cardinality(C) <= 1 /\ Cardinality(C) \in Nat
  BY SliceBound, FS_CardinalityType
<1>2. C # {}
  OBVIOUS
<1> HIDE DEF C
<1>3. Cardinality(C) = 1
  BY <1>1, <1>2, FS_EmptySet
<1>4. PICK x : C = {x}
  BY <1>1, <1>3, FS_Singleton
<1> QED  BY <1>4 DEF C

-----------------------------------------------------------------------------
(* The inductive invariant, schedule by schedule: pl, p, c, w, st and la are  *)
(* a schedule's place, plan, cancelled assignments, wave, states, launches.  *)

Unfinished == {"runnable", "launching", "running"}

Busy(p, st) == {a \in Items(p) : st[a] \in {"launching", "running"}}

Slotted(p, a) == GuardPolicy # NoGuard /\ a \notin p.general

\* What is submitted is accepted, and nothing happens before the execution.
PlaceInv(pl, p, c, w, st, la) ==
    /\ pl = "absent" <=> p = NoPlan
    /\ pl = "absent" => c = {}
    /\ pl \in {"absent", "queued"} =>
          w = 0 /\ \A a \in Assignments : st[a] = "none" /\ la[a] = 0

\* The waves entered are those whose assignments were reached.
ReachedInv(pl, p, w, st) ==
    /\ \A a \in Assignments : p = NoPlan \/ a \notin Items(p) => st[a] = "none"
    /\ pl = "executing" => \A a \in Items(p) : st[a] # "none" <=> Wave(p, a) <= w
    /\ pl # "executing" => \A a \in Assignments : st[a] \notin Unfinished
    /\ pl = "terminal" => \A a \in Items(p) : st[a] \in Final

\* An assignment is started after its prerequisites and launched once.
LaunchInv(pl, p, c, st, la) ==
    /\ \A a \in Assignments :
          st[a] \in Unfinished \/ la[a] = 1 =>
              p # NoPlan /\ a \in Items(p) /\ \A d \in p.deps[a] : st[d] = "COMPLETED"
    /\ \A a \in Assignments : st[a] \in {"runnable", "launching"} => la[a] = 0
    /\ pl = "executing" => \A a \in Assignments : st[a] = "none" => la[a] = 0
    /\ \A a \in Assignments : st[a] \in {"running", "COMPLETED"} => la[a] = 1
    /\ \A a \in c : st[a] \in {"none", "CANCELLED"} /\ la[a] = 0
    /\ \A a \in Assignments : st[a] = "BLOCKED" /\ la[a] = 0 =>
          \/ Slotted(p, a)
          \/ \E d \in p.deps[a] : st[d] \in Final \ {"COMPLETED"}

\* A batch fits its limit, and a mutating assignment is one of its own.
BatchInv(p, st) ==
    p # NoPlan =>
        /\ Cardinality(Busy(p, st)) <= ActiveLimit(p)
        /\ \A a \in Busy(p, st) : a \in p.mutating => Busy(p, st) = {a}

ScheduleInv(pl, p, c, w, st, la) ==
    /\ PlaceInv(pl, p, c, w, st, la)
    /\ ReachedInv(pl, p, w, st)
    /\ LaunchInv(pl, p, c, st, la)
    /\ BatchInv(p, st)

Holding == {x \in Schedules \X Assignments :
                state[x[1]][x[2]] = "running" /\ NeedsSlot(x[1], x[2])}

\* The guard counts the running professional children.
SlotInv ==
    /\ IsFiniteSet(Holding)
    /\ slots = Cardinality(Holding)
    /\ GuardPolicy # NoGuard => slots <= GuardPolicy.active

SchedulerInv ==
    /\ place \in [Schedules -> {"absent", "queued", "executing", "terminal", "lost"}]
    /\ plan \in [Schedules -> Submitted \cup {NoPlan}]
    /\ cancelled \in [Schedules -> SUBSET Assignments]
    /\ wave \in [Schedules -> Nat]
    /\ state \in [Schedules -> [Assignments -> AssignmentState]]
    /\ launches \in [Schedules -> [Assignments -> {0, 1}]]
    /\ late \in BOOLEAN
    /\ \A s \in Schedules :
          ScheduleInv(place[s], plan[s], cancelled[s], wave[s], state[s], launches[s])
    /\ SlotInv

\* No schedule is submitted initially, and no slot is held.
LEMMA InitHolds ==
    Init => SchedulerInv
<1> SUFFICES ASSUME Init PROVE SchedulerInv
  OBVIOUS
<1>1. \A s \in Schedules : \A a \in Assignments : state[s][a] = "none" /\ launches[s][a] = 0
  BY DEF Init, NotReached
<1>2. /\ place \in [Schedules -> {"absent", "queued", "executing", "terminal", "lost"}]
      /\ plan \in [Schedules -> Submitted \cup {NoPlan}]
      /\ cancelled \in [Schedules -> SUBSET Assignments]
      /\ wave \in [Schedules -> Nat]
      /\ launches \in [Schedules -> [Assignments -> {0, 1}]]
      /\ late \in BOOLEAN
  BY DEF Init
<1>3. state \in [Schedules -> [Assignments -> AssignmentState]]
  BY DEF Init, NotReached, AssignmentState
<1>4. ASSUME NEW s \in Schedules
      PROVE  ScheduleInv(place[s], plan[s], cancelled[s], wave[s], state[s], launches[s])
  <2>1. place[s] = "absent" /\ plan[s] = NoPlan /\ cancelled[s] = {} /\ wave[s] = 0
    BY DEF Init
  <2> QED  BY <1>1, <2>1 DEF ScheduleInv, PlaceInv, ReachedInv, LaunchInv, BatchInv, Unfinished
<1>5. SlotInv
  <2>1. Holding = {}
    BY <1>1 DEF Holding
  <2>2. GuardPolicy # NoGuard => 0 <= GuardPolicy.active
    BY SchedulerAssumption DEF Policy
  <2> QED  BY <2>1, <2>2, FS_EmptySet DEF SlotInv, Init
<1> QED  BY <1>2, <1>3, <1>4, <1>5 DEF SchedulerInv

\* Sets of assignments are finite, and a smaller busy set keeps its batch sound.
LEMMA SmallerBatch ==
    ASSUME NEW p \in Submitted, NEW st, NEW st1, BatchInv(p, st),
           Busy(p, st1) \subseteq Busy(p, st)
    PROVE  BatchInv(p, st1)
<1>1. IsFiniteSet(Busy(p, st))
  BY PlanShape, FS_Subset DEF Busy
<1>2. Cardinality(Busy(p, st1)) <= Cardinality(Busy(p, st))
      /\ Cardinality(Busy(p, st)) \in Nat /\ Cardinality(Busy(p, st1)) \in Nat
  BY <1>1, FS_Subset, FS_CardinalityType
<1>3. Cardinality(Busy(p, st1)) <= ActiveLimit(p)
  BY <1>2, BatchLimit, PlanShape DEF BatchInv
<1>4. \A a \in Busy(p, st1) : a \in p.mutating => Busy(p, st1) = {a}
  BY PlanShape DEF BatchInv
<1> QED  BY <1>3, <1>4 DEF BatchInv

-----------------------------------------------------------------------------
(* One lemma per step of a schedule, on the values of that schedule.        *)

\* enqueue and run_sync of an accepted plan.
LEMMA SubmitKeeps ==
    ASSUME NEW p \in Submitted, NEW pl \in {"queued", "executing"},
           NEW c, NEW w \in Nat, NEW st \in [Assignments -> AssignmentState],
           NEW la \in [Assignments -> {0, 1}],
           ScheduleInv("absent", NoPlan, c, w, st, la)
    PROVE  ScheduleInv(pl, p, c, w, st, la)
<1>1. /\ p # NoPlan /\ c = {} /\ w = 0
      /\ \A a \in Assignments : st[a] = "none" /\ la[a] = 0
  BY PlanShape DEF ScheduleInv, PlaceInv
<1>2. PlaceInv(pl, p, c, w, st, la)
  BY <1>1 DEF PlaceInv
<1>3. ReachedInv(pl, p, w, st)
  BY <1>1, WaveOrder, PlanShape DEF ReachedInv, Unfinished
<1>4. LaunchInv(pl, p, c, st, la)
  BY <1>1 DEF LaunchInv, Unfinished
<1>5. Busy(p, st) = {}
  BY <1>1, PlanShape DEF Busy
<1>6. BatchInv(p, st)
  BY <1>5, FS_EmptySet, BatchLimit DEF BatchInv
<1> QED  BY <1>2, <1>3, <1>4, <1>6 DEF ScheduleInv

\* advance takes the schedule out of the queue.
LEMMA AdvanceKeeps ==
    ASSUME NEW p \in Submitted, NEW c, NEW w \in Nat,
           NEW st \in [Assignments -> AssignmentState],
           NEW la \in [Assignments -> {0, 1}],
           ScheduleInv("queued", p, c, w, st, la)
    PROVE  ScheduleInv("executing", p, c, w, st, la)
<1>1. w = 0 /\ \A a \in Assignments : st[a] = "none" /\ la[a] = 0
  BY DEF ScheduleInv, PlaceInv
<1>2. PlaceInv("executing", p, c, w, st, la)
  BY PlanShape DEF PlaceInv
<1>3. ReachedInv("executing", p, w, st)
  BY <1>1, WaveOrder, PlanShape DEF ReachedInv, ScheduleInv
<1>4. LaunchInv("executing", p, c, st, la)
  BY <1>1 DEF LaunchInv, ScheduleInv
<1> QED  BY <1>2, <1>3, <1>4 DEF ScheduleInv

\* cancel_assignment of a queued schedule.
LEMMA CancelAssignmentKeeps ==
    ASSUME NEW p \in Submitted, NEW c \in SUBSET Assignments, NEW w \in Nat,
           NEW st \in [Assignments -> AssignmentState],
           NEW la \in [Assignments -> {0, 1}], NEW a \in Items(p),
           ScheduleInv("queued", p, c, w, st, la)
    PROVE  ScheduleInv("queued", p, c \cup {a}, w, st, la)
<1>1. w = 0 /\ \A b \in Assignments : st[b] = "none" /\ la[b] = 0
  BY DEF ScheduleInv, PlaceInv
<1>2. PlaceInv("queued", p, c \cup {a}, w, st, la)
  BY <1>1, PlanShape DEF PlaceInv
<1>3. LaunchInv("queued", p, c \cup {a}, st, la)
  BY <1>1, PlanShape DEF LaunchInv, ScheduleInv, Unfinished
<1> QED  BY <1>2, <1>3 DEF ScheduleInv

\* cancel of a queued schedule.
LEMMA CancelKeeps ==
    ASSUME NEW p \in Submitted, NEW c \in SUBSET Assignments, NEW w \in Nat,
           NEW st \in [Assignments -> AssignmentState],
           NEW la \in [Assignments -> {0, 1}],
           NEW st1 \in [Assignments -> AssignmentState],
           \A a \in Assignments : st1[a] = IF a \in Items(p) THEN "CANCELLED" ELSE "none",
           ScheduleInv("queued", p, c, w, st, la)
    PROVE  ScheduleInv("terminal", p, c, w, st1, la)
<1>1. \A a \in Assignments : la[a] = 0
  BY DEF ScheduleInv, PlaceInv
<1>2. PlaceInv("terminal", p, c, w, st1, la)
  BY PlanShape DEF PlaceInv
<1>3. ReachedInv("terminal", p, w, st1)
  BY PlanShape DEF ReachedInv, Unfinished, Final
<1>4. LaunchInv("terminal", p, c, st1, la)
  BY <1>1, PlanShape DEF LaunchInv, ScheduleInv, Unfinished
<1>5. Busy(p, st1) = {}
  BY PlanShape DEF Busy
<1>6. BatchInv(p, st1)
  BY <1>5, FS_EmptySet, BatchLimit DEF BatchInv
<1> QED  BY <1>2, <1>3, <1>4, <1>6 DEF ScheduleInv

\* The next wave: its prerequisites all lie in earlier waves, which are final.
LEMMA StartWaveKeeps ==
    ASSUME NEW p \in Submitted, NEW c \in SUBSET Assignments, NEW w \in Nat,
           NEW st \in [Assignments -> AssignmentState],
           NEW la \in [Assignments -> {0, 1}],
           NEW st1 \in [Assignments -> AssignmentState],
           ScheduleInv("executing", p, c, w, st, la),
           \A a \in Items(p) : st[a] \notin Unfinished,
           \A a \in Assignments : st1[a] =
               IF ~(a \in Items(p) /\ Wave(p, a) = w + 1) THEN st[a]
               ELSE IF a \in c THEN "CANCELLED"
               ELSE IF \E d \in p.deps[a] : st[d] # "COMPLETED" THEN "BLOCKED"
               ELSE "runnable"
    PROVE  ScheduleInv("executing", p, c, w + 1, st1, la)
<1>1. \A a \in Items(p) : a \in Assignments /\ Wave(p, a) \in Nat
  BY WaveOrder, PlanShape
<1>2. \A a \in Items(p) : Wave(p, a) = w + 1 => st[a] = "none" /\ la[a] = 0
  BY <1>1 DEF ScheduleInv, ReachedInv, LaunchInv
<1>3. \A a \in Assignments : st[a] # "none" => st1[a] = st[a]
  BY <1>2
<1>4. PlaceInv("executing", p, c, w + 1, st1, la)
  BY PlanShape DEF PlaceInv
<1>5. ReachedInv("executing", p, w + 1, st1)
  <2>1. \A a \in Assignments : a \notin Items(p) => st1[a] = "none"
    BY PlanShape DEF ScheduleInv, ReachedInv
  <2>2. ASSUME NEW a \in Items(p)
        PROVE  st1[a] # "none" <=> Wave(p, a) <= w + 1
    <3>1. CASE Wave(p, a) = w + 1
      BY <1>1, <3>1
    <3>2. CASE Wave(p, a) # w + 1
      <4>1. st1[a] = st[a] /\ (st[a] # "none" <=> Wave(p, a) <= w)
        BY <1>1, <3>2 DEF ScheduleInv, ReachedInv
      <4> QED  BY <1>1, <3>2, <4>1
    <3> QED  BY <3>1, <3>2
  <2> QED  BY <2>1, <2>2, PlanShape DEF ReachedInv
<1>6. ASSUME NEW a \in Items(p), NEW d \in p.deps[a], Wave(p, a) = w + 1
      PROVE  st[d] \in Final
  <2>1. d \in Items(p) /\ d \in Assignments /\ Wave(p, d) < w + 1 /\ Wave(p, d) \in Nat
    BY <1>1, <1>6, WaveOrder, PlanShape
  <2>2. st[d] # "none" /\ st[d] \notin Unfinished
    BY <2>1 DEF ScheduleInv, ReachedInv
  <2> QED  BY <2>1, <2>2 DEF AssignmentState, Unfinished
<1>7. LaunchInv("executing", p, c, st1, la)
  <2>1. LaunchInv("executing", p, c, st, la)
    BY DEF ScheduleInv
  <2>2. \A a \in Assignments : st1[a] \in Unfinished \/ la[a] = 1 =>
            p # NoPlan /\ a \in Items(p) /\ \A d \in p.deps[a] : st1[d] = "COMPLETED"
    <3>1. SUFFICES ASSUME NEW a \in Assignments, st1[a] \in Unfinished \/ la[a] = 1
                   PROVE  a \in Items(p) /\ \A d \in p.deps[a] : st1[d] = "COMPLETED"
      BY PlanShape
    <3>2. a \in Items(p) /\ \A d \in p.deps[a] : st[d] = "COMPLETED"
      BY <2>1, <3>1 DEF LaunchInv, Unfinished
    <3>3. \A d \in p.deps[a] : d \in Assignments
      BY <3>2, PlanShape
    <3> QED  BY <1>3, <3>2, <3>3
  <2>3. \A a \in Assignments : st1[a] \in {"runnable", "launching"} => la[a] = 0
    BY <1>2, <2>1 DEF LaunchInv
  <2>4. \A a \in Assignments : st1[a] = "none" => la[a] = 0
    BY <2>1 DEF LaunchInv
  <2>5. \A a \in Assignments : st1[a] \in {"running", "COMPLETED"} => la[a] = 1
    BY <2>1 DEF LaunchInv
  <2>6. \A a \in c : st1[a] \in {"none", "CANCELLED"} /\ la[a] = 0
    BY <2>1 DEF LaunchInv
  <2>7. \A a \in Assignments : st1[a] = "BLOCKED" /\ la[a] = 0 =>
            \/ Slotted(p, a)
            \/ \E d \in p.deps[a] : st1[d] \in Final \ {"COMPLETED"}
    <3>1. SUFFICES ASSUME NEW a \in Assignments, st1[a] = "BLOCKED", la[a] = 0, ~Slotted(p, a)
                   PROVE  \E d \in p.deps[a] : st1[d] \in Final \ {"COMPLETED"}
      OBVIOUS
    <3>2. a \in Items(p)
      BY <3>1, PlanShape DEF ScheduleInv, ReachedInv
    <3>3. PICK d \in p.deps[a] : st[d] \in Final \ {"COMPLETED"}
      BY <1>6, <2>1, <3>1, <3>2 DEF LaunchInv
    <3>4. d \in Assignments
      BY <3>2, PlanShape
    <3> QED  BY <1>3, <3>3, <3>4 DEF Final
  <2> QED  BY <2>2, <2>3, <2>4, <2>5, <2>6, <2>7 DEF LaunchInv
<1>8. Busy(p, st1) \subseteq Busy(p, st)
  BY <1>1 DEF Busy
<1>9. BatchInv(p, st1)
  BY <1>8, SmallerBatch DEF ScheduleInv
<1> QED  BY <1>4, <1>5, <1>7, <1>9 DEF ScheduleInv

\* What a batch, a launch, a denied launch and the return of a child do to an
\* assignment.
Moves(p, st, st1, la, la1, a) ==
    \/ st[a] = "runnable" /\ st1[a] = "launching" /\ la1[a] = la[a]
    \/ st[a] = "launching" /\ st1[a] = "running" /\ la1[a] = 1
    \/ st[a] = "launching" /\ st1[a] = "BLOCKED" /\ Slotted(p, a) /\ la1[a] = la[a]
    \/ st[a] = "running" /\ st1[a] \in Final \ {"CANCELLED"} /\ la1[a] = 1

\* Moves of some assignments keep the invariant when the batch stays sound.
LEMMA MoveKeeps ==
    ASSUME NEW p \in Submitted, NEW c \in SUBSET Assignments, NEW w \in Nat,
           NEW st \in [Assignments -> AssignmentState],
           NEW la \in [Assignments -> {0, 1}],
           NEW st1 \in [Assignments -> AssignmentState],
           NEW la1 \in [Assignments -> {0, 1}],
           NEW moved \in SUBSET Items(p),
           ScheduleInv("executing", p, c, w, st, la),
           \A a \in Assignments \ moved : st1[a] = st[a] /\ la1[a] = la[a],
           \A a \in moved : Moves(p, st, st1, la, la1, a),
           BatchInv(p, st1)
    PROVE  ScheduleInv("executing", p, c, w, st1, la1)
<1>0. \A a \in moved : st[a] \in Unfinished /\ st1[a] # "none"
  BY DEF Moves, Unfinished, Final
<1> USE DEF Moves
<1>1. \A a \in Items(p) : a \in Assignments
  BY PlanShape
<1>2. PlaceInv("executing", p, c, w, st1, la1)
  BY PlanShape DEF PlaceInv
<1>3. ReachedInv("executing", p, w, st1)
  BY <1>0, <1>1, PlanShape DEF ScheduleInv, ReachedInv, Unfinished
<1>4. LaunchInv("executing", p, c, st, la)
  BY DEF ScheduleInv
<1>5. \A a \in Assignments : st[a] \in Final => st1[a] = st[a] /\ la1[a] = la[a]
  BY <1>0 DEF Unfinished, Final
<1>6. LaunchInv("executing", p, c, st1, la1)
  <2>1. \A a \in Assignments : st1[a] \in Unfinished \/ la1[a] = 1 =>
            p # NoPlan /\ a \in Items(p) /\ \A d \in p.deps[a] : st1[d] = "COMPLETED"
    <3>1. SUFFICES ASSUME NEW a \in Assignments, st1[a] \in Unfinished \/ la1[a] = 1
                   PROVE  a \in Items(p) /\ \A d \in p.deps[a] : st1[d] = "COMPLETED"
      BY PlanShape
    <3>2. st[a] \in Unfinished \/ la[a] = 1
      BY <1>0, <3>1
    <3>3. a \in Items(p) /\ \A d \in p.deps[a] : st[d] = "COMPLETED"
      BY <1>4, <3>2 DEF LaunchInv
    <3>4. \A d \in p.deps[a] : d \in Assignments
      BY <3>3, PlanShape
    <3> QED  BY <1>5, <3>3, <3>4 DEF Final
  <2>2. \A a \in Assignments : st1[a] \in {"runnable", "launching"} => la1[a] = 0
    BY <1>4 DEF LaunchInv, Final
  <2>3. \A a \in Assignments : st1[a] = "none" => la1[a] = 0
    BY <1>0, <1>4 DEF LaunchInv
  <2>4. \A a \in Assignments : st1[a] \in {"running", "COMPLETED"} => la1[a] = 1
    BY <1>4 DEF LaunchInv
  <2>5. \A a \in c : st1[a] \in {"none", "CANCELLED"} /\ la1[a] = 0
    <3>1. \A a \in c : a \in Assignments /\ a \notin moved
      BY <1>0, <1>4 DEF LaunchInv, Unfinished
    <3> QED  BY <1>4, <3>1 DEF LaunchInv
  <2>6. \A a \in Assignments : st1[a] = "BLOCKED" /\ la1[a] = 0 =>
            \/ Slotted(p, a)
            \/ \E d \in p.deps[a] : st1[d] \in Final \ {"COMPLETED"}
    <3>1. SUFFICES ASSUME NEW a \in Assignments, st1[a] = "BLOCKED", la1[a] = 0, ~Slotted(p, a)
                   PROVE  \E d \in p.deps[a] : st1[d] \in Final \ {"COMPLETED"}
      OBVIOUS
    <3>2. st[a] = "BLOCKED" /\ la[a] = 0
      BY <3>1
    <3>3. PICK d \in p.deps[a] : st[d] \in Final \ {"COMPLETED"}
      BY <1>4, <3>1, <3>2 DEF LaunchInv
    <3>4. a \in Items(p)
      BY <3>2, PlanShape DEF ScheduleInv, ReachedInv
    <3>5. d \in Assignments
      BY <3>4, PlanShape
    <3> QED  BY <1>5, <3>3, <3>5
  <2> QED  BY <2>1, <2>2, <2>3, <2>4, <2>5, <2>6 DEF LaunchInv
<1> QED  BY <1>2, <1>3, <1>6 DEF ScheduleInv

\* The result of a schedule.
LEMMA CompleteKeeps ==
    ASSUME NEW p \in Submitted, NEW c \in SUBSET Assignments, NEW w \in Nat,
           NEW st \in [Assignments -> AssignmentState],
           NEW la \in [Assignments -> {0, 1}],
           ScheduleInv("executing", p, c, w, st, la),
           \A a \in Items(p) : st[a] \in Final
    PROVE  ScheduleInv("terminal", p, c, w, st, la)
<1>1. PlaceInv("terminal", p, c, w, st, la)
  BY PlanShape DEF PlaceInv
<1>2. ReachedInv("terminal", p, w, st)
  BY DEF ScheduleInv, ReachedInv, Unfinished, Final
<1>3. LaunchInv("terminal", p, c, st, la)
  BY DEF ScheduleInv, LaunchInv
<1> QED  BY <1>1, <1>2, <1>3 DEF ScheduleInv

\* The caller of a schedule is cancelled.
LEMMA AbortKeeps ==
    ASSUME NEW p \in Submitted, NEW c \in SUBSET Assignments, NEW w \in Nat,
           NEW st \in [Assignments -> AssignmentState],
           NEW la \in [Assignments -> {0, 1}],
           NEW st1 \in [Assignments -> AssignmentState],
           ScheduleInv("executing", p, c, w, st, la),
           \A a \in Assignments : st1[a] = IF st[a] \in Final THEN st[a] ELSE "none"
    PROVE  ScheduleInv("lost", p, c, w, st1, la)
<1>1. \A a \in Items(p) : a \in Assignments
  BY PlanShape
<1>2. PlaceInv("lost", p, c, w, st1, la)
  BY PlanShape DEF PlaceInv
<1>3. ReachedInv("lost", p, w, st1)
  BY PlanShape DEF ScheduleInv, ReachedInv, Unfinished, Final
<1>4. LaunchInv("lost", p, c, st1, la)
  <2>1. LaunchInv("executing", p, c, st, la)
    BY DEF ScheduleInv
  <2>2. \A a \in Assignments : st1[a] \in Unfinished \/ la[a] = 1 =>
            p # NoPlan /\ a \in Items(p) /\ \A d \in p.deps[a] : st1[d] = "COMPLETED"
    <3>1. SUFFICES ASSUME NEW a \in Assignments, st1[a] \in Unfinished \/ la[a] = 1
                   PROVE  a \in Items(p) /\ \A d \in p.deps[a] : st1[d] = "COMPLETED"
      BY PlanShape
    <3>2. a \in Items(p) /\ \A d \in p.deps[a] : st[d] = "COMPLETED"
      BY <2>1, <3>1 DEF LaunchInv, Unfinished, Final
    <3>3. \A d \in p.deps[a] : d \in Assignments
      BY <3>2, PlanShape
    <3> QED  BY <3>2, <3>3 DEF Final
  <2>3. \A a \in Assignments : st1[a] \in {"runnable", "launching"} => la[a] = 0
    BY DEF Final
  <2>4. \A a \in Assignments : st1[a] \in {"running", "COMPLETED"} => la[a] = 1
    BY <2>1 DEF LaunchInv
  <2>5. \A a \in c : st1[a] \in {"none", "CANCELLED"} /\ la[a] = 0
    BY <2>1 DEF LaunchInv
  <2>6. \A a \in Assignments : st1[a] = "BLOCKED" /\ la[a] = 0 =>
            \/ Slotted(p, a)
            \/ \E d \in p.deps[a] : st1[d] \in Final \ {"COMPLETED"}
    <3>1. SUFFICES ASSUME NEW a \in Assignments, st1[a] = "BLOCKED", la[a] = 0, ~Slotted(p, a)
                   PROVE  \E d \in p.deps[a] : st1[d] \in Final \ {"COMPLETED"}
      OBVIOUS
    <3>2. st[a] = "BLOCKED"
      BY <3>1
    <3>3. PICK d \in p.deps[a] : st[d] \in Final \ {"COMPLETED"}
      BY <2>1, <3>1, <3>2 DEF LaunchInv
    <3>4. d \in Assignments
      BY <3>2, PlanShape DEF ScheduleInv, ReachedInv
    <3> QED  BY <3>3, <3>4
  <2> QED  BY <2>2, <2>3, <2>4, <2>5, <2>6 DEF LaunchInv
<1>5. Busy(p, st1) \subseteq Busy(p, st)
  BY <1>1 DEF Busy, Final
<1>6. BatchInv(p, st1)
  BY <1>5, SmallerBatch DEF ScheduleInv
<1> QED  BY <1>2, <1>3, <1>4, <1>6 DEF ScheduleInv

-----------------------------------------------------------------------------
(* The steps of the scheduler.                                              *)

\* A step of schedule s leaves the other schedules alone.
LEMMA OneSchedule ==
    ASSUME SchedulerInv, NEW s \in Schedules,
           place' = [place EXCEPT ![s] = place'[s]],
           plan' = [plan EXCEPT ![s] = plan'[s]],
           cancelled' = [cancelled EXCEPT ![s] = cancelled'[s]],
           wave' = [wave EXCEPT ![s] = wave'[s]],
           state' = [state EXCEPT ![s] = state'[s]],
           launches' = [launches EXCEPT ![s] = launches'[s]],
           late' = late,
           place'[s] \in {"absent", "queued", "executing", "terminal", "lost"},
           plan'[s] \in Submitted \cup {NoPlan},
           cancelled'[s] \in SUBSET Assignments,
           wave'[s] \in Nat,
           state'[s] \in [Assignments -> AssignmentState],
           launches'[s] \in [Assignments -> {0, 1}],
           ScheduleInv(place'[s], plan'[s], cancelled'[s], wave'[s], state'[s], launches'[s]),
           SlotInv'
    PROVE  SchedulerInv'
<1>1. /\ place' \in [Schedules -> {"absent", "queued", "executing", "terminal", "lost"}]
      /\ plan' \in [Schedules -> Submitted \cup {NoPlan}]
      /\ cancelled' \in [Schedules -> SUBSET Assignments]
      /\ wave' \in [Schedules -> Nat]
  BY DEF SchedulerInv
<1>2. /\ state' \in [Schedules -> [Assignments -> AssignmentState]]
      /\ launches' \in [Schedules -> [Assignments -> {0, 1}]]
  BY DEF SchedulerInv
<1>3. late' \in BOOLEAN
  BY DEF SchedulerInv
<1>4. ASSUME NEW t \in Schedules
      PROVE  ScheduleInv(place'[t], plan'[t], cancelled'[t], wave'[t], state'[t], launches'[t])
  <2>1. CASE t = s
    BY <2>1
  <2>2. CASE t # s
    <3>1. /\ place'[t] = place[t] /\ plan'[t] = plan[t] /\ cancelled'[t] = cancelled[t]
          /\ wave'[t] = wave[t] /\ state'[t] = state[t] /\ launches'[t] = launches[t]
      BY <2>2 DEF SchedulerInv
    <3>2. ScheduleInv(place[t], plan[t], cancelled[t], wave[t], state[t], launches[t])
      BY DEF SchedulerInv
    <3> QED  BY <3>1, <3>2
  <2> QED  BY <2>1, <2>2
<1> QED  BY <1>1, <1>2, <1>3, <1>4 DEF SchedulerInv

\* A step that leaves the running children alone leaves the slots sound.
LEMMA SameHolding ==
    ASSUME SchedulerInv, slots' = slots, Holding' = Holding
    PROVE  SlotInv'
BY DEF SchedulerInv, SlotInv

\* The types of one schedule.
LEMMA Typed ==
    ASSUME SchedulerInv, NEW s \in Schedules
    PROVE  /\ place[s] \in {"absent", "queued", "executing", "terminal", "lost"}
           /\ plan[s] \in Submitted \cup {NoPlan}
           /\ cancelled[s] \in SUBSET Assignments
           /\ wave[s] \in Nat
           /\ state[s] \in [Assignments -> AssignmentState]
           /\ launches[s] \in [Assignments -> {0, 1}]
           /\ place[s] # "absent" => plan[s] \in Submitted
           /\ ScheduleInv(place[s], plan[s], cancelled[s], wave[s], state[s], launches[s])
           /\ slots \in Nat
<1>1. slots \in Nat
  BY FS_CardinalityType DEF SchedulerInv, SlotInv
<1> QED  BY <1>1 DEF SchedulerInv, ScheduleInv, PlaceInv

\* enqueue and run_sync.
LEMMA SubmitStep ==
    ASSUME SchedulerInv, NEW s \in Schedules, NEW p \in Plans,
           Enqueue(s, p) \/ RunSync(s, p)
    PROVE  SchedulerInv'
<1> USE Typed
<1>1. p \in Submitted /\ place[s] = "absent" /\ plan[s] = NoPlan
  BY DEF Enqueue, RunSync, Submitted, ScheduleInv, PlaceInv
<1>2. PICK pl \in {"queued", "executing"} :
         /\ place' = [place EXCEPT ![s] = pl]
         /\ plan' = [plan EXCEPT ![s] = p]
         /\ UNCHANGED <<cancelled, wave, state, slots, launches, late>>
  BY DEF Enqueue, RunSync
<1>3. place'[s] = pl /\ plan'[s] = p
  BY <1>2 DEF SchedulerInv
<1>4. ScheduleInv(pl, p, cancelled[s], wave[s], state[s], launches[s])
  BY <1>1, SubmitKeeps
<1>5. Holding' = Holding
  <2>1. \A a \in Assignments : state[s][a] = "none"
    BY <1>1 DEF ScheduleInv, PlaceInv
  <2>2. \A t \in Schedules, a \in Assignments :
            (state[t][a] = "running" /\ NeedsSlot(t, a))'
               <=> state[t][a] = "running" /\ NeedsSlot(t, a)
    BY <1>2, <2>1 DEF SchedulerInv, NeedsSlot
  <2> QED  BY <2>2 DEF Holding
<1>6. SlotInv'
  BY <1>2, <1>5, SameHolding
<1>7. /\ cancelled' = [cancelled EXCEPT ![s] = cancelled'[s]]
      /\ wave' = [wave EXCEPT ![s] = wave'[s]]
      /\ state' = [state EXCEPT ![s] = state'[s]]
      /\ launches' = [launches EXCEPT ![s] = launches'[s]]
  BY <1>2 DEF SchedulerInv
<1> QED  BY <1>1, <1>2, <1>3, <1>4, <1>6, <1>7, OneSchedule

\* The slots held depend on the states and plans only.
LEMMA HoldingFrame ==
    ASSUME SchedulerInv, NEW s \in Schedules, UNCHANGED <<plan, slots>>,
           state' = [state EXCEPT ![s] = state'[s]],
           \A a \in Assignments : state'[s][a] = "running" <=> state[s][a] = "running"
    PROVE  SlotInv'
<1>1. \A t \in Schedules, a \in Assignments :
          (state[t][a] = "running" /\ NeedsSlot(t, a))'
             <=> state[t][a] = "running" /\ NeedsSlot(t, a)
  BY DEF SchedulerInv, NeedsSlot
<1>2. Holding' = Holding
  BY <1>1 DEF Holding
<1> QED  BY <1>2, SameHolding

\* advance.
LEMMA AdvanceStep ==
    ASSUME SchedulerInv, NEW s \in Schedules, Advance(s)
    PROVE  SchedulerInv'
<1> USE Typed DEF Advance
<1>1. plan[s] \in Submitted /\ place'[s] = "executing"
  BY DEF SchedulerInv
<1>2. ScheduleInv("executing", plan[s], cancelled[s], wave[s], state[s], launches[s])
  BY <1>1, AdvanceKeeps
<1>3. /\ plan' = [plan EXCEPT ![s] = plan'[s]]
      /\ cancelled' = [cancelled EXCEPT ![s] = cancelled'[s]]
      /\ wave' = [wave EXCEPT ![s] = wave'[s]]
      /\ state' = [state EXCEPT ![s] = state'[s]]
      /\ launches' = [launches EXCEPT ![s] = launches'[s]]
  BY DEF SchedulerInv
<1>4. SlotInv'
  BY <1>3, HoldingFrame
<1> QED  BY <1>1, <1>2, <1>3, <1>4, OneSchedule

\* cancel_assignment.
LEMMA CancelAssignmentStep ==
    ASSUME SchedulerInv, NEW s \in Schedules, NEW a \in Assignments, CancelAssignment(s, a)
    PROVE  SchedulerInv'
<1> USE Typed DEF CancelAssignment
<1>1. plan[s] \in Submitted /\ cancelled'[s] = cancelled[s] \cup {a}
  BY DEF SchedulerInv
<1>2. ScheduleInv("queued", plan[s], cancelled'[s], wave[s], state[s], launches[s])
  BY <1>1, CancelAssignmentKeeps
<1>3. /\ place' = [place EXCEPT ![s] = place'[s]]
      /\ plan' = [plan EXCEPT ![s] = plan'[s]]
      /\ wave' = [wave EXCEPT ![s] = wave'[s]]
      /\ state' = [state EXCEPT ![s] = state'[s]]
      /\ launches' = [launches EXCEPT ![s] = launches'[s]]
  BY DEF SchedulerInv
<1>4. SlotInv'
  BY <1>3, HoldingFrame
<1> QED  BY <1>1, <1>2, <1>3, <1>4, OneSchedule

\* cancel.
LEMMA CancelStep ==
    ASSUME SchedulerInv, NEW s \in Schedules, Cancel(s)
    PROVE  SchedulerInv'
<1> USE Typed DEF Cancel
<1> DEFINE st1 == [a \in Assignments |->
                      IF a \in Items(plan[s]) THEN "CANCELLED" ELSE "none"]
<1>1. plan[s] \in Submitted /\ place'[s] = "terminal" /\ state'[s] = st1
  BY DEF SchedulerInv
<1>2. st1 \in [Assignments -> AssignmentState]
  BY DEF AssignmentState, Final
<1>3. ScheduleInv("terminal", plan[s], cancelled[s], wave[s], st1, launches[s])
  BY <1>1, <1>2, CancelKeeps
<1>4. /\ plan' = [plan EXCEPT ![s] = plan'[s]]
      /\ cancelled' = [cancelled EXCEPT ![s] = cancelled'[s]]
      /\ wave' = [wave EXCEPT ![s] = wave'[s]]
      /\ state' = [state EXCEPT ![s] = state'[s]]
      /\ launches' = [launches EXCEPT ![s] = launches'[s]]
  BY <1>1 DEF SchedulerInv
<1>5. \A a \in Assignments : st1[a] # "running" /\ state[s][a] # "running"
  BY DEF ScheduleInv, PlaceInv
<1> HIDE DEF st1
<1>6. \A a \in Assignments : state'[s][a] = "running" <=> state[s][a] = "running"
  BY <1>1, <1>5
<1>7. SlotInv'
  BY <1>4, <1>6, HoldingFrame
<1> QED  BY <1>1, <1>2, <1>3, <1>4, <1>7, OneSchedule

\* A wave starts.
LEMMA StartWaveStep ==
    ASSUME SchedulerInv, NEW s \in Schedules, StartWave(s)
    PROVE  SchedulerInv'
<1> USE Typed DEF StartWave
<1> DEFINE st1 == [a \in Assignments |->
               IF a \notin InWave(s, wave[s] + 1) THEN state[s][a]
               ELSE IF a \in cancelled[s] THEN "CANCELLED"
               ELSE IF \E d \in plan[s].deps[a] : state[s][d] # "COMPLETED"
                    THEN "BLOCKED"
               ELSE "runnable"]
<1>1. /\ plan[s] \in Submitted /\ place[s] = "executing"
      /\ state'[s] = st1 /\ wave'[s] = wave[s] + 1
  BY DEF SchedulerInv
<1>2. st1 \in [Assignments -> AssignmentState]
  BY DEF AssignmentState, Final
<1>3. \A a \in Assignments : st1[a] =
          IF ~(a \in Items(plan[s]) /\ Wave(plan[s], a) = wave[s] + 1) THEN state[s][a]
          ELSE IF a \in cancelled[s] THEN "CANCELLED"
          ELSE IF \E d \in plan[s].deps[a] : state[s][d] # "COMPLETED" THEN "BLOCKED"
          ELSE "runnable"
  BY DEF InWave
<1>4. \A a \in Items(plan[s]) : state[s][a] \notin Unfinished
  BY DEF In, Unfinished
<1> HIDE DEF st1
<1>5. ScheduleInv("executing", plan[s], cancelled[s], wave[s] + 1, st1, launches[s])
  BY <1>1, <1>2, <1>3, <1>4, StartWaveKeeps
<1>6. /\ place' = [place EXCEPT ![s] = place'[s]]
      /\ plan' = [plan EXCEPT ![s] = plan'[s]]
      /\ cancelled' = [cancelled EXCEPT ![s] = cancelled'[s]]
      /\ wave' = [wave EXCEPT ![s] = wave'[s]]
      /\ state' = [state EXCEPT ![s] = state'[s]]
      /\ launches' = [launches EXCEPT ![s] = launches'[s]]
  BY <1>1 DEF SchedulerInv
<1>7. \A a \in Assignments : state'[s][a] = "running" <=> state[s][a] = "running"
  <2>1. \A a \in Items(plan[s]) : a \in Assignments /\ Wave(plan[s], a) \in Nat
    BY <1>1, WaveOrder, PlanShape
  <2>2. \A a \in Items(plan[s]) : Wave(plan[s], a) = wave[s] + 1 => state[s][a] = "none"
    BY <1>1, <2>1 DEF ScheduleInv, ReachedInv
  <2> QED  BY <1>1, <1>3, <2>2
<1>8. SlotInv'
  BY <1>6, <1>7, HoldingFrame
<1>9. /\ place'[s] = "executing" /\ plan'[s] = plan[s] /\ cancelled'[s] = cancelled[s]
      /\ launches'[s] = launches[s] /\ late' = late /\ wave'[s] \in Nat
  BY <1>1
<1> QED  BY <1>1, <1>2, <1>5, <1>6, <1>8, <1>9, OneSchedule

\* The next batch is a part of the runnable assignments that fits the limit, and
\* a mutating assignment is alone in it.
LEMMA BatchSound ==
    ASSUME SchedulerInv, NEW s \in Schedules, plan[s] \in Submitted
    PROVE  /\ NextBatch(s) \subseteq In(s, {"runnable"})
           /\ Cardinality(NextBatch(s)) <= ActiveLimit(plan[s])
           /\ \A a \in NextBatch(s) : a \in plan[s].mutating => NextBatch(s) = {a}
<1> DEFINE p == plan[s]
           run == In(s, {"runnable"})
           readOnly == run \ p.mutating
<1>1. run \in SUBSET Items(p) /\ readOnly \in SUBSET Items(p)
  BY DEF In
<1>2. ActiveLimit(p) \in Nat /\ ActiveLimit(p) >= 1
  BY BatchLimit
<1>3. CASE readOnly # {}
  <2>1. NextBatch(s) = FirstOf(p, readOnly, ActiveLimit(p))
    BY <1>3 DEF NextBatch
  <2> HIDE DEF p
  <2>2. NextBatch(s) \subseteq readOnly /\ Cardinality(NextBatch(s)) <= ActiveLimit(p)
    BY <1>1, <1>2, <2>1, SliceBound DEF p
  <2> QED  BY <2>2 DEF p
<1>4. CASE readOnly = {}
  <2>1. NextBatch(s) = FirstOf(p, run, 1)
    BY <1>4 DEF NextBatch
  <2> HIDE DEF run, readOnly
  <2>2. 1 \in Nat
    OBVIOUS
  <2>3. NextBatch(s) \subseteq run /\ Cardinality(NextBatch(s)) <= 1
        /\ IsFiniteSet(NextBatch(s))
    BY <1>1, <2>1, <2>2, SliceBound
  <2>4. \A a, b \in NextBatch(s) : a = b
    BY <1>1, <2>1, SliceOfOne
  <2>5. Cardinality(NextBatch(s)) \in Nat
    BY <2>3, FS_CardinalityType
  <2>6. Cardinality(NextBatch(s)) <= ActiveLimit(p)
    BY <1>2, <2>3, <2>5
  <2>7. \A a \in NextBatch(s) : NextBatch(s) = {a}
    BY <2>4
  <2> QED  BY <2>3, <2>6, <2>7 DEF run
<1> QED  BY <1>3, <1>4

\* A batch starts.
LEMMA StartBatchStep ==
    ASSUME SchedulerInv, NEW s \in Schedules, StartBatch(s)
    PROVE  SchedulerInv'
<1> USE Typed DEF StartBatch
<1> DEFINE st1 == [a \in Assignments |-> IF a \in NextBatch(s) THEN "launching"
                                         ELSE state[s][a]]
<1>1. /\ plan[s] \in Submitted /\ place[s] = "executing" /\ state'[s] = st1
  BY DEF SchedulerInv
<1>2. st1 \in [Assignments -> AssignmentState]
  BY DEF AssignmentState
<1>3. \A a \in Assignments : st1[a] = IF a \in NextBatch(s) THEN "launching" ELSE state[s][a]
  OBVIOUS
<1> HIDE DEF st1
<1>4. /\ NextBatch(s) \in SUBSET Items(plan[s])
      /\ \A a \in NextBatch(s) : state[s][a] = "runnable"
  BY <1>1, BatchSound DEF In
<1>5. \A a \in Items(plan[s]) : state[s][a] \notin {"launching", "running"} /\ a \in Assignments
  BY <1>1, PlanShape DEF In
<1>6. Busy(plan[s], st1) = NextBatch(s)
  BY <1>3, <1>4, <1>5 DEF Busy
<1>7. BatchInv(plan[s], st1)
  BY <1>1, <1>6, BatchSound DEF BatchInv
<1>8. \A a \in Assignments \ NextBatch(s) : st1[a] = state[s][a]
  BY <1>3
<1>9. \A a \in NextBatch(s) : /\ st1[a] = "launching" /\ state[s][a] = "runnable"
                              /\ state[s][a] \in Unfinished /\ st1[a] # "none"
  BY <1>3, <1>4, <1>5 DEF Unfinished
<1>10. ScheduleInv("executing", plan[s], cancelled[s], wave[s], st1, launches[s])
  <2> DEFINE moved == NextBatch(s)
             st == state[s]
             la == launches[s]
  <2> HIDE DEF moved, st, la
  <2>1. /\ moved \in SUBSET Items(plan[s]) /\ BatchInv(plan[s], st1)
        /\ st \in [Assignments -> AssignmentState] /\ la \in [Assignments -> {0, 1}]
        /\ ScheduleInv("executing", plan[s], cancelled[s], wave[s], st, la)
    BY <1>1, <1>4, <1>7 DEF moved, st, la
  <2>2. /\ \A a \in Assignments \ moved : st1[a] = st[a] /\ la[a] = la[a]
        /\ \A a \in moved : Moves(plan[s], st, st1, la, la, a)
    BY <1>8, <1>9 DEF moved, st, la, Moves
  <2>3. ScheduleInv("executing", plan[s], cancelled[s], wave[s], st1, la)
    BY <1>1, <1>2, <2>1, <2>2, MoveKeeps
  <2> QED  BY <2>3 DEF la
<1>11. /\ place' = [place EXCEPT ![s] = place'[s]]
      /\ plan' = [plan EXCEPT ![s] = plan'[s]]
      /\ cancelled' = [cancelled EXCEPT ![s] = cancelled'[s]]
      /\ wave' = [wave EXCEPT ![s] = wave'[s]]
      /\ state' = [state EXCEPT ![s] = state'[s]]
      /\ launches' = [launches EXCEPT ![s] = launches'[s]]
  BY <1>1 DEF SchedulerInv
<1>12. \A a \in Assignments : state'[s][a] = "running" <=> state[s][a] = "running"
  BY <1>1, <1>3, <1>4
<1>13. SlotInv'
  BY <1>11, <1>12, HoldingFrame
<1> QED  BY <1>1, <1>2, <1>10, <1>11, <1>13, OneSchedule

\* The wall time of the guard runs out.
LEMMA WallTimeStep ==
    ASSUME SchedulerInv, WallTimeReached
    PROVE  SchedulerInv'
<1>1. Holding' = Holding
  BY DEF WallTimeReached, Holding, NeedsSlot
<1>2. SlotInv'
  BY <1>1, SameHolding DEF WallTimeReached
<1> QED  BY <1>2 DEF WallTimeReached, SchedulerInv

\* A schedule gets its result.
LEMMA CompleteStep ==
    ASSUME SchedulerInv, NEW s \in Schedules, Complete(s)
    PROVE  SchedulerInv'
<1> USE Typed DEF Complete
<1>1. plan[s] \in Submitted /\ place[s] = "executing" /\ place'[s] = "terminal"
  BY DEF SchedulerInv
<1>2. \A a \in Items(plan[s]) : state[s][a] \in Final
  BY DEF In
<1>3. ScheduleInv("terminal", plan[s], cancelled[s], wave[s], state[s], launches[s])
  BY <1>1, <1>2, CompleteKeeps
<1>4. /\ plan' = [plan EXCEPT ![s] = plan'[s]]
      /\ cancelled' = [cancelled EXCEPT ![s] = cancelled'[s]]
      /\ wave' = [wave EXCEPT ![s] = wave'[s]]
      /\ state' = [state EXCEPT ![s] = state'[s]]
      /\ launches' = [launches EXCEPT ![s] = launches'[s]]
  BY DEF SchedulerInv
<1>5. SlotInv'
  BY <1>4, HoldingFrame
<1> QED  BY <1>1, <1>3, <1>4, <1>5, OneSchedule

\* An assignment that is launching or running belongs to an executing schedule.
LEMMA UnfinishedExecutes ==
    ASSUME SchedulerInv, NEW s \in Schedules, NEW a \in Assignments,
           state[s][a] \in Unfinished
    PROVE  /\ place[s] = "executing" /\ plan[s] \in Submitted /\ a \in Items(plan[s])
           /\ \A b \in Items(plan[s]) : b \in Assignments
           /\ NeedsSlot(s, a) <=> Slotted(plan[s], a)
<1>1. place[s] = "executing"
  BY Typed DEF ScheduleInv, ReachedInv
<1>2. plan[s] \in Submitted /\ a \in Items(plan[s])
  BY <1>1, Typed DEF ScheduleInv, LaunchInv
<1>3. NeedsSlot(s, a) <=> Slotted(plan[s], a)
  BY DEF NeedsSlot, Slotted
<1> QED  BY <1>1, <1>2, <1>3, PlanShape

\* The step of one child, with the slots as an obligation of the caller.
LEMMA ChildMoves ==
    ASSUME SchedulerInv, NEW s \in Schedules, NEW a \in Assignments,
           state[s][a] \in Unfinished,
           NEW x \in AssignmentState, NEW n \in {0, 1},
           state' = [state EXCEPT ![s] = [state[s] EXCEPT ![a] = x]],
           launches' = [launches EXCEPT ![s] = [launches[s] EXCEPT ![a] = n]],
           UNCHANGED <<place, plan, cancelled, wave, late>>,
           x \in {"launching", "running"} => state[s][a] \in {"launching", "running"},
           Moves(plan[s], state[s], state'[s], launches[s], launches'[s], a),
           SlotInv'
    PROVE  SchedulerInv'
<1> USE Typed
<1> DEFINE st == state[s]
           st1 == [st EXCEPT ![a] = x]
           la == launches[s]
           la1 == [la EXCEPT ![a] = n]
           moved == {a}
<1>1. /\ place[s] = "executing" /\ plan[s] \in Submitted /\ a \in Items(plan[s])
      /\ \A b \in Items(plan[s]) : b \in Assignments
  BY UnfinishedExecutes
<1>2. state'[s] = st1 /\ launches'[s] = la1
  BY DEF SchedulerInv
<1>3. st1 \in [Assignments -> AssignmentState] /\ la1 \in [Assignments -> {0, 1}]
  OBVIOUS
<1>4. \A b \in Assignments \ moved : st1[b] = st[b] /\ la1[b] = la[b]
  OBVIOUS
<1>5. st1[a] = x /\ la1[a] = n
  OBVIOUS
<1>6. Busy(plan[s], st1) \subseteq Busy(plan[s], st)
  BY <1>1, <1>4, <1>5 DEF Busy
<1> HIDE DEF st1, la1
<1>7. BatchInv(plan[s], st1)
  BY <1>1, <1>6, SmallerBatch DEF ScheduleInv
<1>8. \A b \in moved : Moves(plan[s], st, st1, la, la1, b)
  BY <1>2
<1>9. moved \in SUBSET Items(plan[s])
  BY <1>1
<1> HIDE DEF moved
<1>10. ScheduleInv("executing", plan[s], cancelled[s], wave[s], st1, la1)
  BY <1>1, <1>3, <1>4, <1>7, <1>8, <1>9, MoveKeeps
<1>11. /\ place' = [place EXCEPT ![s] = place'[s]]
      /\ plan' = [plan EXCEPT ![s] = plan'[s]]
      /\ cancelled' = [cancelled EXCEPT ![s] = cancelled'[s]]
      /\ wave' = [wave EXCEPT ![s] = wave'[s]]
      /\ state' = [state EXCEPT ![s] = state'[s]]
      /\ launches' = [launches EXCEPT ![s] = launches'[s]]
  BY <1>2 DEF SchedulerInv, st1, la1
<1> QED  BY <1>1, <1>2, <1>3, <1>10, <1>11, OneSchedule

\* A child is launched and takes its slot.
LEMMA LaunchStep ==
    ASSUME SchedulerInv, NEW s \in Schedules, NEW a \in Assignments, Launch(s, a)
    PROVE  SchedulerInv'
<1> USE Typed
<1>1. state[s][a] = "launching" /\ state[s][a] \in Unfinished /\ launches[s][a] = 0
  BY DEF Launch, Unfinished, ScheduleInv, LaunchInv
<1>2. state' = [state EXCEPT ![s] = [state[s] EXCEPT ![a] = "running"]]
  BY DEF Launch
<1>3. launches' = [launches EXCEPT ![s] = [launches[s] EXCEPT ![a] = 1]]
  BY <1>1 DEF Launch
<1>4. Moves(plan[s], state[s], state'[s], launches[s], launches'[s], a)
  BY <1>1, <1>2, <1>3 DEF Moves, SchedulerInv
<1>5. "running" \in AssignmentState
  BY DEF AssignmentState
<1>6. UNCHANGED <<place, plan, cancelled, wave, late>>
  BY DEF Launch
<1>7. SlotInv'
  <2>1. \A t \in Schedules, b \in Assignments :
            (state[t][b] = "running" /\ NeedsSlot(t, b))'
               <=> \/ state[t][b] = "running" /\ NeedsSlot(t, b)
                   \/ t = s /\ b = a /\ NeedsSlot(s, a)
    BY <1>1, <1>2, <1>6 DEF SchedulerInv, NeedsSlot
  <2>2. CASE ~NeedsSlot(s, a)
    <3>1. Holding' = Holding
      BY <2>1, <2>2 DEF Holding
    <3> QED  BY <2>2, <3>1, SameHolding DEF Launch
  <2>3. CASE NeedsSlot(s, a)
    <3>1. Holding' = Holding \cup {<<s, a>>}
      BY <2>1, <2>3 DEF Holding
    <3>2. <<s, a>> \notin Holding
      BY <1>1 DEF Holding
    <3>3. /\ IsFiniteSet(Holding)
          /\ slots = Cardinality(Holding)
      BY DEF SchedulerInv, SlotInv
    <3>4. IsFiniteSet(Holding') /\ Cardinality(Holding') = slots + 1
      BY <3>1, <3>2, <3>3, FS_AddElement
    <3>5. slots' = slots + 1 /\ slots < GuardPolicy.active /\ GuardPolicy # NoGuard
      BY <2>3 DEF Launch, SlotFree, NeedsSlot
    <3>6. GuardPolicy.active \in Nat
      BY <3>5, SchedulerAssumption DEF Policy
    <3> QED  BY <3>4, <3>5, <3>6 DEF SlotInv
  <2> QED  BY <2>2, <2>3
<1> QED  BY <1>1, <1>2, <1>3, <1>4, <1>5, <1>6, <1>7, ChildMoves

\* A child is denied its slot.
LEMMA DenyStep ==
    ASSUME SchedulerInv, NEW s \in Schedules, NEW a \in Assignments, DenyLaunch(s, a)
    PROVE  SchedulerInv'
<1> USE Typed
<1>1. state[s][a] = "launching" /\ state[s][a] \in Unfinished /\ Slotted(plan[s], a)
  BY DEF DenyLaunch, Unfinished, NeedsSlot, Slotted
<1>2. state' = [state EXCEPT ![s] = [state[s] EXCEPT ![a] = "BLOCKED"]]
  BY DEF DenyLaunch
<1>3. launches' = [launches EXCEPT ![s] = [launches[s] EXCEPT ![a] = launches[s][a]]]
  BY DEF DenyLaunch, SchedulerInv
<1>4. Moves(plan[s], state[s], state'[s], launches[s], launches'[s], a)
  BY <1>1, <1>2 DEF Moves, SchedulerInv, DenyLaunch
<1>5. "BLOCKED" \in AssignmentState
  BY DEF AssignmentState, Final
<1>6. UNCHANGED <<place, plan, cancelled, wave, late, slots>>
  BY DEF DenyLaunch
<1>7. state' = [state EXCEPT ![s] = state'[s]]
      /\ \A b \in Assignments : state'[s][b] = "running" <=> state[s][b] = "running"
  BY <1>1, <1>2 DEF SchedulerInv
<1>8. SlotInv'
  BY <1>6, <1>7, HoldingFrame
<1> QED  BY <1>1, <1>2, <1>3, <1>4, <1>5, <1>6, <1>8, ChildMoves

\* A child returns and its slot is released.
LEMMA FinishStep ==
    ASSUME SchedulerInv, NEW s \in Schedules, NEW a \in Assignments, NEW status \in Outcomes,
           FinishChild(s, a, status)
    PROVE  SchedulerInv'
<1> USE Typed
<1>0. status \in {"COMPLETED", "FAILED", "BLOCKED"}
  BY SchedulerAssumption
<1>1. state[s][a] = "running" /\ state[s][a] \in Unfinished
  BY DEF FinishChild, Unfinished
<1>2. state' = [state EXCEPT ![s] = [state[s] EXCEPT ![a] = status]]
  BY DEF FinishChild
<1>3. launches' = [launches EXCEPT ![s] = [launches[s] EXCEPT ![a] = launches[s][a]]]
  BY DEF FinishChild, SchedulerInv
<1>4. launches[s][a] = 1
  BY <1>1 DEF ScheduleInv, LaunchInv
<1>5. Moves(plan[s], state[s], state'[s], launches[s], launches'[s], a)
  BY <1>0, <1>1, <1>2, <1>4 DEF Moves, SchedulerInv, FinishChild, Final
<1>6. status \in AssignmentState /\ status \notin {"launching", "running"}
  BY <1>0 DEF AssignmentState, Final
<1>7. UNCHANGED <<place, plan, cancelled, wave, late>>
  BY DEF FinishChild
<1>8. SlotInv'
  <2>1. \A t \in Schedules, b \in Assignments :
            (state[t][b] = "running" /\ NeedsSlot(t, b))'
               <=> /\ state[t][b] = "running" /\ NeedsSlot(t, b)
                   /\ ~(t = s /\ b = a)
    BY <1>1, <1>2, <1>6, <1>7 DEF SchedulerInv, NeedsSlot
  <2>2. CASE ~NeedsSlot(s, a)
    <3>1. Holding' = Holding
      BY <2>1, <2>2 DEF Holding
    <3> QED  BY <2>2, <3>1, SameHolding DEF FinishChild
  <2>3. CASE NeedsSlot(s, a)
    <3>1. Holding' = Holding \ {<<s, a>>}
      BY <2>1, <2>3 DEF Holding
    <3>2. <<s, a>> \in Holding
      BY <1>1, <2>3 DEF Holding
    <3>3. /\ IsFiniteSet(Holding)
          /\ slots = Cardinality(Holding)
          /\ GuardPolicy # NoGuard => slots <= GuardPolicy.active
      BY DEF SchedulerInv, SlotInv
    <3>4. IsFiniteSet(Holding') /\ Cardinality(Holding') = slots - 1
      BY <3>1, <3>2, <3>3, FS_RemoveElement
    <3>5. slots' = slots - 1
      BY <2>3 DEF FinishChild
    <3>6. GuardPolicy # NoGuard => GuardPolicy.active \in Nat
      BY SchedulerAssumption DEF Policy
    <3> QED  BY <3>3, <3>4, <3>5, <3>6 DEF SlotInv
  <2> QED  BY <2>2, <2>3
<1> QED  BY <1>1, <1>2, <1>3, <1>4, <1>5, <1>6, <1>7, <1>8, ChildMoves

\* The slots of one schedule are its running professional children.
LEMMA HeldBy ==
    ASSUME SchedulerInv, NEW s \in Schedules, place[s] # "absent"
    PROVE  LET mine == {x \in Holding : x[1] = s}
               children == {a \in In(s, {"running"}) : NeedsSlot(s, a)}
           IN  IsFiniteSet(children) /\ Cardinality(mine) = Cardinality(children)
<1> DEFINE mine == {x \in Holding : x[1] = s}
           children == {a \in In(s, {"running"}) : NeedsSlot(s, a)}
           f == [a \in children |-> <<s, a>>]
<1>1. plan[s] \in Submitted
  BY Typed
<1>2. IsFiniteSet(Items(plan[s])) /\ Items(plan[s]) \subseteq Assignments
  BY <1>1, PlanShape
<1>3. children \in SUBSET Items(plan[s])
  BY DEF In
<1>4. IsFiniteSet(children)
  BY <1>2, <1>3, FS_Subset
<1>5. \A a \in Assignments : <<s, a>> \in mine <=> a \in children
  <2>1. \A a \in Assignments : state[s][a] = "running" => a \in Items(plan[s])
    BY UnfinishedExecutes DEF Unfinished
  <2> QED  BY <2>1 DEF Holding, In
<1>6. \A x \in mine : \E a \in Assignments : x = <<s, a>>
  BY DEF Holding
<1> HIDE DEF mine, children
<1>7. f \in Bijection(children, mine)
  <2>1. \A a \in children : f[a] \in mine
    BY <1>2, <1>3, <1>5
  <2>2. f \in [children -> mine]
    BY <2>1
  <2>3. \A a, b \in children : f[a] = f[b] => a = b
    OBVIOUS
  <2>4. \A x \in mine : \E a \in children : f[a] = x
    BY <1>5, <1>6
  <2> QED  BY <2>2, <2>3, <2>4 DEF Bijection, Injection, Surjection, IsInjective
<1>8. ExistsBijection(children, mine)
  BY <1>7 DEF ExistsBijection
<1>9. Cardinality(mine) = Cardinality(children)
  BY <1>4, <1>8, FS_Bijection
<1> QED  BY <1>4, <1>9 DEF mine, children

\* The slots of all children of an aborted schedule are released.
LEMMA AbortStep ==
    ASSUME SchedulerInv, NEW s \in Schedules, Abort(s)
    PROVE  SchedulerInv'
<1> USE Typed DEF Abort
<1> DEFINE st1 == [a \in Assignments |->
                      IF state[s][a] \in Final THEN state[s][a] ELSE "none"]
<1>1. /\ plan[s] \in Submitted /\ place[s] = "executing" /\ place'[s] = "lost"
      /\ state'[s] = st1
  BY DEF SchedulerInv
<1>2. st1 \in [Assignments -> AssignmentState]
  BY DEF AssignmentState
<1>3. \A a \in Assignments : st1[a] = IF state[s][a] \in Final THEN state[s][a] ELSE "none"
  OBVIOUS
<1> HIDE DEF st1
<1>4. ScheduleInv("lost", plan[s], cancelled[s], wave[s], st1, launches[s])
  BY <1>1, <1>2, <1>3, AbortKeeps
<1>5. /\ place' = [place EXCEPT ![s] = place'[s]]
      /\ plan' = [plan EXCEPT ![s] = plan'[s]]
      /\ cancelled' = [cancelled EXCEPT ![s] = cancelled'[s]]
      /\ wave' = [wave EXCEPT ![s] = wave'[s]]
      /\ state' = [state EXCEPT ![s] = state'[s]]
      /\ launches' = [launches EXCEPT ![s] = launches'[s]]
  BY <1>1 DEF SchedulerInv
<1>6. SlotInv'
  <2> DEFINE mine == {x \in Holding : x[1] = s}
             children == {a \in In(s, {"running"}) : NeedsSlot(s, a)}
  <2>1. \A t \in Schedules, b \in Assignments :
            (state[t][b] = "running" /\ NeedsSlot(t, b))'
               <=> state[t][b] = "running" /\ NeedsSlot(t, b) /\ t # s
    <3>1. \A b \in Assignments : state'[s][b] # "running"
      BY <1>1, <1>3 DEF Final
    <3>2. \A t \in Schedules : t # s => state'[t] = state[t]
      BY DEF SchedulerInv
    <3> QED  BY <3>1, <3>2 DEF NeedsSlot
  <2>2. Holding' = Holding \ mine
    BY <2>1 DEF Holding
  <2>3. /\ IsFiniteSet(Holding)
        /\ slots = Cardinality(Holding)
        /\ GuardPolicy # NoGuard => slots <= GuardPolicy.active
    BY DEF SchedulerInv, SlotInv
  <2>4. IsFiniteSet(children) /\ Cardinality(mine) = Cardinality(children)
    BY <1>1, HeldBy
  <2>5. Holding \cap mine = mine
    OBVIOUS
  <2>6. slots' = slots - Cardinality(children)
    OBVIOUS
  <2> HIDE DEF mine, children
  <2>7. IsFiniteSet(Holding') /\ Cardinality(Holding') = slots - Cardinality(mine)
    <3>1. /\ IsFiniteSet(Holding \ mine)
          /\ Cardinality(Holding \ mine) = Cardinality(Holding) - Cardinality(Holding \cap mine)
      BY <2>3, FS_Difference, Zenon
    <3> QED  BY <2>2, <2>3, <2>5, <3>1, Zenon
  <2>8. Cardinality(children) \in Nat
    BY <2>4, FS_CardinalityType
  <2>9. GuardPolicy # NoGuard => GuardPolicy.active \in Nat
    BY SchedulerAssumption DEF Policy
  <2> QED  BY <2>3, <2>4, <2>6, <2>7, <2>8, <2>9 DEF SlotInv
<1> QED  BY <1>1, <1>2, <1>4, <1>5, <1>6, OneSchedule

\* Every step of the scheduler keeps the invariant.
LEMMA StepHolds ==
    SchedulerInv /\ [Next]_vars => SchedulerInv'
<1> SUFFICES ASSUME SchedulerInv, [Next]_vars PROVE SchedulerInv'
  OBVIOUS
<1>1. ASSUME NEW s \in Schedules, NEW p \in Plans, Enqueue(s, p) \/ RunSync(s, p)
      PROVE  SchedulerInv'
  BY <1>1, SubmitStep
<1>2. ASSUME NEW s \in Schedules, Advance(s) \/ Cancel(s) \/ Abort(s)
      PROVE  SchedulerInv'
  BY <1>2, AdvanceStep, CancelStep, AbortStep
<1>3. ASSUME NEW s \in Schedules, NEW a \in Assignments, CancelAssignment(s, a)
      PROVE  SchedulerInv'
  BY <1>3, CancelAssignmentStep
<1>4. ASSUME NEW s \in Schedules, Step(s)
      PROVE  SchedulerInv'
  BY <1>4, StartWaveStep, StartBatchStep, LaunchStep, DenyStep, FinishStep, CompleteStep DEF Step
<1>5. CASE WallTimeReached
  BY <1>5, WallTimeStep
<1>6. CASE UNCHANGED vars
  <2>1. Holding' = Holding /\ slots' = slots
    BY <1>6 DEF vars, Holding, NeedsSlot
  <2>2. SlotInv'
    BY <2>1, SameHolding
  <2> QED  BY <1>6, <2>2 DEF vars, SchedulerInv
<1> QED  BY <1>1, <1>2, <1>3, <1>4, <1>5, <1>6 DEF Next

-----------------------------------------------------------------------------
(* Theorems.                                                                *)

\* The inductive invariant holds in every reachable state.
THEOREM InvariantHolds == Spec => []SchedulerInv
BY InitHolds, StepHolds, PTL DEF Spec

\* The dictionaries and locals of TaskScheduler keep their shapes.
THEOREM TypeCorrect == Spec => []TypeOK
<1>1. SchedulerInv => TypeOK
  <2> SUFFICES ASSUME SchedulerInv PROVE TypeOK
    OBVIOUS
  <2>1. \A s \in Schedules : /\ plan[s] \in Plans \cup {NoPlan}
                             /\ place[s] # "absent" => plan[s] # NoPlan
    BY Typed, PlanShape DEF Submitted
  <2>2. slots \in Nat
    BY FS_CardinalityType DEF SchedulerInv, SlotInv
  <2>3. launches \in [Schedules -> [Assignments -> Nat]]
    BY DEF SchedulerInv
  <2> QED  BY <2>1, <2>2, <2>3 DEF SchedulerInv, TypeOK
<1> QED  BY <1>1, InvariantHolds, PTL

\* _execute runs the waves soundly: an assignment is launched once, after all its
\* prerequisites completed; a mutating one runs alone; a result accounts for
\* every assignment, with no execution of a cancelled one.
THEOREM WavesSound == Spec => []WavesAreSound
<1>1. SchedulerInv => WavesAreSound
  <2> SUFFICES ASSUME SchedulerInv PROVE WavesAreSound
    OBVIOUS
  <2> USE Typed
  <2>1. LaunchedAfterPrerequisites
    <3> SUFFICES ASSUME NEW s \in Schedules, NEW a \in Assignments
                 PROVE  /\ launches[s][a] <= 1
                        /\ launches[s][a] = 1 =>
                              \A d \in plan[s].deps[a] : state[s][d] = "COMPLETED"
      BY DEF LaunchedAfterPrerequisites
    <3> QED  BY DEF ScheduleInv, LaunchInv
  <2>2. MutatingRunsAlone
    <3> SUFFICES ASSUME NEW s \in Schedules, plan[s] # NoPlan,
                        NEW a \in In(s, {"launching", "running"}), a \in plan[s].mutating
                 PROVE  In(s, {"launching", "running"}) = {a}
      BY DEF MutatingRunsAlone
    <3>1. In(s, {"launching", "running"}) = Busy(plan[s], state[s])
      BY DEF In, Busy
    <3> QED  BY <3>1 DEF ScheduleInv, BatchInv
  <2>3. ResultIsComplete
    <3> SUFFICES ASSUME NEW s \in Schedules, place[s] = "terminal", NEW a \in Items(plan[s])
                 PROVE  /\ state[s][a] \in Final
                        /\ a \in cancelled[s] => state[s][a] = "CANCELLED" /\ launches[s][a] = 0
                        /\ state[s][a] = "COMPLETED" => launches[s][a] = 1
                        /\ state[s][a] = "BLOCKED" /\ launches[s][a] = 0 =>
                              \/ NeedsSlot(s, a)
                              \/ \E d \in plan[s].deps[a] : state[s][d] # "COMPLETED"
      BY DEF ResultIsComplete
    <3>1. plan[s] \in Submitted /\ a \in Assignments
      BY PlanShape
    <3>2. state[s][a] \in Final
      BY DEF ScheduleInv, ReachedInv
    <3> QED  BY <3>1, <3>2 DEF ScheduleInv, LaunchInv, Slotted, NeedsSlot, Final
  <2> QED  BY <2>1, <2>2, <2>3 DEF WavesAreSound
<1> QED  BY <1>1, InvariantHolds, PTL

\* The guard counts the running professional children exactly, no schedule
\* exceeds its limit, and a schedule that is alone on a guard of its own policy
\* is never denied a slot: nothing leaks, however children and callers end.
THEOREM SlotsSound == Spec => []SlotsAreSound
<1>1. SchedulerInv => SlotsAreSound
  <2> SUFFICES ASSUME SchedulerInv PROVE SlotsAreSound
    OBVIOUS
  <2> USE Typed
  <2>1. SlotsMatchChildren
    <3>1. ASSUME NEW s \in Schedules, plan[s] # NoPlan
          PROVE  Cardinality(In(s, {"running"})) <= ActiveLimit(plan[s])
      <4>1. plan[s] \in Submitted
        BY <3>1
      <4>2. In(s, {"running"}) \in SUBSET Busy(plan[s], state[s])
        BY DEF In, Busy
      <4>3. IsFiniteSet(Busy(plan[s], state[s]))
        BY <4>1, PlanShape, FS_Subset DEF Busy
      <4>4. /\ Cardinality(In(s, {"running"})) <= Cardinality(Busy(plan[s], state[s]))
            /\ Cardinality(Busy(plan[s], state[s])) \in Nat
            /\ Cardinality(In(s, {"running"})) \in Nat
        BY <4>2, <4>3, FS_Subset, FS_CardinalityType
      <4>5. Cardinality(Busy(plan[s], state[s])) <= ActiveLimit(plan[s])
        BY <3>1 DEF ScheduleInv, BatchInv
      <4> QED  BY <4>1, <4>4, <4>5, BatchLimit
    <3>2. Holding = {x \in Schedules \X Assignments :
                        state[x[1]][x[2]] = "running" /\ NeedsSlot(x[1], x[2])}
      BY DEF Holding
    <3> QED  BY <3>1, <3>2 DEF SlotsMatchChildren, SchedulerInv, SlotInv
  <2>2. OwnGuardNeverDenies
    <3>1. SUFFICES ASSUME NEW s \in Schedules, plan[s] # NoPlan, GuardPolicy # NoGuard,
                        PolicyOf(plan[s]) = GuardPolicy,
                        \A t \in Schedules \ {s} : place[t] # "executing",
                        NEW a \in In(s, {"launching"}), NeedsSlot(s, a)
                 PROVE  SlotFree
      BY DEF OwnGuardNeverDenies
    <3> DEFINE children == {b \in In(s, {"running"}) : NeedsSlot(s, b)}
               busy == Busy(plan[s], state[s])
    <3>2. /\ plan[s] \in Submitted /\ a \in Items(plan[s]) /\ a \notin plan[s].general
          /\ state[s][a] = "launching" /\ place[s] # "absent"
      BY <3>1 DEF In, NeedsSlot, ScheduleInv, PlaceInv
    <3>3. ActiveLimit(plan[s]) = GuardPolicy.active
      BY <3>1, <3>2, BatchLimit
    <3>4. GuardPolicy.active \in Nat /\ GuardPolicy.hard \in Nat
          /\ GuardPolicy.active <= GuardPolicy.hard
      BY <3>1, SchedulerAssumption DEF Policy
    <3>5. Holding = {x \in Holding : x[1] = s}
      <4>1. \A t \in Schedules, b \in Assignments : state[t][b] = "running" => t = s
        BY <3>1, UnfinishedExecutes DEF Unfinished
      <4> QED  BY <4>1 DEF Holding
    <3>6. slots = Cardinality(children) /\ IsFiniteSet(children)
      BY <3>2, <3>5, HeldBy DEF SchedulerInv, SlotInv
    <3>7. IsFiniteSet(busy) /\ a \in busy
      BY <3>2, PlanShape, FS_Subset DEF Busy
    <3>8. children \in SUBSET (busy \ {a})
      BY <3>2 DEF In, Busy
    <3>9. Cardinality(busy) <= GuardPolicy.active
      BY <3>1, <3>3 DEF ScheduleInv, BatchInv
    <3> HIDE DEF children, busy
    <3>10. IsFiniteSet(busy \ {a}) /\ Cardinality(busy \ {a}) = Cardinality(busy) - 1
      BY <3>7, FS_RemoveElement
    <3>11. Cardinality(children) <= Cardinality(busy \ {a})
      BY <3>8, <3>10, FS_Subset
    <3>12. Cardinality(busy) \in Nat /\ Cardinality(children) \in Nat
      BY <3>6, <3>7, FS_CardinalityType
    <3> QED  BY <3>4, <3>6, <3>9, <3>10, <3>11, <3>12 DEF SlotFree
  <2> QED  BY <2>1, <2>2 DEF SlotsAreSound
<1> QED  BY <1>1, InvariantHolds, PTL

=============================================================================
