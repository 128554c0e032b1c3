----------------------------- MODULE WorkProofs -----------------------------
(***************************************************************************)
(* Proofs about the work of the agents and the knowledge it rests on: the   *)
(* routing of a task, the calls of models, the executors of the workbench,  *)
(* the import and the release of knowledge, professional work, and the      *)
(* distillation of memory.                                                  *)
(***************************************************************************)
EXTENDS Integers, Sequences, Services, ProofLemmas, TLAPS

-----------------------------------------------------------------------------
(* Routing.                                                                 *)

\* The rounds of _validate_acyclic: R[n] is what is left after n of them.
Rounds(R, deps, k) ==
  /\ R \in [0..k -> SUBSET DOMAIN deps]
  /\ R[0] = DOMAIN deps
  /\ \A n \in 1..k : R[n] = {a \in R[n - 1] : deps[a] \cap R[n - 1] # {}}

\* An order of the assignments in which each follows its dependencies.
Orders(rank, deps, k) ==
  /\ rank \in [DOMAIN deps -> 1..k]
  /\ \A a \in DOMAIN deps : \A b \in deps[a] : rank[b] < rank[a]

\* The recursion of the rounds has a solution, and Cyclic is about it.
LEMMA CyclicByRounds ==
    ASSUME NEW deps, IsFiniteSet(DOMAIN deps)
    PROVE  \E R : /\ Rounds(R, deps, Cardinality(DOMAIN deps))
                  /\ Main!Cyclic(deps) <=> R[Cardinality(DOMAIN deps)] # {}
<1> DEFINE k == Cardinality(DOMAIN deps)
           Left(T) == {a \in T : deps[a] \cap T # {}}
           G == [T \in SUBSET DOMAIN deps |-> Left(T)]
           Body(f) == [n \in 0..k |->
                        IF n = 0 THEN DOMAIN deps
                        ELSE {a \in f[n - 1] : deps[a] \cap f[n - 1] # {}}]
           Remaining == CHOOSE f : f = Body(f)
<1>1. k \in Nat
  BY FS_CardinalityType
<1>2. Main!Cardinality(DOMAIN deps) = k
  BY DEF Main!Cardinality, Cardinality
<1>3. Main!Cyclic(deps) <=> Remaining[k] # {}
  BY <1>2 DEF Main!Cyclic
<1>4. \E R : R = Body(R)
  <2>1. PICK D : D = SUBSET DOMAIN deps
    OBVIOUS
  <2>2. PICK d \in D : d = DOMAIN deps
    BY <2>1
  <2>3. G \in [D -> D]
    BY <2>1
  <2>4. PICK R \in [0..k -> D] : R[0] = d /\ \A n \in 1..k : R[n] = G[R[n - 1]]
    <3>1. PICK m \in Nat : m = k
      BY <1>1
    <3>2. PICK g \in [D -> D] : g = G
      BY <2>3
    <3> HIDE DEF k, G
    <3>3. \E R : Iterated(R, D, g, d, m)
      BY Iteration
    <3> QED  BY ONLY <3>1, <3>2, <3>3 DEF Iterated
  <2> HIDE DEF k, G
  <2>5. ASSUME NEW n \in 0..k
        PROVE  R[n] = IF n = 0 THEN DOMAIN deps
                      ELSE {a \in R[n - 1] : deps[a] \cap R[n - 1] # {}}
    <3>1. CASE n = 0
      BY <2>2, <2>4, <3>1
    <3>2. CASE n # 0
      <4>1. n \in 1..k /\ n - 1 \in 0..k
        BY <1>1, <3>2
      <4>2. PICK T : T = R[n - 1]
        OBVIOUS
      <4>3. T \in SUBSET DOMAIN deps /\ R[n] = G[T]
        BY <2>1, <2>4, <4>1, <4>2
      <4>4. R[n] = Left(T)
        BY <4>3 DEF G
      <4> QED  BY <3>2, <4>2, <4>4
    <3> QED  BY <3>1, <3>2
  <2>6. R = Body(R)
    BY <2>4, <2>5
  <2> QED  BY <2>6
<1>5. Remaining = Body(Remaining)
  <2> HIDE DEF Body
  <2> QED  BY <1>4
<1> HIDE DEF Remaining
<1>6. PICK R : R = Remaining
  OBVIOUS
<1>7. DOMAIN R = 0..k /\ R[0] = DOMAIN deps
  BY <1>1, <1>5, <1>6
<1>8. \A n \in 1..k : R[n] = {a \in R[n - 1] : deps[a] \cap R[n - 1] # {}}
  <2>1. R = Body(R)
    BY <1>5, <1>6, Zenon
  <2>2. PICK m \in Nat : m = k
    BY <1>1
  <2>3. R = [n \in 0..m |-> IF n = 0 THEN DOMAIN deps
                           ELSE {a \in R[n - 1] : deps[a] \cap R[n - 1] # {}}]
    BY <2>1, <2>2
  <2>4. \A n \in 1..m : R[n] = {a \in R[n - 1] : deps[a] \cap R[n - 1] # {}}
    <3> TAKE n \in 1..m
    <3>1. n \in 0..m /\ n # 0
      BY <2>2
    <3> QED  BY ONLY <2>3, <3>1
  <2> QED  BY <2>2, <2>4
<1>9. \A n \in 0..k : R[n] \subseteq DOMAIN deps
  <2> DEFINE N == {n \in Nat : n <= k => R[n] \subseteq DOMAIN deps}
  <2>1. 0 \in N
    BY <1>7
  <2>2. ASSUME NEW n \in N PROVE n + 1 \in N
    <3> SUFFICES ASSUME n + 1 <= k PROVE R[n + 1] \subseteq DOMAIN deps
      OBVIOUS
    <3>1. n \in Nat /\ n + 1 \in 1..k /\ (n + 1) - 1 = n /\ n <= k
      BY <1>1
    <3>2. R[n + 1] \subseteq R[n]
      <4>1. PICK m \in 1..k : m = n + 1
        BY <3>1
      <4>2. R[m] \subseteq R[m - 1]
        BY <1>8
      <4> QED  BY <3>1, <4>1, <4>2
    <3> QED  BY <3>1, <3>2
  <2>3. N \in SUBSET Nat
    OBVIOUS
  <2> HIDE DEF N
  <2>4. N = Nat
    BY <2>1, <2>2, <2>3, NumberInduction
  <2> QED  BY <1>1, <2>4 DEF N
<1>10. R = [n \in 0..k |-> R[n]]
  BY <1>5, <1>6, <1>7
<1>11. Rounds(R, deps, k)
  BY <1>7, <1>8, <1>9, <1>10 DEF Rounds
<1> QED  BY <1>3, <1>6, <1>11

\* What a round leaves has more assignments before it than rounds have passed.
LEMMA OrderEndsRounds ==
    ASSUME NEW deps, NEW k \in Nat, NEW R, Rounds(R, deps, k), NEW rank, Orders(rank, deps, k)
    PROVE  R[k] = {}
<1> DEFINE N == {n \in Nat : n <= k => \A a \in R[n] : a \in DOMAIN deps /\ rank[a] > n}
<1>1. 0 \in N
  BY DEF Rounds, Orders
<1>2. ASSUME NEW n \in N PROVE n + 1 \in N
  <2> SUFFICES ASSUME n + 1 <= k, NEW a \in R[n + 1]
               PROVE  a \in DOMAIN deps /\ rank[a] > n + 1
    OBVIOUS
  <2>1. PICK m \in 1..k : m = n + 1 /\ m - 1 = n
    OBVIOUS
  <2>2. a \in R[n] /\ deps[a] \cap R[n] # {}
    BY <2>1 DEF Rounds
  <2>3. PICK b : b \in deps[a] /\ b \in R[n]
    BY <2>2
  <2>4. a \in DOMAIN deps /\ b \in DOMAIN deps /\ rank[b] > n
    BY <2>2, <2>3
  <2>5. rank[b] < rank[a] /\ rank[a] \in 1..k /\ rank[b] \in 1..k
    BY <2>3, <2>4 DEF Orders
  <2> QED  BY <2>4, <2>5
<1>3. N \in SUBSET Nat
  OBVIOUS
<1> HIDE DEF N
<1>4. N = Nat
  BY <1>1, <1>2, <1>3, NumberInduction
<1>5. \A a \in R[k] : a \in DOMAIN deps /\ rank[a] > k
  BY <1>4 DEF N
<1> QED  BY <1>5 DEF Orders

\* The round in which an assignment goes orders it after its dependencies.
LEMMA RoundsGiveOrder ==
    ASSUME NEW deps, NEW k \in Nat, NEW R, Rounds(R, deps, k), R[k] = {},
           \A a \in DOMAIN deps : deps[a] \subseteq DOMAIN deps
    PROVE  \E rank : Orders(rank, deps, k)
<1> DEFINE Gone(a, n) == a \notin R[n] /\ \A m \in 0..k : a \notin R[m] => n <= m
<1>1. ASSUME NEW a \in DOMAIN deps PROVE \E n \in 1..k : Gone(a, n)
  <2> DEFINE N == {n \in 0..k : a \notin R[n]}
  <2>1. k \in N /\ N \in SUBSET Nat /\ 0 \notin N
    BY DEF Rounds
  <2>2. PICK n \in N : \A m \in N : n <= m
    <3> HIDE DEF N
    <3> QED  BY <2>1, LeastNat
  <2> QED  BY <2>1, <2>2
<1> DEFINE rank == [a \in DOMAIN deps |-> CHOOSE n \in 1..k : Gone(a, n)]
<1>2. \A a \in DOMAIN deps : rank[a] \in 1..k /\ Gone(a, rank[a])
  <2> HIDE DEF Gone
  <2> QED  BY <1>1
<1>3. rank \in [DOMAIN deps -> 1..k]
  BY <1>2
<1> HIDE DEF rank
<1>4. ASSUME NEW a \in DOMAIN deps, NEW b \in deps[a] PROVE rank[b] < rank[a]
  <2>1. b \in DOMAIN deps
    OBVIOUS
  <2>2. PICK n \in 1..k : n = rank[a] /\ Gone(a, n)
    BY <1>2
  <2>3. n - 1 \in 0..k /\ ~(n <= n - 1)
    OBVIOUS
  <2>4. a \in R[n - 1]
    BY <2>2, <2>3
  <2>5. deps[a] \cap R[n - 1] = {}
    BY <2>2, <2>4 DEF Rounds
  <2>6. b \notin R[n - 1]
    BY <2>5
  <2>7. rank[b] \in 1..k /\ rank[b] <= n - 1
    BY <1>2, <2>1, <2>3, <2>6
  <2> QED  BY <2>2, <2>7
<1> QED  BY <1>3, <1>4 DEF Orders

\* Assignments depend on each other in a cycle exactly if they have no order.
LEMMA CyclicIsUnordered ==
    ASSUME NEW deps, IsFiniteSet(DOMAIN deps),
           \A a \in DOMAIN deps : deps[a] \subseteq DOMAIN deps
    PROVE  ~Main!Cyclic(deps) <=> \E rank : Orders(rank, deps, Cardinality(DOMAIN deps))
<1>1. PICK k \in Nat : k = Cardinality(DOMAIN deps)
  BY FS_CardinalityType
<1>2. PICK R : Rounds(R, deps, k) /\ (Main!Cyclic(deps) <=> R[k] # {})
  BY <1>1, CyclicByRounds
<1>3. ASSUME NEW rank, Orders(rank, deps, k) PROVE R[k] = {}
  BY <1>2, <1>3, OrderEndsRounds
<1>4. ASSUME R[k] = {} PROVE \E rank : Orders(rank, deps, k)
  BY <1>2, <1>4, RoundsGiveOrder
<1> QED  BY <1>1, <1>2, <1>3, <1>4

\* The result of the main graph, once it has one.
RoutedInv ==
  routed.phase # "RECEIVED" =>
    \E task \in MainTasks, s \in Signals : routed = Main!MainResult(task, s)

LEMMA RoutedInit == Main!Init => RoutedInv
BY DEF Main!Init, Main!Ended, RoutedInv

LEMMA RoutedKeeps == RoutedInv /\ [Main!Next]_(Main!mainVars) => RoutedInv'
<1> SUFFICES ASSUME RoutedInv, [Main!Next]_(Main!mainVars) PROVE RoutedInv'
  OBVIOUS
<1>1. CASE UNCHANGED Main!mainVars
  BY <1>1 DEF Main!mainVars, RoutedInv
<1>2. ASSUME NEW task \in MainTasks, NEW s \in Signals, Main!Run(task, s) PROVE RoutedInv'
  BY <1>2 DEF Main!Run, RoutedInv
<1>3. ASSUME NEW task \in MainTasks, NEW inputs \in Children, Main!Prepare(task, inputs)
      PROVE  RoutedInv'
  BY <1>3 DEF Main!Prepare, RoutedInv
<1>4. ASSUME NEW task \in MainTasks, NEW q \in EntryRequests, Main!StartEntry(task, q)
      PROVE  RoutedInv'
  BY <1>4 DEF Main!StartEntry, RoutedInv
<1> QED  BY <1>1, <1>2, <1>3, <1>4 DEF Main!Next

\* Signals with assignments are never routed without a review, so of valid signals
\* of the task only a cycle is refused.
LEMMA DispatchedUnlessCyclic ==
    ASSUME NEW task, NEW s, Main!ValidSignals(s), s.task = task.id
    PROVE  /\ Main!MainResult(task, s).signals = s
           /\ Main!MainResult(task, s).phase = "DISPATCH_READY" <=> ~Main!Cyclic(s.deps)
<1>1. s.general => DOMAIN s.deps = {}
  BY DEF Main!ValidSignals
<1>2. ~s.general => Main!Route(s).review
  <2> SUFFICES ASSUME ~s.general PROVE Main!Route(s).review
    OBVIOUS
  <2>1. CASE s.human
    BY <2>1 DEF Main!Route
  <2>2. CASE ~s.human /\ Main!Cardinality(DOMAIN s.deps) = 1
    BY <2>2 DEF Main!Route
  <2>3. CASE ~s.human /\ Main!Cardinality(DOMAIN s.deps) # 1
    BY <2>3 DEF Main!Route
  <2> QED  BY <2>1, <2>2, <2>3
<1>3. CASE Main!Cyclic(s.deps)
  BY <1>3 DEF Main!MainResult, Main!Ended
<1>4. CASE ~Main!Cyclic(s.deps)
  <2>1. Main!MainResult(task, s) =
          [phase |-> "DISPATCH_READY", task |-> task.id, signals |-> s, route |-> Main!Route(s)]
    BY <1>1, <1>2, <1>4 DEF Main!MainResult, Main!Ended
  <2> QED  BY <1>4, <2>1
<1> QED  BY <1>3, <1>4

\* The rounds that look for a cycle dispatch exactly what can be put in order:
\* nothing the scheduler could never launch, and nothing else is refused
\* (routing.py, _validate_acyclic).
THEOREM RoutedInOrder ==
    ASSUME \A s \in Signals : IsFiniteSet(DOMAIN s.deps)
    PROVE  Main!Spec => []RoutedIsOrdered
<1>1. RoutedInv => RoutedIsOrdered
  <2> SUFFICES ASSUME RoutedInv, routed.phase # "RECEIVED", Main!ValidSignals(routed.signals),
                      routed.signals.task = routed.task
               PROVE  LET deps == routed.signals.deps
                          n == Main!Cardinality(DOMAIN deps) IN
                      routed.phase = "DISPATCH_READY" <=>
                        \E rank \in [DOMAIN deps -> 1..n] :
                          \A a \in DOMAIN deps : \A b \in deps[a] : rank[b] < rank[a]
    BY DEF RoutedIsOrdered, Main!RoutedIsOrdered
  <2>1. PICK task \in MainTasks, s \in Signals : routed = Main!MainResult(task, s)
    BY DEF RoutedInv
  <2>2. routed.signals = s /\ routed.task = task.id
    BY <2>1 DEF Main!MainResult, Main!Ended
  <2>3. routed.phase = "DISPATCH_READY" <=> ~Main!Cyclic(s.deps)
    BY <2>1, <2>2, DispatchedUnlessCyclic
  <2>4. PICK deps : deps = s.deps
    OBVIOUS
  <2>5. Main!Cardinality(DOMAIN deps) = Cardinality(DOMAIN deps)
    BY DEF Main!Cardinality, Cardinality
  <2>6. /\ IsFiniteSet(DOMAIN deps)
        /\ \A a \in DOMAIN deps : deps[a] \subseteq DOMAIN deps
    BY <2>2, <2>4 DEF Main!ValidSignals
  <2>7. ~Main!Cyclic(deps) <=> \E rank : Orders(rank, deps, Cardinality(DOMAIN deps))
    BY <2>6, CyclicIsUnordered
  <2> QED  BY <2>2, <2>3, <2>4, <2>5, <2>7 DEF Orders
<1> QED  BY <1>1, RoutedInit, RoutedKeeps, PTL DEF Main!Spec

-----------------------------------------------------------------------------
(* Model calls.                                                             *)

LEMMA InfRefusal == \A rules : Inf!FirstRefusal(rules) = FirstRefusal(rules) /\ Inf!None = None
BY DEF Inf!FirstRefusal, FirstRefusal, Inf!None, None

\* A configuration that loads has a consistent binding.
LEMMA LoadedBinding ==
    ASSUME NEW cfg, Inf!LoadError(cfg) = Inf!None
    PROVE  Inf!ValidBinding(cfg.binding)
<1> DEFINE a1 == ~cfg.yaml
           a2 == Inf!FileError(cfg.file) # Inf!None
           a4 == cfg.catalog \in {"absolute", "outside"}
           a5 == Inf!FileError(cfg.catalog) # Inf!None
           a6 == ~Inf!ValidCatalog
           a7 == ~Inf!ValidBinding(cfg.binding)
           a8 == cfg.binding.environment \in {"STAGING", "PRODUCTION"}
           a9 == cfg.expected # Inf!None /\ cfg.binding.environment # cfg.expected
           a10 == Inf!BindingRejected(cfg.binding)
           a11 == Inf!FileError(cfg.envFile) # Inf!None
           a12 == Inf!EnvironmentError(cfg.lines) # Inf!None
           a13 == cfg.binding.enabled /\ Inf!SelectedValue(cfg) \in {Inf!None, "empty"}
           a14 == Inf!SelectedValue(cfg) = "long"
           rules == <<
             <<a1, "MODEL_CONFIG_EXTENSION_INVALID">>,
             <<a2, "MODEL_CONFIG_UNREADABLE">>,
             <<cfg.aliases, "MODEL_CONFIG_INVALID">>,
             <<a4, "MODEL_CATALOG_PATH_DENIED">>,
             <<a5, "MODEL_CATALOG_UNREADABLE">>,
             <<a6, "MODEL_CATALOG_INVALID">>,
             <<a7, "MODEL_CONFIG_INVALID">>,
             <<a8, "MODEL_ENV_SECRET_PRODUCTION_DENIED">>,
             <<a9, "MODEL_CONFIG_ENVIRONMENT_MISMATCH">>,
             <<a10, "MODEL_CONFIG_INVALID">>,
             <<a11, "MODEL_ENV_UNREADABLE">>,
             <<a12, "MODEL_ENV_INVALID">>,
             <<a13, "MODEL_CONFIG_SECRET_MISSING">>,
             <<a14, "MODEL_CONFIG_SECRET_INVALID">> >>
<1>1. Inf!LoadError(cfg) = Inf!FirstRefusal(rules)
  BY Zenon DEF Inf!LoadError
<1>2. FirstRefusal(rules) = None
  <2> HIDE DEF rules
  <2> QED  BY <1>1, InfRefusal
<1>3. a7 \in BOOLEAN
  OBVIOUS
<1> HIDE DEF a1, a2, a4, a5, a6, a7, a8, a9, a10, a11, a12, a13, a14
<1>4. /\ DOMAIN rules = 1..14 /\ rules[7][1] = a7 /\ 7 \in 1..14
      /\ \A i \in 1..14 : rules[i][2] # None
  BY DEF None
<1>5. PICK n \in Nat : n = 14
  OBVIOUS
<1> HIDE DEF rules
<1>6. \A i \in 1..n : ~rules[i][1]
  BY <1>2, <1>4, <1>5, Refused
<1>7. ~rules[7][1]
  BY <1>4, <1>5, <1>6
<1>8. ~a7
  BY <1>3, <1>4, <1>7, Zenon
<1> QED  BY <1>8 DEF a7

\* A request that is routed goes through an enabled binding to a model the
\* binding allows.
LEMMA Routed ==
    ASSUME NEW b, NEW q, Inf!RouteError(b, q) = Inf!None
    PROVE  /\ b.enabled
           /\ q.model # Inf!None => q.model \in b.allowed
           /\ Inf!SelectModel(b, q) # Inf!None
<1> DEFINE a1 == ~q.fresh
           a2 == q.binding # b.id
           a3 == ~b.enabled
           a4 == q.scope # b.scope
           a5 == ~q.network
           a6 == b.permission \notin q.permissions
           a7 == q.class \notin b.classes
           a8 == q.maxInput > b.maxInput \/ q.maxOutput > b.maxOutput
           a9 == q.model # Inf!None /\ q.model \notin b.allowed
           a10 == Inf!SelectModel(b, q) = Inf!None
           rules == <<
             <<a1, "MODEL_REGISTRY_STALE">>,
             <<a2, "MODEL_BINDING_NOT_FOUND">>,
             <<a3, "MODEL_BINDING_DISABLED">>,
             <<a4, "MODEL_SCOPE_MISMATCH">>,
             <<a5, "MODEL_NETWORK_DENIED">>,
             <<a6, "MODEL_PERMISSION_DENIED">>,
             <<a7, "MODEL_DATA_CLASS_DENIED">>,
             <<a8, "MODEL_TOKEN_LIMIT_EXCEEDED">>,
             <<a9, "MODEL_SELECTION_DENIED">>,
             <<a10, "MODEL_CAPABILITY_UNAVAILABLE">> >>
<1>1. Inf!RouteError(b, q) = Inf!FirstRefusal(rules)
  BY Zenon DEF Inf!RouteError
<1>2. FirstRefusal(rules) = None
  <2> HIDE DEF rules
  <2> QED  BY <1>1, InfRefusal
<1>3. a3 \in BOOLEAN /\ a9 \in BOOLEAN /\ a10 \in BOOLEAN
  OBVIOUS
<1> HIDE DEF a1, a2, a3, a4, a5, a6, a7, a8, a9, a10
<1>4. /\ DOMAIN rules = 1..10 /\ rules[3][1] = a3 /\ rules[9][1] = a9 /\ rules[10][1] = a10
      /\ \A i \in 1..10 : rules[i][2] # None
  BY DEF None
<1>5. PICK n \in Nat : n = 10
  OBVIOUS
<1> HIDE DEF rules
<1>6. \A i \in 1..n : ~rules[i][1]
  BY <1>2, <1>4, <1>5, Refused
<1>7. ~rules[3][1] /\ ~rules[9][1] /\ ~rules[10][1]
  BY <1>5, <1>6
<1>8. ~a3 /\ ~a9 /\ ~a10
  BY <1>3, <1>4, <1>7, Zenon
<1> QED  BY <1>8 DEF a3, a9, a10

\* The profile of such a request is published and is that of the model.
LEMMA ProfileFits ==
    ASSUME NEW b, NEW q, Inf!ProfileError(b, q) = Inf!None
    PROVE  /\ q.profile \in Inf!Published
           /\ Inf!SelectModel(b, q) = Profiles[q.profile].model
<1> DEFINE a1 == q.profile \notin Inf!Published
           a2 == ~q.profileFresh
           a3 == Inf!SelectModel(b, q) # Profiles[q.profile].model
           a4 == q.method \notin Profiles[q.profile].methods
           check == Inf!FirstRefusal(<<
             <<a1, "MODEL_PROFILE_NOT_FOUND">>,
             <<a2, "MODEL_PROFILE_STALE">>,
             <<a3, "MODEL_PROFILE_ROUTE_MISMATCH">>,
             <<a4, "MODEL_PROFILE_NOT_APPLICABLE">> >>)
<1>1. Inf!ProfileError(b, q) = check
  BY Zenon DEF Inf!ProfileError
<1>2. a1 \in BOOLEAN /\ a2 \in BOOLEAN /\ a3 \in BOOLEAN /\ a4 \in BOOLEAN
  OBVIOUS
<1>3. check = None
  <2> HIDE DEF check
  <2> QED  BY <1>1, InfRefusal
<1> HIDE DEF a1, a2, a3, a4
<1>4. /\ "MODEL_PROFILE_NOT_FOUND" # None /\ "MODEL_PROFILE_STALE" # None
      /\ "MODEL_PROFILE_ROUTE_MISMATCH" # None /\ "MODEL_PROFILE_NOT_APPLICABLE" # None
  BY DEF None
<1>5. ~a1 /\ ~a3
  BY <1>2, <1>3, <1>4, InfRefusal, FourChecks
<1> QED  BY <1>5 DEF a1, a3

\* What infer has established when it calls the provider.
LEMMA PreflightPassed ==
    ASSUME NEW b, NEW q, Inf!PreflightError(b, q) = Inf!None
    PROVE  /\ Inf!RouteError(b, q) = Inf!None
           /\ Inf!ProfileError(b, q) = Inf!None
           /\ q.formal => q.formalData /\ Profiles[q.profile].formal
<1> DEFINE a1 == ~q.instruction
           a2 == ~q.processing
           a3 == q.formal /\ (~q.formalData \/ ~Profiles[q.profile].formal)
           a4 == Profiles[q.profile].concurrency > b.concurrency
           a5 == Inf!BudgetDenies(q)
           rules == <<
             <<a1, "MODEL_INSTRUCTION_STALE">>,
             <<a2, "MODEL_CANONICAL_INPUT_INELIGIBLE">>,
             <<a3, "MODEL_FORMAL_USE_DENIED">>,
             <<a4, "MODEL_RESOURCE_LIMIT_INVALID">>,
             <<a5, "BUDGET_EXCEEDED">> >>
           check == Inf!FirstRefusal(rules)
<1>1. Inf!PreflightError(b, q) =
        IF Inf!RouteError(b, q) # Inf!None THEN Inf!RouteError(b, q)
        ELSE IF Inf!ProfileError(b, q) # Inf!None THEN Inf!ProfileError(b, q)
        ELSE check
  BY Zenon DEF Inf!PreflightError
<1>2. Inf!RouteError(b, q) = Inf!None /\ Inf!ProfileError(b, q) = Inf!None /\ check = Inf!None
  <2> HIDE DEF check
  <2> QED  BY <1>1
<1>3. FirstRefusal(rules) = None
  <2> HIDE DEF rules
  <2> QED  BY <1>2, InfRefusal
<1>4. a3 \in BOOLEAN
  OBVIOUS
<1> HIDE DEF a1, a2, a3, a4, a5, check
<1>5. /\ DOMAIN rules = 1..5 /\ rules[3][1] = a3
      /\ \A i \in 1..5 : rules[i][2] # None
  BY DEF None
<1>6. PICK n \in Nat : n = 5
  OBVIOUS
<1> HIDE DEF rules
<1>7. \A i \in 1..n : ~rules[i][1]
  BY <1>3, <1>5, <1>6, Refused
<1>8. ~a3
  <2>1. ~rules[3][1]
    BY <1>6, <1>7
  <2> QED  BY <1>4, <1>5, <2>1, Zenon
<1> QED  BY <1>2, <1>8 DEF a3

\* Ids of models are names.
Named(b) == b.fallback \in Seq(STRING)

\* The model selected for such a request is one the binding allows: the first
\* capable one of its candidates.
LEMMA SelectedAllowed ==
    ASSUME NEW b, Inf!ValidBinding(b), Named(b), NEW q,
           q.model # Inf!None => q.model \in b.allowed,
           Inf!SelectModel(b, q) # Inf!None
    PROVE  Inf!SelectModel(b, q) \in b.allowed
<1> DEFINE c == Inf!ModelCandidates(b, q)
           Able(i) == Inf!Capable(q, c[i])
           first == CHOOSE i \in DOMAIN c : Able(i) /\ \A j \in 1..(i - 1) : ~Able(j)
<1>1. (\E n \in Nat : DOMAIN c = 1..n) /\ \A i \in DOMAIN c : c[i] \in b.allowed
  <2>1. CASE q.model # Inf!None
    <3>1. c = <<q.model>>
      BY <2>1 DEF Inf!ModelCandidates
    <3>2. DOMAIN c = 1..1 /\ \A i \in DOMAIN c : c[i] = q.model
      BY <3>1
    <3> HIDE DEF c
    <3> QED  BY <2>1, <3>2
  <2>2. CASE q.model = Inf!None
    <3>1. PICK f : f = IF q.fallback THEN b.fallback ELSE <<>>
      OBVIOUS
    <3>2. c = <<b.default>> \o f
      BY <2>2, <3>1 DEF Inf!ModelCandidates
    <3>3. PICK S : S = STRING \cup {b.default}
      OBVIOUS
    <3>4. f \in Seq(S) /\ <<b.default>> \in Seq(S) /\ Len(<<b.default>>) = 1
      BY <3>1, <3>3 DEF Named
    <3>5. \A i \in 1..Len(f) : f[i] \in b.allowed
      <4>1. CASE q.fallback
        <5>1. DOMAIN b.fallback = 1..Len(b.fallback)
          BY DEF Named
        <5> QED  BY <3>1, <4>1, <5>1 DEF Inf!ValidBinding
      <4>2. CASE ~q.fallback
        BY <3>1, <4>2
      <4> QED  BY <4>1, <4>2
    <3>6. /\ DOMAIN c = 1..(1 + Len(f)) /\ Len(f) \in Nat
          /\ c[1] = b.default
          /\ \A i \in 2..(1 + Len(f)) : c[i] = f[i - 1]
      <4> HIDE DEF c
      <4> QED  BY <3>2, <3>4
    <3>7. b.default \in b.allowed
      BY DEF Inf!ValidBinding
    <3> HIDE DEF c
    <3>8. ASSUME NEW i \in DOMAIN c PROVE c[i] \in b.allowed
      <4>1. CASE i = 1
        BY <3>6, <3>7, <4>1
      <4>2. CASE i # 1
        <5>1. i \in 2..(1 + Len(f)) /\ i - 1 \in 1..Len(f)
          BY <3>6, <3>8, <4>2
        <5> QED  BY <3>5, <3>6, <5>1
      <4> QED  BY <4>1, <4>2
    <3> QED  BY <3>6, <3>8
  <2> QED  BY <2>1, <2>2
<1>2. Inf!SelectModel(b, q) = IF \E i \in DOMAIN c : Able(i) THEN c[first] ELSE Inf!None
  BY Zenon DEF Inf!SelectModel
<1> HIDE DEF c
<1>3. \E i \in DOMAIN c : Able(i)
  <2> HIDE DEF first
  <2> QED  BY <1>2
<1> DEFINE N == {i \in DOMAIN c : Able(i)}
<1>4. N \in SUBSET Nat /\ N # {}
  BY <1>1, <1>3
<1> HIDE DEF Able
<1>5. PICK i \in N : \A m \in N : i <= m
  <2> HIDE DEF N
  <2> QED  BY <1>4, LeastNat
<1>6. ASSUME NEW j \in 1..(i - 1) PROVE ~Able(j)
  <2>1. i \in DOMAIN c /\ j \in DOMAIN c /\ ~(i <= j)
    BY <1>1, <1>5, <1>6
  <2> QED  BY <1>5, <2>1
<1>7. i \in DOMAIN c /\ Able(i) /\ \A j \in 1..(i - 1) : ~Able(j)
  BY <1>5, <1>6
<1>8. first \in DOMAIN c
  BY <1>7, Zenon
<1> HIDE DEF first
<1> QED  BY <1>1, <1>2, <1>3, <1>8

-----------------------------------------------------------------------------
\* A call that got past the checks, as the gateway and the guard know it: what
\* the checks established still holds of it, and only a success that passed the
\* thresholds on formal terms is a candidate for formal use.
CallQualified(k, r) ==
    LET q == k.request IN
    /\ k = [phase |-> k.phase, request |-> q, model |-> k.model, candidate |-> k.candidate,
            passed |-> k.passed, retryable |-> k.retryable]
    /\ r.loaded /\ r.binding.enabled /\ k.model \in r.binding.allowed
    /\ q.profile \in Inf!Published
    /\ k.model = Profiles[q.profile].model
    /\ q.formal => q.formalData
    /\ k.candidate =>
         k.phase = "SUCCESS" /\ k.passed /\ q.formal /\ Profiles[q.profile].formal

CallSound(k, tokens, r) ==
    /\ k.phase \notin {"NEW", "DENIED"} => CallQualified(k, r)
    /\ tokens = IF k.phase = "AWAITING" THEN k.request.maxInput + k.request.maxOutput ELSE 0

InferenceInv ==
    /\ calls = [c \in Inferences |-> calls[c]]
    /\ guard = [calls |-> guard.calls, tokens |-> guard.tokens, reserved |-> guard.reserved]
    /\ guard.reserved = [c \in Inferences |-> guard.reserved[c]]
    /\ runtime.loaded => Inf!ValidBinding(runtime.binding) /\ Named(runtime.binding)
    /\ \A c \in Inferences : CallSound(calls[c], guard.reserved[c], runtime)

LEMMA InferenceInit == Inf!Init => InferenceInv
<1> SUFFICES ASSUME Inf!Init PROVE InferenceInv
  OBVIOUS
<1>1. \A c \in Inferences : calls[c].phase = "NEW" /\ guard.reserved[c] = 0
  BY DEF Inf!Init, Inf!NewCall
<1>2. \A c \in Inferences : CallSound(calls[c], guard.reserved[c], runtime)
  BY <1>1 DEF CallSound
<1> QED  BY <1>2 DEF InferenceInv, Inf!Init, Inf!NoRuntime

\* One call and its reservation change.
LEMMA OneCallChanges ==
    ASSUME InferenceInv, NEW c \in Inferences, NEW k, NEW tokens,
           runtime' = runtime,
           calls' = [calls EXCEPT ![c] = k],
           guard' = [calls |-> guard'.calls, tokens |-> guard'.tokens, reserved |-> guard'.reserved],
           guard'.reserved = [guard.reserved EXCEPT ![c] = tokens],
           CallSound(k, tokens, runtime)
    PROVE  InferenceInv'
<1>1. /\ \A d \in Inferences : calls'[d] = IF d = c THEN k ELSE calls[d]
      /\ \A d \in Inferences : guard'.reserved[d] = IF d = c THEN tokens ELSE guard.reserved[d]
      /\ calls' = [d \in Inferences |-> calls'[d]]
      /\ guard'.reserved = [d \in Inferences |-> guard'.reserved[d]]
  BY DEF InferenceInv
<1>2. ASSUME NEW d \in Inferences PROVE CallSound(calls'[d], guard'.reserved[d], runtime')
  <2>1. CASE d = c
    BY <1>1, <2>1
  <2>2. CASE d # c
    BY <1>1, <2>2 DEF InferenceInv
  <2> QED  BY <2>1, <2>2
<1> QED  BY <1>1, <1>2 DEF InferenceInv

LEMMA LoadKeeps ==
    ASSUME InferenceInv, NEW cfg \in Configurations, Named(cfg.binding), Inf!Load(cfg)
    PROVE  InferenceInv'
<1>1. Inf!LoadError(cfg) = Inf!None /\ ~runtime.loaded /\ UNCHANGED <<calls, guard>>
  BY DEF Inf!Load
<1>2. Inf!ValidBinding(cfg.binding)
  BY <1>1, LoadedBinding
<1>3. runtime'.binding = cfg.binding /\ runtime'.loaded
  BY DEF Inf!Load
<1>4. ASSUME NEW c \in Inferences PROVE CallSound(calls[c], guard.reserved[c], runtime')
  <2>1. CallSound(calls[c], guard.reserved[c], runtime)
    BY DEF InferenceInv
  <2> QED  BY <1>1, <2>1 DEF CallSound, CallQualified
<1> QED  BY <1>1, <1>2, <1>3, <1>4 DEF InferenceInv

LEMMA DenyKeeps ==
    ASSUME InferenceInv, NEW c \in Inferences, NEW q, Inf!Deny(c, q)
    PROVE  InferenceInv'
<1>1. PICK k : k = [phase |-> "DENIED"]
  OBVIOUS
<1>2. calls' = [calls EXCEPT ![c] = k] /\ runtime' = runtime /\ guard' = guard
  BY <1>1 DEF Inf!Deny
<1>3. CallSound(calls[c], guard.reserved[c], runtime) /\ calls[c].phase = "NEW"
  BY DEF InferenceInv, Inf!Deny
<1>4. PICK z : z = guard.reserved[c]
  OBVIOUS
<1>5. CallSound(k, z, runtime)
  BY <1>1, <1>3, <1>4 DEF CallSound
<1>6. /\ guard' = [calls |-> guard'.calls, tokens |-> guard'.tokens, reserved |-> guard'.reserved]
      /\ guard'.reserved = [guard.reserved EXCEPT ![c] = z]
  BY <1>2, <1>4 DEF InferenceInv
<1> QED  BY <1>2, <1>5, <1>6, OneCallChanges

\* What is known of a call that begins.
LEMMA BegunQualified ==
    ASSUME InferenceInv, runtime.loaded, NEW q, NEW phase \in {"AWAITING", "FAILED"},
           Inf!PreflightError(runtime.binding, q) = Inf!None
    PROVE  CallQualified(Inf!Begun(q, phase), runtime)
<1> DEFINE b == runtime.binding
           k == Inf!Begun(q, phase)
<1>1. Inf!ValidBinding(b) /\ Named(b)
  BY DEF InferenceInv
<1>2. /\ Inf!RouteError(b, q) = Inf!None /\ Inf!ProfileError(b, q) = Inf!None
      /\ q.formal => q.formalData /\ Profiles[q.profile].formal
  BY PreflightPassed
<1>3. /\ b.enabled
      /\ q.model # Inf!None => q.model \in b.allowed
      /\ Inf!SelectModel(b, q) # Inf!None
  BY <1>2, Routed
<1>4. Inf!SelectModel(b, q) \in b.allowed
  BY <1>1, <1>3, SelectedAllowed
<1>5. q.profile \in Inf!Published /\ Inf!SelectModel(b, q) = Profiles[q.profile].model
  BY <1>2, ProfileFits
<1>6. /\ k = [phase |-> k.phase, request |-> k.request, model |-> k.model,
              candidate |-> k.candidate, passed |-> k.passed, retryable |-> k.retryable]
      /\ k.request = q /\ k.model = Inf!SelectModel(b, q) /\ ~k.candidate
  BY DEF Inf!Begun
<1> HIDE DEF k
<1> QED  BY <1>2, <1>3, <1>4, <1>5, <1>6 DEF CallQualified, k

LEMMA InferKeeps ==
    ASSUME InferenceInv, NEW c \in Inferences, NEW q, Inf!Infer(c, q)
    PROVE  InferenceInv'
<1>1. /\ runtime.loaded /\ runtime' = runtime /\ calls[c].phase = "NEW"
      /\ Inf!PreflightError(runtime.binding, q) = Inf!None
  BY DEF Inf!Infer
<1>2. guard.reserved[c] = 0
  BY <1>1 DEF InferenceInv, CallSound
<1>3. CASE Inf!ProviderRefuses(q)
  <2>1. PICK k : k = Inf!Begun(q, "FAILED")
    OBVIOUS
  <2>2. PICK z : z = 0
    OBVIOUS
  <2>3. CallQualified(k, runtime) /\ k.phase = "FAILED"
    BY <1>1, <2>1, BegunQualified DEF Inf!Begun
  <2>4. CallSound(k, z, runtime)
    BY <2>2, <2>3 DEF CallSound
  <2>5. calls' = [calls EXCEPT ![c] = k] /\ guard' = [guard EXCEPT !.calls = @ + 1]
    BY <1>3, <2>1 DEF Inf!Infer
  <2>6. /\ guard' = [calls |-> guard'.calls, tokens |-> guard'.tokens, reserved |-> guard'.reserved]
        /\ guard'.reserved = [guard.reserved EXCEPT ![c] = z]
    BY <1>2, <2>2, <2>5 DEF InferenceInv
  <2> QED  BY <1>1, <2>4, <2>5, <2>6, OneCallChanges
<1>4. CASE ~Inf!ProviderRefuses(q)
  <2>1. PICK k : k = Inf!Begun(q, "AWAITING")
    OBVIOUS
  <2>2. PICK z : z = q.maxInput + q.maxOutput
    OBVIOUS
  <2>3. CallQualified(k, runtime) /\ k.phase = "AWAITING" /\ k.request = q
    BY <1>1, <2>1, BegunQualified DEF Inf!Begun
  <2>4. CallSound(k, z, runtime)
    BY <2>2, <2>3 DEF CallSound
  <2>5. /\ calls' = [calls EXCEPT ![c] = k]
        /\ guard' = [guard EXCEPT !.calls = @ + 1, !.reserved[c] = z]
    BY <1>4, <2>1, <2>2 DEF Inf!Infer
  <2>6. /\ guard' = [calls |-> guard'.calls, tokens |-> guard'.tokens, reserved |-> guard'.reserved]
        /\ guard'.reserved = [guard.reserved EXCEPT ![c] = z]
    BY <2>5 DEF InferenceInv
  <2> QED  BY <1>1, <2>4, <2>5, <2>6, OneCallChanges
<1> QED  BY <1>3, <1>4

\* A call that ends gives its reservation back and keeps what it rests on.
LEMMA CallEnded ==
    ASSUME InferenceInv, NEW c \in Inferences, NEW k, NEW n, calls[c].phase = "AWAITING",
           k.phase \in {"SUCCESS", "PARTIAL_SUCCESS", "FAILED", "TIMEOUT", "CANCELLED"},
           k = [phase |-> k.phase, request |-> calls[c].request, model |-> calls[c].model,
                candidate |-> k.candidate, passed |-> k.passed, retryable |-> k.retryable],
           k.candidate => /\ k.phase = "SUCCESS" /\ k.passed /\ k.request.formal
                          /\ Profiles[k.request.profile].formal,
           runtime' = runtime, calls' = [calls EXCEPT ![c] = k], guard' = Inf!Charge(c, n)
    PROVE  InferenceInv'
<1>1. CallQualified(calls[c], runtime)
  BY DEF InferenceInv, CallSound
<1>2. PICK z : z = 0
  OBVIOUS
<1>3. k.request = calls[c].request /\ k.model = calls[c].model
  OBVIOUS
<1>4. CallQualified(k, runtime)
  BY <1>1, <1>3 DEF CallQualified
<1>5. CallSound(k, z, runtime)
  BY <1>2, <1>4 DEF CallSound
<1>6. guard' = [guard EXCEPT !.reserved[c] = 0, !.tokens = @ + n]
  BY DEF Inf!Charge
<1>7. /\ guard' = [calls |-> guard'.calls, tokens |-> guard'.tokens, reserved |-> guard'.reserved]
      /\ guard'.reserved = [guard.reserved EXCEPT ![c] = z]
  BY <1>2, <1>6 DEF InferenceInv
<1> QED  BY <1>5, <1>7, OneCallChanges

\* What a result is made of.
LEMMA ResultFields ==
    ASSUME InferenceInv, NEW c \in Inferences, calls[c].phase = "AWAITING",
           NEW status, NEW formal, NEW retryable
    PROVE  Inf!Result(c, status, formal, retryable) =
             [phase |-> status, request |-> calls[c].request, model |-> calls[c].model,
              candidate |-> formal, passed |-> calls[c].passed, retryable |-> retryable]
<1>1. CallQualified(calls[c], runtime)
  BY DEF InferenceInv, CallSound
<1>2. PICK k : k = calls[c]
  OBVIOUS
<1>3. PICK x, q, m, f, p, r :
         x = k.phase /\ q = k.request /\ m = k.model /\ f = k.candidate /\ p = k.passed
         /\ r = k.retryable
  OBVIOUS
<1>4. k = [phase |-> x, request |-> q, model |-> m, candidate |-> f, passed |-> p,
           retryable |-> r]
  BY <1>1, <1>2, <1>3 DEF CallQualified
<1>5. Inf!Result(c, status, formal, retryable) =
        [k EXCEPT !.phase = status, !.candidate = formal, !.retryable = retryable]
  BY <1>2 DEF Inf!Result
<1>6. PICK k0 : k0 = [phase |-> x, request |-> q, model |-> m, candidate |-> f, passed |-> p,
                      retryable |-> r]
  OBVIOUS
<1>7. [k0 EXCEPT !.phase = status] =
        [phase |-> status, request |-> q, model |-> m, candidate |-> f, passed |-> p,
         retryable |-> r]
  BY ONLY <1>6
<1>8. PICK k1 : k1 = [phase |-> status, request |-> q, model |-> m, candidate |-> f,
                      passed |-> p, retryable |-> r]
  OBVIOUS
<1>9. [k1 EXCEPT !.candidate = formal] =
        [phase |-> status, request |-> q, model |-> m, candidate |-> formal, passed |-> p,
         retryable |-> r]
  BY ONLY <1>8
<1>11. PICK k2 : k2 = [phase |-> status, request |-> q, model |-> m, candidate |-> formal,
                       passed |-> p, retryable |-> r]
  OBVIOUS
<1>12. [k2 EXCEPT !.retryable = retryable] =
        [phase |-> status, request |-> q, model |-> m, candidate |-> formal, passed |-> p,
         retryable |-> retryable]
  BY ONLY <1>11
<1>10. k = k0
  BY ONLY <1>4, <1>6
<1>13. [k EXCEPT !.phase = status, !.candidate = formal, !.retryable = retryable] =
         [[[k EXCEPT !.phase = status] EXCEPT !.candidate = formal] EXCEPT
           !.retryable = retryable]
  OBVIOUS
<1>14. [k EXCEPT !.phase = status] = k1
  BY ONLY <1>7, <1>8, <1>10
<1>15. [k1 EXCEPT !.candidate = formal] = k2
  BY ONLY <1>9, <1>11
<1>16. Inf!Result(c, status, formal, retryable) = [k2 EXCEPT !.retryable = retryable]
  BY ONLY <1>5, <1>13, <1>14, <1>15
<1>17. q = calls[c].request /\ m = calls[c].model /\ p = calls[c].passed
  BY ONLY <1>2, <1>3
<1> QED  BY ONLY <1>12, <1>16, <1>17

LEMMA TimeoutAndCancelKeep ==
    ASSUME InferenceInv, NEW c \in Inferences, Inf!Timeout(c) \/ Inf!Cancel(c)
    PROVE  InferenceInv'
<1>1. PICK status \in {"TIMEOUT", "CANCELLED"}, retryable \in BOOLEAN :
         calls' = [calls EXCEPT ![c] = Inf!Result(c, status, FALSE, retryable)]
  BY DEF Inf!Timeout, Inf!Cancel
<1>2. PICK n : n = 0
  OBVIOUS
<1>3. calls[c].phase = "AWAITING" /\ guard' = Inf!Charge(c, n) /\ runtime' = runtime
  BY <1>2 DEF Inf!Timeout, Inf!Cancel
<1>4. PICK no : no = FALSE
  OBVIOUS
<1>5. PICK k : k = Inf!Result(c, status, no, retryable)
  OBVIOUS
<1>6. k = [phase |-> status, request |-> calls[c].request, model |-> calls[c].model,
           candidate |-> no, passed |-> calls[c].passed, retryable |-> retryable]
  BY <1>3, <1>5, ResultFields
<1>7. /\ k = [phase |-> k.phase, request |-> calls[c].request, model |-> calls[c].model,
              candidate |-> k.candidate, passed |-> k.passed, retryable |-> k.retryable]
      /\ ~k.candidate /\ k.phase = status
  BY <1>4, <1>6
<1> QED  BY <1>1, <1>3, <1>4, <1>5, <1>7, CallEnded

\* An answer of the provider.
LEMMA AnswerKeeps ==
    ASSUME InferenceInv, NEW c \in Inferences, NEW r, Inf!Answer(c, r)
    PROVE  InferenceInv'
<1> DEFINE q == calls[c].request
           p == Profiles[q.profile]
           used == r.input + r.output
           status == Inf!ReplyStatus(q, r)
           retryable == /\ Inf!ProviderRetryable(p, Inf!FailureCode(c, r))
                        /\ \/ Inf!ProviderRaises(c, r)
                           \/ (r.finish # "stop" /\ ~Inf!UsageExceeds(q, r))
<1>1. PICK no, yes, z : no = FALSE /\ yes = TRUE /\ z = 0
  OBVIOUS
<1>2. PICK rt : rt = retryable
  OBVIOUS
<1>3. PICK fm : fm = (q.formal /\ p.formal)
  OBVIOUS
<1> HIDE DEF retryable
<1>4. /\ calls[c].phase = "AWAITING" /\ runtime' = runtime
      /\ IF Inf!ProviderRaises(c, r)
         THEN /\ guard' = Inf!Charge(c, z)
              /\ calls' = [calls EXCEPT ![c] = Inf!Result(c, "FAILED", no, rt)]
         ELSE /\ guard' = Inf!Charge(c, used)
              /\ calls' = [calls EXCEPT ![c] =
                   IF used > q.maxInput + q.maxOutput THEN Inf!Result(c, "FAILED", no, no)
                   ELSE IF status # "SUCCESS" THEN Inf!Result(c, status, no, rt)
                   ELSE IF Inf!ThresholdFailure(p, r)
                        THEN Inf!Result(c, "PARTIAL_SUCCESS", no, no)
                   ELSE [Inf!Result(c, "SUCCESS", fm, no) EXCEPT !.passed = TRUE]]
  BY <1>1, <1>2, <1>3, Zenon DEF Inf!Answer, retryable
<1>5. status \in {"SUCCESS", "PARTIAL_SUCCESS", "FAILED"}
  BY DEF Inf!ReplyStatus
<1>6. ASSUME NEW s \in {"SUCCESS", "PARTIAL_SUCCESS", "FAILED"}, NEW x, NEW n,
             guard' = Inf!Charge(c, n),
             calls' = [calls EXCEPT ![c] = Inf!Result(c, s, no, x)]
      PROVE  InferenceInv'
  <2>1. PICK k : k = Inf!Result(c, s, no, x)
    OBVIOUS
  <2>2. k = [phase |-> s, request |-> calls[c].request, model |-> calls[c].model,
             candidate |-> no, passed |-> calls[c].passed, retryable |-> x]
    BY <1>4, <2>1, ResultFields
  <2>3. /\ k = [phase |-> k.phase, request |-> calls[c].request, model |-> calls[c].model,
                candidate |-> k.candidate, passed |-> k.passed, retryable |-> k.retryable]
        /\ ~k.candidate /\ k.phase = s
    BY <1>1, <2>2
  <2> QED  BY <1>4, <1>6, <2>1, <2>3, CallEnded
<1>7. ASSUME NEW n, guard' = Inf!Charge(c, n),
             calls' = [calls EXCEPT ![c] = [Inf!Result(c, "SUCCESS", fm, no) EXCEPT !.passed = TRUE]]
      PROVE  InferenceInv'
  <2>1. PICK s : s = "SUCCESS"
    OBVIOUS
  <2>2. PICK k0 : k0 = Inf!Result(c, s, fm, no)
    OBVIOUS
  <2>3. k0 = [phase |-> s, request |-> calls[c].request, model |-> calls[c].model,
              candidate |-> fm, passed |-> calls[c].passed, retryable |-> no]
    BY <1>4, <2>2, ResultFields
  <2>4. PICK k : k = [k0 EXCEPT !.passed = TRUE]
    OBVIOUS
  <2>5. k = [phase |-> s, request |-> calls[c].request, model |-> calls[c].model,
             candidate |-> fm, passed |-> TRUE, retryable |-> no]
    BY ONLY <2>3, <2>4
  <2>6. /\ k = [phase |-> k.phase, request |-> calls[c].request, model |-> calls[c].model,
                candidate |-> k.candidate, passed |-> k.passed, retryable |-> k.retryable]
        /\ k.candidate = fm /\ k.phase = s /\ k.passed /\ k.request = q
    BY <2>5
  <2>7. k.candidate => k.request.formal /\ Profiles[k.request.profile].formal
    BY <1>3, <2>6
  <2> QED  BY <1>4, <1>7, <2>1, <2>2, <2>4, <2>6, <2>7, CallEnded
<1> HIDE DEF status, used, q, p
<1>8. CASE Inf!ProviderRaises(c, r)
  BY <1>4, <1>6, <1>8
<1>9. CASE ~Inf!ProviderRaises(c, r)
  BY <1>4, <1>5, <1>6, <1>7, <1>9
<1> QED  BY <1>8, <1>9

LEMMA InferenceStep ==
    ASSUME \A cfg \in Configurations : Named(cfg.binding), InferenceInv,
           [Inf!Next]_(Inf!modelVars)
    PROVE  InferenceInv'
<1>1. CASE UNCHANGED Inf!modelVars
  BY <1>1 DEF Inf!modelVars, InferenceInv
<1>2. ASSUME NEW c \in Inferences, Inf!LateAnswer(c) PROVE InferenceInv'
  BY <1>2 DEF Inf!LateAnswer, InferenceInv
<1> QED
  BY <1>1, <1>2, LoadKeeps, DenyKeeps, InferKeeps, TimeoutAndCancelKeep, AnswerKeeps
     DEF Inf!Next

LEMMA InferenceHolds ==
    ASSUME \A cfg \in Configurations : Named(cfg.binding)
    PROVE  Inf!Spec => []InferenceInv
BY InferenceInit, InferenceStep, PTL DEF Inf!Spec

\* Every way out of infer, in whatever order calls end, settles the reservation of
\* the call (inference.py, infer with _complete_failed_reservation and
\* _complete_reply_reservation).
THEOREM ReservationsSettled ==
    ASSUME \A cfg \in Configurations : Named(cfg.binding)
    PROVE  Inf!Spec => []ReservationsAreOutstanding
<1>1. InferenceInv => ReservationsAreOutstanding
  BY DEF InferenceInv, CallSound, ReservationsAreOutstanding, Inf!ReservationsAreOutstanding
<1> QED  BY <1>1, InferenceHolds, PTL

\* What a result offered for formal use rests on was checked before the provider was
\* called and cannot change while it answers (inference.py, _resolve and
\* _validate_reply; registry.py, _select_model).
THEOREM FormalUseQualified ==
    ASSUME \A cfg \in Configurations : Named(cfg.binding)
    PROVE  Inf!Spec => []FormalCandidateIsQualified
<1>1. InferenceInv => FormalCandidateIsQualified
  <2> SUFFICES ASSUME InferenceInv, NEW c \in Inferences, calls[c].phase \notin {"NEW", "DENIED"},
                      calls[c].candidate
               PROVE  LET q == calls[c].request
                          p == Profiles[q.profile] IN
                      /\ calls[c].phase = "SUCCESS"
                      /\ calls[c].passed
                      /\ q.formal /\ q.formalData
                      /\ p.formal /\ p.validated
                      /\ calls[c].model = p.model
                      /\ runtime.binding.enabled /\ calls[c].model \in runtime.binding.allowed
    BY DEF FormalCandidateIsQualified, Inf!FormalCandidateIsQualified
  <2>1. CallQualified(calls[c], runtime)
    BY DEF InferenceInv, CallSound
  <2> QED  BY <2>1 DEF CallQualified, Inf!Published, Inf!ValidProfile
<1> QED  BY <1>1, InferenceHolds, PTL

-----------------------------------------------------------------------------
(* Workbench executors, for any number of tasks, owners, restarts and faults,*)
(* with owners that overlap or do not.                                      *)

EventType ==
    [kind : {"STATUS", "ISSUE", "REVIEW", "RESULT"}, state : Bench!Open \cup Bench!Terminal]

RunType == [at : Bench!Label, seq : Nat, running : Nat]

-----------------------------------------------------------------------------
(* The inductive invariant.                                                 *)

\* Types of the variables the argument reads.
BenchShapeInv ==
    /\ events \in [Tasks -> Seq(EventType)]
    /\ run \in [Owners -> [Tasks -> RunType]]
    /\ bodies \in [Tasks -> Nat]

\* A task is accepted with its first event and never again.
HistoryInv ==
    \A t \in Tasks : events[t] # <<>> =>
        /\ events[t][1].state = "ACCEPTED"
        /\ \A i \in 2..Len(events[t]) : events[t][i].state # "ACCEPTED"

\* The runtime has not been started while the task shows one event only.
BodyInv ==
    \A t \in Tasks : bodies[t] <= 1 /\ (Len(events[t]) <= 1 => bodies[t] = 0)

\* The states the first n events of a task show.
Shows(t, n, s2, s3, s4) ==
    /\ Len(events[t]) >= n
    /\ n >= 1 => events[t][1].state = "ACCEPTED"
    /\ n >= 2 => events[t][2].state = s2
    /\ n >= 3 => events[t][3].state = s3
    /\ n >= 4 => events[t][4].state = s4

\* The executor's own events are the first ones, without a gap: what a step will
\* append is numbered by them.
KnowsPrefix(o, t, n) ==
    run[o][t].seq = n /\ Shows(t, n, "RUNNING", "REVIEW_REQUIRED", "RUNNING")

ExecutionInv ==
    \A o \in Owners, t \in Tasks :
        /\ run[o][t].at # "none" => events[t] # <<>>
        /\ run[o][t].at \in {"begin", "deny"} => KnowsPrefix(o, t, 1)
        /\ run[o][t].at \in {"body", "toReview", "toStop"} => KnowsPrefix(o, t, 2)
        /\ run[o][t].at = "reviewing" => KnowsPrefix(o, t, 3)
        /\ run[o][t].at = "result" => KnowsPrefix(o, t, IF Class[t] = "G0" THEN 2 ELSE 4)
        /\ run[o][t].at \in {"toReview", "toStop", "reviewing"} => Class[t] # "G0"

\* A success is the last of the events its executor wrote.
SuccessInv ==
    \A t \in Tasks : events[t] # <<>> /\ Bench!State(t) = "SUCCEEDED" =>
        LET n == IF Class[t] = "G0" THEN 2 ELSE 4
        IN Len(events[t]) = n + 1 /\ Shows(t, n, "RUNNING", "REVIEW_REQUIRED", "RUNNING")

WorkbenchInv == BenchShapeInv /\ HistoryInv /\ BodyInv /\ ExecutionInv /\ SuccessInv

\* What a reconciliation has found are created tasks, and it appends to one of them.
WatchShape(w) ==
    /\ {"mode", "todo"} \subseteq DOMAIN w
    /\ w.todo \subseteq {t \in Tasks : events[t] # <<>>}
    /\ w.mode = "append" => w.todo # {}

WatchInv ==
    /\ watch = [o \in Owners |-> watch[o]]
    /\ \A o \in Owners : WatchShape(watch[o])

-----------------------------------------------------------------------------
(* Facts about the script of the executors.                                 *)

LEMMA Labels ==
    Bench!Label = {"begin", "deny", "result", "toReview", "reviewing", "toStop", "failure",
             "failing", "rescuing", "none", "body", "rescue", "leaving"}
BY DEF Bench!Label, Bench!Script

LEMMA ScriptSteps ==
    /\ DOMAIN Bench!Script = {"begin", "deny", "result", "toReview", "reviewing", "toStop",
                        "failure", "failing", "rescuing"}
    /\ \A l \in DOMAIN Bench!Script :
          /\ Bench!Script[l].kind \in {"STATUS", "ISSUE", "REVIEW", "RESULT"}
          /\ Bench!Script[l].state \in (Bench!Open \cup Bench!Terminal) \ {"ACCEPTED"}
          /\ Bench!Script[l].state = "SUCCEEDED" <=> l = "result"
          /\ Bench!Script[l].ok \in Bench!Label
          /\ Bench!Script[l].refused \in {"rescue", "failing", "leaving"}
BY DEF Bench!Script, Bench!Label, Bench!Open, Bench!Terminal

LEMMA ScriptOrder ==
    /\ Bench!Script["begin"].ok = "body" /\ Bench!Script["begin"].state = "RUNNING"
    /\ Bench!Script["toReview"].ok = "reviewing" /\ Bench!Script["toReview"].state = "REVIEW_REQUIRED"
    /\ Bench!Script["reviewing"].ok = "result" /\ Bench!Script["reviewing"].state = "RUNNING"
    /\ Bench!Script["toStop"].ok = "failure"
    /\ \A l \in {"deny", "result", "failure", "failing", "rescuing"} : Bench!Script[l].ok = "leaving"
BY DEF Bench!Script

-----------------------------------------------------------------------------
(* What an append to the history of a task keeps.                           *)

LEMMA AppendShows ==
    ASSUME NEW h \in Seq(EventType), NEW e \in EventType
    PROVE  /\ Append(h, e) \in Seq(EventType)
           /\ Len(Append(h, e)) = Len(h) + 1
           /\ \A i \in 1..Len(h) : Append(h, e)[i] = h[i]
           /\ Append(h, e)[Len(h) + 1] = e
           /\ Append(h, e) # <<>>
OBVIOUS

\* Events that neither accept a task nor let it succeed are added to some of the
\* tasks that have not ended; the executors stay where they are.
LEMMA HistoriesGrow ==
    ASSUME WorkbenchInv, UNCHANGED <<run, bodies>>,
           events' \in [Tasks -> Seq(EventType)],
           \A t \in Tasks :
              \/ events'[t] = events[t]
              \/ \E e \in EventType :
                    /\ events[t] # <<>>
                    /\ e.state \notin {"ACCEPTED", "SUCCEEDED"}
                    /\ events'[t] = Append(events[t], e)
    PROVE  WorkbenchInv'
<1>1. ASSUME NEW t \in Tasks
      PROVE  /\ Len(events[t]) \in Nat /\ Len(events'[t]) >= Len(events[t])
             /\ \A i \in 1..Len(events[t]) : events'[t][i] = events[t][i]
             /\ events'[t] # events[t] =>
                   /\ events[t] # <<>>
                   /\ Len(events'[t]) = Len(events[t]) + 1
                   /\ events'[t][Len(events[t]) + 1].state \notin {"ACCEPTED", "SUCCEEDED"}
  <2>1. events[t] \in Seq(EventType)
    BY DEF WorkbenchInv, BenchShapeInv
  <2>2. CASE events'[t] = events[t]
    BY <2>1, <2>2
  <2>3. ASSUME NEW e \in EventType, events[t] # <<>>,
               e.state \notin {"ACCEPTED", "SUCCEEDED"},
               events'[t] = Append(events[t], e)
        PROVE  /\ Len(events[t]) \in Nat /\ Len(events'[t]) >= Len(events[t])
               /\ \A i \in 1..Len(events[t]) : events'[t][i] = events[t][i]
               /\ Len(events'[t]) = Len(events[t]) + 1
               /\ events'[t][Len(events[t]) + 1].state \notin {"ACCEPTED", "SUCCEEDED"}
    BY <2>1, <2>3, AppendShows
  <2> QED
    BY <2>2, <2>3
<1>2. BenchShapeInv'
  BY DEF WorkbenchInv, BenchShapeInv
<1>3. HistoryInv'
  <2> SUFFICES ASSUME NEW t \in Tasks, events'[t] # <<>>
               PROVE  /\ events'[t][1].state = "ACCEPTED"
                      /\ \A i \in 2..Len(events'[t]) : events'[t][i].state # "ACCEPTED"
    BY DEF HistoryInv
  <2>1. events[t] # <<>> /\ Len(events[t]) >= 1
    BY <1>1 DEF WorkbenchInv, BenchShapeInv
  <2>2. /\ events[t][1].state = "ACCEPTED"
        /\ \A i \in 2..Len(events[t]) : events[t][i].state # "ACCEPTED"
    BY <2>1 DEF WorkbenchInv, HistoryInv
  <2>3. CASE events'[t] = events[t]
    BY <2>2, <2>3
  <2>4. CASE events'[t] # events[t]
    BY <1>1, <2>1, <2>2, <2>4
  <2> QED
    BY <2>3, <2>4
<1>4. BodyInv'
  BY <1>1 DEF WorkbenchInv, BenchShapeInv, BodyInv
<1>5. ASSUME NEW t \in Tasks, NEW n \in 1..4,
             Shows(t, n, "RUNNING", "REVIEW_REQUIRED", "RUNNING")
      PROVE  Shows(t, n, "RUNNING", "REVIEW_REQUIRED", "RUNNING")'
  BY <1>1, <1>5 DEF Shows
<1>6. ExecutionInv'
  BY <1>1, <1>5 DEF WorkbenchInv, ExecutionInv, KnowsPrefix
<1>7. SuccessInv'
  <2> SUFFICES ASSUME NEW t \in Tasks, events'[t] # <<>>, Bench!State(t)' = "SUCCEEDED"
               PROVE  LET n == IF Class[t] = "G0" THEN 2 ELSE 4
                      IN /\ Len(events'[t]) = n + 1
                         /\ Shows(t, n, "RUNNING", "REVIEW_REQUIRED", "RUNNING")'
    BY DEF SuccessInv
  <2>1. events'[t] = events[t]
    BY <1>1 DEF Bench!State
  <2> QED
    BY <2>1, <1>5 DEF WorkbenchInv, SuccessInv, Bench!State
<1> QED
  BY <1>2, <1>3, <1>4, <1>6, <1>7 DEF WorkbenchInv

\* Only executors move.
LEMMA ExecutorsMove ==
    ASSUME WorkbenchInv, UNCHANGED <<events, bodies>>,
           run' \in [Owners -> [Tasks -> RunType]],
           ExecutionInv'
    PROVE  WorkbenchInv'
BY DEF WorkbenchInv, BenchShapeInv, HistoryInv, BodyInv, SuccessInv, Bench!State, Shows

\* An executor that is idle, leaving or failing promises nothing.
Failing == {"none", "leaving", "failing", "rescue", "rescuing", "failure"}

LEMMA ExecutorFails ==
    ASSUME WorkbenchInv, NEW o \in Owners, NEW t \in Tasks, NEW r \in RunType,
           r.at \in Failing, r.at # "none" => events[t] # <<>>,
           UNCHANGED <<events, bodies>>,
           run' = [run EXCEPT ![o][t] = r]
    PROVE  WorkbenchInv'
<1>1. run' \in [Owners -> [Tasks -> RunType]]
  BY DEF WorkbenchInv, BenchShapeInv
<1>2. ExecutionInv'
  BY DEF WorkbenchInv, BenchShapeInv, ExecutionInv, KnowsPrefix, Shows, Failing
<1> QED
  BY <1>1, <1>2, ExecutorsMove

-----------------------------------------------------------------------------
(* One lemma per kind of step.                                              *)

\* The reconciliation appends to a task that its scan found.
LEMMA BlockedKeeps ==
    ASSUME WorkbenchInv, WatchInv, NEW o \in Owners, Bench!AppendBlocked(o)
    PROVE  WorkbenchInv'
<1> DEFINE t == Bench!NextOrphan(o)
           e == [kind |-> "ISSUE", state |-> "BLOCKED"]
<1>1. e \in EventType
  BY DEF EventType, Bench!Terminal
<1>2. t \in Tasks /\ events[t] # <<>>
  BY DEF WatchInv, WatchShape, Bench!AppendBlocked, Bench!NextOrphan
<1>3. events' = [events EXCEPT ![t] = Append(@, e)] /\ UNCHANGED <<run, bodies>>
  BY DEF Bench!AppendBlocked, Bench!AppendEvent
<1>4. events' \in [Tasks -> Seq(EventType)]
  BY <1>1, <1>2, <1>3 DEF WorkbenchInv, BenchShapeInv
<1>5. \A u \in Tasks : u # t => events'[u] = events[u]
  BY <1>3 DEF WorkbenchInv, BenchShapeInv
<1>6. events'[t] = Append(events[t], e)
  BY <1>2, <1>3 DEF WorkbenchInv, BenchShapeInv
<1> QED
  BY <1>1, <1>2, <1>3, <1>4, <1>5, <1>6, HistoriesGrow

LEMMA CreateKeeps ==
    ASSUME WorkbenchInv, NEW o \in Owners, NEW t \in Tasks, Bench!CreateAndSchedule(o, t)
    PROVE  WorkbenchInv'
<1> DEFINE e == [kind |-> "STATUS", state |-> "ACCEPTED"]
<1>1. e \in EventType
  BY DEF EventType, Bench!Open
<1>2. /\ events[t] = <<>> /\ events' = [events EXCEPT ![t] = <<e>>]
      /\ run' = run /\ bodies' = bodies
  BY DEF Bench!CreateAndSchedule, Bench!Created
<1>3. BenchShapeInv'
  BY <1>1, <1>2 DEF WorkbenchInv, BenchShapeInv
<1>4. HistoryInv'
  <2> SUFFICES ASSUME NEW u \in Tasks, events'[u] # <<>>
               PROVE  /\ events'[u][1].state = "ACCEPTED"
                      /\ \A i \in 2..Len(events'[u]) : events'[u][i].state # "ACCEPTED"
    BY DEF HistoryInv
  <2>1. CASE u = t
    <3>1. events'[t] = <<e>>
      BY <1>2 DEF WorkbenchInv, BenchShapeInv
    <3> QED
      BY <2>1, <3>1
  <2>2. CASE u # t
    BY <1>2, <2>2 DEF WorkbenchInv, BenchShapeInv, HistoryInv
  <2> QED
    BY <2>1, <2>2
<1>5. BodyInv'
  BY <1>2 DEF WorkbenchInv, BenchShapeInv, BodyInv
<1>6. \A p \in Owners : run[p][t].at = "none"
  BY <1>2 DEF WorkbenchInv, ExecutionInv
<1>7. ExecutionInv'
  BY <1>2, <1>6 DEF WorkbenchInv, BenchShapeInv, ExecutionInv, KnowsPrefix, Shows
<1>8. SuccessInv'
  BY <1>2 DEF WorkbenchInv, BenchShapeInv, SuccessInv, Bench!State, Shows
<1> QED
  BY <1>3, <1>4, <1>5, <1>7, <1>8 DEF WorkbenchInv

\* An accepted task shows its first event only.
LEMMA ClaimKeeps ==
    ASSUME WorkbenchInv, NEW o \in Owners, NEW t \in Tasks, Bench!Claim(o, t)
    PROVE  WorkbenchInv'
<1>1. Len(events[t]) = 1 /\ events[t][1].state = "ACCEPTED"
  <2>1. events[t] \in Seq(EventType) /\ events[t] # <<>>
        /\ events[t][Len(events[t])].state = "ACCEPTED"
    BY DEF Bench!Claim, Bench!Claimable, Bench!Created, Bench!State, WorkbenchInv, BenchShapeInv
  <2>2. \A i \in 2..Len(events[t]) : events[t][i].state # "ACCEPTED"
    BY <2>1 DEF WorkbenchInv, HistoryInv
  <2>3. Len(events[t]) \in Nat /\ Len(events[t]) >= 1
    BY <2>1
  <2>4. Len(events[t]) \notin 2..Len(events[t])
    BY <2>1, <2>2
  <2>5. \A n \in Nat : n >= 1 /\ n \notin 2..n => n = 1
    OBVIOUS
  <2>6. Len(events[t]) = 1
    BY <2>3, <2>4, <2>5
  <2> QED
    BY <2>1, <2>6
<1>2. PICK l \in {"begin", "deny"} :
        run' = [run EXCEPT ![o][t] = [at |-> l, seq |-> 1, running |-> 1]]
  BY <1>1 DEF Bench!Claim, Bench!LastSequence
<1>3. [at |-> l, seq |-> 1, running |-> 1] \in RunType
  BY DEF RunType, Bench!Label, Bench!Script
<1>4. run' \in [Owners -> [Tasks -> RunType]]
  BY <1>2, <1>3 DEF WorkbenchInv, BenchShapeInv
<1>5. events' = events /\ bodies' = bodies
  BY DEF Bench!Claim
<1>6. run'[o][t] = [at |-> l, seq |-> 1, running |-> 1]
  BY <1>2 DEF WorkbenchInv, BenchShapeInv
<1>7. \A p \in Owners, u \in Tasks : <<p, u>> # <<o, t>> => run'[p][u] = run[p][u]
  BY <1>2 DEF WorkbenchInv, BenchShapeInv
<1>8. events[t] # <<>>
  BY <1>1
<1>9. KnowsPrefix(o, t, 1)'
  BY <1>1, <1>5, <1>6 DEF KnowsPrefix, Shows
<1>10. ExecutionInv'
  BY <1>5, <1>6, <1>7, <1>8, <1>9 DEF WorkbenchInv, ExecutionInv, KnowsPrefix, Shows
<1> QED
  BY <1>4, <1>5, <1>10, ExecutorsMove

LEMMA RefusedKeeps ==
    ASSUME WorkbenchInv, NEW o \in Owners, NEW t \in Tasks, Bench!AppendRefused(o, t)
    PROVE  WorkbenchInv'
<1> DEFINE l == run[o][t].at
           r == [run[o][t] EXCEPT !.at = Bench!Script[l].refused]
<1>1. l \in DOMAIN Bench!Script /\ Bench!Script[l].refused \in Failing
  BY ScriptSteps DEF Bench!AppendRefused, Failing
<1>2. r \in RunType /\ r.at \in Failing
  <2>1. run[o][t] \in RunType
    BY DEF WorkbenchInv, BenchShapeInv
  <2>2. Bench!Script[l].refused \in Bench!Label
    BY <1>1, Labels DEF Failing
  <2> QED
    BY <1>1, <2>1, <2>2 DEF RunType
<1>3. run' = [run EXCEPT ![o][t] = r]
  BY DEF Bench!AppendRefused, WorkbenchInv, BenchShapeInv
<1>4. events[t] # <<>>
  BY <1>1, ScriptSteps DEF WorkbenchInv, ExecutionInv
<1> QED
  BY <1>2, <1>3, <1>4, ExecutorFails DEF Bench!AppendRefused

LEMMA RescueReadKeeps ==
    ASSUME WorkbenchInv, NEW o \in Owners, NEW t \in Tasks, Bench!RescueRead(o, t)
    PROVE  WorkbenchInv'
<1>1. run[o][t] \in RunType /\ events[t] # <<>> /\ events[t] \in Seq(EventType)
  BY DEF WorkbenchInv, BenchShapeInv, ExecutionInv, Bench!RescueRead
<1>2. PICK r : /\ run' = [run EXCEPT ![o][t] = r]
               /\ \/ r = [run[o][t] EXCEPT !.at = "leaving"]
                  \/ r = [run[o][t] EXCEPT !.at = "rescuing", !.seq = Len(events[t])]
  <2>1. run' = [run EXCEPT ![o][t].at = "leaving"]
            => run' = [run EXCEPT ![o][t] = [run[o][t] EXCEPT !.at = "leaving"]]
    OBVIOUS
  <2>2. \/ run' = [run EXCEPT ![o][t] = [@ EXCEPT !.at = "leaving"]]
        \/ run' = [run EXCEPT ![o][t] = [@ EXCEPT !.at = "rescuing", !.seq = Len(events[t])]]
        \/ run' = [run EXCEPT ![o][t].at = "leaving"]
    BY DEF Bench!RescueRead, Bench!LastSequence
  <2> QED
    BY <2>1, <2>2
<1>3. r \in RunType /\ r.at \in Failing
  <2>1. "leaving" \in Bench!Label /\ "rescuing" \in Bench!Label /\ Len(events[t]) \in Nat
    BY <1>1, Labels
  <2> QED
    BY <1>1, <1>2, <2>1 DEF RunType, Failing
<1> QED
  BY <1>1, <1>2, <1>3, ExecutorFails DEF Bench!RescueRead

LEMMA BodyReturnsKeeps ==
    ASSUME WorkbenchInv, NEW o \in Owners, NEW t \in Tasks, Bench!BodyReturns(o, t)
    PROVE  WorkbenchInv'
<1>1. PICK l \in {"failure", "failing"}
                    \cup (IF Class[t] = "G0" THEN {"result"} ELSE {"toReview", "toStop"}) :
        run' = [run EXCEPT ![o][t].at = l]
  BY DEF Bench!BodyReturns
<1>2. events' = events /\ bodies' = bodies /\ run[o][t].at = "body"
  BY DEF Bench!BodyReturns
<1>3. l \in Bench!Label
  BY DEF Bench!Label, Bench!Script
<1>4. run' \in [Owners -> [Tasks -> RunType]]
  <2> DEFINE r == [run[o][t] EXCEPT !.at = l]
  <2>1. r \in RunType
    <3>1. run[o][t] \in RunType
      BY DEF WorkbenchInv, BenchShapeInv
    <3> QED
      BY <1>3, <3>1 DEF RunType
  <2>2. run' = [run EXCEPT ![o][t] = r]
    BY <1>1 DEF WorkbenchInv, BenchShapeInv
  <2> QED
    BY <2>1, <2>2 DEF WorkbenchInv, BenchShapeInv
<1>5. ExecutionInv'
  BY <1>1, <1>2 DEF WorkbenchInv, BenchShapeInv, RunType, ExecutionInv, KnowsPrefix, Shows
<1> QED
  BY <1>2, <1>4, <1>5, ExecutorsMove

LEMMA IdleType == Bench!Idle \in RunType /\ Bench!Idle.at \in Failing /\ Bench!Idle.at = "none"
BY DEF Bench!Idle, RunType, Bench!Label, Failing

LEMMA LeaveKeeps ==
    ASSUME WorkbenchInv, NEW o \in Owners, NEW t \in Tasks, Bench!Leave(o, t)
    PROVE  WorkbenchInv'
BY IdleType, ExecutorFails DEF Bench!Leave

LEMMA DownKeeps ==
    ASSUME WorkbenchInv, NEW o \in Owners, Bench!GoesDown(o), UNCHANGED <<events, bodies>>
    PROVE  WorkbenchInv'
<1>1. run' \in [Owners -> [Tasks -> RunType]]
  BY IdleType DEF Bench!GoesDown, WorkbenchInv, BenchShapeInv
<1>2. ExecutionInv'
  BY IdleType DEF Bench!GoesDown, WorkbenchInv, BenchShapeInv, ExecutionInv, KnowsPrefix, Shows, Failing
<1> QED
  BY <1>1, <1>2, ExecutorsMove

\* The append of an executor is numbered by the events it knows, so a step that
\* starts the runtime or writes the result follows the executor's own events.
LEMMA AppendStepKeeps ==
    ASSUME WorkbenchInv, NEW o \in Owners, NEW t \in Tasks, Bench!AppendStep(o, t)
    PROVE  WorkbenchInv'
<1> DEFINE l == run[o][t].at
           e == [kind |-> Bench!Script[l].kind, state |-> Bench!Script[l].state]
           h == events[t]
           r == [at |-> Bench!Script[l].ok, seq |-> run[o][t].seq + 1,
                 running |-> IF run[o][t].at = "begin" THEN run[o][t].seq + 1
                             ELSE run[o][t].running]
<1>1. /\ l \in DOMAIN Bench!Script
      /\ Bench!ValidAppend(t, Bench!NextSequence(o, t), Bench!Script[l].kind, Bench!Script[l].state)
      /\ events' = [events EXCEPT ![t] = Append(h, e)]
      /\ run' = [run EXCEPT ![o][t] = r]
      /\ bodies' = IF Bench!Script[l].ok = "body" THEN [bodies EXCEPT ![t] = @ + 1] ELSE bodies
  BY DEF Bench!AppendStep, Bench!AppendEvent, Bench!GoOn
<1>2. e \in EventType /\ e.state # "ACCEPTED" /\ (e.state = "SUCCEEDED" <=> l = "result")
  BY <1>1, ScriptSteps DEF EventType
<1>3. h \in Seq(EventType) /\ h # <<>> /\ Len(h) \in Nat /\ Len(h) >= 1
  <2>1. l # "none"
    BY <1>1, ScriptSteps
  <2> QED
    BY <2>1 DEF WorkbenchInv, BenchShapeInv, ExecutionInv
<1>4. /\ events'[t] \in Seq(EventType) /\ Len(events'[t]) = Len(h) + 1
      /\ \A i \in 1..Len(h) : events'[t][i] = h[i]
      /\ events'[t][Len(h) + 1] = e
      /\ \A u \in Tasks \ {t} : events'[u] = events[u]
      /\ events'[t] # <<>>
  BY <1>1, <1>2, <1>3, AppendShows DEF WorkbenchInv, BenchShapeInv
<1>5. h[Len(h)].state \notin Bench!Terminal /\ Bench!NextSequence(o, t) = Len(h) + 1
  BY <1>1 DEF Bench!ValidAppend, Bench!State, Bench!LastSequence
<1>6. l # "failing" => run[o][t].seq = Len(h)
  <2>1. run[o][t].seq \in Nat
    BY DEF WorkbenchInv, BenchShapeInv, RunType
  <2>2. l # "failing" => run[o][t].seq + 1 = Len(h) + 1
    BY <1>5 DEF Bench!NextSequence
  <2> QED
    BY <1>3, <2>1, <2>2
<1>7. BenchShapeInv'
  <2>1. run[o][t] \in RunType
    BY DEF WorkbenchInv, BenchShapeInv
  <2>2. r \in RunType
    <3>1. Bench!Script[l].ok \in Bench!Label
      BY <1>1, ScriptSteps
    <3>2. run[o][t].seq \in Nat /\ run[o][t].running \in Nat
      BY <2>1 DEF RunType
    <3> QED
      BY <3>1, <3>2 DEF RunType
  <2>3. run' \in [Owners -> [Tasks -> RunType]]
    BY <1>1, <2>2 DEF WorkbenchInv, BenchShapeInv
  <2>4. bodies' \in [Tasks -> Nat]
    BY <1>1 DEF WorkbenchInv, BenchShapeInv
  <2>5. events' \in [Tasks -> Seq(EventType)]
    BY <1>1, <1>4 DEF WorkbenchInv, BenchShapeInv
  <2> QED
    BY <2>3, <2>4, <2>5 DEF BenchShapeInv
<1>8. HistoryInv'
  <2> SUFFICES ASSUME NEW u \in Tasks, events'[u] # <<>>
               PROVE  /\ events'[u][1].state = "ACCEPTED"
                      /\ \A i \in 2..Len(events'[u]) : events'[u][i].state # "ACCEPTED"
    BY DEF HistoryInv
  <2>1. CASE u # t
    BY <1>4, <2>1 DEF WorkbenchInv, HistoryInv
  <2>2. CASE u = t
    <3>1. h[1].state = "ACCEPTED" /\ \A i \in 2..Len(h) : h[i].state # "ACCEPTED"
      BY <1>3 DEF WorkbenchInv, HistoryInv
    <3>2. ASSUME NEW i \in 2..Len(events'[t])
          PROVE  events'[t][i].state # "ACCEPTED"
      <4>1. (i \in 1..Len(h) /\ i \in 2..Len(h)) \/ i = Len(h) + 1
        BY <1>3, <1>4
      <4> QED
        BY <1>2, <1>4, <3>1, <4>1
    <3> QED
      BY <1>3, <1>4, <2>2, <3>1, <3>2
  <2> QED
    BY <2>1, <2>2
<1>9. BodyInv'
  <2>1. \A u \in Tasks \ {t} : bodies'[u] = bodies[u]
    BY <1>1 DEF WorkbenchInv, BenchShapeInv
  <2>2. CASE l = "begin"
    <3>1. Len(h) = 1
      BY <1>6, <2>2 DEF WorkbenchInv, ExecutionInv, KnowsPrefix
    <3>2. bodies[t] = 0
      <4>1. Len(events[t]) <= 1
        BY <3>1
      <4> HIDE DEF h
      <4> QED
        BY <4>1 DEF WorkbenchInv, BodyInv
    <3>3. bodies'[t] = 1
      BY <1>1, <2>2, <3>2, ScriptOrder DEF WorkbenchInv, BenchShapeInv
    <3> QED
      BY <1>4, <2>1, <3>1, <3>3 DEF WorkbenchInv, BodyInv
  <2>3. CASE l # "begin"
    <3>1. bodies' = bodies
      BY <1>1, <2>3, ScriptOrder, ScriptSteps
    <3> QED
      BY <1>3, <1>4, <3>1 DEF WorkbenchInv, BodyInv
  <2> QED
    BY <2>2, <2>3
<1>10. ASSUME NEW u \in Tasks, NEW n \in 1..4,
              Shows(u, n, "RUNNING", "REVIEW_REQUIRED", "RUNNING")
       PROVE  Shows(u, n, "RUNNING", "REVIEW_REQUIRED", "RUNNING")'
  <2>1. CASE u # t
    BY <1>4, <1>10, <2>1 DEF Shows
  <2>2. CASE u = t
    <3>1. Len(events'[t]) >= n /\ \A i \in 1..n : events'[t][i] = events[t][i]
      BY <1>3, <1>4, <1>10, <2>2 DEF Shows
    <3>2. /\ 1 \in 1..n /\ (n >= 2 => 2 \in 1..n)
          /\ (n >= 3 => 3 \in 1..n) /\ (n >= 4 => 4 \in 1..n)
      OBVIOUS
    <3> QED
      BY <1>10, <2>2, <3>1, <3>2 DEF Shows
  <2> QED
    BY <2>1, <2>2
<1>11. \A p \in Owners, u \in Tasks : <<p, u>> # <<o, t>> => run'[p][u] = run[p][u]
  BY <1>1 DEF WorkbenchInv, BenchShapeInv
<1>12. run'[o][t] = r
  BY <1>1 DEF WorkbenchInv, BenchShapeInv
<1>13. /\ r.at \notin {"begin", "deny", "toReview", "toStop", "none"}
       /\ r.at = "body" => KnowsPrefix(o, t, 2)'
       /\ r.at = "reviewing" => KnowsPrefix(o, t, 3)' /\ Class[t] # "G0"
       /\ r.at = "result" => KnowsPrefix(o, t, 4)' /\ Class[t] # "G0"
  <2>1. CASE l = "begin"
    <3>1. run[o][t].seq = 1 /\ Len(h) = 1 /\ h[1].state = "ACCEPTED"
      <4>1. KnowsPrefix(o, t, 1) /\ run[o][t].seq = Len(h)
        BY <1>6, <2>1 DEF WorkbenchInv, ExecutionInv
      <4> QED
        BY <4>1 DEF KnowsPrefix, Shows
    <3>2. events'[t][1].state = "ACCEPTED" /\ events'[t][2].state = "RUNNING"
      BY <1>4, <2>1, <3>1, ScriptOrder
    <3> QED
      BY <1>4, <1>12, <2>1, <3>1, <3>2, ScriptOrder DEF KnowsPrefix, Shows
  <2>2. CASE l = "toReview"
    <3>1. /\ run[o][t].seq = 2 /\ Len(h) = 2 /\ Class[t] # "G0"
          /\ h[1].state = "ACCEPTED" /\ h[2].state = "RUNNING"
      <4>1. KnowsPrefix(o, t, 2) /\ Class[t] # "G0"
        BY <2>2 DEF WorkbenchInv, ExecutionInv
      <4> QED
        BY <1>6, <2>2, <4>1 DEF KnowsPrefix, Shows
    <3>2. /\ events'[t][1].state = "ACCEPTED" /\ events'[t][2].state = "RUNNING"
          /\ events'[t][3].state = "REVIEW_REQUIRED"
      BY <1>4, <2>2, <3>1, ScriptOrder
    <3> QED
      BY <1>4, <1>12, <2>2, <3>1, <3>2, ScriptOrder DEF KnowsPrefix, Shows
  <2>3. CASE l = "reviewing"
    <3>1. /\ run[o][t].seq = 3 /\ Len(h) = 3 /\ Class[t] # "G0"
          /\ h[1].state = "ACCEPTED" /\ h[2].state = "RUNNING" /\ h[3].state = "REVIEW_REQUIRED"
      <4>1. KnowsPrefix(o, t, 3) /\ Class[t] # "G0"
        BY <2>3 DEF WorkbenchInv, ExecutionInv
      <4> QED
        BY <1>6, <2>3, <4>1 DEF KnowsPrefix, Shows
    <3>2. /\ events'[t][1].state = "ACCEPTED" /\ events'[t][2].state = "RUNNING"
          /\ events'[t][3].state = "REVIEW_REQUIRED" /\ events'[t][4].state = "RUNNING"
      BY <1>4, <2>3, <3>1, ScriptOrder
    <3> QED
      BY <1>4, <1>12, <2>3, <3>1, <3>2, ScriptOrder DEF KnowsPrefix, Shows
  <2>4. CASE l \in {"toStop", "deny", "result", "failure", "failing", "rescuing"}
    BY <2>4, ScriptOrder
  <2> QED
    BY <1>1, <2>1, <2>2, <2>3, <2>4, ScriptSteps
<1>14. ExecutionInv'
  <2> SUFFICES ASSUME NEW p \in Owners, NEW u \in Tasks
               PROVE  /\ run'[p][u].at # "none" => events'[u] # <<>>
                      /\ run'[p][u].at \in {"begin", "deny"} => KnowsPrefix(p, u, 1)'
                      /\ run'[p][u].at \in {"body", "toReview", "toStop"} => KnowsPrefix(p, u, 2)'
                      /\ run'[p][u].at = "reviewing" => KnowsPrefix(p, u, 3)'
                      /\ run'[p][u].at = "result" =>
                            KnowsPrefix(p, u, IF Class[u] = "G0" THEN 2 ELSE 4)'
                      /\ run'[p][u].at \in {"toReview", "toStop", "reviewing"} => Class[u] # "G0"
    BY DEF ExecutionInv
  <2>1. CASE <<p, u>> = <<o, t>>
    BY <1>4, <1>12, <1>13, <2>1
  <2>2. CASE <<p, u>> # <<o, t>>
    <3>1. run'[p][u] = run[p][u]
      BY <1>11, <2>2
    <3>2. events[u] # <<>> => events'[u] # <<>>
      BY <1>4
    <3> QED
      BY <1>10, <3>1, <3>2 DEF WorkbenchInv, ExecutionInv, KnowsPrefix
  <2> QED
    BY <2>1, <2>2
<1>15. SuccessInv'
  <2> SUFFICES ASSUME NEW u \in Tasks, events'[u] # <<>>, Bench!State(u)' = "SUCCEEDED"
               PROVE  LET n == IF Class[u] = "G0" THEN 2 ELSE 4
                      IN /\ Len(events'[u]) = n + 1
                         /\ Shows(u, n, "RUNNING", "REVIEW_REQUIRED", "RUNNING")'
    BY DEF SuccessInv
  <2>1. CASE u # t
    BY <1>4, <1>10, <2>1 DEF WorkbenchInv, SuccessInv, Bench!State
  <2>2. CASE u = t
    <3>1. l = "result"
      BY <1>2, <1>4, <2>2 DEF Bench!State
    <3>2. /\ run[o][t].seq = Len(h)
          /\ KnowsPrefix(o, t, IF Class[t] = "G0" THEN 2 ELSE 4)
      BY <1>6, <3>1 DEF WorkbenchInv, ExecutionInv
    <3> QED
      BY <1>4, <1>10, <2>2, <3>2 DEF KnowsPrefix
  <2> QED
    BY <2>1, <2>2
<1> QED
  BY <1>7, <1>8, <1>9, <1>14, <1>15 DEF WorkbenchInv

-----------------------------------------------------------------------------
(* The theorems.                                                            *)

LEMMA BenchInitKeeps == Bench!Init => WorkbenchInv
<1> SUFFICES ASSUME Bench!Init PROVE WorkbenchInv
  OBVIOUS
<1>1. /\ events = [t \in Tasks |-> <<>>] /\ bodies = [t \in Tasks |-> 0]
      /\ run = [o \in Owners |-> [t \in Tasks |-> Bench!Idle]]
  BY DEF Bench!Init
<1>2. BenchShapeInv
  BY <1>1, IdleType DEF BenchShapeInv
<1>3. HistoryInv /\ BodyInv /\ SuccessInv
  BY <1>1 DEF HistoryInv, BodyInv, SuccessInv
<1>4. ExecutionInv
  BY <1>1, IdleType DEF ExecutionInv
<1> QED
  BY <1>2, <1>3, <1>4 DEF WorkbenchInv

LEMMA QuietKeeps ==
    ASSUME WorkbenchInv, UNCHANGED <<events, run, bodies>>
    PROVE  WorkbenchInv'
BY DEF WorkbenchInv, BenchShapeInv, HistoryInv, BodyInv, ExecutionInv, SuccessInv, KnowsPrefix,
       Shows, Bench!State

LEMMA BenchStepKeeps == WorkbenchInv /\ WatchInv /\ [Bench!Next]_(Bench!vars) => WorkbenchInv'
<1> SUFFICES ASSUME WorkbenchInv, WatchInv, [Bench!Next]_(Bench!vars) PROVE WorkbenchInv'
  OBVIOUS
<1>1. CASE UNCHANGED Bench!vars
  BY <1>1, QuietKeeps DEF Bench!vars
<1>2. CASE Bench!Tick
  BY <1>2, QuietKeeps DEF Bench!Tick
<1>3. ASSUME NEW o \in Owners, Bench!Start(o) PROVE WorkbenchInv'
  BY <1>3, QuietKeeps DEF Bench!Start
<1>4. ASSUME NEW o \in Owners, NEW t \in Tasks, Bench!CreateAndSchedule(o, t) PROVE WorkbenchInv'
  BY <1>4, CreateKeeps
<1>5. ASSUME NEW o \in Owners, NEW t \in Tasks, Bench!ReplayCreate(o, t) PROVE WorkbenchInv'
  BY <1>5, QuietKeeps DEF Bench!ReplayCreate
<1>6. ASSUME NEW o \in Owners, NEW t \in Tasks, Bench!RunStep(o, t) PROVE WorkbenchInv'
  BY <1>6, AppendStepKeeps, RefusedKeeps, RescueReadKeeps, BodyReturnsKeeps, LeaveKeeps
     DEF Bench!RunStep
<1>7. ASSUME NEW o \in Owners, Bench!FillStep(o) PROVE WorkbenchInv'
  <2>1. CASE Bench!Started(o)
    BY <2>1, QuietKeeps DEF Bench!Started
  <2>2. CASE \E t \in Tasks : Bench!Claim(o, t)
    BY <2>2, ClaimKeeps
  <2>3. ASSUME NEW c, Bench!FillDone(o, c) PROVE WorkbenchInv'
    BY <2>3, QuietKeeps DEF Bench!FillDone
  <2>4. ASSUME NEW c, Bench!FillFails(o, c) PROVE WorkbenchInv'
    BY <2>4, QuietKeeps, DownKeeps DEF Bench!FillFails
  <2> QED
    BY <1>7, <2>1, <2>2, <2>3, <2>4 DEF Bench!FillStep
<1>8. ASSUME NEW o \in Owners, Bench!WatchStep(o) PROVE WorkbenchInv'
  <2>1. CASE Bench!Scan(o) \/ Bench!ReadOrphan(o) \/ Bench!Reconciled(o)
    BY <2>1, QuietKeeps DEF Bench!Scan, Bench!ReadOrphan, Bench!Reconciled
  <2>2. CASE Bench!AppendBlocked(o)
    BY <2>2, BlockedKeeps
  <2>3. CASE Bench!WatchCheck(o) \/ Bench!WatchWake(o) \/ Bench!WatchAgain(o)
    BY <2>3, QuietKeeps DEF Bench!WatchCheck, Bench!WatchWake, Bench!WatchAgain
  <2>4. CASE Bench!WatchFails(o)
    BY <2>4, QuietKeeps, DownKeeps DEF Bench!WatchFails
  <2> QED
    BY <1>8, <2>1, <2>2, <2>3, <2>4 DEF Bench!WatchStep, Bench!ReconcileStep
<1>9. ASSUME NEW o \in Owners, Bench!Crash(o) PROVE WorkbenchInv'
  BY <1>9, DownKeeps DEF Bench!Crash
<1> QED
  BY <1>1, <1>2, <1>3, <1>4, <1>5, <1>6, <1>7, <1>8, <1>9 DEF Bench!Next

-----------------------------------------------------------------------------
(* What a reconciliation has found stays created.                           *)

LEMMA OffShape == WatchShape(Bench!Off) /\ WatchShape([Bench!Off EXCEPT !.mode = "failed"])
BY DEF WatchShape, Bench!Off

\* Histories do not become empty, and one owner's watcher takes a step.
LEMMA WatcherMoves ==
    ASSUME WatchInv, NEW o \in Owners, NEW w,
           \A t \in Tasks : events[t] # <<>> => events'[t] # <<>>,
           watch' = watch \/ watch' = [watch EXCEPT ![o] = w],
           watch' = watch \/ WatchShape(w)
    PROVE  WatchInv'
<1>1. ASSUME NEW v, WatchShape(v)
      PROVE  /\ {"mode", "todo"} \subseteq DOMAIN v
             /\ v.todo \subseteq {t \in Tasks : events'[t] # <<>>}
             /\ v.mode = "append" => v.todo # {}
  BY <1>1 DEF WatchShape
<1>2. watch' = [p \in Owners |-> watch'[p]]
  BY DEF WatchInv
<1>3. \A p \in Owners : WatchShape(watch'[p])
  BY DEF WatchInv
<1> QED
  BY <1>1, <1>2, <1>3 DEF WatchInv, WatchShape

LEMMA HistoriesStay ==
    ASSUME WorkbenchInv, WatchInv, [Bench!Next]_(Bench!vars)
    PROVE  \A t \in Tasks : events[t] # <<>> => events'[t] # <<>>
<1>1. ASSUME NEW t, NEW e \in EventType, events' = [events EXCEPT ![t] = Append(@, e)]
      PROVE  \A u \in Tasks : events[u] # <<>> => events'[u] # <<>>
  <2> SUFFICES ASSUME NEW u \in Tasks, events[u] # <<>> PROVE events'[u] # <<>>
    OBVIOUS
  <2>1. events[u] \in Seq(EventType) /\ events'[u] = IF u = t THEN Append(events[u], e) ELSE events[u]
    BY <1>1 DEF WorkbenchInv, BenchShapeInv
  <2> QED
    BY <2>1, AppendShows
<1>2. ASSUME NEW o \in Owners, NEW t \in Tasks, Bench!CreateAndSchedule(o, t)
      PROVE  \A u \in Tasks : events[u] # <<>> => events'[u] # <<>>
  BY <1>2 DEF Bench!CreateAndSchedule, Bench!Created, WorkbenchInv, BenchShapeInv
<1>3. ASSUME NEW o \in Owners, NEW t \in Tasks, Bench!RunStep(o, t)
      PROVE  \A u \in Tasks : events[u] # <<>> => events'[u] # <<>>
  <2>1. CASE Bench!AppendStep(o, t)
    <3> DEFINE l == run[o][t].at
    <3>1. /\ l \in DOMAIN Bench!Script
          /\ events' = [events EXCEPT ![t] = Append(@,
                  [kind |-> Bench!Script[l].kind, state |-> Bench!Script[l].state])]
      BY <2>1 DEF Bench!AppendStep, Bench!AppendEvent
    <3>2. [kind |-> Bench!Script[l].kind, state |-> Bench!Script[l].state] \in EventType
      BY <3>1, ScriptSteps DEF EventType
    <3> QED
      BY <1>1, <3>1, <3>2
  <2> QED
    BY <1>3, <2>1 DEF Bench!RunStep, Bench!AppendRefused, Bench!RescueRead,
       Bench!BodyReturns, Bench!Leave
<1>4. ASSUME NEW o \in Owners, Bench!WatchStep(o)
      PROVE  \A u \in Tasks : events[u] # <<>> => events'[u] # <<>>
  <2>1. CASE Bench!AppendBlocked(o)
    <3>1. [kind |-> "ISSUE", state |-> "BLOCKED"] \in EventType
      BY DEF EventType, Bench!Terminal
    <3> QED
      BY <1>1, <2>1, <3>1 DEF Bench!AppendBlocked, Bench!AppendEvent
  <2> QED
    BY <1>4, <2>1 DEF Bench!WatchStep, Bench!ReconcileStep, Bench!Scan, Bench!ReadOrphan,
       Bench!Reconciled, Bench!WatchCheck, Bench!WatchWake, Bench!WatchAgain, Bench!WatchFails
<1>5. ASSUME NEW o \in Owners, Bench!FillStep(o)
      PROVE  UNCHANGED events
  BY <1>5 DEF Bench!FillStep, Bench!Started, Bench!Claim, Bench!FillDone, Bench!FillFails
<1>6. ASSUME NEW o \in Owners, NEW t \in Tasks,
             Bench!Start(o) \/ Bench!Crash(o) \/ Bench!ReplayCreate(o, t)
      PROVE  UNCHANGED events
  BY <1>6 DEF Bench!Start, Bench!Crash, Bench!ReplayCreate
<1>7. Bench!Tick \/ UNCHANGED Bench!vars => UNCHANGED events
  BY DEF Bench!Tick, Bench!vars
<1>8. ASSUME NEW o \in Owners, Bench!Start(o) \/ Bench!Crash(o)
      PROVE  UNCHANGED events
  BY <1>8 DEF Bench!Start, Bench!Crash
<1> QED
  BY <1>2, <1>3, <1>4, <1>5, <1>6, <1>7, <1>8 DEF Bench!Next

LEMMA WatchKeeps == WorkbenchInv /\ WatchInv /\ [Bench!Next]_(Bench!vars) => WatchInv'
<1> SUFFICES ASSUME WorkbenchInv, WatchInv, [Bench!Next]_(Bench!vars) PROVE WatchInv'
  OBVIOUS
<1>1. \A t \in Tasks : events[t] # <<>> => events'[t] # <<>>
  BY HistoriesStay
<1>2. ASSUME NEW o \in Owners, NEW w, WatchShape(w), watch' = [watch EXCEPT ![o] = w]
      PROVE  WatchInv'
  BY <1>1, <1>2, WatcherMoves
<1>3. CASE UNCHANGED watch
  BY <1>1, <1>3 DEF WatchInv, WatchShape
<1>4. ASSUME NEW o \in Owners, Bench!GoesDown(o) PROVE WatchInv'
  BY <1>2, <1>4, OffShape DEF Bench!GoesDown
<1>5. CASE Bench!Tick
  <2>1. watch' = [p \in Owners |-> [watch[p] EXCEPT !.sleep = IF @ > 0 THEN @ - 1 ELSE 0]]
    BY <1>5 DEF Bench!Tick
  <2>2. ASSUME NEW p \in Owners
        PROVE  WatchShape(watch'[p])
    BY <2>1 DEF WatchInv, WatchShape
  <2> QED
    BY <1>1, <2>1, <2>2 DEF WatchInv, WatchShape
<1>6. ASSUME NEW o \in Owners, NEW m,
             m # "append",
             watch' = [watch EXCEPT ![o].mode = m]
      PROVE  WatchInv'
  <2>1. WatchShape([watch[o] EXCEPT !.mode = m])
    BY <1>6 DEF WatchInv, WatchShape
  <2> QED
    BY <1>2, <1>6, <2>1 DEF WatchInv
<1>7. ASSUME NEW o \in Owners, Bench!FillStep(o) PROVE WatchInv'
  <2>1. CASE Bench!Started(o)
    BY <1>6, <2>1 DEF Bench!Started
  <2>2. CASE \E t \in Tasks : Bench!Claim(o, t)
    BY <1>3, <2>2 DEF Bench!Claim
  <2>3. ASSUME NEW c, Bench!FillDone(o, c) PROVE WatchInv'
    BY <1>3, <2>3 DEF Bench!FillDone
  <2>4. ASSUME NEW c, Bench!FillFails(o, c) PROVE WatchInv'
    BY <1>2, <1>3, <1>4, <2>4, OffShape DEF Bench!FillFails
  <2> QED
    BY <1>7, <2>1, <2>2, <2>3, <2>4 DEF Bench!FillStep
<1>8. ASSUME NEW o \in Owners, Bench!WatchStep(o) PROVE WatchInv'
  <2>1. CASE Bench!Scan(o)
    <3> DEFINE found == {t \in Tasks : Bench!Orphaned(o, t)}
               w == [watch[o] EXCEPT !.mode = "read", !.todo = found]
    <3>1. found \subseteq {t \in Tasks : events[t] # <<>>}
      BY DEF Bench!Orphaned, Bench!Created
    <3>2. watch' = [watch EXCEPT ![o].mode = "read", ![o].todo = found]
      BY <2>1 DEF Bench!Scan
    <3> HIDE DEF found
    <3>3. watch' = [watch EXCEPT ![o] = w]
      BY <3>2 DEF WatchInv
    <3>4. WatchShape(w)
      BY <3>1 DEF WatchInv, WatchShape
    <3> HIDE DEF w
    <3> QED
      BY <1>2, <3>3, <3>4
  <2>2. CASE Bench!ReadOrphan(o)
    <3> DEFINE t == Bench!NextOrphan(o)
               x == Bench!LastSequence(t) + 1
               fewer == [watch[o] EXCEPT !.todo = watch[o].todo \ {t}]
               next == [watch[o] EXCEPT !.mode = "append", !.seq = x]
    <3>1. /\ watch[o].mode = "read" /\ watch[o].todo # {}
          /\ \/ watch' = [watch EXCEPT ![o].todo = @ \ {t}]
             \/ watch' = [watch EXCEPT ![o].mode = "append", ![o].seq = x]
      BY <2>2 DEF Bench!ReadOrphan
    <3> HIDE DEF t, x
    <3>2. watch' = [watch EXCEPT ![o] = fewer] \/ watch' = [watch EXCEPT ![o] = next]
      BY <3>1 DEF WatchInv
    <3>3. WatchShape(fewer) /\ WatchShape(next)
      BY <3>1 DEF WatchInv, WatchShape
    <3> HIDE DEF fewer, next
    <3> QED
      BY <1>2, <3>2, <3>3
  <2>3. CASE Bench!AppendBlocked(o)
    <3> DEFINE t == Bench!NextOrphan(o)
               fewer == [watch[o] EXCEPT !.mode = "read", !.seq = 0, !.todo = watch[o].todo \ {t}]
    <3>1. watch' = [watch EXCEPT ![o].mode = "read", ![o].seq = 0, ![o].todo = @ \ {t}]
      BY <2>3 DEF Bench!AppendBlocked
    <3> HIDE DEF t
    <3>2. watch' = [watch EXCEPT ![o] = fewer]
      BY <3>1 DEF WatchInv
    <3>3. WatchShape(fewer)
      BY DEF WatchInv, WatchShape
    <3> HIDE DEF fewer
    <3> QED
      BY <1>2, <3>2, <3>3
  <2>4. CASE Bench!Reconciled(o)
    BY <1>6, <2>4 DEF Bench!Reconciled
  <2>5. CASE Bench!WatchCheck(o)
    <3> DEFINE l == CHOOSE x \in Bench!ForeignLeases(o) : \A y \in Bench!ForeignLeases(o) : x <= y
               w == [Bench!Off EXCEPT !.mode = "sleep", !.sweeps = watch[o].sweeps, !.sleep = l]
    <3>1. watch' = [watch EXCEPT ![o] =
              IF Bench!ForeignLeases(o) = {} \/ watch[o].sweeps = MaxSweeps THEN Bench!Off ELSE w]
      BY <2>5 DEF Bench!WatchCheck
    <3> HIDE DEF l
    <3>2. WatchShape(w)
      BY OffShape DEF WatchShape
    <3> HIDE DEF w
    <3> QED
      BY <1>2, <3>1, <3>2, OffShape
  <2>6. CASE Bench!WatchWake(o)
    BY <1>6, <2>6 DEF Bench!WatchWake
  <2>7. CASE Bench!WatchAgain(o)
    <3> DEFINE w == [watch[o] EXCEPT !.mode = "check", !.sweeps = watch[o].sweeps + 1]
    <3>1. watch' = [watch EXCEPT ![o] = w]
      BY <2>7 DEF Bench!WatchAgain, WatchInv
    <3>2. WatchShape(w)
      BY DEF WatchInv, WatchShape
    <3> HIDE DEF w
    <3> QED
      BY <1>2, <3>1, <3>2
  <2>8. CASE Bench!WatchFails(o)
    BY <1>2, <1>4, <2>8, OffShape DEF Bench!WatchFails
  <2> QED
    BY <1>8, <2>1, <2>2, <2>3, <2>4, <2>5, <2>6, <2>7, <2>8
       DEF Bench!WatchStep, Bench!ReconcileStep
<1>9. ASSUME NEW o \in Owners, NEW t \in Tasks,
             Bench!CreateAndSchedule(o, t) \/ Bench!ReplayCreate(o, t) \/ Bench!RunStep(o, t)
      PROVE  WatchInv'
  BY <1>3, <1>9 DEF Bench!CreateAndSchedule, Bench!ReplayCreate, Bench!RunStep,
     Bench!AppendStep, Bench!AppendRefused, Bench!RescueRead, Bench!BodyReturns, Bench!Leave
<1>10. ASSUME NEW o \in Owners, Bench!Start(o) \/ Bench!Crash(o) PROVE WatchInv'
  BY <1>4, <1>6, <1>10 DEF Bench!Start, Bench!Crash
<1> QED
  BY <1>3, <1>5, <1>7, <1>8, <1>9, <1>10 DEF Bench!Next, Bench!vars

LEMMA WatchInit == Bench!Init => WatchInv
BY OffShape DEF Bench!Init, WatchInv

\* The invariant holds in every state, whatever owners overlap, crash, lose their
\* leases or find the database busy.
THEOREM BenchInvariantHolds == Bench!Spec => [](WorkbenchInv /\ WatchInv)
BY BenchInitKeeps, BenchStepKeeps, WatchInit, WatchKeeps, PTL DEF Bench!Spec

\* The coordinator starts the runtime of a task at most once, over any number of
\* restarts and owners (claim_execution and append together).
THEOREM StartedOnce == Bench!Spec => []StartedAtMostOnce
<1>1. WorkbenchInv => StartedAtMostOnce
  BY DEF WorkbenchInv, BodyInv, StartedAtMostOnce, Bench!StartedAtMostOnce
<1> QED
  BY <1>1, BenchInvariantHolds, PTL

\* A task shows SUCCEEDED only at the end of the undisturbed events of one executor,
\* a professional one only behind its review (_validated_appended_task).
THEOREM SuccessIsReviewed == Bench!Spec => []SuccessIsOneReviewedRun
<1>1. WorkbenchInv => SuccessIsOneReviewedRun
  <2> SUFFICES ASSUME WorkbenchInv, NEW t \in Tasks,
                      Bench!Created(t), Bench!State(t) = "SUCCEEDED"
               PROVE  [i \in DOMAIN events[t] |-> events[t][i].state] =
                        IF Class[t] = "G0" THEN <<"ACCEPTED", "RUNNING", "SUCCEEDED">>
                        ELSE <<"ACCEPTED", "RUNNING", "REVIEW_REQUIRED", "RUNNING", "SUCCEEDED">>
    BY DEF SuccessIsOneReviewedRun, Bench!SuccessIsOneReviewedRun
  <2>1. events[t] \in Seq(EventType)
    BY DEF WorkbenchInv, BenchShapeInv
  <2>2. LET n == IF Class[t] = "G0" THEN 2 ELSE 4
        IN Len(events[t]) = n + 1 /\ Shows(t, n, "RUNNING", "REVIEW_REQUIRED", "RUNNING")
    BY DEF WorkbenchInv, SuccessInv, Bench!Created
  <2>3. CASE Class[t] = "G0"
    <3>1. /\ DOMAIN events[t] = 1..3 /\ events[t][1].state = "ACCEPTED"
          /\ events[t][2].state = "RUNNING" /\ events[t][3].state = "SUCCEEDED"
      BY <2>1, <2>2, <2>3 DEF Shows, Bench!State
    <3> QED
      BY <2>3, <3>1
  <2>4. CASE Class[t] # "G0"
    <3>1. /\ DOMAIN events[t] = 1..5 /\ events[t][1].state = "ACCEPTED"
          /\ events[t][2].state = "RUNNING" /\ events[t][3].state = "REVIEW_REQUIRED"
          /\ events[t][4].state = "RUNNING" /\ events[t][5].state = "SUCCEEDED"
      BY <2>1, <2>2, <2>4 DEF Shows, Bench!State
    <3> QED
      BY <2>4, <3>1
  <2> QED
    BY <2>3, <2>4
<1> QED
  BY <1>1, BenchInvariantHolds, PTL

-----------------------------------------------------------------------------
(* Knowledge import.                                                        *)

\* An output directory is made with the first process of its stage, and never
\* removed.
DirectoriesInv ==
  /\ processes \in [Imp!RunIds \X (1..3) -> Nat]
  /\ \A r \in Imp!RunIds, s \in 1..2 :
       processes[<<r, s>>] = IF <<r, s>> \in outputDirs THEN 1 ELSE 0

\* A pipeline call waits at a stage of an accepted source, whose run id is known.
PipelineInv ==
  /\ DOMAIN pipeline = Imports /\ DOMAIN intake = Imports
  /\ \A i \in Imports :
       /\ intake[i] # Imp!NoIntake => intake[i].runId \in Imp!RunIds
       /\ pipeline[i].at = "parsing" => pipeline[i].stage \in 1..3 /\ intake[i] # Imp!NoIntake

ImportInv == DirectoriesInv /\ PipelineInv

LEMMA ImportInit == Imp!Init => ImportInv
<1> SUFFICES ASSUME Imp!Init PROVE ImportInv
  OBVIOUS
<1>1. DirectoriesInv
  BY DEF Imp!Init, DirectoriesInv
<1>2. PipelineInv
  BY DEF Imp!Init, PipelineInv, Imp!NotStarted
<1> QED  BY <1>1, <1>2 DEF ImportInv

\* The document a pipeline call goes on with keeps the pages of another.
KeepsPassed(doc, new) == \A p \in Pages \ Imp!FailedPages(doc) : new[p] = doc[p]

\* Going on to the next stage that can run starts one process there, in a
\* directory that did not exist.
LEMMA WaitKeeps ==
    ASSUME ImportInv, NEW i \in Imports, intake[i] # Imp!NoIntake, UNCHANGED intake,
           NEW doc, NEW from \in 1..4, Imp!Wait(i, doc, from)
    PROVE  /\ ImportInv'
           /\ \A j \in Imports : j # i => pipeline'[j] = pipeline[j]
           /\ pipeline'[i].doc = doc
<1> DEFINE waits == {s \in from..3 : Imp!Suspends(i, s)}
           least == CHOOSE x \in waits : \A y \in waits : x <= y
<1>1. CASE Imp!FailedPages(doc) = {} \/ waits = {}
  <2>1. PICK at \in {"READY", "MANUAL_REVIEW"} :
          pipeline' = [pipeline EXCEPT ![i] = [at |-> at, doc |-> doc]]
    BY <1>1 DEF Imp!Wait
  <2>2. UNCHANGED <<outputDirs, processes>>
    BY <1>1 DEF Imp!Wait
  <2>3. DirectoriesInv'
    BY <2>2 DEF ImportInv, DirectoriesInv
  <2>4. pipeline'[i] = [at |-> at, doc |-> doc] /\ DOMAIN pipeline' = Imports
    BY <2>1 DEF ImportInv, PipelineInv
  <2>5. \A j \in Imports : j # i => pipeline'[j] = pipeline[j]
    BY <2>1 DEF ImportInv, PipelineInv
  <2>6. PipelineInv'
    BY <2>4, <2>5 DEF ImportInv, PipelineInv
  <2> QED  BY <2>3, <2>4, <2>5, <2>6 DEF ImportInv
<1>2. CASE ~(Imp!FailedPages(doc) = {} \/ waits = {})
  <2>1. /\ pipeline' = [pipeline EXCEPT ![i] = [at |-> "parsing", stage |-> least, doc |-> doc]]
        /\ outputDirs' = IF least < 3 THEN outputDirs \cup {<<intake[i].runId, least>>}
                         ELSE outputDirs
        /\ processes' = [processes EXCEPT ![<<intake[i].runId, least>>] = @ + 1]
    BY <1>2 DEF Imp!Wait
  <2>2. PICK s : s = least
    OBVIOUS
  <2>3. s \in waits
    <3>1. waits \in SUBSET Nat /\ waits # {}
      BY <1>2
    <3> HIDE DEF waits
    <3>2. \E x \in waits : \A y \in waits : x <= y
      BY <3>1, LeastNat
    <3> QED  BY <2>2, <3>2
  <2> HIDE DEF least
  <2>4. s \in 1..3 /\ Imp!Suspends(i, s)
    BY <2>3
  <2>5. PICK r \in Imp!RunIds : r = intake[i].runId
    BY DEF ImportInv, PipelineInv
  <2>6. s < 3 => <<r, s>> \notin outputDirs
    BY <2>4, <2>5 DEF Imp!Suspends
  <2>7. /\ outputDirs' = IF s < 3 THEN outputDirs \cup {<<r, s>>} ELSE outputDirs
        /\ processes' = [processes EXCEPT ![<<r, s>>] = processes[<<r, s>>] + 1]
    BY <2>1, <2>2, <2>5
  <2>8. DirectoriesInv'
    <3>1. <<r, s>> \in Imp!RunIds \X (1..3) /\ processes[<<r, s>>] \in Nat
      BY <2>4, <2>5 DEF ImportInv, DirectoriesInv
    <3>2. processes' \in [Imp!RunIds \X (1..3) -> Nat]
      BY <2>7, <3>1 DEF ImportInv, DirectoriesInv
    <3>3. ASSUME NEW q \in Imp!RunIds, NEW t \in 1..2
          PROVE  processes'[<<q, t>>] = IF <<q, t>> \in outputDirs' THEN 1 ELSE 0
      <4>1. <<q, t>> \in Imp!RunIds \X (1..3)
        OBVIOUS
      <4>2. CASE <<q, t>> = <<r, s>>
        <5>1. s = t /\ s < 3
          BY <2>4, <4>2
        <5>2. processes[<<r, s>>] = 0
          BY <2>6, <5>1 DEF ImportInv, DirectoriesInv
        <5>3. processes'[<<r, s>>] = 1
          BY <2>7, <3>1, <5>2 DEF ImportInv, DirectoriesInv
        <5> QED  BY <2>7, <4>2, <5>1, <5>3
      <4>3. CASE <<q, t>> # <<r, s>>
        <5>1. processes'[<<q, t>>] = processes[<<q, t>>]
          BY <2>7, <4>1, <4>3 DEF ImportInv, DirectoriesInv
        <5>2. <<q, t>> \in outputDirs' <=> <<q, t>> \in outputDirs
          BY <2>7, <4>3
        <5> QED  BY <5>1, <5>2 DEF ImportInv, DirectoriesInv
      <4> QED  BY <4>2, <4>3
    <3>4. UNCHANGED Imp!RunIds
      BY DEF Imp!RunIds
    <3> QED  BY <3>2, <3>3, <3>4 DEF DirectoriesInv
  <2>9. pipeline'[i] = [at |-> "parsing", stage |-> s, doc |-> doc] /\ DOMAIN pipeline' = Imports
    BY <2>1, <2>2 DEF ImportInv, PipelineInv
  <2>10. \A j \in Imports : j # i => pipeline'[j] = pipeline[j]
    BY <2>1 DEF ImportInv, PipelineInv
  <2>11. PipelineInv'
    BY <2>4, <2>9, <2>10 DEF ImportInv, PipelineInv
  <2> QED  BY <2>8, <2>9, <2>10, <2>11 DEF ImportInv
<1> QED  BY <1>1, <1>2

\* Of the steps of a pipeline call, one that waits goes on with all the pages that
\* have passed.
LEMMA ImportStep ==
    ASSUME ImportInv, [Imp!Next]_(Imp!impVars)
    PROVE  ImportInv' /\ Imp!PassedPagesAreKept
<1>1. CASE UNCHANGED Imp!impVars
  BY <1>1 DEF Imp!impVars, ImportInv, DirectoriesInv, PipelineInv, Imp!PassedPagesAreKept
<1>2. ASSUME NEW arts \in [Imports -> SourceArtifacts], Imp!IntakeBatch(arts)
      PROVE  ImportInv' /\ Imp!PassedPagesAreKept
  <2>1. UNCHANGED <<changed, pipeline, outputDirs, processes>>
    BY <1>2 DEF Imp!IntakeBatch
  <2>2. DOMAIN intake' = Imports /\ \A i \in Imports : intake'[i].runId = arts[i].runId
    BY <1>2 DEF Imp!IntakeBatch
  <2>3. \A i \in Imports : intake'[i].runId \in Imp!RunIds
    BY <2>2 DEF Imp!RunIds
  <2>4. \A i \in Imports : pipeline[i].at # "parsing"
    BY <1>2 DEF Imp!IntakeBatch, ImportInv, PipelineInv
  <2>5. DirectoriesInv'
    BY <2>1 DEF ImportInv, DirectoriesInv
  <2>6. PipelineInv'
    BY <2>1, <2>2, <2>3, <2>4 DEF ImportInv, PipelineInv
  <2> QED  BY <2>4, <2>5, <2>6 DEF ImportInv, Imp!PassedPagesAreKept
<1>3. ASSUME NEW i \in Imports, Imp!StartPipeline(i)
      PROVE  ImportInv' /\ Imp!PassedPagesAreKept
  <2>1. PICK doc : Imp!Wait(i, doc, 1)
    BY <1>3 DEF Imp!StartPipeline
  <2>2. PICK from : from = 1
    OBVIOUS
  <2>3. intake[i] # Imp!NoIntake /\ intake' = intake
    BY <1>3 DEF Imp!StartPipeline, Imp!NoIntake
  <2>4. ImportInv' /\ \A j \in Imports : j # i => pipeline'[j] = pipeline[j]
    BY <2>1, <2>2, <2>3, WaitKeeps
  <2>5. pipeline[i].at # "parsing"
    BY <1>3 DEF Imp!StartPipeline, Imp!NotStarted
  <2> QED  BY <2>4, <2>5 DEF Imp!PassedPagesAreKept
<1>4. ASSUME NEW i \in Imports, NEW doc, pipeline[i].at = "parsing",
             Imp!Wait(i, doc, pipeline[i].stage + 1), UNCHANGED intake,
             KeepsPassed(pipeline[i].doc, doc)
      PROVE  ImportInv' /\ Imp!PassedPagesAreKept
  <2>1. PICK from \in 1..4 : from = pipeline[i].stage + 1
    BY <1>4 DEF ImportInv, PipelineInv
  <2>2. intake[i] # Imp!NoIntake
    BY <1>4 DEF ImportInv, PipelineInv
  <2>3. /\ ImportInv' /\ pipeline'[i].doc = doc
        /\ \A j \in Imports : j # i => pipeline'[j] = pipeline[j]
    BY <1>4, <2>1, <2>2, WaitKeeps
  <2> QED  BY <1>4, <2>3 DEF Imp!PassedPagesAreKept, KeepsPassed
<1>5. ASSUME NEW i \in Imports, Imp!ParserReturns(i)
      PROVE  ImportInv' /\ Imp!PassedPagesAreKept
  <2>1. PICK d : Imp!Wait(i, Imp!MergeDocuments(pipeline[i].doc, d), pipeline[i].stage + 1)
    BY <1>5 DEF Imp!ParserReturns
  <2>2. KeepsPassed(pipeline[i].doc, Imp!MergeDocuments(pipeline[i].doc, d))
    BY DEF KeepsPassed, Imp!MergeDocuments
  <2>3. pipeline[i].at = "parsing" /\ intake' = intake
    BY <1>5 DEF Imp!ParserReturns, Imp!Awaiting
  <2> QED  BY <1>4, <2>1, <2>2, <2>3
<1>6. ASSUME NEW i \in Imports, Imp!ParserFails(i)
      PROVE  ImportInv' /\ Imp!PassedPagesAreKept
  <2>1. KeepsPassed(pipeline[i].doc, pipeline[i].doc)
    BY DEF KeepsPassed
  <2>2. pipeline[i].at = "parsing" /\ intake' = intake
    BY <1>6 DEF Imp!ParserFails, Imp!Awaiting
  <2> QED  BY <1>4, <1>6, <2>1, <2>2 DEF Imp!ParserFails
<1>7. ASSUME NEW i \in Imports, NEW p, p.at \notin {"parsing", "READY", "MANUAL_REVIEW"},
             pipeline' = [pipeline EXCEPT ![i] = p], UNCHANGED <<changed, intake, outputDirs, processes>>
      PROVE  ImportInv' /\ Imp!PassedPagesAreKept
  <2>1. DirectoriesInv'
    BY <1>7 DEF ImportInv, DirectoriesInv
  <2>2. /\ DOMAIN pipeline' = Imports /\ pipeline'[i] = p
        /\ \A j \in Imports : j # i => pipeline'[j] = pipeline[j]
    BY <1>7 DEF ImportInv, PipelineInv
  <2>3. PipelineInv'
    BY <1>7, <2>2 DEF ImportInv, PipelineInv
  <2> QED  BY <1>7, <2>1, <2>2, <2>3 DEF ImportInv, Imp!PassedPagesAreKept
<1>8. ASSUME NEW i \in Imports, Imp!EngineRaises(i)
      PROVE  ImportInv' /\ Imp!PassedPagesAreKept
  BY <1>7, <1>8 DEF Imp!EngineRaises
<1>9. ASSUME NEW i \in Imports, Imp!Normalize(i)
      PROVE  ImportInv' /\ Imp!PassedPagesAreKept
  <2> DEFINE doc == pipeline[i].doc
             hollow == \E p \in Pages : doc[p].scan.hollow
             failed == [at |-> "FAILED"]
             normalized == [at |-> "NORMALIZED", doc |-> doc, elements |-> Imp!Elements(doc)]
  <2>1. PICK p : pipeline' = [pipeline EXCEPT ![i] = p] /\ p.at \in {"FAILED", "NORMALIZED"}
    <3>1. pipeline' = [pipeline EXCEPT ![i] = IF hollow THEN failed ELSE normalized]
      BY <1>9 DEF Imp!Normalize
    <3>2. failed.at = "FAILED" /\ normalized.at = "NORMALIZED"
      OBVIOUS
    <3> HIDE DEF hollow, failed, normalized
    <3>3. CASE hollow
      BY <3>1, <3>2, <3>3
    <3>4. CASE ~hollow
      BY <3>1, <3>2, <3>4
    <3> QED  BY <3>3, <3>4
  <2>2. UNCHANGED <<changed, intake, outputDirs, processes>>
    BY <1>9 DEF Imp!Normalize
  <2> QED  BY <1>7, <2>1, <2>2
<1>10. ASSUME Imp!SourceChanges
       PROVE  ImportInv' /\ Imp!PassedPagesAreKept
  BY <1>10 DEF Imp!SourceChanges, ImportInv, DirectoriesInv, PipelineInv, Imp!PassedPagesAreKept
<1> QED  BY <1>1, <1>2, <1>3, <1>5, <1>6, <1>8, <1>9, <1>10 DEF Imp!Next

LEMMA DirectoriesBound == ImportInv => Imp!ParserRunsOnce
<1> SUFFICES ASSUME ImportInv, NEW e \in DOMAIN processes, e[2] < 3 PROVE processes[e] <= 1
  BY DEF Imp!ParserRunsOnce
<1>1. PICK r \in Imp!RunIds, s \in 1..3 : e = <<r, s>>
  BY DEF ImportInv, DirectoriesInv
<1>2. e[2] = s /\ s \in 1..2
  BY <1>1
<1>3. processes[<<r, s>>] = IF <<r, s>> \in outputDirs THEN 1 ELSE 0
  BY <1>2 DEF ImportInv, DirectoriesInv
<1> QED  BY <1>1, <1>3

\* The output directory of a run id and stage, made before the process starts and
\* left behind by it, lets no second pipeline call run that parser; and a later
\* stage replaces failed pages only (parsing.py, MinerUCliRunner.run; fallback.py,
\* _merge_documents).
THEOREM ImportSound == Imp!Spec => ImportIsSound
<1>1. Imp!Init => ImportInv
  BY ImportInit
<1>2. ImportInv /\ [Imp!Next]_(Imp!impVars) => ImportInv'
  BY ImportStep
<1>3. ImportInv /\ ImportInv' /\ [Imp!Next]_(Imp!impVars)
        => [Imp!ParserRunsOnce' /\ Imp!PassedPagesAreKept]_(Imp!impVars)
  <2>1. ImportInv' => Imp!ParserRunsOnce'
    BY DirectoriesBound, PTL
  <2> QED  BY <2>1, ImportStep
<1> QED  BY <1>1, <1>2, <1>3, PTL DEF Imp!Spec, ImportIsSound, Imp!ImportIsSound

-----------------------------------------------------------------------------
(* Knowledge release, for any number of candidates, snapshots, standards,   *)
(* approvals and calls that wait between grant and commit.                  *)

CandidateType ==
    [state : {"DRAFT", "REVIEW_REQUIRED", "FAILED", "PUBLISHED"},
     base : Rel!PubIds \cup {NoId}, snaps : Batches, review : Workflows \cup {NoId},
     approval : Approvals \cup {NoId}, pub : Rel!PubIds \cup {NoId}]

PublicationType ==
    [state : {"PUBLISHED", "SUPERSEDED", "WITHDRAWN"}, snaps : Batches,
     cand : Candidates, grant : Approvals]

OperationType ==
    [state : {"PENDING", "COMPLETED"}, kind : {"withdraw", "rollback"},
     target : Rel!PubIds, expected : Rel!PubIds, approval : Approvals]

ContentType ==
    [action : {"publish", "withdraw", "rollback"}, target : Candidates \cup Operations,
     preview : Workflows \cup {NoId}]

CheckpointType == [state : {"PENDING", "APPROVED", "REJECTED"}, content : ContentType]

PublishCall ==
    [state : {"publish"}, cand : Candidates, copy : CandidateType, pub : Publications,
     grant : Approvals]

ActionCall == [state : {"withdraw", "rollback"}, op : Operations, grant : Approvals]

EntryType ==
    [snap : UNION Batches, status : {"PUBLISHED", "SUPERSEDED", "WITHDRAWN"}]

-----------------------------------------------------------------------------
(* The inductive invariant.                                                 *)

\* Types of the variables the argument reads.
ReleaseShapeInv ==
    /\ candidate \in [Candidates -> CandidateType \cup {Rel!NoRecord}]
    /\ publication \in [Rel!PubIds -> PublicationType \cup {Rel!NoRecord}]
    /\ head \in Rel!PubIds \cup {NoId}
    /\ index \in [Rel!Keys -> EntryType \cup {Rel!NoRecord}]
    /\ operation \in [Operations -> OperationType \cup {Rel!NoRecord}]
    /\ checkpoint \in [Approvals -> CheckpointType \cup {Rel!NoRecord}]
    /\ commit \in [Threads -> PublishCall \cup ActionCall \cup {Rel!NoRecord}]

\* No two snapshots of a set have one index key.
KeyUnique(snaps) == \A s, u \in snaps : s.key = u.key => s = u

\* Approval a was given, and for this action on this target.
Granted(a, action, target) ==
    /\ checkpoint[a] # Rel!NoRecord
    /\ checkpoint[a].state = "APPROVED"
    /\ checkpoint[a].content.action = action
    /\ checkpoint[a].content.target = target

\* A candidate that has passed validation replaces no snapshot by another of its own.
CandidateInv ==
    \A c \in Candidates :
        candidate[c].state \in {"REVIEW_REQUIRED", "PUBLISHED"} =>
            KeyUnique(candidate[c].snaps)

\* A publication shows snapshots that passed validation, under an approval made for
\* it, and its candidate stays validated and reviewed.
PublicationInv ==
    \A p \in Rel!PubIds : publication[p] # Rel!NoRecord =>
        LET r == publication[p] IN
        /\ KeyUnique(r.snaps)
        /\ \/ p \in Publications /\ Granted(r.grant, "publish", r.cand)
           \/ p \in Operations /\ Granted(r.grant, "rollback", p)
        /\ candidate[r.cand].state \in {"REVIEW_REQUIRED", "PUBLISHED"}
        /\ candidate[r.cand].review # NoId

\* The corpus head is the one published publication.
HeadInv ==
    /\ head # NoId => publication[head] # Rel!NoRecord
    /\ \A p \in Rel!PubIds : publication[p].state = "PUBLISHED" <=> p = head

\* The index entry of a key is a snapshot of that key, and it is published exactly
\* when it is the head's snapshot of that key.
IndexInv ==
    \A k \in Rel!Keys :
        /\ index[k] # Rel!NoRecord => index[k].snap.key = k
        /\ index[k] # Rel!NoRecord /\ index[k].status = "PUBLISHED" =>
              head # NoId /\ index[k].snap \in publication[head].snaps
        /\ head # NoId => \A s \in publication[head].snaps : s.key = k =>
              index[k] # Rel!NoRecord /\ index[k].status = "PUBLISHED" /\ index[k].snap = s

\* An action is about a publication that exists; a withdrawal about the head it was
\* requested at.
OperationInv ==
    \A o \in Operations : operation[o] # Rel!NoRecord =>
        /\ publication[operation[o].target] # Rel!NoRecord
        /\ operation[o].kind = "withdraw" => operation[o].expected = operation[o].target

\* A call that waits for its commit holds an approved grant for what it will do,
\* and what a publish will write is a copy of a validated and reviewed candidate.
CommitInv ==
    \A t \in Threads :
        /\ commit[t].state = "publish" =>
              /\ Granted(commit[t].grant, "publish", commit[t].cand)
              /\ commit[t].copy.state = "REVIEW_REQUIRED"
              /\ commit[t].copy.review # NoId
              /\ KeyUnique(commit[t].copy.snaps)
        /\ commit[t].state \in {"withdraw", "rollback"} =>
              /\ Granted(commit[t].grant, commit[t].state, commit[t].op)
              /\ operation[commit[t].op] # Rel!NoRecord
              /\ operation[commit[t].op].kind = commit[t].state

ReleaseInv ==
    /\ ReleaseShapeInv /\ CandidateInv /\ PublicationInv /\ HeadInv /\ IndexInv
    /\ OperationInv /\ CommitInv

-----------------------------------------------------------------------------
(* The two properties follow from the invariant.                            *)

LEMMA SoundRelease ==
    ASSUME Rel!IdentifierFacts, ReleaseInv
    PROVE  ServedIsCurrent /\ PublicationIsAuthorized
<1> USE DEF Rel!IdentifierFacts
<1>1. {index[k].snap : k \in {q \in Rel!Keys : index[q] # Rel!NoRecord
                                           /\ index[q].status = "PUBLISHED"}}
        = IF head = NoId THEN {} ELSE publication[head].snaps
  <2>1. CASE head = NoId
    BY <2>1 DEF ReleaseInv, IndexInv
  <2>2. CASE head # NoId
    <3>1. publication[head] \in PublicationType
      BY <2>2 DEF ReleaseInv, HeadInv, ReleaseShapeInv
    <3>2. \A s \in publication[head].snaps : s.key \in Rel!Keys
      BY <3>1 DEF PublicationType, Rel!Keys
    <3> QED
      BY <2>2, <3>2 DEF ReleaseInv, IndexInv
  <2> QED
    BY <2>1, <2>2
<1>2. ServedIsCurrent
  BY <1>1 DEF ServedIsCurrent, Rel!ServedIsCurrent, ReleaseInv, HeadInv
<1>3. PublicationIsAuthorized
  BY DEF PublicationIsAuthorized, Rel!PublicationIsAuthorized, ReleaseInv, PublicationInv, Granted
<1> QED
  BY <1>2, <1>3

LEMMA ReleaseInitKeeps ==
    ASSUME Rel!IdentifierFacts, Rel!Init
    PROVE  ReleaseInv
<1> USE DEF Rel!IdentifierFacts, Rel!Init, Rel!NoRecord
<1>1. ReleaseShapeInv
  BY DEF ReleaseShapeInv
<1>2. CandidateInv /\ PublicationInv /\ HeadInv /\ OperationInv /\ CommitInv
  BY DEF CandidateInv, PublicationInv, HeadInv, OperationInv, CommitInv
<1>3. IndexInv
  BY DEF IndexInv
<1> QED
  BY <1>1, <1>2, <1>3 DEF ReleaseInv

-----------------------------------------------------------------------------
(* Steps that leave publications and index alone.                           *)

\* Approvals only grow towards a decision, what has been requested keeps its form
\* and a candidate that a publication may rest on stays validated and reviewed.
LEMMA ReleaseUntouched ==
    ASSUME Rel!IdentifierFacts, ReleaseInv, ReleaseShapeInv',
           UNCHANGED <<publication, head, index>>,
           \A a \in Approvals : checkpoint[a] # Rel!NoRecord /\ checkpoint[a].state = "APPROVED"
                => checkpoint'[a] = checkpoint[a],
           \A o \in Operations : operation[o] # Rel!NoRecord => operation'[o] = operation[o],
           \A c \in Candidates : candidate[c].state \in {"REVIEW_REQUIRED", "PUBLISHED"}
                /\ candidate[c].review # NoId =>
                   /\ candidate'[c].state \in {"REVIEW_REQUIRED", "PUBLISHED"}
                   /\ candidate'[c].review # NoId,
           CandidateInv', OperationInv', CommitInv'
    PROVE  ReleaseInv'
<1>1. PublicationInv'
  <2> SUFFICES ASSUME NEW p \in Rel!PubIds, publication[p] # Rel!NoRecord
               PROVE  /\ KeyUnique(publication[p].snaps)
                      /\ \/ p \in Publications /\ Granted(publication[p].grant, "publish", publication[p].cand)'
                         \/ p \in Operations /\ Granted(publication[p].grant, "rollback", p)'
                      /\ candidate'[publication[p].cand].state \in {"REVIEW_REQUIRED", "PUBLISHED"}
                      /\ candidate'[publication[p].cand].review # NoId
    BY DEF PublicationInv, KeyUnique
  <2>1. publication[p].grant \in Approvals /\ publication[p].cand \in Candidates
    BY DEF ReleaseInv, ReleaseShapeInv, PublicationType
  <2> QED
    BY <2>1 DEF ReleaseInv, PublicationInv, Granted
<1>2. HeadInv' /\ IndexInv'
  BY DEF ReleaseInv, HeadInv, IndexInv
<1> QED
  BY <1>1, <1>2 DEF ReleaseInv

\* The calls that wait keep what they hold when grants and operations stay.
LEMMA CommitsStay ==
    ASSUME Rel!IdentifierFacts, ReleaseInv, UNCHANGED commit,
           \A a \in Approvals : checkpoint[a] # Rel!NoRecord /\ checkpoint[a].state = "APPROVED"
                => checkpoint'[a] = checkpoint[a],
           \A o \in Operations : operation[o] # Rel!NoRecord =>
                /\ operation'[o] # Rel!NoRecord
                /\ operation'[o].kind = operation[o].kind
    PROVE  CommitInv'
<1> SUFFICES ASSUME NEW t \in Threads
             PROVE  /\ commit[t].state = "publish" =>
                          /\ Granted(commit[t].grant, "publish", commit[t].cand)'
                          /\ commit[t].copy.state = "REVIEW_REQUIRED"
                          /\ commit[t].copy.review # NoId
                          /\ KeyUnique(commit[t].copy.snaps)
                    /\ commit[t].state \in {"withdraw", "rollback"} =>
                          /\ Granted(commit[t].grant, commit[t].state, commit[t].op)'
                          /\ operation'[commit[t].op] # Rel!NoRecord
                          /\ operation'[commit[t].op].kind = commit[t].state
  BY DEF CommitInv, KeyUnique
<1>1. commit[t] \in PublishCall \cup ActionCall \cup {Rel!NoRecord}
  BY DEF ReleaseInv, ReleaseShapeInv
<1>2. CASE commit[t].state = "publish"
  <2>1. commit[t].grant \in Approvals
    BY <1>1, <1>2 DEF PublishCall, ActionCall, Rel!NoRecord
  <2> QED
    BY <1>2, <2>1 DEF ReleaseInv, CommitInv, Granted
<1>3. CASE commit[t].state \in {"withdraw", "rollback"}
  <2>1. commit[t].grant \in Approvals /\ commit[t].op \in Operations
    BY <1>1, <1>3 DEF PublishCall, ActionCall, Rel!NoRecord
  <2> QED
    BY <1>3, <2>1 DEF ReleaseInv, CommitInv, Granted
<1> QED
  BY <1>2, <1>3

-----------------------------------------------------------------------------
(* Registration, candidates and approvals.                                  *)

LEMMA RegisterKeeps ==
    ASSUME Rel!IdentifierFacts, ReleaseInv, NEW v \in StandardVersions, Rel!Register(v)
    PROVE  ReleaseInv'
<1> USE DEF Rel!Register
<1>1. CommitInv'
  BY CommitsStay
<1>2. ReleaseShapeInv' /\ CandidateInv' /\ OperationInv'
  BY DEF ReleaseInv, ReleaseShapeInv, CandidateInv, OperationInv
<1> QED
  BY <1>1, <1>2, ReleaseUntouched

\* A step that writes one candidate which no publication rests on, or that keeps it
\* validated and reviewed.
LEMMA CandidateStep ==
    ASSUME Rel!IdentifierFacts, ReleaseInv, NEW c \in Candidates, NEW r \in CandidateType,
           candidate' = [candidate EXCEPT ![c] = r],
           UNCHANGED <<publication, head, index, operation, commit>>,
           checkpoint' \in [Approvals -> CheckpointType \cup {Rel!NoRecord}],
           \A a \in Approvals : checkpoint[a] # Rel!NoRecord /\ checkpoint[a].state = "APPROVED"
                => checkpoint'[a] = checkpoint[a],
           r.state \in {"REVIEW_REQUIRED", "PUBLISHED"} => KeyUnique(r.snaps),
           \/ candidate[c].state \notin {"REVIEW_REQUIRED", "PUBLISHED"}
           \/ candidate[c].review = NoId
           \/ r.state \in {"REVIEW_REQUIRED", "PUBLISHED"} /\ r.review # NoId
    PROVE  ReleaseInv'
<1>1. CommitInv'
  BY CommitsStay
<1>2. ReleaseShapeInv'
  BY DEF ReleaseInv, ReleaseShapeInv
<1>3. \A d \in Candidates : candidate'[d] = IF d = c THEN r ELSE candidate[d]
  BY DEF ReleaseInv, ReleaseShapeInv
<1>4. CandidateInv'
  BY <1>3 DEF ReleaseInv, CandidateInv, KeyUnique
<1>5. OperationInv'
  BY DEF ReleaseInv, OperationInv
<1> QED
  BY <1>1, <1>2, <1>3, <1>4, <1>5, ReleaseUntouched

LEMMA CreateCandidateKeeps ==
    ASSUME Rel!IdentifierFacts, ReleaseInv, NEW c \in Candidates, NEW b \in Batches,
           Rel!CreateCandidate(c, b)
    PROVE  ReleaseInv'
<1> DEFINE r == [state |-> "DRAFT", base |-> head, snaps |-> b, review |-> NoId,
                 approval |-> NoId, pub |-> NoId]
<1>1. r \in CandidateType
  BY DEF CandidateType, ReleaseInv, ReleaseShapeInv
<1>2. candidate' = [candidate EXCEPT ![c] = r] /\ candidate[c].state = "absent"
  BY DEF Rel!CreateCandidate, Rel!NoRecord
<1>3. UNCHANGED <<publication, head, index, operation, commit, checkpoint>>
  BY DEF Rel!CreateCandidate
<1>4. checkpoint' \in [Approvals -> CheckpointType \cup {Rel!NoRecord}]
  BY <1>3 DEF ReleaseInv, ReleaseShapeInv
<1>5. r.state = "DRAFT"
  OBVIOUS
<1> HIDE DEF r
<1> QED
  BY <1>1, <1>2, <1>3, <1>4, <1>5, CandidateStep

LEMMA ValidateKeeps ==
    ASSUME Rel!IdentifierFacts, ReleaseInv, NEW c \in Candidates, Rel!Validate(c)
    PROVE  ReleaseInv'
<1>1. candidate[c] \in CandidateType
  BY DEF Rel!Validate, ReleaseInv, ReleaseShapeInv, Rel!NoRecord
<1> DEFINE r == [candidate[c] EXCEPT !.state =
                   IF Rel!ValidCandidate(candidate[c]) THEN "REVIEW_REQUIRED" ELSE "FAILED"]
<1>2. r \in CandidateType /\ r.snaps = candidate[c].snaps
  BY <1>1 DEF CandidateType
<1>3. candidate' = [candidate EXCEPT ![c] = r] /\ candidate[c].state = "DRAFT"
  BY DEF Rel!Validate
<1>4. UNCHANGED <<publication, head, index, operation, commit, checkpoint>>
  BY DEF Rel!Validate
<1>5. checkpoint' \in [Approvals -> CheckpointType \cup {Rel!NoRecord}]
  BY <1>4 DEF ReleaseInv, ReleaseShapeInv
<1>6. ASSUME r.state \in {"REVIEW_REQUIRED", "PUBLISHED"}
      PROVE  KeyUnique(r.snaps)
  <2>1. Rel!ValidCandidate(candidate[c])
    BY <1>1, <1>6 DEF CandidateType
  <2>2. candidate[c].snaps \in Batches
    BY <1>1 DEF CandidateType
  <2>3. \A s, u \in candidate[c].snaps : s.doc = u.doc => s = u
    BY <2>1 DEF Rel!ValidCandidate
  <2> QED
    BY <1>2, <2>2, <2>3 DEF KeyUnique, Rel!IdentifierFacts
<1> HIDE DEF r
<1> QED
  BY <1>2, <1>3, <1>4, <1>5, <1>6, CandidateStep

LEMMA RecordReviewKeeps ==
    ASSUME Rel!IdentifierFacts, ReleaseInv, NEW c \in Candidates, NEW w \in Workflows,
           Rel!RecordReview(c, w)
    PROVE  ReleaseInv'
<1>1. candidate[c] \in CandidateType
  BY DEF Rel!RecordReview, ReleaseInv, ReleaseShapeInv, Rel!NoRecord
<1> DEFINE r == [candidate[c] EXCEPT !.review = w]
<1>2. r \in CandidateType /\ r.snaps = candidate[c].snaps /\ r.review # NoId
      /\ r.state = candidate[c].state
  BY <1>1 DEF CandidateType, Rel!IdentifierFacts
<1>3. candidate' = [candidate EXCEPT ![c] = r] /\ candidate[c].state = "REVIEW_REQUIRED"
  BY DEF Rel!RecordReview
<1>4. UNCHANGED <<publication, head, index, operation, commit, checkpoint>>
  BY DEF Rel!RecordReview
<1>5. checkpoint' \in [Approvals -> CheckpointType \cup {Rel!NoRecord}]
  BY <1>4 DEF ReleaseInv, ReleaseShapeInv
<1>6. KeyUnique(r.snaps)
  BY <1>2, <1>3 DEF ReleaseInv, CandidateInv
<1> HIDE DEF r
<1> QED
  BY <1>2, <1>3, <1>4, <1>5, <1>6, CandidateStep

LEMMA CreatedKeeps ==
    ASSUME ReleaseInv, NEW a \in Approvals, NEW content \in ContentType,
           Rel!Created(a, content)
    PROVE  /\ checkpoint' \in [Approvals -> CheckpointType \cup {Rel!NoRecord}]
           /\ \A b \in Approvals : checkpoint[b] # Rel!NoRecord => checkpoint'[b] = checkpoint[b]
<1>1. [state |-> "PENDING", content |-> content] \in CheckpointType
  BY DEF CheckpointType
<1> QED
  BY <1>1 DEF Rel!Created, ReleaseInv, ReleaseShapeInv

LEMMA RequestPublishApprovalKeeps ==
    ASSUME Rel!IdentifierFacts, ReleaseInv, NEW c \in Candidates, NEW a \in Approvals,
           Rel!RequestPublishApproval(c, a)
    PROVE  ReleaseInv'
<1>1. candidate[c] \in CandidateType
  BY DEF Rel!RequestPublishApproval, ReleaseInv, ReleaseShapeInv, Rel!NoRecord
<1> DEFINE r == [candidate[c] EXCEPT !.approval = a]
           content == [action |-> "publish", target |-> c, preview |-> candidate[c].review]
<1>2. r \in CandidateType /\ r.snaps = candidate[c].snaps /\ r.review = candidate[c].review
      /\ r.state = candidate[c].state
  BY <1>1 DEF CandidateType
<1>3. candidate' = [candidate EXCEPT ![c] = r] /\ candidate[c].state = "REVIEW_REQUIRED"
      /\ candidate[c].review # NoId
  BY DEF Rel!RequestPublishApproval
<1>4. UNCHANGED <<publication, head, index, operation, commit>>
  BY DEF Rel!RequestPublishApproval
<1>5. content \in ContentType
  BY <1>1 DEF ContentType, CandidateType
<1>6. Rel!Created(a, content)
  BY DEF Rel!RequestPublishApproval
<1>7. KeyUnique(r.snaps)
  BY <1>2, <1>3 DEF ReleaseInv, CandidateInv
<1> HIDE DEF r, content
<1>8. /\ checkpoint' \in [Approvals -> CheckpointType \cup {Rel!NoRecord}]
      /\ \A b \in Approvals : checkpoint[b] # Rel!NoRecord => checkpoint'[b] = checkpoint[b]
  BY <1>5, <1>6, CreatedKeeps
<1> QED
  BY <1>2, <1>3, <1>4, <1>7, <1>8, CandidateStep

LEMMA DecideKeeps ==
    ASSUME Rel!IdentifierFacts, ReleaseInv, NEW a \in Approvals,
           NEW outcome \in {"APPROVED", "REJECTED"}, Rel!Decide(a, outcome)
    PROVE  ReleaseInv'
<1> USE DEF Rel!Decide
<1>1. checkpoint[a] \in CheckpointType
  BY DEF ReleaseInv, ReleaseShapeInv, Rel!NoRecord
<1>2. [checkpoint[a] EXCEPT !.state = outcome] \in CheckpointType
  BY <1>1 DEF CheckpointType
<1>3. checkpoint' \in [Approvals -> CheckpointType \cup {Rel!NoRecord}]
  BY <1>2 DEF ReleaseInv, ReleaseShapeInv
<1>4. \A b \in Approvals : checkpoint[b].state = "APPROVED" => checkpoint'[b] = checkpoint[b]
  BY DEF ReleaseInv, ReleaseShapeInv
<1>5. ReleaseShapeInv' /\ CandidateInv' /\ OperationInv'
  BY <1>3 DEF ReleaseInv, ReleaseShapeInv, CandidateInv, OperationInv
<1>6. CommitInv'
  BY <1>4, CommitsStay
<1> QED
  BY <1>4, <1>5, <1>6, ReleaseUntouched

-----------------------------------------------------------------------------
(* Calls that wait for their commit.                                        *)

\* A call is written for one thread, with what CommitInv asks of it.
LEMMA CallStep ==
    ASSUME Rel!IdentifierFacts, ReleaseInv, NEW t \in Threads,
           NEW r \in PublishCall \cup ActionCall \cup {Rel!NoRecord},
           commit' = [commit EXCEPT ![t] = r],
           UNCHANGED <<candidate, publication, head, index, operation, checkpoint>>,
           r.state = "publish" =>
              /\ Granted(r.grant, "publish", r.cand)
              /\ r.copy.state = "REVIEW_REQUIRED"
              /\ r.copy.review # NoId
              /\ KeyUnique(r.copy.snaps),
           r.state \in {"withdraw", "rollback"} =>
              /\ Granted(r.grant, r.state, r.op)
              /\ operation[r.op] # Rel!NoRecord
              /\ operation[r.op].kind = r.state
    PROVE  ReleaseInv'
<1>1. ReleaseShapeInv' /\ CandidateInv' /\ OperationInv'
  BY DEF ReleaseInv, ReleaseShapeInv, CandidateInv, OperationInv
<1>2. \A u \in Threads : commit'[u] = IF u = t THEN r ELSE commit[u]
  BY DEF ReleaseInv, ReleaseShapeInv
<1>3. CommitInv'
  BY <1>2 DEF ReleaseInv, CommitInv, Granted, KeyUnique
<1> QED
  BY <1>1, <1>3, ReleaseUntouched

LEMMA PublishKeeps ==
    ASSUME Rel!IdentifierFacts, ReleaseInv, NEW t \in Threads, NEW c \in Candidates,
           NEW p \in Publications, Rel!Publish(t, c, p)
    PROVE  ReleaseInv'
<1>1. candidate[c] \in CandidateType
  BY DEF Rel!Publish, ReleaseInv, ReleaseShapeInv, Rel!NoRecord
<1> DEFINE r == [state |-> "publish", cand |-> c, copy |-> candidate[c], pub |-> p,
                 grant |-> candidate[c].approval]
<1>2. candidate[c].approval \in Approvals
  BY <1>1 DEF Rel!Publish, CandidateType
<1>3. r \in PublishCall
  BY <1>1, <1>2 DEF PublishCall
<1>4. Granted(candidate[c].approval, "publish", c)
  BY DEF Rel!Publish, Rel!CheckpointMatches, Rel!Resumable, Granted
<1>5. KeyUnique(candidate[c].snaps)
  BY DEF Rel!Publish, ReleaseInv, CandidateInv
<1>6. commit' = [commit EXCEPT ![t] = r]
  BY DEF Rel!Publish
<1>7. /\ candidate[c].state = "REVIEW_REQUIRED"
      /\ candidate[c].review # NoId
      /\ UNCHANGED <<candidate, publication, head, index, operation, checkpoint>>
  BY DEF Rel!Publish
<1>8. /\ r.state = "publish" /\ r.grant = candidate[c].approval /\ r.cand = c
      /\ r.copy = candidate[c]
  OBVIOUS
<1> HIDE DEF r
<1> QED
  BY <1>3, <1>4, <1>5, <1>6, <1>7, <1>8, CallStep

LEMMA ActKeeps ==
    ASSUME Rel!IdentifierFacts, ReleaseInv, NEW t \in Threads, NEW o \in Operations,
           NEW kind \in {"withdraw", "rollback"}, Rel!Act(t, o, kind)
    PROVE  ReleaseInv'
<1>1. operation[o] \in OperationType /\ operation[o] # Rel!NoRecord
  BY DEF Rel!Act, ReleaseInv, ReleaseShapeInv, Rel!NoRecord
<1> DEFINE r == [state |-> kind, op |-> o, grant |-> operation[o].approval]
<1>2. r \in ActionCall
  BY <1>1 DEF ActionCall, OperationType
<1>3. Granted(operation[o].approval, kind, o)
  BY DEF Rel!Act, Rel!CheckpointMatches, Rel!Resumable, Granted
<1>4. commit' = [commit EXCEPT ![t] = r]
  BY DEF Rel!Act
<1>5. /\ operation[o].kind = kind
      /\ UNCHANGED <<candidate, publication, head, index, operation, checkpoint>>
  BY DEF Rel!Act
<1>6. r.state = kind /\ r.grant = operation[o].approval /\ r.op = o
  OBVIOUS
<1> HIDE DEF r
<1> QED
  BY <1>1, <1>2, <1>3, <1>4, <1>5, <1>6, CallStep

LEMMA CommitFailsKeeps ==
    ASSUME Rel!IdentifierFacts, ReleaseInv, NEW t \in Threads, Rel!CommitFails(t)
    PROVE  ReleaseInv'
<1>1. Rel!NoRecord.state = "absent"
  BY DEF Rel!NoRecord
<1>2. commit' = [commit EXCEPT ![t] = Rel!NoRecord]
  BY DEF Rel!CommitFails, Rel!Leave
<1>3. UNCHANGED <<candidate, publication, head, index, operation, checkpoint>>
  BY DEF Rel!CommitFails
<1> QED
  BY <1>1, <1>2, <1>3, CallStep

LEMMA RequestActionKeeps ==
    ASSUME Rel!IdentifierFacts, ReleaseInv, NEW o \in Operations, NEW a \in Approvals,
           NEW kind \in {"withdraw", "rollback"}, NEW p \in Rel!PubIds,
           Rel!RequestAction(o, a, kind, p)
    PROVE  ReleaseInv'
<1> DEFINE r == [state |-> "PENDING", kind |-> kind, target |-> p,
                 expected |-> head, approval |-> a]
           content == [action |-> kind, target |-> o, preview |-> NoId]
<1>1. r \in OperationType
  BY DEF Rel!RequestAction, ReleaseInv, ReleaseShapeInv, OperationType
<1>2. content \in ContentType
  BY DEF ContentType
<1>3. /\ operation[o] \in {Rel!NoRecord, r}
      /\ operation' = [operation EXCEPT ![o] = r]
      /\ Rel!Created(a, content) \/ UNCHANGED checkpoint
      /\ UNCHANGED <<candidate, publication, head, index, commit>>
      /\ publication[p] # Rel!NoRecord
      /\ kind = "withdraw" => head = p
  BY DEF Rel!RequestAction
<1>4. /\ r.target = p /\ r.kind = kind /\ r.expected = head
  OBVIOUS
<1> HIDE DEF r, content
<1>5. /\ checkpoint' \in [Approvals -> CheckpointType \cup {Rel!NoRecord}]
      /\ \A b \in Approvals : checkpoint[b] # Rel!NoRecord => checkpoint'[b] = checkpoint[b]
  BY <1>2, <1>3, CreatedKeeps DEF ReleaseInv, ReleaseShapeInv
<1>6. ReleaseShapeInv'
  BY <1>1, <1>3, <1>5 DEF ReleaseInv, ReleaseShapeInv
<1>7. \A q \in Operations : operation[q] # Rel!NoRecord => operation'[q] = operation[q]
  BY <1>3 DEF ReleaseInv, ReleaseShapeInv
<1>8. CommitInv'
  BY <1>3, <1>5, <1>7, CommitsStay
<1>9. OperationInv'
  <2> SUFFICES ASSUME NEW q \in Operations, operation'[q] # Rel!NoRecord
               PROVE  /\ publication'[operation'[q].target] # Rel!NoRecord
                      /\ operation'[q].kind = "withdraw" => operation'[q].expected = operation'[q].target
    BY DEF OperationInv
  <2>1. CASE q = o
    <3>1. operation'[q] = r
      BY <1>3, <2>1 DEF ReleaseInv, ReleaseShapeInv
    <3> QED
      BY <1>3, <1>4, <3>1
  <2>2. CASE q # o
    <3>1. operation'[q] = operation[q]
      BY <1>3, <2>2 DEF ReleaseInv, ReleaseShapeInv
    <3> QED
      BY <1>3, <3>1 DEF ReleaseInv, OperationInv
  <2> QED
    BY <2>1, <2>2
<1>10. CandidateInv'
  BY <1>3 DEF ReleaseInv, CandidateInv
<1> QED
  BY <1>3, <1>5, <1>6, <1>7, <1>8, <1>9, <1>10, ReleaseUntouched

-----------------------------------------------------------------------------
(* The commits.                                                             *)

\* What replace_many leaves under a key.
LEMMA Replaced ==
    ASSUME NEW batch, Rel!ReplaceMany(batch), NEW k \in Rel!Keys
    PROVE  /\ (\A e \in batch : e.snap.key # k) => index'[k] = index[k]
           /\ \A e \in batch : e.snap.key = k =>
                 index'[k] \in batch /\ index'[k].snap.key = k
BY DEF Rel!ReplaceMany

\* A commit swaps the index to a new head: what the old head shows and the new one
\* does not is superseded.
LEMMA NewHead ==
    ASSUME Rel!IdentifierFacts, ReleaseInv, NEW p \in Rel!PubIds, NEW r \in PublicationType,
           KeyUnique(r.snaps), r.state = "PUBLISHED",
           head' = p,
           publication' = [q \in Rel!PubIds |->
               IF q = p THEN r
               ELSE IF q = head THEN [publication[q] EXCEPT !.state = "SUPERSEDED"]
               ELSE publication[q]],
           Rel!ReplaceMany((IF head = NoId THEN {} ELSE Rel!Leaving(head, r.snaps, "SUPERSEDED"))
                         \cup Rel!WithStatus(r.snaps, "PUBLISHED"))
    PROVE  /\ publication' \in [Rel!PubIds -> PublicationType \cup {Rel!NoRecord}]
           /\ index' \in [Rel!Keys -> EntryType \cup {Rel!NoRecord}]
           /\ HeadInv' /\ IndexInv'
           /\ \A q \in Rel!PubIds : q # p /\ publication'[q] # Rel!NoRecord =>
                 /\ publication[q] # Rel!NoRecord
                 /\ publication'[q].snaps = publication[q].snaps
                 /\ publication'[q].cand = publication[q].cand
                 /\ publication'[q].grant = publication[q].grant
           /\ \A q \in Rel!PubIds : publication[q] # Rel!NoRecord => publication'[q] # Rel!NoRecord
<1> DEFINE old == IF head = NoId THEN {} ELSE Rel!Leaving(head, r.snaps, "SUPERSEDED")
           new == Rel!WithStatus(r.snaps, "PUBLISHED")
<1>1. head # NoId => publication[head] \in PublicationType /\ publication[head] # Rel!NoRecord
  BY DEF ReleaseInv, HeadInv, ReleaseShapeInv
<1>2. ASSUME NEW q \in Rel!PubIds, q # p
      PROVE  \/ publication'[q] = publication[q] /\ q # head
             \/ /\ q = head
                /\ publication'[q] \in PublicationType
                /\ publication'[q].state = "SUPERSEDED"
                /\ publication'[q].snaps = publication[q].snaps
                /\ publication'[q].cand = publication[q].cand
                /\ publication'[q].grant = publication[q].grant
  <2>1. CASE q = head
    <3>1. publication[q] \in PublicationType
      BY <1>1, <2>1 DEF Rel!IdentifierFacts
    <3>2. publication'[q] = [publication[q] EXCEPT !.state = "SUPERSEDED"]
      BY <1>2, <2>1
    <3> QED
      BY <2>1, <3>1, <3>2 DEF PublicationType
  <2>2. CASE q # head
    BY <1>2, <2>2
  <2> QED
    BY <2>1, <2>2
<1>3. publication'[p] = r /\ publication' = [q \in Rel!PubIds |-> publication'[q]]
  OBVIOUS
<1>4. r # Rel!NoRecord /\ \A x \in PublicationType : x # Rel!NoRecord
  BY DEF PublicationType, Rel!NoRecord
<1>5. publication' \in [Rel!PubIds -> PublicationType \cup {Rel!NoRecord}]
  <2>1. \A q \in Rel!PubIds : publication'[q] \in PublicationType \cup {Rel!NoRecord}
    BY <1>2, <1>3 DEF ReleaseInv, ReleaseShapeInv
  <2> QED
    BY <1>3, <2>1
<1>6. HeadInv'
  BY <1>2, <1>3, <1>4 DEF ReleaseInv, HeadInv
<1>7. \A e \in new : /\ e.snap \in r.snaps /\ e.status = "PUBLISHED" /\ e \in EntryType
                     /\ e # Rel!NoRecord
  <2>1. r.snaps \in Batches
    BY DEF PublicationType
  <2> QED
    BY <2>1 DEF Rel!WithStatus, EntryType, Rel!NoRecord
<1>8. \A e \in old : /\ head # NoId /\ e.snap \in publication[head].snaps
                     /\ e.status = "SUPERSEDED" /\ e \in EntryType /\ e # Rel!NoRecord
                     /\ \A s \in r.snaps : s.key # e.snap.key
  <2>1. head # NoId => publication[head].snaps \in Batches
    BY <1>1 DEF PublicationType
  <2> QED
    BY <2>1 DEF Rel!Leaving, Rel!WithStatus, EntryType, Rel!NoRecord
<1>9. head # NoId => \A s \in publication[head].snaps :
          (\A n \in r.snaps : n.key # s.key) => \E e \in old : e.snap = s
  <2> SUFFICES ASSUME head # NoId, NEW s \in publication[head].snaps,
                      \A n \in r.snaps : n.key # s.key
               PROVE  \E e \in old : e.snap = s
    OBVIOUS
  <2>1. [snap |-> s, status |-> "SUPERSEDED"] \in old
    BY DEF Rel!Leaving, Rel!WithStatus
  <2> HIDE DEF old
  <2> QED
    BY <2>1
<1>10. \A s \in r.snaps : \E e \in new : e.snap = s
  <2> SUFFICES ASSUME NEW s \in r.snaps
               PROVE  \E e \in new : e.snap = s
    OBVIOUS
  <2>1. [snap |-> s, status |-> "PUBLISHED"] \in new
    BY DEF Rel!WithStatus
  <2> HIDE DEF new
  <2> QED
    BY <2>1
<1>11. index' = [k \in Rel!Keys |-> index'[k]]
  BY DEF Rel!ReplaceMany
<1>12. Rel!ReplaceMany(old \cup new)
  OBVIOUS
<1> HIDE DEF old, new
<1>13. ASSUME NEW k \in Rel!Keys
       PROVE  \/ /\ index'[k] \in old \cup new
                 /\ index'[k].snap.key = k
              \/ /\ index'[k] = index[k]
                 /\ \A e \in old \cup new : e.snap.key # k
  BY <1>12, Replaced
<1>14. index' \in [Rel!Keys -> EntryType \cup {Rel!NoRecord}]
  <2>1. \A k \in Rel!Keys : index'[k] \in EntryType \cup {Rel!NoRecord}
    BY <1>7, <1>8, <1>13 DEF ReleaseInv, ReleaseShapeInv
  <2> QED
    BY <1>11, <2>1
<1>15. IndexInv'
  <2> SUFFICES ASSUME NEW k \in Rel!Keys
               PROVE  /\ index'[k] # Rel!NoRecord => index'[k].snap.key = k
                      /\ index'[k] # Rel!NoRecord /\ index'[k].status = "PUBLISHED" =>
                            index'[k].snap \in r.snaps
                      /\ \A s \in r.snaps : s.key = k =>
                            index'[k] # Rel!NoRecord /\ index'[k].status = "PUBLISHED" /\ index'[k].snap = s
    BY <1>3 DEF IndexInv, Rel!IdentifierFacts
  <2>1. CASE index'[k] \in old /\ index'[k].snap.key = k
    BY <1>8, <2>1
  <2>2. CASE index'[k] \in new /\ index'[k].snap.key = k
    BY <1>7, <2>2 DEF KeyUnique
  <2>3. CASE index'[k] = index[k] /\ \A e \in old \cup new : e.snap.key # k
    <3>1. \A s \in r.snaps : s.key # k
      BY <1>10, <2>3
    <3>2. head # NoId => \A s \in publication[head].snaps : s.key # k
      BY <1>9, <2>3, <3>1
    <3> QED
      BY <2>3, <3>1, <3>2 DEF ReleaseInv, IndexInv
  <2> QED
    BY <1>13, <2>1, <2>2, <2>3
<1>16. \A q \in Rel!PubIds : publication[q] # Rel!NoRecord => publication'[q] # Rel!NoRecord
  BY <1>2, <1>3, <1>4
<1> QED
  BY <1>1, <1>2, <1>5, <1>6, <1>14, <1>15, <1>16 DEF Rel!IdentifierFacts

\* The new head is authorized, its candidate validated and reviewed, and the other
\* records keep what the invariant says of them.
LEMMA NewHeadKeeps ==
    ASSUME Rel!IdentifierFacts, ReleaseInv, NEW p \in Rel!PubIds, NEW r \in PublicationType,
           KeyUnique(r.snaps), r.state = "PUBLISHED",
           \/ p \in Publications /\ Granted(r.grant, "publish", r.cand)
           \/ p \in Operations /\ Granted(r.grant, "rollback", p),
           head' = p,
           publication' = [q \in Rel!PubIds |->
               IF q = p THEN r
               ELSE IF q = head THEN [publication[q] EXCEPT !.state = "SUPERSEDED"]
               ELSE publication[q]],
           Rel!ReplaceMany((IF head = NoId THEN {} ELSE Rel!Leaving(head, r.snaps, "SUPERSEDED"))
                         \cup Rel!WithStatus(r.snaps, "PUBLISHED")),
           candidate' \in [Candidates -> CandidateType \cup {Rel!NoRecord}],
           CandidateInv',
           candidate'[r.cand].state \in {"REVIEW_REQUIRED", "PUBLISHED"},
           candidate'[r.cand].review # NoId,
           \A c \in Candidates : candidate[c].state \in {"REVIEW_REQUIRED", "PUBLISHED"}
                /\ candidate[c].review # NoId =>
                   /\ candidate'[c].state \in {"REVIEW_REQUIRED", "PUBLISHED"}
                   /\ candidate'[c].review # NoId,
           operation' \in [Operations -> OperationType \cup {Rel!NoRecord}],
           \A o \in Operations :
                \/ operation'[o] = operation[o]
                \/ /\ operation[o] # Rel!NoRecord /\ operation'[o] # Rel!NoRecord
                   /\ operation'[o].kind = operation[o].kind
                   /\ operation'[o].target = operation[o].target
                   /\ operation'[o].expected = operation[o].expected,
           UNCHANGED checkpoint,
           NEW t \in Threads, Rel!Leave(t)
    PROVE  ReleaseInv'
<1>1. /\ publication' \in [Rel!PubIds -> PublicationType \cup {Rel!NoRecord}]
      /\ index' \in [Rel!Keys -> EntryType \cup {Rel!NoRecord}]
      /\ HeadInv' /\ IndexInv'
      /\ \A q \in Rel!PubIds : q # p /\ publication'[q] # Rel!NoRecord =>
            /\ publication[q] # Rel!NoRecord
            /\ publication'[q].snaps = publication[q].snaps
            /\ publication'[q].cand = publication[q].cand
            /\ publication'[q].grant = publication[q].grant
      /\ \A q \in Rel!PubIds : publication[q] # Rel!NoRecord => publication'[q] # Rel!NoRecord
  BY NewHead
<1>2. publication'[p] = r
  OBVIOUS
<1>3. commit' \in [Threads -> PublishCall \cup ActionCall \cup {Rel!NoRecord}]
      /\ \A u \in Threads : commit'[u] = IF u = t THEN Rel!NoRecord ELSE commit[u]
  BY DEF Rel!Leave, ReleaseInv, ReleaseShapeInv
<1>4. ReleaseShapeInv'
  BY <1>1, <1>3 DEF ReleaseInv, ReleaseShapeInv
<1>5. PublicationInv'
  <2> SUFFICES ASSUME NEW q \in Rel!PubIds, publication'[q] # Rel!NoRecord
               PROVE  /\ KeyUnique(publication'[q].snaps)
                      /\ \/ q \in Publications /\ Granted(publication'[q].grant, "publish", publication'[q].cand)
                         \/ q \in Operations /\ Granted(publication'[q].grant, "rollback", q)
                      /\ candidate'[publication'[q].cand].state \in {"REVIEW_REQUIRED", "PUBLISHED"}
                      /\ candidate'[publication'[q].cand].review # NoId
    BY DEF PublicationInv, KeyUnique, Granted
  <2>1. CASE q = p
    BY <1>2, <2>1 DEF Granted
  <2>2. CASE q # p
    <3>1. publication[q] # Rel!NoRecord /\ publication[q].cand \in Candidates
      BY <1>1, <2>2 DEF ReleaseInv, ReleaseShapeInv, PublicationType
    <3>2. /\ publication'[q].snaps = publication[q].snaps
          /\ publication'[q].cand = publication[q].cand
          /\ publication'[q].grant = publication[q].grant
      BY <1>1, <2>2
    <3> QED
      BY <3>1, <3>2 DEF ReleaseInv, PublicationInv, Granted
  <2> QED
    BY <2>1, <2>2
<1>6. OperationInv'
  <2> SUFFICES ASSUME NEW o \in Operations, operation'[o] # Rel!NoRecord
               PROVE  /\ publication'[operation'[o].target] # Rel!NoRecord
                      /\ operation'[o].kind = "withdraw" => operation'[o].expected = operation'[o].target
    BY DEF OperationInv
  <2>1. operation[o] # Rel!NoRecord /\ operation[o].target \in Rel!PubIds
    BY DEF ReleaseInv, ReleaseShapeInv, OperationType
  <2>2. publication[operation[o].target] # Rel!NoRecord
    BY <2>1 DEF ReleaseInv, OperationInv
  <2> QED
    BY <1>1, <2>1, <2>2 DEF ReleaseInv, OperationInv
<1>7. CommitInv'
  <2> SUFFICES ASSUME NEW u \in Threads
               PROVE  /\ commit'[u].state = "publish" =>
                            /\ Granted(commit'[u].grant, "publish", commit'[u].cand)
                            /\ commit'[u].copy.state = "REVIEW_REQUIRED"
                            /\ commit'[u].copy.review # NoId
                            /\ KeyUnique(commit'[u].copy.snaps)
                      /\ commit'[u].state \in {"withdraw", "rollback"} =>
                            /\ Granted(commit'[u].grant, commit'[u].state, commit'[u].op)
                            /\ operation'[commit'[u].op] # Rel!NoRecord
                            /\ operation'[commit'[u].op].kind = commit'[u].state
    BY DEF CommitInv, KeyUnique, Granted
  <2>1. CASE u = t
    BY <1>3, <2>1 DEF Rel!NoRecord
  <2>2. CASE u # t
    <3>1. commit'[u] = commit[u]
      BY <1>3, <2>2
    <3>2. commit[u].state \in {"withdraw", "rollback"} => commit[u].op \in Operations
      BY DEF ReleaseInv, ReleaseShapeInv, PublishCall, ActionCall, Rel!NoRecord
    <3> QED
      BY <3>1, <3>2 DEF ReleaseInv, CommitInv, Granted
  <2> QED
    BY <2>1, <2>2
<1> QED
  BY <1>1, <1>4, <1>5, <1>6, <1>7 DEF ReleaseInv

LEMMA CommitPublicationKeeps ==
    ASSUME Rel!IdentifierFacts, ReleaseInv, NEW t \in Threads, Rel!CommitPublication(t)
    PROVE  ReleaseInv'
<1>1. commit[t] \in PublishCall
  BY DEF Rel!CommitPublication, ReleaseInv, ReleaseShapeInv, ActionCall, Rel!NoRecord
<1>2. /\ commit[t].cand \in Candidates /\ commit[t].copy \in CandidateType
      /\ commit[t].pub \in Rel!PubIds /\ commit[t].pub \in Publications
      /\ commit[t].grant \in Approvals
  BY <1>1 DEF PublishCall, Rel!PubIds
<1>3. /\ Granted(commit[t].grant, "publish", commit[t].cand)
      /\ commit[t].copy.review # NoId
      /\ KeyUnique(commit[t].copy.snaps)
  BY DEF Rel!CommitPublication, ReleaseInv, CommitInv
<1> DEFINE p == commit[t].pub
           r == Rel!NewPublication(commit[t].copy.snaps, commit[t].cand, commit[t].grant)
           d == [commit[t].copy EXCEPT !.state = "PUBLISHED", !.pub = p]
<1>4. /\ r \in PublicationType /\ r.snaps = commit[t].copy.snaps /\ r.state = "PUBLISHED"
      /\ r.grant = commit[t].grant /\ r.cand = commit[t].cand
  BY <1>2 DEF Rel!NewPublication, PublicationType, CandidateType
<1>5. /\ d \in CandidateType /\ d.state = "PUBLISHED" /\ d.review = commit[t].copy.review
      /\ d.snaps = commit[t].copy.snaps
  BY <1>2 DEF CandidateType
<1>6. candidate' = [candidate EXCEPT ![commit[t].cand] = d]
  BY DEF Rel!CommitPublication
<1>7. /\ head' = p
      /\ Rel!Leave(t)
      /\ UNCHANGED <<operation, checkpoint>>
      /\ publication' = [q \in Rel!PubIds |->
           IF q = p THEN r
           ELSE IF q = head THEN [publication[q] EXCEPT !.state = "SUPERSEDED"]
           ELSE publication[q]]
      /\ Rel!ReplaceMany((IF head = NoId THEN {} ELSE Rel!Leaving(head, commit[t].copy.snaps, "SUPERSEDED"))
                         \cup Rel!WithStatus(commit[t].copy.snaps, "PUBLISHED"))
  BY DEF Rel!CommitPublication
<1> HIDE DEF p, r, d
<1>8. p \in Rel!PubIds /\ p \in Publications
  BY <1>2 DEF p
<1>9. \A c \in Candidates : candidate'[c] = IF c = commit[t].cand THEN d ELSE candidate[c]
  BY <1>6 DEF ReleaseInv, ReleaseShapeInv
<1>10. /\ candidate' \in [Candidates -> CandidateType \cup {Rel!NoRecord}]
       /\ operation' \in [Operations -> OperationType \cup {Rel!NoRecord}]
  BY <1>2, <1>5, <1>6, <1>7 DEF ReleaseInv, ReleaseShapeInv
<1>11. CandidateInv'
  BY <1>3, <1>5, <1>9 DEF ReleaseInv, CandidateInv, KeyUnique
<1>12. candidate'[r.cand] = d
  BY <1>2, <1>4, <1>9
<1> QED
  BY <1>3, <1>4, <1>5, <1>7, <1>8, <1>9, <1>10, <1>11, <1>12, NewHeadKeeps

LEMMA CommitRollbackKeeps ==
    ASSUME Rel!IdentifierFacts, ReleaseInv, NEW t \in Threads, Rel!CommitRollback(t)
    PROVE  ReleaseInv'
<1> DEFINE o == commit[t].op
           target == operation[o].target
           r == Rel!NewPublication(publication[target].snaps, publication[target].cand,
                               commit[t].grant)
           w == [operation[o] EXCEPT !.state = "COMPLETED"]
<1>1. commit[t] \in ActionCall
  BY DEF Rel!CommitRollback, ReleaseInv, ReleaseShapeInv, PublishCall, Rel!NoRecord
<1>2. o \in Operations /\ o \in Rel!PubIds /\ commit[t].grant \in Approvals
  BY <1>1 DEF ActionCall, Rel!PubIds
<1>3. operation[o] # Rel!NoRecord /\ Granted(commit[t].grant, "rollback", o)
  BY DEF Rel!CommitRollback, ReleaseInv, CommitInv
<1>4. operation[o] \in OperationType
  BY <1>2, <1>3 DEF ReleaseInv, ReleaseShapeInv
<1>5. target \in Rel!PubIds /\ publication[target] # Rel!NoRecord
  BY <1>2, <1>3, <1>4 DEF ReleaseInv, OperationInv, OperationType
<1>6. publication[target] \in PublicationType
  BY <1>5 DEF ReleaseInv, ReleaseShapeInv
<1>7. /\ KeyUnique(publication[target].snaps)
      /\ candidate[publication[target].cand].state \in {"REVIEW_REQUIRED", "PUBLISHED"}
      /\ candidate[publication[target].cand].review # NoId
  BY <1>5 DEF ReleaseInv, PublicationInv
<1>8. /\ r \in PublicationType /\ r.snaps = publication[target].snaps
      /\ r.state = "PUBLISHED" /\ r.cand = publication[target].cand
      /\ r.grant = commit[t].grant
  BY <1>2, <1>6 DEF Rel!NewPublication, PublicationType
<1>9. /\ w \in OperationType /\ w.kind = operation[o].kind
      /\ w.target = operation[o].target /\ w.expected = operation[o].expected
  BY <1>4 DEF OperationType
<1>10. head # NoId
  BY <1>4 DEF Rel!CommitRollback, OperationType, Rel!IdentifierFacts
<1>11. /\ head' = o
       /\ Rel!Leave(t)
       /\ UNCHANGED <<candidate, checkpoint>>
       /\ publication' = [q \in Rel!PubIds |->
            IF q = o THEN r
            ELSE IF q = head THEN [publication[q] EXCEPT !.state = "SUPERSEDED"]
            ELSE publication[q]]
       /\ Rel!ReplaceMany(Rel!Leaving(head, publication[target].snaps, "SUPERSEDED")
                          \cup Rel!WithStatus(publication[target].snaps, "PUBLISHED"))
       /\ operation' = [operation EXCEPT ![o] = w]
  BY DEF Rel!CommitRollback
<1> HIDE DEF o, target, r, w
<1>12. \A q \in Operations : operation'[q] = IF q = o THEN w ELSE operation[q]
  BY <1>11 DEF ReleaseInv, ReleaseShapeInv
<1>13. operation' \in [Operations -> OperationType \cup {Rel!NoRecord}]
  BY <1>9, <1>11 DEF ReleaseInv, ReleaseShapeInv
<1>14. w # Rel!NoRecord
  BY <1>9 DEF OperationType, Rel!NoRecord
<1>15. CandidateInv' /\ candidate' \in [Candidates -> CandidateType \cup {Rel!NoRecord}]
  BY <1>11 DEF ReleaseInv, CandidateInv, ReleaseShapeInv
<1>16. Rel!ReplaceMany((IF head = NoId THEN {} ELSE Rel!Leaving(head, r.snaps, "SUPERSEDED"))
                      \cup Rel!WithStatus(r.snaps, "PUBLISHED"))
  BY <1>8, <1>10, <1>11
<1> QED
  BY <1>2, <1>3, <1>7, <1>8, <1>9, <1>11, <1>12, <1>13, <1>14, <1>15, <1>16, NewHeadKeeps

LEMMA CommitWithdrawalKeeps ==
    ASSUME Rel!IdentifierFacts, ReleaseInv, NEW t \in Threads, Rel!CommitWithdrawal(t)
    PROVE  ReleaseInv'
<1> DEFINE o == commit[t].op
           r == [publication[head] EXCEPT !.state = "WITHDRAWN"]
           w == [operation[o] EXCEPT !.state = "COMPLETED"]
           batch == Rel!WithStatus(publication[head].snaps, "WITHDRAWN")
<1>1. commit[t] \in ActionCall
  BY DEF Rel!CommitWithdrawal, ReleaseInv, ReleaseShapeInv, PublishCall, Rel!NoRecord
<1>2. o \in Operations
  BY <1>1 DEF ActionCall
<1>3. operation[o] # Rel!NoRecord /\ operation[o].kind = "withdraw"
  BY DEF Rel!CommitWithdrawal, ReleaseInv, CommitInv
<1>4. operation[o] \in OperationType
  BY <1>2, <1>3 DEF ReleaseInv, ReleaseShapeInv
<1>5. operation[o].target = head /\ head \in Rel!PubIds /\ publication[head] # Rel!NoRecord
  BY <1>2, <1>3, <1>4 DEF Rel!CommitWithdrawal, ReleaseInv, OperationInv, OperationType
<1>6. publication[head] \in PublicationType
  BY <1>5 DEF ReleaseInv, ReleaseShapeInv
<1>7. /\ r \in PublicationType /\ r.snaps = publication[head].snaps
      /\ r.state = "WITHDRAWN" /\ r.cand = publication[head].cand
      /\ r.grant = publication[head].grant
  BY <1>6 DEF PublicationType
<1>8. /\ w \in OperationType /\ w.kind = operation[o].kind
      /\ w.target = operation[o].target /\ w.expected = operation[o].expected
  BY <1>4 DEF OperationType
<1>9. /\ head' = NoId
      /\ commit' = [commit EXCEPT ![t] = Rel!NoRecord]
      /\ UNCHANGED <<candidate, checkpoint>>
      /\ publication' = [publication EXCEPT ![head] = r]
      /\ Rel!ReplaceMany(batch)
      /\ operation' = [operation EXCEPT ![o] = w]
  BY <1>5 DEF Rel!CommitWithdrawal, Rel!Leave
<1>10. index' = [k \in Rel!Keys |-> index'[k]]
  BY <1>9 DEF Rel!ReplaceMany
<1>11. \A e \in batch : /\ e.snap \in publication[head].snaps /\ e.status = "WITHDRAWN"
                        /\ e \in EntryType
  <2>1. publication[head].snaps \in Batches
    BY <1>6 DEF PublicationType
  <2> QED
    BY <2>1 DEF Rel!WithStatus, EntryType
<1>12. \A s \in publication[head].snaps : \E e \in batch : e.snap = s
  <2> SUFFICES ASSUME NEW s \in publication[head].snaps
               PROVE  \E e \in batch : e.snap = s
    OBVIOUS
  <2>1. [snap |-> s, status |-> "WITHDRAWN"] \in batch
    BY DEF Rel!WithStatus
  <2> HIDE DEF batch
  <2> QED
    BY <2>1
<1> HIDE DEF o, r, w, batch
<1>13. ASSUME NEW k \in Rel!Keys
       PROVE  \/ index'[k] \in batch /\ index'[k].snap.key = k
              \/ index'[k] = index[k] /\ \A e \in batch : e.snap.key # k
  BY <1>9, Replaced
<1>14. \A q \in Rel!PubIds : publication'[q] = IF q = head THEN r ELSE publication[q]
  BY <1>9 DEF ReleaseInv, ReleaseShapeInv
<1>15. \A q \in Operations : operation'[q] = IF q = o THEN w ELSE operation[q]
  BY <1>9 DEF ReleaseInv, ReleaseShapeInv
<1>16. \A u \in Threads : commit'[u] = IF u = t THEN Rel!NoRecord ELSE commit[u]
  BY <1>9 DEF ReleaseInv, ReleaseShapeInv
<1>17. /\ \A x \in PublicationType : x # Rel!NoRecord
       /\ w # Rel!NoRecord
       /\ Rel!NoRecord.state = "absent"
  BY <1>8 DEF PublicationType, OperationType, Rel!NoRecord
<1>18. ReleaseShapeInv'
  <2>1. \A k \in Rel!Keys : index'[k] \in EntryType \cup {Rel!NoRecord}
    BY <1>11, <1>13 DEF ReleaseInv, ReleaseShapeInv
  <2>2. index' \in [Rel!Keys -> EntryType \cup {Rel!NoRecord}]
    BY <1>10, <2>1
  <2> QED
    BY <1>7, <1>8, <1>9, <2>2 DEF ReleaseInv, ReleaseShapeInv
<1>19. CandidateInv'
  BY <1>9 DEF ReleaseInv, CandidateInv
<1>20. HeadInv'
  BY <1>7, <1>9, <1>14 DEF ReleaseInv, HeadInv, Rel!IdentifierFacts
<1>21. PublicationInv'
  BY <1>5, <1>7, <1>9, <1>14 DEF ReleaseInv, PublicationInv, Granted
<1>22. IndexInv'
  <2> SUFFICES ASSUME NEW k \in Rel!Keys
               PROVE  /\ index'[k] # Rel!NoRecord => index'[k].snap.key = k
                      /\ index'[k] # Rel!NoRecord => index'[k].status # "PUBLISHED"
    BY <1>9 DEF IndexInv
  <2>1. CASE index'[k] \in batch /\ index'[k].snap.key = k
    BY <1>11, <2>1
  <2>2. CASE index'[k] = index[k] /\ \A e \in batch : e.snap.key # k
    <3>1. \A s \in publication[head].snaps : s.key # k
      BY <1>12, <2>2
    <3> QED
      BY <2>2, <3>1 DEF ReleaseInv, IndexInv
  <2> QED
    BY <1>13, <2>1, <2>2
<1>23. OperationInv'
  <2> SUFFICES ASSUME NEW q \in Operations, operation'[q] # Rel!NoRecord
               PROVE  /\ publication'[operation'[q].target] # Rel!NoRecord
                      /\ operation'[q].kind = "withdraw" => operation'[q].expected = operation'[q].target
    BY DEF OperationInv
  <2>1. /\ operation[q] # Rel!NoRecord
        /\ operation'[q].target = operation[q].target
        /\ operation'[q].kind = operation[q].kind
        /\ operation'[q].expected = operation[q].expected
    BY <1>3, <1>8, <1>15
  <2>2. publication[operation[q].target] # Rel!NoRecord /\ operation[q].target \in Rel!PubIds
    BY <2>1 DEF ReleaseInv, OperationInv, ReleaseShapeInv, OperationType
  <2> QED
    BY <1>7, <1>14, <1>17, <2>1, <2>2 DEF ReleaseInv, OperationInv
<1>24. CommitInv'
  <2>1. \A u \in Threads : commit[u].state \in {"withdraw", "rollback"} => commit[u].op \in Operations
    BY DEF ReleaseInv, ReleaseShapeInv, PublishCall, ActionCall, Rel!NoRecord
  <2> QED
    BY <1>3, <1>8, <1>9, <1>15, <1>16, <1>17, <2>1
       DEF ReleaseInv, CommitInv, Granted, KeyUnique
<1> QED
  BY <1>18, <1>19, <1>20, <1>21, <1>22, <1>23, <1>24 DEF ReleaseInv

-----------------------------------------------------------------------------
(* The theorems.                                                            *)

LEMMA ReleaseStepKeeps ==
    ASSUME Rel!IdentifierFacts, ReleaseInv, [Rel!Next]_(Rel!relVars)
    PROVE  ReleaseInv'
<1>1. CASE UNCHANGED <<candidate, publication, head, index, operation, checkpoint, commit>>
  <2>1. CommitInv'
    BY <1>1, CommitsStay
  <2>2. ReleaseShapeInv' /\ CandidateInv' /\ OperationInv'
    BY <1>1 DEF ReleaseInv, ReleaseShapeInv, CandidateInv, OperationInv
  <2> QED
    BY <1>1, <2>1, <2>2, ReleaseUntouched
<1>2. CASE \E d \in Dates : Rel!Retrieve(d)
  BY <1>1, <1>2 DEF Rel!Retrieve
<1>3. CASE UNCHANGED Rel!relVars
  BY <1>1, <1>3 DEF Rel!relVars
<1>4. CASE Rel!Change
  BY <1>4, RegisterKeeps, CreateCandidateKeeps, ValidateKeeps, RecordReviewKeeps,
     RequestPublishApprovalKeeps, PublishKeeps, DecideKeeps, RequestActionKeeps, ActKeeps,
     CommitPublicationKeeps, CommitWithdrawalKeeps, CommitRollbackKeeps, CommitFailsKeeps
     DEF Rel!Change
<1> QED
  BY <1>2, <1>3, <1>4 DEF Rel!Next

\* The invariant of the release holds of every reachable state.
THEOREM ReleaseInvariantHolds ==
    ASSUME Rel!IdentifierFacts
    PROVE  Rel!Spec => []ReleaseInv
<1>1. Rel!Init => ReleaseInv
  BY ReleaseInitKeeps
<1>2. ReleaseInv /\ [Rel!Next]_(Rel!relVars) => ReleaseInv'
  BY ReleaseStepKeeps
<1> QED
  BY <1>1, <1>2, PTL DEF Rel!Spec

\* The index serves exactly the snapshots of the corpus head, whatever publishes,
\* withdrawals and rollbacks wait between their grant and their commit, and whichever
\* of them fail (release.py, the three commits).
THEOREM IndexServesHead ==
    ASSUME Rel!IdentifierFacts
    PROVE  Rel!Spec => []ServedIsCurrent
<1>1. ReleaseInv => ServedIsCurrent
  BY SoundRelease
<1> QED
  BY <1>1, ReleaseInvariantHolds, PTL

\* Every publication rests on an approval given for it and on a candidate that was
\* validated and reviewed (release.py, _require_checkpoint and resume).
THEOREM PublicationsAuthorized ==
    ASSUME Rel!IdentifierFacts
    PROVE  Rel!Spec => []PublicationIsAuthorized
<1>1. ReleaseInv => PublicationIsAuthorized
  BY SoundRelease
<1> QED
  BY <1>1, ReleaseInvariantHolds, PTL

-----------------------------------------------------------------------------
(* Professional work.                                                       *)

\* A result that was finalized, with whatever was current at the time.
PlanFinalized(p) ==
    \E p0 \in PlanCandidates : \E a, chunks, usable : p = Pro!Planned(p0, a, chunks, usable)

ReportFinalized(r) ==
    \E r0 \in ReportCandidates : \E e, p : PlanFinalized(p) /\ r = Pro!Reported(r0, e, p)

\* A pending, decided or granted approval is of a result that was approvable and
\* that an approved review holds.
BackedBy(a, rs) ==
    a.state # "NONE" =>
      /\ a.kind = "PLAN" => \E v \in rs : v.status = "APPROVED" /\ a.result \in v.current.plan
      /\ a.kind = "REPORT" =>
           /\ \E v \in rs : v.status = "APPROVED" /\ a.result \in v.current.report
           /\ a.result \in reports /\ a.result.status = "SUCCESS" /\ ~a.result.issues
           /\ ~Pro!HumanBoundary(a.result)
      /\ a.kind \in {"PLAN", "REPORT", "CRITICAL_FINDING"}

ProfessionalInv ==
    /\ \A p \in plans : PlanFinalized(p)
    /\ \A r \in reports : ReportFinalized(r)
    /\ BackedBy(professionalApproval, reviews)

LEMMA ApprovalMoves ==
    ASSUME ProfessionalInv, NEW st, professionalApproval.state # "NONE",
           professionalApproval' = [professionalApproval EXCEPT !.state = st],
           UNCHANGED <<plans, reports, reviews>>
    PROVE  ProfessionalInv'
<1> DEFINE a == [professionalApproval EXCEPT !.state = st]
<1>1. a.kind = professionalApproval.kind /\ a.result = professionalApproval.result
  OBVIOUS
<1> HIDE DEF a
<1>2. BackedBy(a, reviews)
  BY <1>1 DEF ProfessionalInv, BackedBy
<1> QED  BY <1>2 DEF ProfessionalInv, BackedBy, PlanFinalized, ReportFinalized, a

LEMMA Created ==
    ASSUME ProfessionalInv,
           Pro!CreatePlan \/ Pro!CreateReport \/ Pro!CreateCriticalFindings
    PROVE  ProfessionalInv'
<1>1. PICK kind, r, findings : /\ Pro!Create(kind, r, findings)
                               /\ kind \in {"PLAN", "REPORT", "CRITICAL_FINDING"}
                               /\ kind = "REPORT" => r \in reports
  BY DEF Pro!CreatePlan, Pro!CreateReport, Pro!CreateCriticalFindings
<1> DEFINE a == [state |-> "PENDING", kind |-> kind, result |-> r, findings |-> findings]
           decision == IF kind = "CRITICAL_FINDING" THEN "HUMAN_REQUIRED" ELSE "PASS"
<1>2. professionalApproval' = a /\ UNCHANGED <<plans, reports, reviews>>
  BY <1>1 DEF Pro!Create
<1>3. PICK v, assessment : v \in reviews /\ Pro!EvidenceBinds(kind, r, assessment, v, decision)
  BY <1>1 DEF Pro!Create
<1>10. a.kind = kind /\ a.result = r
  OBVIOUS
<1> HIDE DEF a
<1>4. CASE kind = "PLAN"
  <2>1. v.status = "APPROVED" /\ r \in v.current.plan
    BY <1>3, <1>4 DEF Pro!EvidenceBinds
  <2>2. BackedBy(a, reviews)
    BY <1>3, <1>4, <1>10, <2>1 DEF BackedBy
  <2> QED  BY <1>2, <2>2 DEF ProfessionalInv, BackedBy, PlanFinalized, ReportFinalized
<1>5. CASE kind = "REPORT"
  <2>1. v.status = "APPROVED" /\ r \in v.current.report
    BY <1>3, <1>5 DEF Pro!EvidenceBinds
  <2>2. r.status = "SUCCESS" /\ ~r.issues /\ ~Pro!HumanBoundary(r)
    BY <1>1, <1>5 DEF Pro!Create, Pro!Approvable
  <2>3. BackedBy(a, reviews)
    BY <1>1, <1>3, <1>5, <1>10, <2>1, <2>2 DEF BackedBy
  <2> QED  BY <1>2, <2>3 DEF ProfessionalInv, BackedBy, PlanFinalized, ReportFinalized
<1>6. CASE kind = "CRITICAL_FINDING"
  <2>1. BackedBy(a, reviews)
    BY <1>6, <1>10 DEF BackedBy
  <2> QED  BY <1>2, <2>1 DEF ProfessionalInv, BackedBy, PlanFinalized, ReportFinalized
<1> QED  BY <1>1, <1>4, <1>5, <1>6

LEMMA ProfessionalKeeps == ASSUME ProfessionalInv, [Pro!Next]_(Pro!vars) PROVE ProfessionalInv'
<1>1. ASSUME UNCHANGED <<plans, reports, reviews, professionalApproval>> PROVE ProfessionalInv'
  BY <1>1 DEF ProfessionalInv, BackedBy, PlanFinalized, ReportFinalized
<1>2. ASSUME NEW c \in DOMAIN StandardOf, Pro!Withdraw(c) \/ Pro!Supersede(StandardOf[c])
      PROVE  ProfessionalInv'
  BY <1>1, <1>2 DEF Pro!Withdraw, Pro!Supersede
<1>3. ASSUME NEW q \in Questions, Pro!Ask(q) PROVE ProfessionalInv'
  BY <1>1, <1>3 DEF Pro!Ask
<1>4. ASSUME Pro!Answer PROVE ProfessionalInv'
  BY <1>1, <1>4 DEF Pro!Answer
<1>5. ASSUME NEW d \in Datasets, Pro!Process(d) PROVE ProfessionalInv'
  BY <1>1, <1>5 DEF Pro!Process
<1>6. ASSUME NEW p \in PlanCandidates, Pro!Plan(p) PROVE ProfessionalInv'
  <2>1. PICK a \in answers : plans' = plans \cup {Pro!Planned(p, a, publishedChunks, applicable)}
    BY <1>6 DEF Pro!Plan
  <2>2. UNCHANGED <<reports, reviews, professionalApproval>>
    BY <1>6 DEF Pro!Plan
  <2>3. PlanFinalized(Pro!Planned(p, a, publishedChunks, applicable))
    BY DEF PlanFinalized
  <2>4. \A x \in plans' : PlanFinalized(x)
    BY <2>1, <2>3 DEF ProfessionalInv
  <2> QED  BY <2>2, <2>4 DEF ProfessionalInv, BackedBy, PlanFinalized, ReportFinalized
<1>7. ASSUME NEW r \in ReportCandidates, Pro!Report(r) PROVE ProfessionalInv'
  <2>1. PICK p, e : p \in plans /\ reports' = reports \cup {Pro!Reported(r, e, p)}
    BY <1>7 DEF Pro!Report
  <2>2. UNCHANGED <<plans, reviews, professionalApproval>>
    BY <1>7 DEF Pro!Report
  <2>3. ReportFinalized(Pro!Reported(r, e, p))
    BY <2>1 DEF ReportFinalized, ProfessionalInv
  <2>4. \A x \in reports' : ReportFinalized(x)
    BY <2>1, <2>3 DEF ProfessionalInv
  <2> QED  BY <2>1, <2>2, <2>4 DEF ProfessionalInv, BackedBy, PlanFinalized, ReportFinalized
<1>8. ASSUME Pro!Review PROVE ProfessionalInv'
  <2>1. reviews \subseteq reviews' /\ UNCHANGED <<plans, reports, professionalApproval>>
    BY <1>8 DEF Pro!Review
  <2> QED  BY <2>1 DEF ProfessionalInv, BackedBy, PlanFinalized, ReportFinalized
<1>9. ASSUME Pro!CreatePlan \/ Pro!CreateReport \/ Pro!CreateCriticalFindings PROVE ProfessionalInv'
  BY <1>9, Created
<1>10. ASSUME Pro!Decide \/ Pro!Resume PROVE ProfessionalInv'
  <2>1. PICK st : professionalApproval' = [professionalApproval EXCEPT !.state = st]
    BY <1>10 DEF Pro!Decide, Pro!Resume
  <2> QED  BY <1>10, <2>1, ApprovalMoves DEF Pro!Decide, Pro!Resume
<1> QED  BY <1>1, <1>2, <1>3, <1>4, <1>5, <1>6, <1>7, <1>8, <1>9, <1>10 DEF Pro!Next, Pro!vars

LEMMA ProfessionalInit == ASSUME Pro!Init PROVE ProfessionalInv
BY DEF Pro!Init, Pro!NoApproval, ProfessionalInv, BackedBy

\* What a finalized plan that is usable, or report without a boundary, rests on.
LEMMA UsablePlan ==
    ASSUME NEW p, PlanFinalized(p), p.status \in {"SUCCESS", "PARTIAL_SUCCESS"}, NEW x \in p.bases
    PROVE  \E c \in p.qa.claims : x.claim = c.id /\ x.chunk \in c.citations
<1>1. PICK p0, a, chunks, usable : p = Pro!Planned(p0, a, chunks, usable)
  BY DEF PlanFinalized
<1>2. p.qa = a /\ p.bases = p0.bases
  BY <1>1 DEF Pro!Planned
<1>3. ~Pro!PlanCritical(p0, a, chunks, usable)
  BY <1>1 DEF Pro!Planned
<1>4. Pro!BasisValid(a, x, chunks, usable)
  BY <1>2, <1>3 DEF Pro!PlanCritical
<1> QED  BY <1>2, <1>4 DEF Pro!BasisValid

LEMMA Grounded ==
    ASSUME NEW r, ReportFinalized(r), r.status = "SUCCESS"
    PROVE  /\ \A k \in r.report.calculations : Pro!Recomputes(k, r.evidence.observations)
           /\ \A f \in r.report.findings :
                /\ \A o \in f.observations :
                     \E n \in r.evidence.runs, s \in r.evidence.sources :
                       /\ n.run = r.evidence.observations[o].run /\ n.dataset = s.dataset
                       /\ s.scoped /\ s.calibrated
                /\ \A b \in f.bases : \E x \in r.plan.bases, c \in r.plan.qa.claims :
                     x.id = b /\ x.claim = c.id /\ x.chunk \in c.citations
<1>1. PICK r0, e, p : PlanFinalized(p) /\ r = Pro!Reported(r0, e, p)
  BY DEF ReportFinalized
<1>2. r.report = r0 /\ r.evidence = e /\ r.plan = p
  BY <1>1 DEF Pro!Reported
<1>3. ~Pro!ReportCritical(r0, e, p) /\ ~Pro!ReportErrors(r0, e)
  BY <1>1 DEF Pro!Reported
<1>4. \A k \in r0.calculations : Pro!Recomputes(k, e.observations)
  BY <1>3 DEF Pro!ReportCritical, Pro!ReportErrors, Pro!CalculationCritical
<1>5. ~Pro!EvidenceCritical(e) /\ Pro!PlanUsable(r0, p)
  BY <1>3 DEF Pro!ReportCritical
<1>6. ASSUME NEW f \in r0.findings
      PROVE  f.observations \subseteq DOMAIN e.observations /\ f.bases \subseteq {b.id : b \in p.bases}
  BY <1>3 DEF Pro!ReportCritical
<1>7. ASSUME NEW f \in r0.findings, NEW o \in f.observations
      PROVE  \E n \in e.runs, s \in e.sources :
               n.run = e.observations[o].run /\ n.dataset = s.dataset /\ s.scoped /\ s.calibrated
  <2>1. o \in DOMAIN e.observations
    BY <1>6
  <2>2. PICK n \in e.runs : n.run = e.observations[o].run
    BY <1>5, <2>1 DEF Pro!EvidenceCritical
  <2>3. PICK s \in e.sources : s.dataset = n.dataset
    BY <1>5 DEF Pro!EvidenceCritical
  <2>4. s.scoped /\ s.calibrated
    BY <1>5 DEF Pro!EvidenceCritical
  <2> QED  BY <2>2, <2>3, <2>4
<1>8. ASSUME NEW f \in r0.findings, NEW b \in f.bases
      PROVE  \E x \in p.bases, c \in p.qa.claims : x.id = b /\ x.claim = c.id /\ x.chunk \in c.citations
  <2>1. PICK x \in p.bases : x.id = b
    BY <1>6
  <2>2. p.status \in {"SUCCESS", "PARTIAL_SUCCESS"}
    BY <1>5 DEF Pro!PlanUsable
  <2>3. \E c \in p.qa.claims : x.claim = c.id /\ x.chunk \in c.citations
    BY <1>1, <2>2, UsablePlan
  <2> QED  BY <2>1, <2>3
<1> QED  BY <1>2, <1>4, <1>7, <1>8

\* The result an approval was granted for is a current one of an approved review and
\* needed no human, whatever was reviewed, revised and decided around it
\* (ProfessionalApprovalService.create_plan, create_report, _validate_review_evidence).
THEOREM ApprovedIsReviewed == Pro!Spec => []ApprovedResultIsReviewed
<1>1. Pro!Init => ProfessionalInv
  BY ProfessionalInit
<1>2. ProfessionalInv /\ [Pro!Next]_(Pro!vars) => ProfessionalInv'
  BY ProfessionalKeeps
<1>3. ProfessionalInv => ApprovedResultIsReviewed
  BY DEF ProfessionalInv, BackedBy, ApprovedResultIsReviewed, Pro!ApprovedResultIsReviewed
<1> QED  BY <1>1, <1>2, <1>3, PTL DEF Pro!Spec

\* The findings of an approved report rest on calibrated observations, on calculations
\* that recompute, and on plan bases that the plan's answer cites, whatever standards
\* were withdrawn and results superseded since (InspectionReportSkill.validate).
THEOREM ApprovedIsGrounded == Pro!Spec => []ApprovedReportIsGrounded
<1>1. Pro!Init => ProfessionalInv
  BY ProfessionalInit
<1>2. ProfessionalInv /\ [Pro!Next]_(Pro!vars) => ProfessionalInv'
  BY ProfessionalKeeps
<1>3. ASSUME ProfessionalInv PROVE ApprovedReportIsGrounded
  <2> SUFFICES ASSUME professionalApproval.state = "GRANTED", professionalApproval.kind = "REPORT"
               PROVE  ApprovedReportIsGrounded
    BY DEF ApprovedReportIsGrounded, Pro!ApprovedReportIsGrounded
  <2> DEFINE r == professionalApproval.result
  <2>1. ReportFinalized(r) /\ r.status = "SUCCESS"
    BY <1>3 DEF ProfessionalInv, BackedBy
  <2> HIDE DEF r
  <2>2. /\ \A k \in r.report.calculations : Pro!Recomputes(k, r.evidence.observations)
        /\ \A f \in r.report.findings :
             /\ \A o \in f.observations :
                  \E n \in r.evidence.runs, s \in r.evidence.sources :
                    /\ n.run = r.evidence.observations[o].run /\ n.dataset = s.dataset
                    /\ s.scoped /\ s.calibrated
             /\ \A b \in f.bases : \E x \in r.plan.bases, c \in r.plan.qa.claims :
                  x.id = b /\ x.claim = c.id /\ x.chunk \in c.citations
    BY <2>1, Grounded
  <2> QED  BY <2>2 DEF ApprovedReportIsGrounded, Pro!ApprovedReportIsGrounded, r
<1> QED  BY <1>1, <1>2, <1>3, PTL DEF Pro!Spec

-----------------------------------------------------------------------------
(* Distillation of memory.                                                  *)

\* The records that may come before q in what the distillation is shown, and the
\* records it is certainly shown.
Before(stored, p, q) ==
    {x \in stored \ {q} : x.scope = q.scope /\ Mem!There(p, x) /\ x.created <= q.created}
Due(stored, p, q) == Mem!There(p, q) /\ ~(Cardinality(Before(stored, p, q)) >= ShownLimit)

\* Records are numbered as they were inserted.
PlacesInv ==
    /\ IsFiniteSet(records)
    /\ \A q \in records : q.place \in Nat /\ q.place <= Cardinality(records)

\* A distillation d that has come to p holds what it was shown and what it stored, and
\* the clashes between them.
DistillationInv(stored, p, d) ==
    /\ p.base \in Nat /\ p.base <= Cardinality(stored)
    /\ p.last \in Nat /\ p.last <= Cardinality(stored)
    /\ p.step \in {"idle", "adapter", "USER", "PROJECT"} => \A q \in stored : q.by # d
    /\ p.step \in {"PROJECT", "persist", "done"} =>
          \A q \in stored : q.scope = "USER" /\ Due(stored, p, q) => q \in p.existing
    /\ p.step \in {"persist", "done"} =>
          /\ \A q \in stored : q.scope = "PROJECT" /\ Due(stored, p, q) => q \in p.existing
          /\ \A q \in stored : q.by = d =>
                \E s \in p.stored : s.id = q.id /\ s.key = q.key /\ s.content = q.content
          /\ \A r, q \in stored :
                /\ r.by = d /\ q.place < r.place /\ q.key = r.key /\ q.content # r.content
                /\ q.by = d \/ Due(stored, p, q)
                => <<r.id, q.id>> \in p.conflicts

MemoryInv ==
    /\ PlacesInv
    /\ distill = [d \in Distillations |-> distill[d]]
    /\ \A d \in Distillations : DistillationInv(records, distill[d], d)

\* A record is inserted after all others.
LEMMA Inserted ==
    ASSUME PlacesInv, NEW r, NEW by, Mem!Insert(r, by)
    PROVE  /\ PlacesInv' /\ Cardinality(records) \in Nat
           /\ Cardinality(records') = Cardinality(records) + 1
           /\ records' = records \cup {Mem!Placed(r, by, Cardinality(records) + 1)}
<1> DEFINE n == Mem!Placed(r, by, Cardinality(records) + 1)
<1>1. Cardinality(records) \in Nat
  BY FS_CardinalityType DEF PlacesInv
<1>2. n.place = Cardinality(records) + 1
  BY DEF Mem!Placed
<1>3. records' = records \cup {n}
  <2>1. Mem!Cardinality(records) = Cardinality(records)
    BY DEF Mem!Cardinality, Cardinality
  <2> QED  BY <2>1 DEF Mem!Insert
<1> HIDE DEF n
<1>4. n \notin records
  BY <1>1, <1>2 DEF PlacesInv
<1>5. IsFiniteSet(records \cup {n}) /\ Cardinality(records \cup {n}) = Cardinality(records) + 1
  BY <1>4, FS_AddElement DEF PlacesInv
<1>6. PlacesInv'
  <2>1. IsFiniteSet(records')
    BY <1>3, <1>5
  <2>2. \A q \in records' : q.place \in Nat /\ q.place <= Cardinality(records')
    <3> SUFFICES ASSUME NEW q \in records'
                 PROVE  q.place \in Nat /\ q.place <= Cardinality(records')
      OBVIOUS
    <3>1. CASE q \in records
      BY <1>1, <1>3, <1>5, <3>1 DEF PlacesInv
    <3>2. CASE q = n
      BY <1>1, <1>2, <1>3, <1>5, <3>2
    <3> QED  BY <1>3, <3>1, <3>2
  <2> QED  BY <2>1, <2>2 DEF PlacesInv
<1> QED  BY <1>1, <1>3, <1>5, <1>6 DEF n

\* What a distillation is due does not depend on how far it is.
LEMMA SameDue ==
    ASSUME NEW p, NEW p2, p2.base = p.base, p2.last = p.last, p2.request = p.request,
           p2.now = p.now
    PROVE  \A stored, q : Due(stored, p2, q) <=> Due(stored, p, q)
<1>1. \A q : Mem!There(p2, q) <=> Mem!There(p, q)
  BY DEF Mem!There
<1>2. ASSUME NEW stored, NEW q PROVE Before(stored, p2, q) = Before(stored, p, q)
  BY <1>1 DEF Before
<1> QED  BY <1>1, <1>2 DEF Due

\* Nor on what is inserted later.
LEMMA LaterIsNotDue ==
    ASSUME NEW p, NEW n, n.place \in Nat, p.base \in Nat, p.last \in Nat, p.base < n.place,
           p.last < n.place, records' = records \cup {n}
    PROVE  \A q \in records' : Due(records', p, q) => q \in records /\ Due(records, p, q)
<1>1. ~Mem!There(p, n)
  <2>1. ~(n.place <= p.base) /\ ~(n.place <= p.last)
    OBVIOUS
  <2> QED  BY <2>1 DEF Mem!There
<1>2. ASSUME NEW q PROVE Before(records', p, q) = Before(records, p, q)
  BY <1>1 DEF Before
<1> QED  BY <1>1, <1>2 DEF Due

\* What a query answers with holds every record it owes.
LEMMA QueryShows ==
    ASSUME PlacesInv, NEW p, NEW p2, p2.request = p.request, p2.now = p.now,
           NEW scope \in {"USER", "PROJECT"},
           IF scope = "USER" THEN p2.base = Cardinality(records) ELSE p2.last = Cardinality(records),
           NEW seen \in Mem!Query(p.request, scope, p.now),
           NEW q \in records, q.scope = scope, Due(records, p2, q)
    PROVE  q \in seen
<1> DEFINE found == Mem!Matching(p.request, scope, p.now)
<1>1. /\ seen \subseteq found
      /\ seen # found => Mem!Cardinality(seen) = ShownLimit
      /\ \A r \in seen, x \in found \ seen : r.created <= x.created
  BY DEF Mem!Query
<1>2. q \in found
  BY DEF Due, Mem!There, Mem!Matching
<1>3. SUFFICES ASSUME q \notin seen PROVE FALSE
  OBVIOUS
<1>4. seen \subseteq Before(records, p2, q)
  <2> SUFFICES ASSUME NEW r \in seen PROVE r \in Before(records, p2, q)
    OBVIOUS
  <2>1. r \in records /\ r.scope = scope /\ r # q /\ r.created <= q.created
    BY <1>1, <1>2, <1>3 DEF Mem!Matching
  <2>2. Mem!There(p2, r)
    BY <1>1, <2>1 DEF Mem!There, Mem!Matching, PlacesInv
  <2> QED  BY <2>1, <2>2 DEF Before
<1>5. Cardinality(seen) = ShownLimit
  <2>1. Mem!Cardinality(seen) = Cardinality(seen)
    BY DEF Mem!Cardinality, Cardinality
  <2> QED  BY <1>1, <1>2, <1>3, <2>1
<1>6. IsFiniteSet(Before(records, p2, q))
  <2>1. Before(records, p2, q) \subseteq records
    BY DEF Before
  <2> QED  BY <2>1, FS_Subset DEF PlacesInv
<1>7. Cardinality(seen) <= Cardinality(Before(records, p2, q))
      /\ Cardinality(seen) \in Nat /\ Cardinality(Before(records, p2, q)) \in Nat
  BY <1>4, <1>6, FS_Subset, FS_CardinalityType
<1> QED  BY <1>5, <1>7 DEF Due

\* What somebody else inserts comes after what a distillation was shown and stored.
LEMMA InsertedByOther ==
    ASSUME PlacesInv, NEW p, NEW d, NEW by, by # d, NEW r, Mem!Insert(r, by),
           DistillationInv(records, p, d)
    PROVE  DistillationInv(records', p, d)
<1> DEFINE n == Mem!Placed(r, by, Cardinality(records) + 1)
<1>1. /\ records' = records \cup {n} /\ Cardinality(records) \in Nat
      /\ Cardinality(records') = Cardinality(records) + 1
  BY Inserted
<1>2. n.place = Cardinality(records) + 1 /\ n.by = by
  BY DEF Mem!Placed
<1> HIDE DEF n
<1>3. /\ p.base \in Nat /\ p.base <= Cardinality(records')
      /\ p.last \in Nat /\ p.last <= Cardinality(records')
      /\ p.base < n.place /\ p.last < n.place /\ n.place \in Nat
  BY <1>1, <1>2 DEF DistillationInv
<1>4. \A q \in records' : Due(records', p, q) => q \in records /\ Due(records, p, q)
  BY <1>1, <1>3, LaterIsNotDue
<1>5. \A q \in records : q.place < n.place /\ q.place \in Nat
  BY <1>1, <1>2 DEF PlacesInv
<1>6. p.step \in {"idle", "adapter", "USER", "PROJECT"} => \A q \in records' : q.by # d
  BY <1>1, <1>2 DEF DistillationInv
<1>7. p.step \in {"PROJECT", "persist", "done"} =>
          \A q \in records' : q.scope = "USER" /\ Due(records', p, q) => q \in p.existing
  BY <1>4 DEF DistillationInv
<1>8. ASSUME p.step \in {"persist", "done"}
      PROVE  /\ \A q \in records' : q.scope = "PROJECT" /\ Due(records', p, q) => q \in p.existing
             /\ \A q \in records' : q.by = d =>
                   \E s \in p.stored : s.id = q.id /\ s.key = q.key /\ s.content = q.content
  BY <1>1, <1>2, <1>4, <1>8 DEF DistillationInv
<1>9. ASSUME p.step \in {"persist", "done"}, NEW x \in records', NEW q \in records',
             x.by = d /\ q.place < x.place /\ q.key = x.key /\ q.content # x.content,
             q.by = d \/ Due(records', p, q)
      PROVE  <<x.id, q.id>> \in p.conflicts
  <2>1. x \in records /\ q \in records
    BY <1>1, <1>2, <1>5, <1>9
  <2>2. q.by = d \/ Due(records, p, q)
    BY <1>4, <1>9
  <2> QED  BY <1>9, <2>1, <2>2 DEF DistillationInv
<1> QED  BY <1>3, <1>6, <1>7, <1>8, <1>9 DEF DistillationInv

\* A distillation moves to p and the records stay.
LEMMA Moves ==
    ASSUME MemoryInv, NEW d \in Distillations, NEW p, distill' = [distill EXCEPT ![d] = p],
           UNCHANGED records, DistillationInv(records, p, d)
    PROVE  MemoryInv'
<1>1. distill' = [x \in Distillations |-> distill'[x]]
  BY DEF MemoryInv
<1>2. \A x \in Distillations : DistillationInv(records, distill'[x], x)
  BY DEF MemoryInv
<1>3. PlacesInv'
  BY DEF MemoryInv, PlacesInv
<1> QED  BY <1>1, <1>2, <1>3 DEF MemoryInv

\* A run that failed promises nothing more.
LEMMA Fails ==
    ASSUME NEW p, NEW p2, NEW d, DistillationInv(records, p, d), p2.step = "failed",
           p2.base = p.base, p2.last = p.last
    PROVE  DistillationInv(records, p2, d)
BY DEF DistillationInv

LEMMA Begins ==
    ASSUME MemoryInv, NEW d \in Distillations, NEW request \in MemoryRequests,
           Mem!Distill(d, request)
    PROVE  MemoryInv'
<1> DEFINE p == [Mem!Idle EXCEPT !.step = IF Mem!DistillError(request) = Mem!None THEN "adapter" ELSE "failed",
                                 !.request = request, !.now = memoryTime]
<1>1. distill' = [distill EXCEPT ![d] = p] /\ UNCHANGED records /\ distill[d].step = "idle"
  BY DEF Mem!Distill
<1>2. p.step \in {"adapter", "failed"} /\ p.base = 0 /\ p.last = 0
  BY DEF Mem!Idle
<1> HIDE DEF p
<1>3. Cardinality(records) \in Nat
  BY FS_CardinalityType DEF MemoryInv, PlacesInv
<1>4. DistillationInv(records, p, d)
  BY <1>1, <1>2, <1>3 DEF MemoryInv, DistillationInv
<1> QED  BY <1>1, <1>4, Moves

LEMMA Answered ==
    ASSUME MemoryInv, NEW d \in Distillations, NEW output \in Outputs, Mem!Answer(d, output)
    PROVE  MemoryInv'
<1> DEFINE ok == Mem!OutputError(output) = Mem!None
           p == [distill[d] EXCEPT !.step = IF ok THEN "USER" ELSE "failed", !.todo = output.proposals]
<1>1. distill' = [distill EXCEPT ![d] = p] /\ UNCHANGED records /\ distill[d].step = "adapter"
  BY DEF Mem!Answer
<1>2. p.base = distill[d].base /\ p.last = distill[d].last /\ (p.step \in {"USER", "failed"} \/ p.step = distill[d].step)
  OBVIOUS
<1> HIDE DEF p
<1>3. DistillationInv(records, p, d)
  BY <1>1, <1>2 DEF MemoryInv, DistillationInv
<1> QED  BY <1>1, <1>3, Moves

LEMMA Reads == ASSUME MemoryInv, NEW d \in Distillations, Mem!Read(d) PROVE MemoryInv'
<1> DEFINE p == distill[d]
           failed == [p EXCEPT !.step = "failed"]
           n == Cardinality(records)
           user(seen) == [p EXCEPT !.step = "PROJECT", !.base = n, !.last = n,
                                    !.existing = p.existing \cup seen]
           project(seen) == [p EXCEPT !.step = "persist", !.base = p.base, !.last = n,
                                       !.existing = p.existing \cup seen]
<1>1. \/ distill' = [distill EXCEPT ![d] = failed]
      \/ \E seen \in Mem!Query(p.request, p.step, p.now) :
           \/ p.step = "USER" /\ distill' = [distill EXCEPT ![d] = user(seen)]
           \/ p.step = "PROJECT" /\ distill' = [distill EXCEPT ![d] = project(seen)]
  <2> DEFINE refused == Mem!QueryError(p.request, p.step) # Mem!None
             next(seen) == [p EXCEPT !.step = IF p.step = "USER" THEN "PROJECT" ELSE "persist",
                                     !.base = IF p.step = "USER" THEN n ELSE p.base,
                                     !.last = n, !.existing = p.existing \cup seen]
  <2>1. Mem!Cardinality(records) = n
    BY DEF Mem!Cardinality, Cardinality
  <2>2. /\ p.step \in {"USER", "PROJECT"} /\ UNCHANGED records
        /\ IF refused THEN distill' = [distill EXCEPT ![d] = failed]
           ELSE \E seen \in Mem!Query(p.request, p.step, p.now) :
                  distill' = [distill EXCEPT ![d] = next(seen)]
    BY <2>1, Zenon DEF Mem!Read
  <2>3. p.step = "USER" => \A seen : next(seen) = user(seen)
    OBVIOUS
  <2>4. p.step = "PROJECT" => \A seen : next(seen) = project(seen)
    OBVIOUS
  <2> HIDE DEF refused, p, failed, user, project, next
  <2> QED  BY <2>2, <2>3, <2>4
<1>2. DistillationInv(records, p, d) /\ PlacesInv /\ UNCHANGED records
  <2>1. UNCHANGED records
    BY Zenon DEF Mem!Read
  <2> QED  BY <2>1 DEF MemoryInv
<1>3. n \in Nat
  BY FS_CardinalityType DEF MemoryInv, PlacesInv
<1>4. CASE distill' = [distill EXCEPT ![d] = failed]
  <2>1. failed.step = "failed" /\ failed.base = p.base /\ failed.last = p.last
    OBVIOUS
  <2> HIDE DEF failed, p
  <2> QED  BY <1>1, <1>2, <1>4, <2>1, Fails, Moves
<1>5. ASSUME NEW seen \in Mem!Query(p.request, p.step, p.now), p.step = "USER",
             distill' = [distill EXCEPT ![d] = user(seen)]
      PROVE  MemoryInv'
  <2> DEFINE u == user(seen)
  <2>1. /\ u.step = "PROJECT" /\ u.base = n /\ u.last = n
        /\ u.existing = p.existing \cup seen /\ u.request = p.request /\ u.now = p.now
    OBVIOUS
  <2> HIDE DEF u, p, user
  <2>2. \A q \in records : q.scope = "USER" /\ Due(records, u, q) => q \in u.existing
    BY <1>2, <1>5, <2>1, QueryShows
  <2>3. DistillationInv(records, u, d)
    BY <1>2, <1>3, <1>5, <2>1, <2>2 DEF DistillationInv
  <2>4. distill' = [distill EXCEPT ![d] = u]
    BY <1>5 DEF u
  <2> HIDE DEF n
  <2> QED  BY <1>2, <2>3, <2>4, Moves
<1>6. ASSUME NEW seen \in Mem!Query(p.request, p.step, p.now), p.step = "PROJECT",
             distill' = [distill EXCEPT ![d] = project(seen)]
      PROVE  MemoryInv'
  <2> DEFINE u == project(seen)
  <2>1. /\ u.step = "persist" /\ u.base = p.base /\ u.last = n
        /\ u.existing = p.existing \cup seen /\ u.request = p.request /\ u.now = p.now
    OBVIOUS
  <2> HIDE DEF u, p, project
  <2>2. \A q \in records : q.scope = "PROJECT" /\ Due(records, u, q) => q \in u.existing
    BY <1>2, <1>6, <2>1, QueryShows
  <2>3. ASSUME NEW q \in records, q.scope = "USER", Due(records, u, q) PROVE q \in u.existing
    <3>1. \A x : x.scope = "USER" => (Mem!There(u, x) <=> Mem!There(p, x))
      BY <2>1 DEF Mem!There
    <3>2. Before(records, u, q) = Before(records, p, q)
      BY <2>3, <3>1 DEF Before
    <3>3. Due(records, p, q)
      BY <2>3, <3>1, <3>2 DEF Due
    <3> QED  BY <1>2, <1>6, <2>1, <2>3, <3>3 DEF DistillationInv
  <2>4. DistillationInv(records, u, d)
    BY <1>2, <1>3, <1>6, <2>1, <2>2, <2>3 DEF DistillationInv
  <2>5. distill' = [distill EXCEPT ![d] = u]
    BY <1>6 DEF u
  <2> HIDE DEF n
  <2> QED  BY <1>2, <2>4, <2>5, Moves
<1> HIDE DEF p, n, failed, user, project
<1> QED  BY <1>1, <1>4, <1>5, <1>6

LEMMA Puts ==
    ASSUME MemoryInv, 0 \notin Distillations, NEW request, NEW r, Mem!Put(request, r)
    PROVE  MemoryInv'
<1>1. Mem!Insert(r, 0) /\ UNCHANGED distill /\ PlacesInv
  BY DEF Mem!Put, MemoryInv
<1>2. \A d \in Distillations : DistillationInv(records', distill[d], d)
  <2> SUFFICES ASSUME NEW d \in Distillations PROVE DistillationInv(records', distill[d], d)
    OBVIOUS
  <2>1. PICK by : by = 0
    OBVIOUS
  <2> QED  BY <1>1, <2>1, InsertedByOther DEF MemoryInv
<1>3. PlacesInv'
  <2>1. PICK by : by = 0
    OBVIOUS
  <2> QED  BY <1>1, <2>1, Inserted
<1> QED  BY <1>1, <1>2, <1>3 DEF MemoryInv

LEMMA Stores ==
    ASSUME MemoryInv, NEW d \in Distillations, NEW r, distill[d].step = "persist", NEW p,
           Mem!Insert(r, d), distill' = [distill EXCEPT ![d] = p],
           p.step = "persist", p.base = distill[d].base, p.last = distill[d].last,
           p.existing = distill[d].existing, p.request = distill[d].request, p.now = distill[d].now,
           p.stored = distill[d].stored \cup {r},
           p.conflicts = distill[d].conflicts \cup {<<r.id, q.id>> : q \in Mem!Clashes(distill[d], r)}
    PROVE  MemoryInv'
<1> DEFINE o == distill[d]
           n == Mem!Placed(r, d, Cardinality(records) + 1)
<1>1. /\ records' = records \cup {n} /\ Cardinality(records) \in Nat
      /\ Cardinality(records') = Cardinality(records) + 1 /\ PlacesInv'
  BY Inserted DEF MemoryInv
<1>2. /\ n.place = Cardinality(records) + 1 /\ n.by = d /\ n.id = r.id /\ n.key = r.key
      /\ n.content = r.content
  BY DEF Mem!Placed
<1> HIDE DEF n
<1>3. DistillationInv(records, o, d) /\ PlacesInv
  BY DEF MemoryInv
<1>4. \A q \in records' : Due(records', p, q) => q \in records /\ Due(records, o, q)
  <2>1. /\ o.base \in Nat /\ o.base <= Cardinality(records)
        /\ o.last \in Nat /\ o.last <= Cardinality(records)
    BY <1>3 DEF DistillationInv
  <2>2. o.base < n.place /\ o.last < n.place /\ n.place \in Nat
    BY <1>1, <1>2, <2>1
  <2>3. \A q \in records' : Due(records', o, q) => q \in records /\ Due(records, o, q)
    BY <1>1, <2>1, <2>2, LaterIsNotDue
  <2>4. \A stored, q : Due(stored, p, q) <=> Due(stored, o, q)
    BY SameDue
  <2> QED  BY <2>3, <2>4
<1>6. \A q \in records : q.place < n.place /\ q.place \in Nat
  BY <1>1, <1>2, <1>3 DEF PlacesInv
<1> HIDE DEF o
<1>7. \A q \in records' : Due(records', p, q) => q \in p.existing
  <2>1. \A q : Due(records', p, q) => q.scope \in {"USER", "PROJECT"}
    BY DEF Due, Mem!There
  <2> QED  BY <1>1, <1>3, <1>4, <2>1 DEF DistillationInv, o
<1>8. \A q \in records' : q.by = d =>
          \E s \in p.stored : s.id = q.id /\ s.key = q.key /\ s.content = q.content
  BY <1>1, <1>2, <1>3 DEF DistillationInv, o
<1>9. ASSUME NEW x \in records', NEW q \in records',
             x.by = d /\ q.place < x.place /\ q.key = x.key /\ q.content # x.content,
             q.by = d \/ Due(records', p, q)
      PROVE  <<x.id, q.id>> \in p.conflicts
  <2>1. q \in records
    BY <1>1, <1>2, <1>6, <1>9
  <2>2. CASE x \in records
    BY <1>3, <1>4, <1>9, <2>1, <2>2 DEF DistillationInv, o
  <2>3. CASE x = n
    <3>1. \E s \in Mem!Clashes(o, r) : s.id = q.id
      <4>1. CASE q.by = d
        <5>1. PICK s \in o.stored : s.id = q.id /\ s.key = q.key /\ s.content = q.content
          BY <1>3, <2>1, <4>1 DEF DistillationInv, o
        <5> QED  BY <1>2, <1>9, <2>3, <5>1 DEF Mem!Clashes
      <4>2. CASE Due(records', p, q)
        <5>1. q \in o.existing
          BY <1>7, <4>2 DEF o
        <5> QED  BY <1>2, <1>9, <2>3, <5>1 DEF Mem!Clashes
      <4> QED  BY <1>9, <4>1, <4>2
    <3> QED  BY <1>2, <2>3, <3>1 DEF o
  <2> QED  BY <1>1, <2>2, <2>3
<1>10. /\ p.base \in Nat /\ p.base <= Cardinality(records')
       /\ p.last \in Nat /\ p.last <= Cardinality(records')
  BY <1>1, <1>3 DEF DistillationInv, o
<1>11. DistillationInv(records', p, d)
  BY <1>7, <1>8, <1>9, <1>10 DEF DistillationInv
<1>12. \A x \in Distillations \ {d} : DistillationInv(records', distill[x], x)
  BY <1>3, InsertedByOther DEF MemoryInv
<1>13. \A x \in Distillations : distill'[x] = IF x = d THEN p ELSE distill[x]
  BY DEF MemoryInv
<1>14. distill' = [x \in Distillations |-> distill'[x]]
  BY DEF MemoryInv
<1> QED  BY <1>1, <1>11, <1>12, <1>13, <1>14 DEF MemoryInv

LEMMA Persists == ASSUME MemoryInv, NEW d \in Distillations, Mem!Persist(d) PROVE MemoryInv'
<1> DEFINE o == distill[d]
           r == Mem!Candidate(o, Mem!Head(o.todo))
           twice == [o EXCEPT !.todo = Mem!Tail(o.todo), !.deduplicated = o.deduplicated + 1]
           failed == [o EXCEPT !.step = "failed"]
           p == [o EXCEPT !.todo = Mem!Tail(o.todo), !.stored = o.stored \cup {r},
                          !.conflicts = o.conflicts \cup {<<r.id, q.id>> : q \in Mem!Clashes(o, r)}]
<1>1. /\ o.step = "persist"
      /\ \/ distill' = [distill EXCEPT ![d] = twice] /\ UNCHANGED records
         \/ distill' = [distill EXCEPT ![d] = failed] /\ UNCHANGED records
         \/ distill' = [distill EXCEPT ![d] = p] /\ Mem!Insert(r, d)
  BY DEF Mem!Persist
<1>2. DistillationInv(records, o, d)
  BY DEF MemoryInv
<1> HIDE DEF r
<1>3. CASE distill' = [distill EXCEPT ![d] = twice] /\ UNCHANGED records
  <2>1. /\ twice.step = o.step /\ twice.base = o.base /\ twice.last = o.last /\ twice.existing = o.existing
        /\ twice.request = o.request /\ twice.now = o.now /\ twice.stored = o.stored
        /\ twice.conflicts = o.conflicts
    OBVIOUS
  <2>2. \A stored, q : Due(stored, twice, q) <=> Due(stored, o, q)
    BY <2>1, SameDue
  <2> HIDE DEF twice, o
  <2>3. DistillationInv(records, twice, d)
    BY <1>2, <2>1, <2>2 DEF DistillationInv
  <2> QED  BY <1>3, <2>3, Moves
<1>4. CASE distill' = [distill EXCEPT ![d] = failed] /\ UNCHANGED records
  <2>1. failed.step = "failed" /\ failed.base = o.base /\ failed.last = o.last
    OBVIOUS
  <2> HIDE DEF failed, o
  <2> QED  BY <1>2, <1>4, <2>1, Fails, Moves
<1>5. CASE distill' = [distill EXCEPT ![d] = p] /\ Mem!Insert(r, d)
  <2>1. /\ p.step = o.step /\ p.base = o.base /\ p.last = o.last /\ p.existing = o.existing
        /\ p.request = o.request /\ p.now = o.now /\ p.stored = o.stored \cup {r}
        /\ p.conflicts = o.conflicts \cup {<<r.id, q.id>> : q \in Mem!Clashes(o, r)}
    OBVIOUS
  <2> HIDE DEF p
  <2> QED  BY <1>1, <1>5, <2>1, Stores
<1> QED  BY <1>1, <1>3, <1>4, <1>5

LEMMA Returns == ASSUME MemoryInv, NEW d \in Distillations, Mem!Return(d) PROVE MemoryInv'
<1> DEFINE o == distill[d]
           p == [o EXCEPT !.step = "done"]
<1>1. distill' = [distill EXCEPT ![d] = p] /\ UNCHANGED records /\ o.step = "persist"
  BY DEF Mem!Return
<1>2. /\ p.step \in {"done", "persist"} /\ p.base = o.base /\ p.last = o.last /\ p.existing = o.existing
      /\ p.request = o.request /\ p.now = o.now /\ p.stored = o.stored
      /\ p.conflicts = o.conflicts
  BY <1>1
<1>3. \A stored, q : Due(stored, p, q) <=> Due(stored, o, q)
  BY <1>2, SameDue
<1>4. DistillationInv(records, o, d)
  BY DEF MemoryInv
<1> HIDE DEF p, o
<1>5. DistillationInv(records, p, d)
  BY <1>1, <1>2, <1>3, <1>4 DEF DistillationInv
<1> QED  BY <1>1, <1>5, Moves

LEMMA MemoryInit == ASSUME Mem!Init PROVE MemoryInv
<1>1. PlacesInv /\ Cardinality(records) = 0
  BY FS_EmptySet DEF Mem!Init, PlacesInv
<1>2. ASSUME NEW d \in Distillations PROVE DistillationInv(records, distill[d], d)
  <2>1. distill[d].step = "idle" /\ distill[d].base = 0 /\ distill[d].last = 0 /\ records = {}
    BY DEF Mem!Init, Mem!Idle
  <2> QED  BY <1>1, <2>1 DEF DistillationInv
<1>3. distill = [d \in Distillations |-> distill[d]]
  BY DEF Mem!Init
<1> QED  BY <1>1, <1>2, <1>3 DEF MemoryInv

LEMMA MemoryKeeps ==
    ASSUME 0 \notin Distillations, MemoryInv, [Mem!Next]_(Mem!memoryVars) PROVE MemoryInv'
<1>1. CASE Mem!Tick \/ UNCHANGED Mem!memoryVars
  <2>1. UNCHANGED <<records, distill>>
    BY <1>1 DEF Mem!Tick, Mem!memoryVars
  <2>2. \A d \in Distillations : DistillationInv(records', distill'[d], d)
    BY <2>1 DEF MemoryInv
  <2>3. PlacesInv' /\ distill' = [d \in Distillations |-> distill'[d]]
    BY <2>1 DEF MemoryInv, PlacesInv
  <2> QED  BY <2>2, <2>3 DEF MemoryInv
<1>2. ASSUME NEW request \in MemoryRequests, NEW r \in Direct, Mem!Put(request, r) PROVE MemoryInv'
  BY <1>2, Puts
<1>3. ASSUME NEW d \in Distillations, NEW request \in MemoryRequests, Mem!Distill(d, request)
      PROVE  MemoryInv'
  BY <1>3, Begins
<1>4. ASSUME NEW d \in Distillations, NEW output \in Outputs, Mem!Answer(d, output) PROVE MemoryInv'
  BY <1>4, Answered
<1>5. ASSUME NEW d \in Distillations, Mem!Read(d) \/ Mem!Persist(d) \/ Mem!Return(d) PROVE MemoryInv'
  BY <1>5, Reads, Persists, Returns
<1> QED  BY <1>1, <1>2, <1>3, <1>4, <1>5 DEF Mem!Next

\* A distillation that returns has reported each clash of what it stored with what it
\* stored before and with what was there at its reads and not hidden behind the limit of
\* its queries, however many others write while it waits for the repository; a record put
\* after the reads is not compared (MemoryDistillationPipeline._persist_candidates).
THEOREM ClashesReported == 0 \notin Distillations /\ Mem!Spec => []ClashesAreReported
<1> SUFFICES ASSUME 0 \notin Distillations PROVE Mem!Spec => []ClashesAreReported
  OBVIOUS
<1>1. Mem!Init => MemoryInv
  BY MemoryInit
<1>2. MemoryInv /\ [Mem!Next]_(Mem!memoryVars) => MemoryInv'
  BY MemoryKeeps
<1>3. MemoryInv => ClashesAreReported
  <2> SUFFICES ASSUME MemoryInv, NEW d \in Distillations, distill[d].step = "done",
                      NEW r \in records, NEW q \in records,
                      r.by = d /\ q.place < r.place /\ q.key = r.key /\ q.content # r.content,
                      <<r.id, q.id>> \notin distill[d].conflicts
               PROVE  /\ q.by # d
                      /\ Mem!There(distill[d], q) =>
                           Mem!Cardinality(Mem!Ahead(distill[d], q)) >= ShownLimit
    BY DEF ClashesAreReported, Mem!ClashesAreReported
  <2>1. q.by # d /\ ~Due(records, distill[d], q)
    BY DEF MemoryInv, DistillationInv
  <2>2. Mem!Ahead(distill[d], q) = Before(records, distill[d], q)
    BY DEF Mem!Ahead, Before
  <2>3. \A S : Mem!Cardinality(S) = Cardinality(S)
    BY DEF Mem!Cardinality, Cardinality
  <2> QED  BY <2>1, <2>2, <2>3 DEF Due
<1> QED  BY <1>1, <1>2, <1>3, PTL DEF Mem!Spec
=============================================================================
