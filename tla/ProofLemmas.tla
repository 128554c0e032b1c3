---------------------------- MODULE ProofLemmas ----------------------------
(***************************************************************************)
(* Facts that several proof modules cite: least elements of sets of numbers *)
(* and of finite sets, from which induction over either follows, functions  *)
(* defined by recursion, the sum of a function, and lists of refusals.      *)
(***************************************************************************)
EXTENDS Integers, Refusals, FiniteSets, FiniteSetTheorems, Functions, TLAPS

-----------------------------------------------------------------------------
(* Least elements and induction.                                            *)

Smaller(U, T) == U \subseteq T /\ U # T

\* Of finite sets, one has no smaller one beside it.
LEMMA LeastSet ==
    ASSUME NEW S, NEW F, F \subseteq SUBSET S, F # {}, \A T \in F : IsFiniteSet(T)
    PROVE  \E T \in F : \A U \in F : ~Smaller(U, T)
<1>1. F \subseteq FiniteSubsetsOf(S)
  BY DEF FiniteSubsetsOf
<1>2. IsWellFoundedOn(StrictSubsetOrdering(S), FiniteSubsetsOf(S))
  BY FS_StrictSubsetOrderingWellFounded
<1>3. PICK T \in F : \A U \in F : <<U, T>> \notin StrictSubsetOrdering(S)
  <2> DEFINE R == StrictSubsetOrdering(S)
             G == FiniteSubsetsOf(S)
  <2>1. IsWellFoundedOn(R, G) /\ F \subseteq G
    BY <1>1, <1>2
  <2> HIDE DEF R, G
  <2>2. \E T \in F : \A U \in F : ~(<<U, T>> \in R)
    BY <2>1, WFMin
  <2> QED  BY <2>2 DEF R
<1> QED  BY <1>3 DEF StrictSubsetOrdering, Smaller

\* Of natural numbers, one is the least.
LEMMA LeastNat ==
    ASSUME NEW N \in SUBSET Nat, N # {}
    PROVE  \E n \in N : \A m \in N : n <= m
<1> DEFINE F == {1..n : n \in N}
<1>1. F \subseteq SUBSET Nat /\ F # {} /\ \A T \in F : IsFiniteSet(T)
  <2>1. PICK k \in N : TRUE
    OBVIOUS
  <2>2. 1..k \in F
    BY DEF F
  <2>3. \A T \in F : T \subseteq Nat
    BY DEF F
  <2>4. \A n \in N : IsFiniteSet(1..n)
    BY FS_Interval
  <2> QED  BY <2>2, <2>3, <2>4
<1> HIDE DEF F
<1>2. PICK T \in F : \A U \in F : ~Smaller(U, T)
  <2>1. PICK S : S = Nat
    OBVIOUS
  <2>2. F \subseteq SUBSET S
    BY <1>1, <2>1
  <2> QED  BY <1>1, <2>2, LeastSet
<1>3. PICK n \in N : T = 1..n
  BY <1>2 DEF F
<1>4. ASSUME NEW m \in N, m < n PROVE FALSE
  <2>1. 1..m \in F
    BY DEF F
  <2>2. 1..m \subseteq 1..n /\ n \in 1..n /\ n \notin 1..m
    BY <1>4
  <2> QED  BY <1>2, <1>3, <2>1, <2>2 DEF Smaller
<1> QED  BY <1>3, <1>4

\* What holds of 0 and of each successor holds of all numbers.
LEMMA NumberInduction ==
    ASSUME NEW N \in SUBSET Nat, 0 \in N, \A n \in N : n + 1 \in N
    PROVE  N = Nat
<1> SUFFICES ASSUME Nat \ N # {} PROVE FALSE
  OBVIOUS
<1> DEFINE M == Nat \ N
<1>1. M \in SUBSET Nat /\ M # {}
  OBVIOUS
<1> HIDE DEF M
<1>2. PICK n \in M : \A m \in M : n <= m
  BY <1>1, LeastNat
<1>3. n \in Nat /\ n # 0
  BY <1>2 DEF M
<1>4. n - 1 \in Nat /\ ~(n <= n - 1)
  BY <1>3
<1>5. n - 1 \in N
  BY <1>2, <1>4 DEF M
<1>6. (n - 1) + 1 \in N /\ (n - 1) + 1 = n
  BY <1>3, <1>5
<1> QED  BY <1>2, <1>6 DEF M

\* R[n] is what n uses of G make of d.
Iterated(R, D, G, d, k) ==
  /\ R \in [0..k -> D]
  /\ R[0] = d
  /\ \A n \in 1..k : R[n] = G[R[n - 1]]

\* A function can be used any number of times on what it has returned.
LEMMA Iteration ==
    ASSUME NEW D, NEW G \in [D -> D], NEW d \in D, NEW k \in Nat
    PROVE  \E R : Iterated(R, D, G, d, k)
<1> DEFINE Iterates(R, m) == R[0] = d /\ \A n \in 1..m : R[n] = G[R[n - 1]]
           N == {m \in Nat : \E R \in [0..m -> D] : Iterates(R, m)}
<1>1. 0 \in N
  <2>1. [n \in 0..0 |-> d] \in [0..0 -> D] /\ Iterates([n \in 0..0 |-> d], 0)
    OBVIOUS
  <2> QED  BY <2>1
<1>2. ASSUME NEW m \in N PROVE m + 1 \in N
  <2>1. PICK R \in [0..m -> D] : Iterates(R, m)
    OBVIOUS
  <2> DEFINE Q == [n \in 0..(m + 1) |-> IF n = m + 1 THEN G[R[m]] ELSE R[n]]
  <2>2. m \in Nat /\ R[m] \in D
    BY <2>1
  <2>3. Q \in [0..(m + 1) -> D]
    BY <2>2
  <2>4. Q[0] = d
    BY <2>1, <2>2
  <2>5. ASSUME NEW n \in 1..(m + 1) PROVE Q[n] = G[Q[n - 1]]
    <3>1. CASE n = m + 1
      BY <2>2, <3>1
    <3>2. CASE n # m + 1
      <4>1. n \in 1..m /\ n - 1 \in 0..m /\ n - 1 # m + 1 /\ n \in 0..(m + 1) /\ n - 1 \in 0..(m + 1)
        BY <2>2, <3>2
      <4> QED  BY <2>1, <3>2, <4>1
    <3> QED  BY <3>1, <3>2
  <2> HIDE DEF Q
  <2> QED  BY <2>2, <2>3, <2>4, <2>5
<1>3. N \in SUBSET Nat
  OBVIOUS
<1> HIDE DEF N
<1>4. N = Nat
  BY <1>1, <1>2, <1>3, NumberInduction
<1> QED  BY <1>4 DEF N, Iterated

-----------------------------------------------------------------------------
(* The sum of a function.                                                   *)

\* f has finitely many values, all integers; g gives the sum of f over every part
\* of its domain, one element at a time.
Summable(f) == IsFiniteSet(DOMAIN f) /\ \A x \in DOMAIN f : f[x] \in Int
Picked(s) == CHOOSE y \in s : TRUE
SumsOf(g, f) ==
    /\ g \in [SUBSET DOMAIN f -> Int]
    /\ \A s \in SUBSET DOMAIN f :
          g[s] = IF s = {} THEN 0 ELSE f[Picked(s)] + g[s \ {Picked(s)}]

\* The recursion of the sum has a solution.
LEMMA SumsExist ==
    ASSUME NEW f, Summable(f)
    PROVE  \E g : SumsOf(g, f)
<1> IsFiniteSet(DOMAIN f) /\ \A x \in DOMAIN f : f[x] \in Int
  BY DEF Summable
<1> DEFINE D == DOMAIN f
           Small(n) == {s \in SUBSET D : Cardinality(s) <= n}
           Upto(g, n) ==
             /\ g \in [Small(n) -> Int]
             /\ \A s \in Small(n) :
                  g[s] = IF s = {} THEN 0 ELSE f[Picked(s)] + g[s \ {Picked(s)}]
           N == {n \in Nat : \E g : Upto(g, n)}
<1>1. \A s \in SUBSET D : IsFiniteSet(s) /\ Cardinality(s) \in Nat
  BY FS_Subset, FS_CardinalityType
<1>2. \A s \in SUBSET D : s # {} =>
         /\ Picked(s) \in s /\ s \ {Picked(s)} \in SUBSET D
         /\ Cardinality(s \ {Picked(s)}) = Cardinality(s) - 1
  <2> SUFFICES ASSUME NEW s \in SUBSET D, s # {} 
               PROVE  /\ Picked(s) \in s /\ s \ {Picked(s)} \in SUBSET D
                      /\ Cardinality(s \ {Picked(s)}) = Cardinality(s) - 1
    OBVIOUS
  <2>1. Picked(s) \in s
    BY DEF Picked
  <2> QED  BY <1>1, <2>1, FS_RemoveElement
<1>3. \A s \in SUBSET D : Cardinality(s) = 0 <=> s = {}
  BY <1>1, FS_EmptySet
<1>4. 0 \in N
  <2> DEFINE z == [s \in Small(0) |-> 0]
  <2>1. \A s \in Small(0) : s = {}
    BY <1>1, <1>3
  <2>2. Upto(z, 0)
    BY <2>1
  <2> QED  BY <2>2
<1>5. ASSUME NEW n \in N PROVE n + 1 \in N
  <2>1. PICK g : Upto(g, n)
    OBVIOUS
  <2> DEFINE h == [s \in Small(n + 1) |->
                     IF s = {} THEN 0 ELSE f[Picked(s)] + g[s \ {Picked(s)}]]
  <2>2. n \in Nat
    OBVIOUS
  <2>3. ASSUME NEW s \in Small(n + 1), s # {}
        PROVE  /\ s \ {Picked(s)} \in Small(n) /\ g[s \ {Picked(s)}] \in Int
               /\ f[Picked(s)] \in Int
    <3>1. Cardinality(s) \in Nat /\ Cardinality(s) <= n + 1 /\ s \in SUBSET D
      BY <1>1
    <3>2. s \ {Picked(s)} \in Small(n)
      BY <1>2, <2>2, <2>3, <3>1
    <3> HIDE DEF Small
    <3>3. g[s \ {Picked(s)}] \in Int
      BY <2>1, <3>2
    <3>4. Picked(s) \in D
      BY <1>2, <2>3, <3>1
    <3> QED  BY <3>2, <3>3, <3>4
  <2>4. h \in [Small(n + 1) -> Int]
    <3>1. ASSUME NEW s \in Small(n + 1) PROVE h[s] \in Int
      <4> HIDE DEF Small
      <4>1. CASE s = {}
        BY <4>1
      <4>2. CASE s # {}
        <5>1. f[Picked(s)] \in Int /\ g[s \ {Picked(s)}] \in Int
          BY <2>3, <4>2
        <5>2. h[s] = f[Picked(s)] + g[s \ {Picked(s)}]
          BY <4>2
        <5> QED  BY <5>1, <5>2
      <4> QED  BY <4>1, <4>2
    <3> HIDE DEF Small
    <3>2. h = [s \in Small(n + 1) |-> h[s]]
      OBVIOUS
    <3> HIDE DEF h
    <3> QED  BY <3>1, <3>2
  <2>5. \A s \in Small(n) : s \in Small(n + 1)
    BY <1>1, <2>2
  <2>6. \A s \in Small(n) : h[s] = g[s]
    <3> HIDE DEF Small
    <3> QED  BY <2>1, <2>5
  <2>7. \A s \in Small(n + 1) :
           h[s] = IF s = {} THEN 0 ELSE f[Picked(s)] + h[s \ {Picked(s)}]
    <3> HIDE DEF Small
    <3> QED  BY <2>3, <2>6
  <2> HIDE DEF h, Small
  <2>8. Upto(h, n + 1)
    BY <2>4, <2>7
  <2> QED  BY <2>2, <2>8
<1>6. N \in SUBSET Nat
  OBVIOUS
<1>7. Cardinality(D) \in Nat
  BY <1>1
<1>8. Small(Cardinality(D)) = SUBSET D
  <2>1. \A s \in SUBSET D : Cardinality(s) <= Cardinality(D)
    BY FS_Subset
  <2> QED  BY <2>1
<1> HIDE DEF N
<1>9. Cardinality(D) \in N
  BY <1>4, <1>5, <1>6, <1>7, NumberInduction
<1> HIDE DEF Small
<1>10. PICK g : Upto(g, Cardinality(D))
  BY <1>9 DEF N
<1> QED  BY <1>8, <1>10 DEF SumsOf

\* The sum of the function is the sum over its whole domain.
LEMMA SumIsOfDomain ==
    ASSUME NEW f, Summable(f)
    PROVE  \E g : SumsOf(g, f) /\ SumFunction(f) = g[DOMAIN f]
<1> IsFiniteSet(DOMAIN f) /\ \A x \in DOMAIN f : f[x] \in Int
  BY DEF Summable
<1> DEFINE Body(iter, s) ==
             IF s = {} THEN 0
             ELSE f[CHOOSE y \in s : TRUE] + iter[s \ {CHOOSE y \in s : TRUE}]
           g == CHOOSE iter : iter = [s \in SUBSET DOMAIN f |-> Body(iter, s)]
<1>1. SumFunction(f) = g[DOMAIN f]
  BY DEF SumFunction, SumFunctionOnSet, FoldFunctionOnSet, MapThenFoldSet
<1>2. PICK h : SumsOf(h, f)
  BY SumsExist
<1>3. h = [s \in SUBSET DOMAIN f |-> Body(h, s)]
  BY <1>2 DEF SumsOf, Picked
<1>4. g = [s \in SUBSET DOMAIN f |-> Body(g, s)]
  <2> HIDE DEF Body
  <2> QED  BY <1>3, Zenon
<1>5. \A s \in SUBSET DOMAIN f :
         g[s] = IF s = {} THEN 0 ELSE f[Picked(s)] + g[s \ {Picked(s)}]
  <2> HIDE DEF g
  <2> QED  BY <1>4 DEF Picked
<1>6. DOMAIN g = SUBSET DOMAIN f
  <2> HIDE DEF g, Body
  <2> QED  BY <1>4
<1> HIDE DEF g
<1>7. \A s \in SUBSET DOMAIN f : g[s] \in Int
  <2> SUFFICES ASSUME {s \in SUBSET DOMAIN f : g[s] \notin Int} # {} PROVE FALSE
    OBVIOUS
  <2> DEFINE F == {s \in SUBSET DOMAIN f : g[s] \notin Int}
  <2>1. F \subseteq SUBSET DOMAIN f /\ F # {} /\ \A T \in F : IsFiniteSet(T)
    BY FS_Subset
  <2> HIDE DEF F
  <2>2. PICK T \in F : \A U \in F : ~Smaller(U, T)
    BY <2>1, LeastSet
  <2>3. T \in SUBSET DOMAIN f /\ g[T] \notin Int
    BY <2>2 DEF F
  <2>4. T # {}
    <3>1. g[{}] = 0
      BY <1>5
    <3> QED  BY <2>3, <3>1
  <2>5. Picked(T) \in T
    BY <2>4 DEF Picked
  <2> DEFINE U == T \ {Picked(T)}
  <2>6. U \in SUBSET DOMAIN f /\ Smaller(U, T)
    BY <2>3, <2>5 DEF Smaller
  <2>7. g[U] \in Int
    BY <2>2, <2>6 DEF F
  <2>8. g[T] = f[Picked(T)] + g[U] /\ f[Picked(T)] \in Int
    BY <1>5, <2>3, <2>4, <2>5
  <2> QED  BY <2>3, <2>7, <2>8
<1>8. g = [s \in SUBSET DOMAIN f |-> g[s]]
  <2> HIDE DEF Body
  <2> QED  BY <1>4
<1>9. SumsOf(g, f)
  BY <1>5, <1>6, <1>7, <1>8 DEF SumsOf
<1> QED  BY <1>1, <1>9

\* Which element is taken out first makes no difference.
TakesAny(g, f) ==
    \A s \in SUBSET DOMAIN f : \A x \in s : g[s] = f[x] + g[s \ {x}]

LEMMA SumTakesAny ==
    ASSUME NEW f, Summable(f), NEW g, SumsOf(g, f)
    PROVE  TakesAny(g, f)
<1> IsFiniteSet(DOMAIN f) /\ \A x \in DOMAIN f : f[x] \in Int
  BY DEF Summable
<1> DEFINE Takes(s) == \A x \in s : g[s] = f[x] + g[s \ {x}]
           F == {s \in SUBSET DOMAIN f : ~Takes(s)}
<1> SUFFICES ASSUME F # {} PROVE FALSE
  BY DEF TakesAny
<1>1. F \subseteq SUBSET DOMAIN f /\ F # {} /\ \A T \in F : IsFiniteSet(T)
  BY FS_Subset
<1> HIDE DEF F
<1>2. PICK T \in F : \A U \in F : ~Smaller(U, T)
  BY <1>1, LeastSet
<1>3. T \in SUBSET DOMAIN f /\ ~Takes(T)
  BY <1>2 DEF F
<1>4. PICK x \in T : g[T] # f[x] + g[T \ {x}]
  BY <1>3
<1>5. \A U \in SUBSET DOMAIN f : Smaller(U, T) => Takes(U)
  BY <1>2 DEF F
<1>6. T # {} /\ Picked(T) \in T
  BY <1>4 DEF Picked
<1>7. PICK c \in T : c = Picked(T)
  BY <1>6
<1>8. g[T] = f[c] + g[T \ {c}]
  BY <1>3, <1>6, <1>7 DEF SumsOf
<1>9. x # c
  BY <1>4, <1>8
<1> DEFINE U == T \ {c}
           V == T \ {x}
<1>10. /\ U \in SUBSET DOMAIN f /\ Smaller(U, T) /\ x \in U
       /\ V \in SUBSET DOMAIN f /\ Smaller(V, T) /\ c \in V
       /\ U \ {x} = V \ {c} /\ U \ {x} \in SUBSET DOMAIN f
  BY <1>3, <1>9 DEF Smaller
<1>11. g[U] = f[x] + g[U \ {x}] /\ g[V] = f[c] + g[V \ {c}]
  BY <1>5, <1>10
<1>12. g[U \ {x}] \in Int /\ f[x] \in Int /\ f[c] \in Int
  BY <1>3, <1>10 DEF SumsOf
<1>13. g[T] = f[c] + g[U] /\ g[T] # f[x] + g[V] /\ V \ {c} = U \ {x}
  BY <1>4, <1>8, <1>10
<1> HIDE DEF U, V
<1>14. PICK a \in Int, b \in Int, w \in Int : a = f[x] /\ b = f[c] /\ w = g[U \ {x}]
  BY <1>12
<1>15. g[U] = a + w /\ g[V] = b + w
  BY <1>11, <1>13, <1>14
<1>16. g[T] = b + (a + w) /\ g[T] # a + (b + w)
  BY <1>13, <1>14, <1>15
<1> QED  BY <1>16

\* Changing one value changes the sum by as much.
LEMMA SumUpdated ==
    ASSUME NEW D, IsFiniteSet(D), NEW f \in [D -> Int], NEW i \in D, NEW v \in Int
    PROVE  /\ SumFunction(f) \in Int
           /\ SumFunction([f EXCEPT ![i] = v]) = SumFunction(f) - f[i] + v
<1> DEFINE h == [f EXCEPT ![i] = v]
<1>1. /\ Summable(f) /\ Summable(h)
      /\ DOMAIN f = D /\ DOMAIN h = D /\ h[i] = v
      /\ \A x \in D : x # i => h[x] = f[x]
      /\ \A x \in D : f[x] \in Int /\ h[x] \in Int
  BY DEF Summable
<1> HIDE DEF h
<1>2. PICK g : SumsOf(g, f) /\ SumFunction(f) = g[D]
  BY <1>1, SumIsOfDomain
<1>3. PICK k : SumsOf(k, h) /\ SumFunction(h) = k[D]
  BY <1>1, SumIsOfDomain
<1>4. \A s \in SUBSET D : g[s] \in Int /\ k[s] \in Int
  BY <1>1, <1>2, <1>3 DEF SumsOf
<1>5. \A s \in SUBSET (D \ {i}) : g[s] = k[s]
  <2> DEFINE F == {s \in SUBSET (D \ {i}) : g[s] # k[s]}
  <2> SUFFICES ASSUME F # {} PROVE FALSE
    OBVIOUS
  <2>1. F \subseteq SUBSET D /\ \A T \in F : IsFiniteSet(T)
    BY FS_Subset
  <2> HIDE DEF F
  <2>2. PICK T \in F : \A U \in F : ~Smaller(U, T)
    BY <2>1, LeastSet
  <2>3. T \in SUBSET (D \ {i}) /\ g[T] # k[T]
    BY <2>2 DEF F
  <2>4. g[{}] = 0 /\ k[{}] = 0
    BY <1>2, <1>3 DEF SumsOf
  <2>5. PICK x \in T : x = Picked(T)
    BY <2>3, <2>4 DEF Picked
  <2> DEFINE U == T \ {x}
  <2>6. U \in SUBSET (D \ {i}) /\ Smaller(U, T)
    BY <2>3 DEF Smaller
  <2>7. g[U] = k[U]
    BY <2>2, <2>6 DEF F
  <2>8. g[T] = f[x] + g[U] /\ k[T] = h[x] + k[U]
    BY <1>1, <1>2, <1>3, <2>3, <2>5 DEF SumsOf
  <2> QED  BY <1>1, <2>3, <2>7, <2>8
<1>6. g[D] = f[i] + g[D \ {i}] /\ k[D] = v + k[D \ {i}]
  <2>1. TakesAny(g, f) /\ TakesAny(k, h)
    BY <1>1, <1>2, <1>3, SumTakesAny
  <2> QED  BY <1>1, <2>1 DEF TakesAny
<1>7. g[D \ {i}] = k[D \ {i}] /\ g[D \ {i}] \in Int /\ f[i] \in Int
  BY <1>1, <1>4, <1>5
<1> QED  BY <1>2, <1>3, <1>4, <1>6, <1>7 DEF h

\* The sum of a function that is zero everywhere.
LEMMA SumOfZeros ==
    ASSUME NEW D, IsFiniteSet(D)
    PROVE  SumFunction([x \in D |-> 0]) = 0
<1> DEFINE f == [x \in D |-> 0]
<1>1. Summable(f) /\ DOMAIN f = D /\ \A x \in D : f[x] = 0
  BY DEF Summable
<1> HIDE DEF f
<1>2. PICK g : SumsOf(g, f) /\ SumFunction(f) = g[D]
  BY <1>1, SumIsOfDomain
<1> DEFINE F == {s \in SUBSET D : g[s] # 0}
<1> SUFFICES ASSUME F # {} PROVE FALSE
  BY <1>2 DEF f
<1>3. F \subseteq SUBSET D /\ \A T \in F : IsFiniteSet(T)
  BY FS_Subset
<1> HIDE DEF F
<1>4. PICK T \in F : \A U \in F : ~Smaller(U, T)
  BY <1>3, LeastSet
<1>5. T \in SUBSET D /\ g[T] # 0
  BY <1>4 DEF F
<1>6. T # {}
  BY <1>1, <1>2, <1>5 DEF SumsOf
<1>7. PICK x \in T : x = Picked(T)
  BY <1>6 DEF Picked
<1> DEFINE U == T \ {x}
<1>8. U \in SUBSET D /\ Smaller(U, T)
  BY <1>5 DEF Smaller
<1>9. g[U] = 0
  BY <1>4, <1>8 DEF F
<1>10. g[T] = f[x] + g[U] /\ f[x] = 0
  BY <1>1, <1>2, <1>5, <1>6, <1>7 DEF SumsOf
<1> QED  BY <1>5, <1>9, <1>10

-----------------------------------------------------------------------------
(* FirstRefusal.                                                            *)

\* When the checks of a handler refuse nothing, none of them applies.
LEMMA Refused ==
    ASSUME NEW rules, NEW n \in Nat, DOMAIN rules = 1..n,
           \A i \in 1..n : rules[i][1] => rules[i][2] # None, FirstRefusal(rules) = None
    PROVE  \A i \in 1..n : ~rules[i][1]
<1> SUFFICES ASSUME NEW k \in 1..n, rules[k][1] PROVE FALSE
  OBVIOUS
<1> DEFINE Applies(i) == rules[i][1]
           first == CHOOSE i \in DOMAIN rules : Applies(i) /\ \A j \in 1..(i - 1) : ~Applies(j)
           N == {i \in 1..n : Applies(i)}
<1>1. \E i \in DOMAIN rules : Applies(i) /\ \A j \in 1..(i - 1) : ~Applies(j)
  <2>1. N \in SUBSET Nat /\ N # {}
    OBVIOUS
  <2> HIDE DEF N
  <2>2. PICK i \in N : \A m \in N : i <= m
    BY <2>1, LeastNat
  <2>3. i \in 1..n /\ Applies(i)
    BY <2>2 DEF N
  <2> HIDE DEF Applies
  <2>4. ASSUME NEW j \in 1..(i - 1) PROVE ~Applies(j)
    <3>1. j \in 1..n /\ ~(i <= j)
      BY <2>3
    <3> QED  BY <2>2, <3>1 DEF N
  <2> QED  BY <2>3, <2>4
<1>2. first \in DOMAIN rules /\ Applies(first)
  <2> HIDE DEF Applies
  <2> QED  BY <1>1, Zenon
<1>3. FirstRefusal(rules) = rules[first][2]
  BY <1>2, Zenon DEF FirstRefusal
<1> HIDE DEF first
<1> QED  BY <1>2, <1>3

\* The same for lists of one to four checks.
LEMMA OneCheck ==
    ASSUME NEW a \in BOOLEAN, NEW c, c # None, FirstRefusal(<< <<a, c>> >>) = None
    PROVE  ~a
<1> DEFINE rules == << <<a, c>> >>
<1>1. DOMAIN rules = 1..1 /\ rules[1][1] = a /\ \A i \in 1..1 : rules[i][2] # None
  OBVIOUS
<1>2. PICK n \in Nat : n = 1
  OBVIOUS
<1> HIDE DEF rules
<1>3. \A i \in 1..n : ~rules[i][1]
  BY <1>1, <1>2, Refused DEF rules
<1>4. ~rules[1][1]
  BY <1>2, <1>3
<1> QED  BY <1>1, <1>4, Zenon

LEMMA TwoChecks ==
    ASSUME NEW a \in BOOLEAN, NEW b \in BOOLEAN, NEW c, NEW d, c # None, d # None,
           FirstRefusal(<< <<a, c>>, <<b, d>> >>) = None
    PROVE  ~a /\ ~b
<1> DEFINE rules == << <<a, c>>, <<b, d>> >>
<1>1. /\ DOMAIN rules = 1..2 /\ rules[1][1] = a /\ rules[2][1] = b
      /\ \A i \in 1..2 : rules[i][2] # None
  OBVIOUS
<1>2. PICK n \in Nat : n = 2
  OBVIOUS
<1> HIDE DEF rules
<1>3. \A i \in 1..n : ~rules[i][1]
  BY <1>1, <1>2, Refused DEF rules
<1>4. ~rules[1][1] /\ ~rules[2][1]
  BY <1>2, <1>3
<1> QED  BY <1>1, <1>4, Zenon

LEMMA ThreeChecks ==
    ASSUME NEW a \in BOOLEAN, NEW b \in BOOLEAN, NEW e \in BOOLEAN,
           NEW c, NEW d, NEW f, c # None, d # None, f # None,
           FirstRefusal(<< <<a, c>>, <<b, d>>, <<e, f>> >>) = None
    PROVE  ~a /\ ~b /\ ~e
<1> DEFINE rules == << <<a, c>>, <<b, d>>, <<e, f>> >>
<1>1. /\ DOMAIN rules = 1..3 /\ rules[1][1] = a /\ rules[2][1] = b /\ rules[3][1] = e
      /\ \A i \in 1..3 : rules[i][2] # None
  OBVIOUS
<1>2. PICK n \in Nat : n = 3
  OBVIOUS
<1> HIDE DEF rules
<1>3. \A i \in 1..n : ~rules[i][1]
  BY <1>1, <1>2, Refused DEF rules
<1>4. ~rules[1][1] /\ ~rules[2][1] /\ ~rules[3][1]
  BY <1>2, <1>3
<1> QED  BY <1>1, <1>4, Zenon

LEMMA FourChecks ==
    ASSUME NEW a \in BOOLEAN, NEW b \in BOOLEAN, NEW e \in BOOLEAN, NEW g \in BOOLEAN,
           NEW c, NEW d, NEW f, NEW h, c # None, d # None, f # None, h # None,
           FirstRefusal(<< <<a, c>>, <<b, d>>, <<e, f>>, <<g, h>> >>) = None
    PROVE  ~a /\ ~b /\ ~e /\ ~g
<1> DEFINE rules == << <<a, c>>, <<b, d>>, <<e, f>>, <<g, h>> >>
<1>1. /\ DOMAIN rules = 1..4 /\ rules[1][1] = a /\ rules[2][1] = b /\ rules[3][1] = e
      /\ rules[4][1] = g /\ \A i \in 1..4 : rules[i][2] # None
  OBVIOUS
<1>2. PICK n \in Nat : n = 4
  OBVIOUS
<1> HIDE DEF rules
<1>3. \A i \in 1..n : ~rules[i][1]
  BY <1>1, <1>2, Refused DEF rules
<1>4. ~rules[1][1] /\ ~rules[2][1] /\ ~rules[3][1] /\ ~rules[4][1]
  BY <1>2, <1>3
<1> QED  BY <1>1, <1>4, Zenon
============================================================================
