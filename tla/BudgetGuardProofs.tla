------------------------- MODULE BudgetGuardProofs --------------------------
(***************************************************************************)
(* Proofs about BudgetGuard, for every policy, window, clock and set of     *)
(* requests, across any number of restores: limits, reservations, slots and *)
(* the window of remembered calls. That _reserved_tokens is the sum of the  *)
(* outstanding reservations rests on the lemmas about sums of ProofLemmas.  *)
(***************************************************************************)
EXTENDS BudgetGuard, ProofLemmas, TLAPS

\* Counters that only grow.
Charged == Counted \ {"professional_concurrency"}

SavedType ==
    [counts : [Counted -> Int], reservedSteps : Nat, reservedTokens : Int,
     started : Seq(ToolCalls), logicalActions : Int, elapsed : Nat, excess : Nat]

-----------------------------------------------------------------------------
(* The inductive invariant.                                                 *)

\* Types of the variables the argument reads.
ShapeInv ==
    /\ policy \in Policies
    /\ counts \in [Counted -> Int]
    /\ reservedSteps \in Nat
    /\ reservedTokens \in Int
    /\ llmReservations \in [CallIds -> Nat]
    /\ history \in Seq(ToolCalls)
    /\ started \in Seq(ToolCalls)
    /\ logicalActions \in Int
    /\ elapsed \in Nat
    /\ excess \in Nat
    /\ saved \in SavedType

\* What a guard or its telemetry has charged and reserved is within the limits.
WithinLimits(c, steps, tokens, over) ==
    /\ c["graph_steps"] + steps <= Active["graph_steps"]
    /\ c["total_tokens"] + tokens <= Active["total_tokens"] + over

LimitInv ==
    /\ WithinLimits(counts, reservedSteps, reservedTokens, excess)
    /\ WithinLimits(saved.counts, saved.reservedSteps, saved.reservedTokens, saved.excess)

\* The guard has charged whatever its last telemetry has.
DurableInv ==
    /\ \A d \in Charged : counts[d] >= saved.counts[d] /\ saved.counts[d] >= 0
    /\ elapsed >= saved.elapsed

\* The repetition history h is the end of the trace of started calls.
EndOf(h, calls) ==
    /\ Len(h) = IF Len(calls) > HistoryWindow THEN HistoryWindow ELSE Len(calls)
    /\ \A i \in 1..Len(h) : h[i] = calls[Len(calls) - Len(h) + i]

\* No call repeats one of the window before it.
NoRepeat(calls) ==
    \A i, j \in 1..Len(calls) : i < j /\ calls[i] = calls[j] => j - i > HistoryWindow

HistoryInv ==
    EndOf(history, started) /\ NoRepeat(started) /\ NoRepeat(saved.started)

GuardInv == ShapeInv /\ LimitInv /\ DurableInv /\ HistoryInv

\* What is charged one at a time.
Single == {"llm_calls", "tool_calls", "review_rounds", "correction_rounds"}

\* The counter of reserved tokens is the sum of the outstanding reservations.
TokenInv == reservedTokens = SumFunction(llmReservations)

-----------------------------------------------------------------------------
(* Facts about the policies and the degradation stages.                     *)

LEMMA DimensionFacts ==
    /\ {"graph_steps", "llm_calls", "tool_calls", "total_tokens", "review_rounds",
        "correction_rounds", "professional_concurrency"} = Counted
    /\ {"graph_steps", "llm_calls", "tool_calls", "total_tokens", "review_rounds",
        "correction_rounds"} = Charged
    /\ "graph_steps" \in Rated /\ Counted \subseteq Dimension
BY DEF Counted, Charged, Rated, Dimension

LEMMA PolicyFacts ==
    ASSUME ShapeInv
    PROVE  \A d \in Dimension : Active[d] \in Nat /\ Hard[d] \in Nat
BY PolicyAssumption DEF ShapeInv, Active, Hard

\* A STANDARD action is authorized only below 95 percent of the step limit.
LEMMA StandardBelowLimit ==
    ASSUME ShapeInv, Authorized("STANDARD"), Active["graph_steps"] # 0
    PROVE  counts["graph_steps"] + reservedSteps < Active["graph_steps"]
<1>1. DegradationStage \notin {"STOPPED", "FINALIZE_ONLY"}
  BY DEF Authorized, DeniedClasses, ActionClass
<1>2. ~AtLeast(95)
  BY <1>1 DEF DegradationStage
<1>3. ~(Used("graph_steps") * 100 >= 95 * Active["graph_steps"])
  BY <1>2, DimensionFacts DEF AtLeast
<1>4. Used("graph_steps") = counts["graph_steps"] + reservedSteps
  BY DEF Used
<1>5. Active["graph_steps"] \in Nat /\ counts["graph_steps"] \in Int /\ reservedSteps \in Nat
  BY PolicyFacts, DimensionFacts DEF ShapeInv
<1> QED
  BY <1>3, <1>4, <1>5

LEMMA InitKeeps == Init => GuardInv
<1> SUFFICES ASSUME Init PROVE GuardInv
  OBVIOUS
<1>1. ShapeInv
  BY DEF Init, ShapeInv, SavedType, Telemetry, NoCall
<1>2. Active["graph_steps"] \in Nat /\ Active["total_tokens"] \in Nat
  BY <1>1, PolicyFacts, DimensionFacts
<1>3. /\ saved.counts = counts /\ saved.reservedSteps = 0 /\ saved.reservedTokens = 0
      /\ saved.excess = 0 /\ saved.elapsed = 0 /\ saved.started = <<>>
  BY DEF Init, Telemetry
<1>4. LimitInv
  BY <1>2, <1>3, DimensionFacts DEF Init, LimitInv, WithinLimits
<1>5. DurableInv
  BY <1>3 DEF Init, DurableInv, Charged
<1>6. HistoryInv
  BY <1>3, RequestAssumption DEF Init, HistoryInv, EndOf, NoRepeat
<1> QED
  BY <1>1, <1>4, <1>5, <1>6 DEF GuardInv

-----------------------------------------------------------------------------
(* Steps that leave the trace of calls and the telemetry alone.             *)

LEMMA ChargeStep ==
    ASSUME GuardInv, UNCHANGED <<policy, history, started, saved>>,
           counts' \in [Counted -> Int], reservedSteps' \in Nat, reservedTokens' \in Int,
           llmReservations' \in [CallIds -> Nat], logicalActions' \in Int,
           elapsed' \in Nat, excess' \in Nat,
           \A d \in Charged : counts'[d] >= counts[d],
           elapsed' >= elapsed,
           WithinLimits(counts', reservedSteps', reservedTokens', excess')
    PROVE  GuardInv'
<1>1. ShapeInv'
  BY DEF GuardInv, ShapeInv
<1>2. LimitInv'
  BY DEF GuardInv, LimitInv, WithinLimits, Active
<1>3. DurableInv'
  <2>1. \A d \in Charged : counts[d] \in Int /\ counts'[d] \in Int /\ saved.counts[d] \in Int
    BY DEF GuardInv, ShapeInv, SavedType, Charged
  <2>2. saved.elapsed \in Int /\ elapsed \in Int /\ elapsed' \in Int
    BY DEF GuardInv, ShapeInv, SavedType
  <2> QED
    BY <2>1, <2>2 DEF GuardInv, DurableInv
<1>4. HistoryInv'
  BY DEF GuardInv, HistoryInv, EndOf, NoRepeat
<1> QED
  BY <1>1, <1>2, <1>3, <1>4 DEF GuardInv

\* What the step lemmas read of the state.
LEMMA StateFacts ==
    ASSUME GuardInv
    PROVE  /\ counts \in [Counted -> Int] /\ reservedSteps \in Nat /\ reservedTokens \in Int
           /\ llmReservations \in [CallIds -> Nat]
           /\ logicalActions \in Int /\ elapsed \in Nat /\ excess \in Nat
           /\ Active["graph_steps"] \in Nat /\ Active["total_tokens"] \in Nat
           /\ counts["graph_steps"] \in Nat /\ counts["total_tokens"] \in Nat
           /\ counts["graph_steps"] + reservedSteps <= Active["graph_steps"]
           /\ counts["total_tokens"] + reservedTokens <= Active["total_tokens"] + excess
<1>1. Active["graph_steps"] \in Nat /\ Active["total_tokens"] \in Nat
  BY PolicyFacts, DimensionFacts DEF GuardInv
<1>2. \A d \in Charged : counts[d] \in Int /\ saved.counts[d] \in Int
  BY DEF GuardInv, ShapeInv, SavedType, Charged
<1>3. counts["graph_steps"] \in Nat /\ counts["total_tokens"] \in Nat
  BY <1>2, DimensionFacts DEF GuardInv, DurableInv
<1> QED
  BY <1>1, <1>3 DEF GuardInv, ShapeInv, LimitInv, WithinLimits

\* A counter other than those of steps and tokens moves.
LEMMA CountStep ==
    ASSUME GuardInv, NEW d \in Counted, NEW n \in Int,
           UNCHANGED <<policy, reservedSteps, reservedTokens, llmReservations, history,
                       started, elapsed, excess, saved>>,
           logicalActions' \in Int,
           counts' = [counts EXCEPT ![d] = counts[d] + n],
           d \notin {"total_tokens", "graph_steps"},
           d = "professional_concurrency" \/ n >= 0
    PROVE  GuardInv'
<1>1. \A x \in Counted : counts[x] \in Int
  BY StateFacts
<1>2. /\ counts' \in [Counted -> Int]
      /\ \A x \in Counted : counts'[x] = IF x = d THEN counts[d] + n ELSE counts[x]
  BY <1>1, StateFacts
<1>3. \A x \in Charged : counts'[x] >= counts[x]
  BY <1>1, <1>2 DEF Charged
<1>4. WithinLimits(counts', reservedSteps', reservedTokens', excess')
  BY <1>2, StateFacts, DimensionFacts DEF WithinLimits
<1> QED
  BY <1>2, <1>3, <1>4, StateFacts, ChargeStep

\* One counter grows by one.
LEMMA CountOne ==
    ASSUME GuardInv, NEW d \in Counted \ {"total_tokens", "graph_steps"},
           UNCHANGED <<policy, reservedSteps, reservedTokens, llmReservations, history,
                       started, elapsed, excess, saved>>,
           logicalActions' \in Int,
           counts' = [counts EXCEPT ![d] = counts[d] + 1]
    PROVE  GuardInv'
<1>1. 1 \in Int /\ 1 >= 0
  OBVIOUS
<1> QED
  BY <1>1, CountStep

\* One graph step is charged and none of the reserved ones is used.
LEMMA UnreservedStep ==
    ASSUME GuardInv, Consume("graph_steps", 1),
           UNCHANGED <<policy, reservedSteps, reservedTokens, llmReservations, history,
                       started, elapsed, excess, saved>>,
           counts["graph_steps"] + 1 + reservedSteps <= Active["graph_steps"]
    PROVE  GuardInv'
<1>1. \A x \in Counted : counts[x] \in Int
  BY StateFacts
<1>2. /\ counts' \in [Counted -> Int] /\ logicalActions' \in Int
      /\ \A x \in Counted : counts'[x] = IF x = "graph_steps" THEN counts[x] + 1 ELSE counts[x]
  BY <1>1, StateFacts, DimensionFacts DEF Consume
<1>3. \A x \in Charged : counts'[x] >= counts[x]
  BY <1>1, <1>2 DEF Charged
<1>4. WithinLimits(counts', reservedSteps', reservedTokens', excess')
  BY <1>2, StateFacts, DimensionFacts DEF WithinLimits
<1> QED
  BY <1>2, <1>3, <1>4, StateFacts, ChargeStep

LEMMA GraphStepsKeep ==
    ASSUME GuardInv
    PROVE  /\ \A class \in ActionClass : RecordGraphStep(class) => GuardInv'
           /\ \A amount \in Attempts : ReserveGraphSteps(amount) => GuardInv'
           /\ AbandonGraphReservation => GuardInv'
           /\ ReleaseGraphReservation => GuardInv'
           /\ RecordCacheLookup => GuardInv'
<1> USE DEF WithinLimits
<1>1. \A x \in Counted : counts[x] \in Int
  BY StateFacts
<1>2. ASSUME ConsumeReservedStep PROVE GuardInv'
  <2>1. /\ counts' \in [Counted -> Int]
        /\ \A x \in Counted : counts'[x] = IF x = "graph_steps" THEN counts[x] + 1 ELSE counts[x]
    BY <1>1, <1>2, StateFacts, DimensionFacts DEF ConsumeReservedStep
  <2>2. \A x \in Charged : counts'[x] >= counts[x]
    BY <1>1, <2>1 DEF Charged
  <2>3. WithinLimits(counts', reservedSteps', reservedTokens', excess')
    BY <1>2, <2>1, StateFacts, DimensionFacts DEF ConsumeReservedStep
  <2>4. /\ UNCHANGED <<policy, history, started, saved>>
        /\ reservedSteps' \in Nat /\ logicalActions' \in Int
        /\ reservedTokens' = reservedTokens /\ elapsed' = elapsed /\ excess' = excess
        /\ llmReservations' = llmReservations
    BY <1>2, StateFacts DEF ConsumeReservedStep
  <2> QED
    BY <2>1, <2>2, <2>3, <2>4, StateFacts, ChargeStep
<1>3. ASSUME NEW class \in ActionClass, RecordUnreservedStep(class) PROVE GuardInv'
  <2>1. counts["graph_steps"] + 1 + reservedSteps <= Active["graph_steps"]
    BY <1>3, StateFacts DEF RecordUnreservedStep, Consume, HasCapacity
  <2> QED
    BY <1>3, <2>1, UnreservedStep DEF RecordUnreservedStep
<1>4. ASSUME NEW amount \in Attempts, ReserveGraphSteps(amount) PROVE GuardInv'
  <2>1. amount \in Nat
    BY RequestAssumption
  <2>2. \A x \in Charged : counts'[x] >= counts[x]
    BY <1>1, <1>4 DEF Charged, ReserveGraphSteps
  <2> QED
    BY <1>4, <2>1, <2>2, StateFacts, ChargeStep DEF ReserveGraphSteps, HasCapacity
<1>5. ASSUME AbandonGraphReservation PROVE GuardInv'
  <2>1. /\ counts' \in [Counted -> Int]
        /\ \A x \in Counted :
              counts'[x] = IF x = "graph_steps" THEN counts[x] + reservedSteps ELSE counts[x]
    BY <1>1, <1>5, StateFacts, DimensionFacts DEF AbandonGraphReservation
  <2>2. \A x \in Charged : counts'[x] >= counts[x]
    BY <1>1, <2>1, StateFacts DEF Charged
  <2>3. WithinLimits(counts', reservedSteps', reservedTokens', excess')
    BY <1>5, <2>1, StateFacts, DimensionFacts DEF AbandonGraphReservation
  <2> QED
    BY <1>5, <2>1, <2>2, <2>3, StateFacts, ChargeStep DEF AbandonGraphReservation
<1>6. ASSUME ReleaseGraphReservation PROVE GuardInv'
  <2>1. \A x \in Charged : counts'[x] >= counts[x]
    BY <1>1, <1>6 DEF Charged, ReleaseGraphReservation
  <2> QED
    BY <1>6, <2>1, StateFacts, ChargeStep DEF ReleaseGraphReservation
<1>7. ASSUME RecordCacheLookup PROVE GuardInv'
  <2>1. counts["graph_steps"] + 1 + reservedSteps <= Active["graph_steps"]
    <3>1. CASE Active["graph_steps"] = 0
      BY <1>7, <3>1, StateFacts DEF RecordCacheLookup, Consume, HasCapacity
    <3>2. CASE Active["graph_steps"] # 0
      BY <1>7, <3>2, StateFacts, StandardBelowLimit DEF RecordCacheLookup, GuardInv
    <3> QED
      BY <3>1, <3>2
  <2> QED
    BY <1>7, <2>1, UnreservedStep DEF RecordCacheLookup
<1> QED
  BY <1>2, <1>3, <1>4, <1>5, <1>6, <1>7 DEF RecordGraphStep

LEMMA LlmCallsKeep ==
    ASSUME GuardInv, NEW id \in CallIds
    PROVE  /\ \A cap \in TokenCaps, class \in ActionClass : BeginLlmCall(id, cap, class) => GuardInv'
           /\ \A actual \in ActualTokens : CompleteLlmCall(id, actual) => GuardInv'
<1>1. \A x \in Counted : counts[x] \in Int
  BY StateFacts
<1>2. ASSUME NEW cap \in TokenCaps, NEW class \in ActionClass, BeginLlmCall(id, cap, class)
      PROVE  GuardInv'
  <2>1. cap \in Nat
    BY RequestAssumption
  <2>2. /\ counts' \in [Counted -> Int]
        /\ \A x \in Counted : counts'[x] = IF x = "llm_calls" THEN counts[x] + 1 ELSE counts[x]
    BY <1>1, <1>2, StateFacts, DimensionFacts DEF BeginLlmCall
  <2>3. \A x \in Charged : counts'[x] >= counts[x]
    BY <1>1, <2>2 DEF Charged
  <2>4. counts["total_tokens"] + reservedTokens + cap <= Active["total_tokens"]
    BY <1>2 DEF BeginLlmCall, HasCapacity
  <2>5. WithinLimits(counts', reservedSteps', reservedTokens', excess')
    BY <1>2, <2>1, <2>2, <2>4, StateFacts, DimensionFacts DEF WithinLimits, BeginLlmCall
  <2>6. /\ UNCHANGED <<policy, history, started, saved, reservedSteps, elapsed, excess>>
        /\ logicalActions' \in Int /\ reservedTokens' \in Int
        /\ llmReservations' \in [CallIds -> Nat]
    BY <1>2, <2>1, StateFacts DEF BeginLlmCall
  <2> QED
    BY <2>2, <2>3, <2>5, <2>6, StateFacts, ChargeStep
<1>3. ASSUME NEW actual \in ActualTokens, CompleteLlmCall(id, actual) PROVE GuardInv'
  <2>1. actual \in Nat /\ llmReservations[id] \in Nat
    BY RequestAssumption, StateFacts
  <2>2. /\ counts' \in [Counted -> Int]
        /\ \A x \in Counted : counts'[x] = IF x = "total_tokens" THEN counts[x] + actual ELSE counts[x]
    BY <1>1, <1>3, <2>1, StateFacts, DimensionFacts DEF CompleteLlmCall
  <2>3. \A x \in Charged : counts'[x] >= counts[x]
    BY <1>1, <2>1, <2>2 DEF Charged
  <2>4. /\ excess' \in Nat /\ excess' - excess >= actual - llmReservations[id]
        /\ excess' >= excess
        /\ reservedTokens' = reservedTokens - llmReservations[id]
    BY <1>3, <2>1, StateFacts DEF CompleteLlmCall
  <2>5. /\ UNCHANGED <<policy, history, started, saved, reservedSteps, elapsed, logicalActions>>
        /\ llmReservations' \in [CallIds -> Nat]
    BY <1>3, StateFacts DEF CompleteLlmCall, NoCall
  <2>6. WithinLimits(counts', reservedSteps', reservedTokens', excess')
    BY <2>1, <2>2, <2>4, <2>5, StateFacts, DimensionFacts DEF WithinLimits
  <2> QED
    BY <2>1, <2>2, <2>3, <2>4, <2>5, <2>6, StateFacts, ChargeStep
<1> QED
  BY <1>2, <1>3

LEMMA OtherCountsKeep ==
    ASSUME GuardInv
    PROVE  /\ RecordReview => GuardInv'
           /\ RecordCorrection => GuardInv'
           /\ \A w \in Workers : AcquireSlot(w) => GuardInv'
           /\ \A w \in holders : ReleaseSlot(w) => GuardInv'
           /\ \A i \in toolReservations : CompleteToolCall(i) => GuardInv'
           /\ \A t \in Clock : TimePasses(t) => GuardInv'
<1>1. ASSUME NEW d \in {"review_rounds", "correction_rounds"}, RecordRound(d) PROVE GuardInv'
  <2>1. /\ counts' = [counts EXCEPT ![d] = counts[d] + 1]
        /\ logicalActions' = logicalActions + 1
        /\ UNCHANGED <<policy, reservedSteps, reservedTokens, llmReservations, history,
                       started, elapsed, excess, saved>>
    BY <1>1 DEF RecordRound, Consume
  <2>2. logicalActions' \in Int /\ d \in Counted
    BY <2>1, StateFacts, DimensionFacts
  <2> QED
    BY <2>1, <2>2, CountOne
<1>2. ASSUME NEW w, NEW n \in {1, -1},
             counts' = [counts EXCEPT !["professional_concurrency"] =
                          counts["professional_concurrency"] + n],
             UNCHANGED <<policy, reservedSteps, reservedTokens, llmReservations, history,
                         started, logicalActions, elapsed, excess, saved>>
      PROVE  GuardInv'
  <2>1. "professional_concurrency" \in Counted /\ n \in Int /\ logicalActions' \in Int
    BY <1>2, StateFacts, DimensionFacts
  <2> QED
    BY <1>2, <2>1, CountStep
<1>3. ASSUME NEW w \in Workers, AcquireSlot(w) PROVE GuardInv'
  BY <1>2, <1>3 DEF AcquireSlot
<1>4. ASSUME NEW w \in holders, ReleaseSlot(w) PROVE GuardInv'
  <2>1. counts["professional_concurrency"] \in Int
    BY StateFacts, DimensionFacts
  <2>2. counts["professional_concurrency"] - 1 = counts["professional_concurrency"] + (-1)
    BY <2>1
  <2> QED
    BY <1>2, <1>4, <2>2 DEF ReleaseSlot
<1>5. \A x \in Counted : counts[x] \in Int
  BY StateFacts
<1>6. ASSUME elapsed' \in Nat, elapsed' >= elapsed,
             UNCHANGED <<policy, counts, reservedSteps, reservedTokens, llmReservations,
                         history, started, logicalActions, excess, saved>>
      PROVE  GuardInv'
  <2>1. \A x \in Charged : counts'[x] >= counts[x]
    BY <1>5, <1>6 DEF Charged
  <2>2. WithinLimits(counts', reservedSteps', reservedTokens', excess')
    BY <1>6, StateFacts DEF WithinLimits
  <2> QED
    BY <1>6, <2>1, <2>2, StateFacts, ChargeStep
<1>7. ASSUME NEW t \in Clock, TimePasses(t) PROVE GuardInv'
  <2>1. t \in Nat /\ elapsed' = t /\ t >= elapsed
    BY <1>7, RequestAssumption, StateFacts DEF TimePasses
  <2> QED
    BY <1>6, <1>7, <2>1 DEF TimePasses
<1>8. ASSUME NEW i \in toolReservations, CompleteToolCall(i) PROVE GuardInv'
  <2>1. elapsed' = elapsed /\ elapsed >= elapsed
    BY <1>8, StateFacts DEF CompleteToolCall
  <2> QED
    BY <1>6, <1>8, <2>1, StateFacts DEF CompleteToolCall
<1> QED
  BY <1>1, <1>3, <1>4, <1>7, <1>8 DEF RecordReview, RecordCorrection

-----------------------------------------------------------------------------
(* Tool calls, telemetry and restores.                                      *)

\* The end of a sequence is what LastCalls cuts off it.
LEMMA LastCallsEnd ==
    ASSUME NEW calls \in Seq(ToolCalls)
    PROVE  LastCalls(calls) \in Seq(ToolCalls) /\ EndOf(LastCalls(calls), calls)
<1> DEFINE m == IF Len(calls) > HistoryWindow THEN Len(calls) - HistoryWindow ELSE 0
<1>1. Len(calls) \in Nat /\ HistoryWindow \in Nat /\ HistoryWindow >= 1
  BY RequestAssumption
<1>2. m \in Nat /\ m <= Len(calls)
      /\ Len(calls) - m = IF Len(calls) > HistoryWindow THEN HistoryWindow ELSE Len(calls)
  BY <1>1
<1>3. LastCalls(calls) = SubSeq(calls, m + 1, Len(calls))
  BY DEF LastCalls
<1> HIDE DEF m
<1>4. /\ LastCalls(calls) \in Seq(ToolCalls)
      /\ Len(LastCalls(calls)) = Len(calls) - m
      /\ \A i \in 1..(Len(calls) - m) : LastCalls(calls)[i] = calls[m + i]
  BY <1>1, <1>2, <1>3
<1>5. \A i \in 1..(Len(calls) - m) : Len(calls) - (Len(calls) - m) + i = m + i
  BY <1>1, <1>2
<1> QED
  BY <1>2, <1>4, <1>5 DEF EndOf

\* Appending to the history and cutting keeps it the end of the trace.
LEMMA EndStays ==
    ASSUME NEW h \in Seq(ToolCalls), NEW calls \in Seq(ToolCalls), EndOf(h, calls),
           NEW x \in ToolCalls
    PROVE  EndOf(LastCalls(Append(h, x)), Append(calls, x))
<1> DEFINE g == Append(h, x)
           l == LastCalls(g)
           all == Append(calls, x)
<1>1. /\ g \in Seq(ToolCalls) /\ all \in Seq(ToolCalls)
      /\ Len(g) = Len(h) + 1 /\ Len(all) = Len(calls) + 1
      /\ Len(h) \in Nat /\ Len(calls) \in Nat
      /\ \A i \in 1..Len(h) : g[i] = h[i]
      /\ \A i \in 1..Len(calls) : all[i] = calls[i]
      /\ g[Len(h) + 1] = x /\ all[Len(calls) + 1] = x
  OBVIOUS
<1>2. l \in Seq(ToolCalls) /\ EndOf(l, g)
  BY <1>1, LastCallsEnd
<1> HIDE DEF g, l, all
<1>3. Len(l) \in Nat /\ HistoryWindow \in Nat /\ HistoryWindow >= 1
  BY <1>2, RequestAssumption
<1>4. /\ Len(l) = IF Len(g) > HistoryWindow THEN HistoryWindow ELSE Len(g)
      /\ Len(h) = IF Len(calls) > HistoryWindow THEN HistoryWindow ELSE Len(calls)
  BY <1>2 DEF EndOf
<1>5. Len(l) = IF Len(all) > HistoryWindow THEN HistoryWindow ELSE Len(all)
  BY <1>1, <1>3, <1>4
<1>6. ASSUME NEW i \in 1..Len(l) PROVE l[i] = all[Len(all) - Len(l) + i]
  <2>1. l[i] = g[Len(g) - Len(l) + i]
    BY <1>2 DEF EndOf
  <2> DEFINE k == Len(g) - Len(l) + i
  <2>2. k \in 1..Len(g) /\ Len(all) - Len(l) + i = Len(calls) - Len(h) + k
    <3>1. i \in Int /\ 1 <= i /\ i <= Len(l) /\ Len(l) <= Len(g)
      BY <1>1, <1>3, <1>4
    <3>2. /\ Len(g) = Len(h) + 1 /\ Len(all) = Len(calls) + 1
          /\ Len(h) \in Int /\ Len(calls) \in Int /\ Len(l) \in Int /\ Len(h) <= Len(calls)
      BY <1>1, <1>3, <1>4
    <3> QED
      BY <3>1, <3>2
  <2>6. /\ Len(h) \in Int /\ Len(calls) \in Int /\ Len(h) <= Len(calls)
    BY <1>1, <1>3, <1>4
  <2> HIDE DEF k
  <2>3. CASE k = Len(h) + 1
    <3>1. Len(calls) - Len(h) + k = Len(calls) + 1
      BY <2>3, <2>6
    <3> QED
      BY <1>1, <2>1, <2>2, <2>3, <3>1 DEF k
  <2>4. CASE k \in 1..Len(h)
    <3>1. g[k] = h[k] /\ h[k] = calls[Len(calls) - Len(h) + k]
      BY <1>1, <2>4 DEF EndOf
    <3>2. Len(calls) - Len(h) + k \in 1..Len(calls)
      BY <2>4, <2>6
    <3> QED
      BY <1>1, <2>1, <2>2, <3>1, <3>2 DEF k
  <2>5. k \in 1..Len(h) \/ k = Len(h) + 1
    BY <1>1, <2>2
  <2> QED
    BY <2>3, <2>4, <2>5
<1>7. EndOf(l, all)
  BY <1>5, <1>6 DEF EndOf
<1> QED
  BY <1>7 DEF l, g, all

LEMMA NewCallIsNoRepeat ==
    ASSUME NEW h \in Seq(ToolCalls), NEW calls \in Seq(ToolCalls), EndOf(h, calls),
           NEW x \in ToolCalls, \A i \in DOMAIN h : h[i] # x, NoRepeat(calls)
    PROVE  NoRepeat(Append(calls, x))
<1> DEFINE all == Append(calls, x)
<1>1. /\ all \in Seq(ToolCalls) /\ Len(all) = Len(calls) + 1
      /\ Len(h) \in Nat /\ Len(calls) \in Nat /\ DOMAIN h = 1..Len(h)
      /\ \A i \in 1..Len(calls) : all[i] = calls[i]
      /\ all[Len(calls) + 1] = x
      /\ HistoryWindow \in Nat
  BY RequestAssumption
<1> HIDE DEF all
<1>2. SUFFICES ASSUME NEW i \in 1..Len(all), NEW j \in 1..Len(all), i < j, all[i] = all[j]
               PROVE  j - i > HistoryWindow
  BY DEF NoRepeat, all
<1>3. i \in 1..Len(calls)
  BY <1>1, <1>2
<1>4. CASE j \in 1..Len(calls)
  BY <1>1, <1>2, <1>3, <1>4 DEF NoRepeat
<1>5. CASE j = Len(calls) + 1
  <2>1. calls[i] = x
    BY <1>1, <1>2, <1>3, <1>5
  <2> DEFINE k == i - (Len(calls) - Len(h))
  <2>2. k \notin 1..Len(h)
    <3> SUFFICES ASSUME k \in 1..Len(h) PROVE FALSE
      OBVIOUS
    <3>1. Len(calls) - Len(h) + k = i
      BY <1>1, <1>3
    <3>2. h[k] = calls[i]
      BY <3>1 DEF EndOf
    <3> QED
      BY <1>1, <2>1, <3>2
  <2>3. i <= Len(calls) - Len(h)
    BY <1>1, <1>3, <2>2
  <2>4. Len(h) = HistoryWindow
    BY <1>1, <1>3, <2>3 DEF EndOf
  <2> QED
    BY <1>1, <1>3, <1>5, <2>3, <2>4
<1> QED
  BY <1>1, <1>2, <1>4, <1>5

LEMMA BeginToolCallKeeps ==
    ASSUME GuardInv, NEW call \in ToolCalls, NEW class \in ActionClass,
           BeginToolCall(call, class)
    PROVE  GuardInv'
<1>1. /\ started' = Append(started, call)
      /\ history' = LastCalls(Append(history, call))
      /\ counts' = [counts EXCEPT !["tool_calls"] = @ + 1]
      /\ logicalActions' = logicalActions + 1
      /\ UNCHANGED <<policy, reservedSteps, reservedTokens, llmReservations, elapsed, excess, saved>>
      /\ \A i \in DOMAIN history : history[i] # call
  BY DEF BeginToolCall
<1>2. history \in Seq(ToolCalls) /\ started \in Seq(ToolCalls) /\ EndOf(history, started)
      /\ NoRepeat(started)
  BY DEF GuardInv, ShapeInv, HistoryInv
<1>3. Append(history, call) \in Seq(ToolCalls) /\ started' \in Seq(ToolCalls)
  BY <1>1, <1>2
<1>4. history' \in Seq(ToolCalls)
  BY <1>1, <1>3, LastCallsEnd
<1>5. HistoryInv'
  BY <1>1, <1>2, EndStays, NewCallIsNoRepeat DEF GuardInv, HistoryInv
<1>6. \A x \in Counted : counts[x] \in Int
  BY StateFacts
<1>7. /\ counts' \in [Counted -> Int]
      /\ \A x \in Counted : counts'[x] = IF x = "tool_calls" THEN counts[x] + 1 ELSE counts[x]
  BY <1>1, <1>6, StateFacts, DimensionFacts
<1>8. ShapeInv'
  BY <1>1, <1>3, <1>4, <1>7, StateFacts DEF GuardInv, ShapeInv
<1>9. LimitInv'
  <2>1. counts'["graph_steps"] = counts["graph_steps"] /\ counts'["total_tokens"] = counts["total_tokens"]
    BY <1>7, DimensionFacts
  <2> QED
    BY <1>1, <2>1 DEF GuardInv, LimitInv, WithinLimits, Active
<1>10. DurableInv'
  <2>1. \A d \in Charged : counts[d] \in Int /\ saved.counts[d] \in Int
    BY DEF GuardInv, ShapeInv, SavedType, Charged
  <2> QED
    BY <1>1, <1>7, <2>1 DEF GuardInv, DurableInv, Charged
<1> QED
  BY <1>5, <1>8, <1>9, <1>10 DEF GuardInv

LEMMA PersistKeeps ==
    ASSUME GuardInv, Persist
    PROVE  GuardInv'
<1>1. /\ UNCHANGED <<policy, counts, reservedSteps, reservedTokens, llmReservations, history,
                     started, logicalActions, elapsed, excess>>
      /\ saved' = Telemetry
  BY DEF Persist, guard
<1>2. /\ saved'.counts = counts /\ saved'.reservedSteps = reservedSteps
      /\ saved'.reservedTokens = reservedTokens /\ saved'.started = started
      /\ saved'.excess = excess /\ saved'.elapsed = elapsed
  BY <1>1 DEF Telemetry
<1>3. saved' \in SavedType
  BY <1>1 DEF Telemetry, SavedType, GuardInv, ShapeInv
<1>4. ShapeInv'
  BY <1>1, <1>3 DEF GuardInv, ShapeInv
<1>5. LimitInv'
  BY <1>1, <1>2 DEF GuardInv, LimitInv, WithinLimits, Active
<1>6. DurableInv'
  <2>1. \A d \in Charged : counts[d] \in Int /\ saved.counts[d] \in Int
    BY DEF GuardInv, ShapeInv, SavedType, Charged
  <2> QED
    BY <1>1, <1>2, <2>1, StateFacts DEF GuardInv, DurableInv
<1>7. HistoryInv'
  BY <1>1, <1>2 DEF GuardInv, HistoryInv
<1> QED
  BY <1>4, <1>5, <1>6, <1>7 DEF GuardInv

LEMMA RestoreKeeps ==
    ASSUME GuardInv, Restore
    PROVE  GuardInv'
<1>1. /\ UNCHANGED <<policy, saved>>
      /\ counts' = saved.counts /\ reservedSteps' = saved.reservedSteps
      /\ reservedTokens' = 0 /\ saved.reservedTokens = 0
      /\ llmReservations' = [id \in CallIds |-> NoCall]
      /\ started' = saved.started /\ elapsed' = saved.elapsed /\ excess' = saved.excess
      /\ logicalActions' = saved.logicalActions
      /\ history' = LastCalls(saved.started)
  BY DEF Restore, RestoreCounters
<1>2. /\ saved.started \in Seq(ToolCalls) /\ saved.counts \in [Counted -> Int]
      /\ saved.reservedSteps \in Nat /\ saved.elapsed \in Nat /\ saved.excess \in Nat
      /\ saved.logicalActions \in Int
  BY DEF GuardInv, ShapeInv, SavedType
<1>3. LastCalls(saved.started) \in Seq(ToolCalls) /\ EndOf(LastCalls(saved.started), saved.started)
  BY <1>2, LastCallsEnd
<1>4. llmReservations' \in [CallIds -> Nat]
  BY <1>1 DEF NoCall
<1>5. ShapeInv'
  BY <1>1, <1>2, <1>3, <1>4 DEF GuardInv, ShapeInv
<1>6. LimitInv'
  BY <1>1 DEF GuardInv, LimitInv, WithinLimits, Active
<1>7. DurableInv'
  BY <1>1, <1>2 DEF GuardInv, DurableInv, Charged
<1>8. HistoryInv'
  BY <1>1, <1>3 DEF GuardInv, HistoryInv
<1> QED
  BY <1>5, <1>6, <1>7, <1>8 DEF GuardInv

-----------------------------------------------------------------------------
(* The theorems.                                                            *)

LEMMA StepKeeps == GuardInv /\ [Next]_vars => GuardInv'
<1> SUFFICES ASSUME GuardInv, [Next]_vars PROVE GuardInv'
  OBVIOUS
<1>1. CASE UNCHANGED vars
  BY <1>1 DEF vars, GuardInv, ShapeInv, LimitInv, WithinLimits, Active, DurableInv, HistoryInv
<1>2. CASE \E id \in CallIds, cap \in TokenCaps, class \in ActionClass : BeginLlmCall(id, cap, class)
  BY <1>2, LlmCallsKeep
<1>3. CASE \E id \in CallIds, actual \in ActualTokens : CompleteLlmCall(id, actual)
  BY <1>3, LlmCallsKeep
<1>4. CASE \E call \in ToolCalls, class \in ActionClass : BeginToolCall(call, class)
  BY <1>4, BeginToolCallKeeps
<1> QED
  BY <1>1, <1>2, <1>3, <1>4, GraphStepsKeep, OtherCountsKeep, PersistKeeps, RestoreKeeps DEF Next

\* The invariant of the guard holds of every reachable state.
THEOREM InvariantHolds == Spec => []GuardInv
BY InitKeeps, StepKeeps, PTL DEF Spec

\* Beginning a call adds its reservation to the sum, completing it in whatever
\* order takes away just that one, and a restored guard starts from nothing.
LEMMA TokensAddUp == GuardInv /\ TokenInv /\ [Next]_vars => TokenInv'
<1> SUFFICES ASSUME GuardInv, TokenInv, [Next]_vars PROVE TokenInv'
  OBVIOUS
<1>1. IsFiniteSet(CallIds) /\ NoCall = 0 /\ NoCall \in Int
  BY RequestAssumption DEF NoCall
<1>2. llmReservations \in [CallIds -> Int] /\ reservedTokens \in Int
  BY StateFacts
<1>3. ASSUME NEW id \in CallIds, NEW cap \in TokenCaps, NEW class \in ActionClass,
             BeginLlmCall(id, cap, class)
      PROVE  TokenInv'
  <2>1. /\ llmReservations' = [llmReservations EXCEPT ![id] = cap]
        /\ reservedTokens' = reservedTokens + cap /\ llmReservations[id] = 0
    BY <1>3 DEF BeginLlmCall, NoCall
  <2>2. cap \in Int
    BY RequestAssumption
  <2>3. /\ SumFunction(llmReservations) \in Int
        /\ SumFunction(llmReservations') = SumFunction(llmReservations) - llmReservations[id] + cap
    BY <1>1, <1>2, <2>1, <2>2, SumUpdated
  <2> QED  BY <2>1, <2>2, <2>3 DEF TokenInv
<1>4. ASSUME NEW id \in CallIds, NEW actual \in ActualTokens, CompleteLlmCall(id, actual)
      PROVE  TokenInv'
  <2>1. /\ llmReservations' = [llmReservations EXCEPT ![id] = NoCall]
        /\ reservedTokens' = reservedTokens - llmReservations[id]
    BY <1>4 DEF CompleteLlmCall
  <2>2. /\ SumFunction(llmReservations) \in Int
        /\ SumFunction(llmReservations') = SumFunction(llmReservations) - llmReservations[id] + NoCall
    BY <1>1, <1>2, <2>1, SumUpdated
  <2> QED  BY <1>1, <1>2, <2>1, <2>2 DEF TokenInv
<1>5. ASSUME Restore PROVE TokenInv'
  <2>1. llmReservations' = [id \in CallIds |-> 0] /\ reservedTokens' = 0
    BY <1>5 DEF Restore, RestoreCounters, NoCall
  <2> QED  BY <1>1, <2>1, SumOfZeros DEF TokenInv
<1>6. CASE UNCHANGED <<reservedTokens, llmReservations>>
  BY <1>6 DEF TokenInv
<1> QED
  BY <1>3, <1>4, <1>5, <1>6 DEF Next, vars, guard, RecordGraphStep, ConsumeReservedStep,
     RecordUnreservedStep, ReserveGraphSteps, AbandonGraphReservation, ReleaseGraphReservation,
     RecordCacheLookup, BeginToolCall, CompleteToolCall, RecordReview, RecordCorrection,
     RecordRound, AcquireSlot, ReleaseSlot, TimePasses, Persist

\* Steps and tokens, charged and reserved together, stay within the active limits in
\* whatever order steps are reserved, consumed, released or looked up, and whatever
\* providers report; the tokens reserved are those of the outstanding calls (budget.py,
\* _ensure_capacity, begin_llm_call and complete_llm_call).
THEOREM LimitsHold == Spec => []UsageWithinActive
<1>1. Init => TokenInv
  BY RequestAssumption, SumOfZeros DEF Init, TokenInv, NoCall
<1>2. GuardInv /\ TokenInv => UsageWithinActive
  BY DEF GuardInv, TokenInv, LimitInv, WithinLimits, UsageWithinActive, GraphStepsWithinActive,
     TokensWithinActive
<1> QED
  BY <1>1, <1>2, InvariantHolds, TokensAddUp, PTL DEF Spec

\* The counters that are charged one at a time, in the guard and in its telemetry,
\* and the slots.
CountInv ==
    /\ \A d \in Single : counts[d] <= Active[d] /\ saved.counts[d] <= Active[d]
    /\ IsFiniteSet(holders)
    /\ counts["professional_concurrency"] = Cardinality(holders)
    /\ counts["professional_concurrency"] <= Active["professional_concurrency"]

LEMMA CountInit == GuardInv /\ Init => CountInv
<1> SUFFICES ASSUME GuardInv, Init PROVE CountInv
  OBVIOUS
<1>1. \A d \in Counted : Active[d] \in Nat
  BY PolicyFacts, DimensionFacts DEF GuardInv
<1>2. \A d \in Counted : counts[d] = 0 /\ saved.counts[d] = 0
  BY DEF Init, Telemetry
<1>3. IsFiniteSet(holders) /\ Cardinality(holders) = 0
  BY FS_EmptySet DEF Init
<1> QED  BY <1>1, <1>2, <1>3, DimensionFacts DEF CountInv, Single

\* Charging one to a counter is checked against its limit.
LEMMA OneMore ==
    ASSUME GuardInv, CountInv, NEW d \in Counted, HasCapacity(d, counts[d], 1),
           counts' = [counts EXCEPT ![d] = @ + 1], d # "professional_concurrency",
           UNCHANGED <<policy, saved, holders>>
    PROVE  CountInv'
<1>1. counts \in [Counted -> Int]
  BY DEF GuardInv, ShapeInv
<1>2. \A c \in Counted : counts'[c] = IF c = d THEN counts[c] + 1 ELSE counts[c]
  BY <1>1
<1>3. counts[d] + 1 <= Active[d]
  BY DEF HasCapacity
<1>4. Single \subseteq Counted /\ "professional_concurrency" \in Counted
  BY DimensionFacts DEF Single
<1> QED  BY <1>2, <1>3, <1>4 DEF CountInv, Active

\* A coroutine that enters professional_slot has none, and one that leaves has one.
LEMMA SlotsKeep ==
    ASSUME GuardInv, CountInv,
           (\E w \in Workers : AcquireSlot(w)) \/ (\E w \in holders : ReleaseSlot(w))
    PROVE  CountInv'
<1> DEFINE pc == "professional_concurrency"
<1>1. counts \in [Counted -> Int] /\ pc \in Counted /\ pc \notin Single /\ Single \subseteq Counted
  BY DimensionFacts DEF GuardInv, ShapeInv, Single
<1>2. Cardinality(holders) \in Nat
  BY FS_CardinalityType DEF CountInv
<1>3. Active[pc] \in Nat
  BY PolicyFacts, DimensionFacts DEF GuardInv
<1>4. CASE \E w \in Workers : AcquireSlot(w)
  <2>1. PICK w \in Workers : AcquireSlot(w)
    BY <1>4
  <2>2. IsFiniteSet(holders') /\ Cardinality(holders') = Cardinality(holders) + 1
    BY <2>1, FS_AddElement DEF AcquireSlot, CountInv
  <2>3. \A d \in Counted : counts'[d] = IF d = pc THEN counts[pc] + 1 ELSE counts[d]
    BY <1>1, <2>1 DEF AcquireSlot
  <2>4. counts[pc] + 1 <= Active[pc] /\ UNCHANGED <<policy, saved>>
    BY <2>1 DEF AcquireSlot, HasCapacity
  <2> QED  BY <1>1, <2>2, <2>3, <2>4 DEF CountInv, Active
<1>5. CASE \E w \in holders : ReleaseSlot(w)
  <2>1. PICK w \in holders : ReleaseSlot(w)
    BY <1>5
  <2>2. IsFiniteSet(holders') /\ Cardinality(holders') = Cardinality(holders) - 1
    BY <2>1, FS_RemoveElement DEF ReleaseSlot, CountInv
  <2>3. \A d \in Counted : counts'[d] = IF d = pc THEN counts[pc] - 1 ELSE counts[d]
    BY <1>1, <2>1 DEF ReleaseSlot
  <2>4. UNCHANGED <<policy, saved>>
    BY <2>1 DEF ReleaseSlot
  <2> QED  BY <1>1, <1>2, <1>3, <2>2, <2>3, <2>4 DEF CountInv, Active
<1> QED  BY <1>4, <1>5

\* Steps and tokens have limits of their own.
LEMMA OthersKeep ==
    ASSUME CountInv, UNCHANGED <<policy, saved, holders>>,
           \A d \in Single \cup {"professional_concurrency"} : counts'[d] = counts[d]
    PROVE  CountInv'
BY DEF CountInv, Active

LEMMA CountKeeps == GuardInv /\ CountInv /\ [Next]_vars => CountInv'
<1> SUFFICES ASSUME GuardInv, CountInv, [Next]_vars PROVE CountInv'
  OBVIOUS
<1>1. /\ counts \in [Counted -> Int] /\ Single \subseteq Counted
      /\ "professional_concurrency" \in Counted
      /\ \A d \in {"graph_steps", "total_tokens"} :
            d \in Counted /\ d \notin Single \cup {"professional_concurrency"}
      /\ \A d \in {"llm_calls", "tool_calls", "review_rounds", "correction_rounds"} : d \in Counted
  BY DimensionFacts DEF GuardInv, ShapeInv, Single
<1>2. ASSUME NEW d \in {"graph_steps", "total_tokens"}, NEW n,
             counts' = [counts EXCEPT ![d] = n], UNCHANGED <<policy, saved, holders>>
      PROVE  CountInv'
  BY <1>1, <1>2, OthersKeep
<1>3. ASSUME NEW class \in ActionClass, RecordGraphStep(class) PROVE CountInv'
  BY <1>2, <1>3 DEF RecordGraphStep, ConsumeReservedStep, RecordUnreservedStep, Consume
<1>4. CASE AbandonGraphReservation
  BY <1>2, <1>4 DEF AbandonGraphReservation
<1>5. CASE RecordCacheLookup
  BY <1>2, <1>5 DEF RecordCacheLookup, Consume
<1>6. ASSUME NEW id \in CallIds, NEW cap \in TokenCaps, NEW class \in ActionClass,
             BeginLlmCall(id, cap, class)
      PROVE  CountInv'
  BY <1>1, <1>6, OneMore DEF BeginLlmCall
<1>7. ASSUME NEW id \in CallIds, NEW actual \in ActualTokens, CompleteLlmCall(id, actual)
      PROVE  CountInv'
  BY <1>2, <1>7 DEF CompleteLlmCall
<1>8. ASSUME NEW call \in ToolCalls, NEW class \in ActionClass, BeginToolCall(call, class)
      PROVE  CountInv'
  BY <1>1, <1>8, OneMore DEF BeginToolCall
<1>9. CASE RecordReview \/ RecordCorrection
  BY <1>1, <1>9, OneMore DEF RecordReview, RecordCorrection, RecordRound, Consume
<1>10. CASE Persist
  <2>1. saved'.counts = counts /\ UNCHANGED <<policy, counts, holders>>
    BY <1>10 DEF Persist, Telemetry, guard
  <2> QED  BY <2>1 DEF CountInv, Active
<1>11. CASE Restore
  <2>1. /\ counts' = saved.counts /\ saved.counts["professional_concurrency"] = 0
        /\ holders' = {} /\ UNCHANGED <<policy, saved>>
    BY <1>11 DEF Restore, RestoreCounters
  <2>2. IsFiniteSet(holders') /\ Cardinality(holders') = 0
    BY <2>1, FS_EmptySet
  <2>3. Active["professional_concurrency"] \in Nat
    BY PolicyFacts, DimensionFacts DEF GuardInv
  <2> QED  BY <2>1, <2>2, <2>3 DEF CountInv, Active
<1>12. CASE UNCHANGED <<policy, counts, saved, holders>>
  BY <1>12, OthersKeep
<1> QED
  BY <1>3, <1>4, <1>5, <1>6, <1>7, <1>8, <1>9, <1>10, <1>11, <1>12, SlotsKeep
     DEF Next, vars, ReserveGraphSteps, ReleaseGraphReservation, CompleteToolCall, TimePasses

\* No restore, denial or interleaving of slots lets a counter pass its active limit
\* or leaves a slot counted that nobody holds (budget.py, _consume, professional_slot
\* and from_telemetry).
THEOREM CountersHold == Spec => []CountersWithinActive
<1>1. GuardInv /\ CountInv => CountersWithinActive
  <2> SUFFICES ASSUME GuardInv, CountInv PROVE CountersWithinActive
    OBVIOUS
  <2>1. counts["graph_steps"] <= Active["graph_steps"]
    <3>1. counts["graph_steps"] + reservedSteps <= Active["graph_steps"]
      BY DEF GuardInv, LimitInv, WithinLimits
    <3>2. /\ counts["graph_steps"] \in Int /\ reservedSteps \in Nat
          /\ Active["graph_steps"] \in Int
      BY PolicyFacts, DimensionFacts DEF GuardInv, ShapeInv
    <3> QED  BY <3>1, <3>2
  <2>2. \A d \in Counted \ {"total_tokens"} :
           d \in Single \/ d \in {"professional_concurrency", "graph_steps"}
    BY DimensionFacts DEF Single
  <2> QED  BY <2>1, <2>2 DEF CountInv, CountersWithinActive
<1> QED
  BY <1>1, CountInit, CountKeeps, InvariantHolds, PTL DEF Spec

\* Two identical tool calls against one observation are more than a window apart,
\* across any number of restores (budget.py, begin_tool_call and from_telemetry).
THEOREM NoRepetition == Spec => []NoRecentRepeat
<1>1. GuardInv => NoRecentRepeat
  <2> SUFFICES ASSUME GuardInv PROVE NoRecentRepeat
    OBVIOUS
  <2>1. DOMAIN started = 1..Len(started)
    BY DEF GuardInv, ShapeInv
  <2> QED
    BY <2>1 DEF GuardInv, HistoryInv, NoRepeat, NoRecentRepeat
<1> QED
  BY <1>1, InvariantHolds, PTL

\* Restoring a guard never resets what an earlier telemetry has charged (budget.py,
\* from_telemetry).
THEOREM DurableUsage == Spec => DurableUsageNeverDecreases
<1> DEFINE Grows == /\ \A d \in Counted \ {"professional_concurrency"} :
                          saved'.counts[d] >= saved.counts[d]
                    /\ saved'.elapsed >= saved.elapsed
<1>1. GuardInv /\ [Next]_vars => [Grows]_vars
  <2> SUFFICES ASSUME GuardInv, [Next]_vars PROVE Grows
    OBVIOUS
  <2>1. (\A d \in Charged : saved.counts[d] \in Int) /\ saved.elapsed \in Int
    BY DEF GuardInv, ShapeInv, SavedType, Charged
  <2>2. CASE saved' = saved
    BY <2>1, <2>2 DEF Charged
  <2>3. CASE Persist
    BY <2>3 DEF Persist, Telemetry, GuardInv, DurableInv, Charged
  <2>4. [Next]_vars => saved' = saved \/ Persist
    BY DEF Next, vars, RecordGraphStep, ConsumeReservedStep, RecordUnreservedStep,
       ReserveGraphSteps, AbandonGraphReservation, ReleaseGraphReservation, RecordCacheLookup,
       BeginLlmCall, CompleteLlmCall, BeginToolCall, CompleteToolCall, RecordReview,
       RecordCorrection, RecordRound, AcquireSlot, ReleaseSlot, TimePasses, Restore,
       RestoreCounters
  <2> QED
    BY <2>2, <2>3, <2>4
<1> QED
  BY <1>1, InvariantHolds, PTL DEF Spec, DurableUsageNeverDecreases
=============================================================================
