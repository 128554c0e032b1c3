---------------------------- MODULE BudgetGuard ----------------------------
(***************************************************************************)
(* BudgetGuard (orchestration/budget.py): the single runtime authority for  *)
(* one budget policy.  Every operation is synchronous, so each one is a     *)
(* single action; callers (concurrent children, model and tool adapters,    *)
(* the recovery runtime) interleave between operations.                     *)
(*                                                                          *)
(* A denied operation raises BudgetExceeded and appends one trace event but *)
(* changes no counter, so a denial is the action being disabled.  Counters  *)
(* that no decision reads (retries, failures, cache hits, terminal          *)
(* transitions, peak concurrency) are left out.  Of the trace events only   *)
(* "tool_call_started" is kept: from_telemetry rebuilds the repetition      *)
(* history from those.                                                      *)
(***************************************************************************)
EXTENDS Integers, Sequences, FiniteSets, Functions

CONSTANTS
    Policies,         \* the budget policies: Limit.active and Limit.hard per dimension
    Workers,          \* coroutines that may hold a professional slot
    CallIds,          \* identities of LLM reservations
    ToolCalls,        \* pairs of a tool-call signature and an observation hash
    TokenCaps,        \* maximum_total_tokens values the adapters ask for
    ActualTokens,     \* token totals the providers report back
    Attempts,         \* amounts reserve_graph_steps is called with
    HistoryWindow,    \* length of the repetition history (10 in the code)
    Clock             \* elapsed-time readings that are told apart

NoCall == 0           \* llmReservations[id] when id is not outstanding

Dimension == {"graph_steps", "llm_calls", "tool_calls", "total_tokens",
              "wall_time_ms", "professional_concurrency", "review_rounds",
              "correction_rounds"}

Counted == Dimension \ {"wall_time_ms"}

\* Dimensions whose utilisation selects the degradation stage.
Rated == Dimension \ {"professional_concurrency"}

ActionClass == {"LOW_VALUE", "QUERY_EXPANSION", "STANDARD", "VALIDATION",
                "FINALIZATION"}

ASSUME PolicyAssumption ==
    /\ Policies \subseteq [active : [Dimension -> Nat], hard : [Dimension -> Nat]]
    /\ \A p \in Policies, d \in Dimension : p.active[d] <= p.hard[d]

ASSUME RequestAssumption ==
    /\ TokenCaps \subseteq Nat \ {0}
    /\ ActualTokens \subseteq Nat
    /\ Attempts \subseteq Nat \ {0}
    /\ HistoryWindow \in Nat \ {0}
    /\ Clock \subseteq Nat
    /\ 0 \in Clock
    /\ IsFiniteSet(CallIds)

VARIABLES
    policy,           \* policy, chosen with the guard and never replaced
    counts,           \* _counts
    reservedSteps,    \* _reserved_graph_steps
    reservedTokens,   \* _reserved_tokens
    llmReservations,  \* _llm_reservations
    toolReservations, \* _tool_reservations: positions of the calls in started
    history,          \* _action_history
    started,          \* the tool_call_started events of _events
    logicalActions,   \* _logical_actions
    elapsed,          \* _elapsed_ms()
    holders,          \* coroutines inside professional_slot
    excess,           \* tokens reported above their reservation, in total
    saved             \* the telemetry last persisted by a caller

guard == <<policy, counts, reservedSteps, reservedTokens, llmReservations,
           toolReservations, history, started, logicalActions, elapsed,
           holders, excess>>
vars == <<policy, counts, reservedSteps, reservedTokens, llmReservations,
          toolReservations, history, started, logicalActions, elapsed,
          holders, excess, saved>>

-----------------------------------------------------------------------------
(* Limits, time and degradation.                                            *)

Active == policy.active

Hard == policy.hard

TimeLeft == elapsed < Hard["wall_time_ms"] /\ elapsed < Active["wall_time_ms"]

HasCapacity(d, current, amount) ==
    current + amount <= Hard[d] /\ current + amount <= Active[d]

Used(d) ==
    CASE d = "wall_time_ms" -> elapsed
      [] d = "total_tokens" -> counts[d] + reservedTokens
      [] d = "graph_steps"  -> counts[d] + reservedSteps
      [] OTHER              -> counts[d]

\* Utilisation of some dimension with a non-zero active limit is pct or more.
AtLeast(pct) == \E d \in Rated : Active[d] # 0 /\ Used(d) * 100 >= pct * Active[d]

DegradationStage ==
    IF AtLeast(100) THEN "STOPPED"
    ELSE IF AtLeast(95) THEN "FINALIZE_ONLY"
    ELSE IF AtLeast(85) THEN "STOP_EXPANSION"
    ELSE IF AtLeast(70) THEN "REDUCE_LOW_VALUE"
    ELSE "NORMAL"

DeniedClasses ==
    CASE DegradationStage \in {"STOPPED", "FINALIZE_ONLY"} ->
            ActionClass \ {"VALIDATION", "FINALIZATION"}
      [] DegradationStage = "STOP_EXPANSION" -> {"LOW_VALUE", "QUERY_EXPANSION"}
      [] DegradationStage = "REDUCE_LOW_VALUE" -> {"LOW_VALUE"}
      [] OTHER -> {}

Authorized(class) == TimeLeft /\ class \notin DeniedClasses

Consume(d, amount) ==
    /\ HasCapacity(d, counts[d], amount)
    /\ counts' = [counts EXCEPT ![d] = @ + amount]
    /\ logicalActions' = logicalActions + 1

LastCalls(calls) ==
    SubSeq(calls, (IF Len(calls) > HistoryWindow
                   THEN Len(calls) - HistoryWindow ELSE 0) + 1, Len(calls))

Telemetry ==
    [counts |-> counts, reservedSteps |-> reservedSteps,
     reservedTokens |-> reservedTokens, started |-> started,
     logicalActions |-> logicalActions, elapsed |-> elapsed, excess |-> excess]

Init ==
    /\ policy \in Policies
    /\ counts = [d \in Counted |-> 0]
    /\ reservedSteps = 0
    /\ reservedTokens = 0
    /\ llmReservations = [id \in CallIds |-> NoCall]
    /\ toolReservations = {}
    /\ history = <<>>
    /\ started = <<>>
    /\ logicalActions = 0
    /\ elapsed = 0
    /\ holders = {}
    /\ excess = 0
    /\ saved = Telemetry

-----------------------------------------------------------------------------
(* Graph steps.                                                             *)

\* A reserved step is paid from the reservation and only the clock is checked.
ConsumeReservedStep ==
    /\ reservedSteps > 0
    /\ TimeLeft
    /\ reservedSteps' = reservedSteps - 1
    /\ counts' = [counts EXCEPT !["graph_steps"] = @ + 1]
    /\ logicalActions' = logicalActions + 1
    /\ UNCHANGED <<policy, reservedTokens, llmReservations, toolReservations,
                   history, started, elapsed, holders, excess, saved>>

RecordUnreservedStep(class) ==
    /\ reservedSteps = 0
    /\ Authorized(class)
    /\ Consume("graph_steps", 1)
    /\ UNCHANGED <<policy, reservedSteps, reservedTokens, llmReservations,
                   toolReservations, history, started, elapsed, holders,
                   excess, saved>>

RecordGraphStep(class) == ConsumeReservedStep \/ RecordUnreservedStep(class)

ReserveGraphSteps(amount) ==
    /\ TimeLeft
    /\ HasCapacity("graph_steps", counts["graph_steps"] + reservedSteps, amount)
    /\ Authorized("STANDARD")
    /\ reservedSteps' = reservedSteps + amount
    /\ UNCHANGED <<policy, counts, reservedTokens, llmReservations,
                   toolReservations, history, started, logicalActions, elapsed,
                   holders, excess, saved>>

AbandonGraphReservation ==
    /\ reservedSteps > 0
    /\ counts' = [counts EXCEPT !["graph_steps"] = @ + reservedSteps]
    /\ reservedSteps' = 0
    /\ logicalActions' = logicalActions + reservedSteps
    /\ UNCHANGED <<policy, reservedTokens, llmReservations, toolReservations,
                   history, started, elapsed, holders, excess, saved>>

ReleaseGraphReservation ==
    /\ reservedSteps > 0
    /\ reservedSteps' = 0
    /\ UNCHANGED <<policy, counts, reservedTokens, llmReservations,
                   toolReservations, history, started, logicalActions, elapsed,
                   holders, excess, saved>>

\* The capacity test ignores reserved steps; the authorisation counts them.
RecordCacheLookup ==
    /\ Authorized("STANDARD")
    /\ Consume("graph_steps", 1)
    /\ UNCHANGED <<policy, reservedSteps, reservedTokens, llmReservations,
                   toolReservations, history, started, elapsed, holders,
                   excess, saved>>

-----------------------------------------------------------------------------
(* LLM and tool calls.                                                      *)

\* Mutant: outstanding token reservations are not part of the projection.
BeginLlmIgnoringOutstanding(id, cap, class) ==
    /\ llmReservations[id] = NoCall
    /\ HasCapacity("llm_calls", counts["llm_calls"], 1)
    /\ HasCapacity("total_tokens", counts["total_tokens"], cap)
    /\ Authorized(class)
    /\ counts' = [counts EXCEPT !["llm_calls"] = @ + 1]
    /\ logicalActions' = logicalActions + 1
    /\ llmReservations' = [llmReservations EXCEPT ![id] = cap]
    /\ reservedTokens' = reservedTokens + cap
    /\ UNCHANGED <<policy, reservedSteps, toolReservations, history, started,
                   elapsed, holders, excess, saved>>

BeginLlmCall(id, cap, class) ==
    /\ llmReservations[id] = NoCall
    /\ HasCapacity("llm_calls", counts["llm_calls"], 1)
    /\ HasCapacity("total_tokens", counts["total_tokens"] + reservedTokens, cap)
    /\ Authorized(class)
    /\ counts' = [counts EXCEPT !["llm_calls"] = @ + 1]
    /\ logicalActions' = logicalActions + 1
    /\ llmReservations' = [llmReservations EXCEPT ![id] = cap]
    /\ reservedTokens' = reservedTokens + cap
    /\ UNCHANGED <<policy, reservedSteps, toolReservations, history, started,
                   elapsed, holders, excess, saved>>

\* The actual usage is charged even when it exceeds the reservation and the
\* caller gets BudgetExceeded.
CompleteLlmCall(id, actual) ==
    /\ llmReservations[id] # NoCall
    /\ llmReservations' = [llmReservations EXCEPT ![id] = NoCall]
    /\ reservedTokens' = reservedTokens - llmReservations[id]
    /\ counts' = [counts EXCEPT !["total_tokens"] = @ + actual]
    /\ excess' = IF actual > llmReservations[id]
                 THEN excess + (actual - llmReservations[id]) ELSE excess
    /\ UNCHANGED <<policy, reservedSteps, toolReservations, history, started,
                   logicalActions, elapsed, holders, saved>>

BeginToolCall(call, class) ==
    /\ \A i \in DOMAIN history : history[i] # call
    /\ HasCapacity("tool_calls", counts["tool_calls"], 1)
    /\ Authorized(class)
    /\ counts' = [counts EXCEPT !["tool_calls"] = @ + 1]
    /\ logicalActions' = logicalActions + 1
    /\ started' = Append(started, call)
    /\ history' = LastCalls(Append(history, call))
    /\ toolReservations' = toolReservations \cup {Len(started) + 1}
    /\ UNCHANGED <<policy, reservedSteps, reservedTokens, llmReservations,
                   elapsed, holders, excess, saved>>

CompleteToolCall(i) ==
    /\ toolReservations' = toolReservations \ {i}
    /\ UNCHANGED <<policy, counts, reservedSteps, reservedTokens,
                   llmReservations, history, started, logicalActions, elapsed,
                   holders, excess, saved>>

-----------------------------------------------------------------------------
(* Review rounds, professional slots, time, and restore.                    *)

RecordRound(d) ==
    /\ Authorized("VALIDATION")
    /\ Consume(d, 1)
    /\ UNCHANGED <<policy, reservedSteps, reservedTokens, llmReservations,
                   toolReservations, history, started, elapsed, holders,
                   excess, saved>>

RecordReview == RecordRound("review_rounds")

RecordCorrection == RecordRound("correction_rounds")

AcquireSlot(w) ==
    /\ w \notin holders
    /\ TimeLeft
    /\ HasCapacity("professional_concurrency",
                   counts["professional_concurrency"], 1)
    /\ counts' = [counts EXCEPT !["professional_concurrency"] = @ + 1]
    /\ holders' = holders \cup {w}
    /\ UNCHANGED <<policy, reservedSteps, reservedTokens, llmReservations,
                   toolReservations, history, started, logicalActions, elapsed,
                   excess, saved>>

ReleaseSlot(w) ==
    /\ counts' = [counts EXCEPT !["professional_concurrency"] = @ - 1]
    /\ holders' = holders \ {w}
    /\ UNCHANGED <<policy, reservedSteps, reservedTokens, llmReservations,
                   toolReservations, history, started, logicalActions, elapsed,
                   excess, saved>>

TimePasses(t) ==
    /\ t > elapsed
    /\ elapsed' = t
    /\ UNCHANGED <<policy, counts, reservedSteps, reservedTokens,
                   llmReservations, toolReservations, history, started,
                   logicalActions, holders, excess, saved>>

\* A caller persists telemetry() (a checkpoint of the recovery runtimes).
Persist == saved # Telemetry /\ saved' = Telemetry /\ UNCHANGED guard

RestoreCounters ==
    /\ saved.counts["professional_concurrency"] = 0
    /\ saved.reservedTokens = 0
    /\ reservedSteps' = saved.reservedSteps
    /\ reservedTokens' = 0
    /\ llmReservations' = [id \in CallIds |-> NoCall]
    /\ toolReservations' = {}
    /\ started' = saved.started
    /\ elapsed' = saved.elapsed
    /\ holders' = {}
    /\ excess' = saved.excess
    /\ UNCHANGED <<policy, saved>>

\* Mutant: the repetition history starts empty in the new process.
RestoreWithoutHistory ==
    /\ RestoreCounters
    /\ counts' = saved.counts
    /\ logicalActions' = saved.logicalActions
    /\ history' = <<>>

\* Mutant: the new process starts its step counter afresh.
RestoreResettingSteps ==
    /\ RestoreCounters
    /\ counts' = [saved.counts EXCEPT !["graph_steps"] = 0]
    /\ logicalActions' = saved.logicalActions - saved.counts["graph_steps"]
    /\ history' = LastCalls(saved.started)

\* A new process builds its guard from the persisted telemetry; in-flight
\* reservations of the old process are gone.
Restore ==
    /\ RestoreCounters
    /\ counts' = saved.counts
    /\ logicalActions' = saved.logicalActions
    /\ history' = LastCalls(saved.started)

Next ==
    \/ \E class \in ActionClass : RecordGraphStep(class)
    \/ \E amount \in Attempts : ReserveGraphSteps(amount)
    \/ AbandonGraphReservation
    \/ ReleaseGraphReservation
    \/ RecordCacheLookup
    \/ \E id \in CallIds, cap \in TokenCaps, class \in ActionClass :
          BeginLlmCall(id, cap, class)
    \/ \E id \in CallIds, actual \in ActualTokens : CompleteLlmCall(id, actual)
    \/ \E call \in ToolCalls, class \in ActionClass : BeginToolCall(call, class)
    \/ \E i \in toolReservations : CompleteToolCall(i)
    \/ RecordReview
    \/ RecordCorrection
    \/ \E w \in Workers : AcquireSlot(w)
    \/ \E w \in holders : ReleaseSlot(w)
    \/ \E t \in Clock : TimePasses(t)
    \/ Persist
    \/ Restore

Spec == Init /\ [][Next]_vars
-----------------------------------------------------------------------------
(* Properties.                                                              *)

TelemetryType ==
    [counts : [Counted -> Nat], reservedSteps : Nat, reservedTokens : Nat,
     started : Seq(ToolCalls), logicalActions : Nat, elapsed : Nat, excess : Nat]

\* The state of BudgetGuard.__init__ and the fields BudgetCounters bounds from
\* below (ge=0): every counter stays a natural number.
TypeOK ==
    /\ policy \in Policies
    /\ counts \in [Counted -> Nat]
    /\ reservedSteps \in Nat
    /\ reservedTokens \in Nat
    /\ llmReservations \in [CallIds -> Nat]
    /\ toolReservations \subseteq DOMAIN started
    /\ history \in Seq(ToolCalls)
    /\ started \in Seq(ToolCalls)
    /\ logicalActions \in Nat
    /\ elapsed \in Nat
    /\ holders \subseteq Workers
    /\ excess \in Nat
    /\ saved \in TelemetryType

\* Consumed plus reserved graph steps never exceed the active limit, although
\* record_cache_lookup and record_graph_step test only the consumed ones.
GraphStepsWithinActive ==
    counts["graph_steps"] + reservedSteps <= Active["graph_steps"]

\* _reserved_tokens is the sum of the outstanding LLM reservations, through
\* overruns, completions in any order and restores, and actual plus reserved
\* tokens exceed the active limit by no more than what providers reported above
\* their pre-call reservations (complete_llm_call).
TokensWithinActive ==
    /\ reservedTokens = SumFunction(llmReservations)
    /\ counts["total_tokens"] + reservedTokens <= Active["total_tokens"] + excess

\* What is charged and what is reserved stay within the active limits together,
\* for steps and for tokens, whatever the order of reservations, lookups, calls
\* that overrun, completions and restores.
UsageWithinActive == GraphStepsWithinActive /\ TokensWithinActive

\* No counter passes its active limit; tokens may, by what providers report above
\* their reservations. A slot is counted for each coroutine inside
\* professional_slot and for nobody else, whatever a restore forgets.
CountersWithinActive ==
    /\ \A d \in Counted \ {"total_tokens"} : counts[d] <= Active[d]
    /\ counts["professional_concurrency"] = Cardinality(holders)

\* Two identical tool calls against one observation are more than a history
\* window apart in the trace, across restores of the guard.
NoRecentRepeat ==
    \A i, j \in DOMAIN started :
        i < j /\ started[i] = started[j] => j - i > HistoryWindow

\* What one persisted telemetry has charged, every later one has charged too:
\* restoring a guard never resets usage or elapsed time.
DurableUsageNeverDecreases ==
    [][/\ \A d \in Counted \ {"professional_concurrency"} :
             saved'.counts[d] >= saved.counts[d]
       /\ saved'.elapsed >= saved.elapsed]_vars

=============================================================================
