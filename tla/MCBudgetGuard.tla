--------------------------- MODULE MCBudgetGuard ---------------------------
(***************************************************************************)
(* Instances of BudgetGuard for TLC: three policies, one per family of      *)
(* counters.  The limits of the dimensions a policy is not about are 0, as  *)
(* the table _DEFAULTS itself has it for some of them.                      *)
(***************************************************************************)
EXTENDS BudgetGuard

CONSTANTS GraphLimit, LlmLimit, ToolLimit, TokenLimit, SlotLimit, RoundLimit,
          WallLimit

\* Hard limits lie above the active ones.
Policy(limits) ==
    LET active == [d \in Dimension |->
                      CASE d \in DOMAIN limits -> limits[d]
                        [] d = "wall_time_ms" -> WallLimit
                        [] OTHER -> 0]
    IN  [active |-> active, hard |-> [d \in Dimension |-> active[d] + 1]]

GraphPolicy ==
    Policy([graph_steps |-> GraphLimit, professional_concurrency |-> SlotLimit,
            review_rounds |-> RoundLimit, correction_rounds |-> RoundLimit])

TokenPolicy == Policy([llm_calls |-> LlmLimit, total_tokens |-> TokenLimit])

ToolPolicy == Policy([tool_calls |-> ToolLimit])

MCPolicies == {GraphPolicy, TokenPolicy, ToolPolicy}

\* Readings at 0, 70, 85, 95 and 100 percent of a wall limit of 20.
MCClock == {0, 14, 17, 19, 20}

MCToolCalls == {<<"a", "x">>, <<"a", "y">>, <<"b", "x">>}
=============================================================================
