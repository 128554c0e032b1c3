------------------------------- MODULE MCTools -------------------------------
(***************************************************************************)
(* The tool gateways, one run: each behaviour exercises one of them, chosen *)
(* by focus, while the others stay in their initial state.                 *)
(***************************************************************************)
EXTENDS Naturals, FiniteSets, Gateways

CONSTANTS t1, a1, a2, bad, f1, f2, x

VARIABLE focus

registration ==
  [family |-> "INSTRUMENT", transport |-> "SDK", origin |-> "LABORATORY",
   sideEffect |-> "READ_ONLY", idempotency |-> "NONE", concurrency |-> 1,
   approval |-> FALSE, attempts |-> 2, recovery |-> "RETRY_READ_ONLY",
   external |-> FALSE, network |-> FALSE, tokens |-> 0, permissions |-> {"use"},
   secrets |-> {}, device |-> TRUE, calibration |-> FALSE, model |-> FALSE,
   errors |-> {"BUSY"}]

\* Two registrations that can be published and four that are refused.
candidates ==
  { registration,
    [registration EXCEPT !.sideEffect = "IRREVERSIBLE", !.idempotency = "REQUIRED",
                         !.approval = TRUE, !.attempts = 1, !.recovery = "HUMAN_REVIEW"],
    [registration EXCEPT !.sideEffect = "REVERSIBLE"],
    [registration EXCEPT !.attempts = 1, !.recovery = "RECONCILE"],
    [registration EXCEPT !.device = FALSE],
    [registration EXCEPT !.external = TRUE] }

context == [fresh |-> TRUE, allowed |-> {t1}, granted |-> {"use"}, network |-> FALSE,
            external |-> FALSE, approved |-> {<<t1, a1>>, <<t1, a2>>}]

contexts == {context, [context EXCEPT !.approved = {<<t1, a1>>}],
             [context EXCEPT !.fresh = FALSE]}

policies == {[maxTools |-> 6, maxNamespaces |-> 1, sideEffects |-> TRUE, approvals |-> TRUE]}

\* One government and one vendor page and an unsafe address; the first policy
\* knows only the government domain.
domainOf == [u \in {"g", "v", "x"} |->
               CASE u = "g" -> "gov" [] u = "v" -> "vendor" [] OTHER -> "unsafe"]

webRequests == {[queries |-> 1, domains |-> {}, current |-> FALSE],
                [queries |-> 1, domains |-> {"vendor"}, current |-> TRUE],
                [queries |-> 2, domains |-> {}, current |-> FALSE]}

sourceClass == [gov |-> 0, vendor |-> 1]
policyDomains == <<{"gov"}, {"gov", "vendor"}>>

\* What the proofs assume of the constants.
ASSUME ToolsAssumption == Web!LimitFacts

gwVars == <<registered, catalog, gateway, toolCall, journal, reservations,
            toolCallsUsed, adapterRuns>>
mcpVars == <<discovery, history, manifests, remote, record,
             exchange, told, misled>>
fileVars == <<disk, store, versions, verified, fileCall, lastReply, replaced>>
webVars == <<webClock, webPolicy, cache, search, webReply>>
vars == <<focus, gwVars, mcpVars, fileVars, webVars>>

Init ==
  /\ focus \in {"gateway", "mcp", "file", "web"}
  /\ Gw!Init /\ (focus # "gateway" => registered[t1] = registration)
  /\ Mcp!Init
  /\ File!Init /\ disk[f2] = x /\ (focus # "file" => disk[f1] = x)
  /\ Web!Init

Next ==
  /\ \/ focus = "gateway" /\ Gw!Next /\ UNCHANGED <<mcpVars, fileVars, webVars>>
     \/ focus = "mcp" /\ Mcp!Next /\ UNCHANGED <<gwVars, fileVars, webVars>>
     \/ focus = "file" /\ File!Next /\ UNCHANGED <<gwVars, mcpVars, webVars>>
     \/ focus = "web" /\ Web!Next /\ UNCHANGED <<gwVars, mcpVars, fileVars>>
  /\ UNCHANGED focus

Spec == Init /\ [][Next]_vars /\ Gw!Fairness
==============================================================================
