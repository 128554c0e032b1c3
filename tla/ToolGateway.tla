----------------------------- MODULE ToolGateway -----------------------------
(***************************************************************************)
(* The Function Calling gateway (tools/function_gateway.py) in front of    *)
(* the shared tool registry (tools/registry.py).                           *)
(*                                                                         *)
(* Each element of Calls is one awaited FunctionGateway.invoke. Its        *)
(* synchronous part (parse, catalog check, preflight, journal, budget) is  *)
(* one step; it then waits for the tool's semaphore, runs the adapter      *)
(* under a timeout and settles. Every tool is a RegisteredAdapter of the   *)
(* adapter SDK around an external provider. Names, schemas and hashes are abstracted   *)
(* to model values: an attestation is the gateway instance that made it,   *)
(* a context hash is the context, an approval binding a <<tool, input>>.   *)
(***************************************************************************)
EXTENDS Naturals, FiniteSets, AdapterSdk

CONSTANTS
  Calls,          \* awaited invocations, numbered as they arrive
  Tools,          \* keys name@version of the published definitions
  Candidates,     \* adapter registrations an application may try to publish
  Inputs,         \* argument objects
  ValidInputs,    \* the inputs the tool's schema and byte limit accept
  Keys,           \* idempotency keys of one scope
  NoKey,
  Contexts,       \* ToolInvocationContext values
  Policies,       \* ToolExposurePolicy values
  MaxToolCalls,   \* tool-call budget of the run's guard
  MaxGateways     \* bound on gateway restarts

VARIABLES
  registered,     \* the adapter registration behind each published definition
  catalog,        \* the FunctionCatalog the orchestration holds, or NoCatalog
  gateway,        \* the running gateway instance (its attestation key)
  toolCall,       \* state of each awaited invocation
  journal,        \* _journal: <<tool, key>> -> [input, result]
  reservations,   \* the guard's open tool reservations
  toolCallsUsed,  \* the guard's tool-call usage
  adapterRuns     \* adapter executions started, per tool, key and input

gwVars == <<registered, catalog, gateway, toolCall, journal, reservations,
            toolCallsUsed, adapterRuns>>

NoCatalog == [by |-> 0]
Absent == [result |-> "absent"]
Uncommitted == <<"UNCOMMITTED">>
Idle == [at |-> "idle"]
Settled == {"denied", "refused", "returned", "raised"}

-----------------------------------------------------------------------------
(* Definitions and authorization                                           *)

\* ToolDefinition.validate_contract: what the constructor refuses to build.
ValidDefinition(d) ==
  /\ d.sideEffect # "READ_ONLY" =>
       /\ d.idempotency = "REQUIRED"
       /\ d.concurrency = 1
       /\ d.recovery \in {"RECONCILE", "HUMAN_REVIEW"}
  /\ d.sideEffect = "IRREVERSIBLE" => d.approval
  /\ d.attempts > 1 => d.recovery = "RETRY_READ_ONLY"
  /\ d.recovery = "RETRY_READ_ONLY" =>
       d.sideEffect = "READ_ONLY" /\ d.attempts >= 2
  /\ d.recovery = "RECONCILE" => d.sideEffect # "READ_ONLY"
  /\ d.recovery = "HUMAN_REVIEW" => d.approval
  /\ d.external => d.network
  /\ d.kind = "INSTRUMENT" =>
       d.transport \in LocalTransports \cup {"HTTP_API", "SDK", "MCP"}
  /\ d.kind = "AI_MODEL" => d.transport \in ModelTransports /\ d.tokens > 0

published == [t \in Tools |-> AdapterToolDefinition(registered[t])]

\* _authorize_definition: registry version, allowlist, permission, secret
\* purpose, network and data destination.
AuthorizeDefinition(t, ctx) ==
  /\ ctx.fresh
  /\ t \in ctx.allowed
  /\ published[t].permissions \cup published[t].secrets \subseteq ctx.granted
  /\ published[t].network => ctx.network
  /\ published[t].external => ctx.external

\* _preflight, after the authorization.
Preflight(r) ==
  LET d == published[r.tool] IN
  /\ AuthorizeDefinition(r.tool, r.ctx)
  /\ d.kind # "AI_MODEL"
  /\ r.attempt <= d.attempts
  /\ r.retry <=> r.attempt > 1
  /\ r.retry => d.recovery = "RETRY_READ_ONLY"
  /\ d.approval => <<r.tool, r.input>> \in r.ctx.approved
  /\ d.idempotency = "REQUIRED" => r.key # NoKey
  /\ r.input \in ValidInputs

-----------------------------------------------------------------------------
Init ==
  /\ registered \in {f \in [Tools -> Candidates] :
                       \A t \in Tools :
                         /\ ValidRegistration(f[t])
                         /\ ValidDefinition(AdapterToolDefinition(f[t]))}
  /\ catalog = NoCatalog
  /\ gateway = 1
  /\ toolCall = [c \in Calls |-> Idle]
  /\ journal = [e \in Tools \X Keys |-> Absent]
  /\ reservations = {}
  /\ toolCallsUsed = 0
  /\ adapterRuns = [e \in Tools \X (Keys \cup {NoKey}) \X ValidInputs |-> 0]

\* ToolRegistry.expose for every token of the context's allowlist.
Exposable(ctx, policy) ==
  /\ ctx.fresh
  /\ Cardinality(ctx.allowed) <= policy.maxTools
  /\ Cardinality({t \in ctx.allowed : published[t].transport = "MCP"})
       <= policy.maxNamespaces
  /\ \A t \in ctx.allowed :
       /\ AuthorizeDefinition(t, ctx)
       /\ published[t].sideEffect # "READ_ONLY" => policy.sideEffects
       /\ published[t].approval => policy.approvals

\* FunctionGateway.load_catalog. A refused exposure leaves no catalog, so it
\* changes nothing of this state.
LoadCatalog(ctx, policy) ==
  /\ Exposable(ctx, policy)
  /\ catalog' = [by |-> gateway, ctx |-> ctx]
  /\ UNCHANGED <<registered, gateway, toolCall, journal, reservations,
                 toolCallsUsed, adapterRuns>>

\* A new FunctionGateway with a fresh attestation key over the same registry;
\* calls of the old one go on.
NewGateway ==
  /\ gateway < MaxGateways
  /\ gateway' = gateway + 1
  /\ UNCHANGED <<registered, catalog, toolCall, journal, reservations,
                 toolCallsUsed, adapterRuns>>

\* _parse_call, _validate_catalog, the binding and the argument schema.
FunctionAdmits(r) ==
  /\ r.parsed
  /\ catalog # NoCatalog
  /\ catalog.by = gateway
  /\ r.ctx.fresh
  /\ catalog.ctx = r.ctx
  /\ r.tool \in catalog.ctx.allowed
  /\ r.input \in ValidInputs

Arriving(c) ==
  /\ toolCall[c] = Idle
  /\ \A d \in Calls : d < c => toolCall[d] # Idle

Requests == [tool : Tools, input : Inputs, key : Keys \cup {NoKey},
             attempt : 1..2, retry : BOOLEAN, ctx : Contexts, parsed : BOOLEAN]

Deny(c) == toolCall' = [toolCall EXCEPT ![c] = [at |-> "denied"]]

\* A call refused before the registry is reached.
DenyFunction(c) ==
  /\ Arriving(c)
  /\ \E r \in Requests : ~FunctionAdmits(r)
  /\ Deny(c)
  /\ UNCHANGED <<registered, catalog, gateway, journal, reservations,
                 toolCallsUsed, adapterRuns>>

\* What the invocation keeps of its request once it is admitted.
Bound(r) == [tool |-> r.tool, key |-> r.key, input |-> r.input]

Entry(r) == IF r.key = NoKey THEN Absent ELSE journal[<<r.tool, r.key>>]

\* The key is bound to other input, or a prior effect has no committed result.
JournalRefuses(r) ==
  /\ Entry(r) # Absent
  /\ Entry(r).input # r.input \/ Entry(r).result = Uncommitted

\* A call the registry refuses: preflight, journal or tool-call budget.
DenyInvoke(c) ==
  /\ Arriving(c)
  /\ \E r \in Requests :
       /\ FunctionAdmits(r)
       /\ \/ ~Preflight(r)
          \/ JournalRefuses(r)
          \/ Entry(r) = Absent /\ toolCallsUsed = MaxToolCalls
  /\ Deny(c)
  /\ UNCHANGED <<registered, catalog, gateway, journal, reservations,
                 toolCallsUsed, adapterRuns>>

\* The committed result of the same key and input is returned as it is.
Replay(c) ==
  /\ Arriving(c)
  /\ \E r \in Requests :
       /\ FunctionAdmits(r)
       /\ Preflight(r)
       /\ Entry(r) # Absent
       /\ ~JournalRefuses(r)
       /\ toolCall' = [toolCall EXCEPT ![c] =
            [at |-> "returned", req |-> Bound(r), result |-> Entry(r).result]]
  /\ UNCHANGED <<registered, catalog, gateway, journal, reservations,
                 toolCallsUsed, adapterRuns>>

Running(t) == {c \in Calls : toolCall[c].at = "running" /\ toolCall[c].req.tool = t}
Free(t) == Cardinality(Running(t)) < published[t].concurrency

RunAdapter(r) ==
  adapterRuns' = [adapterRuns EXCEPT ![<<r.tool, r.key, r.input>>] = @ + 1]

\* Mutant: the journal entry is written only with the result.
StartUnclaimed(c) ==
  /\ Arriving(c)
  /\ toolCallsUsed < MaxToolCalls
  /\ \E r \in Requests :
       /\ FunctionAdmits(r) /\ Preflight(r) /\ Entry(r) = Absent
       /\ toolCall' = [toolCall EXCEPT ![c] =
            [at |-> IF Free(r.tool) THEN "running" ELSE "waiting", req |-> Bound(r)]]
       /\ IF Free(r.tool) THEN RunAdapter(r) ELSE UNCHANGED adapterRuns
  /\ reservations' = reservations \cup {c}
  /\ toolCallsUsed' = toolCallsUsed + 1
  /\ UNCHANGED <<registered, catalog, gateway, journal>>

\* Budget reservation, then the journal entry without a result, then the
\* semaphore, which is taken without suspending when a permit is free.
Start(c) ==
  /\ Arriving(c)
  /\ toolCallsUsed < MaxToolCalls
  /\ \E r \in Requests :
       /\ FunctionAdmits(r)
       /\ Preflight(r)
       /\ Entry(r) = Absent
       /\ journal' = IF r.key = NoKey THEN journal
                     ELSE [journal EXCEPT ![<<r.tool, r.key>>] =
                             [input |-> r.input, result |-> Uncommitted]]
       /\ toolCall' = [toolCall EXCEPT ![c] =
            [at |-> IF Free(r.tool) THEN "running" ELSE "waiting", req |-> Bound(r)]]
       /\ IF Free(r.tool) THEN RunAdapter(r) ELSE UNCHANGED adapterRuns
  /\ reservations' = reservations \cup {c}
  /\ toolCallsUsed' = toolCallsUsed + 1
  /\ UNCHANGED <<registered, catalog, gateway>>

Acquire(c) ==
  /\ toolCall[c].at = "waiting"
  /\ Free(toolCall[c].req.tool)
  /\ toolCall' = [toolCall EXCEPT ![c].at = "running"]
  /\ RunAdapter(toolCall[c].req)
  /\ UNCHANGED <<registered, catalog, gateway, journal, reservations,
                 toolCallsUsed>>

\* _validate_result: the output's bytes, the error code and the retry flag must
\* agree with the definition, and so must the output with the envelope's schema,
\* which the registry's own timeout result is excused from (identity and hashes
\* are set by the adapter itself).
ResultValid(t, res) ==
  /\ res.output # "oversize"
  /\ res.status # "TIMEOUT" => res.output # "empty"
  /\ res.status = "SUCCESS" <=> res.code = NoCode
  /\ res.code \in published[t].errors \cup {"TOOL_TIMEOUT", NoCode}
  /\ res.retryable => /\ published[t].sideEffect = "READ_ONLY"
                      /\ published[t].recovery = "RETRY_READ_ONLY"

\* Mutant: only a success gives the reservation back.
SettleSuccessOnly(c, res) ==
  LET r == toolCall[c].req IN
  /\ toolCall' = [toolCall EXCEPT ![c] =
                    [at |-> "returned", req |-> r, result |-> <<res.status, c>>,
                     output |-> res.output]]
  /\ journal' = IF r.key # NoKey /\ res.status = "SUCCESS"
                THEN [journal EXCEPT ![<<r.tool, r.key>>] =
                        [input |-> r.input, result |-> <<res.status, c>>]]
                ELSE journal
  /\ reservations' = IF res.status = "SUCCESS" THEN reservations \ {c} ELSE reservations
  /\ UNCHANGED <<registered, catalog, gateway, toolCallsUsed, adapterRuns>>

\* invoke after the adapter: a valid result settles the reservation and is
\* returned, and a success is committed to the journal; a refused result
\* settles the reservation and leaves the journal entry uncommitted. The output
\* is kept for what is said about refusals.
Settle(c, res) ==
  LET r == toolCall[c].req
      valid == ResultValid(r.tool, res) IN
  /\ toolCall' = [toolCall EXCEPT ![c] =
                    [at |-> IF valid THEN "returned" ELSE "refused", req |-> r,
                     result |-> <<res.status, c>>, output |-> res.output]]
  /\ journal' = IF valid /\ r.key # NoKey /\ res.status = "SUCCESS"
                THEN [journal EXCEPT ![<<r.tool, r.key>>] =
                        [input |-> r.input, result |-> <<res.status, c>>]]
                ELSE journal
  /\ reservations' = reservations \ {c}
  /\ UNCHANGED <<registered, catalog, gateway, toolCallsUsed, adapterRuns>>

\* The provider answers, fails or raises, and the adapter makes a result of it.
Return(c) ==
  /\ toolCall[c].at = "running"
  /\ \E p \in ProviderActs : Settle(c, Execute(registered[toolCall[c].req.tool], p))

\* asyncio.timeout cancels the adapter; _timeout_result stands for it.
Timeout(c) ==
  /\ toolCall[c].at = "running"
  /\ Settle(c, Result("TIMEOUT", "TOOL_TIMEOUT",
                      published[toolCall[c].req.tool].recovery = "RETRY_READ_ONLY", "empty"))

\* An exception invoke does not name (the cancellation of the caller) passes
\* through and nothing is settled.
Raise(c) ==
  /\ toolCall[c].at \in {"waiting", "running"}
  /\ toolCall' = [toolCall EXCEPT ![c].at = "raised"]
  /\ UNCHANGED <<registered, catalog, gateway, journal, reservations,
                 toolCallsUsed, adapterRuns>>

Ended == \A c \in Calls : toolCall[c].at \in Settled
Done == Ended /\ UNCHANGED gwVars

Next ==
  \/ \E ctx \in Contexts, p \in Policies : LoadCatalog(ctx, p)
  \/ NewGateway
  \/ \E c \in Calls :
       \/ DenyFunction(c) \/ DenyInvoke(c) \/ Replay(c) \/ Start(c) \/ Acquire(c)
       \/ Return(c) \/ Timeout(c) \/ Raise(c)
  \/ Done

\* The registry's timer ends a running adapter and the event loop hands a free
\* permit to a waiter; nothing makes an adapter return by itself.
Fairness == \A c \in Calls : WF_gwVars(Timeout(c)) /\ WF_gwVars(Acquire(c))

Spec == Init /\ [][Next]_gwVars /\ Fairness
-----------------------------------------------------------------------------
Effecting(t) == published[t].sideEffect # "READ_ONLY"

\* A side-effecting adapter is started at most once for an idempotency key,
\* whatever timeouts, failures, retries and concurrent calls with that key do
\* (registry.py: the journal entry precedes the first await).
ToolEffectAtMostOnce ==
  \A t \in Tools, k \in Keys \cup {NoKey} :
    Effecting(t) =>
      /\ \A i, j \in ValidInputs :
           adapterRuns[<<t, k, i>>] + (IF i = j THEN 0 ELSE adapterRuns[<<t, k, j>>]) <= 1
      /\ k = NoKey => \A i \in ValidInputs : adapterRuns[<<t, k, i>>] = 0

\* Whoever returns a success for a key returns the one committed result, for
\* the input the caller sent (registry.py replays by key and input hash).
OneResultPerKey ==
  \A c \in Calls :
    (toolCall[c].at = "returned" /\ toolCall[c].req.key # NoKey
       /\ toolCall[c].result[1] = "SUCCESS") =>
      journal[<<toolCall[c].req.tool, toolCall[c].req.key>>] =
        [input |-> toolCall[c].req.input, result |-> toolCall[c].result]

\* Of all that a registered adapter makes of its provider's answers the registry
\* refuses one thing, an envelope too large: error codes, retry flags and outputs
\* are checked in adapter_sdk.py and again in registry.py, and must agree. The
\* effect of a call whose result was refused, or that an exception ended, may have
\* happened: whatever is called after it, its key stays closed and uncommitted.
UncommittedStaysClosed ==
  \A c \in Calls :
    /\ toolCall[c].at = "refused" => toolCall[c].output = "oversize"
    /\ (toolCall[c].at \in {"refused", "raised"} /\ toolCall[c].req.key # NoKey) =>
         journal[<<toolCall[c].req.tool, toolCall[c].req.key>>] =
           [input |-> toolCall[c].req.input, result |-> Uncommitted]

\* Every call that got a reservation ends and gives it back, unless an
\* exception passed through invoke (the timeout frees permits for waiters).
CallEnds ==
  \A c \in Calls :
    toolCall[c].at \in {"waiting", "running"} ~>
      (toolCall[c].at \in {"refused", "returned"} /\ c \notin reservations)
      \/ toolCall[c].at = "raised"

\* The idempotency contract of invoke: one execution, one result, and a closed key
\* where no result could be committed.
IdempotencyHolds == ToolEffectAtMostOnce /\ OneResultPerKey /\ UncommittedStaysClosed
=============================================================================
