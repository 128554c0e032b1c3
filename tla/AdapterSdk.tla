----------------------------- MODULE AdapterSdk ------------------------------
(***************************************************************************)
(* The adapter SDK (tools/adapter_sdk.py): what a registration must        *)
(* satisfy, the tool definition derived from it, and the ToolResult that   *)
(* RegisteredAdapter.execute makes of whatever its provider does.          *)
(***************************************************************************)
EXTENDS Naturals

StandardAdapterErrors ==
  {"ADAPTER_ARTIFACT_INVALID", "ADAPTER_OUTPUT_INVALID", "ADAPTER_PROVIDER_FAILED",
   "ADAPTER_PROVIDER_UNAVAILABLE", "ADAPTER_PROVENANCE_INVALID",
   "ADAPTER_RESPONSE_INVALID"}

LocalTransports == {"BASH", "DLL", "FILE_EXCHANGE", "SIMULATOR"}
ModelTransports == {"BASH", "HTTP_API", "SDK", "MCP", "SIMULATOR"}
NoCode == "none"

\* AdapterRegistration._validate_transport_policy.
ValidTransport(r) ==
  /\ r.transport \in LocalTransports => ~r.network /\ ~r.external
  /\ r.transport = "HTTP_API" => r.network /\ r.external
  /\ r.external => r.network
  /\ r.transport = "SIMULATOR" =>
       r.origin = "SIMULATED" /\ r.secrets = {} /\ r.sideEffect = "READ_ONLY"
  /\ r.origin = "SIMULATED" => r.transport = "SIMULATOR"

\* AdapterRegistration.validate_registration.
ValidRegistration(r) ==
  /\ r.sideEffect # "READ_ONLY" =>
       /\ r.idempotency = "REQUIRED" /\ r.concurrency = 1
       /\ r.recovery \in {"RECONCILE", "HUMAN_REVIEW"}
  /\ r.sideEffect = "IRREVERSIBLE" => r.approval
  /\ r.attempts > 1 => r.sideEffect = "READ_ONLY" /\ r.recovery = "RETRY_READ_ONLY"
  /\ r.recovery = "RETRY_READ_ONLY" => r.sideEffect = "READ_ONLY" /\ r.attempts >= 2
  /\ r.recovery = "HUMAN_REVIEW" => r.approval
  /\ ValidTransport(r)
  /\ r.family = "INSTRUMENT" => r.device
  /\ r.calibration => r.device
  /\ IF r.family = "AI_MODEL"
     THEN r.model /\ r.tokens > 0 /\ r.sideEffect = "READ_ONLY"
            /\ r.transport \in ModelTransports
     ELSE r.tokens = 0

\* adapter_tool_definition.
AdapterToolDefinition(r) ==
  [kind |-> IF r.family = "AI_MODEL" THEN "AI_MODEL" ELSE "INSTRUMENT",
   transport |-> r.transport,
   sideEffect |-> r.sideEffect, idempotency |-> r.idempotency,
   concurrency |-> r.concurrency, approval |-> r.approval, attempts |-> r.attempts,
   recovery |-> r.recovery, external |-> r.external, network |-> r.network,
   tokens |-> r.tokens, permissions |-> r.permissions, secrets |-> r.secrets,
   errors |-> r.errors \cup StandardAdapterErrors]

-----------------------------------------------------------------------------
\* _retry_allowed.
RetryAllowed(r) == r.sideEffect = "READ_ONLY" /\ r.recovery = "RETRY_READ_ONLY"

\* A ToolResult: its output is an envelope of the SDK, an envelope beyond the
\* definition's max_output_bytes, or empty.
Result(status, code, retryable, output) ==
  [status |-> status, code |-> code, retryable |-> retryable, output |-> output]

\* _failure: a short envelope without output or provenance.
Failure(status, code, retryable) == Result(status, code, retryable, "envelope")

\* AdapterProviderReply.validate_reply.
ConsistentReply(p) ==
  /\ p.status = "SUCCESS" <=> p.code = NoCode
  /\ p.status = "SUCCESS" => ~p.retryable
  /\ p.output # "empty" => p.status \in {"SUCCESS", "PARTIAL_SUCCESS"}

\* The code _validate_reply raises for a consistent reply, or NoCode: identity
\* and request hash, error code, retry flag, output (its schema, which asks for a
\* property, and its bytes), provenance, artifacts.
ReplyError(r, p) ==
  LET delivers == p.status \in {"SUCCESS", "PARTIAL_SUCCESS"} IN
  CASE ~p.bound \/ ~ConsistentReply(p)
         \/ (p.code # NoCode /\ p.code \notin r.errors \cup StandardAdapterErrors)
         \/ (p.retryable /\ ~RetryAllowed(r)) -> "ADAPTER_RESPONSE_INVALID"
    [] OTHER ->
       IF delivers /\ p.output # "fits" THEN "ADAPTER_OUTPUT_INVALID"
       ELSE IF delivers /\ (r.device \/ r.calibration \/ r.model) /\ p.provenance = "none"
       THEN "ADAPTER_PROVENANCE_INVALID"
       ELSE IF ~p.artifacts THEN "ADAPTER_ARTIFACT_INVALID" ELSE NoCode

\* An AdapterProviderError keeps a declared code; the retry flag needs the
\* registration's permission.
ProviderError(r, p) ==
  LET code == IF p.code \in r.errors \cup StandardAdapterErrors THEN p.code
              ELSE "ADAPTER_RESPONSE_INVALID" IN
  Failure(IF code = "ADAPTER_PROVIDER_UNAVAILABLE" THEN "BLOCKED" ELSE "FAILED", code,
          p.retryable /\ RetryAllowed(r) /\ code # "ADAPTER_RESPONSE_INVALID")

\* The envelope of an accepted reply. The definition grants 250,000 bytes beyond
\* the output; nothing bounds the length of a calibration identity, and the
\* adapter does not measure the envelope it builds.
Envelope(p) == IF p.provenance = "long" THEN "oversize" ELSE "envelope"

\* RegisteredAdapter.execute: a provider reply, an AdapterProviderError, or
\* any other exception.
Execute(r, p) ==
  CASE p.kind = "raise" -> Failure("FAILED", "ADAPTER_PROVIDER_FAILED", RetryAllowed(r))
    [] p.kind = "error" -> ProviderError(r, p)
    [] p.kind = "reply" ->
         IF ReplyError(r, p) = NoCode
         THEN Result(p.status, p.code, p.retryable, Envelope(p))
         ELSE Failure("FAILED", ReplyError(r, p), FALSE)

\* What a provider may do, one aspect wrong at a time.
GoodReply ==
  [kind |-> "reply", status |-> "SUCCESS", code |-> NoCode, retryable |-> FALSE,
   bound |-> TRUE, output |-> "fits", provenance |-> "short", artifacts |-> TRUE]

Deviations ==
  {GoodReply, [GoodReply EXCEPT !.bound = FALSE], [GoodReply EXCEPT !.artifacts = FALSE],
   [GoodReply EXCEPT !.code = "UNKNOWN"], [GoodReply EXCEPT !.kind = "raise"]}
  \cup {[GoodReply EXCEPT !.output = o] : o \in {"empty", "misfit", "oversize"}}
  \cup {[GoodReply EXCEPT !.provenance = v] : v \in {"none", "long"}}

Shortfalls ==
  [kind : {"reply"}, status : {"PARTIAL_SUCCESS", "FAILED"}, code : {NoCode, "UNKNOWN", "BUSY"},
   retryable : BOOLEAN, bound : {TRUE}, output : {"empty", "fits"},
   provenance : {"short", "long"}, artifacts : {TRUE}]

ProviderErrors ==
  [kind : {"error"}, status : {"SUCCESS"},
   code : {"UNKNOWN", "BUSY", "ADAPTER_PROVIDER_UNAVAILABLE"}, retryable : BOOLEAN,
   bound : {TRUE}, output : {"empty"}, provenance : {"none"}, artifacts : {TRUE}]

ProviderActs == Deviations \cup Shortfalls \cup ProviderErrors
=============================================================================
