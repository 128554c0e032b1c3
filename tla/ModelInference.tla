--------------------------- MODULE ModelInference ---------------------------
(***************************************************************************)
(* Model calls: the local configuration (models/config.py), the route and  *)
(* profile registries (registry.py, profiles.py), the inference gateway    *)
(* (inference.py) and the DeepSeek provider (deepseek.py), whose HTTP call *)
(* runs in a worker thread that a timeout does not stop. Several calls of  *)
(* one gateway share its BudgetGuard, of which the token reservations are  *)
(* kept here (BudgetGuard models the rest).                                *)
(***************************************************************************)
EXTENDS Refusals, FiniteSetsExt

CONSTANTS
  Calls,           \* call ids
  Configurations,  \* configuration files with their environment
  Requests,        \* ModelInferenceRequest descriptions
  Responses,       \* what the HTTP call of a provider may come back with
  Provider,        \* the ProviderDefinition of the catalog
  Models,          \* its ModelDefinitions, by model id
  Profiles,        \* the published InspectionModelProfiles, by profile id
  TokenLimit, CallLimit

VARIABLES
  runtime,         \* the published registry: its configuration, or none
  calls,           \* call id -> what the gateway knows of it
  guard,           \* BudgetGuard: calls begun, tokens used, reservations
  threads          \* calls whose HTTP request is still under way

modelVars == <<runtime, calls, guard, threads>>

-----------------------------------------------------------------------------
(* Configuration                                                           *)

\* _read_bounded_utf8.
FileError(file) ==
  FirstRefusal(<<
    <<file = "missing", "NOT_FOUND">>,
    <<file = "large", "TOO_LARGE">>,
    <<file \in {"bom", "bytes"}, "ENCODING_INVALID">> >>)

\* _parse_environment_file: shell syntax, a repeated name or an unbounded value
\* is refused wherever it stands, before a name is looked up.
EnvironmentError(lines) ==
  FirstRefusal(<<
    <<\E i \in DOMAIN lines : lines[i].kind = "shell", "MODEL_ENV_INVALID">>,
    <<\E i, j \in DOMAIN lines : i # j /\ lines[i].name = lines[j].name,
      "MODEL_ENV_DUPLICATE">>,
    <<\E i \in DOMAIN lines : lines[i].value = "long", "MODEL_ENV_INVALID">> >>)

\* The value of a variable: the process environment, also an empty value of it,
\* goes before the file.
SelectedValue(cfg) ==
  IF cfg.process # None THEN cfg.process
  ELSE IF \E i \in DOMAIN cfg.lines : cfg.lines[i].name = cfg.binding.variable
  THEN cfg.lines[CHOOSE i \in DOMAIN cfg.lines :
                   cfg.lines[i].name = cfg.binding.variable].value
  ELSE None

\* ProviderDefinition.validate_definition and ModelDefinition.validate_definition.
ValidCatalog ==
  /\ Provider.production => Provider.verified
  /\ \A m \in DOMAIN Models :
       /\ "TEXT" \in Models[m].capabilities
       /\ Models[m].maxOutput <= Models[m].window
       /\ Models[m].version = Provider.version
       /\ Models[m].protocols \cap {Provider.endpoints[e] : e \in DOMAIN Provider.endpoints} # {}

\* ProviderBinding.validate_binding.
ValidBinding(b) ==
  /\ b.default \in b.allowed
  /\ \A i \in DOMAIN b.fallback : b.fallback[i] \in b.allowed \ {b.default}
  /\ \A i, j \in DOMAIN b.fallback : b.fallback[i] = b.fallback[j] => i = j

\* ModelApiRegistry._validate_binding.
BindingRejected(b) ==
  \/ b.version # Provider.version
  \/ b.endpoint \notin DOMAIN Provider.endpoints
  \/ b.purpose # Provider.purpose
  \/ ~(b.classes \subseteq Provider.classes)
  \/ \E m \in b.allowed :
       \/ m \notin DOMAIN Models
       \/ m \in DOMAIN Models =>
            \/ Provider.endpoints[b.endpoint] \notin Models[m].protocols
            \/ b.maxInput > Models[m].window
            \/ b.maxOutput > Models[m].maxOutput

\* load_model_runtime_configuration, with _parse_document and _load_catalogs.
LoadError(cfg) ==
  FirstRefusal(<<
    <<~cfg.yaml, "MODEL_CONFIG_EXTENSION_INVALID">>,
    <<FileError(cfg.file) # None, "MODEL_CONFIG_UNREADABLE">>,
    <<cfg.aliases, "MODEL_CONFIG_INVALID">>,
    <<cfg.catalog \in {"absolute", "outside"}, "MODEL_CATALOG_PATH_DENIED">>,
    <<FileError(cfg.catalog) # None, "MODEL_CATALOG_UNREADABLE">>,
    <<~ValidCatalog, "MODEL_CATALOG_INVALID">>,
    <<~ValidBinding(cfg.binding), "MODEL_CONFIG_INVALID">>,
    <<cfg.binding.environment \in {"STAGING", "PRODUCTION"},
      "MODEL_ENV_SECRET_PRODUCTION_DENIED">>,
    <<cfg.expected # None /\ cfg.binding.environment # cfg.expected,
      "MODEL_CONFIG_ENVIRONMENT_MISMATCH">>,
    <<BindingRejected(cfg.binding), "MODEL_CONFIG_INVALID">>,
    <<FileError(cfg.envFile) # None, "MODEL_ENV_UNREADABLE">>,
    <<EnvironmentError(cfg.lines) # None, "MODEL_ENV_INVALID">>,
    <<cfg.binding.enabled /\ SelectedValue(cfg) \in {None, "empty"},
      "MODEL_CONFIG_SECRET_MISSING">>,
    <<SelectedValue(cfg) = "long", "MODEL_CONFIG_SECRET_INVALID">> >>)

NoRuntime == [loaded |-> FALSE]

\* The registry and the secret provider are published together or not at all.
Load(cfg) ==
  /\ ~runtime.loaded
  /\ LoadError(cfg) = None
  /\ runtime' = [loaded |-> TRUE, binding |-> cfg.binding,
                 secret |-> SelectedValue(cfg) \notin {None, "empty"}]
  /\ UNCHANGED <<calls, guard, threads>>

-----------------------------------------------------------------------------
(* Authorization of a call                                                 *)

\* _select_model: the requested model, or the default and, if the caller allows
\* it, the fallbacks, of which the first with the required capabilities is
\* taken.
ModelCandidates(b, q) ==
  IF q.model # None THEN <<q.model>>
  ELSE <<b.default>> \o (IF q.fallback THEN b.fallback ELSE <<>>)

Capable(q, m) == q.capabilities \subseteq Models[m].capabilities

SelectModel(b, q) ==
  LET c == ModelCandidates(b, q) IN
  IF \E i \in DOMAIN c : Capable(q, c[i])
  THEN c[CHOOSE i \in DOMAIN c : Capable(q, c[i]) /\ \A j \in 1..(i - 1) : ~Capable(q, c[j])]
  ELSE None

\* ModelApiRegistry._resolve.
RouteError(b, q) ==
  FirstRefusal(<<
    <<~q.fresh, "MODEL_REGISTRY_STALE">>,
    <<q.binding # b.id, "MODEL_BINDING_NOT_FOUND">>,
    <<~b.enabled, "MODEL_BINDING_DISABLED">>,
    <<q.scope # b.scope, "MODEL_SCOPE_MISMATCH">>,
    <<~q.network, "MODEL_NETWORK_DENIED">>,
    <<b.permission \notin q.permissions, "MODEL_PERMISSION_DENIED">>,
    <<q.class \notin b.classes, "MODEL_DATA_CLASS_DENIED">>,
    <<q.maxInput > b.maxInput \/ q.maxOutput > b.maxOutput, "MODEL_TOKEN_LIMIT_EXCEEDED">>,
    <<q.model # None /\ q.model \notin b.allowed, "MODEL_SELECTION_DENIED">>,
    <<SelectModel(b, q) = None, "MODEL_CAPABILITY_UNAVAILABLE">> >>)

\* InspectionModelProfile.validate_profile and the registry's __init__: only
\* valid profiles of catalog models are published.
ValidProfile(p) ==
  /\ p.retryable \subseteq p.declared
  /\ p.formal => p.validated
  /\ p.model \in DOMAIN Models

Published == {i \in DOMAIN Profiles : ValidProfile(Profiles[i])}

\* Mutant: the profile of another model of the provider is accepted.
ProfileErrorOfProvider(b, q) ==
  FirstRefusal(<<
    <<q.profile \notin Published, "MODEL_PROFILE_NOT_FOUND">>,
    <<~q.profileFresh, "MODEL_PROFILE_STALE">>,
    <<q.method \notin Profiles[q.profile].methods, "MODEL_PROFILE_NOT_APPLICABLE">> >>)

\* InspectionModelProfileRegistry.resolve.
ProfileError(b, q) ==
  FirstRefusal(<<
    <<q.profile \notin Published, "MODEL_PROFILE_NOT_FOUND">>,
    <<~q.profileFresh, "MODEL_PROFILE_STALE">>,
    <<SelectModel(b, q) # Profiles[q.profile].model, "MODEL_PROFILE_ROUTE_MISMATCH">>,
    <<q.method \notin Profiles[q.profile].methods, "MODEL_PROFILE_NOT_APPLICABLE">> >>)

\* begin_llm_call counts the outstanding reservations as used.
ReservedTokens == FoldSet(LAMBDA c, n : n + guard.reserved[c], 0, Calls)

BudgetDenies(q) ==
  \/ guard.calls + 1 > CallLimit
  \/ guard.tokens + ReservedTokens + q.maxInput + q.maxOutput > TokenLimit

\* What infer checks before it calls the provider, in this order.
PreflightError(b, q) ==
  LET route == RouteError(b, q)
      profile == ProfileError(b, q) IN
  IF route # None THEN route
  ELSE IF profile # None THEN profile
  ELSE FirstRefusal(<<
         <<~q.instruction, "MODEL_INSTRUCTION_STALE">>,
         <<~q.processing, "MODEL_CANONICAL_INPUT_INELIGIBLE">>,
         <<q.formal /\ (~q.formalData \/ ~Profiles[q.profile].formal), "MODEL_FORMAL_USE_DENIED">>,
         <<Profiles[q.profile].concurrency > b.concurrency, "MODEL_RESOURCE_LIMIT_INVALID">>,
         <<BudgetDenies(q), "BUDGET_EXCEEDED">> >>)

-----------------------------------------------------------------------------
(* One call                                                                *)

NewCall == [phase |-> "NEW"]
Begun(q, phase) ==
  [phase |-> phase, request |-> q, model |-> SelectModel(runtime.binding, q),
   candidate |-> FALSE, passed |-> FALSE, retryable |-> FALSE]
Result(c, status, candidate, retryable) ==
  [calls[c] EXCEPT !.phase = status, !.candidate = candidate, !.retryable = retryable]

\* _complete_failed_reservation and _complete_reply_reservation: the
\* reservation goes, the reported usage is charged.
Charge(c, tokens) == [guard EXCEPT !.reserved[c] = 0, !.tokens = @ + tokens]

\* Mutant: the reservation of a cancelled call stays.
CancelForgetting(c) ==
  /\ calls[c].phase = "AWAITING"
  /\ calls' = [calls EXCEPT ![c] = Result(c, "CANCELLED", FALSE, FALSE)]
  /\ UNCHANGED <<runtime, guard, threads>>

Deny(c, q) ==
  /\ runtime.loaded
  /\ calls[c].phase = "NEW"
  /\ PreflightError(runtime.binding, q) # None
  /\ calls' = [calls EXCEPT ![c] = [phase |-> "DENIED"]]
  /\ UNCHANGED <<runtime, guard, threads>>

\* The provider refuses before it uses the network: a request that is too
\* large, or a route or secret that is not its own.
ProviderRefuses(q) == q.oversize \/ ~runtime.secret \/ ~Provider.route

\* infer up to the first suspension: the reservation is made and the HTTP
\* request handed to a thread.
Infer(c, q) ==
  /\ runtime.loaded
  /\ calls[c].phase = "NEW"
  /\ PreflightError(runtime.binding, q) = None
  /\ IF ProviderRefuses(q)
     THEN /\ calls' = [calls EXCEPT ![c] = Begun(q, "FAILED")]
          /\ guard' = [guard EXCEPT !.calls = @ + 1]
          /\ UNCHANGED threads
     ELSE /\ calls' = [calls EXCEPT ![c] = Begun(q, "AWAITING")]
          /\ guard' = [guard EXCEPT !.calls = @ + 1, !.reserved[c] = q.maxInput + q.maxOutput]
          /\ threads' = threads \cup {c}
  /\ UNCHANGED runtime

\* asyncio.TimeoutError of wait_for: the thread goes on, its answer is lost.
Timeout(c) ==
  /\ calls[c].phase = "AWAITING"
  /\ calls' = [calls EXCEPT ![c] = Result(c, "TIMEOUT", FALSE, TRUE)]
  /\ guard' = Charge(c, 0)
  /\ UNCHANGED <<runtime, threads>>

\* A cancellation of the caller is answered with a result.
Cancel(c) ==
  /\ calls[c].phase = "AWAITING"
  /\ calls' = [calls EXCEPT ![c] = Result(c, "CANCELLED", FALSE, FALSE)]
  /\ guard' = Charge(c, 0)
  /\ UNCHANGED <<runtime, threads>>

-----------------------------------------------------------------------------
(* The answer                                                              *)

\* DeepSeek infer and _parse_success: no answer, another status than 200, a
\* body that is no completion of the requested model, or an answer whose
\* envelope is not the contract's.
ProviderRaises(c, r) ==
  \/ ~r.transport
  \/ r.status # 200
  \/ ~r.json
  \/ r.model # calls[c].model
  \/ r.finish \notin {"stop", "length", "content_filter", "insufficient_system_resource"}
  \/ r.finish = "stop" /\ (~r.envelope \/ r.confidence \notin 0..1)

\* _http_error and _terminal_reply: the code of a failure and whether the
\* provider calls it retryable.
FailureCode(c, r) ==
  IF ~ProviderRaises(c, r)
  THEN CASE r.finish = "length" -> <<"MODEL_INCOMPLETE", FALSE>>
         [] r.finish = "content_filter" -> <<"MODEL_REFUSED", FALSE>>
         [] OTHER -> <<"MODEL_PROVIDER_UNAVAILABLE", TRUE>>
  ELSE CASE ~r.transport -> <<"MODEL_PROVIDER_NETWORK_FAILED", TRUE>>
         [] r.transport /\ r.status = 429 -> <<"MODEL_RATE_LIMITED", TRUE>>
         [] r.transport /\ r.status \in {500, 503} -> <<"MODEL_PROVIDER_UNAVAILABLE", TRUE>>
         [] r.transport /\ r.status \notin {200, 429, 500, 503} ->
              <<"MODEL_PROVIDER_FAILED", r.status >= 500>>
         [] OTHER -> <<"MODEL_PROVIDER_RESPONSE_INVALID", FALSE>>

\* _validated_provider_error: only a declared code with its registered
\* retryability is passed on as retryable.
ProviderRetryable(p, failure) ==
  failure[1] \in p.declared /\ failure[2] /\ failure[1] \in p.retryable

\* _validate_reply, after the reservation was settled: usage per direction,
\* then an unsuccessful end, then the registered output schema. Only the
\* unsuccessful end may be retryable.
UsageExceeds(q, r) == r.input > q.maxInput \/ r.output > q.maxOutput
ReplyStatus(q, r) ==
  IF UsageExceeds(q, r) THEN "FAILED"
  ELSE IF r.finish = "length" THEN "PARTIAL_SUCCESS"
  ELSE IF r.finish # "stop" \/ ~r.schema THEN "FAILED"
  ELSE "SUCCESS"

\* _threshold_failure: every threshold of the profile has its metric.
ThresholdFailure(p, r) == r.metric < p.threshold

\* The answer of a call that still waits: the reservation is settled with the
\* reported usage, which may exceed it; only then is the reply judged.
Answer(c, r) ==
  LET q == calls[c].request
      p == Profiles[q.profile]
      used == r.input + r.output
      status == ReplyStatus(q, r)
      retryable == /\ ProviderRetryable(p, FailureCode(c, r))
                   /\ ProviderRaises(c, r) \/ (r.finish # "stop" /\ ~UsageExceeds(q, r)) IN
  /\ calls[c].phase = "AWAITING"
  /\ c \in threads
  /\ threads' = threads \ {c}
  /\ IF ProviderRaises(c, r)
     THEN /\ guard' = Charge(c, 0)
          /\ calls' = [calls EXCEPT ![c] = Result(c, "FAILED", FALSE, retryable)]
     ELSE /\ guard' = Charge(c, used)
          /\ calls' = [calls EXCEPT ![c] =
               IF used > q.maxInput + q.maxOutput THEN Result(c, "FAILED", FALSE, FALSE)
               ELSE IF status # "SUCCESS" THEN Result(c, status, FALSE, retryable)
               ELSE IF ThresholdFailure(p, r) THEN Result(c, "PARTIAL_SUCCESS", FALSE, FALSE)
               ELSE [Result(c, "SUCCESS", q.formal /\ p.formal, FALSE) EXCEPT !.passed = TRUE]]
  /\ UNCHANGED runtime

\* The thread of a call that timed out or was cancelled ends.
LateAnswer(c) ==
  /\ c \in threads
  /\ calls[c].phase # "AWAITING"
  /\ threads' = threads \ {c}
  /\ UNCHANGED <<runtime, calls, guard>>

-----------------------------------------------------------------------------
Init ==
  /\ runtime = NoRuntime
  /\ calls = [c \in Calls |-> NewCall]
  /\ guard = [calls |-> 0, tokens |-> 0, reserved |-> [c \in Calls |-> 0]]
  /\ threads = {}

Next ==
  \/ \E cfg \in Configurations : Load(cfg)
  \/ \E c \in Calls :
       \/ \E q \in Requests : Deny(c, q) \/ Infer(c, q)
       \/ \E r \in Responses : Answer(c, r)
       \/ Timeout(c)
       \/ Cancel(c)
       \/ LateAnswer(c)

Spec == Init /\ [][Next]_modelVars
-----------------------------------------------------------------------------
\* The token budget holds a reservation for exactly the calls that wait for
\* their provider: every way out of infer (a refusal, a timeout, a cancellation,
\* a provider error, an invalid reply, too much usage) settles it, so that
\* calls that failed never exhaust the budget (inference.py 417-512).
ReservationsAreOutstanding ==
  \A c \in Calls :
    guard.reserved[c] = IF calls[c].phase = "AWAITING"
                        THEN calls[c].request.maxInput + calls[c].request.maxOutput ELSE 0

\* A result offered for formal use was produced by the model its profile was
\* independently validated for, on formally eligible data, through an enabled
\* binding, and passed its thresholds, also when the route fell back to another
\* model of the binding (inference.py 577-603, registry.py 555-582).
FormalCandidateIsQualified ==
  \A c \in {x \in Calls : calls[x].phase \notin {"NEW", "DENIED"}} : calls[c].candidate =>
    LET q == calls[c].request
        p == Profiles[q.profile] IN
    /\ calls[c].phase = "SUCCESS"
    /\ calls[c].passed
    /\ q.formal /\ q.formalData
    /\ p.formal /\ p.validated
    /\ calls[c].model = p.model
    /\ runtime.binding.enabled /\ calls[c].model \in runtime.binding.allowed
=============================================================================
