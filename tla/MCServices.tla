----------------------------- MODULE MCServices ------------------------------
(***************************************************************************)
(* The services around the task runtime, one run: each behaviour exercises *)
(* one of them, chosen by focus, while the others stay in their initial    *)
(* state.                                                                  *)
(***************************************************************************)
EXTENDS Naturals, Sequences, FiniteSets, TLC, Services

VARIABLE focus

\* A page reads well, lacks its table, is corrupt, or has an empty block.
scan(text, table, hollow) ==
  [text |-> text, table |-> table, formula |-> FALSE, hollow |-> hollow]

scans == {scan("rich", TRUE, FALSE), scan("rich", FALSE, FALSE),
          scan("corrupt", FALSE, FALSE), scan("rich", TRUE, TRUE)}

text == [named |-> FALSE, decodes |-> TRUE, utf8 |-> TRUE, empty |-> FALSE,
         nulPattern |-> FALSE, legacy |-> TRUE]
zip == [valid |-> TRUE, entries |-> TRUE, paths |-> TRUE, expands |-> FALSE, root |-> TRUE]

artifact == [owned |-> TRUE, immutable |-> TRUE, oversize |-> FALSE, readable |-> TRUE,
             executable |-> FALSE, form |-> "pdf", declared |-> "pdf", zip |-> zip,
             text |-> text, content |-> 1, scan |-> scan("rich", FALSE, FALSE), runId |-> "r"]
note == [artifact EXCEPT !.form = "text", !.declared = "text"]

artifacts ==
  { artifact, [artifact EXCEPT !.content = 2], note, [note EXCEPT !.content = 2],
    [artifact EXCEPT !.owned = FALSE], [artifact EXCEPT !.immutable = FALSE],
    [artifact EXCEPT !.oversize = TRUE], [artifact EXCEPT !.readable = FALSE],
    [artifact EXCEPT !.executable = TRUE], [artifact EXCEPT !.declared = "image"],
    [artifact EXCEPT !.form = "ooxml", !.declared = "ooxml", !.zip.expands = TRUE],
    [note EXCEPT !.text.utf8 = FALSE],
    [note EXCEPT !.text.utf8 = FALSE, !.text.legacy = FALSE],
    [note EXCEPT !.text.named = TRUE, !.text.decodes = FALSE, !.declared = "pdf"] }

task(id, class, entries, manifest) ==
  [id |-> id, class |-> class, tools |-> {"read", "write"}, entries |-> entries,
   artifacts |-> {"s"}, manifest |-> manifest, scoped |-> TRUE, files |-> 1,
   immutable |-> TRUE]

tasks == {task(1, "K1", {"e"}, TRUE), task(2, "G1", {"e"}, TRUE), task(3, "K1", {}, FALSE),
          [task(1, "K1", {"e"}, TRUE) EXCEPT !.immutable = FALSE]}

\* Every dependency relation over up to three assignments.
dependencies == UNION {[x -> SUBSET x] : x \in SUBSET {1, 2, 3}}
signals == [task : {1}, general : {FALSE}, human : {FALSE}, async : {TRUE},
            deps : dependencies]
           \cup [task : {1, 2}, general : BOOLEAN, human : BOOLEAN, async : {FALSE},
                 deps : {<<>>, [x \in {1} |-> {}]}]

child(agent, inEntries, inArtifacts) ==
  [agent |-> agent, entries |-> inEntries, artifacts |-> inArtifacts,
   tools |-> {"write", "send"}]
children ==
  {<<>>} \cup UNION {[x -> {child("ut", {}, {"s"}), child("ut", {"f"}, {}), child("ut", {}, {"t"}),
                          child("general", {}, {}), child("new", {}, {})}] :
                    x \in {{1}, {1, 2}}}

adminApproval == [given |-> FALSE, approved |-> TRUE, task |-> 1, sources |-> {"s"}, expired |-> FALSE]
request == [intent |-> "IMPORT", trigger |-> "UI_ACTION", task |-> 1, sources |-> {"s"},
            approval |-> adminApproval]
requests ==
  { request, [request EXCEPT !.task = 2], [request EXCEPT !.task = 3],
    [request EXCEPT !.sources = {"t"}], [request EXCEPT !.sources = {"s", "t"}],
    [request EXCEPT !.intent = "READ_ONLY_QUERY", !.trigger = "USER_INTENT", !.sources = {}] }
  \cup {[request EXCEPT !.trigger = "ADMIN_JOB", !.approval = p] :
          p \in {[adminApproval EXCEPT !.given = TRUE],
                 [adminApproval EXCEPT !.given = TRUE, !.approved = FALSE],
                 [adminApproval EXCEPT !.given = TRUE, !.expired = TRUE],
                 [adminApproval EXCEPT !.given = TRUE, !.sources = {"t"}]}}

agents == [general |-> {"read"}, ut |-> {"read", "write"}, knowledge |-> {"read"}]

binding == [id |-> "b", version |-> 1, environment |-> "LOCAL", endpoint |-> "chat",
            purpose |-> "model", classes |-> {"SYNTHETIC"}, enabled |-> TRUE,
            allowed |-> {"flash", "pro"}, default |-> "flash", fallback |-> <<"pro">>,
            permission |-> "p", scope |-> 1, maxInput |-> 2, maxOutput |-> 1,
            concurrency |-> 1, variable |-> "KEY"]
line == [kind |-> "assign", name |-> "KEY", value |-> "good"]
configuration == [yaml |-> TRUE, file |-> "good", aliases |-> FALSE, catalog |-> "good",
                  envFile |-> "good", expected |-> "LOCAL", lines |-> <<line>>,
                  process |-> "none", binding |-> binding]
configurations ==
  { configuration, [configuration EXCEPT !.binding.fallback = <<>>],
    [configuration EXCEPT !.lines = <<>>, !.process = "good"],
    [configuration EXCEPT !.lines = <<>>, !.binding.enabled = FALSE],
    [configuration EXCEPT !.process = "empty"], [configuration EXCEPT !.yaml = FALSE],
    [configuration EXCEPT !.lines = <<line, line>>],
    [configuration EXCEPT !.binding.environment = "PRODUCTION"],
    [configuration EXCEPT !.binding.maxInput = 5],
    [configuration EXCEPT !.binding.fallback = <<"flash">>],
    [configuration EXCEPT !.catalog = "outside"] }

inference == [fresh |-> TRUE, binding |-> "b", scope |-> 1, network |-> TRUE,
              permissions |-> {"p"}, class |-> "SYNTHETIC", maxInput |-> 2, maxOutput |-> 1,
              model |-> "none", capabilities |-> {"JSON"}, fallback |-> TRUE,
              profile |-> "flash.v1", profileFresh |-> TRUE, method |-> "UT",
              instruction |-> TRUE, processing |-> TRUE, formalData |-> TRUE,
              formal |-> TRUE, oversize |-> FALSE]
inferences ==
  { inference, [inference EXCEPT !.maxInput = 1], [inference EXCEPT !.formal = FALSE],
    [inference EXCEPT !.capabilities = {"JSON", "REASONING"}],
    [inference EXCEPT !.capabilities = {"JSON", "REASONING"}, !.profile = "pro.v1"],
    [inference EXCEPT !.profile = "bad.v1"], [inference EXCEPT !.formalData = FALSE],
    [inference EXCEPT !.oversize = TRUE], [inference EXCEPT !.network = FALSE] }

response == [transport |-> TRUE, status |-> 200, json |-> TRUE, model |-> "flash",
             finish |-> "stop", envelope |-> TRUE, confidence |-> 1, input |-> 1,
             output |-> 1, schema |-> TRUE, metric |-> 2]
responses ==
  UNION {{ [response EXCEPT !.model = m], [response EXCEPT !.model = m, !.metric = 1] } :
           m \in {"flash", "pro"}}
  \cup { [response EXCEPT !.transport = FALSE], [response EXCEPT !.status = 503],
         [response EXCEPT !.finish = "length"], [response EXCEPT !.finish = "content_filter"],
         [response EXCEPT !.input = 0, !.output = 2], [response EXCEPT !.input = 4],
         [response EXCEPT !.schema = FALSE], [response EXCEPT !.envelope = FALSE] }

profile(model, isFormal) ==
  [model |-> model, formal |-> isFormal, validated |-> isFormal, methods |-> {"UT"},
   declared |-> {"MODEL_PROVIDER_UNAVAILABLE"}, retryable |-> {"MODEL_PROVIDER_UNAVAILABLE"},
   threshold |-> 2, concurrency |-> 1]
model(capabilities) ==
  [capabilities |-> capabilities, window |-> 4, maxOutput |-> 2, version |-> 1,
   protocols |-> {"openai"}]

provider == [version |-> 1, production |-> FALSE, verified |-> FALSE, purpose |-> "model",
             classes |-> {"SYNTHETIC"}, endpoints |-> [chat |-> "openai"], route |-> TRUE]
models == [flash |-> model({"TEXT", "JSON"}), pro |-> model({"TEXT", "JSON", "REASONING"})]
profiles == ("flash.v1" :> profile("flash", TRUE)) @@ ("pro.v1" :> profile("pro", FALSE))
            @@ ("bad.v1" :> [profile("pro", TRUE) EXCEPT !.validated = FALSE])

endpoint == [environment |-> "LOCAL", loopback |-> TRUE, wellFormed |-> TRUE, kind |-> "HTTPS",
             scheme |-> "http", unverified |-> FALSE, verified |-> FALSE, sslmode |-> FALSE]
postgres == [endpoint EXCEPT !.kind = "POSTGRES", !.scheme = "postgresql+asyncpg"]

endpoints == {endpoint, [endpoint EXCEPT !.environment = "PRODUCTION"], postgres,
              [postgres EXCEPT !.loopback = FALSE],
              [endpoint EXCEPT !.kind = "REDIS", !.scheme = "rediss", !.verified = TRUE]}

draft == [id |-> "c", applies |-> "APPLICABLE", critical |-> FALSE, formal |-> FALSE,
          human |-> FALSE, supports |-> {[chunk |-> "k1", quoted |-> TRUE]}]
question == [task |-> 1, missing |-> FALSE, supported |-> TRUE, corpus |-> {"k1"},
             incomplete |-> FALSE, claims |-> {draft}]
questions ==
  { question, [question EXCEPT !.missing = TRUE],
    [question EXCEPT !.claims = {[draft EXCEPT !.formal = TRUE, !.human = TRUE]}] }

basis == [id |-> "b", claim |-> "c", chunk |-> "k1", standard |-> "s1"]
planCandidate ==
  [task |-> 1, id |-> 1, qaScoped |-> TRUE, methods |-> {"UT"}, requested |-> {"UT"},
   bases |-> {basis}, inOntology |-> TRUE, absent |-> {}, gaps |-> <<>>, sections |-> TRUE,
   sampled |-> {"q"}, quantities |-> {"q"}, accepted |-> {"b"}]
planCandidates ==
  { planCandidate, [planCandidate EXCEPT !.bases = {[basis EXCEPT !.standard = "s2"]}],
    [planCandidate EXCEPT !.absent = {"objective"}],
    [planCandidate EXCEPT !.gaps = [objective |-> "open"]] }

dataset ==
  [task |-> 1, scoped |-> TRUE, method |-> "UT", candidateMethod |-> "UT", calibratedFrom |-> 1,
   acquired |-> 1, calibratedTo |-> 2, source |-> "ds", candidateSource |-> "ds",
   versions |-> TRUE, parameters |-> TRUE, withinBudget |-> TRUE, adapterCalls |-> 1,
   attempts |-> 1, externalCalls |-> 0, figures |-> TRUE, status |-> "SUCCESS",
   explained |-> FALSE, quality |-> TRUE, origin |-> "PRODUCTION", run |-> "n1", output |-> 1,
   settings |-> TRUE, applicable |-> TRUE, calibrationKind |-> TRUE, signal |-> TRUE,
   methodParameters |-> TRUE,
   observations |-> [x \in {"o1", "o2"} |->
                       [traced |-> "ds", registered |-> TRUE, dimension |-> "LENGTH",
                        value |-> IF x = "o1" THEN 1 ELSE 3]]]
datasets == { dataset, [dataset EXCEPT !.origin = "SIMULATED", !.acquired = 3],
              [dataset EXCEPT !.quality = FALSE] }

finding == [id |-> "f", critical |-> FALSE, human |-> FALSE, observations |-> {"o1"},
            calculations |-> {"m"}, bases |-> {"b"}]
mean == [id |-> "m", formula |-> "MEAN", inputs |-> {"o1", "o2"}, dimension |-> "LENGTH",
         value |-> 2]
\* Evidence of an earlier run of the same data, with another output.
earlier == [sources |-> {[dataset |-> "ds", method |-> "UT", calibrated |-> TRUE, scoped |-> TRUE]},
            runs |-> {[run |-> "n0", dataset |-> "ds", output |-> 0, scoped |-> TRUE]},
            observations |-> [x \in {"o1", "o2"} |->
                                [run |-> "n0", dataset |-> "ds", scoped |-> TRUE,
                                 dimension |-> "LENGTH", value |-> 2]]]
reportCandidate ==
  [task |-> 1, planId |-> 1, revision |-> 1, revisions |-> <<1>>, sections |-> TRUE,
   figures |-> {"o1"}, calculations |-> {mean}, findings |-> {finding}, evidence |-> {},
   conclusion |-> [formal |-> FALSE, human |-> FALSE, findings |-> {"f"}]]
reportCandidates ==
  { [reportCandidate EXCEPT !.evidence = {earlier}],
    [reportCandidate EXCEPT !.revision = 2, !.revisions = <<1, 2>>],
    [reportCandidate EXCEPT !.findings = {[finding EXCEPT !.critical = TRUE, !.human = TRUE]}],
    [reportCandidate EXCEPT !.planId = 2, !.calculations = {[mean EXCEPT !.formula = "SUM"]}] }

theMethods == {"UT", "RT"}
standardOf == [k1 |-> "s1"]

\* A standard, its replacement, and one of another lineage it cannot replace.
standard(i, lineage, replaces) ==
  [id |-> i, lineage |-> lineage, lifecycle |-> "CURRENT", usable |-> TRUE,
   effective |-> 0, expiry |-> 1, replaces |-> replaces]

piece(key, std, ok) == [key |-> key, doc |-> key, chunk |-> key, std |-> std, sound |-> ok]

batches == {{piece("A", 1, TRUE)}, {piece("A", 1, TRUE), piece("B", 1, TRUE)},
            {piece("A", 1, FALSE)}}
standardVersions == {standard(1, "x", {}), standard(2, "x", {1}), standard(3, "y", {1})}

\* What the proofs assume of the constants.
ASSUME ServicesAssumption ==
  /\ Rel!IdentifierFacts
  /\ {MaxEvents, DefaultDays, AuditDays} \subseteq Nat
  /\ \A r \in Registrations : r.days \in Nat
  /\ \A s \in Signals : IsFiniteSet(DOMAIN s.deps)
  /\ \A cfg \in Configurations : cfg.binding.fallback \in Seq(STRING)
  /\ 0 \notin Distillations
  /\ Versions \subseteq Nat \ {0} /\ 1 \in Versions /\ Readers \subseteq Threads

\* Ids are interchangeable: those of one kind come into use in this order.
taken(f, id) == f[id] # Rel!NoRecord
idsInOrder ==
  /\ taken(candidate, "c2") => taken(candidate, "c1")
  /\ taken(publication, "p2") => taken(publication, "p1")
  /\ taken(operation, "o2") => taken(operation, "o1")
  /\ taken(checkpoint, "a2") => taken(checkpoint, "a1")
  /\ taken(checkpoint, "a3") => taken(checkpoint, "a2")

keeper == [scope |-> "p", permissions |-> {"register", "export", "delete", "hold", "erase"},
           clearance |-> "INTERNAL"]
registered == [type |-> "report", class |-> "INTERNAL", days |-> 0, key |-> "own"]

previewTargets == {{1}, {1, 2}}
accesses == {keeper, [keeper EXCEPT !.scope = "q", !.permissions = {"delete", "hold"}]}
registrations == {registered, [registered EXCEPT !.type = "audit", !.class = "RESTRICTED",
                                                 !.key = "shared"]}
grants == {[scope |-> "p", outcome |-> "APPROVED", brief |-> TRUE]}

author == [user |-> "u", permissions |-> {"USER", "PROJECT", "CANDIDATE"} \X {"read", "write"},
           clearance |-> 1, signals |-> {"TURN_COUNT"}, older |-> 1]
proposal(scope, value, expires) ==
  [kind |-> "FACT", scope |-> scope, key |-> "k", value |-> value, class |-> 1,
   expires |-> expires]

memoryRequests ==
  {author, [author EXCEPT !.user = "v"], [author EXCEPT !.signals = {}],
   [author EXCEPT !.permissions = @ \ {<<"PROJECT", "write">>}]}
outputs == {[attested |-> TRUE, proposals |-> s] :
              s \in {<<proposal("USER", 1, 0)>>, <<proposal("USER", 3, 0)>>,
                     <<proposal("USER", 1, 2), proposal("PROJECT", 2, 0)>>,
                     <<proposal("PROJECT", 2, 0), proposal("PROJECT", 3, 0)>>}}
           \cup {[attested |-> FALSE, proposals |-> <<>>]}
direct == {[id |-> <<"approved", 1>>, user |-> "u", scope |-> "PROJECT", key |-> "k",
            content |-> <<"k", 4>>, class |-> 1, state |-> "APPROVED", expires |-> 0, created |-> 1]}

owner == [scope |-> "p", permissions |-> {"snapshot", "restore"}]
shape == [scope |-> "p", supported |-> TRUE, artifacts |-> {"x", "y"}]

shapes == {shape, [shape EXCEPT !.supported = FALSE]}
callers == {owner, [owner EXCEPT !.scope = "q"]}
rankings == {<<>>, <<[snapshot |-> 1, score |-> 95], [snapshot |-> 2, score |-> 83]>>,
             <<[snapshot |-> 1, score |-> 95], [snapshot |-> 2, score |-> 84]>>}

\* Two owners on one database at once, with a professional task.
class == [x \in {"t"} |-> "P1"]

benchVars == <<events, reviewed, exec, up, run, fill, watch, bodies, faults>>
relVars == <<standards, candidate, publication, head, index, operation, checkpoint, commit,
             retrieved>>
streamVars == <<lastSequence, ended, foreign, version, waiters, writer, stream, bound>>
lifeVars == <<now, objects, holds, previews, completed, approvals, removal, keysRevoked>>
memoryVars == <<memoryTime, records, distill>>
restoreVars == <<restoreTime, snapshots, present, call, shown, decided, answered>>
proVars == <<publishedChunks, applicable, asked, answers, plans, processed, methods, reports,
             reviews, professionalApproval>>
impVars == <<changed, intake, pipeline, outputDirs, processes>>
mainVars == <<routed, contexts, entered>>
modelVars == <<runtime, calls, guard, threads>>
securityVars == <<secrets, current, keys, active, available, ops, leases, revoked, audit,
                  service, transport>>

Focuses == {"import", "main", "model", "security", "professional", "release", "stream",
            "lifecycle", "memory", "restore", "overlap"}

vars == <<focus, impVars, mainVars, modelVars, securityVars, proVars, relVars, streamVars,
          lifeVars, memoryVars, restoreVars, benchVars>>

Init ==
  /\ focus \in Focuses
  /\ Imp!Init
  /\ Main!Init
  /\ Inf!Init
  /\ Pro!Init
  /\ Sec!Init /\ (focus # "security" => service = "key")
  /\ Rel!Init
  /\ Stream!Init /\ (focus # "stream" => bound)
  /\ Life!Init
  /\ Mem!Init
  /\ Back!Init
  /\ Bench!Init

Next ==
  /\ UNCHANGED focus
  /\ \/ focus = "import" /\ Imp!Next
        /\ UNCHANGED <<mainVars, modelVars, securityVars, proVars, relVars,
                        streamVars, lifeVars, memoryVars, restoreVars, benchVars>>
     \/ focus = "main" /\ Main!Next
        /\ UNCHANGED <<impVars, modelVars, securityVars, proVars, relVars,
                        streamVars, lifeVars, memoryVars, restoreVars, benchVars>>
     \/ focus = "model" /\ Inf!Next
        /\ UNCHANGED <<impVars, mainVars, securityVars, proVars, relVars,
                        streamVars, lifeVars, memoryVars, restoreVars, benchVars>>
     \/ focus = "security" /\ Sec!Next
        /\ UNCHANGED <<impVars, mainVars, modelVars, proVars, relVars,
                        streamVars, lifeVars, memoryVars, restoreVars, benchVars>>
     \/ focus = "professional" /\ Pro!Next
        /\ UNCHANGED <<impVars, mainVars, modelVars, securityVars, relVars,
                        streamVars, lifeVars, memoryVars, restoreVars, benchVars>>
     \/ focus = "release" /\ Rel!Next /\ idsInOrder'
        /\ UNCHANGED <<impVars, mainVars, modelVars, securityVars, proVars,
                        streamVars, lifeVars, memoryVars, restoreVars, benchVars>>
     \/ focus = "stream" /\ Stream!Next
        /\ UNCHANGED <<impVars, mainVars, modelVars, securityVars, proVars,
                        relVars, lifeVars, memoryVars, restoreVars, benchVars>>
     \/ focus = "lifecycle" /\ Life!Next
        /\ UNCHANGED <<impVars, mainVars, modelVars, securityVars, proVars,
                        relVars, streamVars, memoryVars, restoreVars, benchVars>>
     \/ focus = "memory" /\ Mem!Next
        /\ UNCHANGED <<impVars, mainVars, modelVars, securityVars, proVars,
                        relVars, streamVars, lifeVars, restoreVars, benchVars>>
     \/ focus = "restore" /\ Back!Next
        /\ UNCHANGED <<impVars, mainVars, modelVars, securityVars, proVars,
                        relVars, streamVars, lifeVars, memoryVars, benchVars>>
     \/ focus = "overlap" /\ Bench!Next
        /\ UNCHANGED <<impVars, mainVars, modelVars, securityVars, proVars,
                        relVars, streamVars, lifeVars, memoryVars, restoreVars>>

Spec == Init /\ [][Next]_vars
=============================================================================
