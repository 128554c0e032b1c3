# NDT-Agents: TLA+ verification project

NDT-Agents is a multi-tenant agent platform for non-destructive testing, written in Python on
asyncio. A main agent routes a task to a general or to professional child agents; everything a task
does is bounded by a budget, scheduled in dependency waves, checkpointed for recovery, reviewed and,
where a person must decide, held at an approval checkpoint. This directory models the parts of
`src/ndt_agents` where order, concurrency and failure decide whether that is correct.

Paths below are relative to the repository; `budget.py` and the like are files of
`src/ndt_agents/orchestration` unless a package is named.

## 1. Inventory

| Component | State it keeps | Operations | What is hard | What makes it correct |
|---|---|---|---|---|
| Budget guard (`budget.py`) | counters per dimension, graph-step reservation, open LLM and tool reservations, slots, action history, elapsed time | record and reserve steps, begin/complete LLM and tool calls, reviews, slots, telemetry, restore | several reservations open at once, restore after a crash, limits met exactly | no counter passes its active limit, durable usage never shrinks, slots are neither lost nor released twice, no repeated call |
| Recovery runtime (`recovery.py`) | request claims, checkpoint log, interrupts, assignment outputs, side-effect journal | submit, advance, resume, request_interrupt, execute_side_effect | no lease: concurrent calls and calls after a crash work on one run | an operation is invoked at most once, log is append-only, results are final, steps of lost attempts are charged |
| Scheduler (`scheduler.py`) | queued schedules, terminal results | run_sync, enqueue, advance, cancel, cancel_assignment | children in parallel, shared guard, aborted callers | prerequisites first, mutating work alone, a complete result |
| Child subgraph (`subgraph.py`) | transitions of one child | observe, plan, act, verify | charged inside an attempt | never more than four charged steps |
| Workbench coordinator (`client/service.py`, `client/sqlite_repository.py`) | tasks, event histories, execution claims with leases, active executions, watcher | create_and_schedule, claim, append, reconcile, watch, stop | restart at any step, leases that run out, two owners, database busy | a task is started once, its history is lawful, interrupted tasks are blocked |
| Workbench executors (`client/execution.py`) | the task they hold | execute | stale sequence numbers in except clauses | success only through review |
| Event stream (`client/service.py` 530-571, 735-762) | generation per task, waiters | publish, wait, stream | event between read and wait | no event is missed or sent twice |
| Approval service (`approval/service.py`) | hash-chained journal per checkpoint | create, delegate, decide, expire, cancel, resume | check-then-append without a lock | authority, distinct approvers, one grant |
| Review graph (`review.py`, `review_recovery.py`) | versions and verdicts of one call, recovery journal | run, replay | bounded rounds and no repeated call across a crash, overlapping calls | nothing is aggregated that was not passed as it is |
| Delegates and configured runtimes (`general_model_delegate.py`, `professional_model_delegate.py`, `configured_runtime.py`) | a guard per call | execute a child | guards of their own | usage counts against the task |
| Main graph, routing, contexts, knowledge entry (`main_graph.py`, `routing.py`, `child_context.py`, `knowledge/entry.py`) | none between calls | route, project a context, start | cyclic dependencies, order of checks | dispatched is exactly what can be ordered |
| Knowledge release (`knowledge/release.py`, `standards.py`, `retrieval.py`) | candidates, publications, corpus head, index snapshots, standards | create, validate, review, approve, publish, withdraw, roll back, retrieve | several grants held at once, head that moves before a commit | the index serves the head, every publication has its approval |
| Knowledge import (`knowledge/intake.py`, `parsing.py`, `fallback.py`, `normalization.py`) | intake records, output directories, documents of the stages | intake, parse, fall back, normalize | files that change, parser processes, merge of partial documents | a parser runs once per run ID and stage, a page that passed is kept |
| Tool registry, function gateway, adapter SDK (`tools/registry.py`, `function_gateway.py`, `adapter_sdk.py`) | definitions, idempotency journal, permits, reservations | register, load catalog, invoke, replay | timeout, exception, second call while the first runs | one execution and one result per key, reservations come back |
| MCP gateway (`tools/mcp_gateway.py`) | manifests, records of remote tasks | discover, invoke, poll, cancel | lost and confused replies, poll racing cancel | one outcome is told, the one the remote task had or the one a poll was misled to |
| File gateway (`tools/file_gateway.py`) | files, version store and table | list, search, read, write, edit, roll back, execute | writes that fail between two steps | what an edit replaced is kept, a refusal changes nothing |
| Web search and cache (`tools/web_search.py`, `cache/service.py`) | policy, cache entries | search, open, get, put, invalidate | slow searches, redirects, policy changes | evidence is admissible and fresh |
| Models (`models/`) | registry, profiles, reservations of the guard | load, route, infer | timeout, cancellation, thread that goes on | tokens are reserved for calls that wait and no others, formal use is qualified |
| Professional work (`professional/`) | results, reviews, approval | answer, plan, process, report, review, approve | evidence about another revision, standards withdrawn meanwhile | what is approved was reviewed as it is and is grounded |
| Data lifecycle (`lifecycle/service.py`) | objects, holds, previews, approvals | register, export, delete, hold, erase | hold between preview and deletion | nothing is removed under a hold or without an approval, nor, of what an approved preview names, against retention |
| Memory (`memory/`) | records, snapshots, decisions | put, query, distill, preview, confirm, cancel | two distillations, confirmation racing cancellation | clashes with what was read are reported, one decision |
| Security and audit (`security/`, `observability/audit.py`) | secrets, keys, leases, audit chain | resolve, read, rotate, revoke, encrypt, decrypt | audit that fails in the middle | no change without authorization |
| Context assembly, identity, operations, storage adapters | none of their own, or behind a port | transform, check, store | | |

Interaction: the Workbench coordinator claims a task and calls an executor; the executor starts a
configured runtime, which routes, builds child contexts and hands them to the scheduler, directly or
through the recovery runtime; children run their subgraph under the budget guard; reviewed results
are aggregated and appended to the task's history. Approval checkpoints are read and written by
knowledge release, professional approval and destructive operations. Everything in one process runs
on one event loop: control changes hands at `await` only, but the durable tables are shared with
other processes and survive a crash.

The hazards that follow from this, each with its line and with the properties that look for it, are
listed in `PROJECT.json` under `hazards`.

## 2. Modules

| Module | Models | Kind |
|---|---|---|
| `BudgetGuard` | `BudgetGuard` with telemetry and restore | component |
| `RecoveryRun` | what a recovery run promises: accepted, attempts, one result, one end | abstract specification |
| `TaskRecoveryRuntime` | `TaskRecoveryRuntime`, its backend, `RecoveryControl` and `_DurableExecutor` | component, implements `RecoveryRun` |
| `TaskScheduler` | `TaskScheduler` on a shared guard | component |
| `WorkbenchExecution` | `WorkbenchRuntime`, its repository and the executors | composition |
| `ApprovalService` | one checkpoint of `ApprovalService` | component |
| `ReviewGraph` | `ReviewWorkflow` under `RecoverableReviewWorkflow`, one recovery ID | component |
| `MainGraph` | `RulesFirstRouter`, `MainGraph`, `ChildContextFactory`, `AgentRegistry`, `KnowledgeEntryGraph` | component |
| `AdapterSdk` | `AdapterRegistration`, `RegisteredAdapter` | operators |
| `ToolGateway` | `FunctionGateway` over `ToolRegistry`, with `AdapterSdk` | composition |
| `McpGateway` | `McpGateway`, `McpOperationAdapter` and their state | component |
| `FileGateway` | `ControlledFileGateway` | component |
| `WebSearch` | `WebSearchAdapter` over `CacheService` | composition |
| `KnowledgeImport` | `KnowledgeIntakeService`, `MinerUAdapter`, `ParserFallbackPipeline`, `KnowledgeNormalizer` | composition |
| `KnowledgeRelease` | `KnowledgeReleaseService`, its repository, `StandardCatalog`, `InMemoryKnowledgeIndex` | composition |
| `ModelInference` | configuration, `ModelApiRegistry`, `InspectionModelProfileRegistry`, `ModelInferenceGateway`, DeepSeek provider | composition |
| `SecurityServices` | `SecretManager`, `EnvelopeEncryptionService`, their providers, `TransportSecurityService`, audit chain | composition |
| `ProfessionalSkills` | what the five professional skills make of a candidate | operators |
| `ProfessionalWorkflow` | skills, `ProfessionalReviewService`, `ProfessionalApprovalService` for one task | composition |
| `EventStream` | `stream_events`, `_NotifyingTaskRepository`, `_TaskEventSignal` | component |
| `DataLifecycle` | `DataLifecycleService` | component |
| `MemoryDistillation` | `MemoryStore`, `MemoryDistillationPipeline` | composition |
| `MemoryRestore` | `MemoryRestoreService` | component |
| `Refusals` | the first of a list of checks that applies gives the error code | helper |
| `Services` | `WorkbenchExecution`, `MainGraph`, `ModelInference`, `KnowledgeImport`, `KnowledgeRelease`, `ProfessionalWorkflow`, `MemoryDistillation`, `MemoryRestore`, `EventStream`, `DataLifecycle` and `SecurityServices` side by side, with their properties | instances |
| `Gateways` | `ToolGateway`, `McpGateway`, `FileGateway` and `WebSearch` side by side, with their properties | instances |
| `MC...` | instances for TLC; `MCServices` extends `Services`, `MCTools` extends `Gateways` | model checking |
| `TaskRecoveryProofs`, `ApprovalProofs`, `ReviewGraphProofs`, `BudgetGuardProofs`, `TaskSchedulerProofs` | theorems about the module of that name | proofs |
| `WorkProofs` | theorems about the instances of `Services` that do the work: workbench, routing, models, import, release, professional work, distillation | proofs |
| `ServiceProofs` | theorems about its other instances (event stream, restore, lifecycle, secrets and keys) and about those of `Gateways` | proofs |
| `ProofLemmas` | lemmas that several of these cite: least elements, iterated functions, sums over a function, refusals | proofs |

Definitions named `...Unbounded`, `...Twice` and the like under a comment that begins with "Mutant"
are deliberately wrong variants of the definition that follows them; no specification uses them.
They document what each property can detect (`PROJECT.json`, `mutants`).

### BudgetGuard

One variable per group of counters. Every public method is an action; a method that raises
`BudgetExceeded` consumes nothing, so a denial is the action being disabled. The one exception is
`complete_llm_call`, which charges what the provider reports and raises afterwards.
`_ensure_capacity` and `_check_time` are `HasCapacity` and `TimeLeft`; the degradation stages compare
used with active limits in the code's integer ratios. `Persist` takes a telemetry snapshot at any
time, and `Restore` replaces the guard by `from_telemetry` of the last one: what happened in between
is lost, as in the code. Tool signatures and observations are model values, and the window of ten
remembered calls is the constant `HistoryWindow`. The policy is chosen with the guard, from the set
`Policies`, and never replaced.

### TaskRecoveryRuntime

State: the claim, the checkpoint log, the interrupt flag, the assignment outputs and the side-effect
journal are the backend and survive a crash; `pc`, `base`, `pending`, `budget` and `child`
hold, for each call, where it is between two `await`s, the snapshot it works from, the one it is about
to append, its guard and its children. Every await of `submit`, `advance`, `resume` and
`execute_side_effect` separates two actions, so two callers interleave there, and `Crash` forgets a
call at any point. There is no lease in the code: a call that loads a `RUNNING` checkpoint takes it
for a lost attempt. The budget is the number of graph steps used and reserved in the checkpoint's
telemetry. `RecoveryRun` is the abstract view: `Accept`, `Attempt`, `Deliver`, `Interrupt`,
`Finalize`, `Stop` over a phase, a result and an attempt counter; the refinement mapping reads them
from the last checkpoint.

### TaskScheduler

A plan is a sequence of assignments with dependencies, side-effect classes and a budget policy. `Wave`
is computed in rounds the way `_topological_waves` does it, and `wave` is the `wave_number` an
execution has come to.
Inside a wave the read-only assignments run in batches of the active limit and the mutating ones
alone. `Launch` takes a slot from the shared guard or is denied; `Abort` is the cancellation of the
caller of `advance` or `run_sync`.

### WorkbenchExecution

An owner is one incarnation of the process. `Script` is the sequence of appends an executor makes
and where it goes when one is refused: to its own except clause (with the sequence number it knew when
it began) or to the rescue of `_execute_claimed`. Every operation of the repository is one transaction and
one step, and any of them may fail (`OneFault`, the `WorkbenchPersistenceError` of `_translated`): the
claims of a fill, the appends, the scan of `_reconcile_expired_executions`, and for each task it found
the read (`ReadOrphan`) and the append of the blocking event (`AppendBlocked`), whose refusal by a stale
sequence number is swallowed. A failure in the scan of `start` ends the start (`GoesDown`), one in
`_watch_foreign_leases` ends the watcher (`WatchFails`), one in a fill ends that fill (`FillFails`). The
batch limit of the scan is larger than the number of tasks, so its limit error does not occur. A lease
is a number of ticks left, and `Tick` may come between any two steps. `Crash` stands for the death of
the process and for `stop()`, which cancels everything and writes nothing.

### ApprovalService

The journal is a sequence of events; the status is derived from what a call has read. Each operation is
`ReadStatus`, then the operation's checks, then `Audit`, then `AppendEvent`; others may append in
between. `decide` reads the clock twice, for the check of the delegate and for the time it stamps the
decision with; the record keeps the first as `checked`, and `Stamped` puts in the second, so a
delegation, or the candidate, may run out between them. The rule of the checkpoint's kind is chosen from
the set `Rules`; `raced` remembers whether two calls have ever overlapped. A denied call, and a call with
an ID that is already known, changes nothing (`End`). Hashes are the values they stand for. The actor's
scope check is left out: a caller of another project fails before anything else.

### ReviewGraph

`work[r]` holds the locals of one call of `run`: where it is, the version, verdict and correction count
of each assignment, the assignments pending in this round, and its guard's rounds and steps. The
journal and nothing else survives a crash; a call that finds no result in it starts over from the
initial budget and takes committed outputs from it (`Replay`) until one is missing (`Ask`). A context
is the record of what its hash depends on, so two calls share an output exactly when the code's
signatures agree. Limits and the clock can end the graph at each `record_*` call (`BudgetStop`); an
executor that raises or times out ends it without a journal entry, an invalid answer after one. One
event loop runs all calls, so a call gives way only while an executor is awaited (`Scheduled`); a
cached output is returned without a pause (Python 3.12, which the project requires, awaits it inside
the same task). `Cancel` ends one call where it is suspended, `Crash` ends all of them anywhere.

### MainGraph

Nothing in it suspends, so a step is a whole call and a state holds what it answered. `Route` follows
`route` check by check; `Cyclic` removes assignments without open dependencies until none is left to
remove, as `_validate_acyclic` does, and `RoutedIsOrdered` compares the outcome with the definition of
an order. `Prepared` and `EntryResult` run the same values through the child contexts and the
knowledge entry graph.

### ToolGateway, AdapterSdk

A call of `invoke` is one step up to the semaphore (`Deny...`, `Replay` or `Start`, which claims the
journal entry and a reservation), then `Acquire`, then `Return`, `Timeout` or `Raise`. `Raise` is the
cancellation of the caller, which `invoke` does not catch: reservation and journal entry stay.
`AdapterSdk` gives the result that `RegisteredAdapter.execute` makes of any reply of a provider, and what
is known of its bytes: `Envelope` is oversize when a provider names a calibration long enough to pass
the 250,000 bytes the definition grants beyond the output. `ResultValid` is the registry's check of it,
size and schema included; a refused result leaves the call `refused`, its reservation returned and its
journal entry uncommitted.

### McpGateway

An operation checks its preconditions and sends (`SendDiscover`, `SendInvoke`, `SendContinue`), waits in
the transport, and applies the reply to the state it then finds (`End...`). The server is external:
it may act and the reply be lost (`Disconnect`), finish a task by itself, or offer another schema.
Its tasks (`RemoteTasks`) are not the gateway's handles: an acceptance of another run's task gives a new
handle for that task. `ServerConfuses` answers any request with anything that is true of some request
(`Statements`): an acceptance or a report of another task, or the completion of anything, which carries no
task. `misled` remembers the handles whose poll was answered with a completion that was not theirs.

### FileGateway

Reading operations await a subprocess and are two steps; `Write`, `Edit` and `Rollback` do not suspend and are
one, but the file operations inside them can fail one by one, and what the earlier ones did
remains. A content stands for its hash.

### WebSearch

`Start` looks into the cache; each answer of the provider to a query or an open is a step, and
`Conclude` belongs to the last one. Two searches share the cache, their policies may differ, and the
clock moves at any time.

### KnowledgeImport, KnowledgeRelease

An import is an intake followed by up to three parser stages; a call suspends while a parser process or an
OCR engine runs, and `SourceChanges` may replace the file at any time. A page is reduced to what
the quality gate measures. In `KnowledgeRelease`, `Publish` and `Act` read and obtain a grant and the
`Commit...` actions follow later, as the repository checks the head under its lock. The approval
service is abstracted to one decision per checkpoint (`ApprovalService` models it). `Validate` is one
step, although `release.py:599-628` reads and writes the candidate without a guard: a validation that ends
late puts a candidate back to `REVIEW_REQUIRED`, and it is reviewed again. No property is about that.

### ModelInference

`Load` evaluates one configuration with all its early returns; `Infer` is `infer` up to the await of
the provider, `Answer`, `Timeout` and `Cancel` are what ends it. The HTTP call runs in a worker thread
that a timeout does not stop (`LateAnswer`). Only the token reservations of the guard are kept here.

### SecurityServices

Every provider call is atomic under its lock and a service makes several with audit records in between, so
`StartMutation`, `RecordAuthorized` and `MutateSecret` or `MutateKey` are steps of a thread. The audit
may fail at each record.

### ProfessionalSkills, ProfessionalWorkflow

A candidate is a record of what the checks ask of it; a skill maps it to a result with a status
and whether there are issues. The workflow lets callers submit any result with any review evidence they
hold, and lets the knowledge release withdraw what a result rests on. The review graph is its
outcome (`ReviewGraph` models its rounds).

### EventStream

A writer commits an event and publishes in a second step; a stream reads the generation, reads a batch and
waits, in that order, as separate steps. A second process commits without publishing. A bounded
stream ends at its batch limit or by the timeout and is reopened after the last event it delivered.

### DataLifecycle, MemoryDistillation, MemoryRestore

Lifecycle calls do not suspend: a step is a call, and any call may come between a preview and
its deletion. A preview is a value the caller holds: `sha` is what its hash was computed over, and
`Presented` has every preview handed out and every copy of it under the same hash with other objects,
scope or mode, because `delete` compares the hash with the approval and does not compute it again. In
the memory modules every await of a port (distiller, repository, matcher, artifact store) separates two
steps. `Query` answers with the oldest matching records up to `ShownLimit` (500 in the code), in any order
among those of one time; `base` and `last` are how many records there were at the two reads of a run.

## 3. Runs

| Run | Question | Bounds |
|---|---|---|
| `budget` | counters, reservations, slots, repetition history under interleaved calls and restore, at every degradation stage | three policies: 8 graph steps, 1 slot, 1 round; 3 LLM calls, 6 tokens; 4 tool calls, window 2 |
| `recovery_safety` | journal, outputs, charging and refinement with two calls at once | two dependent children, one side-effect ID, two requests, one interrupt, one crash, steps for two attempts |
| `recovery_live` | a run settles | one child, two calls, one crash, one interrupt |
| `scheduler` | waves, batches, slots, results; every execution ends | two schedules, three plans of one to three assignments, two slots |
| `workbench_live` | a process and its successor: claimed tasks end, watched interrupted tasks are blocked | a Professional task and one of a denied class, one fault at any operation, lease of one tick, two sweeps |
| `workbench_orphan` | contract: interrupted tasks become BLOCKED; violated | one task |
| `approval` | authority, grants, journal, audit trail when calls race; uniqueness as long as they do not | release and plan rule, two calls, three IDs, validity of two ticks |
| `approval_grants` | contract: a second resume is denied; violated by a race | the plan rule |
| `review` | what is aggregated was passed in exactly its final form, replay repeats nothing, one result, bounded work, every call ends | two assignments, two versions, one correction round (hard limit two), three review rounds, one crash or cancellation, second call overlapping once five outputs are committed |
| `tools` | one execution and one result per key, reservations returned, remote tasks accounted for, edits kept, evidence admissible and fresh | one tool of two kinds, three calls, one key, two inputs, two gateways; two MCP operations, handles and remote tasks, one manifest; two file callers, one editable file; two searches, two policies, one tick |
| `services` | one question per service, see below | see below |
| `key_revoked` | contract: revoked keys are unusable; violated by revoke and rotate | two versions, two threads |

`tools` and `services` hold several components that do not share state. The variable `focus` is chosen
in the initial state and only the component it names moves, so a run is the union of the state
spaces and not their product. What `services` checks, by focus:

| Focus | Properties | Bounds |
|---|---|---|
| `import` | `ImportIsSound` | two imports, two pages, three stages, fourteen artifacts, four readings of a page |
| `main` | `RoutedIsOrdered` | every dependency relation over at most three assignments |
| `model` | `ReservationsAreOutstanding`, `FormalCandidateIsQualified` | three calls, eight tokens, eleven configurations, nine requests, twelve responses |
| `security` | `MutationsAreAuthorized` | two threads, one of which also leases the secret, two versions |
| `professional` | `ApprovedResultIsReviewed`, `ApprovedReportIsGrounded` | one standard, one plan, two reports, one review workflow |
| `release` | `ServedIsCurrent`, `PublicationIsAuthorized` | two threads, candidates, publications and operations, three approvals, three standards |
| `stream` | `WaitingStreamIsComplete` | two streams, two writers, three events |
| `lifecycle` | `RemovalIsGoverned` | two objects, three approvals, one preview and its altered copies, one tick |
| `memory` | `ClashesAreReported` | two runs, two users, four values of one key, a query of one record |
| `restore` | `RestoreDecidedOnce` | one snapshot, two calls, two artifacts |
| `overlap` | `StartedAtMostOnce`, `SuccessIsOneReviewedRun` | two owners at the same time, one professional task |

A property that has several parts (`WavesAreSound`, `SlotsAreSound`, `RunIsAccounted`, `JournalIsLawful`,
`SequentialCallsAreUnique`, `SequentialReviewIsOne`, `IdempotencyHolds`, `RemoteTaskIsAccounted`, `FilesAreSafe`,
`EvidenceIsSound`, `ImportIsSound`) is a conjunction of named definitions, each with its comment.

The bounds are the smallest in which the cases the properties are about happen: two calls, threads or
owners because every race in the code is between two; one crash at any step, because what it loses does
not depend on earlier ones; a wave with a read-only and a mutating member behind a prerequisite is three
assignments, and so is the shortest cycle that is not a pair; limits of a few units because every check
compares a sum with a limit, and these limits are met exactly and exceeded by one. A query of one record
stands for one of 500: a record is shown or is cut off. Children of one attempt that run side by side are
not in `recovery_safety` (its two are a chain); the theorems of section 4 cover them.

Deadlock checking is off where the system may rest: a run that has settled, a guard at its limits, a
coordinator with nothing to do, a service nobody calls.

### Findings

1. `client/service.py:856`: a lease that runs out between the scan of `start()` and the watcher's first
   look leaves its task `RUNNING` (`workbench_orphan`).
2. `approval/service.py:736`: overlapping `resume` calls with different IDs both get a grant
   (`approval_grants`).
3. `security/crypto.py:122`: rotating after the active key was revoked makes the revoked key
   `DECRYPT_ONLY` again (`key_revoked`).

### Observations

Behaviour the models show about which no document makes a definite promise, or that is plain to see:

- `budget.py:644` remembers ten tool calls, while `docs/contracts/budget-guard-v1.md:46` forbids a
  repetition without that limit; `NoRecentRepeat` is what holds.
- `knowledge/release.py:630`: a second approved review replaces the first as long as the candidate is
  in review, also after approval was requested.
- `tools/file_gateway.py:669`: content and hash of a read can belong to two versions of the file.
- `tools/registry.py:625`: when the caller is cancelled the reservation and the journal entry stay, so
  the key is refused from then on.
- `memory/distillation.py:240`: the ID of a private fact does not depend on the user; the second user of a
  project with the same fact gets `MEMORY_IMMUTABLE_CONFLICT`.
- `lifecycle/service.py:358`: `apply_hold` with an approval that was used before answers with the old
  hold, which may be released.
- `client/service.py:857`: the watcher has no except clause. One repository operation of it that fails,
  for instance because the database is busy (`sqlite_repository.py:684`), ends it for good, and an
  interrupted task stays `RUNNING` until the process is started again; `WatchedTaskIsBlocked` excuses
  this case and no other.
- `approval/service.py:621`: `decided_at` is a second reading of the clock after the authority check, so a
  decision may carry a time at which its delegation, or the candidate, had run out.
- `tools/registry.py:783`: an adapter reply within its own limits may be refused for its size, since the
  length of a calibration identity is not bounded and the envelope is not measured (`adapter_sdk.py:618`).
  The effect has happened, the caller gets an error, and the key stays closed until it is reconciled.
- `tools/mcp_gateway.py:296`: a COMPLETED reply names no task, and the poll of one task that receives the
  completion of something else stores it as its result (`844-891`). An acceptance that names another
  run's task is stored too (`728-747`), and the new handle polls and cancels that task.
- `memory/distillation.py:204`: two distillations that both read before either stores report no clash
  between their facts, and a record behind the 500 oldest of its scope is not compared at all
  (`distillation.py:213`, `store.py:118`), while `docs/contracts/memory-distillation-v1.md` has a different
  value for an existing key create a conflict. `ClashesAreReported` says which clashes are found.
- `lifecycle/service.py:313`: `delete` does not compute `preview_sha256` again, as
  `memory/restore.py:254` does for a restore. A preview with other object IDs under an approved hash
  removes objects its approval does not cover, also within their retention, whereas
  `docs/contracts/data-lifecycle-v1.md:25` binds the approval to the exact objects. `RemovalIsGoverned` asks
  of such a deletion what the code gives: no hold, the scope, an approval in force, and one use.
- `security/secrets.py:121`: a secret whose current version was revoked cannot be rotated.

### Fairness

`recovery_live`: each step of a call under way is weakly fair (the event loop runs what is ready and
executors return), and callers keep calling. `scheduler`: children return and the loop launches
what is ready. `workbench_live` and `workbench_orphan`: the coordinator, the executions and the clock
go on; starting a process and crashing are not fair. `review`: a call under way goes on, because
executors are awaited with a timeout; nobody has to call again. `tools`: a call of the registry that
waits for a permit gets it once it stays free (every caller calls once), and one
that runs is ended by its timeout. `services` states no liveness. Nothing is
assumed about clients.

## 4. Proofs

Every theorem below holds for all values of the constants that satisfy the named assumptions, so for
any number of callers, tasks, crashes and so on. Each rests on an inductive invariant: true initially,
kept by every action (one lemma or step per action), and strong enough to give the properties. The
runs of section 3 check the same properties on small instances.

| Module | Theorem | Gives |
|---|---|---|
| `TaskRecoveryProofs` | `AtMostOnce`, `JournalSound` | `SideEffectAtMostOnce`, `JournalMatchesOperations` |
| | `RuntimeImplementsRun` | the refinement `ImplementsRun` |
| | `RunAccounted` | `RunIsAccounted` |
| | `TypeCorrect`, `LogBelongsToClaim`, `CommittedIdsNeverShrink`, `CallsStayOnLog`, `ResultAndEndStay` | `TypeOK`, `CheckpointsBelongToClaim`, `CommittedIdsGrow`, `CallsWorkFromLog`, `ResultAndEndAreFinal` (proved only) |
| `ApprovalProofs` | `LawfulWhateverRaces`, `GrantsBacked`, `SequentialUniqueness`, `TypeCorrect` | `JournalIsLawful`, `GrantIsBacked`, `SequentialCallsAreUnique`, `TypeOK` |
| `ReviewGraphProofs` | `AggregationIsReviewed`, `NothingAskedTwice` | `AggregatedIsReviewed`, `CommittedCallsNotRepeated` |
| | `SequentialUniqueness`, `SequentialBound`, `OneReview` | `SequentialResultIsUnique`, `SequentialWorkIsBounded` and both, `SequentialReviewIsOne` |
| `BudgetGuardProofs` | `LimitsHold`, `NoRepetition`, `DurableUsage` | `UsageWithinActive`, `NoRecentRepeat`, `DurableUsageNeverDecreases` |
| | `CountersHold` | `CountersWithinActive` (proved only) |
| `TaskSchedulerProofs` | `WavesSound`, `SlotsSound`, `TypeCorrect` | `WavesAreSound`, `SlotsAreSound`, `TypeOK` |
| `WorkProofs` | `RoutedInOrder` | `RoutedIsOrdered` |
| | `ReservationsSettled`, `FormalUseQualified` | `ReservationsAreOutstanding`, `FormalCandidateIsQualified` |
| | `StartedOnce`, `SuccessIsReviewed` | `StartedAtMostOnce`, `SuccessIsOneReviewedRun` |
| | `ImportSound` | `ImportIsSound` |
| | `IndexServesHead`, `PublicationsAuthorized` | `ServedIsCurrent`, `PublicationIsAuthorized` |
| | `ApprovedIsReviewed`, `ApprovedIsGrounded` | `ApprovedResultIsReviewed`, `ApprovedReportIsGrounded` |
| | `ClashesReported` | `ClashesAreReported` |
| `ServiceProofs` | `NoWakeUpLost`, `DecidedOnce` | `WaitingStreamIsComplete`, `RestoreDecidedOnce` |
| | `RemovalGoverned`, `MutationsAuthorized` | `RemovalIsGoverned`, `MutationsAreAuthorized` |
| | `ToolIdempotent`, `RemoteAccounted` | `IdempotencyHolds`, `RemoteTaskIsAccounted` |
| | `FilesSafe`, `EvidenceSound` | `FilesAreSafe`, `EvidenceIsSound` |

Together these are all the safety properties that passing runs check.

**TaskRecoveryProofs.** `RuntimeInv` is `TypeOK`, `ChildInv` and `LogInv`. `ChildInv` says for each
child and each effect what the journal says about the operation a call has in flight: without it, a
step that invokes an operation could not be told from one that repeats it. `LogInv` says that every
call under way works from a checkpoint still in the log and holds a snapshot that may follow it; it is
what makes a late append either the successor of what was read or refused. The refinement needs both.
`RunAccounted` adds `AccountInv`. `CallsAccounted`: a running attempt keeps four reserved steps for
each child it has yet to launch and one for each under way. `LedgerInv`: there is a ledger that assigns
each attempt a place in the log and an amount it may consume, attempts have different places, and the
amounts up to the last checkpoint are within what that checkpoint charges. Attempts of dead or
superseded callers keep their entry, which is how charging the reservation as consumed covers work no
later caller can see. `OutputInv`: a child reported COMPLETED has its output in the store.

**ApprovalProofs.** `ApprovalInv`: each event is justified by those before it (`JournalInv`); what a
call is about to append is justified by the journal, however it has grown since the read, and was checked
no later than now and stamped no earlier than checked (`CallInv`);
while calls have not overlapped, the one under way has read all of the journal (`SequentialInv`).
Justification survives growth because nothing in it is about absence, and that is why grants are backed
in spite of races but not unique.

**ReviewGraphProofs.** `ReviewInv`: what is outside a call's batch has a PASS in the journal for the
version it now has (`CallInv`), everything cached is in the journal, and results are reviewed
(`JournalInv`). While calls follow one another, the one under way has cached all outputs of the journal.

That the calls of one review together stay within one budget needs `WayInv`, which says how the journal
came about. A *way* is a sequence of states of a call, from the fresh one, each a step of the graph after
the one before, with outputs taken from the journal. The graph is deterministic once the journal answers
each context once (`Determined`), so there is one way; every call that is not over is on it, an executor is
asked at its end only, and each output of the journal was asked for at one state on it. Along the way
the round, the place in the batch and the number of corrections only advance (`Later`), so two states that
ask for a review of one assignment are in different rounds and there are at most as many as the
limit (`WayBounds`). The way is part of the invariant, as a sequence that exists, and every action
shows how it is extended: no induction over what happened is needed. Calls that overlap can ask twice,
and nothing is claimed of them.

**BudgetGuardProofs.** `GuardInv` carries each fact for the guard and for its last telemetry, because
`Restore` swaps them: limits, growth of what is charged, and that the repetition window is the end of
the trace of started calls (`HistoryInv`). `TokenInv`: the counter `_reserved_tokens` is the sum of the
outstanding reservations, in whatever order calls end; that an update changes a sum by the difference is
proved in `ProofLemmas` from the definition of the fold. `CountInv`: the counters that go up by one
are within their limits, and slots are counted for exactly those who hold one.

**TaskSchedulerProofs.** `SchedulerInv`: an assignment has a state exactly if its wave was entered, it
is started after its prerequisites, a batch fits its limit, and the guard's counter is the number of
running professional children. That waves are well-founded comes from the duplicate, dependency and
cycle checks of `_validate`.

**WorkProofs.** *Routing.* `RoutedInv`: what is dispatched is the result of `MainResult` for some signals.
That the rounds of the cycle check end empty exactly if there is an order (`CyclicIsUnordered`) is an
argument about the recursive function of the rounds: given an order, what is left after `n` of them comes
later than place `n`, so nothing is left in the end; and if nothing is left, the number of the round in
which an assignment went is an order.

*Models.* `InferenceInv`: tokens are reserved for a call exactly while it awaits the provider, the loaded
binding is valid, and a call past the checks still satisfies them (`CallSound`). A binding that was loaded
is not exchanged, which is why what was checked before the await may be used after it.

*Workbench.* `WorkbenchInv`: the events of an executor are the first ones of its task, without
a gap, as long as it appends (`ExecutionInv`). An event is numbered by what its executor last
knew, so a second owner's append after a lost lease is refused. Owners may overlap, and the steps of a
sweep may come between any of theirs; `WatchInv` says that a sweep appends only to tasks that exist.

*Import.* `ImportInv`: a process of the first two stages ran for a run ID exactly if its output directory
exists, and then once (`DirectoriesInv`), and a call that waits at a stage belongs to an accepted source
(`PipelineInv`).

*Release.* `ReleaseInv`: the head is the one published publication (`HeadInv`), an
index entry is published exactly if it is the head's (`IndexInv`), and a call between grant and commit
holds an approval for just what it will write (`CommitInv`). `KeyUnique` of validated candidates is
needed, since activating two snapshots of one key would leave one of them unserved.

*Professional work.* `ProfessionalInv`: a plan or report is what its finalizer made of some
candidate with what was current at the time, and a pending or granted approval is of a result that an
approved review holds (`BackedBy`). Reviews are never withdrawn, so later revisions and withdrawn standards
leave both standing; that an approved finding cites the plan's bases is about the plan the report was
made from.

*Distillation.* `MemoryInv`: records are numbered as they were inserted (`PlacesInv`), so what others
insert after a read is not among what was there, and a run past its reads holds what was there with fewer
than `ShownLimit` records ahead of it, and all it stored, with their clashes (`DistillationInv`). That a
query shows such a record is a matter of counting (`QueryShows`): what is shown and not after it would
otherwise be `ShownLimit` records. Later inserts do not change what was ahead (`SameDue`).

**ServiceProofs.** A waiting stream saw the generation before the batch it read (`StreamInv`); a preview
of a restore has one outcome and callers are told it (`RestoreInv`); a hash without force, of a preview
or in an approval, was computed over objects whose retention was over (`LifecycleInv`), so a deletion
that keeps to what its approval names respects it; a mutation under way has its authorization on the
audit trail (`SecurityInv`).

*Tool gateway.* `ToolInv`: a keyed call under way has the uncommitted journal entry of its key, no
other call under way has that key, and until it gets its permit no adapter ran for it
(`InvocationInv`, `ClaimInv`); what ran for a key the journal knows ran once (`RunsInv`). A call that
was cancelled leaves the entry behind, which is why a later call is refused and the effect is not
repeated. That the registry refuses what adapters return for its size alone follows from the validation
of both (`RegisteredInv`, lemma `Accepted`): it needs no assumption about the provider beyond the shapes
in `ProviderActs`. A refused call holds on to its uncommitted entry like a cancelled one.

*MCP.* `McpInv`: a record names a task the server took on, no outcome but that task's, unless its handle
was misled, and none but the record's was told (`RecordsInv`); a reply an operation holds that names an
outcome of its task is true of it, or it is a completion and the handle is misled (`ExchangeInv`,
`ReplyInv`). A finished task stays finished. Several handles may name one task, and any number of
operations may be under way for one handle.

*Files.* `FileInv`: what successful edits replaced is in the version table, what is in the table is in the
store, and what is in the store is text, because an edit decodes what it replaces before it saves it.

*Web search.* `WebInv`: a search under way holds admissible evidence only, each piece from a page it
opened (`Searching`), and what the cache holds was admissible as of the start of the search that found it
(`Kept`). The number of pieces is bounded by the pages opened, so a stored answer is within the
limits a later search applies.

The assumptions are those named beside the constants of each module (`RecoveryAssumption`,
`NoResultAssumption`, `WorkbenchAssumption`, `ApprovalAssumption`, `ReviewAssumption`, `PolicyAssumption`,
`RequestAssumption`, `SchedulerAssumption`); TLC evaluates each on a run. The theorems about instances
state what they need of the constants as hypotheses: `IdentifierFacts` of the release, natural numbers for
days and bounds, `1` among the versions and every reader a thread, `0` (which marks what
other callers put) not among the distillations, finitely many assignments in a routing signal, a list of
names as the fallback of a binding, and `LimitFacts` of web search. `ServicesAssumption` of `MCServices` and
`ToolsAssumption` of `MCTools` have these hypotheses for the values of the runs.

Only model-checked:

- all liveness (`RunSettles`, `ExecutionEnds`, `ClaimedTaskEnds`, `WatchedTaskIsBlocked`, `ReviewEnds`,
  `CallEnds`), which is out of the proof system's reach, as is `ENABLED`;
- that the violations of section 3 happen: a theorem cannot show that a state is reached;
- what the folds of the operator modules compute, beyond what the lemmas of `ProofLemmas` and
  `ReviewGraphProofs` state of them. The theorems do not depend on more.

## 5. Not modelled, and the plan

Left out: text and document processing (chunking, ranking, prompt assembly, context compression),
provider wire formats beyond what is checked of a reply, HTTP routes, user interface, configuration
loading other than that of the models, qualification scripts, schema migration, the reference adapters
(fixtures), redaction and metrics, and the SQL, Redis and file calls behind the ports: the modules
assume of a repository operation that it is atomic or fails. The delegates and the configured runtimes
are prompt assembly around calls that are modelled; that their guards are their own
(`general_model_delegate.py:289`) is listed as a hazard without a property. Of the counters of the guard,
those that no decision reads (failures, retries, cache hits) are left out.

What is left to add is breadth: the delegates with their guards, so that the usage of a child can be stated
against the budget of the task, and the context assembly. A proof would follow the pattern above: an
instance in `Services` and an invariant in `WorkProofs`.
