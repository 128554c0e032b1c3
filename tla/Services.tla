------------------------------ MODULE Services ------------------------------
(***************************************************************************)
(* The services that share no state, and the properties each of them keeps. *)
(* MCServices composes them for TLC; the proofs of the properties are in    *)
(* WorkProofs and ServiceProofs.                                            *)
(***************************************************************************)

CONSTANTS
  Threads,                                              \* of the release and of the secrets
  Candidates, Publications, Operations, Approvals, Workflows, Batches, StandardVersions,
  Dates, NoId,                                          \* KnowledgeRelease
  Readers, Versions, Endpoints,                         \* SecurityServices
  Streams, Writers, MaxEvents, MaxBatches,              \* EventStream
  Objects, Accesses, Registrations, DefaultDays, AuditDays, MaxDays, PreviewTargets, Grants,
  MaxApprovals, MaxPreviews, MaxTime,                   \* DataLifecycle
  Snapshots, Artifacts, Shapes, Callers, Calls, Rankings, RestoreDays,  \* MemoryRestore
  Tasks, Owners, Class, Lease, MaxActive, MaxSweeps, MaxFaults, Overlap,
  NoOwner,                                              \* WorkbenchExecution
  Methods, StandardOf, Questions, PlanCandidates, Datasets, ReportCandidates, Task, MaxPlans,
  MaxReports, MaxReviews,                               \* ProfessionalWorkflow
  Distillations, MemoryRequests, Outputs, Direct, MaxFacts, ShownLimit,
  MemoryDays,                                           \* MemoryDistillation
  Imports, SourceArtifacts, Pages, TablePages, FormulaPages, DrawingPages,
  Scans,                                                \* KnowledgeImport
  Assignments, MainTasks, Signals, Children, EntryRequests, Registered,
  NoTask,                                               \* MainGraph
  Inferences, Configurations, InferenceRequests, Responses, Provider, Models, Profiles,
  TokenLimit, CallLimit                                 \* ModelInference

VARIABLES
  standards, candidate, publication, head, index, operation, checkpoint, commit, retrieved,
  secrets, current, keys, active, available, ops, leases, revoked, audit, service, transport,
  lastSequence, ended, foreign, version, waiters, writer, stream, bound,
  now, objects, holds, previews, completed, approvals, removal, keysRevoked,
  restoreTime, snapshots, present, call, shown, decided, answered,
  events, reviewed, exec, up, run, fill, watch, bodies, faults,
  publishedChunks, applicable, asked, answers, plans, processed, methods, reports, reviews,
  professionalApproval,
  memoryTime, records, distill,
  changed, intake, pipeline, outputDirs, processes,
  routed, contexts, entered,
  runtime, calls, guard, threads

Rel == INSTANCE KnowledgeRelease
Sec == INSTANCE SecurityServices
Stream == INSTANCE EventStream
Life == INSTANCE DataLifecycle
Back == INSTANCE MemoryRestore WITH MaxTime <- RestoreDays
Bench == INSTANCE WorkbenchExecution
Pro == INSTANCE ProfessionalWorkflow
         WITH published <- publishedChunks, approval <- professionalApproval
Mem == INSTANCE MemoryDistillation
         WITH Runs <- Distillations, Requests <- MemoryRequests, MaxTime <- MemoryDays
Imp == INSTANCE KnowledgeImport WITH Artifacts <- SourceArtifacts
Main == INSTANCE MainGraph WITH Tasks <- MainTasks
Inf == INSTANCE ModelInference WITH Calls <- Inferences, Requests <- InferenceRequests
-----------------------------------------------------------------------------
\* The index serves exactly the corpus head (KnowledgeRelease).
ServedIsCurrent == Rel!ServedIsCurrent

\* Every publication rests on an approval made for it (KnowledgeRelease).
PublicationIsAuthorized == Rel!PublicationIsAuthorized

\* A version changes state only under an authorization event (SecurityServices).
MutationsAreAuthorized == Sec!MutationsAreAuthorized

\* A revoked key is never used again (SecurityServices).
RevokedKeyIsUnusable == Sec!RevokedKeyIsUnusable

\* A stream that will not be woken has delivered what was committed (EventStream).
WaitingStreamIsComplete == Stream!WaitingStreamIsComplete

\* Content is removed only as retention, holds and approvals allow (DataLifecycle).
RemovalIsGoverned == Life!RemovalIsGoverned

\* A restore preview has one decision (MemoryRestore).
RestoreDecidedOnce == Back!RestoreDecidedOnce

\* The runtime of a task is started at most once, also by two owners at the same
\* time (WorkbenchExecution).
StartedAtMostOnce == Bench!StartedAtMostOnce

\* A task that succeeded shows one undisturbed, reviewed execution
\* (WorkbenchExecution).
SuccessIsOneReviewedRun == Bench!SuccessIsOneReviewedRun

\* What is approved was reviewed in that revision (ProfessionalWorkflow).
ApprovedResultIsReviewed == Pro!ApprovedResultIsReviewed

\* The findings of an approved report are grounded (ProfessionalWorkflow).
ApprovedReportIsGrounded == Pro!ApprovedReportIsGrounded

\* A distillation reports the clashes it could see (MemoryDistillation).
ClashesAreReported == Mem!ClashesAreReported

\* No parser runs twice and no page that passed is replaced (KnowledgeImport).
ImportIsSound == Imp!ImportIsSound

\* Dispatched are exactly the assignments that can be ordered (MainGraph).
RoutedIsOrdered == Main!RoutedIsOrdered

\* Tokens are reserved for exactly the calls that wait (ModelInference).
ReservationsAreOutstanding == Inf!ReservationsAreOutstanding

\* A formal-use candidate is qualified (ModelInference).
FormalCandidateIsQualified == Inf!FormalCandidateIsQualified
=============================================================================
