SPECIFICATION Spec
CONSTANTS
  Methods <- theMethods
  StandardOf <- standardOf
  Questions <- questions
  PlanCandidates <- planCandidates
  Datasets <- datasets
  ReportCandidates <- reportCandidates
  Task = 1
  MaxPlans = 1
  MaxReports = 2
  MaxReviews = 1
  Distillations = {1, 2}
  MemoryRequests <- memoryRequests
  Outputs <- outputs
  Direct <- direct
  MaxFacts = 1
  ShownLimit = 1
  MemoryDays = 2
  Threads = {1, 2}
  Candidates = {"c1", "c2"}
  Publications = {"p1", "p2"}
  Operations = {"o1", "o2"}
  Approvals = {"a1", "a2", "a3"}
  Workflows = {"w"}
  Batches <- batches
  StandardVersions <- standardVersions
  Dates = {0, 2}
  NoId = "no"
  Readers = {1}
  Versions = {1, 2}
  Endpoints <- endpoints
  Streams = {1, 2}
  Writers = {1, 2}
  MaxEvents = 3
  MaxBatches = 2
  Objects = {1, 2}
  Accesses <- accesses
  Registrations <- registrations
  DefaultDays = 1
  AuditDays = 2
  MaxDays = 3
  PreviewTargets <- previewTargets
  Grants <- grants
  MaxApprovals = 3
  MaxPreviews = 1
  MaxTime = 1
  Snapshots = {1}
  Artifacts = {"x", "y"}
  Shapes <- shapes
  Callers <- callers
  Calls = {1, 2}
  Rankings <- rankings
  RestoreDays = 2
  Tasks = {"t"}
  Owners = {"o1", "o2"}
  Class <- class
  Lease = 1
  MaxActive = 1
  MaxSweeps = 2
  MaxFaults = 0
  Overlap = TRUE
  NoOwner = "none"
  Imports = {1, 2}
  SourceArtifacts <- artifacts
  Pages = {0, 1}
  TablePages = {0}
  FormulaPages = {}
  DrawingPages = {}
  Scans <- scans
  Assignments = {1}
  MainTasks <- tasks
  Signals <- signals
  Children <- children
  EntryRequests <- requests
  Registered <- agents
  NoTask = 0
  Inferences = {1, 2, 3}
  Configurations <- configurations
  InferenceRequests <- inferences
  Responses <- responses
  Provider <- provider
  Models <- models
  Profiles <- profiles
  TokenLimit = 8
  CallLimit = 3
CHECK_DEADLOCK FALSE
INVARIANTS
  RoutedIsOrdered
  ReservationsAreOutstanding
  FormalCandidateIsQualified
  MutationsAreAuthorized
  ApprovedResultIsReviewed
  ApprovedReportIsGrounded
  ServedIsCurrent
  PublicationIsAuthorized
  WaitingStreamIsComplete
  ClashesAreReported
  RestoreDecidedOnce
  StartedAtMostOnce
  SuccessIsOneReviewedRun
PROPERTIES
  ImportIsSound
  RemovalIsGoverned
