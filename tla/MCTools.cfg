SPECIFICATION Spec
CONSTANTS
  t1 = t1
  a1 = a1
  a2 = a2
  bad = bad
  f1 = f1
  f2 = f2
  x = x
  ToolCalls = {1, 2, 3}
  Tools = {t1}
  ToolRegistrations <- candidates
  Inputs = {a1, a2, bad}
  ValidInputs = {a1, a2}
  Keys = {k1}
  NoKey = noKey
  Contexts <- contexts
  Policies <- policies
  MaxToolCalls = 2
  MaxGateways = 2
  McpOperations = {1, 2}
  Runs = {r1}
  Handles = {1, 2}
  RemoteTasks = {1, 2}
  SupportsAsync = TRUE
  MaxManifests = 1
  FileCallers = {1, 2}
  Files = {f1, f2}
  DeniedPaths = {d1}
  ImmutableFiles = {f2}
  Texts = {x}
  Binary = binary
  Huge = huge
  Searches = {1, 2}
  WebRequests <- webRequests
  Urls = {"g", "v", "x"}
  DomainOf <- domainOf
  Unsafe = "unsafe"
  SourceClass <- sourceClass
  PolicyDomains <- policyDomains
  QueryLimit = 1
  PageLimit = 2
  CurrentMaxAge = 0
  RetrievalTtl = 1
  Ticks = 1
INVARIANTS
  IdempotencyHolds
  RemoteTaskIsAccounted
  EvidenceIsSound
PROPERTIES
  CallEnds
  FilesAreSafe
