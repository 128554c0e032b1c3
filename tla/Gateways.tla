------------------------------ MODULE Gateways ------------------------------
(***************************************************************************)
(* The tool gateways, which share no state, and the properties each of them *)
(* keeps. MCTools composes them for TLC; the proofs are in ServiceProofs.   *)
(***************************************************************************)

CONSTANTS
  ToolCalls, Tools, ToolRegistrations, Inputs, ValidInputs, Keys, NoKey, Contexts, Policies,
  MaxToolCalls, MaxGateways,                                  \* ToolGateway
  McpOperations, Runs, Handles, RemoteTasks, SupportsAsync, MaxManifests,  \* McpGateway
  FileCallers, Files, DeniedPaths, ImmutableFiles, Texts, Binary, Huge,  \* FileGateway
  Searches, WebRequests, Urls, DomainOf, Unsafe, SourceClass, PolicyDomains, QueryLimit,
  PageLimit, CurrentMaxAge, RetrievalTtl, Ticks               \* WebSearch

VARIABLES
  registered, catalog, gateway, toolCall, journal, reservations, toolCallsUsed, adapterRuns,
  discovery, history, manifests, remote, record, exchange, told, misled,
  disk, store, versions, verified, fileCall, lastReply, replaced,
  webClock, webPolicy, cache, search, webReply

Gw == INSTANCE ToolGateway WITH Calls <- ToolCalls, Candidates <- ToolRegistrations
Mcp == INSTANCE McpGateway WITH Operations <- McpOperations
File == INSTANCE FileGateway WITH Callers <- FileCallers
Web == INSTANCE WebSearch WITH Requests <- WebRequests, MaxTime <- Ticks
-----------------------------------------------------------------------------
\* registry.py, adapter_sdk.py: one execution and one accepted result per key.
IdempotencyHolds == Gw!IdempotencyHolds

\* registry.py: an admitted call ends and gives its reservation back.
CallEnds == Gw!CallEnds

\* mcp_gateway.py: one outcome is told, and it is the one of the remote task unless
\* the server answered with the completion of another.
RemoteTaskIsAccounted == Mcp!RemoteTaskIsAccounted

\* file_gateway.py: what an edit replaced is kept, what is denied changes nothing.
FilesAreSafe == File!FilesAreSafe

\* web_search.py, cache/service.py: evidence is admissible and cache hits fresh.
EvidenceIsSound == Web!EvidenceIsSound
=============================================================================
