----------------------------- MODULE McpGateway ------------------------------
(***************************************************************************)
(* The MCP gateway (tools/mcp_gateway.py): discovery manifests, tool       *)
(* invocation, and the polling and cancelling of asynchronous remote       *)
(* tasks. An operation checks its preconditions, suspends in the transport *)
(* exchange, and applies the reply to whatever the state is by then.       *)
(* The remote server and the transport are external: a request may be lost *)
(* before or after the server acted on it, and any reply that is true of   *)
(* some request may come to another one.                                   *)
(***************************************************************************)
EXTENDS Naturals, FiniteSets

CONSTANTS
  Operations,     \* concurrent callers, each with one operation at a time
  Runs,           \* <<scope, task, run>> an invocation belongs to
  Handles,        \* what _handle_factory gives out, numbered in that order
  RemoteTasks,    \* remote_task_ids, numbered as the server takes tasks on
  SupportsAsync,  \* the capability's supports_async
  MaxManifests    \* bound on discoveries

VARIABLES
  discovery,      \* _discoveries: run -> current manifest
  history,        \* _discovery_history
  manifests,      \* number of manifests issued
  remote,         \* state of each remote task: none, working, done, cancelled
  record,         \* InMemoryMcpStateRepository._records
  exchange,       \* the operation each caller awaits
  told,           \* final outcomes reported to callers, per handle
  misled          \* history: handles polled and answered with the completion
                  \* of something else than their remote task

mcpVars == <<discovery, history, manifests, remote, record,
             exchange, told, misled>>

NoManifest == [id |-> 0, fresh |-> FALSE]
NoRecord == [state |-> "none"]
NoHandle == "no handle"
Waiting == [at |-> "idle"]
NoReply == [status |-> "none"]

-----------------------------------------------------------------------------
Init ==
  /\ discovery = [r \in Runs |-> NoManifest]
  /\ history = {}
  /\ manifests = 0
  /\ remote = [x \in RemoteTasks |-> "none"]
  /\ record = [h \in Handles |-> NoRecord]
  /\ exchange = [o \in Operations |-> Waiting]
  /\ told = [h \in Handles |-> {}]
  /\ misled = {}

Ready(o) == exchange[o].at = "idle"

\* execute returns: with output, or with the failure code of an error. A
\* failure leaves the stored state as it is, so the code is not kept.
Fail(o, code) == exchange' = [exchange EXCEPT ![o] = Waiting]
Succeed(o) == exchange' = [exchange EXCEPT ![o] = Waiting]

Send(o, kind, run, handle, rec) ==
  exchange' = [exchange EXCEPT ![o] =
    [at |-> "sent", kind |-> kind, run |-> run, handle |-> handle, rec |-> rec,
     manifest |-> discovery[run].id, reply |-> NoReply]]

\* McpOperationAdapter._credential: a remote server needs a lease that names
\* this request and is valid now; the broker may fail to issue one.
CredentialFails(o) ==
  /\ Ready(o)
  /\ Fail(o, "MCP_CREDENTIAL_FAILED")
  /\ UNCHANGED <<discovery, history, manifests, remote, record, told, misled>>

SendDiscover(o, run) ==
  /\ Ready(o)
  /\ manifests < MaxManifests
  /\ Send(o, "DISCOVER", run, NoHandle, NoRecord)
  /\ UNCHANGED <<discovery, history, manifests, remote, record, told, misled>>

\* _invoke up to the exchange: an unexpired manifest of this run that holds
\* the capability.
SendInvoke(o, run) ==
  /\ Ready(o)
  /\ IF discovery[run].fresh
     THEN Send(o, "INVOKE", run, NoHandle, NoRecord)
     ELSE Fail(o, "MCP_DISCOVERY_REQUIRED")
  /\ UNCHANGED <<discovery, history, manifests, remote, record, told, misled>>

\* _record_matches: a handle only answers to the run it was made for.
RecordMatches(run, h) == record[h] # NoRecord /\ record[h].run = run

\* _continue up to the exchange, for POLL and CANCEL.
SendContinue(o, kind, run, h) ==
  /\ SupportsAsync
  /\ Ready(o)
  /\ CASE ~RecordMatches(run, h) -> Fail(o, "MCP_SCOPE_DENIED")
       [] RecordMatches(run, h) /\ record[h].state # "PENDING" ->
            Fail(o, "MCP_STATE_INVALID")
       [] RecordMatches(run, h) /\ record[h].state = "PENDING"
            /\ <<run, record[h].manifest>> \notin history ->
            Fail(o, "MCP_DISCOVERY_REQUIRED")
       [] OTHER -> Send(o, kind, run, h, record[h])
  /\ UNCHANGED <<discovery, history, manifests, remote, record, told, misled>>

-----------------------------------------------------------------------------
(* The server and the transport (external)                                 *)

Answer(o, reply) ==
  exchange' = [exchange EXCEPT ![o].at = "answered", ![o].reply = reply]

\* What a reply says, and of which remote task, if any; a COMPLETED reply does not
\* carry its task (McpTransportReply.validate_reply): the gateway never reads it.
Says(status, tasks) == [status |-> status, of |-> tasks]

\* The server offers the registered capabilities, or others since an upgrade.
Offers(schema) == [status |-> "DISCOVERED", schema |-> schema]

ServerDiscovers(o) ==
  /\ exchange[o].at = "sent" /\ exchange[o].kind = "DISCOVER"
  /\ \E schema \in {"registered", "changed"} : Answer(o, Offers(schema))
  /\ UNCHANGED <<discovery, history, manifests, remote, record, told, misled>>

\* The server completes at once, or accepts and starts a remote task.
ServerInvokes(o) ==
  /\ exchange[o].at = "sent" /\ exchange[o].kind = "INVOKE"
  /\ \/ Answer(o, Says("COMPLETED", {})) /\ UNCHANGED remote
     \/ \E x \in RemoteTasks :
          /\ remote[x] = "none" /\ \A y \in RemoteTasks : y < x => remote[y] # "none"
          /\ remote' = [remote EXCEPT ![x] = "working"]
          /\ Answer(o, Says("ACCEPTED", {x}))
  /\ UNCHANGED <<discovery, history, manifests, record, told, misled>>

Report == [working |-> "PENDING", done |-> "COMPLETED", cancelled |-> "CANCELLED"]

\* POLL reports the remote task; CANCEL stops it while it still works.
ServerContinues(o) ==
  LET task == exchange[o].rec.task
      new == IF exchange[o].kind = "CANCEL" /\ remote[task] = "working"
             THEN "cancelled" ELSE remote[task] IN
  /\ exchange[o].at = "sent" /\ exchange[o].kind \in {"POLL", "CANCEL"}
  /\ remote' = [remote EXCEPT ![task] = new]
  /\ Answer(o, Says(Report[new], {task}))
  /\ UNCHANGED <<discovery, history, manifests, record, told, misled>>

Tasks(state) == {x \in RemoteTasks : remote[x] = state}

\* What is true of some request and may come to one of this kind; a status that
\* its operation refuses whatever it says is UNEXPECTED, a completion is that of
\* another request.
Statements(kind) ==
  {Says("UNEXPECTED", {})} \cup
  CASE kind = "DISCOVER" -> {}
    [] kind = "INVOKE" ->
         {Says("COMPLETED", {})} \cup {Says("ACCEPTED", {x}) : x \in RemoteTasks \ Tasks("none")}
    [] kind = "POLL" ->
         {Says("COMPLETED", {})} \cup {Says("PENDING", {x}) : x \in Tasks("working")}
    [] kind = "CANCEL" -> {Says("CANCELLED", {x}) : x \in Tasks("cancelled")}

\* A reply meant for another request, or that names another remote task.
ServerConfuses(o) ==
  /\ exchange[o].at = "sent"
  /\ \E reply \in Statements(exchange[o].kind) :
       /\ Answer(o, reply)
       /\ misled' = IF exchange[o].kind = "POLL" /\ reply.status = "COMPLETED"
                    THEN misled \cup {exchange[o].handle} ELSE misled
  /\ UNCHANGED <<discovery, history, manifests, remote, record, told>>

RemoteFinishes(x) ==
  /\ remote[x] = "working"
  /\ remote' = [remote EXCEPT ![x] = "done"]
  /\ UNCHANGED <<discovery, history, manifests, record, exchange, told, misled>>

\* McpTransportError before the server saw the request or after it answered, or
\* a reply that McpTransportReply does not validate.
Disconnect(o) ==
  /\ exchange[o].at \in {"sent", "answered"}
  /\ Fail(o, "MCP_DISCONNECTED")
  /\ UNCHANGED <<discovery, history, manifests, remote, record, told, misled>>

-----------------------------------------------------------------------------
(* The rest of each operation, after the exchange                          *)

\* _discover: the offered capabilities must equal the registered ones.
EndDiscover(o) ==
  LET run == exchange[o].run
      reply == exchange[o].reply IN
  /\ exchange[o].at = "answered" /\ exchange[o].kind = "DISCOVER"
  /\ \/ /\ reply = Offers("registered")
        /\ manifests < MaxManifests
        /\ manifests' = manifests + 1
        /\ discovery' = [discovery EXCEPT ![run] = [id |-> manifests + 1, fresh |-> TRUE]]
        /\ history' = history \cup {<<run, manifests + 1>>}
        /\ Succeed(o)
     \/ /\ reply # Offers("registered")
        /\ Fail(o, IF reply.status = "DISCOVERED" THEN "MCP_SCHEMA_CHANGED"
                   ELSE "MCP_RESPONSE_INVALID")
        /\ UNCHANGED <<discovery, history, manifests>>
  /\ UNCHANGED <<remote, record, told, misled>>

ManifestExpires(run) ==
  /\ discovery[run].fresh
  /\ discovery' = [discovery EXCEPT ![run].fresh = FALSE]
  /\ UNCHANGED <<history, manifests, remote, record, exchange, told, misled>>

\* _invoke after the exchange: a completed output is validated (output
\* schema, stream chunks, artifact scope and hash), an accepted task gets a new
\* handle and a PENDING record, whichever task the reply names.
EndInvoke(o) ==
  LET e == exchange[o] IN
  /\ e.at = "answered" /\ e.kind = "INVOKE"
  /\ \/ /\ e.reply.status = "COMPLETED"
        /\ Succeed(o)
        /\ UNCHANGED record
     \/ /\ e.reply.status = "ACCEPTED" /\ SupportsAsync
        /\ \E h \in Handles, x \in e.reply.of :
             /\ record[h] = NoRecord /\ \A g \in Handles : g < h => record[g] # NoRecord
             /\ record' = [record EXCEPT ![h] = [run |-> e.run, manifest |-> e.manifest,
                                                state |-> "PENDING", task |-> x]]
        /\ Succeed(o)
     \/ /\ e.reply.status = "ACCEPTED" => ~SupportsAsync
        /\ Fail(o, "MCP_RESPONSE_INVALID")
        /\ UNCHANGED record
  /\ UNCHANGED <<discovery, history, manifests, remote, told, misled>>

\* Mutant: the repository overwrites whatever it holds.
PutAlways(o, h, new) ==
  /\ record' = [record EXCEPT ![h] = new]
  /\ told' = [told EXCEPT ![h] = @ \cup ({new.state} \ {"PENDING"})]
  /\ Succeed(o)

\* InMemoryMcpStateRepository.put, and the result of the operation: a record
\* that is no longer PENDING is final; the same record again is accepted, but
\* only within one clock tick (the hash covers updated_at).
Put(o, h, new) ==
  \/ /\ record[h] = new \/ record[h].state = "PENDING"
     /\ record' = [record EXCEPT ![h] = new]
     /\ told' = [told EXCEPT ![h] = @ \cup ({new.state} \ {"PENDING"})]
     /\ Succeed(o)
  \/ /\ record[h].state # "PENDING"
     /\ Fail(o, "MCP_STATE_INVALID")
     /\ UNCHANGED <<record, told>>

\* _continue for CANCEL, from the record read before the exchange.
EndCancel(o) ==
  LET e == exchange[o] IN
  /\ e.at = "answered" /\ e.kind = "CANCEL"
  /\ IF e.reply.status = "CANCELLED" /\ e.reply.of = {e.rec.task}
     THEN Put(o, e.handle, [e.rec EXCEPT !.state = "CANCELLED"])
     ELSE Fail(o, "MCP_RESPONSE_INVALID") /\ UNCHANGED <<record, told>>
  /\ UNCHANGED <<discovery, history, manifests, remote, misled>>

\* _continue for POLL and _completed_output: a still pending or a completed
\* task is stored, the latter whatever task the server completed; an output that
\* fails validation stores nothing.
EndPoll(o) ==
  LET e == exchange[o] IN
  /\ e.at = "answered" /\ e.kind = "POLL"
  /\ \/ /\ e.reply.status = "PENDING" /\ e.reply.of = {e.rec.task}
        /\ Put(o, e.handle, e.rec)
     \/ /\ e.reply.status = "COMPLETED"
        /\ Put(o, e.handle, [e.rec EXCEPT !.state = "COMPLETED"])
     \/ /\ \/ e.reply.status \notin {"PENDING", "COMPLETED"}
           \/ e.reply.status = "PENDING" /\ e.reply.of # {e.rec.task}
           \/ e.reply.status = "COMPLETED"
        /\ Fail(o, "MCP_RESPONSE_INVALID")
        /\ UNCHANGED <<record, told>>
  /\ UNCHANGED <<discovery, history, manifests, remote, misled>>

Next ==
  \/ \E o \in Operations :
       \/ CredentialFails(o)
       \/ \E r \in Runs :
            \/ SendDiscover(o, r) \/ SendInvoke(o, r)
            \/ \E k \in {"POLL", "CANCEL"}, h \in Handles : SendContinue(o, k, r, h)
       \/ ServerDiscovers(o) \/ ServerInvokes(o) \/ ServerContinues(o)
       \/ ServerConfuses(o) \/ Disconnect(o)
       \/ EndDiscover(o) \/ EndInvoke(o) \/ EndCancel(o) \/ EndPoll(o)
  \/ \E x \in RemoteTasks : RemoteFinishes(x)
  \/ \E r \in Runs : ManifestExpires(r)

Spec == Init /\ [][Next]_mcpVars
-----------------------------------------------------------------------------
\* All callers of one handle agree on how its remote task ended: a poll and a
\* cancellation in flight together never report two final outcomes, and the
\* stored record is the one reported (put refuses to replace a final record).
OneOutcomeTold ==
  \A h \in Handles :
    /\ ~({"COMPLETED", "CANCELLED"} \subseteq told[h])
    /\ told[h] \subseteq {record[h].state}

\* A record names a remote task the server took on, and a final one says what
\* became of it, although replies may be late or about another task: a
\* cancellation's remote id is compared. A completion carries none, so the record
\* of a handle whose poll got another's completion is excepted (mcp_gateway.py
\* stores it unchecked).
RecordMatchesRemote ==
  \A h \in Handles :
    record[h] # NoRecord =>
      /\ remote[record[h].task] # "none"
      /\ record[h].state = "COMPLETED" => h \in misled \/ remote[record[h].task] = "done"
      /\ record[h].state = "CANCELLED" => remote[record[h].task] = "cancelled"

\* What callers are told, what is recorded and what became of the remote task
\* agree, however polls, cancellations and replies overtake each other; what the
\* server says of another task misleads the gateway where it says COMPLETED alone.
RemoteTaskIsAccounted == OneOutcomeTold /\ RecordMatchesRemote
=============================================================================
