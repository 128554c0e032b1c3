------------------------------ MODULE MainGraph ------------------------------
(***************************************************************************)
(* The deterministic front of every task: the rules-first router           *)
(* (orchestration/routing.py), the main graph (main_graph.py), the private *)
(* child contexts (child_context.py, registry.py) and the Knowledge entry  *)
(* graph that goes through all of them (knowledge/entry.py). No step of it *)
(* suspends; what it computes is compared with a definition of its own.    *)
(***************************************************************************)
EXTENDS Refusals, FiniteSets

CONSTANTS
  Assignments,    \* professional assignment ids
  Tasks,          \* TaskContext descriptions
  Signals,        \* RouteSignals payloads
  Children,       \* ChildInput per assignment, as functions
  EntryRequests,  \* KnowledgeStartRequest descriptions
  Registered,     \* agent types of the registry -> tools allowed to them
  NoTask

VARIABLES
  routed,         \* the latest main-graph result, with its signals
  contexts,       \* the child contexts prepared from it
  entered         \* the latest knowledge entry: its phases and child

mainVars == <<routed, contexts, entered>>

-----------------------------------------------------------------------------
(* Routing                                                                 *)

\* RouteSignals.validate_shape.
ValidSignals(s) ==
  /\ s.general => s.deps = <<>> /\ ~s.human /\ ~s.async
  /\ ~s.general => s.deps # <<>>
  /\ ~(s.human /\ s.async)
  /\ \A a \in DOMAIN s.deps : a \notin s.deps[a] /\ s.deps[a] \subseteq DOMAIN s.deps

\* Mutant: only mutual dependencies count as a cycle.
CyclicPairs(deps) == \E a, b \in DOMAIN deps : a \in deps[b] /\ b \in deps[a]

\* _validate_acyclic: rounds that remove every assignment whose dependencies
\* are gone, until none is left or a round removes nothing.
Cyclic(deps) ==
  LET Remaining[n \in 0..Cardinality(DOMAIN deps)] ==
        IF n = 0 THEN DOMAIN deps
        ELSE {a \in Remaining[n - 1] : deps[a] \cap Remaining[n - 1] # {}} IN
  Remaining[Cardinality(DOMAIN deps)] # {}

\* RulesFirstRouter.route, for signals without a cycle.
Route(s) ==
  CASE s.general -> [kind |-> "GENERAL_SYNC", async |-> FALSE, review |-> FALSE]
    [] ~s.general /\ s.human -> [kind |-> "HUMAN_REQUIRED", async |-> FALSE, review |-> TRUE]
    [] ~s.general /\ ~s.human /\ Cardinality(DOMAIN s.deps) = 1 ->
         [kind |-> IF s.async THEN "ONE_PROFESSIONAL_ASYNC_REVIEW"
                   ELSE "ONE_PROFESSIONAL_SYNC_REVIEW",
          async |-> s.async, review |-> TRUE]
    [] OTHER ->
         [kind |-> IF \E a \in DOMAIN s.deps : s.deps[a] # {}
                   THEN "MULTIPLE_DEPENDENT_ASYNC_REVIEW"
                   ELSE "MULTIPLE_INDEPENDENT_ASYNC_REVIEW",
          async |-> TRUE, review |-> TRUE]

Ended(phase, task, s) == [phase |-> phase, task |-> task, signals |-> s]

\* MainGraph.run_payload and run: blocked on signals that are invalid or
\* cyclic, failed for another task's signals, otherwise ready to dispatch.
MainResult(task, s) ==
  CASE ~ValidSignals(s) -> Ended("BLOCKED", task.id, s)
    [] ValidSignals(s) /\ s.task # task.id -> Ended("FAILED", task.id, s)
    [] ValidSignals(s) /\ s.task = task.id /\ Cyclic(s.deps) -> Ended("BLOCKED", task.id, s)
    [] OTHER ->
       IF DOMAIN s.deps # {} /\ ~Route(s).review THEN Ended("FAILED", task.id, s)
       ELSE [phase |-> "DISPATCH_READY", task |-> task.id, signals |-> s, route |-> Route(s)]

-----------------------------------------------------------------------------
(* Child contexts                                                          *)

\* _select_context_entries and _select_artifacts.
SelectionError(task, i) ==
  FirstRefusal(<<
    <<~(i.entries \subseteq task.entries), "CHILD_CONTEXT_ENTRY_DENIED">>,
    <<~(i.artifacts \subseteq task.artifacts), "CHILD_ARTIFACT_DENIED">> >>)

\* _build: tools are those asked for that parent and agent both allow.
Build(task, agent, i, deps) ==
  [task |-> task.id, agent |-> agent, deps |-> deps, entries |-> i.entries,
   artifacts |-> i.artifacts, tools |-> i.tools \cap task.tools \cap Registered[agent]]

\* AgentRegistry.require, _context_bundle and the checks of prepare: one input
\* for every assignment, none for a general dispatch. The agent type of an
\* assignment is inputs[a].agent.
PrepareError(task, main, inputs) ==
  FirstRefusal(<<
    <<main.task # task.id, "CHILD_TASK_MISMATCH">>,
    <<DOMAIN inputs # DOMAIN main.signals.deps, "CHILD_INPUT_MISMATCH">>,
    <<\E a \in DOMAIN inputs : inputs[a].agent \notin DOMAIN Registered,
      "AGENT_NOT_REGISTERED">>,
    <<\E a \in DOMAIN inputs : inputs[a].agent = "general", "AGENT_KIND_MISMATCH">>,
    <<~task.manifest, "CHILD_CONTEXT_MANIFEST_INVALID">>,
    <<\E a \in DOMAIN inputs : SelectionError(task, inputs[a]) # None,
      "CHILD_CONTEXT_DENIED">> >>)

\* The general child gets the whole bundle of its parent.
GeneralInput(task) ==
  [agent |-> "general", entries |-> task.entries, artifacts |-> task.artifacts,
   tools |-> task.tools]

\* ChildContextFactory.prepare.
Prepared(task, main, inputs) ==
  IF main.signals.general THEN {Build(task, "general", GeneralInput(task), {})}
  ELSE {Build(task, inputs[a].agent, inputs[a], main.signals.deps[a]) : a \in DOMAIN inputs}

-----------------------------------------------------------------------------
(* The Knowledge entry graph                                               *)

\* KnowledgeStartRequest.validate_entry_shape.
ValidRequest(q) ==
  /\ q.intent = "READ_ONLY_QUERY" =>
       q.trigger = "USER_INTENT" /\ q.sources = {} /\ ~q.approval.given
  /\ q.intent = "IMPORT" =>
       q.sources # {} /\ (q.trigger = "ADMIN_JOB" <=> q.approval.given)

\* _validate_admin_approval: a completed grant for exactly this candidate, not
\* expired.
AdminError(q) ==
  FirstRefusal(<<
    <<~q.approval.approved, "KNOWLEDGE_ADMIN_APPROVAL_REQUIRED">>,
    <<q.approval.task # q.task \/ q.approval.sources # q.sources \/ q.approval.expired,
      "KNOWLEDGE_ADMIN_APPROVAL_INVALID">> >>)

\* InMemoryKnowledgeTaskRepository.get and _validate_task.
TaskError(task, q) ==
  FirstRefusal(<<
    <<~task.scoped, "KNOWLEDGE_TASK_SCOPE_DENIED">>,
    <<task.class # "K1", "KNOWLEDGE_TASK_CLASS_INVALID">>,
    <<task.entries = {}, "KNOWLEDGE_CONTEXT_REQUIRED">>,
    <<task.files # Cardinality(q.sources), "KNOWLEDGE_BUDGET_INVALID">>,
    <<~(q.sources \subseteq task.artifacts), "KNOWLEDGE_SOURCE_DENIED">>,
    <<~task.immutable, "KNOWLEDGE_SOURCE_INVALID">> >>)

\* The one asynchronous assignment the entry graph routes, and its child.
KnowledgeSignals(task, a) ==
  [task |-> task.id, general |-> FALSE, human |-> FALSE, async |-> TRUE,
   deps |-> [x \in {a} |-> {}]]
KnowledgeChild(task, q, a) ==
  [x \in {a} |-> [agent |-> "knowledge", entries |-> {}, artifacts |-> q.sources,
                  tools |-> task.tools]]

Entered(phase, children) == [phase |-> phase, children |-> children]

\* KnowledgeEntryGraph.start and start_ui.
EntryResult(task, q, a) ==
  LET main == MainResult(task, KnowledgeSignals(task, a))
      inputs == KnowledgeChild(task, q, a) IN
  IF q.intent = "READ_ONLY_QUERY" THEN Entered("NOT_APPLICABLE", {})
  ELSE IF \/ q.trigger = "ADMIN_JOB" /\ AdminError(q) # None
          \/ TaskError(task, q) # None THEN Entered("BLOCKED", {})
  ELSE IF main.phase # "DISPATCH_READY" THEN Entered("FAILED", {})
  ELSE IF PrepareError(task, main, inputs) # None THEN Entered("BLOCKED", {})
  ELSE IF ~main.route.async \/ ~main.route.review THEN Entered("FAILED", {})
  ELSE Entered("DISPATCH_READY", Prepared(task, main, inputs))

-----------------------------------------------------------------------------
Init ==
  /\ routed = Ended("RECEIVED", NoTask, NoTask)
  /\ contexts = {}
  /\ entered = Entered("RECEIVED", {})

\* The graph keeps nothing between runs, so one run and one entry are all a
\* behaviour needs.
Run(task, s) ==
  /\ routed.phase = "RECEIVED"
  /\ routed' = MainResult(task, s)
  /\ UNCHANGED <<contexts, entered>>

\* A refused preparation leaves no contexts.
Prepare(task, inputs) ==
  /\ routed.phase = "DISPATCH_READY"
  /\ PrepareError(task, routed, inputs) = None
  /\ contexts' = Prepared(task, routed, inputs)
  /\ UNCHANGED <<routed, entered>>

StartEntry(task, q) ==
  /\ entered.phase = "RECEIVED"
  /\ ValidRequest(q)
  /\ q.task = task.id
  /\ \E a \in Assignments : entered' = EntryResult(task, q, a)
  /\ UNCHANGED <<routed, contexts>>

Next ==
  \/ \E task \in Tasks :
       \/ \E s \in Signals : Run(task, s)
       \/ \E inputs \in Children : Prepare(task, inputs)
       \/ \E q \in EntryRequests : StartEntry(task, q)

Spec == Init /\ [][Next]_mainVars
-----------------------------------------------------------------------------
\* Valid signals of the task are dispatched exactly if their assignments can be
\* put in an order in which each follows its dependencies, so that the scheduler
\* can launch them all (routing.py, the rounds of _validate_acyclic against a
\* definition by orders).
RoutedIsOrdered ==
  (routed.phase # "RECEIVED" /\ ValidSignals(routed.signals)
     /\ routed.signals.task = routed.task) =>
    LET deps == routed.signals.deps
        n == Cardinality(DOMAIN deps) IN
    routed.phase = "DISPATCH_READY" <=>
      \E rank \in [DOMAIN deps -> 1..n] :
        \A a \in DOMAIN deps : \A b \in deps[a] : rank[b] < rank[a]
=============================================================================
