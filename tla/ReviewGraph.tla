---------------------------- MODULE ReviewGraph ----------------------------
(***************************************************************************)
(* ReviewWorkflow (orchestration/review.py) under RecoverableReviewWorkflow *)
(* (orchestration/review_recovery.py), for one recovery ID.                 *)
(*                                                                          *)
(* A call r \in Runs replays the deterministic graph from the beginning:    *)
(* outputs of the reviewer and of the correctors that are in the journal    *)
(* are taken from there, the others are asked for and appended.  Nothing    *)
(* keeps a second call from starting while the first one awaits an          *)
(* executor.  A crash or a cancellation loses all but the journal.          *)
(*                                                                          *)
(* A result is its version, the hash of a context is the context, and the   *)
(* findings of a review are those of the context it reviewed.               *)
(***************************************************************************)
EXTENDS Integers, Sequences, FiniteSets

CONSTANTS
    Runs,             \* calls of run
    Order,            \* the reviewable assignments, in the order of the contexts
    Requests,         \* the inputs the recovery ID may be bound to: the assignments
                      \* with a corrector, require_cross of _validate, and
                      \* whether some scheduled assignment did not complete
    Versions,         \* contents of results
    Original,         \* the version the children delivered
    NoVersion,
    Verdicts,         \* what reviewers answer: a ReviewDecision or "INVALID"
    StepLimit, ReviewLimit, CorrectionLimit,   \* active limits of the guard
    HardCorrections,  \* correction_rounds.hard
    OverlapFrom,      \* bound: events in the journal before a second call overlaps
    MaxCrashes        \* bound: process losses and cancellations

Assignments == {Order[i] : i \in DOMAIN Order}

Decision == {"PASS", "REVISE", "CONFLICT", "HUMAN_REQUIRED", "FAILED"}

ASSUME ReviewAssumption ==
    /\ Order \in Seq(Assignments)
    /\ Order # <<>> /\ Cardinality(Assignments) = Len(Order)
    /\ Requests \subseteq [correctors : SUBSET Assignments, cross : BOOLEAN, skipped : BOOLEAN]
    /\ \A q \in Requests : q.cross => Len(Order) > 1
    /\ Original \in Versions /\ NoVersion \notin Versions
    /\ Verdicts \subseteq Decision \cup {"INVALID"}
    /\ {StepLimit, ReviewLimit, CorrectionLimit, HardCorrections} \subseteq Nat
    /\ {OverlapFrom, MaxCrashes} \subseteq Nat
    /\ CorrectionLimit <= HardCorrections

VARIABLES
    request,   \* the input, bound by the PREPARED event
    journal,   \* the ReviewRecoveryEvents
    work,      \* per call: the locals of ReviewWorkflow.run and its guard
    outputs,   \* per call: _CallJournal.outputs, context -> output
    returned,  \* history: the results callers were given
    raced,     \* history: two calls have been under way at once
    crashes

vars == <<request, journal, work, outputs, returned, raced, crashes>>

None == [a \in Assignments |-> NoVersion]

NoOutput == [verdict |-> "NONE", targets |-> <<>>, version |-> NoVersion]

\* No review: the findings are those of the per-result review.
NoCross == [on |-> None, count |-> 0]

\* The locals at the start: at is the step that comes next, batch[next] the
\* assignment it is about.
Fresh == [at |-> "round", version |-> [a \in Assignments |-> Original],
          decision |-> [a \in Assignments |-> "NONE"], count |-> [a \in Assignments |-> 0],
          batch |-> Order, next |-> 1, cause |-> NoCross,
          steps |-> 0, reviews |-> 0, corrections |-> 0, status |-> "NONE"]

Idle == [Fresh EXCEPT !.at = "idle"]

Init ==
    /\ request \in Requests
    /\ journal = <<>>
    /\ work = [r \in Runs |-> Idle]
    /\ outputs = [r \in Runs |-> <<>>]
    /\ returned = {}
    /\ raced = FALSE
    /\ crashes = 0

-----------------------------------------------------------------------------
(* Contexts, cached outputs and the result.                                 *)

Largest(count) == CHOOSE n \in {count[a] : a \in Assignments} :
                      \A a \in Assignments : count[a] <= n

\* _review_context of one assignment, _review_context of all of them, and
\* _correction_context: all that the hash of a context tells apart.
ReviewOf(w, a) ==
    [kind |-> "REVIEW", on |-> [None EXCEPT ![a] = w.version[a]], count |-> w.count[a],
     related |-> None, cause |-> NoCross]

CrossOf(w) ==
    [kind |-> "CROSS", on |-> w.version, count |-> Largest(w.count), related |-> None,
     cause |-> NoCross]

CorrectionOf(w, a) ==
    [kind |-> "CORRECTION", on |-> [None EXCEPT ![a] = w.version[a]],
     count |-> w.count[a] + 1,
     related |-> IF w.cause = NoCross THEN None ELSE [w.version EXCEPT ![a] = NoVersion],
     cause |-> w.cause]

Context(w) ==
    IF w.at \in {"review", "reviewing"} THEN ReviewOf(w, w.batch[w.next])
    ELSE IF w.at \in {"cross", "crossing"} THEN CrossOf(w)
    ELSE CorrectionOf(w, w.batch[w.next])

Updated(cache, context, output) ==
    [c \in DOMAIN cache \cup {context} |-> IF c = context THEN output ELSE cache[c]]

\* Mutant: only the outputs of correctors are loaded.
CachedCorrections(events) ==
    LET kept == {i \in DOMAIN events : /\ events[i].type = "OUTPUT"
                                       /\ events[i].context.kind = "CORRECTION"}
    IN [c \in {events[i].context : i \in kept} |->
           events[CHOOSE i \in kept : events[i].context = c].output]

\* _CallJournal: a later output for the same context replaces an earlier one.
Cached(events) ==
    LET contexts == {events[i].context : i \in {j \in DOMAIN events : events[j].type = "OUTPUT"}}
        Latest(c) == CHOOSE i \in DOMAIN events :
                         /\ events[i].type = "OUTPUT" /\ events[i].context = c
                         /\ \A j \in DOMAIN events : j > i /\ events[j].type = "OUTPUT"
                                => events[j].context # c
    IN [c \in contexts |-> events[Latest(c)].output]

Blank == [kind |-> "NONE", on |-> None, count |-> 0, related |-> None, cause |-> NoCross]
NoResult == [status |-> "NONE", version |-> None, count |-> [a \in Assignments |-> 0]]
Prepared == [type |-> "PREPARED", context |-> Blank, output |-> NoOutput, result |-> NoResult]
OutputEvent(context, output) ==
    [type |-> "OUTPUT", context |-> context, output |-> output, result |-> NoResult]
ResultOf(w) == [status |-> w.status, version |-> w.version, count |-> w.count]
ResultEvent(w) ==
    [type |-> "RESULT", context |-> Blank, output |-> NoOutput,
     result |-> ResultOf(w)]

Results(events) == {i \in DOMAIN events : events[i].type = "RESULT"}

\* _result: the workflow is over, its result is about to be appended.
Over(w, status) == [w EXCEPT !.at = "over", !.status = status]

-----------------------------------------------------------------------------
(* The graph, one call.                                                     *)

\* One event loop runs all calls: one gives way to another only while it awaits
\* an executor.  An output that is in the journal is returned without a pause.
Awaiting == {"reviewing", "crossing", "correcting"}

Scheduled(r) == \A s \in Runs \ {r} : work[s].at \in Awaiting \cup {"idle"}

Becomes(r, w) ==
    /\ work' = [work EXCEPT ![r] = w]
    /\ UNCHANGED <<request, journal, outputs, returned, raced, crashes>>

Alone(r) == \A s \in Runs \ {r} : work[s].at = "idle"

\* RecoverableReviewWorkflow.run up to the call of the graph.  Without a result
\* in the journal the graph is replayed from the initial budget.
Enter(r) ==
    /\ work[r].at = "idle"
    /\ Results(journal) = {}
    /\ journal' = IF journal = <<>> THEN <<Prepared>> ELSE journal
    /\ outputs' = [outputs EXCEPT ![r] = Cached(journal)]
    /\ work' = [work EXCEPT ![r] = Fresh]
    /\ Alone(r) \/ Len(journal) >= OverlapFrom
    /\ raced' = (raced \/ ~Alone(r))
    /\ UNCHANGED <<request, returned, crashes>>

\* A result is in the journal: run returns the latest one.
ReturnCommitted(r) ==
    /\ work[r].at = "idle"
    /\ Results(journal) # {}
    /\ LET last == CHOOSE i \in Results(journal) : \A j \in Results(journal) : j <= i
       IN returned' = returned \cup {journal[last].result}
    /\ UNCHANGED <<request, journal, work, outputs, raced, crashes>>

\* BudgetExceeded: a limit is used up, or the wall time is.
BudgetStop(r) ==
    /\ work[r].at \in {"round", "judged", "toCross"}
    /\ Becomes(r, Over(work[r], "FAILED"))

\* move to PER_RESULT_REVIEW and record_review.
StartRound(r) ==
    /\ work[r].at = "round"
    /\ work[r].steps < StepLimit /\ work[r].reviews < ReviewLimit
    /\ Becomes(r, [work[r] EXCEPT !.at = "review", !.next = 1,
                                  !.steps = @ + 1, !.reviews = @ + 1])

\* An executor is called: reviewer.review or corrector.correct.
Asking == [review |-> "reviewing", cross |-> "crossing", correct |-> "correcting"]

\* A corrector is called for an assignment that has one and may be corrected.
MayCorrect(w) ==
    LET a == w.batch[w.next] IN a \in request.correctors /\ w.count[a] + 1 <= HardCorrections

Ready(w) ==
    \/ w.at \in {"review", "correct"} /\ w.next <= Len(w.batch)
       /\ (w.at = "correct" => MayCorrect(w))
    \/ w.at = "cross"

Ask(r) ==
    /\ Ready(work[r])
    /\ Context(work[r]) \notin DOMAIN outputs[r]
    /\ Becomes(r, [work[r] EXCEPT !.at = Asking[@]])

\* Mutant: a review that asks for changes is asked for again.
AfterReviewInsists(w, output) ==
    IF output.verdict = "INVALID" THEN Over(w, "FAILED")
    ELSE [w EXCEPT !.at = "review", !.decision[w.batch[w.next]] = output.verdict,
                   !.next = IF output.verdict = "REVISE" THEN @ ELSE @ + 1]

\* What a valid review of one result does.
AfterReview(w, output) ==
    IF output.verdict = "INVALID" THEN Over(w, "FAILED")
    ELSE [w EXCEPT !.at = "review", !.decision[w.batch[w.next]] = output.verdict,
                   !.next = @ + 1]

Blocking(decisions) ==
    IF "HUMAN_REQUIRED" \in decisions THEN "HUMAN_REQUIRED"
    ELSE IF "CONFLICT" \in decisions THEN "CONFLICT"
    ELSE "FAILED"

Blocked(decisions) == decisions \cap {"HUMAN_REQUIRED", "CONFLICT", "FAILED"} # {}

Completed == IF request.skipped THEN "PARTIAL" ELSE "APPROVED"

\* What a cross review does; one with an unknown or missing target is invalid.
AfterCross(w, output) ==
    IF output.verdict = "INVALID" THEN Over(w, "FAILED")
    ELSE IF output.verdict = "REVISE"
         THEN [w EXCEPT !.at = "judged", !.batch = output.targets,
                        !.cause = [on |-> w.version, count |-> Largest(w.count)]]
    ELSE Over(w, IF output.verdict = "PASS" THEN Completed ELSE Blocking({output.verdict}))

\* What a correction does: an unchanged result ends the workflow.
AfterCorrection(w, output) ==
    LET a == w.batch[w.next]
    IN IF output.verdict = "INVALID" \/ output.version = w.version[a] THEN Over(w, "FAILED")
       ELSE [w EXCEPT !.at = "correct", !.version[a] = output.version, !.count[a] = @ + 1,
                      !.decision[a] = "NONE", !.next = @ + 1]

After(w, output) ==
    IF w.at \in {"review", "reviewing"} THEN AfterReview(w, output)
    ELSE IF w.at \in {"cross", "crossing"} THEN AfterCross(w, output)
    ELSE AfterCorrection(w, output)

\* The output is in the journal already.
Replay(r) ==
    /\ Ready(work[r])
    /\ Context(work[r]) \in DOMAIN outputs[r]
    /\ Becomes(r, After(work[r], outputs[r][Context(work[r])]))

\* _cross_revision_targets: the assignments the findings name, in that order.
Targets ==
    {t \in UNION {[1..n -> Assignments] : n \in 1..Len(Order)} :
        \A i, j \in DOMAIN t : i # j => t[i] # t[j]}

\* Outputs the executor of a step can produce.
Opinions == {[NoOutput EXCEPT !.verdict = v] : v \in Verdicts}

CrossOpinions ==
    {output \in Opinions : output.verdict # "REVISE"}
    \cup {[NoOutput EXCEPT !.verdict = "REVISE", !.targets = t] : t \in Targets}

Corrections ==
    {output \in Opinions : output.verdict = "INVALID"}
    \cup {[NoOutput EXCEPT !.verdict = "PASS", !.version = v] : v \in Versions}

Answers(at) ==
    IF at = "reviewing" THEN Opinions
    ELSE IF at = "crossing" THEN CrossOpinions
    ELSE Corrections

\* The executor returns; the output is appended before anyone looks at it.
Return(r, output) ==
    /\ work[r].at \in Awaiting
    /\ output \in Answers(work[r].at)
    /\ journal' = Append(journal, OutputEvent(Context(work[r]), output))
    /\ outputs' = [outputs EXCEPT ![r] = Updated(@, Context(work[r]), output)]
    /\ work' = [work EXCEPT ![r] = After(work[r], output)]
    /\ UNCHANGED <<request, returned, raced, crashes>>

\* The executor raises or times out.
ExecutorFails(r) ==
    /\ work[r].at \in Awaiting
    /\ Becomes(r, Over(work[r], "FAILED"))

\* The members of a batch that are in a set, in the order of the batch.
Kept(batch, set) ==
    LET places == {i \in DOMAIN batch : batch[i] \in set}
        Rank(i) == Cardinality({j \in places : j <= i})
    IN [n \in 1..Cardinality(places) |-> batch[CHOOSE i \in places : Rank(i) = n]]

\* Every review of the round is in: stop, correct, cross-review or complete.
Judge(r) ==
    LET w == work[r]
        decisions == {w.decision[w.batch[i]] : i \in DOMAIN w.batch}
        revise == Kept(w.batch, {a \in Assignments : w.decision[a] = "REVISE"})
    IN /\ w.at = "review" /\ w.next > Len(w.batch)
       /\ \/ /\ Blocked(decisions)
             /\ Becomes(r, Over(w, Blocking(decisions)))
          \/ /\ ~Blocked(decisions) /\ "REVISE" \in decisions
             /\ Becomes(r, [w EXCEPT !.at = "judged", !.batch = revise, !.cause = NoCross])
          \/ /\ ~Blocked(decisions) /\ "REVISE" \notin decisions
             /\ Becomes(r, IF request.cross THEN [w EXCEPT !.at = "toCross"]
                           ELSE Over(w, Completed))

\* move to CROSS_RESULT_REVIEW.
StartCross(r) ==
    /\ work[r].at = "toCross"
    /\ work[r].steps < StepLimit
    /\ Becomes(r, [work[r] EXCEPT !.at = "cross", !.steps = @ + 1])

\* Mutant: record_correction is forgotten.
StartCorrectionUncounted(r) ==
    /\ work[r].at = "judged"
    /\ work[r].steps < StepLimit
    /\ Becomes(r, [work[r] EXCEPT !.at = "correct", !.next = 1, !.steps = @ + 1])

\* move to CORRECTION and record_correction.
StartCorrection(r) ==
    /\ work[r].at = "judged"
    /\ work[r].steps < StepLimit /\ work[r].corrections < CorrectionLimit
    /\ Becomes(r, [work[r] EXCEPT !.at = "correct", !.next = 1,
                                  !.steps = @ + 1, !.corrections = @ + 1])

\* No corrector, or the hard limit of this assignment.
CorrectionDenied(r) ==
    /\ work[r].at = "correct" /\ work[r].next <= Len(work[r].batch)
    /\ ~MayCorrect(work[r])
    /\ Becomes(r, Over(work[r], "FAILED"))

\* Mutant: after a cross review the corrected results are not reviewed one by one.
CorrectedToCross(r) ==
    /\ work[r].at = "correct" /\ work[r].next > Len(work[r].batch)
    /\ Becomes(r, [work[r] EXCEPT !.at = IF work[r].cause = NoCross THEN "round" ELSE "toCross"])

\* Only what was corrected is reviewed again.
Corrected(r) ==
    /\ work[r].at = "correct" /\ work[r].next > Len(work[r].batch)
    /\ Becomes(r, [work[r] EXCEPT !.at = "round"])

\* The result is appended ...
Finish(r) ==
    /\ work[r].at = "over"
    /\ journal' = Append(journal, ResultEvent(work[r]))
    /\ work' = [work EXCEPT ![r].at = "committed"]
    /\ UNCHANGED <<request, outputs, returned, raced, crashes>>

\* ... and returned.
Deliver(r) ==
    /\ work[r].at = "committed"
    /\ returned' = returned \cup {ResultOf(work[r])}
    /\ work' = [work EXCEPT ![r] = Idle]
    /\ outputs' = [outputs EXCEPT ![r] = <<>>]
    /\ UNCHANGED <<request, journal, raced, crashes>>

\* The process is lost: the journal is what remains.
Crash ==
    /\ \E r \in Runs : work[r].at # "idle"
    /\ crashes < MaxCrashes
    /\ crashes' = crashes + 1
    /\ work' = [r \in Runs |-> Idle]
    /\ outputs' = [r \in Runs |-> <<>>]
    /\ UNCHANGED <<request, journal, returned, raced>>

\* The call is cancelled where it is suspended.
Cancel(r) ==
    /\ work[r].at \in Awaiting
    /\ crashes < MaxCrashes
    /\ crashes' = crashes + 1
    /\ work' = [work EXCEPT ![r] = Idle]
    /\ outputs' = [outputs EXCEPT ![r] = <<>>]
    /\ UNCHANGED <<request, journal, returned, raced>>

Step(r) ==
    \/ BudgetStop(r) \/ StartRound(r) \/ Ask(r) \/ Replay(r)
    \/ \E output \in Answers(work[r].at) : Return(r, output)
    \/ ExecutorFails(r) \/ Judge(r) \/ StartCross(r) \/ StartCorrection(r)
    \/ CorrectionDenied(r) \/ Corrected(r) \/ Finish(r) \/ Deliver(r)

Turn(r) == Enter(r) \/ ReturnCommitted(r) \/ Cancel(r) \/ Step(r)

Next == Crash \/ \E r \in Runs : Scheduled(r) /\ Turn(r)

Spec == Init /\ [][Next]_vars

\* Executors return or time out, and the event loop runs what is ready.
FairSpec == Spec /\ \A r \in Runs : WF_vars(Scheduled(r) /\ Step(r))

-----------------------------------------------------------------------------
(* Properties.                                                              *)

\* What the journal holds for a context.
Committed(context) ==
    {i \in DOMAIN journal : journal[i].type = "OUTPUT" /\ journal[i].context = context}

Passed(context) == \E i \in Committed(context) : journal[i].output.verdict = "PASS"

\* Whatever reviewers and correctors answered, however often calls were cut off
\* and whichever calls overlapped: in a result that MainAggregationGate lets
\* through, each assignment passed a per-result review in exactly its final
\* version, and where results interact a cross review passed exactly that
\* combination of versions.
AggregatedIsReviewed ==
    \A result \in returned : result.status \in {"APPROVED", "PARTIAL"} =>
        /\ \A a \in Assignments : Passed(ReviewOf(result, a))
        /\ request.cross => Passed(CrossOf(result))

\* The replay of RecoverableReviewWorkflow: while calls follow one another, no
\* executor is called for a context whose output is in the journal, so a crash
\* repeats only the call it interrupted.
CommittedCallsNotRepeated ==
    [][\A r \in Runs :
          ~raced' /\ work[r].at # work'[r].at
              /\ work'[r].at \in Awaiting
          => Committed(Context(work'[r])) = {}]_vars

\* Once a result is committed a later call returns it: calls that follow one
\* another never hand Main two different results, not even after a crash
\* between the commit and the return.
SequentialResultIsUnique == ~raced => Cardinality(returned) <= 1

\* The budget of the task bounds the work of all its calls together: replay from
\* the initial budget does not let a restarted review correct or review an
\* assignment more often than one uninterrupted call could.
SequentialWorkIsBounded ==
    LET About(kind, a) == {i \in DOMAIN journal : /\ journal[i].context.kind = kind
                                                  /\ journal[i].context.on[a] # NoVersion}
    IN ~raced => \A a \in Assignments :
           /\ Cardinality(About("CORRECTION", a)) <= CorrectionLimit
           /\ Cardinality(About("REVIEW", a)) <= ReviewLimit
           /\ Cardinality(About("CROSS", a)) <= ReviewLimit

\* A review that is cut off and called again is one review: one result, within
\* one budget.
SequentialReviewIsOne == SequentialResultIsUnique /\ SequentialWorkIsBounded

\* Every call ends: reviewers that keep asking for changes are stopped by the
\* limits of the guard, and executors that fail end the graph.
ReviewEnds == \A r \in Runs : (work[r].at # "idle") ~> (work[r].at = "idle")

=============================================================================
