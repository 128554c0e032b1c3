------------------------ MODULE ProfessionalWorkflow -------------------------
(***************************************************************************)
(* The professional work of one task: results are finalized by the skills  *)
(* (ProfessionalSkills), judged by ProfessionalReviewService inside the    *)
(* review graph, and submitted to ProfessionalApprovalService with review  *)
(* evidence.  Callers may submit any result they hold with any evidence    *)
(* they hold, also a superseded revision; meanwhile standards are          *)
(* withdrawn from the index or superseded.                                 *)
(***************************************************************************)
EXTENDS ProfessionalSkills

CONSTANTS Questions, PlanCandidates, Datasets, ReportCandidates,   \* inputs
          Task,          \* the task under review
          MaxPlans, MaxReports, MaxReviews   \* bounds

VARIABLES
  published,    \* chunks of published snapshots
  applicable,   \* standard versions that are registered and applicable
  asked,        \* the question whose retrieval has returned, with its hits
  answers, plans, processed, methods, reports,   \* the results produced
  reviews,      \* finished review workflows: current results by kind and the status
  approval      \* the approval of the task

vars == <<published, applicable, asked, answers, plans, processed, methods, reports, reviews,
          approval>>

NotAsked == [open |-> FALSE]
NoApproval == [state |-> "NONE"]

Init ==
  /\ published = DOMAIN StandardOf
  /\ applicable = {StandardOf[c] : c \in DOMAIN StandardOf}
  /\ asked = NotAsked
  /\ answers = {} /\ plans = {} /\ processed = {} /\ methods = {} /\ reports = {}
  /\ reviews = {}
  /\ approval = NoApproval
-----------------------------------------------------------------------------
\* Between two steps of the skills the knowledge release withdraws or supersedes.
Withdraw(c) ==
  /\ c \in published
  /\ published' = published \ {c}
  /\ UNCHANGED <<applicable, asked, answers, plans, processed, methods, reports, reviews, approval>>

Supersede(s) ==
  /\ s \in applicable
  /\ applicable' = applicable \ {s}
  /\ UNCHANGED <<published, asked, answers, plans, processed, methods, reports, reviews, approval>>

\* TechnicalQASkill.execute up to the retrieval: the early returns are results too.
Ask(q) ==
  /\ asked = NotAsked /\ answers = {}
  /\ \A c \in q.claims : ValidClaim(c)
  /\ IF ~q.missing /\ q.supported /\ q.claims # {}
     THEN asked' = [open |-> TRUE, question |-> q, hits |-> q.corpus \cap published]
          /\ UNCHANGED answers
     ELSE answers' = {Terminal(q)} /\ UNCHANGED asked
  /\ UNCHANGED <<published, applicable, plans, processed, methods, reports, reviews, approval>>

\* The rest of execute: the index is read again.
Answer ==
  /\ asked # NotAsked
  /\ answers' = {Answered(asked.question, asked.hits, asked.question.corpus \cap published)}
  /\ asked' = NotAsked
  /\ UNCHANGED <<published, applicable, plans, processed, methods, reports, reviews, approval>>

Plan(p) ==
  /\ Cardinality(plans) < MaxPlans
  /\ \E a \in answers : plans' = plans \cup {Planned(p, a, published, applicable)}
  /\ UNCHANGED <<published, applicable, asked, answers, processed, methods, reports, reviews,
                 approval>>

\* DataProcessingControlSkill.validate and MethodSkillRegistry.validate of one candidate.
Process(d) ==
  /\ processed = {} /\ ValidCandidate(d)
  /\ processed' = {Processed(d)} /\ methods' = {MethodValidated(d)}
  /\ UNCHANGED <<published, applicable, asked, answers, plans, reports, reviews, approval>>

\* InspectionReportSkill.validate: of evidence taken over from an eligible processing
\* result, or of evidence the candidate brings.
Report(r) ==
  /\ Cardinality(reports) < MaxReports /\ ValidReport(r)
  /\ \E p \in plans, e \in {Evidence(d) : d \in {x \in processed : x.eligible}} \cup r.evidence :
       reports' = reports \cup {Reported(r, e, p)}
  /\ UNCHANGED <<published, applicable, asked, answers, plans, processed, methods, reviews,
                 approval>>
-----------------------------------------------------------------------------
\* _per_result_decision, human being the boundary a result of the kind carries.
PerResult(r, task, human, defects) ==
  IF task # Task \/ r.status \in {"FAILED", "BLOCKED"} THEN "FAILED"
  ELSE IF human \/ r.status \in {"HUMAN_REQUIRED", "NEEDS_USER"} THEN "HUMAN_REQUIRED"
  ELSE IF defects \/ r.issues \/ r.status = "PARTIAL_SUCCESS" THEN "REVISE"
  ELSE "PASS"

ReviewAnswer(a) == PerResult(a, a.task, a.human, \E c \in a.claims : c.citations = {})
ReviewPlan(p) == PerResult(p, p.task, FALSE, FALSE)
ReviewProcessing(d) == PerResult(d, d.task, FALSE, d.request.externalCalls > 0)
ReviewMethod(v) == PerResult(v, Task, FALSE, v.status # "SUCCESS")
ReviewReport(r) == PerResult(r, r.task, HumanBoundary(r), FALSE)

\* review_one of every target of a workflow.
Decisions(t) ==
  {ReviewAnswer(a) : a \in t.qa} \cup {ReviewPlan(p) : p \in t.plan}
    \cup {ReviewProcessing(d) : d \in t.processing} \cup {ReviewMethod(v) : v \in t.method}
    \cup {ReviewReport(r) : r \in t.report}

\* _processing_matches_report.
ProcessingMatches(d, r) ==
  LET e == Evidence(d)
  IN /\ \E s \in r.evidence.sources : /\ s.dataset = d.request.source
                                      /\ s.method = d.request.method
     /\ \E n \in r.evidence.runs : /\ n.run = d.request.run
                                   /\ n.dataset = d.request.source
                                   /\ n.output = d.request.output
     /\ \A o \in DOMAIN e.observations :
          /\ o \in DOMAIN r.evidence.observations
          /\ r.evidence.observations[o] = e.observations[o]

\* _check_cross_relations finds nothing.
CrossConsistent(t) ==
  /\ Cardinality(t.qa) <= 1 /\ Cardinality(t.plan) <= 1 /\ Cardinality(t.report) <= 1
  /\ \A a \in t.qa, p \in t.plan :
       /\ p.qa = a
       /\ \A b \in p.bases : \E c \in a.claims : c.id = b.claim /\ b.chunk \in c.citations
  /\ \A p \in t.plan, r \in t.report : r.plan = p
  /\ \A d \in t.processing : /\ \A r \in t.report : ProcessingMatches(d, r)
                             /\ t.method # {} => \E v \in t.method : v.request = d.request
  /\ \A r \in t.report, v \in t.method :
       \E s \in r.evidence.sources : s.method = v.request.method

Size(t) == Cardinality(t.qa) + Cardinality(t.plan) + Cardinality(t.processing)
             + Cardinality(t.method) + Cardinality(t.report)

\* review_cross: it needs every target to pass on its own.
Cross(t) == IF Decisions(t) = {"PASS"} /\ CrossConsistent(t) THEN "PASS" ELSE "CONFLICT"

\* The outcome of the review graph: the blocking decisions first, then cross review.
\* APPROVED stands for PARTIAL too, which differs in children that were skipped.
Outcome(t) ==
  IF "HUMAN_REQUIRED" \in Decisions(t) THEN "HUMAN_REQUIRED"
  ELSE IF Decisions(t) # {"PASS"} THEN "FAILED"
  ELSE IF Size(t) > 1 /\ Cross(t) = "CONFLICT" THEN "CONFLICT"
  ELSE "APPROVED"

\* What the targets become when the graph has a report revised by its corrector.
Corrected(t) ==
  {t} \cup {[t EXCEPT !.report = (@ \ {old}) \cup {new}] :
              old \in {r \in t.report : /\ ReviewReport(r) = "REVISE"
                                        /\ Decisions(t) \subseteq {"PASS", "REVISE"}},
              new \in {r \in reports : r.status = "SUCCESS"}}

Targets ==
  {t \in [qa : SUBSET answers, plan : SUBSET plans, processing : SUBSET processed,
          method : SUBSET methods, report : SUBSET reports] :
     Size(t) > 0 /\ t.plan \cup t.report # {}}

Review ==
  /\ Cardinality(reviews) < MaxReviews
  /\ \E t \in Targets : \E now \in Corrected(t) :
       reviews' = reviews \cup {[current |-> now, status |-> Outcome(now)]}
  /\ UNCHANGED <<published, applicable, asked, answers, plans, processed, methods, reports,
                 approval>>
-----------------------------------------------------------------------------
\* An assessment a caller may hold: per result, or across the targets of a workflow.
Assessments(kind, r) ==
  {[targets |-> {r}, decision |-> IF kind = "PLAN" THEN ReviewPlan(r) ELSE ReviewReport(r)]}
  \cup {[targets |-> IF kind = "PLAN" THEN v.current.plan ELSE v.current.report,
         decision |-> Cross(v.current)] : v \in {x \in reviews : Size(x.current) > 1}}

\* _validate_review_evidence: the workflow's current results hold exactly the result, and
\* the assessment is about it.
EvidenceBindsOther(kind, r, assessment, v, decision) ==
  /\ r.task = Task
  /\ assessment.decision = decision
  /\ v.status = IF decision = "PASS" THEN "APPROVED" ELSE decision
  /\ r \in assessment.targets

EvidenceBinds(kind, r, assessment, v, decision) ==
  /\ r.task = Task
  /\ assessment.decision = decision
  /\ v.status = IF decision = "PASS" THEN "APPROVED" ELSE decision
  /\ r \in IF kind = "PLAN" THEN v.current.plan ELSE v.current.report
  /\ r \in assessment.targets

Approvable(kind, r, findings) ==
  CASE kind = "PLAN"   -> r.status = "SUCCESS" /\ ~r.issues
    [] kind = "REPORT" -> r.status = "SUCCESS" /\ ~r.issues /\ ~HumanBoundary(r)
    [] OTHER           -> /\ r.status = "HUMAN_REQUIRED"
                          /\ findings # {}
                          /\ findings \subseteq {f.id : f \in {x \in r.report.findings : x.critical}}

\* create_plan, create_report and create_critical_findings.
Create(kind, r, findings) ==
  LET decision == IF kind = "CRITICAL_FINDING" THEN "HUMAN_REQUIRED" ELSE "PASS"
  IN /\ approval = NoApproval
     /\ Approvable(kind, r, findings)
     /\ \E v \in reviews : \E assessment \in Assessments(kind, r) :
          EvidenceBinds(kind, r, assessment, v, decision)
     /\ approval' = [state |-> "PENDING", kind |-> kind, result |-> r, findings |-> findings]
     /\ UNCHANGED <<published, applicable, asked, answers, plans, processed, methods, reports,
                    reviews>>

CreatePlan == \E p \in plans : Create("PLAN", p, {})
CreateReport == \E r \in reports : Create("REPORT", r, {})
CreateCriticalFindings ==
  \E r \in reports : \E findings \in SUBSET {f.id : f \in r.report.findings} :
    Create("CRITICAL_FINDING", r, findings)

\* decide and resume, of the approval service: one decision, one grant.
Decide ==
  /\ approval.state = "PENDING"
  /\ \E outcome \in {"APPROVED", "REJECTED", "CHANGES_REQUESTED"} :
       approval' = [approval EXCEPT !.state = outcome]
  /\ UNCHANGED <<published, applicable, asked, answers, plans, processed, methods, reports,
                 reviews>>

Resume ==
  /\ approval.state = "APPROVED"
  /\ approval' = [approval EXCEPT !.state = "GRANTED"]
  /\ UNCHANGED <<published, applicable, asked, answers, plans, processed, methods, reports,
                 reviews>>

Next ==
  \/ \E c \in DOMAIN StandardOf : Withdraw(c) \/ Supersede(StandardOf[c])
  \/ \E q \in Questions : Ask(q)
  \/ Answer
  \/ \E p \in PlanCandidates : Plan(p)
  \/ \E d \in Datasets : Process(d)
  \/ \E r \in ReportCandidates : Report(r)
  \/ Review
  \/ CreatePlan \/ CreateReport \/ CreateCriticalFindings
  \/ Decide \/ Resume

Spec == Init /\ [][Next]_vars
-----------------------------------------------------------------------------
\* The result an approval was granted for is, in this very revision, a current result of a
\* review workflow that was approved and needed no human, whatever the reviews and the
\* revisions since (create_plan, create_report, _validate_review_evidence).
ApprovedResultIsReviewed ==
  approval.state = "GRANTED" /\ approval.kind # "CRITICAL_FINDING" =>
    \E v \in reviews :
      /\ v.status = "APPROVED"
      /\ IF approval.kind = "PLAN" THEN approval.result \in v.current.plan
         ELSE approval.result \in v.current.report /\ ~HumanBoundary(approval.result)

\* The findings of an approved report are grounded: in observations a run produced from a
\* calibrated source in scope, in calculations that recompute, and in plan bases whose
\* chunk an applicable claim of the plan's QA result cites (the chain execute, validate of
\* planning and of reporting, review_one).
ApprovedReportIsGrounded ==
  approval.state = "GRANTED" /\ approval.kind = "REPORT" =>
    LET r == approval.result
        observed == r.evidence.observations
    IN /\ \A k \in r.report.calculations : Recomputes(k, observed)
       /\ \A f \in r.report.findings :
            /\ \A o \in f.observations :
                 \E n \in r.evidence.runs, s \in r.evidence.sources :
                   /\ n.run = observed[o].run /\ n.dataset = s.dataset
                   /\ s.scoped /\ s.calibrated
            /\ \A b \in f.bases : \E x \in r.plan.bases, c \in r.plan.qa.claims :
                 x.id = b /\ x.claim = c.id /\ x.chunk \in c.citations
=============================================================================
