------------------------- MODULE ProfessionalSkills --------------------------
(***************************************************************************)
(* The deterministic finalizers of the professional package: what Technical *)
(* QA, inspection planning, data processing, method validation and         *)
(* reporting make of a candidate.  Each returns a result whose status is   *)
(* decided by the issues found; the hash of a result is the result.        *)
(*                                                                          *)
(* Values compared only for equality are names; a bound that is only       *)
(* compared (a version, a budget, a region) is the outcome of its           *)
(* comparison.  Every chunk belongs to one standard.                        *)
(***************************************************************************)
EXTENDS Integers, FiniteSets, FiniteSetsExt

CONSTANTS Methods,     \* SUPPORTED_METHODS and their MethodSkillDefinitions
          StandardOf   \* chunk -> the standard version its snapshot is bound to

\* The model validators: a critical claim and a formal conclusion ask for a human, and
\* what has unknown applicability concludes nothing.
ValidClaim(c) == (c.critical \/ c.formal => c.human) /\ (c.applies = "UNKNOWN" => ~c.formal)

\* The supports of a draft claim that survive the check against the retrieval and the
\* snapshots, hits being what was retrieved and current what is published now.
Citations(c, hits, current) ==
  {s.chunk : s \in {x \in c.supports : x.chunk \in hits \cap current /\ x.quoted}}

ClaimCritical(c, hits, current) ==
  \/ \E s \in c.supports : s.chunk \in hits \ current
  \/ Citations(c, hits, current) = {} /\ c.critical
  \/ c.formal

ClaimBlocks(c, hits, current) ==
  \/ Citations(c, hits, current) = {}
  \/ \E s \in c.supports : s.chunk \notin hits \/ ~s.quoted

\* A result before retrieval: inputs missing, domain unsupported, no candidate.
Terminal(q) ==
  [task |-> q.task, claims |-> {}, issues |-> TRUE, human |-> ~q.missing /\ ~q.supported,
   status |-> IF q.missing \/ q.supported THEN "NEEDS_USER" ELSE "HUMAN_REQUIRED"]

Answered(q, hits, current) ==
  LET critical == \E c \in q.claims : ClaimCritical(c, hits, current)
      blocking == critical \/ \E c \in q.claims : ClaimBlocks(c, hits, current)
      human    == critical \/ \E c \in q.claims : c.human
  IN [task |-> q.task, issues |-> blocking, human |-> human,
      claims |-> {[id |-> c.id, applies |-> c.applies,
                   citations |-> Citations(c, hits, current)] : c \in q.claims},
      status |-> IF human THEN "HUMAN_REQUIRED"
                 ELSE IF blocking \/ q.incomplete THEN "PARTIAL_SUCCESS" ELSE "SUCCESS"]
-----------------------------------------------------------------------------
\* A basis binds a citation of an applicable claim of the QA result, whose snapshot is
\* still published and bound to that standard, which is registered and applicable.
BasisValid(answer, b, current, applicable) ==
  /\ \E c \in answer.claims : /\ c.id = b.claim
                              /\ c.applies \in {"APPLICABLE", "CONDITIONAL"}
                              /\ b.chunk \in c.citations
  /\ b.chunk \in current
  /\ StandardOf[b.chunk] = b.standard
  /\ b.standard \in applicable

PlanCritical(p, answer, current, applicable) ==
  \/ ~p.qaScoped
  \/ answer.status \notin {"SUCCESS", "PARTIAL_SUCCESS"}
  \/ ~(p.methods \subseteq Methods)
  \/ \E b \in p.bases : ~BasisValid(answer, b, current, applicable)
  \/ ~p.inOntology

PlanErrors(p) ==
  \/ ~(p.absent \subseteq DOMAIN p.gaps)
  \/ ~p.sections
  \/ ~(p.sampled \subseteq p.quantities)
  \/ ~(p.accepted \subseteq {b.id : b \in p.bases})
  \/ ~(p.requested \subseteq p.methods)

Planned(p, answer, current, applicable) ==
  LET critical == PlanCritical(p, answer, current, applicable)
      blocking == PlanErrors(p) \/ \E g \in DOMAIN p.gaps : p.gaps[g] = "blocking"
  IN [task |-> p.task, id |-> p.id, qa |-> answer, bases |-> p.bases,
      issues |-> critical \/ PlanErrors(p),
      status |-> IF critical THEN "HUMAN_REQUIRED" ELSE IF blocking THEN "NEEDS_USER"
                 ELSE IF DOMAIN p.gaps # {} THEN "PARTIAL_SUCCESS" ELSE "SUCCESS"]
-----------------------------------------------------------------------------
\* ProcessingCandidate.validate_candidate: a success has no failure cause and keeps an
\* output, a failure says why.
ValidCandidate(d) == (d.status \in {"FAILED", "BLOCKED"}) = d.explained

ProcessingCritical(d) ==
  \/ ~d.scoped
  \/ d.method \notin Methods \/ d.candidateMethod # d.method
  \/ ~(d.calibratedFrom <= d.acquired /\ d.acquired <= d.calibratedTo)
  \/ d.candidateSource # d.source
  \/ ~d.versions \/ ~d.parameters
  \/ ~d.withinBudget \/ d.adapterCalls # 1 \/ d.attempts # 1
  \/ d.externalCalls > 0
  \/ \E o \in DOMAIN d.observations : d.observations[o].traced # d.source
  \/ ~d.figures

Processed(d) ==
  LET critical == ProcessingCritical(d)
      status == IF critical THEN "HUMAN_REQUIRED"
                ELSE IF d.status = "SUCCESS" /\ ~d.quality THEN "PARTIAL_SUCCESS" ELSE d.status
      issues == critical \/ ~d.quality
  IN [task |-> d.task, request |-> d, status |-> status, issues |-> issues,
      eligible |-> status = "SUCCESS" /\ ~issues /\ d.origin = "PRODUCTION"]

\* MethodSkillRegistry.validate: every issue is critical.
MethodCompatible(d) ==
  /\ d.scoped
  /\ d.method \in Methods /\ d.candidateMethod = d.method
  /\ d.settings /\ d.applicable /\ d.calibrationKind /\ d.signal /\ d.methodParameters
  /\ d.origin \in {"LABORATORY", "PRODUCTION", "SIMULATED"}
  /\ d.status = "SUCCESS" => DOMAIN d.observations # {}
  /\ \A o \in DOMAIN d.observations : d.observations[o].registered

MethodValidated(d) ==
  [request |-> d, issues |-> ~MethodCompatible(d),
   status |-> IF MethodCompatible(d) THEN "SUCCESS" ELSE "HUMAN_REQUIRED",
   production |-> /\ MethodCompatible(d) /\ d.origin = "PRODUCTION"
                  /\ d.status = "SUCCESS"]

\* to_report_evidence of an eligible result.
Evidence(r) ==
  LET d == r.request
  IN [sources |-> {[dataset |-> d.source, method |-> d.method, calibrated |-> TRUE,
                    scoped |-> TRUE]},
      runs |-> {[run |-> d.run, dataset |-> d.source, output |-> d.output, scoped |-> TRUE]},
      observations |-> [o \in DOMAIN d.observations |->
                          [run |-> d.run, dataset |-> d.source, scoped |-> TRUE,
                           dimension |-> d.observations[o].dimension,
                           value |-> d.observations[o].value]]]
-----------------------------------------------------------------------------
\* The recomputation of a calculation over the observations it names.  A MEAN is compared
\* without dividing.
Recomputes(k, observed) ==
  LET value(o) == observed[o].value
      values == {value(o) : o \in k.inputs}
      total == MapThenSumSet(value, k.inputs)
  IN CASE k.formula = "COUNT"   -> k.value = Cardinality(k.inputs)
       [] k.formula = "MAXIMUM" -> k.value = Max(values)
       [] k.formula = "MINIMUM" -> k.value = Min(values)
       [] k.formula = "RANGE"   -> k.value = Max(values) - Min(values)
       [] k.formula = "SUM"     -> k.value = total
       [] k.formula = "MEAN"    -> k.value * Cardinality(k.inputs) = total

CalculationError(k, observed) == ~(k.inputs \subseteq DOMAIN observed)

CalculationCritical(k, observed) ==
  /\ ~CalculationError(k, observed)
  /\ \/ ~Recomputes(k, observed)
     \/ /\ k.formula = "COUNT"
        /\ k.dimension # "COUNT"
     \/ /\ k.formula # "COUNT"
        /\ {observed[o].dimension : o \in k.inputs} # {k.dimension}

\* _validate_plan: the report binds the plan it was requested for, which is usable.
PlanIdentified(r, plan) == r.planId = plan.id

PlanUsable(r, plan) ==
  r.planId = plan.id /\ plan.status \in {"SUCCESS", "PARTIAL_SUCCESS"}

\* The model validators: a critical finding and a formal conclusion ask for a human.
ValidReport(r) ==
  /\ \A f \in r.findings : f.critical => f.human
  /\ r.conclusion.formal => r.conclusion.human

EvidenceCritical(e) ==
  \/ \E s \in e.sources : ~s.scoped \/ s.method \notin Methods \/ ~s.calibrated
  \/ \E n \in e.runs : ~n.scoped \/ ~\E s \in e.sources : s.dataset = n.dataset
  \/ \E o \in DOMAIN e.observations :
       \/ ~e.observations[o].scoped
       \/ ~\E n \in e.runs : /\ n.run = e.observations[o].run
                             /\ n.dataset = e.observations[o].dataset

ReportCritical(r, e, plan) ==
  \/ ~PlanUsable(r, plan)
  \/ EvidenceCritical(e)
  \/ \E k \in r.calculations : CalculationCritical(k, e.observations)
  \/ ~(r.figures \subseteq DOMAIN e.observations)
  \/ \E f \in r.findings : \/ ~(f.observations \subseteq DOMAIN e.observations)
                           \/ ~(f.bases \subseteq {b.id : b \in plan.bases})
  \/ ~(r.conclusion.findings \subseteq {f.id : f \in r.findings})
  \/ r.conclusion.formal

ReportErrors(r, e) ==
  \/ ~r.sections
  \/ \E k \in r.calculations : CalculationError(k, e.observations)
  \/ \E f \in r.findings : ~(f.calculations \subseteq {k.id : k \in r.calculations})
  \/ r.revisions # [i \in 1..r.revision |-> i]

Reported(r, e, plan) ==
  LET critical == ReportCritical(r, e, plan)
      human == critical \/ r.conclusion.human \/ \E f \in r.findings : f.human
  IN [task |-> r.task, report |-> r, evidence |-> e, plan |-> plan,
      issues |-> critical \/ ReportErrors(r, e),
      status |-> IF human THEN "HUMAN_REQUIRED"
                 ELSE IF ReportErrors(r, e) THEN "NEEDS_USER" ELSE "SUCCESS"]

\* The boundary of a report only a qualified human may cross.
HumanBoundary(result) ==
  \/ result.report.conclusion.formal \/ result.report.conclusion.human
  \/ \E f \in result.report.findings : f.critical \/ f.human
=============================================================================
