----------------------------- MODULE MCApproval -----------------------------
(***************************************************************************)
(* Instances of ApprovalService for TLC.                                    *)
(***************************************************************************)
EXTENDS ApprovalService, TLC

CONSTANTS requester, ann, ben

\* The rules of a RELEASE and of a PLAN.
Release == [roles |-> {"SECURITY_OWNER", "QUALITY_OWNER"}, all |-> TRUE, delegation |-> FALSE]
Plan == [roles |-> {"QUALIFIED_APPROVER"}, all |-> FALSE, delegation |-> TRUE]

MCRules == {Release, Plan}
MCPlanRule == {Plan}

\* ann holds both owner roles and approves plans, ben owns quality and administers
\* the project, and the requester could approve plans of others.
MCRoles ==
    [a \in Actors |-> CASE a = ann -> {"SECURITY_OWNER", "QUALITY_OWNER", "QUALIFIED_APPROVER"}
                        [] a = ben -> {"QUALITY_OWNER", "PROJECT_ADMINISTRATOR"}
                        [] OTHER -> {"QUALIFIED_APPROVER"}]

\* IDs and calls are interchangeable.
MCSymmetry == Permutations(Ids) \cup Permutations(Calls)
=============================================================================
