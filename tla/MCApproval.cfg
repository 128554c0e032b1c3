SPECIFICATION Spec
CONSTANTS
  requester = requester
  ann = ann
  ben = ben
  Calls = {c1, c2}
  Ids = {i1, i2, i3}
  Actors = {requester, ann, ben}
  Requester = requester
  RolesOf <- MCRoles
  Contents = {"x"}
  Rules <- MCRules
  Delegates = {ben}
  Answers = {"APPROVED", "REJECTED"}
  Validity = 2
  MaxTime = 2
  MaxEvents = 4
  ApprovalId = ApprovalId
  System = System
  NoActor = NoActor
  NoRole = NoRole
SYMMETRY MCSymmetry
CHECK_DEADLOCK FALSE
INVARIANTS
  JournalIsLawful
  GrantIsBacked
  SequentialCallsAreUnique
