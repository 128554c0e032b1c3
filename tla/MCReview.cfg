CONSTANTS
    a1 = a1
    a2 = a2
    v0 = v0
    v1 = v1
    NoVersion = NoVersion
    Runs = {r1, r2}
    Order <- MCOrder
    Requests <- MCRequests
    Versions = {v0, v1}
    Original = v0
    Verdicts = {"PASS", "REVISE", "HUMAN_REQUIRED"}
    StepLimit = 7
    ReviewLimit = 3
    CorrectionLimit = 1
    HardCorrections = 2
    OverlapFrom = 6
    MaxCrashes = 1
SPECIFICATION FairSpec
CHECK_DEADLOCK TRUE
INVARIANTS
  AggregatedIsReviewed
  SequentialReviewIsOne
PROPERTIES
  ReviewEnds
  CommittedCallsNotRepeated
