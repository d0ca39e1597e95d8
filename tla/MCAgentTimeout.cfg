SPECIFICATION FairSpec
CONSTANTS
    HasTimeout = TRUE
    MaxRequests = 3
INVARIANTS
    ReportHonest
    IndInv
PROPERTIES
    NoReplyAfterCleanup
    AgentEnds
CHECK_DEADLOCK FALSE
