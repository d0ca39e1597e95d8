SPECIFICATION FairSystemSpec
CONSTANTS
    echo = echo
    w1 = w1
    w2 = w2
    r1 = r1
    r2 = r2
    NoObj = NoObj
    NoReq = NoReq
    NoWorker = NoWorker
    Worker = {w1, w2}
    Service = {echo}
    Request = {r1, r2}
    Objects = 2
    Obj <- MCObj
    OwnerOf <- MCOwnerOf
    SvcOf <- MCSvcOf
    ReqSvc <- MCReqSvc
    Lifetime = 3
    Liveness = 2
    Mortal = {}
    Failing = {r2}
    Slack = 0
    GuardedDict = FALSE
INVARIANTS
    SystemInv
    AnswerOnce
    LiveKept
    PromptInv
PROPERTIES
    Rejoins
    HandedIsAnswered
CHECK_DEADLOCK FALSE
