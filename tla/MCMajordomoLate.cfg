SPECIFICATION FairSystemSpec
CONSTANTS
    echo = echo
    w1 = w1
    w2 = w2
    r1 = r1
    r2 = r2
    NoObj = NoObj
    NoReq = NoReq
    NoWorker = NoWorker
    Worker = {w1, w2}
    Service = {echo}
    Request = {}
    Objects = 2
    Obj <- MCObj
    OwnerOf <- MCOwnerOf
    SvcOf <- MCSvcOf
    ReqSvc <- MCReqSvc
    Lifetime = 1
    Liveness = 1
    Mortal = {w1}
    Failing = {}
    Slack = 1
    GuardedDict = FALSE
PROPERTIES
    Rejoins
    DeadForgotten
CHECK_DEADLOCK FALSE
