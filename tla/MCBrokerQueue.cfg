SPECIFICATION Spec
CONSTANTS
    echo = echo
    sumnums = sumnums
    w1 = w1
    w2 = w2
    r1 = r1
    r2 = r2
    r3 = r3
    NoObj = NoObj
    NoReq = NoReq
    NoWorker = NoWorker
    Worker = {w1, w2}
    Service = {echo, sumnums}
    Request = {r1, r2, r3}
    ObjectsOfEcho = 2
    ObjectsOfSumnums = 1
    Obj <- MCObj
    OwnerOf <- MCOwnerOf
    SvcOf <- MCSvcOf
    ReqSvc <- MCReqSvc
    Lifetime = 1
    GuardedDict = FALSE
INVARIANTS
    OneLeader
    NoLostWakeup
    RequestConservation
PROPERTIES
    IsRequestQueue
