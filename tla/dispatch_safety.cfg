SPECIFICATION Spec
CONSTANTS
    r1 = r1
    r2 = r2
    Requests = {r1, r2}
    Middlewares = 2
    AdmitMax = 1
    Workers = 1
    QueueCap = 1
INVARIANTS
    TypeOK
    GuardOrder
    CalledOnce
    AnswerIsTheDecision
    AdmissionAccounting
    JobSpansCoroutine
PROPERTY ChainSpec
