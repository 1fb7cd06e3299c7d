SPECIFICATION Spec
CONSTANTS
    r1 = r1
    r2 = r2
    Requests = {r1, r2}
    Middlewares = 0
    AdmitMax = 1
    Workers = 1
    QueueCap = 1
INVARIANTS
    RespondMeansHandlerAnswered
