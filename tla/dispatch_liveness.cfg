SPECIFICATION AxumSpec
CONSTANTS
    r1 = r1
    r2 = r2
    Requests = {r1, r2}
    Middlewares = 1
    AdmitMax = 2
    Workers = 1
    QueueCap = 2
PROPERTIES
    ClientAnswered
    JobsDrain
    CoroutineEnds
