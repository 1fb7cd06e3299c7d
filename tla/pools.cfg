SPECIFICATION FairSpec
CONSTANTS
    c1 = c1
    c2 = c2
    c3 = c3
    Callers = {c1, c2, c3}
    Scripts = {c2, c3}
    Settings = {"first", "second"}
    Reloading = {"first"}
    MaxTasks = 2
    MaxVersion = 4
    Broken = {1, 3}
INVARIANTS
    TypeOK
    PoolIsTheOneConfigured
    BuiltOnce
    OneRebuildPerChange
PROPERTY ChangePickedUp
