SPECIFICATION ListenerSpec
CONSTANTS
    MaxVersion = 2
    Removable = {"key", "ca"}
    Clients = {"alice"}
    Slots = {1}
    MaxLoads = 5
    Vouches <- MCVouches
INVARIANTS
    TypeOK
    PairMatches
PROPERTIES
    OnlyForward
    ChangePickedUp
    DropTakesEffect
CHECK_DEADLOCK FALSE
