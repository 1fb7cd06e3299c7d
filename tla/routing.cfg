SPECIFICATION RoutingSpec
CONSTANTS
    Methods <- MCMethods
    Names = {"internal", "public", "nowhere"}
    MaxRoutes = 3
    Calls <- MCCalls
    Words <- MCWords
    Upper <- MCUpper
    Tokens = {"GET", "PUT"}
    Configured = {"internal", "public"}
    Templates = {"/a", "/{x}"}
    Covering <- MCCovering
INVARIANTS
    RoutingTypeOK
    MatchIsRight
    RestrictionHolds
    ServedAsRegistered
    ServesOnlyWhatExists
CHECK_DEADLOCK FALSE
