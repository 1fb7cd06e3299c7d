SPECIFICATION Spec
CONSTANTS
    Servers = 2
    Addresses = {"a", "b", "zero"}
    Ports <- MCPorts
    Means <- MCMeans
    Names = {"a", "x"}
    Hooks = 2
INVARIANTS
    TypeOK
    HooksBeforeConnections
    RoutesHoldEveryBind
    NameIsOneListener
    WantedListenersAreHeld
PROPERTY ListenersSettle
CHECK_DEADLOCK FALSE
