SPECIFICATION Spec
CONSTANTS
    Servers = 2
    Addresses = {"a", "b"}
    Ports <- MCPorts
    Means <- MCMeans
    Names = {"a", "x"}
    Hooks = 2
INVARIANTS
    TwinsFailAtBind
CHECK_DEADLOCK FALSE
