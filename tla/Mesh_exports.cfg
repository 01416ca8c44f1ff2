\* Behind an openshift-router: two selectors, one change of a Service, one failed list, failed call or restart.
SPECIFICATION Spec
CONSTANTS
    NoService = NoService
    Services <- MCOneService
    Labels = {"export", "public"}
    PortLists <- MCPorts
    Rules <- MCTwoSelectors
    Local <- MCRouterLocal
    Remotes <- MCNoRemotes
    IPs <- MCIPs
    Answers <- MCAnswer
    Clients = {}
    Responses <- MCNoResponses
    Faults = {"api", "list", "restart"}
    MaxChanges = 1
    MaxUpdates = 0
    MaxFaults = 1
INVARIANT SettledResourcesMatch
PROPERTY CallsServeWanted
CHECK_DEADLOCK FALSE
