\* Two selectors, one change of a Service.
SPECIFICATION Spec
CONSTANTS
    NoService = NoService
    Services <- MCOneService
    Labels = {"export", "public"}
    PortLists <- MCPorts
    Rules <- MCTwoSelectors
    Local <- MCIstioLocal
    Remotes <- MCNoRemotes
    IPs <- MCIPs
    Answers <- MCAnswer
    Clients = {}
    Responses <- MCNoResponses
    Faults = {}
    MaxChanges = 1
    MaxUpdates = 0
    MaxFaults = 0
INVARIANT MatchingServicesAreExposed
CHECK_DEADLOCK FALSE
