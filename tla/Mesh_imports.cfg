\* One remote behind a router: one change, two updates, one failed call, broken stream or restart.
SPECIFICATION Spec
CONSTANTS
    NoService = NoService
    Services <- MCOneService
    Labels = {"export"}
    PortLists <- MCPorts
    Rules <- MCRules
    Local <- MCIstioLocal
    Remotes <- MCRouterNorth
    IPs <- MCIPs
    Answers <- MCAnswer
    Clients = {1}
    Responses <- MCResponses
    Faults = {"api", "stream", "restart"}
    MaxChanges = 1
    MaxUpdates = 2
    MaxFaults = 1
INVARIANT TypeOK
INVARIANT SettledResourcesMatch
INVARIANT EnteredImportsStay
CHECK_DEADLOCK FALSE
