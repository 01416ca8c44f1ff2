\* Two remotes, the initial events, one update, one failed call or broken stream.
SPECIFICATION FairSpec
CONSTANTS
    NoService = NoService
    Services <- MCOneService
    Labels = {"export"}
    PortLists <- MCPorts
    Rules <- MCRules
    Local <- MCIstioLocal
    Remotes <- MCTwoRemotes
    IPs <- MCIPs
    Answers <- MCAnswer
    Clients = {1, 2}
    Responses <- MCResponses
    Faults = {"api", "stream"}
    MaxChanges = 0
    MaxUpdates = 1
    MaxFaults = 1
PROPERTY ResourcesConverge
CHECK_DEADLOCK FALSE
