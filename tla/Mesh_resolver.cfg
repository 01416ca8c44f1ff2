\* Behind an openshift-router, one remote with a DNS name: one change, one update.
SPECIFICATION FairSpec
CONSTANTS
    NoService = NoService
    Services <- MCOneService
    Labels = {}
    PortLists <- MCPorts
    Rules <- MCNoRules
    Local <- MCRouterLocal
    Remotes <- MCSouth
    IPs <- MCIPs
    Answers <- MCAnswers
    Clients = {1}
    Responses <- MCOneResponse
    Faults = {}
    MaxChanges = 1
    MaxUpdates = 1
    MaxFaults = 0
PROPERTY ResourcesConverge
INVARIANT SettledResourcesMatch
CHECK_DEADLOCK FALSE
