\* Behind an openshift-router: two selectors, one change of a Service with two possible port lists, no fault.
SPECIFICATION Spec
CONSTANTS
    NoService = NoService
    Services <- MCOneService
    Labels = {"export", "public"}
    PortLists <- MCPortLists
    Rules <- MCTwoSelectors
    Local <- MCRouterLocal
    Remotes <- MCNoRemotes
    IPs <- MCIPs
    Answers <- MCAnswer
    Clients = {}
    Responses <- MCNoResponses
    Faults = {}
    MaxChanges = 1
    MaxUpdates = 0
    MaxFaults = 0
INVARIANT SettledResourcesMatch
PROPERTY CallsServeWanted
CHECK_DEADLOCK FALSE
