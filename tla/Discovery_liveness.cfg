\* Two peers, the initial events and one fault of any kind but the failure of Serve.
SPECIFICATION FairSpec
CONSTANTS
    Services = {s1}
    Labels = {"export"}
    PortLists = {p1}
    Rules <- MCRules
    NoService = NoService
    Clients = {c1, c2}
    MaxConns = 4
    Window = 1
    Faults = {"break", "connect", "unmarshal", "list", "restart", "peerRestart"}
    MaxFaults = 1
    MaxChanges = 0
CHECK_DEADLOCK FALSE
PROPERTIES
    PeersConverge
