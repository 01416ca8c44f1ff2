\* One peer, one service that two selectors may match, one change besides the
\* initial events, and one fault of any kind.
SPECIFICATION Spec
CONSTANTS
    Services = {s1}
    Labels = {"export", "public"}
    PortLists = {p1}
    Rules <- MCTwoSelectors
    NoService = NoService
    Clients = {c1}
    MaxConns = 2
    Window = 2
    Faults = {"break", "connect", "unmarshal", "list", "serve", "restart", "peerRestart"}
    MaxFaults = 1
    MaxChanges = 1
CHECK_DEADLOCK FALSE
INVARIANTS
    TypeOK
    SettledPeersMirrorExports
    StableExportsStayImported
