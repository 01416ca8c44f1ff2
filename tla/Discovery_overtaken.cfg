\* One peer, one change, no fault: a push overtakes a snapshot.
SPECIFICATION Spec
CONSTANTS
    Services = {s1}
    Labels = {"export"}
    PortLists = {p1}
    Rules <- MCRules
    NoService = NoService
    Clients = {c1}
    MaxConns = 1
    Window = 2
    Faults = {}
    MaxFaults = 0
    MaxChanges = 1
CHECK_DEADLOCK FALSE
INVARIANTS
    FromReturnsExports
