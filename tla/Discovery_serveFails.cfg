\* One peer, one change, and Serve fails once.
SPECIFICATION FairSpec
CONSTANTS
    Services = {s1}
    Labels = {"export"}
    PortLists = {p1}
    Rules <- MCRules
    NoService = NoService
    Clients = {c1}
    MaxConns = 1
    Window = 1
    Faults = {"serve"}
    MaxFaults = 1
    MaxChanges = 1
CHECK_DEADLOCK FALSE
PROPERTIES
    EventsAreProcessed
