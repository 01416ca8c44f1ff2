\* One controller, two objects of the same name one after the other, every fault.
\* The system comes to rest once users are quiet.
SPECIFICATION FairSpec
CONSTANTS
    NoObject = NoObject
    NoMutation = NoMutation
    Finalizer = "mesh-federation"
    Foreign = "foreign"
    Specs = {1, 2}
    Workers = {w1}
    MaxTries = 2
    Faults = {"call", "response", "cleanup", "relist", "restart"}
    MaxObjects = 2
    MaxEdits = 2
    MaxFaults = 1
INVARIANTS TypeOK NothingIsLeftBehind
PROPERTIES RetryIsAtomic FederationsSettle
CHECK_DEADLOCK FALSE
