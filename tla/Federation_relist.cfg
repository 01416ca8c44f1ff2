\* The watch expires while the object is deleted and created anew.
SPECIFICATION FairSpec
CONSTANTS
    NoObject = NoObject
    NoMutation = NoMutation
    Finalizer = "mesh-federation"
    Foreign = "foreign"
    Specs = {1, 2}
    Workers = {w1}
    MaxTries = 2
    Faults = {"relist"}
    MaxObjects = 2
    MaxEdits = 2
    MaxFaults = 1
PROPERTY NewFederationsAreReconciled
CHECK_DEADLOCK FALSE
