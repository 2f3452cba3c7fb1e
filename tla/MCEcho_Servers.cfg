SPECIFICATION Spec
CONSTANTS
    Clients = {1, 2, 3}
    Versions = {1, 2, 3, 4}
    MaxFds = 2
    MaxFailures = 1
    Silents = {1}
INVARIANTS
    OwnEcho NoLeak
PROPERTIES
    EchoComes
CHECK_DEADLOCK FALSE
