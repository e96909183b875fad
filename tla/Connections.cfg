SPECIFICATION FairConnections
CONSTANTS
    Databases = {db1, db2}
    TlsModes = {"disabled", "prefer", "require", "verify_full"}
    CaFiles = {"none", "good", "unreadable"}
    Servers <- MCServers
    MaxRetries = 3
    MaxConnections = 3
    MaxQueue = 2
CHECK_DEADLOCK FALSE
INVARIANTS
    ClientKeepsConfig
    RetriesOnlyTransient
    PatienceIsBounded
    EveryWaiterIsServed
    OldConnectionsAreHeld
PROPERTIES
    ConnectEnds
    OldConnectionsClose
