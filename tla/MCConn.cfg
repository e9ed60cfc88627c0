SPECIFICATION FairSpec
CONSTANTS
    EventSlots = 4
    CtrlSlots = 4
    ConnectRetries = 2
    MaxChan = 3
    IdSpace = 4
    ClockMod = 3
    RetryAge = 1
    PingAge = 1
    IdleAge = 2
    MaxFaults = 1
    MaxOut = 1
    MaxOps = 2
INVARIANTS TypeOK ConnectedMeansAccepted OpensNeverCollide
PROPERTIES KeepaliveHolds 
