SPECIFICATION FairWSpec
CONSTANTS
    ConnTcp = TRUE
    SendSpace = 2
    Resend = 3
    MaxLag = 2
    QueueCap = 3
    WaterActions <- MCWaterActions
    Temperatures <- MCTemperatures
    Yields <- MCYields
    CoolStates <- MCCoolStates
    IceFlags <- MCFlags
    FilterFlags <- MCFlags
INVARIANTS
    TypeOK
    BufferOwnership
    NoDuplicateWaiting
    StaleBounded
    BeepNotLost
PROPERTIES
    Converges
