SPECIFICATION WSpec
CONSTANTS
    DealSpace = 3
    RecvTimeout = 7
    WarnSpace = 2
    IceLimit = 2
    MaxLag = 2
    Bodies <- MCBodies
INVARIANT
    NoAlarmWhileReceiving
