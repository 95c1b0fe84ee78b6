SPECIFICATION FairSpec
CONSTANTS
    Sockets <- MCSockets
    TimeOut = 5
    HeartTime = 2
    ConnSpace = 3
    ConnTimeout = 3
    MaxLag = 2
    MaxBack = 2
    MaxSets = 1
PROPERTY
    AttemptGetsItsTime
