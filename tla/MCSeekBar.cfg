SPECIFICATION Spec
CONSTANTS
    StartAngle = 150
    EndAngle = 390
    ArcExtend = 10
    SliderReach = 10
    MaxStep = 15
    Degrees <- MCDegrees
    Mins <- MCMins
    Maxs <- MCMaxs
    Starts <- MCStarts
    Ranges <- MCRanges
    Values <- MCValues
    Refusals <- MCRefusals
INVARIANTS
    TypeOK
PROPERTIES
    StaysWithin
    NoJump
    Follows
    OnlyAllowed
