SPECIFICATION Spec
CONSTANTS
    s1 = s1
    s2 = s2
    Settings <- MCSettings
    FirstSetting = s1
    DefaultCount = 2
    Saved <- MCSaved
    MaxModes = 3
INVARIANT
    ClockRuns
