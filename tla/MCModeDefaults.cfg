SPECIFICATION RSpec
CONSTANTS
    s1 = s1
    Settings <- MCSettings
    FirstSetting = s1
    DefaultCount = 2
    MaxModes = 3
    MaxPending = 1
INVARIANT
    DefaultsKept
