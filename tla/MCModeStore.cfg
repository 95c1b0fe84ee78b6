SPECIFICATION RSpec
CONSTANTS
    s1 = s1
    Settings <- MCSettings
    FirstSetting = s1
    DefaultCount = 1
    MaxModes = 3
    MaxPending = 2
INVARIANTS
    TypeOK
    Numbered
    NeverStale
PROPERTIES
    KeepsRow
    RestartKeepsModes
