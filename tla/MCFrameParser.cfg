SPECIFICATION ParserSpec
CONSTANTS
    Types <- MCTypes
    LeftBehind <- MCLeftBehind
    Modulus = 5
    McuHead <- MCMcuHead
    McuBufLen = 8
    TuyaHead <- MCTuyaHead
    TuyaBufLen = 8
    McuBodies <- MCMcuBodies
    TuyaBodies <- MCTuyaBodies
    Noise <- MCNoise
    ReadLen = 8
    WireCap = 8
    DirtyCap = 1
    EarlyCap = 2
INVARIANTS
    ParserTypeOK
    ReadAsSent
    NeverWedged
PROPERTIES
    Resynchronises
    NothingInvented
