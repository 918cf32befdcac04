SPECIFICATION Spec
CONSTANTS
    Inputs <- MCInputs
    Modes = {"active", "passive"}
    Heartbeat = 1
    StaleAfter = 1
    MaxSend = 1
    ReshapePct = 30
    FreezeSidePct = 50
    HaltPct = 80
    TvlFloorPct = 80
    MaxLate = 1
PROPERTIES
    FlagMeansDark
