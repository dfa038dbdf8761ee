CONSTANTS
    p1 = p1
    p2 = p2
    c1 = c1
    c2 = c2
    i1 = i1
    i2 = i2
    Parts = {"starts", "broker", "stores", "workflow", "playtest", "transfers", "live", "cloud"}
    Proc = {1, 2, 3}
    MaxPort = 2
    Scripts <- TheScripts
    MaxFaults = 1
SPECIFICATION ToolPartsSpec
SYMMETRY Interchangeable
INVARIANTS OneDaemon OneProjectPerGame VerifiedIsWhole OutcomesHold NothingLostSilently TransfersHold ExitIsTrue ReportsAreTrue
CHECK_DEADLOCK FALSE
