\* Two edits on each side, on a link of any speed
CONSTANTS
    Instance = {a}
    Existing = {a}
    Content = {c0, c1, c2}
    Original = c0
    Absent = Absent
    ParkLimit = 2
    Races = {"slow link", "debounce", "unflushed"}
    MaxDiskEdits = 2
    MaxStudioEdits = 2
    MaxResolves = 0
SPECIFICATION ResolvedSpec
CHECK_DEADLOCK FALSE
INVARIANT DiskEditsKeptAlone
PROPERTIES ClashesResolveAlone NoBlindApplyByHand
