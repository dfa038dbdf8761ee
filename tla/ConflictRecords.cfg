\* Two instances, one of them created during the run; the park holds one record
CONSTANTS
    a = a
    Instance = {a, b}
    Existing = {a}
    Content = {c0, c1, c2}
    Original = c0
    Absent = Absent
    ParkLimit = 1
    Races = {"slow link", "unread file", "busy resolver", "debounce", "echo", "unflushed",
             "write error"}
    MaxDiskEdits = 1
    MaxStudioEdits = 2
    MaxResolves = 0
SPECIFICATION RecordsSpec
SYMMETRY EditSymmetry
CHECK_DEADLOCK FALSE
INVARIANTS RecordDiscipline StudioEditsKeptLate
