\* A frame is lost and the plugin redials
CONSTANTS
    Path <- One
    ScriptClass = {ModuleScript}
    Source = {s1, s2}
    Rest = {plain}
    Plain = plain
    Place = {A}
    Races = {"blip", "lost frame"}
    MaxConns = 2
    MaxDiskEdits = 1
    MaxStudioEdits = 0
    MaxCrashes = 0
    MaxResumes = 0
CHECK_DEADLOCK FALSE
SPECIFICATION Spec
SYMMETRY SourceSymmetry
INVARIANT AgreedWasDelivered
