\* What is recorded as agreed was delivered; a connect ends in sync
CONSTANTS
    Path <- One
    ScriptClass = {ModuleScript}
    Source = {s1, s2}
    Rest = {plain}
    Plain = plain
    Place = {A}
    Races = {"blip", "slow link", "unsaved"}
    MaxConns = 2
    MaxDiskEdits = 1
    MaxStudioEdits = 1
    MaxCrashes = 1
    MaxResumes = 0
SPECIFICATION Spec
SYMMETRY SourceSymmetry
INVARIANTS AgreedWasDelivered InSync
PROPERTY ConnectionHeld
