\* The base catches up with what both sides hold
CONSTANTS
    Path <- One
    ScriptClass = {ModuleScript}
    Source = {s1, s2}
    Rest = {plain}
    Plain = plain
    Place = {A}
    Races = {"slow link", "edit in connect"}
    MaxConns = 2
    MaxDiskEdits = 1
    MaxStudioEdits = 1
    MaxCrashes = 0
    MaxResumes = 0
SPECIFICATION FairSpec
PROPERTY CatchesUp
