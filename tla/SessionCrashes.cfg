\* Two places take turns with a daemon that may die, or that dies twice and is resumed
CONSTANTS
    Path <- One
    ScriptClass = {ModuleScript}
    Source = {s1, s2}
    Rest = {plain}
    Plain = plain
    Place = {A, B}
    Races = {}
    MaxConns = 2
    MaxDiskEdits = 1
    MaxStudioEdits = 1
    MaxCrashes = 1
    MaxResumes = 0
SPECIFICATION CrashesSpec
SYMMETRY PlaceSymmetry
INVARIANT MarkerCovers
PROPERTIES NoCrashLoop DiskKept
