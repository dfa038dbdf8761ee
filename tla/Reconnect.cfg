CONSTANTS
    Path <- AllPaths
    ScriptClass = {ModuleScript}
    Source = {s1, s2, s3}
    Rest = {plain}
    Plain = plain
    Settings <- TheSettings
    MaxDiskEdits = 2
    MaxStudioEdits = 2
    MaxConnects = 2
SPECIFICATION Spec
SYMMETRY SourceSymmetry
CHECK_DEADLOCK FALSE
INVARIANTS WinnersYield Converged AgreedWasDelivered
PROPERTIES SoleMoverWins DiskKept
