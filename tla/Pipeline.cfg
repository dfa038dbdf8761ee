\* What wait-synced vouches for; held events are delivered in the end
CONSTANTS
    folder = folder
    file = file
    Path <- FolderAndFile
    Above <- Ancestors
    MaxEdits = 1
    MaxFaults = 1
SPECIFICATION PipelineSpec
INVARIANT QuietBarrierDelivers
PROPERTY HeldEditsArrive
CHECK_DEADLOCK FALSE
