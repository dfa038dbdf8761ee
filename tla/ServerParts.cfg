CONSTANTS
    Id = {1, 2}
    MaxMessages = 2
SPECIFICATION ServerPartsSpec
INVARIANTS LeaversAreServed FramesInOrder VerdictIsRight NothingDestroyed TreeIsProject ReshapeKeeps SavedIsRead
CHECK_DEADLOCK FALSE
