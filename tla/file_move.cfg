SPECIFICATION FilesSpec
CONSTANTS
    Uploads = {}
    Dirs = {"top", "sub"}
    Names = {"a"}
    MaxPieces = 1
    MaxChanges = 1
CHECK_DEADLOCK FALSE
INVARIANTS OneSelectionAtATime
