SPECIFICATION Spec
CONSTANTS
    Uploads = {u1}
    Deletes = {d1}
    Texts <- AllTexts
    ChunkSize = 3
    Overlap = 1
    MaxLength = 6
INVARIANT ChunksWithinLimit
CHECK_DEADLOCK FALSE
