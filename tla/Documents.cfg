SPECIFICATION Spec
CONSTANTS
    Uploads = {u1}
    Deletes = {d1, d2}
    Texts <- AllTexts
    ChunkSize = 3
    Overlap = 1
    MaxLength = 6
INVARIANTS
    RowsWhole
    FileBehindRow
    Durable
    DeletedIsGone
    TextSearchable
    ChunksBounded
CHECK_DEADLOCK FALSE
