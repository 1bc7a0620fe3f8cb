SPECIFICATION Spec
CONSTANTS
    MaxLength = 8
    Texts <- AllTexts
    ChunkSize = 4
    Overlap = 1
INVARIANT NothingDropped
