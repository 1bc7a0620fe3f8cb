SPECIFICATION Spec
CONSTANTS
    MaxLength = 8
    Texts <- AllTexts
    ChunkSize = 5
    Overlap = 2
INVARIANT ChunksFit
INVARIANT WordsWhole
