CONSTANTS
    fiction = fiction
    essays = essays
    Names <- MCNames
    MaxDepth = 3
    MaxCollections = 4
    MaxSources = 2
    MaxRows = 4
    MaxPosition = 1
    Permanent = {}
SPECIFICATION Spec
SYMMETRY SymmetricNames
INVARIANTS
    TreeIsSound
    SourcesAreListed
    OffersAndUndoHold
