CONSTANTS
    p1 = p1
    p2 = p2
    s1 = s1
    s2 = s2
    Phrases = {p1}
    Sources = {s1}
    SourceOf <- MCSourceOf
    Texts = {a, b}
    NoText = NoText
    Polish = polish
    Meaning = meaning
    Speech = speech
    Unset = Unset
    Selections <- MCEverything
    a = a
    b = b
    Kinds = {polish}
    RunLimit <- MCRunLimit
    Chunk = 1
    MaxEdits = 2
    MaxAsks = 1
    MaxRetries = 1
    MaxStops = 0
    MaxRuns = 0
    MaxFaults = 0
SPECIFICATION Spec
INVARIANT TypedTextsStay
CHECK_DEADLOCK FALSE
SYMMETRY SymmetricTexts
