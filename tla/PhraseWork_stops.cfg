CONSTANTS
    p1 = p1
    p2 = p2
    s1 = s1
    s2 = s2
    Phrases = {p1, p2}
    Sources = {s1, s2}
    SourceOf <- MCSourceOf
    Texts = {a, b}
    NoText = NoText
    Polish = polish
    Meaning = meaning
    Speech = speech
    Unset = Unset
    Selections <- MCSelections
    a = a
    b = b
    Kinds = {polish, speech}
    RunLimit <- MCRunLimit
    Chunk = 1
    MaxEdits = 1
    MaxAsks = 0
    MaxRetries = 1
    MaxStops = 1
    MaxRuns = 1
    MaxFaults = 0
SPECIFICATION Spec
INVARIANTS
    StopsHold
CHECK_DEADLOCK FALSE
SYMMETRY SymmetricTexts
