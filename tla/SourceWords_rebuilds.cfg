CONSTANTS
    a = a
    b = b
    plain = plain
    hard = hard
    NoText = NoText
    Words = {a, b}
    Texts = {plain, hard}
    Hard = {hard}
    Analyses <- MCAnalyses
    Lines = {1, 2}
    Chars = {1, 2, 3}
    Places <- MCPlaces
    Elsewhere = {a}
    Looked <- MCLooked
    MaxPhrases = 5
    MaxActs = 2
    MaxRebuilds = 2
SPECIFICATION Spec
INVARIANTS
    RowsAreSound
    WrittenAsPlanned
    SettlesAtOnce
    EveryPlaceIsHeld
    WordIsShown
PROPERTY WorkIsKept
CHECK_DEADLOCK FALSE
