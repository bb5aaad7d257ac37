CONSTANTS
    lamp = lamp
    moon = moon
    s = s
    t = t
    u = u
    w1 = w1
    w2 = w2
    w3 = w3
    a1 = a1
    a2 = a2
    b1 = b1
    d1 = d1
    Timer = 2
    Lemmas = {lamp, moon}
    Sources = {s, t, u}
    Words = {w1, w2, w3}
    LemmaOf <- MCLemmaOf
    SourceOf <- MCSourceOf
    Cards = {a1, a2, b1, d1}
    WordOf <- MCWordOf
    Holds <- MCHolds
    FirstCards = {a1, b1, d1}
    Pressable = {a1, a2, b1}
    Listable = {lamp}
    Deletable = {s, t}
    MaxTime = 3
SPECIFICATION Spec
INVARIANTS
    CardsAreSound
    EveryStateHasItsRow
    UnknownIsNotLearned
    KnownLeaves
    RowsAreCurrent
PROPERTY BoundAsMade
CHECK_DEADLOCK FALSE
