CONSTANTS
    s = s
    t = t
    Sectioned = TRUE
    Cards = {1, 2, 3}
    WordOf <- MCWordOf
    SourceOf <- MCSourceOf
    OwnKey <- MCOwnKey
    Around = 0
    RowsAtMost = 1
    PlacedAtMost = 1
    FirstCards = {1, 3}
    RowsPerFetch = 2
    MayLeave = {t}
    MayGo = {1}
    Askable = {"changes", "rows", "around", "section", "press", "replace"}
    MaxRevision = 3
    MaxActs = 3
    MaxFlight = 2
    MaxReviews = 2
    MaxReadBacks = 1
SPECIFICATION Spec
INVARIANTS
    OrderIsSound
    OrderIsTheSet
    RowsAgree
    CardsKnown
    FocusIsLive
CHECK_DEADLOCK FALSE
