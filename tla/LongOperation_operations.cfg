CONSTANTS
    s1 = s1
    s2 = s2
    both = both
    second = second
    update = update
    recut = recut
    process = process
    level = level
    p1 = p1
    p2 = p2
    Sources = {s1, s2}
    Requests = {update, level}
    Registered = {update}
    LevelChanges = {level}
    Previews = {}
    Scopes = {both, second}
    ScopeOf <- MCScopeOf
    Members <- MCMembers
    Nobody = nobody
    Build = build
    MaxBuilds = 1
    MaxFaults = 1
SPECIFICATION Spec
INVARIANTS
    NothingElseWrites
    CancelRollsBack
    FailedChangedNothing
CHECK_DEADLOCK FALSE
