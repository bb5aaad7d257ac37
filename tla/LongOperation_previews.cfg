CONSTANTS
    s1 = s1
    s2 = s2
    both = both
    second = second
    update = update
    recut = recut
    process = process
    level = level
    p1 = p1
    p2 = p2
    Sources = {s1, s2}
    Requests = {update}
    Registered = {update}
    LevelChanges = {}
    Previews = {p1, p2}
    Scopes = {both, second}
    ScopeOf <- MCScopeOf
    Members <- MCMembers
    Nobody = nobody
    Build = build
    MaxBuilds = 0
    MaxFaults = 1
SPECIFICATION FairSpec
INVARIANTS
    LockExcludesPreviews
PROPERTIES
    LocksAreFreed
CHECK_DEADLOCK FALSE
