CONSTANTS
    m1 = m1
    m2 = m2
    v = v
    t1 = t1
    s1 = s1
    s2 = s2
    meaning = meaning
    video = video
    speech = speech
    Keys <- PairKeys
    Types = {meaning, video}
    Sources = {s1, s2}
    TypeOf <- MCTypeOf
    SourceOf <- MCSourceOf
    RunLimit <- MCRunLimit
    MixedTypes = {meaning}
    BatchTypes = {meaning}
    AITypes = {meaning}
    TTS = speech
    MaxAsks = 2
    MaxLate = 1
    Stamps = {1,2,3,4,5,6}
    MaxFaults = 1
SPECIFICATION Spec
INVARIANTS
    TypeOK
    OneJobPerKey
    OneLiveClaim
    JobStaysUntilAnswered
CHECK_DEADLOCK FALSE
PROPERTY ImplementsWorkLine
