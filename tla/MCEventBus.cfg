SPECIFICATION FairSpec
CONSTANTS
    s1 = s1
    s2 = s2
    m1 = m1
    m2 = m2
    m3 = m3
    Subscribers = {s1, s2}
    Messages = {m1, m2, m3}
    Topic <- MCTopic
    Poison = {m1}
    NoMsg = NoMsg
    MaxFails = 2
INVARIANTS
    ReachesAll
    NothingLost
PROPERTY
    PoisonDoesNotStarve
CHECK_DEADLOCK FALSE
