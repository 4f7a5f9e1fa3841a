CONSTANTS
    a1 = a1
    a2 = a2
    p1 = p1
    p2 = p2
    x1 = x1
    x2 = x2
    x3 = x3
    x4 = x4
    i1 = i1
    i2 = i2
    i3 = i3
    g1 = g1
    g2 = g2
    Agent = {a1}
    Principal = {p1, p2}
    Score = {1000}
    Request = {x1, x2, x4, i1, i2, g1}
    req <- MCReq
    ceiling <- MCCeiling
    cold_start_floor <- MCFloor
    MaxIncreaseBps = 5000
    MinAbsoluteStep = 2
    ExperienceMultiple = 20
    MinScoreToEarn = 50
    NoPrincipal = NoPrincipal
    NoLimit = NoLimit
    NoStanding = NoStanding
    MaxFaults = 1
    MaxRestarts = 1
SYMMETRY MCSymmetry
CONSTRAINT MCBounded
SPECIFICATION Spec
INVARIANT StandingInForceGates
PROPERTIES RateCapSurvivesRestart LimitCanGrow
CHECK_DEADLOCK FALSE
