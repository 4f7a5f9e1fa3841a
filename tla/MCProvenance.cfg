CONSTANTS
    a1 = a1
    a2 = a2
    t1 = t1
    x1 = x1
    k1 = k1
    k2 = k2
    p1 = p1
    v1 = v1
    s1 = s1
    s2 = s2
    Agent = {a1, a2}
    Runtime = {t1}
    Session = {x1}
    Key = {k1, k2}
    NoKey = NoKey
    Request = {p1, v1, s1, s2}
    req <- MCReq
    MaxFaults = 1
    MaxRestarts = 1
SPECIFICATION Spec
INVARIANTS EveryEventIsCounted RefCommitsToHistory AcceptedEvidenceIsFinal
PROPERTY RevokedRuntimeIsOut
CHECK_DEADLOCK FALSE
