CONSTANTS
    a1 = a1
    p1 = p1
    k1 = k1
    v1 = v1
    v2 = v2
    s1 = s1
    u1 = u1
    Agent = {a1}
    Principal = {p1}
    Key = {k1}
    NoKey = NoKey
    Request = {v1, v2, s1, u1}
    req <- MCReqTight
    NoWindow = NoWindow
    Never = Never
    NoEntry = NoEntry
    MaxMinor = 20
    MaxCount = 5
    WindowSecs = 1
    KeyTtl = 1
    MaxTime = 2
    MaxRevokes = 1
SPECIFICATION Spec
INVARIANT AnswersAreBacked
PROPERTIES DecidesOnWholeWindow RevokedOnArrivalNeverDraws AnsweredKeyIsFinal SettlingFreesNothing
CHECK_DEADLOCK FALSE
