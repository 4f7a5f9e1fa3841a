CONSTANTS
    g1 = g1
    g2 = g2
    a1 = a1
    k1 = k1
    k2 = k2
    v1 = v1
    v2 = v2
    v3 = v3
    s1 = s1
    Gateway = {g1, g2}
    Agent = {a1}
    Key = {k1, k2}
    NoKey = NoKey
    Request = {v1, v2, v3, s1}
    req <- MCReq
    NoHash = NoHash
    NoTtl = NoTtl
    NoWindow = NoWindow
    NoEntry = NoEntry
    MaxMinor = 9
    MaxCount = 4
    WindowSecs = 1
    MaxTime = 2
    MaxFaults = 1
    MaxRestarts = 1
SPECIFICATION Spec
INVARIANTS OutageFailsClosed RefusalHoldsNothing RiskAlwaysExpires
PROPERTIES ReservesWithinLimit SharedAccountSpec
CHECK_DEADLOCK FALSE
