CONSTANTS
    a1 = a1
    p1 = p1
    m1 = m1
    m2 = m2
    v1 = v1
    k1 = k1
    k2 = k2
    Agent = {a1}
    MandateId = {m1, m2}
    ActionType = {payment}
    Payment = payment
    Counterparty = {p1}
    Request = {m1, m2, v1, k1, k2}
    req <- MCReq
    GraphEdges <- MCGraphEdges
    NoMandate = NoMandate
    Unstated = Unstated
    NoWindow = NoWindow
    Never = Never
    NoProof = NoProof
    MaxMinor = 7
    MaxCount = 3
    WindowSecs = 1
    Threshold = 600
    TokenLife = 1
    ProofLife = 1
    CacheTtl = 2
    RequestTimeout = 1
    ProvingTime = 0
    MaxTime = 2
    MaxFaults = 1
    MaxRestarts = 1
    MaxMoves = 1
SPECIFICATION Spec
INVARIANT RevocationStopsTokens
PROPERTIES OverspendIsOnlyOverlap PassHasStanding
CHECK_DEADLOCK FALSE
