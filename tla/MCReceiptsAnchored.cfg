CONSTANTS
    a1 = a1
    a2 = a2
    c1 = c1
    c2 = c2
    s1 = s1
    q1 = q1
    Subject = {a1, a2}
    Request = {c1, c2, s1, q1}
    req <- MCReq
    BatchSize = 2
    MaxReceipt = 2
    MaxFaults = 2
    MaxRestarts = 1
    NoRow = NoRow
    Unbatched = Unbatched
    AnyAgent = AnyAgent
    AnyBatch = AnyBatch
SPECIFICATION ReceiptsSpec
PROPERTY SealedGetsAnchored
CHECK_DEADLOCK FALSE
