CONSTANTS
    call1 = call1
    list1 = list1
    create1 = create1
    revoke1 = revoke1
    revoke2 = revoke2
    env1 = env1
    e1 = e1
    e2 = e2
    e3 = e3
    s1 = s1
    s2 = s2
    x1 = x1
    x2 = x2
    m1 = m1
    m2 = m2
    m3 = m3
    m4 = m4
    r1 = r1
    r2 = r2
    w1 = w1
    w2 = w2
    usdc = usdc
    usdt = usdt
    k1 = k1
    c1 = c1
    c2 = c2
    u1 = u1
    u2 = u2
    b1 = b1
    b2 = b2
    usd = usd
    pay = pay
    eth = eth
    d1 = d1
    d2 = d2
    d3 = d3
    p1 = p1
    p2 = p2
    Forever = Forever
    None = None
    NoRow = NoRow
    NoToken = NoToken
    NoAgent = NoAgent
    NoAmount = NoAmount
    Unnamed = Unnamed
    Unset = Unset
    NoKey = NoKey
    NoDelegation = NoDelegation
    NoCutoff = NoCutoff
    Absent = Absent
    Torn = Torn
    Life = 1
    MaxAge = 1
    MaxKey = 3
    MaxTime = 4
    MaxFaults = 1
    AccessRequest = {call1, list1, create1, revoke1, revoke2}
    access_req <- MCAccessReq
    Operator = {default, other}
    Default = default
    EnvKey = {env1}
    MaxKeys = 2
    Capacity = 2
    Minute = 60000
    TickMs = 35000
    RefillMs = 100
    Word = 90001
    AccessTime = 2
    RailsRequest = {e1, e2, e3, s1, s2, x1, x2, m1, m2, m3, m4}
    rails_req <- MCRailsReq
    RailsAgent = {r1, r2}
    Wallet = {w1, w2}
    Mint = {usdc, usdt}
    Transactions <- MCTransactions
    Threshold = 2
    ResetAfter = 1
    MicroPerCent = 4
    Cap = 3
    RailsTime = 2
    MeterKey = {k1, k2}
    MaxChecks = 2
    MaxFlushes = 2
    Counterparty = {c1, c2}
    Events <- MCEvents
    Weights = {0, 2}
    Saturation = 8
    ProvenanceSaturation = 4
    MaxEvents = 4
    Decay <- MCDecay
    MaxTotal = 4
    Horizon = 1
    Uri = {u1, u2}
    Body = {b1, b2}
    Attested <- MCAttested
    Requirements = {{"limit-attestation"}, {}}
    Known = {k1}
    TapKeyId = {k1}
    HaircutBps = 1
    BpsUnit = 4
    Micros = {1, 7}
    Cents = {1, 2}
    MaxSent = 1
    MaxChanges = 1
    MaxPaid = 2
    VenuesTime = 3
    ScopeCurrency = {usd}
    ActionType = {pay}
    Chain = {eth}
    ScopeAsset = {}
    KeyId = {d1, d2, d3}
    PublicKey = {p1, p2}
    Role = {"session", "principal"}
    Scopes <- MCScopes
    Lifetimes = {0}
    Acts <- MCActs
    MaxChainDepth = 3
    MaxGrants = 3
    MaxRetirements = 1
    PassportTime = 1
    Agent = {a1}
    Principal = {q1}
    MaxRevokes = 2
    RegistryTime = 3
    Amounts = {100, 1013, 15000}
    Majors = 200
    MaxUnits = 1
    MaxDraws = 2
    Item = {k1, k2}
    MaxItems = 5
SPECIFICATION MCSpec
INVARIANTS OutstandingIsPublished RateIsBounded SpendIsWhatPassed UsageBalances StandingIsEarned FailureNeverRaises AcceptedAsSigned WindowCoversDraws GrantsStayNarrow RevocationOutlivesReuse StoredCutoffHolds ProofsVerify
PROPERTIES BreakersGuard
CHECK_DEADLOCK FALSE
