\* The services around the booking, one at a time.
CONSTANTS
    r1 = r1
    r2 = r2
    r3 = r3
    f1 = f1
    o1 = o1
    g0 = g0
    g1 = g1
    g2 = g2
    g3 = g3
    g4 = g4
    ua = ua
    ub = ub
    uc = uc
    m3 = m3
    m4 = m4
    NRows = {r1, r2, r3}
    Fanout <- MCFanout
    Invalid = {r3}
    NProcesses = {p1, p2}
    NLimit = 1
    NConcurrency = 1
    NTicks = 2
    NMaxAttempts = 2
    NMaxCalls = 2
    NMaxFaults = 3
    RBookings = {b1, b2}
    RConfig = {"flight", "refund"}
    DTokens = {t1, t2}
    DUsers = {u1, u2}
    Addressee = u1
    JobTries = 2
    DStalls = 1
    DMaxFaults = 2
    DMaxChanges = 1
    AJobs = {j1, j2}
    FirstJob = j1
    AlertTries = 2
    AMaxClaims = 3
    AMaxFaults = 2
    Pickups <- MCPickups
    Rivals = {o1}
    CarOf <- MCCarOf
    TLength = 6
    TPayloads <- MCPayloads
    TStarts = {14, 52}
    Sched = 30
    Buffer40 = 4
    Turnaround = 12
    TMaxHooks = 2
    SDay = 4
    SLegs <- MCLegs
    SHours = {30, 36, 37, 40, 48, 60, 79, 81, 96, 105, 112, 120}
    HasIcao = TRUE
    GBookings = {g0, g1, g2, g3, g4}
    GUser <- MCUser
    Referrer = ub
    RewardAmount = 2
    MaxCredits = 2
    Mine = m1
    Next1 = m2
    Requests = {q1, q2}
    EStarts = {15, 16}
    EOthers = {22}
    EInstants = {0, 9, 16}
    EPlaces = {"P", "Q"}
    EStaff = {"C", "D"}
    DayLength = 6
    EBuffer = 1
    EMidnight = 24
    EditCutoff = 6
    LRequests <- MCLRequests
    SameDayCutoff = 660
    PQuotes <- MCQuotes
    PRates <- MCPRates
    Naira = 1000
    MaxFuelLegs = 2
    RTime = 3
    RateTTL = 2
    NewRates <- MCNewRates
    OwnedCars = {"car"}
    PromoAsks <- MCAsks
    Owners = {w1, w2, w3}
    PromoDays = {0, 1, 2, 3, 4, 5}
    Inbound = {m3, m4}
    NoMessage = NoMessage
    Bodies <- MCBodies
    InJobTries = 2
    LockTTL = 1
    NudgeDelay = 1
    ClearDelay = 1
    IMaxTime = 2
    IMaxFaults = 2
    OMaxAttempts = 3
    Contents = {"text", "badTemplate"}
    OCallers = 2
    OMaxTime = 3
    OFaults = 2
    Fleet = {1, 2}
    TripDates = {1, 2}
    Verdicts <- MCVerdicts
    PreviewExtra <- MCPreviewExtra
    LongPatches <- MCPatches
    MaxTexts = 2
    MaxSlips = 2
SPECIFICATION MCSpec
INVARIANTS
    RowsSound
    NoticesReach
    
    PickupsSound
    AnswersTrue
    
    
    PriceRight
    RatesSound
    PromotionsSound
    RepliesSound
    TalkSound
PROPERTIES
    DeliverySound
    EditsSound
    InboxSound
    ServicesSettle
CHECK_DEADLOCK FALSE
