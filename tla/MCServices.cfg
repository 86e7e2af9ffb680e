SPECIFICATION ServicesSpec
CONSTANTS
    None = None
    p1 = p1
    p2 = p2
    q1 = q1
    shared = shared
    name = name
    current = current
    earlier = earlier
    c1 = c1
    c2 = c2
    c3 = c3
    s1 = s1
    s2 = s2
    f1 = f1
    f2 = f2
    Commands = {p1, p2}
    Requests = {q1}
    FileNames = {shared}
    Workloads <- MCWorkloads
    u1 = u1
    u2 = u2
    u3 = u3
    far = far
    near = near
    away = away
    Urls = {u1, u2, u3, far}
    Root = u1
    Nowhere = Nowhere
    OriginOf <- MCOrigin
    Public = {near, away}
    Sites <- MCSites
    MaxPages = 3
    MaxRedirects = 1
    NoRow = NoRow
    Failure = Failure
    MaxAttempts = 2
    MaxFaults = 2
    h1 = h1
    h2 = h2
    h3 = h3
    typed = typed
    shouted = shouted
    other = other
    Chats = {h1, h2}
    Questions = {typed, shouted, other}
    Form <- MCForm
    Earlier <- MCEarlier
    ChatRoles = {doctor, nurse}
    Auditing = {TRUE, FALSE}
    RateLimit = 1
    RateWindow = 1
    MaxSeconds = 1
    MaxQueries = 1
    Documents <- MCDocuments
    Settings <- MCSettings
    NoReply = NoReply
SYMMETRY Interchangeable
CHECK_DEADLOCK FALSE
INVARIANTS
    GateIsSound
    CrawlIsFaithful
    AnswerMatchesRow
    RepliesAccountedFor
    PassagesFaithful
PROPERTIES
    ReportsWhole
    CommittedBeforeAnswered
