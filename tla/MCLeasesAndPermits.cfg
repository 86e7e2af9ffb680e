SPECIFICATION GrantsSpec
CONSTANTS
    Jobs = {j1, j2}
    e1 = e1
    e2 = e2
    e3 = e3
    w1 = w1
    w2 = w2
    Executors <- MCExecutors
    WorkerIds <- MCWorkerIds
    WorkerOf <- MCWorkerOf
    Skewed <- MCSkewed
    NoWorker = NoWorker
    NoClaim = NoClaim
    MaxVersion = 3
    Requests = {r1, r2}
    Clients = {a}
    Deployment = Deployment
    Nobody = Nobody
    Orphan = Orphan
    MaxDeltas = 1
    MaxFaults = 1
INVARIANTS
    OneEffectiveOwner
PROPERTIES
    LostClaimStaysLost
    LiveClaimIsExclusive
    TerminalIsFinal
    WorkIsPickedUp
    PermitsComeBack
CHECK_DEADLOCK FALSE
