SPECIFICATION Spec
CONSTANTS
    j1 = j1
    j2 = j2
    e1 = e1
    e2 = e2
    w1 = w1
    w2 = w2
    api = api
    a = a
    b = b
    ha = ha
    hb = hb
    p1 = p1
    Jobs <- OneJob
    Executors <- TwoSlots
    ApiRunners <- NoSlots
    WorkerIds <- MCWorkerIds
    WorkerOf <- SharedIdentity
    Skewed <- NoSlots
    Pages <- MCPages
    Reps <- MCReps
    Hashes <- MCHashes
    HashOf <- MCHashOf
    Contents <- MCContents
    PendingHashes <- NoPending
    PageOf <- MCPageOf
    DirectText <- NoSlots
    NoWorker = NoWorker
    NoClaim = NoClaim
    NoJob = NoJob
    NoRep = NoRep
    NoHash = NoHash
    NoDocument = NoDocument
    NoReceipt = NoReceipt
    NoPlan = NoPlan
    NoContent = NoContent
    NoRun = NoRun
    MaxVersion = 2
    MaxAttempts = 2
    MaxAborts = 1
    LateHeartbeats = FALSE
INVARIANTS
    AttemptNumberIsNew
CHECK_DEADLOCK FALSE
