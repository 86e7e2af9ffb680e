SPECIFICATION Spec
CONSTANTS
    Jobs = {j1, j2}
    Writers = {x1, x2}
    a = a
    t = t
    b = b
    ha = ha
    hb = hb
    hOther = hOther
    p1 = p1
    p2 = p2
    Pages <- MCPages
    Reps <- MCReps
    Hashes <- MCHashes
    HashOf <- MCHashOf
    Contents <- MCContents
    PendingHashes <- PayloadHashes
    NoJob = NoJob
    NoRep = NoRep
    NoHash = NoHash
    NoDocument = NoDocument
    NoReceipt = NoReceipt
    NoPlan = NoPlan
SYMMETRY Interchangeable
INVARIANTS
    OneChunkSet
    ActiveMatchesReceipt
PROPERTIES
    CommitInstalls
