SPECIFICATION Spec
CONSTANTS
    site = site
    c1 = c1
    c2 = c2
    staff = staff
    guest = guest
    k1 = k1
    Docs = {site, d1}
    Websites = {site}
    Contents = {c1, c2}
    Roles = {staff, guest}
    Keys = {k1}
    Requests <- MCRequests
    Threads = {t1, t2}
    Sweepers = {m1, m2}
    BatchSize = 1
    MaxBatches = 2
    MaxFiles = 3
    MaxJobs = 3
    NoDoc = NoDoc
    NoKey = NoKey
    None = None
    Nobody = Nobody
SYMMETRY Interchangeable
CHECK_DEADLOCK FALSE
INVARIANTS
    RegisteredUploadKept
    KeyedUploadsAgree
    ExhaustiveSweep
PROPERTIES
    ContentFrozen
