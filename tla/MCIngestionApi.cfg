SPECIFICATION ApiSpec
CONSTANTS
    Sources = {s1, s2}
    Jobs = {j1, j2}
    Assistants = {a}
    Threads = {t1, t2}
    Keys = {k}
    CreationKeys = {k}
    ReingestKeys = {k, NoKey}
    PostKeys = {k}
    u = u
    Urls <- MCUrls
    Bodies <- MCBodies
    NoUrl = NoUrl
    NoKey = NoKey
    NoJob = NoJob
    None = None
    Gone = Gone
    job = job
    slot = slot
    api = api
    identity = identity
    page = page
    text = text
    hash = hash
    Nothing = Nothing
SYMMETRY Interchangeable
CHECK_DEADLOCK FALSE
INVARIANTS
    RetrievalAgrees
    KeyedAnswersAgree
    CompletedIsCommitted
PROPERTIES
    ActiveSourceJobKept
    AttemptResultsAreFinal
