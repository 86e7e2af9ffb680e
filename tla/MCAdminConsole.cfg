SPECIFICATION ConsoleSpec
CONSTANTS
    Calls = {c1, c2, c3, c4}
    Threshold = 2
    Lockout = 2
    Ttl = 1
    MaxTime = 2
    Assistants = {a}
    Editors = {e1, e2}
    Contents = {given, edited}
    Default = given
    FirstName = given
    renamed = renamed
    Updates <- MCUpdates
    None = None
    Gone = Gone
    MaxRequests = 2
    MaxVersion = 4
    MaxClock = 1
SYMMETRY Interchangeable
CHECK_DEADLOCK FALSE
INVARIANTS
    AuditTrail
    TokensAgree
PROPERTIES
    LoginsGuarded
    NothingOverwrittenUnseen
    PublishedAsReviewed
