SPECIFICATION Spec
SYMMETRY Interchangeable
CONSTANTS
    Requests = {r1, r2}
    Clients = {a, b}
    Deployment = Deployment
    Nobody = Nobody
    Orphan = Orphan
    Limiters <- MCLimiters
    HistoryLimit = 2
    MaxDeltas = 1
    MaxFaults = 1
    Envelopes <- MCEnvelopes
INVARIANT SlotsAccounted
PROPERTY ExchangeContract
