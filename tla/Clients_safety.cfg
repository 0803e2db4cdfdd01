CONSTANTS
    None = None
    e1 = e1  e2 = e2  b1 = b1  b2 = b2  d1 = d1  a1 = a1
    Ours = {o1, o2}
    Theirs = {t1}
    Polls = TRUE
    Letters <- MCLetters
    Triggers = {"@", "#"}
    MaxKeys = 3
    MaxPeer = 1
    MaxBlocks = 3
    MaxFaults = 2
    Emails = {e1}
    Allowed = {e1}
    Browsers = {b1}
    Devices = {d1}
    Callers = {a1, a2}
    SessionTtl = 1
    AccessTtl = 2
    RefreshTtl = 2
    CodeTtl = 1
    Skew = 1
    Timeout = 1
    DevSignIn = FALSE
    MaxNow = 0
    MaxEra = 0
    MaxUsers = 1
    MaxCodes = 1
    MaxSessions = 1
    MaxPairs = 4
SPECIFICATION ClientsSpec
INVARIANTS TypesOK OneIdentityPerEmail StoredTokenAdmitted OneSuccessorEach HandshakeCarriesAll
    PrimitivesAtPlaces
PROPERTIES EditsReachServer TypingLands
CHECK_DEADLOCK FALSE
