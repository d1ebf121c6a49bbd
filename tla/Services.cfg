\* Each service on its own, with two calls in progress.
CONSTANTS
    k1 = k1
    k2 = k2
    s1 = s1
    s2 = s2
    None = None
    Calls = {c1, c2}
    Requests = {k1}
    Crons = {h1}
    Accounts = {k1, k2}
    Names = {s1}
    Lease = 1
    Cooldown = 1
    Backoff = 1
    StaleAfter = 1
    Expiry = 2
    CacheTtl = 1
    WebSites = {s1, s2}
    SitesOf <- MCSitesOf
    Days = {k1}
    Users = {k1, k2}
    Pages = {s1, s2}
    PagesOf <- MCSitesOf
    WithInstagram = {s1}
    FormFields = {s1}
    DocTypes = {k1}
    Criteria = {k1, k2}
    Required = {k1}
    Weight <- MCWeight
    ScorePoints = {1}
    Candidates = {k1, k2}
    Keys = {k1, k2}
    AuditRules = {k1, k2}
    Urls = {u1, u2, u3, u4, u5}
    StartUrl = u1
    Excluded = {u3}
    MaxPages = 3
    MaxDepth = 2
    VisitedCap = 4
    Subscriptions = {k1, k2}
    Tokens = {k1, k2}
    MaxAttempts = 3
    MaxCallbacks = 1
    MaxConnections = 2
    MaxLocations = 2
    MaxFiles = 3
    MaxMails = 2
    MaxRows = 2
    MaxFaults = 1
SYMMETRY CallSymmetry
SPECIFICATION PartsSpec
CHECK_DEADLOCK FALSE
INVARIANTS TypeOK  OneFileOneMail CountedOnce AccessIsJustified Algorithms
PROPERTIES MirrorOfAccount ReadForItsOwner
