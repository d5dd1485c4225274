SPECIFICATION ServicesSpec
CONSTANTS
    Nil = Nil
    NoDraft = NoDraft
    Null = Null
    NoCall = NoCall
    NoDrop = NoDrop
    NoRefresh = NoRefresh
    a1 = a1
    a2 = a2
    a3 = a3
    e1 = e1
    e2 = e2
    e3 = e3
    d1 = d1
    d2 = d2
    p1 = p1
    i1 = i1
    i2 = i2
    y1 = y1
    q1 = q1
    q2 = q2
    w1 = w1
    w2 = w2
    Accounts = {a1, a2, a3}
    Addresses = {e1, e2, e3}
    AddressOf <- OwnAddresses
    FirstSets = {{}, {a1, a2, a3}}
    MaxConsents = 5
    MailRequests = {q1, q2}
    MailKindSets = {{}, {"connect", "switch"}, {"switch", "disconnect"}}
    GrantRequests = {q1, q2}
    MaxTokens = 4
    MaxRows = 2
    GrantKindSets = {{}, {"lazy", "revoke", "test", "disconnect"}, {"force", "lazy", "test"},
                     {"consent", "lazy", "disconnect"}}
    MaxMail = 2
    PageSize = 1
    MaxSaves = 2
    CapInstances <- Captures
    Greetings = {g1, g2}
    Members = {x1, x2}
    RetryLimit = 1
    GreetKindSets = {{}, {"post", "activate", "delete"}, {"post", "crash"},
                     {"post", "activate", "overlap"}}
    Drops = {d1, d2}
    Requests = {q1, q2}
    MaxVersions = 3
    DropInstances <- Libraries
    Owners = {o1, o2}
    CallerNames = {m1, m2}
    Patches = {q1, q2}
    NameWorkers = {w1, w2}
    NameRetryLimit = 1
    MaxRegistrations = 2
    MaxNameJobs = 1
    NameKindSets = {{}, {"ask", "reassign"}, {"ask", "carrierFails", "crash"},
                    {"ask", "storeFails", "sendFails"}, {"ask", "expire"}}
    Placed = {p1}
    Ringing = {i1, i2}
    Elsewhere = {y1}
    DialInstances <- Dials
    Presses = {q1, q2}
    MaxTyped = 2
    MaxActs = 6
    ComposerInstances <- Composers
SYMMETRY Alike
INVARIANTS
    ServicesTypeOK
    CanSend
    ShownIsRegistered
    OpenLineIsShown
PROPERTIES
    GrantStands
    MailStands
    DraftStands
    GreetingStands
    LibraryStands
CHECK_DEADLOCK FALSE
