SPECIFICATION Spec
CONSTANTS
    Nil = Nil
    a1 = a1
    a2 = a2
    b1 = b1
    s1 = s1
    s2 = s2
    u1 = u1
    u2 = u2
    n1 = n1
    rep1 = rep1
    p1 = p1
    i1 = i1
    i2 = i2
    y1 = y1
    NumberRows = {r1}
    Numbers = {n1}
    Users = {u1, u2}
    Sessions = {s1, s2}
    AdminSessions = {s2}
    UserOf <- OneTabEach
    NumberJobIds = {j1}
    Sids = {x1}
    ProvisionRetryLimit = 1
    ReleaseRetryLimit = 1
    NumberFaults = {"lostAnswer"}
    OutboundCalls = {c1}
    InboundCalls = {}
    Outcomes = {"completed", "no-answer", "failed"}
    LoggedCalls = {c1}
    Reps = {rep1}
    Callees = {e1}
    OwnNumbers = {n1}
    FirstHolder <- HoldsFirst
    Handlers = {h1}
    Sweep = sweep
    CallFaults = {"reorder", "lost", "apiDown"}
    RecordedCalls = {c1, c2}
    Voicemails = {}
    PlannedCalls = {c1}
    JobIds = {j1, j2, j3}
    JobRetries = 1
    RecordingFaults = {}
    GrantRequests = {q1, q2}
    MaxTokens = 4
    MaxRows = 2
    GrantKindSets = {{}, {"lazy", "revoke"}}
    MaxMail = 1
    PageSize = 1
    MaxSaves = 2
    CapInstances <- Captures
    Greetings = {g1, g2}
    Members = {x1, x2}
    GreetKindSets = {{}, {"post"}}
    Owners = {o1}
    CallerNames = {m1}
    Patches = {q1, q2}
    NameWorkers = {w1}
    MaxRegistrations = 2
    MaxNameJobs = 1
    NameKindSets = {{}, {"ask", "carrierFails", "storeFails"}}
    Placed = {p1}
    Ringing = {i1, i2}
    Elsewhere = {y1}
    DialInstances <- Dials
    OrgUsers = {a1, a2, b1}
    FirstRole <- TwoAdmins
    Teams = {team}
    Rosters = {{b1}}
    Invitations = {i1}
    MaxLinks = 1
    OrgRequests = {q1, q2}
    KindSets = {{}, {"demote", "remove"}}
PROPERTIES
    DecisionsAreCarriedOut
    CallsSettle
    RecordingsSettle
    RevocationIsNoticed
    MailSettles
    UploadEnds
    NamesSettle
    ShownCallEnds
    RequestsEnd
CHECK_DEADLOCK FALSE
