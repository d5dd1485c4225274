SPECIFICATION WorkspaceSpec
CONSTANTS
    a1 = a1
    a2 = a2
    b1 = b1
    Nil = Nil
    x1 = x1
    x2 = x2
    x3 = x3
    n1 = n1
    n2 = n2
    n3 = n3
    t1 = t1
    t2 = t2
    t3 = t3
    Users = {a1, a2, b1}
    FirstRole <- TwoAdmins
    Teams = {team}
    Rosters = {{b1}}
    Invitations = {i1}
    MaxLinks = 1
    Requests = {q1, q2}
    KindSets = {{}, {"remove", "team"}, {"promote", "demote", "remove"}, {"remove", "switch"},
                {"remove", "invite"}}
    Views = {v1, v2}
    ViewUsers = {u1, u2}
    ViewRequests = {q1, q2}
    ViewKindSets = {{}, {"create", "default", "delete", "restore"}, {"default", "share"}}
    Roots = {c1}
    Replies = {c2, c3}
    CommentRequests = {q1, q2}
    CommentKindSets = {{}, {"reply", "edit", "delete", "react"}}
    NoComment = NoComment
    Targets = {t1, t2, t3}
    ListRequests = {q1, q2}
    PositionStep = 2
    MaxRank = 4
    PatchRanks = {1}
    ListInstances <- Lists
    Unranked = Unranked
    ContactIds = {x1, x2, x3}
    ContactValues = {n1, n2, n3}
    ContactRequests = {q1, q2}
    NoContact = NoContact
    ContactInstances <- People
    RecordIds = {r1, r2}
    Fields = {f1}
    Ref = f1
    FieldValues <- UpToTwo
    FieldRequests = {q1, q2}
    FieldKindSets = {{}, {"patch", "trash"}, {"bulk", "patch"}, {"create", "patch", "collapse"}}
    Cell = r1
    Untouched = Untouched
    MaxEdits = 3
    MaxReplays = 3
    GridKindSets = {{}, {"edit", "replay", "fail"}, {"edit", "replace"}}
    CardIds = {c1, c2, c3, c4}
    Senders = {q1, q2}
    NoCard = NoCard
    MaxBatched = 1
    BatchWindow = 1
    BatchCap = 2
    LastTick = 3
    NoticeInstances <- Inboxes
    FeedRequests = {q1, q2}
    Texts = {n1, n2}
    Accounts = {a1, a2}
    Pipeline <- TwoPipelines
    Outcomes = {r1, r2}
    NoLine = NoLine
    Same = Same
    MaxStamp = 3
    FeedKindSets = {{"edit", "trash"}, {"edit", "attach", "trash"}, {"done", "drop"},
                    {"stage", "pipeline", "drop"}, {"complete", "steps"}, {"complete"}}
    Devices = {d1, d2}
    PushJobs = {j1, j2}
    MaxDeliveries = 2
    PushKindSets = {{"push", "refuse", "gone", "revoke"}, {"push", "lost", "fault", "crash"},
                    {"push", "refuse", "gone", "revoke", "crash", "expire"}}
INVARIANTS
    WorkspaceTypeOK
    LeadersStay
    OneDefaultView
    RecordsStand
    PushedOnce
    FeedIsTrue
PROPERTIES
    JoinsOnce
    ThreadStands
    MovedIsPlaced
CHECK_DEADLOCK FALSE
