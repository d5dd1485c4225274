SPECIFICATION Spec
CONSTANTS
    u1 = u1
    u2 = u2
    s1 = s1
    s2 = s2
    Nil = Nil
    UserOf <- OneTabEach
    Users = {u1, u2}
    Sessions = {s1, s2}
    AdminSessions = {s2}
    Rows = {r1, r2}
    Numbers = {n1}
    JobIds = {j1, j2}
    Sids = {x1, x2}
    ProvisionRetryLimit = 1
    ReleaseRetryLimit = 1
    Faults = {"undoFails"}
SYMMETRY Symmetry
INVARIANTS
    AtMostOneCallerId
    BooksAgree
CHECK_DEADLOCK FALSE
