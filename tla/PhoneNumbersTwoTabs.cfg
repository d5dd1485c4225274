SPECIFICATION Spec
CONSTANTS
    u1 = u1
    u2 = u2
    s1 = s1
    s2 = s2
    Nil = Nil
    UserOf <- TwoTabs
    Users = {u1}
    Sessions = {s1, s2}
    AdminSessions = {}
    Rows = {r1, r2}
    Numbers = {n1}
    JobIds = {j1, j2}
    Sids = {x1, x2}
    ProvisionRetryLimit = 1
    ReleaseRetryLimit = 1
    Faults = {}
SYMMETRY Symmetry
INVARIANTS
    AtMostOneCallerId
CHECK_DEADLOCK FALSE
