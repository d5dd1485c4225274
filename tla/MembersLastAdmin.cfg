SPECIFICATION Spec
CONSTANTS
    a1 = a1
    a2 = a2
    b1 = b1
    Nil = Nil
    Users = {a1, a2, b1}
    FirstRole <- TwoAdmins
    Teams = {t1}
    Rosters = {{b1}, {a2, b1}}
    Invitations = {i1}
    MaxLinks = 1
    Requests = {q1, q2}
    KindSets = {{"promote", "demote", "remove"}}
INVARIANTS
    AlwaysAnAdmin
CHECK_DEADLOCK FALSE
