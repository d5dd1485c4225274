SPECIFICATION Spec
CONSTANTS
    rep1 = rep1
    n1 = n1
    n2 = n2
    Nil = Nil
    Reps = {rep1}
    Callees = {e1}
    OutboundCalls = {c1, c2}
    InboundCalls = {}
    Outcomes = {"completed", "canceled"}
    LoggedCalls = {}
    OwnNumbers = {n1}
    FirstHolder <- HoldsAll
    Handlers = {h1, h2}
    Sweep = sweep
    Faults = {}
SYMMETRY Symmetry
INVARIANTS
    AtMostOneOngoingCall
CHECK_DEADLOCK FALSE
