SPECIFICATION Spec
CONSTANTS
    rep1 = rep1
    n1 = n1
    n2 = n2
    Nil = Nil
    Reps = {rep1}
    Callees = {e1}
    OutboundCalls = {c1}
    InboundCalls = {}
    Outcomes = {"completed", "no-answer", "failed", "canceled"}
    LoggedCalls = {c1}
    OwnNumbers = {n1}
    FirstHolder <- HoldsAll
    Handlers = {h1, h2}
    Sweep = sweep
    Faults = {}
SYMMETRY Symmetry
INVARIANTS
    CanceledIsDown
CHECK_DEADLOCK FALSE
