SPECIFICATION Spec
CONSTANTS
    rep1 = rep1
    n1 = n1
    n2 = n2
    Nil = Nil
    Reps = {rep1}
    Callees = {e1}
    OutboundCalls = {c1}
    InboundCalls = {c2}
    Outcomes = {"completed","canceled"}
    LoggedCalls = {c1}
    OwnNumbers = {n1}
    FirstHolder <- HoldsAll
    Handlers = {h1, h2}
    Sweep = sweep
    Faults = {"reorder", "duplicate", "lost", "crash", "reassign"}
SYMMETRY Symmetry
CONSTRAINT OneCall
INVARIANTS
    TypeOK
    RowsAreComplete
PROPERTIES
    OutcomesStay
    ReaperSparesLiveCalls
CHECK_DEADLOCK FALSE
