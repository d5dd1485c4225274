SPECIFICATION Spec
CONSTANTS
    Calls = {c1, c2}
    Voicemails = {v1}
    PlannedCalls = {c1}
    JobIds = {j1, j2}
    RetryLimit = 1
    Faults = {"crash", "expire", "duplicate", "sendFails", "storeFails"}
SYMMETRY Symmetry
CONSTRAINT UnplannedAlone
INVARIANTS
    TypeOK
    NoAudioIsLost
PROPERTIES
    FinishedStays
    KeepsCustody
CHECK_DEADLOCK FALSE
