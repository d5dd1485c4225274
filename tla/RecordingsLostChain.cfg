SPECIFICATION FairSpec
CONSTANTS
    Calls = {c1}
    Voicemails = {}
    PlannedCalls = {c1}
    JobIds = {j1, j2}
    RetryLimit = 1
    Faults = {"crash"}
PROPERTIES
    StoredIsTranscribed
CHECK_DEADLOCK FALSE
