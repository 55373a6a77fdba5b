CONSTANTS
    Prompt = FALSE
    MaxFills = 12
    MaxSessions = 3
SPECIFICATION ServiceSpec
INVARIANTS ServiceTypeOK InOrder NotMerged
PROPERTY IsStream
