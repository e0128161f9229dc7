SPECIFICATION LiveSpec
CONSTANTS
    MaxCommits = 2
    MaxEvents = 2
    MaxOutput = 2
    Attempts = 2
    Published = {"metadata", "history", "other", "delete", "health"}
INVARIANTS TypeOK CoveredIsSent StreamIsASnapshot
PROPERTIES CertifiedStays Settles
CHECK_DEADLOCK FALSE
