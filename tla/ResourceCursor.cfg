SPECIFICATION Spec
CONSTANTS
 MaxCommits = 3
 MaxEvents = 3
 MaxOutput = 2
 Published = {"history","health"}
 Attempts = 2
INVARIANT PendingIsNoFailure
CHECK_DEADLOCK FALSE
