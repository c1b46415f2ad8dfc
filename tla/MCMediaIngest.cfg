SPECIFICATION EitherSpec
CONSTANTS
    MaxAssets = 2
    MaxAttempts = 2
    s1 = s1
    Segments <- MCSegments
    MayCrash = TRUE
    w1 = w1
    w2 = w2
    Workers = {w1, w2}
    NSegs = 3
INVARIANTS AnnouncedIsWhole FailedLeavesNothing CleansOnlyItsOwn
INVARIANTS FinishedIsWhole FailedUploadLeavesNothing NoGoroutineLeft
PROPERTIES WizardReturns HandlerReturns
CHECK_DEADLOCK FALSE
