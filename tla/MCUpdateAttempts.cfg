\* Two attempts, so that what is said of the first can meet the second, and one
\* fence, restart, deletion, switch or failure among them, after any number of lost
\* answers.  The host may come to rest with its attempts ended.
CONSTANTS
    MaxAttempts = 2
    MaxEvents = 1
SPECIFICATION Spec
INVARIANT DeliveredMeansRecorded
PROPERTIES FailureIsItsOwn HeldReportGetsABeat FirstEndingStands
           ImplementsAttemptLife
CHECK_DEADLOCK FALSE
