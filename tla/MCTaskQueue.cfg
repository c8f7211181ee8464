\* Two updates of one agent, a host check and a log relay, two deliveries each,
\* one task per poll.
CONSTANTS
    updateA = updateA
    updateB = updateB
    check = check
    logs = logs
    Tasks = {updateA, updateB, check, logs}
    Subjects <- MCSubjects
    kindOf <- MCKindOf
    subjectOf <- MCSubjectOf
    maxTaskAttempts = 2
    maxTasksPerPoll = 1
SPECIFICATION FairSpec
INVARIANTS OneOutstandingPerKey NoLostWakeup
PROPERTIES GoneStaysGone RetiredHostGetsNothing LeasedTasksSettle
           ImplementsTaskLife
