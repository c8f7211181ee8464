CONSTANTS
    Jobs = {j1}
    NoJob = NoJob
    Ephemeral = TRUE
    MaxHandlers = 2
    MaxRemovals = 2
    MaxResults = 1
SPECIFICATION Spec
INVARIANTS
    LinkOnlyWhileWorking
    SchedulerSparesJobs
PROPERTIES
    RowMovesLegal
    CancelledStaysCancelled
