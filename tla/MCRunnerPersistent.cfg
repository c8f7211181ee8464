CONSTANTS
    Jobs = {j1, j2}
    NoJob = NoJob
    Ephemeral = FALSE
    MaxHandlers = 2
    MaxRemovals = 0
    MaxResults = 1
SYMMETRY JobSymmetry
SPECIFICATION Spec
PROPERTIES
    JobNeverDisplaced
