CONSTANTS
    c1 = c1
    Calls = {c1}
SPECIFICATION FairSpec
INVARIANTS CleanedMeansClean NoRunnerUnbilled
PROPERTIES HostConfirmationFinal CleanupCloses NothingLeftBehind
