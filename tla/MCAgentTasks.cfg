\* Three starts for one lane, so that one waits behind another while a third
\* arrives; two slots, so that a start and a stop can run side by side.
CONSTANTS
    create = create
    stop = stop
    remove = remove
    other = other
    warm = warm
    r1 = r1
    r2 = r2
    Deliveries = {create, stop, remove, other, warm}
    Runners = {r1, r2}
    NoRunner = NoRunner
    Lanes = {"startup"}
    None = None
    Capacity = 2
    kindOf <- MCKindOf
    runnerOf <- MCRunnerOf
    laneOf <- MCLaneOf
SPECIFICATION FairSpec
INVARIANTS OneAtATime NoIdleLane StartsTakeOneSlot
PROPERTIES ChainAscends EveryTaskIsAnswered
