\* Two clock ticks to the column's unit, two units to the lease.
CONSTANTS
    c1 = c1
    c2 = c2
    c3 = c3
    m1 = m1
    m2 = m2
    Controllers = {c1, c2, c3}
    Machines = {m1, m2}
    Hostnames = {m1, m2}
    machineOf <- MCMachineOf
    hostOf <- MCMachineOf
    Nobody = Nobody
    LeaseTTL = 4
    Grain = 2
    MaxTime = 7
SPECIFICATION Spec
INVARIANTS OneControllerActs SupersededStops LossBoundsActing
CHECK_DEADLOCK FALSE
