CONSTANTS
    NENV = 3
    NASID = 3
    NBOOT = 2
    MaxGen = 4
    Priorities <- OnePriority
SPECIFICATION SpawnFailsSpec
INVARIANTS SchedListIffRunnable
CHECK_DEADLOCK FALSE
