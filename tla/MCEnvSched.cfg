CONSTANTS
    NENV = 4
    NASID = 3
    NBOOT = 2
    MaxGen = 4
    Priorities <- MCPriorities
SPECIFICATION FairSpec
INVARIANTS
    TypeOK
    SchedListIffRunnable
    LinkInv
    PanicOnlyWhenIdle
    ReceivingIsBlocked
    SlotsAccounted
PROPERTIES
    RunnableRuns
    RefinesSchedQueue
CHECK_DEADLOCK FALSE
