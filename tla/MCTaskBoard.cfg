SPECIFICATION FairFlowsSpec
CONSTANTS
    a = a
    b = b
    None = None
    Tasks <- MCTasks
    Layouts <- MCLayouts
    Links <- MCLinks
    Autos <- MCAutos
    Terminals <- MCTerminals
    MaxEvents = 3
    MaxFlows = 2
INVARIANT NoAgentForDoneTask
PROPERTY ColumnsFollowSessions
PROPERTY LinkedTasksStart
CHECK_DEADLOCK FALSE
