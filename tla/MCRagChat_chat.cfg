SPECIFICATION Spec
CONSTANTS
    Requests = {i1, i2, i3}
    task = task
    Things = {task}
    DeletedBy <- DeletedByKind
    None = None
    Said = {"TASK_DELETE", "OUT_OF_SCOPE"}
    Used = {"countTasks", "deleteTask"}
    HistoryLimit = 3
    MaxCalls = 1
    Apart <- Orderly
    Faults = TRUE
SYMMETRY Symmetry
INVARIANT TypeOK
INVARIANT TranscriptIsFaithful
INVARIANT AgentKnowsAnswered
INVARIANT DeletionsAreConfirmed
PROPERTY ConversationStays
\* Every behaviour ends once all requests are through.
CHECK_DEADLOCK FALSE
