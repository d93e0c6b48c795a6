SPECIFICATION MCSpec
CONSTANTS
    Requests = {i1, i2, i3, i4}
    Todos = {t1, t2}
    StatusIds = {s1, s2}
    Titles = {a, b}
    Descriptions = {d}
    NoText = NoText
    Unset = Unset
    NoTodo = NoTodo
    NoArg = NoArg
    Keep = Keep
    NotIndexed = NotIndexed
    Removed = Removed
    Alone = {"deleteStatus", "delete"}
    Faults = TRUE
    Parts = {FALSE, TRUE}
    CalmAlone = {"delete", "update", "archive"}
    MaxFaulty = 3
SYMMETRY Symmetry
INVARIANT TypeOK
INVARIANT LiveTodoHasLiveStatus
INVARIANT CalmIndexFollowsTodo
PROPERTY DeletedStaysDeleted
\* Every behaviour ends once all requests are through.
CHECK_DEADLOCK FALSE
