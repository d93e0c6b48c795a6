SPECIFICATION MCSpec
CONSTANTS
    Requests = {i1, i2}
    Todos = {t1}
    StatusIds = {s1, s2}
    Titles = {a}
    Descriptions = {d}
    NoText = NoText
    Unset = Unset
    NoTodo = NoTodo
    NoArg = NoArg
    Keep = Keep
    NotIndexed = NotIndexed
    Removed = Removed
    Alone = {}
    Faults = FALSE
    Parts = {FALSE}
    CalmAlone = {}
    MaxFaulty = 2
SYMMETRY Symmetry
PROPERTY StatusWithTodosIsKept
\* Every behaviour ends once all requests are through.
CHECK_DEADLOCK FALSE
