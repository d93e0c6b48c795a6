SPECIFICATION MCSpec
CONSTANTS
    u1 = u1
    Requests = {i1, i2, i3, i4}
    Workers = {w1}
    Users = {u1}
    Records = {t1}
    Customs = {}
    Creator <- MCCreator
    Contents <- MCContents
    Titles = {a}
    Descriptions = {d}
    NoText = NoText
    Unset = Unset
    Rows = {r1, r2}
    NoRow = NoRow
    NoArg = NoArg
    Arrivals = "serial"
    Faults = {"embed"}
    MaxStalled = 1
    MaxCrashes = 0
    StatusIds = {s1}
    Keep = Keep
    NotIndexed = NotIndexed
    Removed = Removed
    Alone = {"delete", "update", "archive"}
    Parts = {TRUE, FALSE}
SYMMETRY Symmetry
INVARIANT CompletedHasChunks
INVARIANT CompletedHasCurrentContent
INVARIANT SearchFollowsTodo
PROPERTY RemovedStaysRemoved
\* Every behaviour ends once all requests and jobs are through.
CHECK_DEADLOCK FALSE
