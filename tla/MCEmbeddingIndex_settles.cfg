SPECIFICATION FairSpec
CONSTANTS
    u1 = u1
    u2 = u2
    Requests = {i1, i2, i3}
    Workers = {w1}
    Users = {u1}
    Records = {t1}
    Customs = {}
    Creator <- MCCreator
    Contents = {a, b}
    Rows = {r1, r2}
    NoRow = NoRow
    NoArg = NoArg
    Arrivals = "overlapping"
    Faults = {"embed", "crash"}
    MaxStalled = 1
    MaxCrashes = 2
PROPERTY StatusSettles
PROPERTY ProcessingEnds
\* Every behaviour ends once all requests and jobs are through.
CHECK_DEADLOCK FALSE
