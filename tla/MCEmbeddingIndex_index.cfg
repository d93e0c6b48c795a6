SPECIFICATION Spec
CONSTANTS
    u1 = u1
    u2 = u2
    Requests = {i1, i2, i3}
    Workers = {w1}
    Users = {u1, u2}
    Records = {t1}
    Customs = {c1}
    Creator <- MCCreator
    Contents = {a, b}
    Rows = {r1, r2, r3}
    NoRow = NoRow
    NoArg = NoArg
    Arrivals = "overlapping"
    Faults = {"embed", "store", "crash"}
    MaxStalled = 1
    MaxCrashes = 2
SYMMETRY Symmetry
INVARIANT TypeOK
INVARIANT IndexIntegrity
INVARIANT CustomIsolation
\* Every behaviour ends once all requests and jobs are through.
CHECK_DEADLOCK FALSE
