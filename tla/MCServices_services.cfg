SPECIFICATION MCSpec
CONSTANTS
    Requests = {i1, i2, i3, i4}
    Statuses = {s1, s2}
    Keys = {k1}
    Times = {0, 1, 2, 3, 4, 5}
    PerMilli = 2
    Limit = 2
    MaxExpired = 1
    None = None
    Faults = TRUE
SYMMETRY Symmetry
INVARIANT ServicesTypeOK
INVARIANT EndedSessionsStayEnded
INVARIANT RefreshTokenWorksOnce
INVARIANT IssuesMoveAsConfigured
PROPERTY CommentsAreKept
PROPERTY PagesAreComplete
\* Every behaviour ends once all requests are through and all users removed.
CHECK_DEADLOCK FALSE
