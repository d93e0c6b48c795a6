SPECIFICATION MCSpec
CONSTANTS
    Requests = {i1, i2, i3}
    Users = {u1, u2}
    Passwords = {p}
    Tokens = {k1, k2}
    NoRow = NoRow
    NoUser = NoUser
    NoPassword = NoPassword
    NoToken = NoToken
    NoArg = NoArg
    Apart = {}
    Faults = FALSE
    Parts = {FALSE}
SYMMETRY Symmetry
INVARIANT PasswordSignsIn
\* Every behaviour ends once all requests are through.
CHECK_DEADLOCK FALSE
