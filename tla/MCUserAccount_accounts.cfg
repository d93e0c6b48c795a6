SPECIFICATION MCSpec
CONSTANTS
    Requests = {i1, i2, i3, i4}
    Users = {u1, u2}
    Passwords = {p}
    Tokens = {k1, k2, k3}
    NoRow = NoRow
    NoUser = NoUser
    NoPassword = NoPassword
    NoToken = NoToken
    NoArg = NoArg
    Apart = {{"verifyEmail", "edit"}, {"remove", "edit"}, {"remove", "verifyEmail"},
             {"resend"}, {"resend", "register"}, {"resend", "verifyEmail"},
             {"forgot"}, {"forgot", "reset"}, {"reset"}}
    Faults = TRUE
    Parts = {FALSE, TRUE}
SYMMETRY Symmetry
INVARIANT TypeOK
INVARIANT OneLiveAccount
INVARIANT CalmMailsWorkOnce
PROPERTY VerifiedStaysVerified
PROPERTY RemovedAccountStaysRemoved
\* Every behaviour ends once all requests are through.
CHECK_DEADLOCK FALSE
