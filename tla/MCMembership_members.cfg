SPECIFICATION Spec
CONSTANTS
    Requests = {i1, i2, i3}
    Users = {u1, u2, u3}
    Nobody = Nobody
    Apart <- Orderly
    Faults = TRUE
SYMMETRY Symmetry
INVARIANT TypeOK
INVARIANT CollaboratorsKeptOnce
INVARIANT SettingsKept
INVARIANT LastInvitationWorks
PROPERTY RemovalsStand
PROPERTY EveryInvitationLives
\* Every behaviour ends once all requests are through.
CHECK_DEADLOCK FALSE
