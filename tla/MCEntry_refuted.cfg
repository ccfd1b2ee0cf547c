\* What is said of it and does not hold, each within the same instance: name one, or
\* run TLC with -continue.
SPECIFICATION MCSpec
CONSTANTS
    Ids = {i1, i2}
    AdminTasks = {a1}
    UserTasks = {u1}
    SetupTasks = {s1, s2}
    Operations = {"demote", "promote", "toggle", "delete", "create", "reset", "signout"}
    MaxEpoch = 1
    MaxPassword = 1
    MaxCrashes = 1
    Workers = {w1, w2, w3}
    Clients = {c1, c2}
    MaxPending = 3
    MaxPendingPerClient = 2
    ChallengeTtl = 1
    ClearanceTtl = 1
    MaxIssued = 5
SYMMETRY Symmetry
INVARIANTS
    OldSessionsEnd
    FiftyAtATime
CHECK_DEADLOCK FALSE
