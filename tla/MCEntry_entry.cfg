\* Accounts: one administrator at a time, one visitor, two setups, one death, and
\* everything that can be asked of two accounts.  Challenges: three answers judged at
\* once, two addresses, a store of three.
SPECIFICATION MCSpec
CONSTANTS
    Ids = {i1, i2}
    AdminTasks = {a1}
    UserTasks = {u1}
    SetupTasks = {s1, s2}
    Operations = {"demote", "promote", "toggle", "delete", "create", "reset", "signout"}
    MaxEpoch = 1
    MaxPassword = 1
    MaxCrashes = 1
    Workers = {w1, w2, w3}
    Clients = {c1, c2}
    MaxPending = 3
    MaxPendingPerClient = 2
    ChallengeTtl = 1
    ClearanceTtl = 1
    MaxIssued = 5
SYMMETRY Symmetry
INVARIANTS
    AnAdminRemains
    SessionFollowsPassword
    JudgedOnce
    ClearanceIsEarned
PROPERTIES
    LostToNobodyElse
