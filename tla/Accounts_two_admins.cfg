SPECIFICATION Spec
CONSTANTS
    Ids = {i1, i2}
    AdminTasks = {a1, a2}
    UserTasks = {u1}
    SetupTasks = {s1}
    Operations = {"demote", "toggle", "delete", "create"}
    MaxEpoch = 2
    MaxPassword = 1
    MaxCrashes = 0
INVARIANTS
    AnAdminRemains
