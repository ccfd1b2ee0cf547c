\* Clients: three of them and tables of two entries, and a policy switched off and on;
\* or one client, two requests at once, and an administrator who changes every number.
\* Backends: three, the second with a double share, and one request at a time: all it
\* can be sent to, and what is remembered of it.
SPECIFICATION MCSpec
CONSTANTS
    Policies = {p1}
    Units = {u1, u2, u3}
    Requests = {r1, r2}
    Refusals = {2, 3}
    Windows = {1, 2}
    Lengths = {1, 3}
    MaxCounted = 2
    MaxBlocks = 2
    MaxTime = 3
    MaxLog = 2
    Slots = {s1}
    Pool <- MCThree
    Weight <- MCHeavy
    Turns = 4
    FailuresBeforeOut = 1
    ConsecutiveMax = 1
    OutFor = 1
    Attempts = 3
    Affinity = FALSE
    Methods = {"repeatable", "once", "upgrade"}
    Bodies = {TRUE, FALSE}
    Conditions = {"ok", "down", "sick"}
    MaxChanges = 1
SYMMETRY UnitSymmetry
INVARIANTS
    WithinCaps
    NoneOverTheCount
    NeverTwice
    ServedByTheWell
    NeverBlamedForAnother
PROPERTIES
    BlockIsEarned
