\* Two visitors at once on a site with session affinity and two backends; and a
\* request of any kind while there is no other.
SPECIFICATION MCSpec
CONSTANTS
    Slots = {r1, r2}
    Pool <- MCTwo
    Weight <- MCOnes
    Turns = 2
    FailuresBeforeOut = 2
    ConsecutiveMax = 2
    OutFor = 1
    Attempts = 3
    Affinity = TRUE
    Methods = {"repeatable", "once", "upgrade"}
    Bodies = {TRUE, FALSE}
    Conditions = {"ok", "down"}
    MaxChanges = 1
INVARIANTS
    KeepsItsBackend
PROPERTIES
    ComesBack
