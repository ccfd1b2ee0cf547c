\* Two sentences that say more of the backends than the code does.
SPECIFICATION UpstreamSpec
CONSTANTS
    Slots = {r1, r2}
    Pool <- MCThree
    Weight <- MCOnes
    Turns = 6
    FailuresBeforeOut = 1
    ConsecutiveMax = 1
    OutFor = 1
    Attempts = 3
    Affinity = FALSE
    Methods = {"repeatable", "once"}
    Bodies = {TRUE, FALSE}
    Conditions = {"ok", "down", "sick"}
    MaxChanges = 1
SYMMETRY Symmetry
INVARIANTS
    OneLetThrough
    AllDownMeansAll
