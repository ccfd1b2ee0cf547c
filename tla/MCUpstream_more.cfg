\* One request at a time and three backends, the second with a double share, for two
\* rounds of the rotation: what else holds of them.
SPECIFICATION UpstreamSpec
CONSTANTS
    Slots = {r1}
    Pool <- MCThree
    Weight <- MCHeavy
    Turns = 8
    FailuresBeforeOut = 1
    ConsecutiveMax = 1
    OutFor = 1
    Attempts = 3
    Affinity = FALSE
    Methods = {"repeatable", "once", "upgrade"}
    Bodies = {TRUE, FALSE}
    Conditions = {"ok", "down", "sick"}
    MaxChanges = 1
INVARIANTS
    UpstreamTypeOK
    EvenRounds
