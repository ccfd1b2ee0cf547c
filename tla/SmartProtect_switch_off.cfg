\* One policy switched off while a request to it is being inspected.
SPECIFICATION Spec
CONSTANTS
    Policies = {p1}
    Units = {u1}
    Requests = {r1, r2}
    Refusals = {2}
    Windows = {2}
    Lengths = {2}
    MaxCounted = 2
    MaxBlocks = 2
    MaxTime = 2
    MaxLog = 2
INVARIANTS
    NoBlockOutlivesSwitchOff
