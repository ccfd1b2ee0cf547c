\* A version installed over the one that stopped at migration 040, the start of
\* which is cut off once.
SPECIFICATION FairSpec
CONSTANTS
    MaxRestores = 0
    MaxWrites = 1
    MaxCrashes = 1
    MaxFaults = 0
    Faults = {"keep", "mark", "swap", "undo"}
    Versions = {44}
    Installed = 40
INVARIANT
    UpgradeIsWhole
PROPERTIES
    StartsAgain
