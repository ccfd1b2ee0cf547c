\* The instance of MCUpkeep_upkeep.cfg: what else holds of it, and what is said of it and
\* does not hold.  Run TLC with -continue, or name one.
SPECIFICATION MCSpec
CONSTANTS
    Installers = {i1, i2}
    Lists <- MCLists
    MaxVersion = 3
    Broken = {3}
    MaxFaults = 1
    MaxCrashes = 1
    Hands = {h1, h2}
    MaxEdition = 3
    MaxPublished = 2
    MaxUploads = 1
    MaxTrips = 1
    MaxStops = 1
    Admins = {d1, d2}
    Forms <- MCForms
    FirstForm <- MCFirst
    Bad = "bad"
    MaxSaves = 2
    MaxCuts = 1
    MaxStarts = 1
SYMMETRY Symmetry
INVARIANTS
    \* These hold.
    TypeOK
    SuccessIsReal
    LeftIntact
    MemoryFollowsMirror
    NotFollowedBack
    DoorIsKept
    WholeSavesServe
    \* These do not.
    YesterdaysOrTodays
    NeverHalf
    NeverBackwards
    EveryStartOpens
PROPERTIES
    \* These do not.
    BadListStoresNothing
CHECK_DEADLOCK FALSE
