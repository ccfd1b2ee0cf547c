\* The mirror: two installers and three versions, the third of which arrives
\* broken, a system call that fails and a stop of the program.  The country
\* database: three editions, two uploads, a fetch or a write that fails and a stop;
\* or two at it at once.  The settings: two administrators, two saves, one of them
\* cut short, and a restart.
SPECIFICATION MCSpec
CONSTANTS
    Installers = {i1, i2}
    Lists <- MCLists
    MaxVersion = 3
    Broken = {3}
    MaxFaults = 1
    MaxCrashes = 1
    Hands = {h1, h2}
    MaxEdition = 3
    MaxPublished = 2
    MaxUploads = 1
    MaxTrips = 1
    MaxStops = 1
    Admins = {d1, d2}
    Forms <- MCForms
    FirstForm <- MCFirst
    Bad = "bad"
    MaxSaves = 2
    MaxCuts = 1
    MaxStarts = 1
SYMMETRY Symmetry
INVARIANTS
    OneBundleInMemory
    NeverHalfAlone
    WholeWhereItStood
    TakenWasHad
    InUseAsStored
CHECK_DEADLOCK FALSE
