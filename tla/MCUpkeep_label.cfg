\* A country database put back under the label of the one it replaces.
SPECIFICATION MCSpec
CONSTANTS
    Installers = {i1, i2}
    Lists <- MCLists
    MaxVersion = 3
    Broken = {3}
    MaxFaults = 1
    MaxCrashes = 1
    Hands = {h1, h2}
    MaxEdition = 3
    MaxPublished = 2
    MaxUploads = 1
    MaxTrips = 1
    MaxStops = 1
    Admins = {d1, d2}
    Forms <- MCForms
    FirstForm <- MCFirst
    Bad = "bad"
    MaxSaves = 2
    MaxCuts = 1
    MaxStarts = 1
SYMMETRY Symmetry
INVARIANT SaidToBeVerified
CHECK_DEADLOCK FALSE
