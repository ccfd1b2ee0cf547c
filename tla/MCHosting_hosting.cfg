\* Sites: two administrators, three saves of seven forms, a toggle, a stop.
\* Certificates: two names, two acts of the pages, two refusals of the authority,
\* one certificate coming of age, a stop.
SPECIFICATION MCSpec
CONSTANTS
    None = None
    Bad = Bad
    Hosts = {"ha", "hb", "hc"}
    Realms = {"r"}
    GuiPorts = {5}
    MaxPort = 5
    AcmePort = 1
    Uploaded = {"ha"}
    Admins = {d1, d2}
    Forms <- MCSaveForms
    MaxSites = 2
    MaxSaves = 3
    MaxStops = 1
    Names = {"ca", "cb"}
    ByHand = {"cb"}
    Issued = {"ca"}
    Managed = "cb"
    Pages = {p1}
    Renewer = renewer
    MaxActs = 2
    MaxRefusals = 2
    MaxAges = 1
    MaxKills = 1
INVARIANTS
    PoolChangesInPlace
    SavedPortsAnswer
    AskedIsAnswered
    PresentsWhatIsStored
PROPERTIES
    UploadIsKept
    DueAreRenewed
SYMMETRY Symmetry
CHECK_DEADLOCK FALSE
