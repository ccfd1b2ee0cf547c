\* The shape of the state of sites, which holds; and what is said of names and of
\* accounts at the authority, and does not.  Run TLC with -continue, or name one.
SPECIFICATION MCSpec
CONSTANTS
    None = None
    Bad = Bad
    Hosts = {"ha", "hb", "hc"}
    Realms = {"r"}
    GuiPorts = {5}
    MaxPort = 5
    AcmePort = 1
    Uploaded = {"ha"}
    Admins = {d1, d2}
    Forms <- MCAllForms
    MaxSites = 2
    MaxSaves = 3
    MaxStops = 1
    Names = {"ca", "cb"}
    ByHand = {"cb"}
    Issued = {"ca"}
    Managed = "cb"
    Pages = {p1}
    Renewer = renewer
    MaxActs = 2
    MaxRefusals = 2
    MaxAges = 1
    MaxKills = 1
INVARIANTS
    \* This holds.
    TypeOK
    \* These do not.
    OneSitePerName
    RegisteredOnce
CHECK_DEADLOCK FALSE
