\* One administrator creates one site, asking for a certificate with it.
SPECIFICATION MCSpec
CONSTANTS
    None = None
    Bad = Bad
    Hosts = {"ha", "hb", "hc"}
    Realms = {"r"}
    GuiPorts = {5}
    MaxPort = 5
    AcmePort = 1
    Uploaded = {"ha"}
    Admins = {d1}
    Forms <- MCSaveForms
    MaxSites = 2
    MaxSaves = 1
    MaxStops = 0
    Names = {"ca", "cb"}
    ByHand = {"cb"}
    Issued = {"ca"}
    Managed = "cb"
    Pages = {p1}
    Renewer = renewer
    MaxActs = 2
    MaxRefusals = 2
    MaxAges = 1
    MaxKills = 1
INVARIANT RedirectsWhereAnswered
CHECK_DEADLOCK FALSE
