\* Sign-ins on a site whose accounts are deleted and added again: what the page
\* says of a deletion.
SPECIFICATION Spec
CONSTANTS
    Top = 3
    Nobody = Nobody
    NoOne = NoOne
    Second = 2
    MaxPerShard = 2
    Users = {"u", "n"}
    Passwords = {"p", "w"}
    MaxFailures = 2
    MaxPerName = 5
    Window = 3
    Remembered = 2
    RefreshAfter = 1
    ClockSkew = 1
    Admins = {a1}
    Reqs = {r1, r2}
    Conns = {c1, c2, c3}
    MaxPlaces = 2
    FirstReadIn = 1
    QueueSize = 2
    BatchSize = 2
    Scenes <- SignedInScene
INVARIANTS
    SignedOutEverywhere
SYMMETRY Symmetry
CHECK_DEADLOCK FALSE
