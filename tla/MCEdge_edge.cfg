\* The proxy in every scene of MCEdge.
SPECIFICATION Spec
CONSTANTS
    Top = 3
    Nobody = Nobody
    NoOne = NoOne
    Second = 2
    MaxPerShard = 2
    Users = {"u", "n"}
    Passwords = {"p", "w"}
    MaxFailures = 2
    MaxPerName = 5
    Window = 3
    Remembered = 2
    RefreshAfter = 1
    ClockSkew = 1
    Admins = {a1}
    Reqs = {r1, r2}
    Conns = {c1, c2, c3}
    MaxPlaces = 2
    FirstReadIn = 1
    QueueSize = 2
    BatchSize = 2
    Scenes <- MCScenes
INVARIANTS
    RowsAccounted
    OverIsEarned
    TrialTellsTheTruth
    SessionFollowsAccount
    GuessesBounded
SYMMETRY Symmetry
CHECK_DEADLOCK FALSE
