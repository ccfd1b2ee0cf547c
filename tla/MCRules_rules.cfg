\* The sets: two policies, a set of two versions, and of six budgets one: two acts;
\* three edits; with updates that apply themselves, an act on two policies, an act
\* and a stop anywhere, and an act and a check that fails; a policy of a version
\* that recorded no sets, an edit and two stops.  The caches: two requests racing a
\* write and a reload of the published lists, with one failing query.
SPECIFICATION MCSpec
CONSTANTS
    None = None
    Policies = {"p", "q"}
    Sets = {"core"}
    Ext = {1, 2, 3}
    Own = {11, 12}
    Entries <- SomeEntries
    File <- OneSet
    Newer <- NoneNewer
    Budgets <- SomeBudgets
    Tasks = {t1, t2}
    Sites = {s1}
    Parts = 2
    MaxAge = 1
    KeepsFailures = TRUE
    MaxWrites = 1
    MaxPublished = 1
    MaxErrors = 1
INVARIANTS
    HeldIsWhole
    NeverOlderThanItsStamp
PROPERTIES
    SwitchIsTheOperators
    SetsCatchUp
    CachesSettle
CHECK_DEADLOCK FALSE
