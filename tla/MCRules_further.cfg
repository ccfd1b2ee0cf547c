\* The instance of MCRules_rules.cfg: what else holds of it, and what is said of it and
\* does not hold.  Run TLC with -continue, or name one.
SPECIFICATION MCSpec
CONSTANTS
    None = None
    Policies = {"p", "q"}
    Sets = {"core"}
    Ext = {1, 2, 3}
    Own = {11, 12}
    Entries <- SomeEntries
    File <- OneSet
    Newer <- NoneNewer
    Budgets <- SomeBudgets
    Tasks = {t1, t2}
    Sites = {s1}
    Parts = 2
    MaxAge = 1
    KeepsFailures = TRUE
    MaxWrites = 1
    MaxPublished = 1
    MaxErrors = 1
INVARIANTS
    \* These hold.
    TypeOK
    CacheTypeOK
    \* These do not.
    CopiedWhole
    OneMoment
PROPERTIES
    \* These hold.
    StampNeverGoesBack
    SiteKeepsItsPolicy
    \* These do not.
    NothingPutBack
    CachesSettleWhole
CHECK_DEADLOCK FALSE
