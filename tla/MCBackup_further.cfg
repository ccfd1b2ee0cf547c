\* The instance of MCBackup_backup.cfg: what else holds of it, and what is said of it and
\* does not hold.  Run TLC with -continue, or name one.
SPECIFICATION MCSpec
CONSTANTS
    MaxRestores = 2
    MaxWrites = 1
    MaxCrashes = 2
    MaxFaults = 1
    Faults = {"keep", "mark", "swap", "undo"}
    Versions = {28, 44}
    Installed = 44
    None = None
    Importers = {"ana"}
    Configs <- SomeConfigs
    Docs <- SomeDocs
    Sets = {"core"}
    RulesOf <- OneSet
    Management = "mgmt"
    MaxImports = 1
    MaxChanges = 1
INVARIANTS
    \* These hold.
    TypeOK
    NoForeignLog
    OutcomeTold
    \* These do not.
    AlwaysTold
    SubjectTold
    OnlyTheBadAreUndone
    PoliciesTold
PROPERTIES
    \* These hold.
    RealmSessionsEnd
    \* These do not.
    AlwaysAtomic
\* With two importers, who share the working file, StagedIsWhole does not hold:
\* Importers = {"ana", "tom"}, Configs <- TwoAdmins, Docs <- TwoDocs, MaxImports = 2,
\* MaxChanges = 0.
CHECK_DEADLOCK FALSE
