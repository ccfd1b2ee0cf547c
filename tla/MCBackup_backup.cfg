\* Restores: two snapshots or imports, a commit, two deaths anywhere, a failing file
\* operation; snapshots of this version and of one before migration 029.  Imports:
\* every configuration of eighteen, any file of two hundred, an import after another,
\* and a change of somebody else, or of the channel, anywhere.
SPECIFICATION MCSpec
CONSTANTS
    MaxRestores = 2
    MaxWrites = 1
    MaxCrashes = 2
    MaxFaults = 1
    Faults = {"keep", "mark", "swap", "undo"}
    Versions = {28, 44}
    Installed = 44
    None = None
    Importers = {"ana"}
    Configs <- SomeConfigs
    Docs <- SomeDocs
    Sets = {"core"}
    RulesOf <- OneSet
    Management = "mgmt"
    MaxImports = 1
    MaxChanges = 1
INVARIANTS
    ServedSchemaIsWhole
    ImportedIsTheFile
    ToldWhatChanges
PROPERTIES
    EitherWorksOrUndoesItself
    ServesAgain
    ImporterStays
CHECK_DEADLOCK FALSE
