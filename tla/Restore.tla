------------------------------ MODULE Restore ------------------------------
(***************************************************************************)
(* Restoring a snapshot and importing a configuration (backup.rs,          *)
(* routes/backup.rs): a database is staged beside the one in use, the      *)
(* service stops, and its next start swaps the staged one in before        *)
(* anything opens it, or undoes a swap that did not come up.               *)
(*                                                                         *)
(* The state is what is on disk, plus the place the process has reached;   *)
(* every file operation is a step, and the power can go after any of them. *)
(* The service manager starts the service again (packaging/easywaf.service)*)
(* and VACUUM INTO and the closing of SQLite's log are SQLite's.           *)
(***************************************************************************)
EXTENDS Migrations, Naturals, Sequences

CONSTANTS
    MaxRestores, \* bound on the databases staged
    MaxWrites,   \* bound on the commits to one database
    MaxCrashes,  \* bound on the times the process or the power dies
    MaxFaults,   \* bound on the file operations that fail
    Faults,      \* the operations that may: a subset of {"keep", "mark", "swap", "undo"}
    Versions,    \* the versions of EasyWAF snapshots come from, by their last migration
    Installed    \* the version that made the first database

ASSUME BoundsAssumption ==
    /\ MaxRestores \in Nat /\ MaxWrites \in Nat /\ MaxCrashes \in Nat /\ MaxFaults \in Nat
    /\ Faults \subseteq {"keep", "mark", "swap", "undo"}
    /\ Versions \subseteq 1 .. Latest /\ Installed \in 1 .. Latest

VARIABLES
    db,       \* the database file
    log,      \* its write-ahead log: what it belongs to and holds, or NoFile
    staged,   \* <db>.restore, or NoFile
    before,   \* <db>.before-restore, or NoFile
    work,     \* the import's working copy, while its handler runs, or NoFile
    marker,   \* whether <db>.restore-pending is there
    reason,   \* whether <db>.restore-reason is there, which names an import
    outcome,  \* what <db>.restore-outcome says
    pc,       \* the place the process has reached
    at,       \* the migration, and its statement, that a start has reached
    fate,     \* how the last restore really ended (history)
    restores, \* how many databases have been staged
    crashes,  \* how often the process or the power has died
    faults    \* the file operations that have failed, in order

files == <<db, log, staged, before, marker, reason, outcome>>
vars == <<files, work, pc, at, fate, restores, crashes, faults>>

NoFile == [kind |-> "none"]

Says == [status : {"none", "ok", "failed"}, subject : {"none", "snapshot", "import"}]
Nothing == [status |-> "none", subject |-> "none"]

\* A database file: which one it is and which copy of it, the commits in it,
\* whether this version can open it and its rows can be migrated, where its
\* schema differs from this version's, and what its settings say of the last
\* restore.  The schema is the database's and its log's together: a log is only
\* removed when it is folded in, or with the database it is of.
Things == Newest \cup UNION {SchemaOf(v) : v \in Versions \cup {Installed}}

Database ==
    [base : 0 .. MaxRestores, copy : Nat, kind : {"original", "snapshot", "import"},
     writes : 0 .. MaxWrites, good : BOOLEAN, drift : SUBSET Things, says : Says]

Log == [base : 0 .. MaxRestores, copy : Nat, writes : 0 .. MaxWrites]

Places ==
    {"down", "undo log", "undo rename", "undo outcome", "undo marker", "copy", "keep",
     "refuse", "mark", "swap log", "swap rename", "open", "finish", "finish outcome",
     "record", "serving"}

\* Every file holds what it should.
TypeOK ==
    /\ db \in Database
    /\ log \in Log \cup {NoFile}
    /\ staged \in Database \cup {NoFile}
    /\ before \in Database \cup {NoFile}
    /\ work \in Database \cup {NoFile}
    /\ marker \in BOOLEAN /\ reason \in BOOLEAN
    /\ outcome \in Says /\ fate \in Says
    /\ pc \in Places
    /\ restores \in 0 .. MaxRestores
    /\ crashes \in 0 .. MaxCrashes
    /\ faults \in Seq(Faults) /\ Len(faults) <= MaxFaults

Differ(a, b) == (a \ b) \cup (b \ a)
Drift(v) == Differ(Newest, SchemaOf(v))
Schema(d) == Differ(Newest, d.drift)

Original ==
    [base |-> 0, copy |-> 0, kind |-> "original", writes |-> 0, good |-> TRUE,
     drift |-> Drift(Installed), says |-> Nothing]

Init ==
    /\ db = Original
    /\ log = NoFile /\ staged = NoFile /\ before = NoFile /\ work = NoFile
    /\ marker = FALSE /\ reason = FALSE
    /\ outcome = Nothing /\ fate = Nothing
    /\ pc = IF Installed = Latest THEN "serving" ELSE "down"
    /\ at = Beginning
    /\ restores = 0 /\ crashes = 0 /\ faults = <<>>

-----------------------------------------------------------------------------

Exists(file) == file # NoFile

\* The log's commits belong to the database beside it.
LogIsOf(d) == Exists(log) /\ log.base = d.base /\ log.copy = d.copy

Commits == db.writes + (IF LogIsOf(db) THEN log.writes ELSE 0)

\* SQLite's close of the last connection, which folds the log in.
Folded == [db EXCEPT !.writes = Commits]

\* What the page may name: the reason file is an import's.
Subject == IF reason THEN "import" ELSE "snapshot"

Failed(subject) == [status |-> "failed", subject |-> subject]

Goto(from, to) == pc = from /\ pc' = to /\ at' = Beginning

MayFail(operation) ==
    /\ operation \in Faults
    /\ Len(faults) < MaxFaults
    /\ faults' = Append(faults, operation)

-----------------------------------------------------------------------------
(* The service at work.                                                      *)

Serving(next) == pc = "serving" /\ next /\ UNCHANGED <<pc, at, fate, crashes, faults>>

\* A commit, to the log; SQLite folds the log in when it chooses.
Commit ==
    Serving(
      /\ Commits < MaxWrites
      /\ log' = [base |-> db.base, copy |-> db.copy,
                 writes |-> 1 + (IF Exists(log) THEN log.writes ELSE 0)]
      /\ UNCHANGED <<db, staged, before, work, marker, reason, outcome, restores>>)

Fold ==
    Serving(
      /\ Exists(log)
      /\ db' = Folded
      /\ log' = NoFile
      /\ UNCHANGED <<staged, before, work, marker, reason, outcome, restores>>)

\* post_restore_apply: a checked upload is renamed to where the next start
\* looks.  The check cannot tell whether it will migrate.
StageSnapshot ==
    Serving(
      /\ restores < MaxRestores
      /\ restores' = restores + 1
      /\ \E good \in BOOLEAN, v \in Versions :
           /\ good \/ v = Latest
           /\ staged' = [base |-> restores', copy |-> 0, kind |-> "snapshot", writes |-> 0,
                         good |-> good, drift |-> Drift(v), says |-> Nothing]
      /\ UNCHANGED <<db, log, before, work, marker, reason, outcome>>)

\* post_import_apply changes a copy of the database in use, ...
CopyForImport ==
    Serving(
      /\ restores < MaxRestores
      /\ ~Exists(work)
      /\ restores' = restores + 1
      /\ \E good \in BOOLEAN :
           work' = [base |-> restores', copy |-> 0, kind |-> "import", writes |-> 0,
                    good |-> good, drift |-> db.drift, says |-> db.says]
      /\ UNCHANGED <<db, log, staged, before, marker, reason, outcome>>)

\* ... says what it is, ...
SetReason ==
    Serving(
      /\ Exists(work)
      /\ ~reason
      /\ reason' = TRUE
      /\ UNCHANGED <<db, log, staged, before, work, marker, outcome, restores>>)

\* ... and stages it.
StageImport ==
    Serving(
      /\ Exists(work)
      /\ reason
      /\ staged' = work
      /\ work' = NoFile
      /\ UNCHANGED <<db, log, before, marker, reason, outcome, restores>>)

\* The process stops, cleanly: close_database.
Stop ==
    /\ Goto("serving", "down")
    /\ db' = Folded
    /\ log' = NoFile
    /\ work' = NoFile
    /\ UNCHANGED <<staged, before, marker, reason, outcome, fate, restores, crashes, faults>>

\* Or does not: the process is killed, or the power goes, at any step.
Crash ==
    /\ pc # "down"
    /\ crashes < MaxCrashes
    /\ crashes' = crashes + 1
    /\ pc' = "down"
    /\ at' = Beginning
    /\ work' = NoFile
    /\ UNCHANGED <<files, fate, restores, faults>>

-----------------------------------------------------------------------------
(* A start: apply_staged_restore, before the database is opened.             *)

\* Wrong on purpose: a marker without a staged file is taken for nothing to do.
Start_NeverUndoes ==
    /\ pc = "down"
    /\ pc' = CASE ~Exists(staged) -> "open"
               [] ~marker /\ Exists(staged) -> "copy"
               [] marker /\ Exists(staged) -> "swap log"
    /\ UNCHANGED <<files, work, at, fate, restores, crashes, faults>>

\* The files say what is to be done.
Start ==
    /\ pc = "down"
    /\ pc' = CASE marker /\ ~Exists(staged) /\ Exists(before) -> "undo log"
               [] marker /\ ~Exists(staged) /\ ~Exists(before) -> "undo marker"
               [] ~marker /\ ~Exists(staged) -> "open"
               [] ~marker /\ Exists(staged) -> "copy"
               [] marker /\ Exists(staged) -> "swap log"
    /\ UNCHANGED <<files, work, at, fate, restores, crashes, faults>>

\* A step of the start: what it does to the files, and no fault.
Step(from, to, change) ==
    /\ Goto(from, to)
    /\ change
    /\ UNCHANGED <<work, restores, crashes, faults>>

UndoRemoveLog ==
    Step("undo log", "undo rename",
         log' = NoFile /\ UNCHANGED <<db, staged, before, marker, reason, outcome, fate>>)

\* The database that was replaced goes back, in one rename.
UndoRename ==
    Step("undo rename", "undo outcome",
      /\ fate' = Failed(db.kind)
      /\ db' = before
      /\ before' = NoFile
      /\ UNCHANGED <<log, staged, marker, reason, outcome>>)

UndoRenameFails ==
    /\ Goto("undo rename", "undo marker")
    /\ MayFail("undo")
    /\ UNCHANGED <<files, work, fate, restores, crashes>>

\* What is said of it, for the page.
UndoOutcome ==
    Step("undo outcome", "undo marker",
      /\ outcome' = Failed(Subject)
      /\ reason' = FALSE
      /\ UNCHANGED <<db, log, staged, before, marker, fate>>)

UndoRemoveMarker ==
    Step("undo marker", "open",
         marker' = FALSE /\ UNCHANGED <<db, log, staged, before, reason, outcome, fate>>)

\* Wrong on purpose: the file copied without what is in its log.
CopyCurrent_FileOnly ==
    Step("copy", "keep",
         log' = NoFile /\ UNCHANGED <<db, staged, before, marker, reason, outcome, fate>>)

\* 1. The current database is copied whole, through its log; opening and
\* closing it folds the log in.
CopyCurrent ==
    Step("copy", "keep",
      /\ db' = Folded
      /\ log' = NoFile
      /\ UNCHANGED <<staged, before, marker, reason, outcome, fate>>)

\* The copy is renamed into place.
KeepCopy ==
    Step("keep", "mark",
         /\ before' = [db EXCEPT !.copy = @ + 1]
         /\ UNCHANGED <<db, log, staged, marker, reason, outcome, fate>>)

\* Or it could not be kept: without a way back there is no restore.
KeepFails ==
    /\ Goto("keep", "refuse")
    /\ MayFail("keep")
    /\ outcome' = Failed("none")
    /\ fate' = Failed("none")
    /\ UNCHANGED <<db, log, staged, before, marker, reason, work, restores, crashes>>

RefuseStaged ==
    Step("refuse", "open",
         staged' = NoFile /\ UNCHANGED <<db, log, before, marker, reason, outcome, fate>>)

\* 2. From here a start knows a swap began.
WriteMarker ==
    Step("mark", "swap log",
         marker' = TRUE /\ UNCHANGED <<db, log, staged, before, reason, outcome, fate>>)

MarkFails ==
    /\ Goto("mark", "open")
    /\ MayFail("mark")
    /\ UNCHANGED <<files, work, fate, restores, crashes>>

\* 3. The log belongs to the database being replaced.  Then the staged file is
\* renamed over the database.
SwapRemoveLog ==
    Step("swap log", "swap rename",
         log' = NoFile /\ UNCHANGED <<db, staged, before, marker, reason, outcome, fate>>)

SwapRename ==
    Step("swap rename", "open",
      /\ db' = staged
      /\ staged' = NoFile
      /\ UNCHANGED <<log, before, marker, reason, outcome, fate>>)

SwapFails ==
    /\ Goto("swap rename", "undo marker")
    /\ MayFail("swap")
    /\ outcome' = Failed("none")
    /\ fate' = Failed("none")
    /\ UNCHANGED <<db, log, staged, before, marker, reason, work, restores, crashes>>

-----------------------------------------------------------------------------
(* db::init and finish_restore.                                              *)

\* Where the next statement stands that does something.
NextPlace == CHOOSE place \in {NextTelling(schema, at) : schema \in {Schema(db)}} : TRUE

\* db::init opens it, and runs the migrations: a statement of theirs, committed
\* to the log.
Opened ==
    log' = IF Exists(log) THEN log ELSE [base |-> db.base, copy |-> db.copy, writes |-> 0]

Migrate ==
    /\ pc = "open" /\ db.good
    /\ \E next \in {NextPlace} :
        /\ next # Finished
        /\ ~Failing(StatementAt(next), Schema(db))
        /\ db' = [db EXCEPT !.drift = Differ(Newest, Applied(StatementAt(next), Schema(db)))]
        /\ at' = Past(next)
    /\ Opened
    /\ UNCHANGED <<staged, before, marker, reason, outcome, fate, pc, work, restores, crashes, faults>>

\* All of them done, and the version noted.
OpenAndMigrate ==
    Step("open", "finish",
      /\ db.good /\ NextPlace = Finished
      /\ Opened
      /\ UNCHANGED <<db, staged, before, marker, reason, outcome, fate>>)

\* It will not open, or a migration fails: db::init panics.
OpenPanics ==
    Step("open", "down",
      /\ \/ ~db.good
         \/ \E next \in {NextPlace} : next # Finished /\ Failing(StatementAt(next), Schema(db))
      /\ Opened
      /\ UNCHANGED <<db, staged, before, marker, reason, outcome, fate>>)

\* 4. The marker is removed: this start is the one that brought a restore up.
RemoveMarker ==
    Step("finish", "finish outcome",
      /\ marker
      /\ marker' = FALSE
      /\ fate' = [status |-> "ok", subject |-> db.kind]
      /\ UNCHANGED <<db, log, staged, before, reason, outcome>>)

\* The reason goes and the outcome is written: two operations, one step here.  A
\* crash between them leaves what one before both does, but for the reason.
WriteOutcome ==
    Step("finish outcome", "record",
      /\ outcome' = [status |-> "ok", subject |-> Subject]
      /\ reason' = FALSE
      /\ UNCHANGED <<db, log, staged, before, marker, fate>>)

NothingPending ==
    Step("finish", "record", ~marker /\ UNCHANGED <<files, fate>>)

\* The outcome file is recorded in the database that is now open, and removed.
Record ==
    Step("record", "serving",
      /\ db' = IF outcome = Nothing THEN db ELSE [db EXCEPT !.says = outcome]
      /\ outcome' = Nothing
      /\ UNCHANGED <<log, staged, before, marker, reason, fate>>)

-----------------------------------------------------------------------------

StartUp ==
    \/ Start
    \/ UndoRemoveLog \/ UndoRename \/ UndoOutcome \/ UndoRemoveMarker
    \/ CopyCurrent \/ KeepCopy \/ RefuseStaged \/ WriteMarker
    \/ SwapRemoveLog \/ SwapRename
    \/ Migrate \/ OpenAndMigrate \/ OpenPanics
    \/ RemoveMarker \/ WriteOutcome \/ NothingPending \/ Record

Fault == UndoRenameFails \/ KeepFails \/ MarkFails \/ SwapFails

Next ==
    \/ Commit \/ Fold
    \/ StageSnapshot \/ CopyForImport \/ SetReason \/ StageImport
    \/ Stop \/ Crash
    \/ StartUp \/ Fault

Spec == Init /\ [][Next]_vars

\* The service manager starts the service, and a start goes on until it serves
\* or fails.
FairSpec == Spec /\ WF_vars(StartUp)
-----------------------------------------------------------------------------
(* Properties.                                                               *)

\* No database is opened, and none is used, with another one's log beside it
\* ("The log and shared memory belong to the database being replaced").
NoForeignLog ==
    pc \in {"open", "finish", "finish outcome", "record", "serving"} /\ Exists(log)
        => LogIsOf(db)

Content(d, commits) ==
    [base |-> d.base, kind |-> d.kind, good |-> d.good, writes |-> commits]

\* The database that counts: the one put aside while a swap is pending.
SwapPending == marker /\ Exists(before)
Live == IF SwapPending THEN Content(before, before.writes) ELSE Content(db, Commits)

\* The one that may replace it.
Waiting ==
    CASE Exists(staged) -> Content(staged, staged.writes)
      [] ~Exists(staged) /\ SwapPending -> Content(db, db.writes)
      [] ~Exists(staged) /\ ~SwapPending -> NoFile

Atomic == INSTANCE AtomicRestore
          WITH First <- Content(Original, 0), live <- Live, waiting <- Waiting

\* The rename that puts the replaced database back has failed.  It is not
\* tried again: the marker that asks for it is removed all the same.
UndoFailed == \E i \in 1 .. Len(faults) : faults[i] = "undo"

\* A restore either works or undoes itself, and the database it replaces
\* survives every step, with every commit (backup.rs, "The order of that swap
\* is the whole design").  This is the promise with nothing held back, and it
\* needs the undoing not to fail.
AlwaysAtomic == Atomic!Spec

\* The promise as far as it goes: up to the failed rename, every step is one
\* of the abstract restore's, or changes nothing there.
EitherWorksOrUndoesItself ==
    Atomic!Init /\ [][UndoFailed' \/ Atomic!Next]_<<Live, Waiting>>

\* Once a restore has been decided, the page of the service that comes up says
\* whether it worked (docs/backup.md: "and the page says so").
AlwaysTold == pc = "serving" /\ fate # Nothing => db.says.status = fate.status

\* It does as long as nothing dies between the decision and the note of it.
OutcomeTold == crashes = 0 => AlwaysTold

\* And it names what was restored: an import's reason is not told of a snapshot.
SubjectTold == pc = "serving" /\ fate # Nothing => db.says.subject = fate.subject

\* Only a database that would not start is undone (docs/backup.md: "If the
\* snapshot will not start ... the next start puts the previous database back").
OnlyTheBadAreUndone == pc = "undo rename" => ~db.good

\* What is served has the schema of this version, every column and every trigger
\* of it, whatever version the snapshot is of and wherever its start was cut off
\* (db.rs:90, "so the version recorded is the one whose schema this now is"): a
\* start cut off between two statements of a migration is undone, as long as the
\* undoing does not fail.
ServedSchemaIsWhole == pc = "serving" => db.drift = {} \/ UndoFailed

\* The same, of a version installed over an older one, with no way back.
UpgradeIsWhole == pc = "serving" => db.drift = {}

\* However a restore goes, the service serves again: a bad snapshot is put back
\* by the start after the one it stopped.
ServesAgain == []<>(pc = "serving" \/ UndoFailed)

\* A start that was cut off is finished by one of the next ones (db.rs, "Applied
\* while the column is missing, since `ALTER TABLE ADD COLUMN` fails on a
\* database that already has it").
StartsAgain == <>(pc = "serving")
=============================================================================
