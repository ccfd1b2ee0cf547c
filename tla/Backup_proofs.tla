---------------------------- MODULE Backup_proofs ----------------------------
(* That a restore either works or undoes itself (backup.rs): Restore          *)
(* implements AtomicRestore, up to a rename back that fails, and what it       *)
(* serves has this version's schema; and that an import makes of the           *)
(* configuration what its file says and its preview told, and locks nobody out *)
(* who runs it (import.rs).                                                    *)
(*                                                                             *)
(* What the migrations do to a schema is left as it is defined.  Of it the      *)
(* proofs use MigrationsAssumption alone, which TLC evaluates, and that only    *)
(* where they are about what is served.                                        *)
EXTENDS Restore, Import, SequenceTheorems, TLAPS

-----------------------------------------------------------------------------
(* The invariant.                                                             *)

Kinds == {"original", "snapshot", "import"}

IsDatabase(d) ==
    /\ d = [base |-> d.base, copy |-> d.copy, kind |-> d.kind, writes |-> d.writes,
            good |-> d.good, drift |-> d.drift, says |-> d.says]
    /\ d.base \in Nat /\ d.copy \in Nat /\ d.writes \in Nat
    /\ d.kind \in Kinds
    /\ d.good \in BOOLEAN

Logs == [base : Nat, copy : Nat, writes : Nat]

\* Every file that is there is one of its kind.
FilesInv ==
    /\ IsDatabase(db)
    /\ Exists(staged) => IsDatabase(staged)
    /\ Exists(before) => IsDatabase(before)
    /\ Exists(work) => IsDatabase(work)
    /\ Exists(log) => log \in Logs
    /\ marker \in BOOLEAN
    /\ restores \in Nat
    /\ faults \in Seq(Faults)

\* One holds what the other does, though it is another copy.
Same(d, e) == d.base = e.base /\ d.kind = e.kind /\ d.good = e.good /\ d.writes = e.writes

\* What the files beside the database say of it.
BesideInv ==
    /\ Exists(log) => LogIsOf(db)
    /\ marker /\ Exists(staged) => Exists(before) /\ Same(before, db) /\ log = NoFile
    /\ marker /\ Exists(before) /\ Exists(log) => log.writes = 0

\* What is there, and what is not, at each place a start has reached.
PlaceInv ==
    /\ pc \in {"copy", "keep", "refuse", "mark", "finish outcome", "record", "serving"} => ~marker
    /\ pc \in {"undo log", "undo rename"} => marker /\ ~Exists(staged) /\ Exists(before)
    /\ pc \in {"undo rename", "undo outcome", "keep", "mark", "swap rename"} => log = NoFile
    /\ pc = "undo outcome" => ~Exists(before)
    /\ pc = "undo marker" => UndoFailed \/ ~Exists(before) \/ Exists(staged)
    /\ pc \in {"copy", "keep", "mark", "swap log", "swap rename"} => Exists(staged)
    /\ pc = "mark" => Exists(before) /\ Same(before, db)
    /\ pc \in {"swap log", "swap rename"} => marker
    /\ pc \in {"open", "finish"} => ~(marker /\ Exists(staged))
    /\ pc = "finish" => db.good

RestoreInv == FilesInv /\ BesideInv /\ PlaceInv

\* A step seen from afar: one of the abstract restore's, or none.
Mapped == Atomic!Next \/ UNCHANGED <<Live, Waiting>>

-----------------------------------------------------------------------------
(* Lemmas on databases and their logs.                                        *)

\* A database is a file that is there.
LEMMA DatabaseThere ==
    ASSUME NEW d, IsDatabase(d)
    PROVE  Exists(d)
  BY SMT DEF IsDatabase, Exists, NoFile, Kinds

\* Counting a database's commits anew leaves it the database it was.
LEMMA Recounted ==
    ASSUME NEW d, IsDatabase(d), NEW w \in Nat
    PROVE  /\ IsDatabase([d EXCEPT !.writes = w])
           /\ [d EXCEPT !.writes = w].base = d.base
           /\ [d EXCEPT !.writes = w].copy = d.copy
           /\ [d EXCEPT !.writes = w].kind = d.kind
           /\ [d EXCEPT !.writes = w].good = d.good
           /\ [d EXCEPT !.writes = w].writes = w
  BY SMT DEF IsDatabase

\* So does copying it (copy_database), ...
LEMMA CopyHoldsAll ==
    ASSUME NEW d, IsDatabase(d), NEW c \in Nat
    PROVE  IsDatabase([d EXCEPT !.copy = c]) /\ Same([d EXCEPT !.copy = c], d)
  BY SMT DEF IsDatabase, Same

\* ... changing its schema, ...
LEMMA Redrifted ==
    ASSUME NEW d, IsDatabase(d), NEW x
    PROVE  LET e == [d EXCEPT !.drift = x]
           IN  IsDatabase(e) /\ Same(e, d) /\ e.copy = d.copy
  BY SMT DEF IsDatabase, Same

\* ... and writing in its settings what became of a restore.
LEMMA Noted ==
    ASSUME NEW d, IsDatabase(d), NEW x
    PROVE  LET e == [d EXCEPT !.says = x]
           IN  IsDatabase(e) /\ Same(e, d) /\ e.copy = d.copy
  BY SMT DEF IsDatabase, Same

\* The commits of a database and of the log beside it are a number.
LEMMA CommitsCounted ==
    ASSUME RestoreInv
    PROVE  /\ Commits \in Nat
           /\ Exists(log) => Commits = db.writes + log.writes
           /\ ~Exists(log) => Commits = db.writes
  BY SMT DEF RestoreInv, FilesInv, BesideInv, IsDatabase, Logs, Commits, LogIsOf

\* What is folded in (SQLite's close) is the database with all its commits.
LEMMA FoldedWhole ==
    ASSUME RestoreInv
    PROVE  /\ IsDatabase(Folded)
           /\ Folded.base = db.base /\ Folded.copy = db.copy
           /\ Folded.kind = db.kind /\ Folded.good = db.good
           /\ Folded.writes = Commits
  BY CommitsCounted, Recounted DEF RestoreInv, FilesInv, Folded

\* What counts and what waits are read off five things.
LEMMA SeenTheSame ==
    ASSUME UNCHANGED <<db, log, staged, before, marker>>
    PROVE  UNCHANGED <<Live, Waiting>>
  BY Zenon DEF Live, Waiting, SwapPending, Content, Commits, LogIsOf, Exists

-----------------------------------------------------------------------------
(* The service at work, and its end.                                          *)

\* A commit goes to the database that counts.
LEMMA CommitStep ==
    ASSUME RestoreInv, Commit
    PROVE  RestoreInv' /\ Mapped
  <1> USE DEF RestoreInv
  <1>1. /\ pc = "serving" /\ ~marker /\ ~SwapPending /\ ~SwapPending'
        /\ UNCHANGED <<pc, db, staged, before, work, marker, restores, faults>>
    BY DEF Commit, Serving, PlaceInv, SwapPending
  <1>2. /\ log' = [base |-> db.base, copy |-> db.copy,
                   writes |-> 1 + (IF Exists(log) THEN log.writes ELSE 0)]
        /\ log' \in Logs /\ Exists(log') /\ LogIsOf(db)'
    BY <1>1, SMT DEF Commit, Serving, FilesInv, IsDatabase, Logs, LogIsOf, Exists, NoFile
  <1>3. RestoreInv'
    BY <1>1, <1>2 DEF FilesInv, BesideInv, PlaceInv, UndoFailed, Exists
  <1>4. Commits \in Nat /\ Commits' = Commits + 1
    BY <1>1, <1>2, <1>3, CommitsCounted, SMT DEF Commits, FilesInv, BesideInv, IsDatabase, Logs, LogIsOf
  <1>5. Live = Content(db, Commits) /\ Live' = Content(db, Commits')
    BY <1>1 DEF Live
  <1>6. Live' = [Live EXCEPT !.writes = @ + 1]
    BY <1>4, <1>5 DEF Content
  <1>7. UNCHANGED Waiting
    BY <1>1 DEF Waiting, Exists
  <1> QED
    BY <1>3, <1>6, <1>7 DEF Mapped, Atomic!Next, Atomic!Commit

\* SQLite folding the log in changes nothing that counts.
LEMMA FoldStep ==
    ASSUME RestoreInv, db' = Folded, log' = NoFile, ~marker,
           UNCHANGED <<staged, before, marker, restores, faults>>,
           work' \in {work, NoFile},
           \/ pc = "serving" /\ pc' \in {"serving", "down"}
           \/ pc = "copy" /\ pc' = "keep"
    PROVE  RestoreInv' /\ UNCHANGED <<Live, Waiting>>
  <1> USE DEF RestoreInv
  <1>1. FilesInv'
    BY FoldedWhole DEF FilesInv, Exists
  <1>2. RestoreInv'
    BY <1>1 DEF BesideInv, PlaceInv, Exists
  <1>3. Commits' = Commits
    BY <1>2, FoldedWhole, CommitsCounted DEF Commits, LogIsOf, Exists
  <1>4. Live = Content(db, Commits) /\ Live' = Content(Folded, Commits)
    BY <1>3 DEF Live, SwapPending
  <1>5. Live' = Live
    BY <1>4, FoldedWhole DEF Content
  <1>6. UNCHANGED Waiting
    BY DEF Waiting, SwapPending, Exists
  <1> QED
    BY <1>2, <1>5, <1>6

\* Whatever is staged takes the place of what waited.
LEMMA StageStep ==
    ASSUME RestoreInv, pc = "serving", IsDatabase(staged'), restores' \in Nat,
           work' \in {work, NoFile},
           UNCHANGED <<pc, db, log, before, marker, faults>>
    PROVE  RestoreInv' /\ Mapped
  <1> USE DEF RestoreInv
  <1>1. ~marker /\ Exists(staged') /\ UNCHANGED Commits
    BY DatabaseThere DEF PlaceInv, Commits, LogIsOf, Exists
  <1>2. RestoreInv'
    BY <1>1 DEF FilesInv, BesideInv, PlaceInv, LogIsOf, Exists
  <1>3. UNCHANGED Live
    BY <1>1 DEF Live, SwapPending
  <1>4. Waiting' = Content(staged, staged.writes)'
    BY <1>1 DEF Waiting, Exists
  <1>5. Waiting' # Atomic!NoFile
    BY <1>4, SMT DEF Content, Atomic!NoFile, IsDatabase, Kinds
  <1> QED
    BY <1>2, <1>3, <1>5 DEF Mapped, Atomic!Next, Atomic!Stage

\* A checked upload, as post_restore_apply stages it.
LEMMA SnapshotStep ==
    ASSUME RestoreInv, StageSnapshot
    PROVE  RestoreInv' /\ Mapped
  <1>1. PICK good \in BOOLEAN, v \in Versions :
            staged' = [base |-> restores', copy |-> 0, kind |-> "snapshot", writes |-> 0,
                       good |-> good, drift |-> Drift(v), says |-> Nothing]
    BY DEF StageSnapshot, Serving
  <1>2. restores' \in Nat
    BY DEF StageSnapshot, Serving, RestoreInv, FilesInv
  <1> DEFINE drift == Drift(v)
  <1>3. staged' = [base |-> restores', copy |-> 0, kind |-> "snapshot", writes |-> 0,
                   good |-> good, drift |-> drift, says |-> Nothing]
    BY <1>1
  <1> HIDE DEF drift
  <1>4. IsDatabase(staged')
    BY <1>2, <1>3, SMT DEF IsDatabase, Kinds
  <1> QED
    BY <1>2, <1>4, StageStep DEF StageSnapshot, Serving

\* The copy an import works on is a database, and no file a start looks at.
LEMMA ImportCopyStep ==
    ASSUME RestoreInv, CopyForImport
    PROVE  RestoreInv' /\ UNCHANGED <<Live, Waiting>>
  <1>1. PICK good \in BOOLEAN :
            work' = [base |-> restores', copy |-> 0, kind |-> "import", writes |-> 0,
                     good |-> good, drift |-> db.drift, says |-> db.says]
    BY DEF CopyForImport, Serving
  <1>2. /\ restores' \in Nat /\ pc = "serving"
        /\ UNCHANGED <<pc, db, log, staged, before, marker, faults>>
    BY DEF CopyForImport, Serving, RestoreInv, FilesInv
  <1>3. IsDatabase(work')
    BY <1>1, <1>2, SMT DEF IsDatabase, Kinds
  <1>4. RestoreInv'
    BY <1>2, <1>3 DEF RestoreInv, FilesInv, BesideInv, PlaceInv, LogIsOf, Exists
  <1> QED
    BY <1>2, <1>4, SeenTheSame

\* Everything the service does while it serves, and its clean end.
LEMMA ServiceStep ==
    ASSUME RestoreInv,
           \/ Commit \/ Fold
           \/ StageSnapshot \/ CopyForImport \/ SetReason \/ StageImport
           \/ Stop
    PROVE  RestoreInv' /\ Mapped
  <1>1. pc = "serving" => ~marker
    BY DEF RestoreInv, PlaceInv
  <1>2. CASE Commit
    BY <1>2, CommitStep
  <1>3. CASE Fold
    BY <1>1, <1>3, FoldStep DEF Fold, Serving, Mapped
  <1>4. CASE StageSnapshot
    BY <1>4, SnapshotStep
  <1>5. CASE CopyForImport
    BY <1>5, ImportCopyStep DEF Mapped
  <1>6. CASE SetReason
    <2>1. UNCHANGED <<pc, db, log, staged, before, work, marker, restores, faults>>
      BY <1>6 DEF SetReason, Serving
    <2>2. RestoreInv'
      BY <2>1 DEF RestoreInv, FilesInv, BesideInv, PlaceInv, LogIsOf, Exists, UndoFailed
    <2> QED
      BY <2>1, <2>2, SeenTheSame DEF Mapped
  <1>7. CASE StageImport
    <2>1. IsDatabase(staged') /\ restores' \in Nat
      BY <1>7 DEF StageImport, Serving, RestoreInv, FilesInv
    <2> QED
      BY <1>7, <2>1, StageStep DEF StageImport, Serving
  <1>8. CASE Stop
    BY <1>1, <1>8, FoldStep DEF Stop, Goto, Mapped
  <1> QED
    BY <1>2, <1>3, <1>4, <1>5, <1>6, <1>7, <1>8

-----------------------------------------------------------------------------
(* A start, before the database is opened.                                    *)

\* The place a start goes to is read off the files (apply_staged_restore_at).
LEMMA StartStep ==
    ASSUME RestoreInv, Start
    PROVE  RestoreInv' /\ UNCHANGED <<Live, Waiting>>
  <1>1. UNCHANGED <<db, log, staged, before, work, marker, restores, faults>>
    BY DEF Start, files
  <1>2. FilesInv' /\ BesideInv'
    BY <1>1 DEF RestoreInv, FilesInv, BesideInv, LogIsOf, Exists
  <1>3. /\ UNCHANGED <<Exists(staged), Exists(before), UndoFailed, Same(before, db)>>
        /\ marker \in BOOLEAN
    BY <1>1 DEF Exists, UndoFailed, Same, RestoreInv, FilesInv
  <1>4. \/ marker /\ ~Exists(staged) /\ Exists(before) /\ pc' = "undo log"
        \/ marker /\ ~Exists(staged) /\ ~Exists(before) /\ pc' = "undo marker"
        \/ ~marker /\ ~Exists(staged) /\ pc' = "open"
        \/ ~marker /\ Exists(staged) /\ pc' = "copy"
        \/ marker /\ Exists(staged) /\ pc' = "swap log"
    BY <1>3 DEF Start
  <1>5. PlaceInv'
    BY <1>1, <1>3, <1>4 DEF PlaceInv
  <1> QED
    BY <1>1, <1>2, <1>5, SeenTheSame DEF RestoreInv

\* A death leaves the files as they are, and asks nothing of the next start.
LEMMA CrashStep ==
    ASSUME RestoreInv, Crash
    PROVE  RestoreInv' /\ UNCHANGED <<Live, Waiting>>
  <1>1. /\ UNCHANGED <<db, log, staged, before, marker, restores, faults>>
        /\ pc' = "down" /\ work' = NoFile
    BY DEF Crash, files
  <1>2. RestoreInv'
    BY <1>1 DEF RestoreInv, FilesInv, BesideInv, PlaceInv, LogIsOf, Exists
  <1> QED
    BY <1>1, <1>2, SeenTheSame

\* The log of a database that is put back, or replaced, is of no use to it: it
\* counts only by what was put aside.
LEMMA LogRemoved ==
    ASSUME RestoreInv, UndoRemoveLog \/ SwapRemoveLog
    PROVE  RestoreInv' /\ UNCHANGED <<Live, Waiting>>
  <1>1. /\ UNCHANGED <<db, staged, before, work, marker, restores, faults>>
        /\ log' = NoFile
        /\ \/ pc = "undo log" /\ pc' = "undo rename"
           \/ pc = "swap log" /\ pc' = "swap rename"
    BY DEF UndoRemoveLog, SwapRemoveLog, Step, Goto
  <1>2. UNCHANGED <<Exists(staged), Exists(before), SwapPending>>
    BY <1>1 DEF Exists, SwapPending
  <1>3. SwapPending
    BY <1>1 DEF RestoreInv, BesideInv, PlaceInv, SwapPending
  <1>4. RestoreInv'
    BY <1>1, <1>2 DEF RestoreInv, FilesInv, BesideInv, PlaceInv, Exists
  <1>5. UNCHANGED <<Live, Waiting>>
    BY <1>1, <1>2, <1>3 DEF Live, Waiting
  <1> QED
    BY <1>4, <1>5

\* The rename back: the one put aside, with every commit, is the one in use, and
\* nothing waits any more.
LEMMA UndoRenameStep ==
    ASSUME RestoreInv, UndoRename
    PROVE  RestoreInv' /\ Mapped
  <1>1. /\ UNCHANGED <<log, staged, work, marker, restores, faults>>
        /\ db' = before /\ before' = NoFile
        /\ pc = "undo rename" /\ pc' = "undo outcome"
    BY DEF UndoRename, Step, Goto
  <1>2. marker /\ ~Exists(staged) /\ Exists(before) /\ log = NoFile
    BY <1>1 DEF RestoreInv, PlaceInv
  <1>3. ~Exists(staged') /\ ~Exists(before') /\ ~Exists(log') /\ ~SwapPending'
    BY <1>1, <1>2 DEF Exists, SwapPending
  <1>4. RestoreInv'
    BY <1>1, <1>2, <1>3 DEF RestoreInv, FilesInv, BesideInv, PlaceInv, Exists
  <1>5. Live = Content(before, before.writes)
    BY <1>2 DEF Live, SwapPending
  <1>6. Commits' = before.writes
    <2>1. before.writes \in Nat
      BY <1>2 DEF RestoreInv, FilesInv, IsDatabase
    <2>2. Commits' = before.writes + 0
      BY <1>1, <1>2 DEF Commits, LogIsOf, Exists
    <2> QED
      BY <2>1, <2>2
  <1>7. Live' = Content(before, before.writes)
    BY <1>1, <1>3, <1>6 DEF Live, Content
  <1>8. Waiting' = NoFile
    BY <1>3 DEF Waiting
  <1> QED
    BY <1>4, <1>5, <1>7, <1>8 DEF Mapped, Atomic!Next, Atomic!Undone, Atomic!NoFile, NoFile

\* What is said of it, for the page.
LEMMA UndoOutcomeStep ==
    ASSUME RestoreInv, UndoOutcome
    PROVE  RestoreInv' /\ UNCHANGED <<Live, Waiting>>
  <1>1. /\ UNCHANGED <<db, log, staged, before, work, marker, restores, faults>>
        /\ pc = "undo outcome" /\ pc' = "undo marker"
    BY DEF UndoOutcome, Step, Goto
  <1>2. RestoreInv'
    BY <1>1 DEF RestoreInv, FilesInv, BesideInv, PlaceInv, LogIsOf, Exists
  <1> QED
    BY <1>1, <1>2, SeenTheSame

\* The marker goes when nothing is put aside any more, or when what is put aside
\* is what is in use; unless the rename back has failed.
LEMMA UndoMarkerStep ==
    ASSUME RestoreInv, UndoRemoveMarker
    PROVE  RestoreInv' /\ (UndoFailed' \/ UNCHANGED <<Live, Waiting>>)
  <1>1. /\ UNCHANGED <<db, log, staged, before, work, restores, faults>>
        /\ marker' = FALSE
        /\ pc = "undo marker" /\ pc' = "open"
    BY DEF UndoRemoveMarker, Step, Goto
  <1>2. RestoreInv'
    BY <1>1 DEF RestoreInv, FilesInv, BesideInv, PlaceInv, LogIsOf, Exists
  <1>3. ~SwapPending' /\ UNCHANGED <<Commits, Exists(staged), Exists(before), UndoFailed>>
    BY <1>1 DEF SwapPending, Commits, LogIsOf, Exists, UndoFailed
  <1>4. UndoFailed \/ ~Exists(before) \/ Exists(staged)
    BY <1>1 DEF RestoreInv, PlaceInv
  <1>5. CASE UndoFailed
    BY <1>2, <1>3, <1>5
  <1>6. CASE ~SwapPending
    <2>1. UNCHANGED <<Live, Waiting>>
      BY <1>1, <1>3, <1>6 DEF Live, Waiting, Content
    <2> QED
      BY <1>2, <2>1
  <1>7. CASE SwapPending /\ Exists(staged)
    <2>1. Same(before, db) /\ log = NoFile
      BY <1>7 DEF SwapPending, RestoreInv, BesideInv
    <2>2. Commits = db.writes
      BY <2>1, CommitsCounted DEF Exists
    <2>3. Content(before, before.writes) = Content(db, Commits)
      BY <2>1, <2>2 DEF Same, Content
    <2>4. UNCHANGED Live
      BY <1>1, <1>3, <1>7, <2>3 DEF Live, Content
    <2>5. UNCHANGED Waiting
      BY <1>1, <1>3, <1>7 DEF Waiting, Content
    <2> QED
      BY <1>2, <2>4, <2>5
  <1> QED
    BY <1>4, <1>5, <1>6, <1>7 DEF SwapPending

\* The way back is kept before the marker says that there is one.
LEMMA KeepStep ==
    ASSUME RestoreInv, KeepCopy
    PROVE  RestoreInv' /\ UNCHANGED <<Live, Waiting>>
  <1>1. /\ UNCHANGED <<db, log, staged, work, marker, restores, faults>>
        /\ before' = [db EXCEPT !.copy = @ + 1]
        /\ pc = "keep" /\ pc' = "mark"
    BY DEF KeepCopy, Step, Goto
  <1>2. ~marker /\ log = NoFile /\ Exists(staged)
    BY <1>1 DEF RestoreInv, PlaceInv
  <1>3. IsDatabase(before') /\ Same(before', db) /\ Exists(before')
    BY <1>1, CopyHoldsAll, DatabaseThere DEF RestoreInv, FilesInv, IsDatabase
  <1>4. RestoreInv'
    BY <1>1, <1>2, <1>3 DEF RestoreInv, FilesInv, BesideInv, PlaceInv, Exists, Same
  <1>5. UNCHANGED <<Live, Waiting>>
    BY <1>1, <1>2 DEF Live, Waiting, SwapPending, Content, Commits, LogIsOf, Exists
  <1> QED
    BY <1>4, <1>5

\* Without a way back the staged database is given up.
LEMMA RefuseStep ==
    ASSUME RestoreInv, RefuseStaged
    PROVE  RestoreInv' /\ Mapped
  <1>1. /\ UNCHANGED <<db, log, before, work, marker, restores, faults>>
        /\ staged' = NoFile
        /\ pc = "refuse" /\ pc' = "open"
    BY DEF RefuseStaged, Step, Goto
  <1>2. ~marker /\ ~SwapPending /\ ~SwapPending' /\ ~Exists(staged')
    BY <1>1 DEF RestoreInv, PlaceInv, SwapPending, Exists
  <1>3. RestoreInv'
    BY <1>1, <1>2 DEF RestoreInv, FilesInv, BesideInv, PlaceInv, LogIsOf, Exists
  <1>4. UNCHANGED Live
    BY <1>1, <1>2 DEF Live, Content, Commits, LogIsOf, Exists
  <1>5. Waiting' = NoFile
    BY <1>2 DEF Waiting
  <1> QED
    BY <1>3, <1>4, <1>5 DEF Mapped, Atomic!Next, Atomic!Undone, Atomic!NoFile, NoFile

\* The marker: from here on the copy put aside counts, and it is the same.
LEMMA MarkStep ==
    ASSUME RestoreInv, WriteMarker
    PROVE  RestoreInv' /\ UNCHANGED <<Live, Waiting>>
  <1>1. /\ UNCHANGED <<db, log, staged, before, work, restores, faults>>
        /\ marker' = TRUE
        /\ pc = "mark" /\ pc' = "swap log"
    BY DEF WriteMarker, Step, Goto
  <1>2. ~marker /\ log = NoFile /\ Exists(staged) /\ Exists(before) /\ Same(before, db)
    BY <1>1 DEF RestoreInv, PlaceInv
  <1>3. RestoreInv'
    BY <1>1, <1>2 DEF RestoreInv, FilesInv, BesideInv, PlaceInv, Exists, Same
  <1>4. Commits = db.writes
    BY <1>2, CommitsCounted DEF Exists
  <1>5. Content(before, before.writes) = Content(db, Commits)
    BY <1>2, <1>4 DEF Same, Content
  <1>6. ~SwapPending /\ SwapPending'
    BY <1>1, <1>2 DEF SwapPending, Exists
  <1>7. UNCHANGED Live
    BY <1>1, <1>5, <1>6 DEF Live, Content
  <1>8. UNCHANGED Waiting
    BY <1>1, <1>2, <1>6 DEF Waiting, Content, Exists
  <1> QED
    BY <1>3, <1>7, <1>8

\* The rename over the database: the one put aside still counts, and the one that
\* waited is in its place.
LEMMA SwapStep ==
    ASSUME RestoreInv, SwapRename
    PROVE  RestoreInv' /\ UNCHANGED <<Live, Waiting>>
  <1>1. /\ UNCHANGED <<log, before, work, marker, restores, faults>>
        /\ db' = staged /\ staged' = NoFile
        /\ pc = "swap rename" /\ pc' = "open"
    BY DEF SwapRename, Step, Goto
  <1>2. marker /\ Exists(staged) /\ Exists(before) /\ log = NoFile
    BY <1>1 DEF RestoreInv, PlaceInv, BesideInv
  <1>3. SwapPending /\ SwapPending' /\ ~Exists(staged')
    BY <1>1, <1>2 DEF SwapPending, Exists
  <1>4. RestoreInv'
    BY <1>1, <1>2, <1>3 DEF RestoreInv, FilesInv, BesideInv, PlaceInv, Exists
  <1>5. UNCHANGED <<Live, Waiting>>
    BY <1>1, <1>2, <1>3 DEF Live, Waiting, Content
  <1> QED
    BY <1>4, <1>5

\* An operation that fails leaves the files as they were; only of a rename back
\* does it matter that it did.
LEMMA FaultStep ==
    ASSUME RestoreInv, Fault
    PROVE  RestoreInv' /\ UNCHANGED <<Live, Waiting>>
  <1>1. PICK o \in Faults : faults' = Append(faults, o) /\ (UndoRenameFails => o = "undo")
    BY DEF Fault, UndoRenameFails, KeepFails, MarkFails, SwapFails, MayFail
  <1>2. /\ UNCHANGED <<db, log, staged, before, work, marker, restores>>
        /\ \/ UndoRenameFails /\ pc = "undo rename" /\ pc' = "undo marker"
           \/ pc = "keep" /\ pc' = "refuse"
           \/ pc = "mark" /\ pc' = "open"
           \/ pc = "swap rename" /\ pc' = "undo marker"
    BY DEF Fault, UndoRenameFails, KeepFails, MarkFails, SwapFails, Goto, files
  <1>3. faults \in Seq(Faults)
    BY DEF RestoreInv, FilesInv
  <1>4. faults' \in Seq(Faults) /\ (UndoRenameFails => UndoFailed')
    <2>1. /\ faults' \in Seq(Faults)
          /\ Len(faults) \in Nat
          /\ Len(faults') = Len(faults) + 1
          /\ faults'[Len(faults) + 1] = o
      BY <1>1, <1>3, AppendProperties, LenProperties
    <2>2. Len(faults) + 1 \in 1 .. Len(faults')
      BY <2>1
    <2> QED
      BY <1>1, <2>1, <2>2 DEF UndoFailed
  <1>5. FilesInv' /\ BesideInv'
    BY <1>2, <1>4 DEF RestoreInv, FilesInv, BesideInv, LogIsOf, Exists
  <1>6. PlaceInv'
    BY <1>2, <1>4 DEF RestoreInv, PlaceInv, Exists
  <1> QED
    BY <1>2, <1>5, <1>6, SeenTheSame DEF RestoreInv

-----------------------------------------------------------------------------
(* Opening the database, and what is said of the restore.                     *)

\* Opening a database puts a log beside it that holds nothing yet, and neither a
\* migration nor a panic takes a commit away (db::init).
LEMMA OpenedStep ==
    ASSUME RestoreInv, Opened, pc = "open", pc' \in {"open", "finish", "down"},
           IsDatabase(db'), Same(db', db), db'.copy = db.copy,
           pc' = "finish" => db'.good,
           UNCHANGED <<staged, before, work, marker, restores, faults>>
    PROVE  RestoreInv' /\ UNCHANGED <<Live, Waiting>>
  <1>1. UNCHANGED <<Exists(staged), Exists(before), SwapPending>>
    BY DEF Exists, SwapPending
  <1>2. ~(marker /\ Exists(staged))
    BY DEF RestoreInv, PlaceInv
  <1>3. /\ log' \in Logs /\ LogIsOf(db)'
        /\ log'.writes = IF Exists(log) THEN log.writes ELSE 0
    <2>1. CASE Exists(log)
      BY <2>1 DEF Opened, RestoreInv, BesideInv, FilesInv, LogIsOf, Same, Exists
    <2>2. CASE ~Exists(log)
      <3>1. log' = [base |-> db.base, copy |-> db.copy, writes |-> 0]
        BY <2>2 DEF Opened
      <3>2. log' \in Logs /\ Exists(log')
        BY <3>1, SMT DEF RestoreInv, FilesInv, IsDatabase, Logs, Exists, NoFile
      <3> QED
        BY <2>2, <3>1, <3>2 DEF LogIsOf, Same, Exists
    <2> QED
      BY <2>1, <2>2
  <1>4. RestoreInv'
    <2>1. FilesInv'
      BY <1>3 DEF RestoreInv, FilesInv, Exists
    <2>2. BesideInv'
      BY <1>1, <1>2, <1>3 DEF RestoreInv, BesideInv, Exists
    <2>3. PlaceInv'
      BY <1>1, <1>2 DEF RestoreInv, PlaceInv
    <2> QED
      BY <2>1, <2>2, <2>3 DEF RestoreInv
  <1>5. Commits' = Commits
    <2>1. Commits = db.writes + (IF Exists(log) THEN log.writes ELSE 0)
      BY DEF Commits, RestoreInv, BesideInv, LogIsOf
    <2>2. Commits' = db'.writes + log'.writes
      BY <1>3 DEF Commits
    <2> QED
      BY <1>3, <2>1, <2>2 DEF Same
  <1>6. Content(db, Commits)' = Content(db, Commits) /\ Content(db, db.writes)' = Content(db, db.writes)
    BY <1>5 DEF Content, Same
  <1>7. UNCHANGED Live
    BY <1>1, <1>6 DEF Live, Content
  <1>8. UNCHANGED Waiting
    BY <1>1, <1>6 DEF Waiting, Content
  <1> QED
    BY <1>4, <1>7, <1>8

\* A statement of a migration, all of them done, or a start that panics.
LEMMA OpenStep ==
    ASSUME RestoreInv, Migrate \/ OpenAndMigrate \/ OpenPanics
    PROVE  RestoreInv' /\ UNCHANGED <<Live, Waiting>>
  <1>1. IsDatabase(db) /\ Same(db, db)
    BY DEF RestoreInv, FilesInv, Same
  <1>2. CASE Migrate
    <2>1. PICK next : db' = [db EXCEPT !.drift = Differ(Newest, Applied(StatementAt(next), Schema(db)))]
      BY <1>2 DEF Migrate
    <2> DEFINE x == Differ(Newest, Applied(StatementAt(next), Schema(db)))
    <2>2. db' = [db EXCEPT !.drift = x]
      BY <2>1
    <2> HIDE DEF x
    <2>3. IsDatabase(db') /\ Same(db', db) /\ db'.copy = db.copy
      BY <1>1, <2>2, Redrifted
    <2> QED
      BY <1>2, <2>3, OpenedStep DEF Migrate
  <1>3. CASE OpenAndMigrate
    BY <1>1, <1>3, OpenedStep DEF OpenAndMigrate, Step, Goto
  <1>4. CASE OpenPanics
    BY <1>1, <1>4, OpenedStep DEF OpenPanics, Step, Goto
  <1> QED
    BY <1>2, <1>3, <1>4

\* The marker goes once the new database is open: this is where it comes to count.
LEMMA RemoveMarkerStep ==
    ASSUME RestoreInv, RemoveMarker
    PROVE  RestoreInv' /\ Mapped
  <1>1. /\ UNCHANGED <<db, log, staged, before, work, restores, faults>>
        /\ marker /\ marker' = FALSE
        /\ pc = "finish" /\ pc' = "finish outcome"
    BY DEF RemoveMarker, Step, Goto
  <1>2. ~Exists(staged) /\ db.good /\ IsDatabase(db)
    BY <1>1 DEF RestoreInv, FilesInv, PlaceInv
  <1>3. RestoreInv'
    BY <1>1, <1>2 DEF RestoreInv, FilesInv, BesideInv, PlaceInv, LogIsOf, Exists
  <1>4. /\ ~SwapPending' /\ ~Exists(staged')
        /\ Live' = Content(db, Commits) /\ Waiting' = NoFile
    BY <1>1, <1>2 DEF Live, Waiting, SwapPending, Content, Commits, LogIsOf, Exists
  <1>5. CASE ~Exists(before)
    BY <1>2, <1>3, <1>4, <1>5 DEF Mapped, Live, Waiting, SwapPending
  <1>6. CASE Exists(before)
    <2>1. Commits = db.writes
      <3>1. Exists(log) => log.writes = 0
        BY <1>1, <1>6 DEF RestoreInv, BesideInv
      <3>2. db.writes \in Nat
        BY <1>2 DEF IsDatabase
      <3> QED
        BY <3>1, <3>2, CommitsCounted
    <2>2. Waiting = Content(db, db.writes)
      BY <1>1, <1>2, <1>6 DEF Waiting, SwapPending
    <2>3. Waiting # NoFile /\ Waiting.good
      BY <1>2, <2>2, SMT DEF Content, IsDatabase, Kinds, NoFile
    <2> QED
      BY <1>3, <1>4, <2>1, <2>2, <2>3 DEF Mapped, Atomic!Next, Atomic!Works, Atomic!NoFile, NoFile
  <1> QED
    BY <1>5, <1>6

\* What is left of a start says what became of the restore (finish_restore).
LEMMA FinishStep ==
    ASSUME RestoreInv, WriteOutcome \/ NothingPending \/ Record
    PROVE  RestoreInv' /\ UNCHANGED <<Live, Waiting>>
  <1>1. /\ UNCHANGED <<log, staged, before, work, marker, restores, faults>>
        /\ IsDatabase(db') /\ Same(db', db) /\ db'.copy = db.copy
        /\ \/ pc = "finish outcome" /\ pc' = "record"
           \/ pc = "finish" /\ pc' = "record" /\ ~marker
           \/ pc = "record" /\ pc' = "serving"
    <2>1. IsDatabase(db) /\ Same(db, db)
      BY DEF RestoreInv, FilesInv, Same
    <2>2. CASE WriteOutcome \/ NothingPending
      BY <2>1, <2>2 DEF WriteOutcome, NothingPending, Step, Goto, files
    <2>3. CASE Record
      <3>1. db' = db \/ db' = [db EXCEPT !.says = outcome]
        BY <2>3 DEF Record, Step
      <3> QED
        BY <2>1, <2>3, <3>1, Noted DEF Record, Step, Goto
    <2> QED
      BY <2>2, <2>3
  <1>2. ~marker /\ ~SwapPending
    BY <1>1 DEF RestoreInv, PlaceInv, SwapPending
  <1>3. UNCHANGED <<Exists(log), Exists(staged), Exists(before), LogIsOf(db), SwapPending>>
    BY <1>1 DEF Exists, LogIsOf, Same, SwapPending
  <1>4. RestoreInv'
    BY <1>1, <1>2, <1>3 DEF RestoreInv, FilesInv, BesideInv, PlaceInv, Exists
  <1>5. Commits' = Commits
    BY <1>1, <1>3 DEF Commits, Same
  <1>6. UNCHANGED <<Live, Waiting>>
    BY <1>1, <1>2, <1>3, <1>5 DEF Live, Waiting, Content, Same
  <1> QED
    BY <1>4, <1>6

-----------------------------------------------------------------------------
(* The theorems.                                                              *)

\* Whatever happens, the files are in order.
LEMMA RestoreStart == Init => RestoreInv
  <1> SUFFICES ASSUME Init
               PROVE  RestoreInv
    OBVIOUS
  <1> DEFINE drift == Drift(Installed)
  <1>1. db = [base |-> 0, copy |-> 0, kind |-> "original", writes |-> 0, good |-> TRUE,
              drift |-> drift, says |-> Nothing]
    BY DEF Init, Original
  <1> HIDE DEF drift
  <1>2. IsDatabase(db)
    BY <1>1, SMT DEF IsDatabase, Kinds
  <1>3. /\ log = NoFile /\ staged = NoFile /\ before = NoFile /\ work = NoFile
        /\ marker = FALSE /\ restores = 0 /\ faults = <<>>
        /\ pc \in {"serving", "down"}
    BY DEF Init
  <1>4. <<>> \in Seq(Faults)
    OBVIOUS
  <1> QED
    BY <1>2, <1>3, <1>4 DEF RestoreInv, FilesInv, BesideInv, PlaceInv, Exists

\* One step, of the service, a start, or a failure.
LEMMA RestoreStep ==
    ASSUME RestoreInv, [Next]_vars
    PROVE  RestoreInv' /\ (UndoFailed' \/ Mapped)
  <1>1. CASE Commit \/ Fold \/ StageSnapshot \/ CopyForImport \/ SetReason \/ StageImport \/ Stop
    BY <1>1, ServiceStep
  <1>2. CASE Crash
    BY <1>2, CrashStep DEF Mapped
  <1>3. CASE StartUp
    <2>1. pc = "copy" => ~marker
      BY DEF RestoreInv, PlaceInv
    <2>2. CASE Start
      BY <2>2, StartStep DEF Mapped
    <2>3. CASE UndoRemoveLog \/ SwapRemoveLog
      BY <2>3, LogRemoved DEF Mapped
    <2>4. CASE UndoRename
      BY <2>4, UndoRenameStep
    <2>5. CASE UndoOutcome
      BY <2>5, UndoOutcomeStep DEF Mapped
    <2>6. CASE UndoRemoveMarker
      BY <2>6, UndoMarkerStep DEF Mapped
    <2>7. CASE CopyCurrent
      BY <2>1, <2>7, FoldStep DEF CopyCurrent, Step, Goto, Mapped
    <2>8. CASE KeepCopy
      BY <2>8, KeepStep DEF Mapped
    <2>9. CASE RefuseStaged
      BY <2>9, RefuseStep
    <2>10. CASE WriteMarker
      BY <2>10, MarkStep DEF Mapped
    <2>11. CASE SwapRename
      BY <2>11, SwapStep DEF Mapped
    <2>12. CASE Migrate \/ OpenAndMigrate \/ OpenPanics
      BY <2>12, OpenStep DEF Mapped
    <2>13. CASE RemoveMarker
      BY <2>13, RemoveMarkerStep
    <2>14. CASE WriteOutcome \/ NothingPending \/ Record
      BY <2>14, FinishStep DEF Mapped
    <2> QED
      BY <1>3, <2>2, <2>3, <2>4, <2>5, <2>6, <2>7, <2>8, <2>9, <2>10, <2>11, <2>12, <2>13, <2>14
         DEF StartUp
  <1>4. CASE Fault
    BY <1>4, FaultStep DEF Mapped
  <1>5. CASE UNCHANGED vars
    <2>1. UNCHANGED <<db, log, staged, before, work, marker, restores, faults, pc>>
      BY <1>5 DEF vars, files
    <2>2. RestoreInv'
      BY <2>1 DEF RestoreInv, FilesInv, BesideInv, PlaceInv, LogIsOf, Exists, UndoFailed
    <2> QED
      BY <2>1, <2>2, SeenTheSame DEF Mapped
  <1> QED
    BY <1>1, <1>2, <1>3, <1>4, <1>5 DEF Next

\* At every step of every start the files are in order: a marker stands for a way
\* back, and a log for the database beside it (backup.rs, "The order of that swap is
\* the whole design").
THEOREM RestoreKnown == Spec => []RestoreInv
  BY RestoreStart, RestoreStep, PTL DEF Spec

\* A restore either works or undoes itself, whole and with every commit, wherever
\* it is cut off and whichever operation fails, up to a rename back that does:
\* Restore implements AtomicRestore (docs/backup.md, apply_staged_restore_at and
\* finish_restore).
THEOREM WorksOrUndoesItself == Spec => EitherWorksOrUndoesItself
  <1>1. Init => Atomic!Init
    <2> SUFFICES ASSUME Init
                 PROVE  Atomic!Init
      OBVIOUS
    <2>1. ~SwapPending /\ ~Exists(staged) /\ ~Exists(log) /\ db = Original
      BY DEF Init, SwapPending, Exists
    <2>2. Original.writes = 0
      BY DEF Original
    <2>3. Commits = 0
      BY <2>1, <2>2 DEF Commits, LogIsOf
    <2> QED
      BY <2>1, <2>3 DEF Atomic!Init, Live, Waiting, Atomic!NoFile, NoFile
  <1>2. RestoreInv /\ [Next]_vars => [UndoFailed' \/ Atomic!Next]_<<Live, Waiting>>
    BY RestoreStep DEF Mapped
  <1> QED
    BY <1>1, <1>2, RestoreKnown, PTL DEF Spec, EitherWorksOrUndoesItself

\* Where a rename back cannot fail, it does so always (AlwaysAtomic): nothing else
\* in the code stands between the two.
THEOREM AtomicIfUndoingWorks == "undo" \notin Faults /\ Spec => AlwaysAtomic
  <1> SUFFICES ASSUME "undo" \notin Faults
               PROVE  Spec => AlwaysAtomic
    OBVIOUS
  <1>1. RestoreInv => ~UndoFailed
    BY DEF RestoreInv, FilesInv, UndoFailed
  <1>2. RestoreInv' => ~UndoFailed'
    BY DEF RestoreInv, FilesInv, UndoFailed
  <1>3. RestoreInv /\ RestoreInv' /\ [UndoFailed' \/ Atomic!Next]_<<Live, Waiting>>
        => [Atomic!Next]_<<Live, Waiting>>
    BY <1>2
  <1> QED
    BY <1>3, RestoreKnown, WorksOrUndoesItself, PTL
       DEF EitherWorksOrUndoesItself, AlwaysAtomic, Atomic!Spec, Atomic!vars

\* No database is opened, and none is used, with another one's log beside it
\* (apply_staged_restore_at removes the log before each rename).
THEOREM NeverAnothersLog == Spec => []NoForeignLog
  <1>1. RestoreInv => NoForeignLog
    BY DEF RestoreInv, BesideInv, NoForeignLog
  <1> QED
    BY <1>1, RestoreKnown, PTL

-----------------------------------------------------------------------------
(* What is served has this version's schema.  A start that is not cut off goes *)
(* the way that the migrations lead from the version its database is of        *)
(* (Leads), and one that is cut off is undone before anything is served.       *)

\* The database is one that was swapped in, and has not come up yet.
SwappedIn == marker /\ ~Exists(staged) /\ Exists(before)

\* It is somewhere on the way from a version's schema.
OnWay == \E v \in 1 .. Latest : <<Schema(db), at>> \in Way(v)

\* What can go back, or is copied, has this version's schema, and so has the
\* database but for one that was swapped in; the start of that one is on its way.
DriftInv ==
    /\ Exists(before) => before.drift = {}
    /\ Exists(work) => work.drift = {}
    /\ Exists(staged) => \E v \in 1 .. Latest : staged.drift = Drift(v)
    /\ SwappedIn \/ db.drift = {}
    /\ at = Beginning \/ (pc = "open" /\ SwappedIn)
    /\ pc = "open" => OnWay
    /\ pc \in {"finish", "finish outcome", "record", "serving"} => db.drift = {}

WholeInv == UndoFailed \/ DriftInv

\* What differs from what differs is there again.
LEMMA DifferTwice ==
    ASSUME NEW a, NEW b
    PROVE  /\ Differ(a, Differ(a, b)) = b
           /\ Differ(a, a) = {}
           /\ Differ(a, b) = a => b = {}
  BY Zenon DEF Differ

\* This version's schema is no drift, and where a way starts.
LEMMA NoDrift ==
    /\ Drift(Latest) = {} /\ Differ(Newest, {}) = Newest
    /\ Latest \in 1 .. Latest
    /\ <<Newest, Beginning>> \in Way(Latest)
  <1>1. Latest \in 1 .. Latest
    BY SMT DEF Latest, Numbered
  <1>2. Newest = SchemaOf(Latest)
    BY DEF Newest
  <1>3. <<Newest, Beginning>> \in Way(Latest)
    BY <1>1, <1>2, MigrationsAssumption DEF Leads
  <1>4. Drift(Latest) = {}
    BY <1>2, DifferTwice DEF Drift
  <1> QED
    BY <1>1, <1>3, <1>4, Zenon DEF Differ

\* A database of any version is at the start of a way, and this version's is.
LEMMA AtTheStart ==
    ASSUME NEW d, NEW v \in 1 .. Latest, d.drift = Drift(v)
    PROVE  <<Schema(d), Beginning>> \in Way(v)
  <1>1. Schema(d) = SchemaOf(v)
    BY DifferTwice DEF Schema, Drift
  <1> QED
    BY <1>1, MigrationsAssumption DEF Leads

\* From anywhere on a way the next statement leads on, and the last to the end.
LEMMA WayGoesOn ==
    ASSUME NEW v \in 1 .. Latest, NEW schema, NEW a, <<schema, a>> \in Way(v),
           NEW next, next = NextTelling(schema, a)
    PROVE  IF next = Finished THEN schema = Newest
           ELSE <<Applied(StatementAt(next), schema), Past(next)>> \in Way(v)
  <1>1. Leads(v)
    BY MigrationsAssumption
  <1>2. \A place \in Way(v) : \E n \in {NextTelling(place[1], place[2])} :
          IF n = Finished THEN place[1] = Newest
          ELSE <<Applied(StatementAt(n), place[1]), Past(n)>> \in Way(v)
    BY ONLY <1>1, Zenon DEF Leads
  <1>3. PICK place : place = <<schema, a>>
    OBVIOUS
  <1>4. place \in Way(v) /\ place[1] = schema /\ place[2] = a
    BY <1>3
  <1>5. \E n \in {next} :
          IF n = Finished THEN schema = Newest
          ELSE <<Applied(StatementAt(n), schema), Past(n)>> \in Way(v)
    BY ONLY <1>2, <1>4, next = NextTelling(schema, a), Zenon
  <1> QED
    BY ONLY <1>5, Zenon

\* A start looks for the next statement of the chain.
LEMMA NextPlaceIs == NextPlace = NextTelling(Schema(db), at)
  BY Zenon DEF NextPlace

\* A step that leaves what the databases are alone, and opens none of them.
LEMMA DriftKept ==
    ASSUME DriftInv,
           UNCHANGED <<staged, before, marker>>,
           db'.drift = db.drift,
           work' = work \/ work' = NoFile,
           at' = Beginning, pc' # "open",
           pc' \in {"finish", "finish outcome", "record", "serving"} => db.drift = {}
    PROVE  DriftInv'
  <1>1. UNCHANGED <<Exists(staged), Exists(before), SwappedIn>>
    BY DEF Exists, SwappedIn
  <1> QED
    BY <1>1 DEF DriftInv, Exists

\* One that opens a database of this version.
LEMMA DriftOpened ==
    ASSUME DriftInv,
           staged' = staged \/ staged' = NoFile,
           UNCHANGED <<db, before, work>>,
           at' = Beginning, pc' = "open", db.drift = {}
    PROVE  DriftInv'
  <1>1. \E v \in 1 .. Latest : <<Schema(db), Beginning>> \in Way(v)
    BY NoDrift, AtTheStart
  <1>2. OnWay'
    BY <1>1 DEF OnWay, Schema
  <1> QED
    BY <1>2 DEF DriftInv, Exists

\* The service at work, and its end.
LEMMA DriftServing ==
    ASSUME RestoreInv, DriftInv,
           \/ Commit \/ Fold
           \/ StageSnapshot \/ CopyForImport \/ SetReason \/ StageImport
           \/ Stop
    PROVE  DriftInv'
  <1>1. /\ pc = "serving" /\ ~marker /\ ~SwappedIn /\ db.drift = {} /\ at = Beginning
        /\ IsDatabase(db)
    BY DEF RestoreInv, FilesInv, PlaceInv, DriftInv, SwappedIn,
           Commit, Fold, StageSnapshot, CopyForImport, SetReason, StageImport, Stop, Serving, Goto
  <1>2. Folded.drift = db.drift
    BY <1>1 DEF IsDatabase, Folded
  <1>3. CASE Commit \/ Fold \/ SetReason \/ Stop
    <2>1. UNCHANGED <<staged, before, marker>> /\ at' = Beginning
      BY <1>1, <1>3 DEF Commit, Fold, SetReason, Stop, Serving, Goto
    <2>2. db'.drift = db.drift
      BY <1>2, <1>3 DEF Commit, Fold, SetReason, Stop, Serving
    <2>3. pc' # "open" /\ (work' = work \/ work' = NoFile)
      BY <1>1, <1>3 DEF Commit, Fold, SetReason, Stop, Serving, Goto
    <2> QED
      BY <1>1, <2>1, <2>2, <2>3, DriftKept
  <1>4. CASE StageSnapshot
    <2>1. UNCHANGED <<db, before, work, marker, pc, at>>
      BY <1>4 DEF StageSnapshot, Serving
    <2>2. PICK v \in Versions : staged'.drift = Drift(v)
      BY <1>4 DEF StageSnapshot, Serving
    <2>3. v \in 1 .. Latest
      BY BoundsAssumption
    <2> QED
      BY <1>1, <2>1, <2>2, <2>3 DEF DriftInv, SwappedIn, Exists
  <1>5. CASE CopyForImport
    <2>1. UNCHANGED <<db, staged, before, marker, pc, at>> /\ work'.drift = {}
      BY <1>1, <1>5 DEF CopyForImport, Serving
    <2> QED
      BY <1>1, <2>1 DEF DriftInv, SwappedIn, Exists
  <1>6. CASE StageImport
    <2>1. UNCHANGED <<db, before, marker, pc, at>> /\ staged' = work /\ work' = NoFile /\ Exists(work)
      BY <1>6 DEF StageImport, Serving
    <2>2. staged'.drift = Drift(Latest)
      BY <2>1, NoDrift DEF DriftInv
    <2> QED
      BY <1>1, <2>1, <2>2, NoDrift DEF DriftInv, SwappedIn, Exists
  <1> QED
    BY <1>3, <1>4, <1>5, <1>6

\* The files say what a start is to do; a death changes none of them.
LEMMA DriftStarting ==
    ASSUME RestoreInv, DriftInv, Start \/ Crash
    PROVE  DriftInv'
  <1>1. UNCHANGED <<db, staged, before, marker>> /\ (work' = work \/ work' = NoFile)
    BY DEF Start, Crash, files
  <1>2. CASE Crash
    <2>1. at' = Beginning /\ pc' = "down"
      BY <1>2 DEF Crash
    <2> QED
      BY <1>1, <2>1, DriftKept
  <1>3. CASE Start
    <2>1. at' = Beginning /\ UNCHANGED work
      BY <1>3 DEF Start, DriftInv
    <2>2. \/ pc' = "open" /\ ~marker
          \/ pc' \in {"undo log", "undo marker", "copy", "swap log"}
      BY <1>3 DEF Start, RestoreInv, FilesInv
    <2>3. CASE pc' = "open" /\ ~marker
      <3>1. db.drift = {}
        BY <2>3 DEF DriftInv, SwappedIn
      <3> QED
        BY <1>1, <2>1, <2>3, <3>1, DriftOpened
    <2>4. CASE pc' \in {"undo log", "undo marker", "copy", "swap log"}
      BY <1>1, <2>1, <2>4, DriftKept
    <2> QED
      BY <2>2, <2>3, <2>4
  <1> QED
    BY <1>2, <1>3

\* What is undone is of this version.
LEMMA DriftUndone ==
    ASSUME RestoreInv, DriftInv, ~UndoFailed,
           UndoRemoveLog \/ UndoRename \/ UndoOutcome \/ UndoRemoveMarker
    PROVE  DriftInv'
  <1>1. work' = work /\ at' = Beginning
    BY DEF UndoRemoveLog, UndoRename, UndoOutcome, UndoRemoveMarker, Step, Goto
  <1>2. CASE UndoRemoveLog \/ UndoOutcome
    <2>1. UNCHANGED <<db, staged, before, marker>> /\ pc' \in {"undo rename", "undo marker"}
      BY <1>2 DEF UndoRemoveLog, UndoOutcome, Step, Goto
    <2> QED
      BY <1>1, <2>1, DriftKept
  <1>3. CASE UndoRename
    <2>1. /\ db' = before /\ before' = NoFile /\ UNCHANGED <<staged, marker>>
          /\ pc = "undo rename" /\ pc' = "undo outcome"
      BY <1>3 DEF UndoRename, Step, Goto
    <2>2. db'.drift = {}
      BY <2>1 DEF RestoreInv, PlaceInv, DriftInv
    <2> QED
      BY <1>1, <2>1, <2>2 DEF DriftInv, SwappedIn, Exists
  <1>4. CASE UndoRemoveMarker
    <2>1. UNCHANGED <<db, staged, before>> /\ pc = "undo marker" /\ pc' = "open"
      BY <1>4 DEF UndoRemoveMarker, Step, Goto
    <2>2. db.drift = {}
      BY <2>1 DEF RestoreInv, PlaceInv, DriftInv, SwappedIn
    <2> QED
      BY <1>1, <2>1, <2>2, DriftOpened
  <1> QED
    BY <1>2, <1>3, <1>4

\* What is put aside is of this version, and what is swapped in is of another.
LEMMA DriftSwapped ==
    ASSUME RestoreInv, DriftInv,
           \/ CopyCurrent \/ KeepCopy \/ RefuseStaged \/ WriteMarker
           \/ SwapRemoveLog \/ SwapRename
    PROVE  DriftInv'
  <1>1. work' = work /\ at' = Beginning
    BY DEF CopyCurrent, KeepCopy, RefuseStaged, WriteMarker, SwapRemoveLog, SwapRename, Step, Goto
  <1>2. IsDatabase(db)
    BY DEF RestoreInv, FilesInv
  <1>3. CASE CopyCurrent \/ SwapRemoveLog
    <2>1. UNCHANGED <<staged, before, marker>> /\ pc' \in {"keep", "swap rename"}
      BY <1>3 DEF CopyCurrent, SwapRemoveLog, Step, Goto
    <2>2. db'.drift = db.drift
      BY <1>2, <1>3 DEF CopyCurrent, SwapRemoveLog, Step, Folded, IsDatabase
    <2> QED
      BY <1>1, <2>1, <2>2, DriftKept
  <1>4. CASE KeepCopy
    <2>1. /\ UNCHANGED <<db, staged, marker>> /\ before' = [db EXCEPT !.copy = @ + 1]
          /\ pc = "keep" /\ pc' = "mark"
      BY <1>4 DEF KeepCopy, Step, Goto
    <2>2. db.drift = {} /\ ~marker
      BY <2>1 DEF RestoreInv, PlaceInv, DriftInv, SwappedIn
    <2>3. before'.drift = {}
      BY <1>2, <2>1, <2>2 DEF IsDatabase
    <2> QED
      BY <1>1, <2>1, <2>2, <2>3 DEF DriftInv, Exists
  <1>5. CASE RefuseStaged
    <2>1. UNCHANGED <<db, before, marker>> /\ staged' = NoFile /\ pc = "refuse" /\ pc' = "open"
      BY <1>5 DEF RefuseStaged, Step, Goto
    <2>2. db.drift = {}
      BY <2>1 DEF RestoreInv, PlaceInv, DriftInv, SwappedIn
    <2> QED
      BY <1>1, <2>1, <2>2, DriftOpened
  <1>6. CASE WriteMarker
    <2>1. UNCHANGED <<db, staged, before>> /\ pc = "mark" /\ pc' = "swap log"
      BY <1>6 DEF WriteMarker, Step, Goto
    <2>2. db.drift = {}
      BY <2>1 DEF RestoreInv, PlaceInv, DriftInv, SwappedIn
    <2> QED
      BY <1>1, <2>1, <2>2 DEF DriftInv, Exists
  <1>7. CASE SwapRename
    <2>1. /\ UNCHANGED <<before, marker>> /\ db' = staged /\ staged' = NoFile
          /\ pc = "swap rename" /\ pc' = "open"
      BY <1>7 DEF SwapRename, Step, Goto
    <2>2. marker /\ Exists(staged) /\ Exists(before)
      BY <2>1 DEF RestoreInv, PlaceInv, BesideInv
    <2>3. PICK v \in 1 .. Latest : staged.drift = Drift(v)
      BY <2>2 DEF DriftInv
    <2>4. <<Schema(staged), Beginning>> \in Way(v)
      BY <2>3, AtTheStart
    <2>5. OnWay'
      BY <1>1, <2>1, <2>4 DEF OnWay, Schema
    <2>6. SwappedIn'
      BY <2>1, <2>2 DEF SwappedIn, Exists
    <2> QED
      BY <1>1, <2>1, <2>5, <2>6 DEF DriftInv, Exists
  <1> QED
    BY <1>3, <1>4, <1>5, <1>6, <1>7

\* Where a file operation fails, no database changes.
LEMMA DriftFaulty ==
    ASSUME RestoreInv, DriftInv, KeepFails \/ MarkFails \/ SwapFails
    PROVE  DriftInv'
  <1>1. UNCHANGED <<db, staged, before, marker, work>> /\ at' = Beginning
    BY DEF KeepFails, MarkFails, SwapFails, files, Goto
  <1>2. \/ pc = "mark" /\ pc' = "open"
        \/ pc' \in {"refuse", "undo marker"}
    BY DEF KeepFails, MarkFails, SwapFails, Goto
  <1>3. CASE pc = "mark" /\ pc' = "open"
    <2>1. db.drift = {}
      BY <1>3 DEF RestoreInv, PlaceInv, DriftInv, SwappedIn
    <2> QED
      BY <1>1, <1>3, <2>1, DriftOpened
  <1>4. CASE pc' \in {"refuse", "undo marker"}
    BY <1>1, <1>4, DriftKept
  <1> QED
    BY <1>2, <1>3, <1>4

\* A start goes its way from statement to statement, and at its end there is no
\* drift left (db::init).
LEMMA DriftMigrated ==
    ASSUME RestoreInv, DriftInv, Migrate \/ OpenAndMigrate \/ OpenPanics
    PROVE  DriftInv'
  <1>1. /\ pc = "open" /\ UNCHANGED <<staged, before, marker, work>>
        /\ UNCHANGED <<Exists(staged), Exists(before), SwappedIn>>
    BY DEF Migrate, OpenAndMigrate, OpenPanics, Step, Goto, Exists, SwappedIn
  <1>2. PICK v \in 1 .. Latest : <<Schema(db), at>> \in Way(v)
    BY <1>1 DEF DriftInv, OnWay
  <1>3. PICK schema, next : schema = Schema(db) /\ next = NextTelling(schema, at)
    OBVIOUS
  <1>4. NextPlace = next
    BY <1>3, NextPlaceIs
  <1>5. IF next = Finished THEN schema = Newest
        ELSE <<Applied(StatementAt(next), schema), Past(next)>> \in Way(v)
    BY <1>2, <1>3, WayGoesOn
  <1>6. CASE Migrate
    <2>1. next # Finished /\ at' = Past(next) /\ UNCHANGED pc
      BY <1>4, <1>6 DEF Migrate
    <2>2. db' = [db EXCEPT !.drift = Differ(Newest, Applied(StatementAt(next), schema))]
      BY <1>3, <1>4, <1>6 DEF Migrate
    <2>3. SwappedIn
      <3>1. SUFFICES ASSUME ~SwappedIn
                     PROVE  FALSE
        OBVIOUS
      <3>2. at = Beginning /\ db.drift = {}
        BY <3>1 DEF DriftInv
      <3>3. schema = Newest
        BY <1>3, <3>2, NoDrift DEF Schema
      <3> QED
        BY <1>3, <2>1, <3>2, <3>3, MigrationsAssumption
    <2>4. db'.drift = Differ(Newest, Applied(StatementAt(next), schema))
      BY <2>2 DEF RestoreInv, FilesInv, IsDatabase
    <2>5. Schema(db)' = Applied(StatementAt(next), schema)
      BY <2>4, DifferTwice DEF Schema
    <2>6. OnWay'
      BY <1>5, <2>1, <2>5 DEF OnWay
    <2> QED
      BY <1>1, <2>1, <2>3, <2>6 DEF DriftInv, Exists
  <1>7. CASE OpenAndMigrate
    <2>1. next = Finished /\ at' = Beginning /\ pc' = "finish" /\ UNCHANGED db
      BY <1>4, <1>7 DEF OpenAndMigrate, Step, Goto
    <2>2. db.drift = {}
      BY <1>3, <1>5, <2>1, DifferTwice DEF Schema
    <2> QED
      BY <1>1, <2>1, <2>2, DriftKept
  <1>8. CASE OpenPanics
    <2>1. at' = Beginning /\ pc' = "down" /\ UNCHANGED db
      BY <1>8 DEF OpenPanics, Step, Goto
    <2> QED
      BY <1>1, <2>1, DriftKept
  <1> QED
    BY <1>6, <1>7, <1>8

\* From there to the service (finish_restore).
LEMMA DriftFinished ==
    ASSUME RestoreInv, DriftInv, RemoveMarker \/ WriteOutcome \/ NothingPending \/ Record
    PROVE  DriftInv'
  <1>1. /\ pc \in {"finish", "finish outcome", "record"}
        /\ pc' \in {"finish outcome", "record", "serving"} /\ at' = Beginning
        /\ UNCHANGED <<staged, before, work>>
    BY DEF RemoveMarker, WriteOutcome, NothingPending, Record, Step, Goto, files
  <1>2. db.drift = {}
    BY <1>1 DEF DriftInv
  <1>3. db'.drift = db.drift
    BY DEF RemoveMarker, WriteOutcome, NothingPending, Record, Step, files, RestoreInv, FilesInv, IsDatabase
  <1> QED
    BY <1>1, <1>2, <1>3 DEF DriftInv, Exists

\* A rename back that fails has failed, ...
LEMMA UndoJustFailed ==
    ASSUME RestoreInv, UndoRenameFails
    PROVE  UndoFailed'
  <1>1. faults \in Seq(Faults) /\ "undo" \in Faults /\ faults' = Append(faults, "undo")
    BY DEF RestoreInv, FilesInv, UndoRenameFails, MayFail
  <1>2. /\ Len(faults) \in Nat /\ Len(faults') = Len(faults) + 1
        /\ faults'[Len(faults) + 1] = "undo"
    BY <1>1, AppendProperties, LenProperties
  <1>3. Len(faults) + 1 \in 1 .. Len(faults')
    BY <1>2
  <1> QED
    BY <1>2, <1>3 DEF UndoFailed

\* ... and stays so.
LEMMA UndoStaysFailed ==
    ASSUME RestoreInv, [Next]_vars, UndoFailed
    PROVE  UndoFailed'
  <1>1. faults \in Seq(Faults)
    BY DEF RestoreInv, FilesInv
  <1>2. CASE faults' = faults
    BY <1>2 DEF UndoFailed
  <1>3. CASE \E o \in Faults : faults' = Append(faults, o)
    <2>1. PICK o \in Faults : faults' = Append(faults, o)
      BY <1>3
    <2>2. /\ Len(faults) \in Nat /\ Len(faults') = Len(faults) + 1
          /\ \A i \in 1 .. Len(faults) : faults'[i] = faults[i]
      BY <1>1, <2>1, AppendProperties, LenProperties
    <2> QED
      BY <2>2 DEF UndoFailed
  <1>4. UNCHANGED faults \/ \E o \in Faults : faults' = Append(faults, o)
    <2>1. CASE Commit \/ Fold \/ StageSnapshot \/ CopyForImport \/ SetReason \/ StageImport \/ Stop \/ Crash
      BY <2>1 DEF Commit, Fold, StageSnapshot, CopyForImport, SetReason, StageImport, Serving, Stop, Crash
    <2>2. CASE StartUp
      BY <2>2 DEF StartUp, Start, UndoRemoveLog, UndoRename, UndoOutcome, UndoRemoveMarker,
                  CopyCurrent, KeepCopy, RefuseStaged, WriteMarker, SwapRemoveLog, SwapRename,
                  Migrate, OpenAndMigrate, OpenPanics, RemoveMarker, WriteOutcome,
                  NothingPending, Record, Step
    <2>3. CASE Fault
      BY <2>3 DEF Fault, UndoRenameFails, KeepFails, MarkFails, SwapFails, MayFail
    <2>4. CASE UNCHANGED vars
      BY <2>4 DEF vars
    <2> QED
      BY <2>1, <2>2, <2>3, <2>4 DEF Next
  <1> QED
    BY <1>2, <1>3, <1>4

\* What is served has the schema of this version, whatever version was restored and
\* wherever its start was cut off, as long as no rename back fails (db.rs, init, "so
\* the version recorded is the one whose schema this now is"): of a service whose
\* first database is of its own version.
THEOREM ServedIsWhole == Installed = Latest /\ Spec => []ServedSchemaIsWhole
  <1> SUFFICES ASSUME Installed = Latest
               PROVE  Spec => []ServedSchemaIsWhole
    OBVIOUS
  <1>1. Init => WholeInv
    <2> SUFFICES ASSUME Init
                 PROVE  WholeInv
      OBVIOUS
    <2>1. /\ db.drift = Drift(Latest) /\ staged = NoFile /\ before = NoFile /\ work = NoFile
          /\ pc = "serving" /\ at = Beginning
      BY DEF Init, Original
    <2> QED
      BY <2>1, NoDrift DEF WholeInv, DriftInv, Exists
  <1>2. RestoreInv /\ WholeInv /\ [Next]_vars => WholeInv'
    <2> SUFFICES ASSUME RestoreInv, WholeInv, [Next]_vars
                 PROVE  WholeInv'
      OBVIOUS
    <2>1. CASE UndoFailed
      BY <2>1, UndoStaysFailed DEF WholeInv
    <2>2. CASE ~UndoFailed /\ DriftInv
      <3>1. CASE Commit \/ Fold \/ StageSnapshot \/ CopyForImport \/ SetReason \/ StageImport \/ Stop
        BY <2>2, <3>1, DriftServing DEF WholeInv
      <3>2. CASE Crash \/ Start
        BY <2>2, <3>2, DriftStarting DEF WholeInv
      <3>3. CASE UndoRemoveLog \/ UndoRename \/ UndoOutcome \/ UndoRemoveMarker
        BY <2>2, <3>3, DriftUndone DEF WholeInv
      <3>4. CASE CopyCurrent \/ KeepCopy \/ RefuseStaged \/ WriteMarker \/ SwapRemoveLog \/ SwapRename
        BY <2>2, <3>4, DriftSwapped DEF WholeInv
      <3>5. CASE Migrate \/ OpenAndMigrate \/ OpenPanics
        BY <2>2, <3>5, DriftMigrated DEF WholeInv
      <3>6. CASE RemoveMarker \/ WriteOutcome \/ NothingPending \/ Record
        BY <2>2, <3>6, DriftFinished DEF WholeInv
      <3>7. CASE UndoRenameFails
        BY <3>7, UndoJustFailed DEF WholeInv
      <3>8. CASE KeepFails \/ MarkFails \/ SwapFails
        BY <2>2, <3>8, DriftFaulty DEF WholeInv
      <3>9. CASE UNCHANGED vars
        BY <2>2, <3>9 DEF WholeInv, DriftInv, OnWay, Schema, SwappedIn, Exists, vars, files
      <3> QED
        BY <3>1, <3>2, <3>3, <3>4, <3>5, <3>6, <3>7, <3>8, <3>9 DEF Next, StartUp, Fault
    <2> QED
      BY <2>1, <2>2 DEF WholeInv
  <1>3. WholeInv => ServedSchemaIsWhole
    BY DEF WholeInv, DriftInv, ServedSchemaIsWhole
  <1> QED
    BY <1>1, <1>2, <1>3, RestoreKnown, PTL DEF Spec

-----------------------------------------------------------------------------
(* Imports: what the sections make of a configuration.                        *)

Sectioned(c) ==
    c = [settings |-> c.settings, policies |-> c.policies, certs |-> c.certs, realms |-> c.realms,
         sites |-> c.sites, accounts |-> c.accounts]

\* The plan found nothing against the file, and both have their columns.
Fits(doc, was) ==
    /\ IsFile(doc) /\ IsConfig(was)
    /\ \A p \in DOMAIN doc.policies : DOMAIN doc.policies[p].rules \cap HeldRules(doc.policies[p].sets) = {}
    /\ ~RealmsRefused(doc) /\ ~SitesRefused(doc, was)

NewSettings(was, doc) == Over(Only(doc.settings, Exported), Without(was.settings, Exported))
NewPolicies(doc) == [p \in DOMAIN doc.policies |-> PolicyOf(doc.policies[p])]
WithKeys(doc) == {c \in DOMAIN doc.certs : doc.certs[c].key}
AllCerts(was, doc) == Over([c \in WithKeys(doc) |-> doc.certs[c].pem], was.certs)
NewCerts(was, doc) ==
    Without(AllCerts(was, doc), DOMAIN AllCerts(was, doc) \ (DOMAIN doc.certs \cup {Management}))
NewRealms(was, doc) == [r \in DOMAIN doc.realms |-> RealmOf(doc, was, r)]
NewAccounts(was, doc, i) ==
    Over([u \in DOMAIN doc.accounts |-> put_account(was, doc, u, i)], was.accounts)

\* What has been written of the file, by what comes next.
Written(next, sites, now, doc, was, i) ==
    /\ Sectioned(now)
    /\ next # "settings" => now.settings = NewSettings(was, doc)
    /\ next = "settings" => now.settings = was.settings
    /\ next \notin {"settings", "policies"} => now.policies = NewPolicies(doc)
    /\ next \in {"settings", "policies", "certificates"} => now.certs = was.certs
    /\ next \in {"realms", "sites", "unnamed"} => now.certs = AllCerts(was, doc)
    /\ next \in {"accounts", "checked", "stage"} => now.certs = NewCerts(was, doc)
    /\ next \in {"settings", "policies", "certificates", "realms"} => now.realms = was.realms
    /\ next \in {"sites", "unnamed", "accounts", "checked", "stage"} => now.realms = NewRealms(was, doc)
    /\ next = "unnamed" => /\ DOMAIN now.sites \subseteq DOMAIN doc.sites
                         /\ now.sites = [s \in DOMAIN now.sites |-> now.sites[s]]
                         /\ \A s \in DOMAIN doc.sites \ sites : s \in DOMAIN now.sites /\ now.sites[s] = doc.sites[s]
    /\ next \in {"accounts", "checked", "stage"} => now.sites = doc.sites
    /\ next \notin {"checked", "stage"} => now.accounts = was.accounts
    /\ next \in {"checked", "stage"} => now.accounts = NewAccounts(was, doc, i)
    /\ next \in {"settings", "policies", "certificates", "realms", "sites"} => sites = DOMAIN doc.sites
    /\ sites \subseteq DOMAIN doc.sites

MadeSo(now, doc, was, i) ==
    /\ Sectioned(now)
    /\ now.settings = NewSettings(was, doc) /\ now.policies = NewPolicies(doc)
    /\ now.certs = NewCerts(was, doc) /\ now.realms = NewRealms(was, doc)
    /\ now.sites = doc.sites /\ now.accounts = NewAccounts(was, doc, i)

LEMMA OverAt ==
  ASSUME NEW f, NEW g, NEW all, all = Over(f, g)
  PROVE  /\ DOMAIN all = DOMAIN f \cup DOMAIN g
         /\ \A x \in DOMAIN f : all[x] = f[x]
         /\ \A x \in DOMAIN g : x \notin DOMAIN f => all[x] = g[x]
BY DEF Over

LEMMA CertsAt ==
  ASSUME NEW was, NEW doc
  PROVE  /\ DOMAIN AllCerts(was, doc) = WithKeys(doc) \cup DOMAIN was.certs
         /\ DOMAIN NewCerts(was, doc) = WithKeys(doc) \cup (DOMAIN was.certs \cap (DOMAIN doc.certs \cup {Management}))
         /\ \A c \in DOMAIN NewCerts(was, doc) :
               NewCerts(was, doc)[c] = IF c \in WithKeys(doc) THEN doc.certs[c].pem ELSE was.certs[c]
<1> DEFINE sent == [c \in WithKeys(doc) |-> doc.certs[c].pem]
           all == Over(sent, was.certs)
<1>1. DOMAIN sent = WithKeys(doc) /\ \A c \in WithKeys(doc) : sent[c] = doc.certs[c].pem
  OBVIOUS
<1>2. /\ DOMAIN all = WithKeys(doc) \cup DOMAIN was.certs
      /\ \A c \in WithKeys(doc) : all[c] = doc.certs[c].pem
      /\ \A c \in DOMAIN was.certs : c \notin WithKeys(doc) => all[c] = was.certs[c]
  BY <1>1 DEF Over
<1>3. WithKeys(doc) \subseteq DOMAIN doc.certs
  BY DEF WithKeys
<1>4. all = AllCerts(was, doc)
  BY DEF AllCerts
<1> HIDE DEF all
<1>5. NewCerts(was, doc) = [c \in DOMAIN all \ (DOMAIN all \ (DOMAIN doc.certs \cup {Management})) |-> all[c]]
  BY <1>4 DEF NewCerts, Without
<1> QED
  BY <1>2, <1>3, <1>4, <1>5

CertIn(was, doc, c) == IF c \in WithKeys(doc) THEN doc.certs[c].pem ELSE was.certs[c]

\* all is what is left of them with the file's in.
CertsAre(was, doc, all) ==
    /\ DOMAIN all = WithKeys(doc) \cup (DOMAIN was.certs \cap (DOMAIN doc.certs \cup {Management}))
    /\ \A c \in DOMAIN all : all[c] = IF c \in WithKeys(doc) THEN doc.certs[c].pem ELSE was.certs[c]

LEMMA NewCertsAre ==
  ASSUME NEW was, NEW doc
  PROVE  CertsAre(was, doc, NewCerts(was, doc))
<1>1. DOMAIN NewCerts(was, doc) = WithKeys(doc) \cup (DOMAIN was.certs \cap (DOMAIN doc.certs \cup {Management}))
  BY CertsAt
<1>2. \A c \in DOMAIN NewCerts(was, doc) :
         NewCerts(was, doc)[c] = IF c \in WithKeys(doc) THEN doc.certs[c].pem ELSE was.certs[c]
  BY CertsAt
<1> QED
  BY <1>1, <1>2 DEF CertsAre

LEMMA CertsOf ==
  ASSUME NEW was, NEW doc, NEW all, all = NewCerts(was, doc)
  PROVE  /\ DOMAIN all = WithKeys(doc) \cup (DOMAIN was.certs \cap (DOMAIN doc.certs \cup {Management}))
         /\ \A c \in DOMAIN all : all[c] = CertIn(was, doc, c)
<1>1. DOMAIN NewCerts(was, doc) = WithKeys(doc) \cup (DOMAIN was.certs \cap (DOMAIN doc.certs \cup {Management}))
  BY CertsAt
<1>2. \A c \in DOMAIN NewCerts(was, doc) : NewCerts(was, doc)[c] = CertIn(was, doc, c)
  BY CertsAt DEF CertIn
<1> QED
  BY ONLY <1>1, <1>2, all = NewCerts(was, doc)

\* What comes out is what the file says.
LEMMA MadeSoIsTheFile ==
  ASSUME NEW doc, NEW was, Fits(doc, was), NEW now, NEW i, MadeSo(now, doc, was, i)
  PROVE  IsTheFile(now, doc, was, i)
<1>1. /\ Only(now.settings, Exported) = Only(doc.settings, Exported)
      /\ Without(now.settings, Exported) = Without(was.settings, Exported)
  <2>1. PICK mine, others, all : /\ mine = Only(doc.settings, Exported) /\ others = Without(was.settings, Exported)
                                 /\ all = Over(mine, others)
    OBVIOUS
  <2>2. now.settings = all
    BY <2>1 DEF MadeSo, NewSettings
  <2>3. /\ DOMAIN mine = DOMAIN doc.settings \cap Exported /\ DOMAIN others = DOMAIN was.settings \ Exported
        /\ \A x \in DOMAIN mine : mine[x] = doc.settings[x]
        /\ \A x \in DOMAIN others : others[x] = was.settings[x]
    BY <2>1 DEF Only, Without
  <2>4. /\ DOMAIN all = DOMAIN mine \cup DOMAIN others
        /\ \A x \in DOMAIN mine : all[x] = mine[x]
        /\ \A x \in DOMAIN others : x \notin DOMAIN mine => all[x] = others[x]
    BY ONLY <2>1, OverAt
  <2>5. Only(all, Exported) = Only(doc.settings, Exported)
    <3>1. DOMAIN all \cap Exported = DOMAIN doc.settings \cap Exported
      BY <2>3, <2>4
    <3>2. \A x \in DOMAIN all \cap Exported : all[x] = doc.settings[x]
      BY <2>3, <2>4
    <3> QED
      BY <3>1, <3>2 DEF Only
  <2>6. Without(all, Exported) = Without(was.settings, Exported)
    <3>1. DOMAIN all \ Exported = DOMAIN was.settings \ Exported
      BY <2>3, <2>4
    <3>2. \A x \in DOMAIN all \ Exported : all[x] = was.settings[x]
      BY <2>3, <2>4
    <3> QED
      BY <3>1, <3>2 DEF Without
  <2> QED
    BY <2>2, <2>5, <2>6
<1>2. DOMAIN now.policies = DOMAIN doc.policies
  BY DEF MadeSo, NewPolicies
<1>3. ASSUME NEW p \in DOMAIN doc.policies, NEW of, of = HeldRules(doc.policies[p].sets)
      PROVE  /\ now.policies[p].sets = doc.policies[p].sets
             /\ \A n \in of : n \in DOMAIN now.policies[p].rules /\ now.policies[p].rules[n] = (n \notin doc.policies[p].off)
             /\ Without(now.policies[p].rules, of) = doc.policies[p].rules
  <2>1. PICK q, set : q = doc.policies[p] /\ set = [n \in of |-> n \notin q.off]
    OBVIOUS
  <2>2. now.policies[p] = PolicyOf(q)
    BY <2>1 DEF MadeSo, NewPolicies
  <2>3. /\ PolicyOf(q).sets = q.sets /\ PolicyOf(q).rules = Over(set, q.rules)
    BY <1>3, <2>1 DEF PolicyOf
  <2>4. DOMAIN set = of /\ \A n \in of : set[n] = (n \notin q.off)
    BY <2>1
  <2>5. /\ DOMAIN Over(set, q.rules) = of \cup DOMAIN q.rules
        /\ \A n \in of : Over(set, q.rules)[n] = (n \notin q.off)
        /\ \A n \in DOMAIN q.rules : n \notin of => Over(set, q.rules)[n] = q.rules[n]
    BY <2>4 DEF Over
  <2>6. DOMAIN q.rules \cap of = {} /\ q.rules = [n \in DOMAIN q.rules |-> q.rules[n]]
    BY <1>3, <2>1 DEF Fits, IsFile
  <2>7. PICK all : all = Over(set, q.rules)
    OBVIOUS
  <2>8. Without(all, of) = q.rules
    <3>1. DOMAIN all \ of = DOMAIN q.rules
      BY <2>5, <2>6, <2>7
    <3>2. \A n \in DOMAIN q.rules : all[n] = q.rules[n]
      BY <2>5, <2>6, <2>7
    <3> QED
      BY <2>6, <3>1, <3>2 DEF Without
  <2> QED
    BY <2>1, <2>2, <2>3, <2>5, <2>7, <2>8
<1>4. /\ DOMAIN now.certs = WithKeys(doc) \cup (DOMAIN was.certs \cap (DOMAIN doc.certs \cup {Management}))
      /\ \A c \in DOMAIN now.certs :
            now.certs[c] = IF c \in DOMAIN doc.certs /\ doc.certs[c].key THEN doc.certs[c].pem ELSE was.certs[c]
  <2>1. now.certs = NewCerts(was, doc)
    BY DEF MadeSo
  <2>2. \A c : c \in WithKeys(doc) <=> c \in DOMAIN doc.certs /\ doc.certs[c].key
    BY DEF WithKeys
  <2>3. PICK all : all = NewCerts(was, doc)
    OBVIOUS
  <2>4. /\ DOMAIN all = WithKeys(doc) \cup (DOMAIN was.certs \cap (DOMAIN doc.certs \cup {Management}))
        /\ \A c \in DOMAIN all : all[c] = CertIn(was, doc, c)
    BY ONLY <2>3, CertsOf
  <2>5. now.certs = all
    BY <2>1, <2>3
  <2> QED
    BY ONLY <2>2, <2>4, <2>5 DEF CertIn
<1>5. DOMAIN now.realms = DOMAIN doc.realms
  BY DEF MadeSo, NewRealms
<1>6. ASSUME NEW r \in DOMAIN doc.realms, NEW u \in DOMAIN doc.realms[r].users
      PROVE  now.realms[r].users[u].hash = doc.realms[r].users[u].hash
  <2>1. doc.realms[r].kind = "local"
    BY DEF Fits, IsFile, RealmsRefused
  <2>2. PICK had : now.realms[r].users = Merged(had, doc.realms[r].users)
    BY <2>1 DEF MadeSo, NewRealms, RealmOf
  <2>3. Merged(had, doc.realms[r].users)[u].hash = doc.realms[r].users[u].hash
    BY DEF Merged, Over
  <2> QED
    BY <2>2, <2>3
<1>7. DOMAIN now.accounts = DOMAIN was.accounts \cup DOMAIN doc.accounts
  BY DEF MadeSo, NewAccounts, Over
<1>8. ASSUME NEW u \in DOMAIN doc.accounts \ {i}
      PROVE  now.accounts[u] = doc.accounts[u]
  BY DEF MadeSo, NewAccounts, Over, put_account
<1>9. now.sites = doc.sites
  BY DEF MadeSo
<1> QED
  BY <1>1, <1>2, <1>3, <1>4, <1>5, <1>6, <1>7, <1>8, <1>9 DEF IsTheFile, WithKeys

\* What comes out is again a configuration with its columns.
LEMMA MadeSoIsConfig ==
  ASSUME NEW doc, NEW was, Fits(doc, was), NEW now, NEW i, MadeSo(now, doc, was, i)
  PROVE  IsConfig(now)
<1>1. \A r \in DOMAIN now.realms : IsRealm(now.realms[r])
  <2> SUFFICES ASSUME NEW r \in DOMAIN doc.realms PROVE IsRealm(RealmOf(doc, was, r))
    BY DEF MadeSo, NewRealms
  <2>1. PICK had, out :
           /\ had = (IF r \in DOMAIN was.realms THEN was.realms[r] ELSE [kind |-> "none", password |-> None, users |-> Empty])
           /\ out = RealmOf(doc, was, r)
    OBVIOUS
  <2>2. out = [kind |-> doc.realms[r].kind,
               password |-> IF doc.realms[r].kind = "local" THEN None
                            ELSE IF doc.realms[r].password # None THEN doc.realms[r].password
                            ELSE had.password,
               users |-> IF doc.realms[r].kind = "local" THEN Merged(had.users, doc.realms[r].users) ELSE Empty]
    BY <2>1 DEF RealmOf
  <2>3. had.users = [u \in DOMAIN had.users |->
                       [hash |-> had.users[u].hash, on |-> had.users[u].on, epoch |-> had.users[u].epoch]]
    <3>1. CASE r \in DOMAIN was.realms
      BY <2>1, <3>1 DEF Fits, IsConfig, IsRealm
    <3>2. CASE r \notin DOMAIN was.realms
      BY <2>1, <3>2 DEF Empty
    <3> QED
      BY <3>1, <3>2
  <2>4. CASE doc.realms[r].kind = "local"
    <3>1. PICK users, all : users = doc.realms[r].users /\ all = Merged(had.users, users)
      OBVIOUS
    <3>2. out.users = all /\ out.kind = "local" /\ out.password = None
      BY <2>2, <2>4, <3>1
    <3>3. DOMAIN all = DOMAIN users \cup DOMAIN had.users
      BY <3>1 DEF Merged, Over
    <3>4. all = [u \in DOMAIN all |-> all[u]]
      BY <3>1, <3>3 DEF Merged, Over
    <3>5. ASSUME NEW u \in DOMAIN all
          PROVE  all[u] = [hash |-> all[u].hash, on |-> all[u].on, epoch |-> all[u].epoch]
      <4>1. CASE u \in DOMAIN users
        <5>1. PICK e : all[u] = [hash |-> users[u].hash, on |-> users[u].on, epoch |-> e]
          BY <3>1, <4>1 DEF Merged, Over
        <5> QED
          BY <5>1
      <4>2. CASE u \notin DOMAIN users
        <5>1. all[u] = had.users[u] /\ u \in DOMAIN had.users
          BY <3>1, <3>3, <4>2 DEF Merged, Over
        <5> QED
          BY <5>1, <2>3
      <4> QED
        BY <4>1, <4>2
    <3>6. all = [u \in DOMAIN all |-> [hash |-> all[u].hash, on |-> all[u].on, epoch |-> all[u].epoch]]
      BY <3>4, <3>5
    <3> QED
      BY <2>1, <2>2, <3>2, <3>6 DEF IsRealm
  <2>5. CASE doc.realms[r].kind # "local"
    <3>1. out.users = Empty /\ out.kind # "local"
      BY <2>2, <2>5
    <3>2. Empty = [u \in DOMAIN Empty |-> [hash |-> Empty[u].hash, on |-> Empty[u].on, epoch |-> Empty[u].epoch]]
      BY DEF Empty
    <3>3. out = [kind |-> out.kind, password |-> out.password, users |-> out.users]
      BY <2>2
    <3> QED
      BY <2>1, <3>1, <3>2, <3>3 DEF IsRealm
  <2> QED
    BY <2>4, <2>5
<1>2. /\ \A u \in DOMAIN now.accounts : IsAccount(now.accounts[u])
      /\ Importers \subseteq DOMAIN now.accounts
  <2>1. /\ \A u \in DOMAIN was.accounts : IsAccount(was.accounts[u])
        /\ \A u \in DOMAIN doc.accounts : IsAccount(doc.accounts[u])
        /\ Importers \subseteq DOMAIN was.accounts
    BY DEF Fits, IsConfig, IsFile
  <2>2. /\ DOMAIN now.accounts = DOMAIN doc.accounts \cup DOMAIN was.accounts
        /\ \A u \in DOMAIN now.accounts :
              now.accounts[u] = IF u \in DOMAIN doc.accounts THEN put_account(was, doc, u, i) ELSE was.accounts[u]
    BY DEF MadeSo, NewAccounts, Over
  <2>3. \A u \in DOMAIN doc.accounts : IsAccount(put_account(was, doc, u, i))
    BY <2>1 DEF put_account, IsAccount
  <2> QED
    BY <2>1, <2>2, <2>3
<1>3. Management \in DOMAIN now.certs
  <2>1. Management \in DOMAIN was.certs /\ now.certs = NewCerts(was, doc)
    BY DEF Fits, IsConfig, MadeSo
  <2>2. PICK all : all = NewCerts(was, doc)
    OBVIOUS
  <2>3. DOMAIN all = WithKeys(doc) \cup (DOMAIN was.certs \cap (DOMAIN doc.certs \cup {Management}))
    BY ONLY <2>2, CertsOf
  <2> QED
    BY <2>1, <2>2, <2>3
<1> QED
  BY <1>1, <1>2, <1>3 DEF IsConfig, MadeSo, Sectioned

\* And the preview told of all that is otherwise.
Told(was, now, doc, i) ==
    /\ Unlike(was.settings, now.settings) \subseteq diff_settings(was, doc)
    /\ Unlike(was.certs, now.certs) \subseteq diff_certificates(was, doc)
    /\ Unlike(was.sites, now.sites) \subseteq diff_sites(was, doc)
    /\ Unlike(was.realms, now.realms) \subseteq diff_realms(was, doc)
    /\ Unlike(was.accounts, now.accounts) \ {i} \subseteq diff_accounts(was, doc, i)

LEMMA UnlikeIs ==
  ASSUME NEW was, NEW now, NEW n
  PROVE  n \in Unlike(was, now) <=>
            \/ n \in DOMAIN now \ DOMAIN was \/ n \in DOMAIN was \ DOMAIN now
            \/ n \in DOMAIN was \cap DOMAIN now /\ was[n] # now[n]
BY DEF Unlike, by_name

LEMMA SettingsTold ==
  ASSUME NEW doc, NEW was, NEW now, now = NewSettings(was, doc)
  PROVE  Unlike(was.settings, now) \subseteq diff_settings(was, doc)
<1> SUFFICES ASSUME NEW n \in Unlike(was.settings, now) PROVE n \in diff_settings(was, doc)
  OBVIOUS
<1>1. PICK mine, theirs, others :
         /\ mine = Only(was.settings, Exported) /\ theirs = Only(doc.settings, Exported)
         /\ others = Without(was.settings, Exported)
  OBVIOUS
<1>2. /\ DOMAIN theirs = DOMAIN doc.settings \cap Exported /\ DOMAIN others = DOMAIN was.settings \ Exported
      /\ DOMAIN mine = DOMAIN was.settings \cap Exported
      /\ \A x \in DOMAIN mine : mine[x] = was.settings[x]
      /\ \A x \in DOMAIN others : others[x] = was.settings[x]
  BY <1>1 DEF Only, Without
<1>3. /\ DOMAIN now = DOMAIN theirs \cup DOMAIN others
      /\ \A x \in DOMAIN theirs : now[x] = theirs[x]
      /\ \A x \in DOMAIN others : x \notin DOMAIN theirs => now[x] = others[x]
  BY <1>1 DEF NewSettings, Over
<1>4. \/ n \in DOMAIN now \ DOMAIN was.settings \/ n \in DOMAIN was.settings \ DOMAIN now
      \/ n \in DOMAIN was.settings \cap DOMAIN now /\ was.settings[n] # now[n]
  BY UnlikeIs
<1>5. \/ n \in DOMAIN theirs \ DOMAIN mine \/ n \in DOMAIN mine \ DOMAIN theirs
      \/ n \in DOMAIN mine \cap DOMAIN theirs /\ mine[n] # theirs[n]
  BY <1>2, <1>3, <1>4
<1>6. n \in Unlike(mine, theirs)
  BY <1>5, UnlikeIs
<1> QED
  BY <1>1, <1>6 DEF diff_settings

LEMMA CertsTold ==
  ASSUME NEW doc, NEW was, NEW now, now = NewCerts(was, doc)
  PROVE  Unlike(was.certs, now) \subseteq diff_certificates(was, doc)
<1> SUFFICES ASSUME NEW n \in Unlike(was.certs, now) PROVE n \in diff_certificates(was, doc)
  OBVIOUS
<1>1. /\ DOMAIN now = WithKeys(doc) \cup (DOMAIN was.certs \cap (DOMAIN doc.certs \cup {Management}))
      /\ \A c \in DOMAIN now : now[c] = IF c \in WithKeys(doc) THEN doc.certs[c].pem ELSE was.certs[c]
  <2>1. CertsAre(was, doc, now)
    BY NewCertsAre
  <2> QED
    BY ONLY <2>1 DEF CertsAre
<1>2. \/ n \in DOMAIN now \ DOMAIN was.certs \/ n \in DOMAIN was.certs \ DOMAIN now
      \/ n \in DOMAIN was.certs \cap DOMAIN now /\ was.certs[n] # now[n]
  BY UnlikeIs
<1>3. \/ n \in WithKeys(doc) /\ (n \notin DOMAIN was.certs \/ was.certs[n] # doc.certs[n].pem)
      \/ n \in DOMAIN was.certs /\ n \notin DOMAIN doc.certs \cup {Management}
  BY <1>1, <1>2
<1> QED
  BY <1>3 DEF diff_certificates, WithKeys, Travels

LEMMA RealmsTold ==
  ASSUME NEW doc, NEW was, Fits(doc, was), NEW now, now = NewRealms(was, doc)
  PROVE  Unlike(was.realms, now) \subseteq diff_realms(was, doc)
<1> SUFFICES ASSUME NEW n \in Unlike(was.realms, now) PROVE n \in diff_realms(was, doc)
  OBVIOUS
<1>1. DOMAIN now = DOMAIN doc.realms
  BY DEF NewRealms
<1>2. \/ n \in DOMAIN now \ DOMAIN was.realms \/ n \in DOMAIN was.realms \ DOMAIN now
      \/ n \in DOMAIN was.realms \cap DOMAIN now /\ was.realms[n] # now[n]
  BY UnlikeIs
<1>3. CASE ~(n \in DOMAIN was.realms \cap DOMAIN doc.realms)
  BY <1>1, <1>2, <1>3 DEF diff_realms, by_name
<1>4. CASE n \in DOMAIN was.realms \cap DOMAIN doc.realms
  <2>1. PICK a, b : a = was.realms[n] /\ b = doc.realms[n]
    OBVIOUS
  <2>2. a # RealmOf(doc, was, n)
    BY <1>1, <1>2, <1>4, <2>1 DEF NewRealms
  <2>3. IsRealm(a) /\ b.kind \in {"local", "ldap"}
    BY <1>4, <2>1 DEF Fits, IsConfig, IsFile
  <2>4. SUFFICES ASSUME a.kind = b.kind, b.password = None,
                        \A u \in DOMAIN b.users :
                            u \in DOMAIN a.users /\ a.users[u].hash = b.users[u].hash /\ a.users[u].on = b.users[u].on
                 PROVE  a = RealmOf(doc, was, n)
    BY <1>4, <2>1, <2>2 DEF diff_realms, by_name
  <2>5. RealmOf(doc, was, n) =
          [kind |-> b.kind,
           password |-> IF b.kind = "local" THEN None ELSE a.password,
           users |-> IF b.kind = "local" THEN Merged(a.users, b.users) ELSE Empty]
    BY <1>4, <2>1, <2>4 DEF RealmOf
  <2>6. CASE b.kind # "local"
    BY <2>3, <2>4, <2>5, <2>6 DEF IsRealm
  <2>7. CASE b.kind = "local"
    <3>1. PICK had, users, all : had = a.users /\ users = b.users /\ all = Merged(had, users)
      OBVIOUS
    <3>2. /\ had = [u \in DOMAIN had |-> [hash |-> had[u].hash, on |-> had[u].on, epoch |-> had[u].epoch]]
          /\ a.password = None /\ a = [kind |-> a.kind, password |-> a.password, users |-> had]
      BY <2>3, <2>4, <2>7, <3>1 DEF IsRealm
    <3>3. \A u \in DOMAIN users : u \in DOMAIN had /\ had[u].hash = users[u].hash /\ had[u].on = users[u].on
      BY <2>4, <3>1
    <3>4. DOMAIN all = DOMAIN had /\ all = [u \in DOMAIN all |-> all[u]]
      BY <3>1, <3>3 DEF Merged, Over
    <3>5. ASSUME NEW u \in DOMAIN had PROVE all[u] = had[u]
      <4>1. CASE u \in DOMAIN users
        <5>1. all[u] = [hash |-> users[u].hash, on |-> users[u].on, epoch |-> had[u].epoch]
          BY <3>1, <3>3, <4>1 DEF Merged, Over
        <5>2. had[u] = [hash |-> had[u].hash, on |-> had[u].on, epoch |-> had[u].epoch]
          BY <3>2
        <5> QED
          BY <3>3, <4>1, <5>1, <5>2
      <4>2. CASE u \notin DOMAIN users
        BY <3>1, <4>2 DEF Merged, Over
      <4> QED
        BY <4>1, <4>2
    <3>6. all = had
      <4>1. had = [u \in DOMAIN had |-> had[u]]
        BY <3>2
      <4> QED
        BY <3>4, <3>5, <4>1
    <3> QED
      BY <2>4, <2>5, <2>7, <3>1, <3>2, <3>6
  <2> QED
    BY <2>6, <2>7
<1> QED
  BY <1>3, <1>4

LEMMA AccountsTold ==
  ASSUME NEW doc, NEW was, Fits(doc, was), NEW i, NEW now, now = NewAccounts(was, doc, i)
  PROVE  Unlike(was.accounts, now) \ {i} \subseteq diff_accounts(was, doc, i)
<1> SUFFICES ASSUME NEW n \in Unlike(was.accounts, now), n # i PROVE n \in diff_accounts(was, doc, i)
  OBVIOUS
<1>1. /\ DOMAIN now = DOMAIN doc.accounts \cup DOMAIN was.accounts
      /\ n \in DOMAIN doc.accounts => now[n] = doc.accounts[n]
      /\ n \in DOMAIN was.accounts \ DOMAIN doc.accounts => now[n] = was.accounts[n]
  BY DEF NewAccounts, Over, put_account
<1>2. \/ n \in DOMAIN now \ DOMAIN was.accounts \/ n \in DOMAIN was.accounts \ DOMAIN now
      \/ n \in DOMAIN was.accounts \cap DOMAIN now /\ was.accounts[n] # now[n]
  BY UnlikeIs
<1>3. n \in DOMAIN doc.accounts /\ (n \notin DOMAIN was.accounts \/ was.accounts[n] # doc.accounts[n])
  BY <1>1, <1>2
<1>4. CASE n \notin DOMAIN was.accounts
  BY <1>3, <1>4 DEF diff_accounts
<1>5. CASE n \in DOMAIN was.accounts
  <2>1. PICK a, b : a = was.accounts[n] /\ b = doc.accounts[n]
    OBVIOUS
  <2>2. a = [hash |-> a.hash, role |-> a.role, on |-> a.on] /\ b = [hash |-> b.hash, role |-> b.role, on |-> b.on]
    BY <1>3, <1>5, <2>1 DEF Fits, IsConfig, IsFile, IsAccount
  <2>3. a # b
    BY <1>3, <1>5, <2>1
  <2>4. <<a.role, a.on, a.hash>> # <<b.role, b.on, b.hash>>
    BY <2>2, <2>3
  <2> QED
    BY <1>3, <2>1, <2>4 DEF diff_accounts
<1> QED
  BY <1>4, <1>5

LEMMA MadeSoIsTold ==
  ASSUME NEW doc, NEW was, Fits(doc, was), NEW now, NEW i, MadeSo(now, doc, was, i)
  PROVE  Told(was, now, doc, i)
<1>1. /\ now.settings = NewSettings(was, doc) /\ now.certs = NewCerts(was, doc)
      /\ now.realms = NewRealms(was, doc) /\ now.sites = doc.sites /\ now.accounts = NewAccounts(was, doc, i)
  BY DEF MadeSo
<1>2. Unlike(was.sites, now.sites) \subseteq diff_sites(was, doc)
  BY <1>1 DEF diff_sites
<1> QED
  BY <1>1, <1>2, SettingsTold, CertsTold, RealmsTold, AccountsTold DEF Told

-----------------------------------------------------------------------------
(* Imports: one section after another, and the restart.                       *)

\* Accounts are there, whatever a copy is half way through.
HasAccounts(c) ==
    /\ Sectioned(c)
    /\ Importers \subseteq DOMAIN c.accounts
    /\ \A u \in DOMAIN c.accounts : IsAccount(c.accounts[u])

\* The importer's own account is as it is in the database.
SameStanding(c, i) == c.accounts[i].role = live.accounts[i].role /\ c.accounts[i].on = live.accounts[i].on

\* Whoever the working file is of is at it, if anybody is.
ImportInv ==
    /\ left = [i \in Importers |-> left[i]] /\ copy = [i \in Importers |-> copy[i]]
    /\ last = [i \in Importers |-> last[i]]
    /\ \A i \in Importers : left[i] = [at |-> left[i].at, sites |-> left[i].sites]
    /\ candidate # None => candidate \in Docs
    /\ HasAccounts(live)
    /\ \A i \in Importers : UnderWay(i) =>
          /\ last[i].doc \in Docs /\ ~last[i].done
          /\ HasAccounts(copy[i]) /\ SameStanding(copy[i], i)
    /\ waiting # None =>
          /\ waiting.by \in Importers
          /\ HasAccounts(waiting.config) /\ SameStanding(waiting.config, waiting.by)
    /\ (\E i \in Importers : UnderWay(i)) /\ path # None => path \in Importers /\ UnderWay(path)

LEMMA ImportStart == ImportInit => ImportInv
<1> SUFFICES ASSUME ImportInit PROVE ImportInv
  OBVIOUS
<1>1. IsConfig(live)
  BY ImportAssumption DEF ImportInit
<1>2. HasAccounts(live)
  BY <1>1 DEF IsConfig, HasAccounts, Sectioned
<1> QED
  BY <1>2 DEF ImportInit, ImportInv, UnderWay, Idle

\* A section touches accounts only where they are merged, and one's own keeps its
\* role and its switch.
LEMMA SectionKeeps ==
  ASSUME NEW was, HasAccounts(was), NEW doc, IsFile(doc), NEW i \in Importers,
         NEW section \in DOMAIN Following, NEW now, now = apply(section, was, doc, i)
  PROVE  /\ HasAccounts(now)
         /\ now.accounts[i].role = was.accounts[i].role /\ now.accounts[i].on = was.accounts[i].on
<1>1. CASE section = "accounts"
  <2>1. now = put_accounts(was, doc, i)
    BY <1>1 DEF apply
  <2>2. PICK all : all = Over([u \in DOMAIN doc.accounts |-> put_account(was, doc, u, i)], was.accounts)
    OBVIOUS
  <2>3. Sectioned(now) /\ now.accounts = all
    BY <2>1, <2>2 DEF put_accounts, HasAccounts, Sectioned
  <2>4. /\ DOMAIN all = DOMAIN doc.accounts \cup DOMAIN was.accounts
        /\ \A u \in DOMAIN all : all[u] = IF u \in DOMAIN doc.accounts THEN put_account(was, doc, u, i) ELSE was.accounts[u]
    BY <2>2 DEF Over
  <2>5. \A u \in DOMAIN was.accounts : IsAccount(was.accounts[u])
    BY DEF HasAccounts
  <2>6. \A u \in DOMAIN doc.accounts : IsAccount(put_account(was, doc, u, i))
    BY <2>5 DEF put_account, IsAccount, IsFile
  <2>7. i \in DOMAIN was.accounts /\ Importers \subseteq DOMAIN all
    BY <2>4 DEF HasAccounts
  <2>8. all[i].role = was.accounts[i].role /\ all[i].on = was.accounts[i].on
    <3>1. was.accounts[i] = [hash |-> was.accounts[i].hash, role |-> was.accounts[i].role, on |-> was.accounts[i].on]
      BY <2>5, <2>7 DEF IsAccount
    <3>2. CASE i \in DOMAIN doc.accounts
      <4>1. all[i] = [was.accounts[i] EXCEPT !.hash = doc.accounts[i].hash]
        BY <2>4, <2>7, <3>2 DEF put_account
      <4> QED
        BY <3>1, <4>1
    <3>3. CASE i \notin DOMAIN doc.accounts
      BY <2>4, <2>7, <3>3
    <3> QED
      BY <3>2, <3>3
  <2>9. \A u \in DOMAIN all : IsAccount(all[u])
    BY <2>4, <2>5, <2>6
  <2> QED
    BY <2>3, <2>7, <2>8, <2>9 DEF HasAccounts
<1>2. CASE section # "accounts"
  <2>1. section \in {"settings", "policies", "certificates", "realms", "sites", "unnamed", "checked"}
    BY <1>2 DEF Following
  <2>2. Sectioned(now) /\ now.accounts = was.accounts
    BY <2>1 DEF apply, put_settings, put_policies, put_certs, put_realms, clear_site_auth, remove_sites,
               remove_certs, HasAccounts, Sectioned
  <2> QED
    BY <2>2 DEF HasAccounts
<1> QED
  BY <1>1, <1>2

LEMMA SiteKeeps ==
  ASSUME NEW was, HasAccounts(was), NEW doc, NEW s, NEW now, now = put_site(was, doc, s)
  PROVE  HasAccounts(now) /\ now.accounts = was.accounts
<1>1. Sectioned(now) /\ now.accounts = was.accounts
  BY DEF put_site, HasAccounts, Sectioned
<1> QED
  BY <1>1 DEF HasAccounts

\* An importer that goes on, or ends.
LEMMA ImporterMoves ==
  ASSUME ImportInv, NEW i \in Importers, UnderWay(i), NEW todo, NEW now,
         todo = [at |-> todo.at, sites |-> todo.sites], todo.at # "idle",
         GoesOn(i, todo, now) \/ GivesUp(i),
         UNCHANGED <<live, offered, candidate, waiting, imports, changes>>,
         HasAccounts(now), SameStanding(now, i)
  PROVE  ImportInv'
<1>1. /\ left = [j \in Importers |-> left[j]] /\ copy = [j \in Importers |-> copy[j]]
      /\ last = [j \in Importers |-> last[j]]
      /\ \A j \in Importers : left[j] = [at |-> left[j].at, sites |-> left[j].sites]
  BY DEF ImportInv
<1>2. CASE GoesOn(i, todo, now)
  <2>1. /\ left' = [left EXCEPT ![i] = todo] /\ copy' = [copy EXCEPT ![i] = now]
        /\ path' = path /\ last' = last
    BY <1>2 DEF GoesOn
  <2>2. \A j \in Importers : /\ left'[j] = (IF j = i THEN todo ELSE left[j])
                             /\ copy'[j] = (IF j = i THEN now ELSE copy[j])
    BY <1>1, <2>1
  <2>3. \A j \in Importers : UnderWay(j)' => UnderWay(j)
    BY <2>2 DEF UnderWay
  <2>4. ASSUME NEW j \in Importers, UnderWay(j)'
        PROVE  /\ last'[j].doc \in Docs /\ ~last'[j].done
               /\ HasAccounts(copy[j])' /\ SameStanding(copy[j], j)'
    <3>1. last[j].doc \in Docs /\ ~last[j].done /\ HasAccounts(copy[j]) /\ SameStanding(copy[j], j)
      BY <2>3, <2>4 DEF ImportInv
    <3>2. HasAccounts(copy'[j]) /\ SameStanding(copy'[j], j)
      BY <2>2, <3>1
    <3> QED
      BY <2>1, <3>1, <3>2 DEF SameStanding, HasAccounts
  <2>5. waiting' # None => /\ waiting'.by \in Importers
                           /\ HasAccounts(waiting'.config) /\ SameStanding(waiting.config, waiting.by)'
    BY DEF ImportInv, SameStanding
  <2>6. (\E j \in Importers : UnderWay(j))' /\ path' # None => path' \in Importers /\ UnderWay(path)'
    BY <2>1, <2>2, <2>3 DEF ImportInv, UnderWay
  <2>7. HasAccounts(live') /\ (candidate' # None => candidate' \in Docs)
    BY DEF ImportInv
  <2> QED
    BY <1>1, <2>1, <2>2, <2>4, <2>5, <2>6, <2>7 DEF ImportInv, HasAccounts
<1>3. CASE GivesUp(i)
  <2>1. /\ left' = [left EXCEPT ![i] = Idle] /\ copy' = [copy EXCEPT ![i] = None]
        /\ path' = None /\ last' = [last EXCEPT ![i] = None]
    BY <1>3 DEF GivesUp
  <2>2. \A j \in Importers : /\ left'[j] = (IF j = i THEN Idle ELSE left[j])
                             /\ j # i => copy'[j] = copy[j] /\ last'[j] = last[j]
    BY <1>1, <2>1
  <2>3. \A j \in Importers : UnderWay(j)' => UnderWay(j) /\ j # i
    BY <2>2 DEF UnderWay, Idle
  <2>4. ASSUME NEW j \in Importers, UnderWay(j)'
        PROVE  /\ last'[j].doc \in Docs /\ ~last'[j].done
               /\ HasAccounts(copy[j])' /\ SameStanding(copy[j], j)'
    <3>1. last[j].doc \in Docs /\ ~last[j].done /\ HasAccounts(copy[j]) /\ SameStanding(copy[j], j)
      BY <2>3, <2>4 DEF ImportInv
    <3>2. copy'[j] = copy[j] /\ last'[j] = last[j]
      BY <2>2, <2>3, <2>4
    <3> QED
      BY <3>1, <3>2 DEF SameStanding, HasAccounts
  <2>5. waiting' # None => /\ waiting'.by \in Importers
                           /\ HasAccounts(waiting'.config) /\ SameStanding(waiting.config, waiting.by)'
    BY DEF ImportInv, SameStanding
  <2>6. \A j \in Importers : left'[j] = [at |-> left'[j].at, sites |-> left'[j].sites]
    BY <1>1, <2>2 DEF Idle
  <2>7. HasAccounts(live') /\ (candidate' # None => candidate' \in Docs)
    BY DEF ImportInv
  <2> QED
    BY <1>1, <2>1, <2>4, <2>5, <2>6, <2>7 DEF ImportInv, HasAccounts
<1> QED
  BY <1>2, <1>3

LEMMA SectionStep ==
  ASSUME ImportInv, NEW i \in Importers, apply_section(i)
  PROVE  ImportInv'
<1>1. PICK section, was, doc, todo, now :
         /\ section = left[i].at /\ was = copy[i] /\ doc = last[i].doc
         /\ todo = [left[i] EXCEPT !.at = Following[section]] /\ now = apply(section, was, doc, i)
  OBVIOUS
<1>2. /\ section \in DOMAIN Following /\ (GoesOn(i, todo, now) \/ GivesUp(i))
      /\ UNCHANGED <<live, offered, candidate, waiting, imports, changes>>
  BY <1>1 DEF apply_section
<1>3. UnderWay(i)
  BY <1>1, <1>2 DEF UnderWay, Following
<1>4. HasAccounts(was) /\ SameStanding(was, i) /\ IsFile(doc)
  BY <1>1, <1>3, ImportAssumption DEF ImportInv
<1>5. HasAccounts(now) /\ SameStanding(now, i)
  BY <1>1, <1>2, <1>4, SectionKeeps DEF SameStanding
<1>6. left[i] = [at |-> left[i].at, sites |-> left[i].sites]
  BY DEF ImportInv
<1>7. todo = [at |-> todo.at, sites |-> todo.sites] /\ todo.at # "idle"
  BY <1>1, <1>2, <1>6 DEF Following
<1> QED
  BY <1>2, <1>3, <1>5, <1>7, ImporterMoves

LEMMA SiteStep ==
  ASSUME ImportInv, NEW i \in Importers, apply_site(i)
  PROVE  ImportInv'
<1>1. PICK s, was, doc, todo, now :
         /\ was = copy[i] /\ doc = last[i].doc
         /\ todo = [left[i] EXCEPT !.sites = @ \ {s}] /\ now = put_site(was, doc, s)
         /\ GoesOn(i, todo, now) \/ GivesUp(i)
  BY DEF apply_site
<1>2. left[i].at = "unnamed" /\ UNCHANGED <<live, offered, candidate, waiting, imports, changes>>
  BY DEF apply_site
<1>3. UnderWay(i)
  BY <1>2 DEF UnderWay
<1>4. HasAccounts(was) /\ SameStanding(was, i)
  BY <1>1, <1>3 DEF ImportInv
<1>5. HasAccounts(now) /\ SameStanding(now, i)
  BY <1>1, <1>4, SiteKeeps DEF SameStanding
<1>6. left[i] = [at |-> left[i].at, sites |-> left[i].sites]
  BY DEF ImportInv
<1>7. todo = [at |-> todo.at, sites |-> todo.sites] /\ todo.at # "idle"
  BY <1>1, <1>2, <1>6
<1> QED
  BY <1>1, <1>2, <1>3, <1>5, <1>7, ImporterMoves

LEMMA BeginStep ==
  ASSUME ImportInv, NEW i \in Importers, post_import_apply(i)
  PROVE  ImportInv'
<1>1. /\ left = [j \in Importers |-> left[j]] /\ copy = [j \in Importers |-> copy[j]]
      /\ last = [j \in Importers |-> last[j]]
      /\ \A j \in Importers : left[j] = [at |-> left[j].at, sites |-> left[j].sites]
      /\ HasAccounts(live)
  BY DEF ImportInv
<1>2. PICK todo, said : /\ todo = [at |-> "settings", sites |-> DOMAIN candidate.sites]
                        /\ said = [doc |-> candidate, before |-> live, done |-> FALSE]
  OBVIOUS
<1>3. /\ left' = [left EXCEPT ![i] = todo] /\ copy' = [copy EXCEPT ![i] = live]
      /\ last' = [last EXCEPT ![i] = said] /\ path' = i /\ candidate \in Docs
      /\ UNCHANGED <<live, offered, candidate, waiting>>
  BY <1>2 DEF post_import_apply, ImportInv
<1>4. \A j \in Importers : /\ left'[j] = (IF j = i THEN todo ELSE left[j])
                           /\ copy'[j] = (IF j = i THEN live ELSE copy[j])
                           /\ last'[j] = (IF j = i THEN said ELSE last[j])
  BY <1>1, <1>3
<1>5. UnderWay(i)'
  BY <1>2, <1>4 DEF UnderWay
<1>6. ASSUME NEW j \in Importers, UnderWay(j)'
      PROVE  /\ last'[j].doc \in Docs /\ ~last'[j].done
             /\ HasAccounts(copy[j])' /\ SameStanding(copy[j], j)'
  <2>1. CASE j = i
    BY <1>1, <1>2, <1>3, <1>4, <2>1 DEF SameStanding, HasAccounts
  <2>2. CASE j # i
    <3>1. UnderWay(j) /\ copy'[j] = copy[j] /\ last'[j] = last[j]
      BY <1>4, <1>6, <2>2 DEF UnderWay
    <3>2. last[j].doc \in Docs /\ ~last[j].done /\ HasAccounts(copy[j]) /\ SameStanding(copy[j], j)
      BY <3>1 DEF ImportInv
    <3> QED
      BY <1>3, <3>1, <3>2 DEF SameStanding, HasAccounts
  <2> QED
    BY <2>1, <2>2
<1>7. waiting' # None => /\ waiting'.by \in Importers
                         /\ HasAccounts(waiting'.config) /\ SameStanding(waiting.config, waiting.by)'
  BY <1>3 DEF ImportInv, SameStanding
<1>8. \A j \in Importers : left'[j] = [at |-> left'[j].at, sites |-> left'[j].sites]
  BY <1>1, <1>2, <1>4
<1> QED
  BY <1>1, <1>3, <1>5, <1>6, <1>7, <1>8 DEF ImportInv, HasAccounts

LEMMA StagedStep ==
  ASSUME ImportInv, NEW i \in Importers, stage(i)
  PROVE  ImportInv'
<1>1. /\ left = [j \in Importers |-> left[j]] /\ copy = [j \in Importers |-> copy[j]]
      /\ last = [j \in Importers |-> last[j]]
      /\ \A j \in Importers : left[j] = [at |-> left[j].at, sites |-> left[j].sites]
      /\ HasAccounts(live)
  BY DEF ImportInv
<1>2. /\ left' = [left EXCEPT ![i] = Idle] /\ copy' = [copy EXCEPT ![i] = None]
      /\ last' = last \/ last' = [last EXCEPT ![i] = None]
      /\ path' = None /\ (candidate' # None => candidate' = candidate) /\ live' = live
      /\ waiting' = waiting \/ (path # None /\ waiting' = [by |-> path, config |-> copy[path]])
  BY DEF stage
<1>3. \A j \in Importers : /\ left'[j] = (IF j = i THEN Idle ELSE left[j])
                           /\ j # i => copy'[j] = copy[j] /\ last'[j] = last[j]
  BY <1>1, <1>2
<1>4. \A j \in Importers : UnderWay(j)' => UnderWay(j) /\ j # i
  BY <1>3 DEF UnderWay, Idle
<1>5. ASSUME NEW j \in Importers, UnderWay(j)'
      PROVE  /\ last'[j].doc \in Docs /\ ~last'[j].done
             /\ HasAccounts(copy[j])' /\ SameStanding(copy[j], j)'
  <2>1. last[j].doc \in Docs /\ ~last[j].done /\ HasAccounts(copy[j]) /\ SameStanding(copy[j], j)
    BY <1>4, <1>5 DEF ImportInv
  <2>2. copy'[j] = copy[j] /\ last'[j] = last[j]
    BY <1>3, <1>4, <1>5
  <2> QED
    BY <1>2, <2>1, <2>2 DEF SameStanding, HasAccounts
<1>6. waiting' # None => /\ waiting'.by \in Importers
                         /\ HasAccounts(waiting'.config) /\ SameStanding(waiting.config, waiting.by)'
  <2>1. CASE waiting' = waiting
    BY <1>2, <2>1 DEF ImportInv, SameStanding
  <2>2. CASE path # None /\ waiting' = [by |-> path, config |-> copy[path]]
    <3>1. UnderWay(i)
      BY DEF stage, UnderWay
    <3>2. path \in Importers /\ UnderWay(path)
      BY <2>2, <3>1 DEF ImportInv
    <3>3. HasAccounts(copy[path]) /\ SameStanding(copy[path], path)
      BY <3>2 DEF ImportInv
    <3>4. waiting'.by = path /\ waiting'.config = copy[path]
      BY <2>2
    <3> QED
      BY <1>2, <3>2, <3>3, <3>4 DEF SameStanding
  <2> QED
    BY <1>2, <2>1, <2>2
<1>7. \A j \in Importers : left'[j] = [at |-> left'[j].at, sites |-> left'[j].sites]
  BY <1>1, <1>3 DEF Idle
<1>8. candidate' # None => candidate' \in Docs
  BY <1>2 DEF ImportInv
<1>9. /\ left' = [j \in Importers |-> left'[j]] /\ copy' = [j \in Importers |-> copy'[j]]
      /\ last' = [j \in Importers |-> last'[j]]
  BY <1>1, <1>2
<1> QED
  BY <1>1, <1>2, <1>5, <1>6, <1>7, <1>8, <1>9 DEF ImportInv, HasAccounts

LEMMA RestartedStep ==
  ASSUME ImportInv, request_restart
  PROVE  ImportInv'
<1>1. /\ waiting # None /\ live' = waiting.config /\ waiting' = None /\ candidate' = candidate
      /\ left' = [i \in Importers |-> Idle] /\ copy' = [i \in Importers |-> None]
      /\ last' = [i \in Importers |-> last'[i]]
  BY DEF request_restart
<1>2. HasAccounts(live')
  BY <1>1 DEF ImportInv
<1>3. \A i \in Importers : ~UnderWay(i)' /\ left'[i] = Idle
  BY <1>1 DEF UnderWay, Idle
<1>4. \A i \in Importers : left'[i] = [at |-> left'[i].at, sites |-> left'[i].sites]
  BY <1>3 DEF Idle
<1>5. /\ left' = [i \in Importers |-> left'[i]] /\ copy' = [i \in Importers |-> copy'[i]]
  BY <1>1
<1>6. candidate' # None => candidate' \in Docs
  BY <1>1 DEF ImportInv
<1> QED
  BY <1>1, <1>2, <1>3, <1>4, <1>5, <1>6 DEF ImportInv, HasAccounts

\* A site's policy or an account's password, and nothing else.
LEMMA OthersChange ==
  ASSUME Sectioned(live), SomebodyElse
  PROVE  /\ Sectioned(live)' /\ DOMAIN live'.accounts = DOMAIN live.accounts
         /\ live'.realms = live.realms /\ live'.certs = live.certs
         /\ \A u \in DOMAIN live.accounts :
               live'.accounts[u] = live.accounts[u] \/ live'.accounts[u] = [live.accounts[u] EXCEPT !.hash = "changed"]
<1>1. CASE \E s \in DOMAIN live.sites, p \in DOMAIN live.policies \cup {None} :
             live' = [live EXCEPT !.sites[s].policy = p]
  BY <1>1 DEF Sectioned
<1>2. CASE \E u \in DOMAIN live.accounts : live' = [live EXCEPT !.accounts[u].hash = "changed"]
  <2>1. PICK u \in DOMAIN live.accounts : live' = [live EXCEPT !.accounts[u].hash = "changed"]
    BY <1>2
  <2>2. PICK all : all = [live.accounts EXCEPT ![u].hash = "changed"]
    OBVIOUS
  <2>3. Sectioned(live)' /\ live'.accounts = all /\ live'.realms = live.realms /\ live'.certs = live.certs
    BY <2>1, <2>2 DEF Sectioned
  <2>4. DOMAIN all = DOMAIN live.accounts
    BY <2>2
  <2>5. ASSUME NEW t \in DOMAIN live.accounts
        PROVE  all[t] = live.accounts[t] \/ all[t] = [live.accounts[t] EXCEPT !.hash = "changed"]
    BY <2>2
  <2> QED
    BY <2>3, <2>4, <2>5
<1> QED
  BY <1>1, <1>2 DEF SomebodyElse

LEMMA OthersStep ==
  ASSUME ImportInv, SomebodyElse
  PROVE  ImportInv'
<1>1. HasAccounts(live)
  BY DEF ImportInv
<1>2. /\ Sectioned(live)' /\ DOMAIN live'.accounts = DOMAIN live.accounts
      /\ \A u \in DOMAIN live.accounts :
            live'.accounts[u] = live.accounts[u] \/ live'.accounts[u] = [live.accounts[u] EXCEPT !.hash = "changed"]
  BY <1>1, OthersChange DEF HasAccounts
<1>3. \A u \in DOMAIN live.accounts :
         /\ IsAccount(live'.accounts[u])
         /\ live'.accounts[u].role = live.accounts[u].role /\ live'.accounts[u].on = live.accounts[u].on
  BY <1>1, <1>2 DEF HasAccounts, IsAccount
<1>4. HasAccounts(live)'
  BY <1>1, <1>2, <1>3 DEF HasAccounts
<1>5. \A i \in Importers : /\ live'.accounts[i].role = live.accounts[i].role
                           /\ live'.accounts[i].on = live.accounts[i].on
  BY <1>1, <1>3 DEF HasAccounts
<1>6. /\ UNCHANGED <<candidate, left, copy, path, waiting>>
      /\ last' = [i \in Importers |-> IF last[i] # None /\ last[i].done THEN None ELSE last[i]]
  BY DEF SomebodyElse
<1>7. ASSUME NEW j \in Importers, UnderWay(j)'
      PROVE  /\ last'[j].doc \in Docs /\ ~last'[j].done
             /\ HasAccounts(copy[j])' /\ SameStanding(copy[j], j)'
  <2>1. UnderWay(j)
    BY <1>6, <1>7 DEF UnderWay
  <2>2. last[j].doc \in Docs /\ ~last[j].done /\ HasAccounts(copy[j]) /\ SameStanding(copy[j], j)
    BY <2>1 DEF ImportInv
  <2>3. last'[j] = last[j]
    BY <1>6, <2>2
  <2> QED
    BY <1>5, <1>6, <2>2, <2>3 DEF SameStanding
<1>8. waiting' # None => /\ waiting'.by \in Importers
                         /\ HasAccounts(waiting'.config) /\ SameStanding(waiting.config, waiting.by)'
  BY <1>5, <1>6 DEF ImportInv, SameStanding
<1>9. (\E j \in Importers : UnderWay(j))' /\ path' # None => path' \in Importers /\ UnderWay(path)'
  BY <1>6 DEF ImportInv, UnderWay
<1>10. /\ left' = [j \in Importers |-> left'[j]] /\ copy' = [j \in Importers |-> copy'[j]]
       /\ last' = [j \in Importers |-> last'[j]]
       /\ \A j \in Importers : left'[j] = [at |-> left'[j].at, sites |-> left'[j].sites]
       /\ candidate' # None => candidate' \in Docs
  BY <1>6 DEF ImportInv
<1> QED
  BY <1>4, <1>7, <1>8, <1>9, <1>10 DEF ImportInv

LEMMA ImportRest ==
  ASSUME ImportInv, UNCHANGED <<live, left, copy, path, waiting, last>>,
         candidate' # None => candidate' = candidate \/ candidate' \in Docs
  PROVE  ImportInv'
BY DEF ImportInv, UnderWay, SameStanding, HasAccounts

LEMMA ImportStep == ImportInv /\ [ImportNext]_importVars => ImportInv'
<1> SUFFICES ASSUME ImportInv, [ImportNext]_importVars PROVE ImportInv'
  OBVIOUS
<1>1. CASE importVars' = importVars
  BY <1>1, ImportRest DEF importVars
<1>2. CASE post_import_upload \/ post_import_discard \/ Withdraw
  BY <1>2, ImportRest DEF post_import_upload, post_import_discard, Withdraw
<1>3. CASE request_restart
  BY <1>3, RestartedStep
<1>4. CASE SomebodyElse
  BY <1>4, OthersStep
<1>5. CASE \E i \in Importers : ImportSteps(i)
  BY <1>5, SectionStep, SiteStep, BeginStep, StagedStep DEF ImportSteps
<1> QED
  BY <1>1, <1>2, <1>3, <1>4, <1>5 DEF ImportNext

\* Whoever imports keeps the account it is done with ("an import must not be able to
\* lock out the person running it", import.rs:36): any number of administrators, at
\* once, whosever working file is staged.
THEOREM ImporterIsKept == ImportSpec => ImporterStays
<1>1. ImportInv /\ [ImportNext]_importVars =>
        [\A i \in Importers :
            waiting # None /\ waiting.by = i /\ waiting' = None =>
                <<live.accounts[i].role, live.accounts[i].on>> = <<live'.accounts[i].role, live'.accounts[i].on>>]_importVars
  <2> SUFFICES ASSUME ImportInv, ImportNext, NEW i \in Importers, waiting # None, waiting.by = i, waiting' = None
               PROVE  live'.accounts[i].role = live.accounts[i].role /\ live'.accounts[i].on = live.accounts[i].on
    OBVIOUS
  <2>1. CASE request_restart
    <3>1. live' = waiting.config /\ SameStanding(waiting.config, i)
      BY <2>1 DEF request_restart, ImportInv
    <3> QED
      BY <3>1 DEF SameStanding
  <2>2. CASE ~request_restart
    <3>1. live' = live \/ SomebodyElse
      BY <2>2 DEF ImportNext, post_import_upload, post_import_discard, Withdraw, ImportSteps, apply_section, apply_site,
                  post_import_apply, stage
    <3>2. CASE SomebodyElse
      BY <3>2 DEF SomebodyElse
    <3> QED
      BY <3>1, <3>2
  <2> QED
    BY <2>1, <2>2
<1> QED
  BY <1>1, ImportStart, ImportStep, PTL DEF ImportSpec, ImporterStays

-----------------------------------------------------------------------------
(* Imports: one at a time, what comes out is the file.                        *)

\* Two imports never overlap.
OneImportAtATime == \A i, j \in Importers : UnderWay(i) /\ UnderWay(j) => i = j

FileInv ==
    /\ IsConfig(live)
    /\ \A i \in Importers : UnderWay(i) =>
          /\ path = i /\ (waiting # None => waiting.by # i)
          /\ left[i].at \in DOMAIN Following \cup {"stage"}
          /\ Fits(last[i].doc, last[i].before)
          /\ Written(left[i].at, left[i].sites, copy[i], last[i].doc, last[i].before, i)
    /\ waiting # None =>
          /\ Fits(last[waiting.by].doc, last[waiting.by].before)
          /\ MadeSo(waiting.config, last[waiting.by].doc, last[waiting.by].before, waiting.by)
          /\ ~last[waiting.by].done
    /\ \A i \in Importers : last[i] # None /\ last[i].done =>
          /\ Fits(last[i].doc, last[i].before)
          /\ MadeSo(live, last[i].doc, last[i].before, i)

\* The section before the certificates that go: all sites are the file's, and none of
\* them serves with one that goes.
LEMMA UnnamedGo ==
  ASSUME NEW doc, NEW had, Fits(doc, had), NEW i, NEW was,
         Written("unnamed", {}, was, doc, had, i), NEW now, now = remove_certs(was, doc)
  PROVE  Written("accounts", {}, now, doc, had, i)
<1>1. /\ Sectioned(was) /\ was.settings = NewSettings(had, doc) /\ was.policies = NewPolicies(doc)
      /\ was.certs = AllCerts(had, doc) /\ was.realms = NewRealms(had, doc)
      /\ was.accounts = had.accounts
      /\ DOMAIN was.sites \subseteq DOMAIN doc.sites
      /\ was.sites = [s \in DOMAIN was.sites |-> was.sites[s]]
      /\ \A s \in DOMAIN doc.sites : s \in DOMAIN was.sites /\ was.sites[s] = doc.sites[s]
  BY DEF Written
<1>2. PICK goes, sites, certs :
         /\ goes = Unnamed(was, doc) /\ certs = Without(was.certs, goes)
         /\ sites = [s \in DOMAIN was.sites |-> [was.sites[s] EXCEPT !.cert = IF @ \in goes THEN None ELSE @]]
  OBVIOUS
<1>3. now = [was EXCEPT !.certs = certs, !.sites = sites]
  BY <1>2 DEF remove_certs
<1>4. /\ Sectioned(now) /\ now.settings = was.settings /\ now.policies = was.policies /\ now.realms = was.realms
      /\ now.accounts = was.accounts /\ now.certs = certs /\ now.sites = sites
  BY <1>1, <1>3 DEF Sectioned
<1>5. certs = NewCerts(had, doc)
  BY <1>1, <1>2 DEF NewCerts, Unnamed
<1>6. sites = doc.sites
  <2>1. DOMAIN sites = DOMAIN doc.sites
    BY <1>1, <1>2
  <2>2. ASSUME NEW s \in DOMAIN doc.sites PROVE sites[s] = doc.sites[s]
    <3>1. PICK row : row = doc.sites[s]
      OBVIOUS
    <3>2. row = [host |-> row.host, aliases |-> row.aliases, policy |-> row.policy, cert |-> row.cert, realm |-> row.realm]
      BY <3>1 DEF Fits, IsFile
    <3>3. row.cert \in Usable(doc, had) \cup {None}
      BY <3>1 DEF Fits, SitesRefused
    <3>4. row.cert \in goes => row.cert = None
      BY <1>2, <3>3 DEF Usable, Unnamed
    <3>5. sites[s] = [row EXCEPT !.cert = IF @ \in goes THEN None ELSE @]
      BY <1>1, <1>2, <3>1
    <3>6. [row EXCEPT !.cert = IF @ \in goes THEN None ELSE @] = row
      BY <3>2, <3>4
    <3> QED
      BY <3>1, <3>5, <3>6
  <2>3. doc.sites = [s \in DOMAIN doc.sites |-> doc.sites[s]] /\ sites = [s \in DOMAIN sites |-> sites[s]]
    BY <1>2 DEF Fits, IsFile
  <2> QED
    BY <2>1, <2>2, <2>3
<1> QED
  BY <1>1, <1>4, <1>5, <1>6 DEF Written

\* Every section writes what it is there for.
LEMMA SectionWrites ==
  ASSUME NEW doc, NEW had, Fits(doc, had), NEW i, NEW was, NEW sites,
         NEW section \in DOMAIN Following, section = "unnamed" => sites = {},
         Written(section, sites, was, doc, had, i), NEW now, now = apply(section, was, doc, i)
  PROVE  Written(Following[section], sites, now, doc, had, i)
<1>1. section \in {"settings", "policies", "certificates", "realms", "sites", "unnamed", "accounts", "checked"}
  BY DEF Following
<1>2. /\ Following["settings"] = "policies" /\ Following["policies"] = "certificates"
      /\ Following["certificates"] = "realms" /\ Following["realms"] = "sites"
      /\ Following["sites"] = "unnamed" /\ Following["unnamed"] = "accounts"
      /\ Following["accounts"] = "checked" /\ Following["checked"] = "stage"
  BY DEF Following
<1>3. Sectioned(was)
  BY DEF Written
<1>4. CASE section = "settings"
  <2>1. PICK new : new = Over(Only(doc.settings, Exported), Without(was.settings, Exported))
    OBVIOUS
  <2>2. now = [was EXCEPT !.settings = new]
    BY <1>4, <2>1 DEF apply, put_settings
  <2>3. new = NewSettings(had, doc)
    BY <1>4, <2>1 DEF Written, NewSettings
  <2>4. /\ Sectioned(now) /\ now.settings = new /\ now.policies = was.policies /\ now.realms = was.realms
        /\ now.accounts = was.accounts /\ now.certs = was.certs /\ now.sites = was.sites
    BY <1>3, <2>2 DEF Sectioned
  <2> QED
    BY <1>2, <1>4, <2>3, <2>4 DEF Written
<1>5. CASE section = "policies"
  <2>1. PICK new, others : now = [was EXCEPT !.policies = new, !.sites = others] /\ new = NewPolicies(doc)
    BY <1>5 DEF apply, put_policies, NewPolicies
  <2>2. /\ Sectioned(now) /\ now.settings = was.settings /\ now.policies = new /\ now.realms = was.realms
        /\ now.accounts = was.accounts /\ now.certs = was.certs
    BY <1>3, <2>1 DEF Sectioned
  <2> QED
    BY <1>2, <1>5, <2>1, <2>2 DEF Written
<1>6. CASE section = "certificates"
  <2>1. PICK new : new = AllCerts(had, doc)
    OBVIOUS
  <2>2. was.certs = had.certs
    BY <1>6 DEF Written
  <2>3. now = [was EXCEPT !.certs = new]
    BY <1>6, <2>1, <2>2 DEF apply, put_certs, AllCerts, WithKeys
  <2>4. /\ Sectioned(now) /\ now.settings = was.settings /\ now.policies = was.policies /\ now.realms = was.realms
        /\ now.accounts = was.accounts /\ now.certs = new /\ now.sites = was.sites
    BY <1>3, <2>3 DEF Sectioned
  <2> QED
    BY <1>2, <1>6, <2>1, <2>4 DEF Written
<1>7. CASE section = "realms"
  <2>1. PICK new, asks : new = [r \in DOMAIN doc.realms |-> RealmOf(doc, was, r)] /\ now = [[was EXCEPT !.sites = asks] EXCEPT !.realms = new]
    BY <1>7 DEF apply, put_realms, clear_site_auth
  <2>2. was.realms = had.realms
    BY <1>7 DEF Written
  <2>3. new = NewRealms(had, doc)
    BY <2>1, <2>2 DEF NewRealms, RealmOf
  <2>4. /\ Sectioned(now) /\ now.settings = was.settings /\ now.policies = was.policies /\ now.realms = new
        /\ now.accounts = was.accounts /\ now.certs = was.certs
    BY <1>3, <2>1 DEF Sectioned
  <2> QED
    BY <1>2, <1>7, <2>3, <2>4 DEF Written
<1>8. CASE section = "sites"
  <2>1. PICK new : new = Only(was.sites, DOMAIN doc.sites) /\ now = [was EXCEPT !.sites = new]
    BY <1>8 DEF apply, remove_sites
  <2>2. DOMAIN new \subseteq DOMAIN doc.sites /\ new = [s \in DOMAIN new |-> new[s]]
    BY <2>1 DEF Only
  <2>3. /\ Sectioned(now) /\ now.settings = was.settings /\ now.policies = was.policies /\ now.realms = was.realms
        /\ now.accounts = was.accounts /\ now.certs = was.certs /\ now.sites = new
    BY <1>3, <2>1 DEF Sectioned
  <2>4. sites = DOMAIN doc.sites
    BY <1>8 DEF Written
  <2> QED
    BY <1>2, <1>8, <2>2, <2>3, <2>4 DEF Written
<1>9. CASE section = "unnamed"
  <2>1. now = remove_certs(was, doc) /\ sites = {} /\ Written("unnamed", {}, was, doc, had, i)
    BY <1>9 DEF apply
  <2> QED
    BY <1>2, <1>9, <2>1, UnnamedGo
<1>10. CASE section = "accounts"
  <2>1. PICK new : /\ new = Over([u \in DOMAIN doc.accounts |-> put_account(was, doc, u, i)], was.accounts)
                   /\ now = [was EXCEPT !.accounts = new]
    BY <1>10 DEF apply, put_accounts
  <2>2. was.accounts = had.accounts
    BY <1>10 DEF Written
  <2>3. new = NewAccounts(had, doc, i)
    BY <2>1, <2>2 DEF NewAccounts, put_account
  <2>4. /\ Sectioned(now) /\ now.settings = was.settings /\ now.policies = was.policies /\ now.realms = was.realms
        /\ now.accounts = new /\ now.certs = was.certs /\ now.sites = was.sites
    BY <1>3, <2>1 DEF Sectioned
  <2> QED
    BY <1>2, <1>10, <2>3, <2>4 DEF Written
<1>11. CASE section = "checked"
  <2>1. now = was
    BY <1>11 DEF apply
  <2> QED
    BY <1>2, <1>11, <2>1 DEF Written
<1> QED
  BY <1>1, <1>4, <1>5, <1>6, <1>7, <1>8, <1>9, <1>10, <1>11

\* A site is written as the file has it: whatever it names is there.
LEMMA SiteWrites ==
  ASSUME NEW doc, NEW had, Fits(doc, had), NEW i, NEW was, NEW sites, NEW s \in sites,
         Written("unnamed", sites, was, doc, had, i), NEW now, now = put_site(was, doc, s)
  PROVE  Written("unnamed", sites \ {s}, now, doc, had, i)
<1>1. /\ Sectioned(was) /\ was.policies = NewPolicies(doc)
      /\ was.certs = AllCerts(had, doc) /\ was.realms = NewRealms(had, doc)
      /\ s \in DOMAIN doc.sites /\ DOMAIN was.sites \subseteq DOMAIN doc.sites
      /\ \A t \in DOMAIN doc.sites \ sites : t \in DOMAIN was.sites /\ was.sites[t] = doc.sites[t]
  BY DEF Written
<1>2. PICK want, row : /\ want = doc.sites[s]
                       /\ row = [want EXCEPT !.policy = IF @ \in DOMAIN was.policies THEN @ ELSE None,
                                             !.cert = IF @ \in DOMAIN was.certs THEN @ ELSE None,
                                             !.realm = IF @ \in DOMAIN was.realms THEN @ ELSE None]
  OBVIOUS
<1>3. want = [host |-> want.host, aliases |-> want.aliases, policy |-> want.policy, cert |-> want.cert, realm |-> want.realm]
  BY <1>1, <1>2 DEF Fits, IsFile
<1>4. /\ want.policy \in DOMAIN doc.policies \cup {None} /\ want.cert \in Usable(doc, had) \cup {None}
      /\ want.realm \in DOMAIN doc.realms \cup {None}
  BY <1>1, <1>2 DEF Fits, SitesRefused
<1>5. DOMAIN was.policies = DOMAIN doc.policies /\ DOMAIN was.realms = DOMAIN doc.realms
  BY <1>1 DEF NewPolicies, NewRealms
<1>6. PICK all : all = AllCerts(had, doc)
  OBVIOUS
<1>7. DOMAIN all = WithKeys(doc) \cup DOMAIN had.certs
  BY <1>6, CertsAt
<1>8. want.cert \in DOMAIN was.certs \/ want.cert = None
  <2>1. Management \in DOMAIN had.certs
    BY DEF Fits, IsConfig
  <2> QED
    BY <1>1, <1>4, <1>6, <1>7, <2>1 DEF Usable, WithKeys
<1>9. row = want
  BY <1>2, <1>3, <1>4, <1>5, <1>8
<1>10. PICK new : /\ new = [t \in DOMAIN was.sites \cup {s} |-> IF t = s THEN row ELSE was.sites[t]]
                  /\ now = [was EXCEPT !.sites = new]
  BY <1>2 DEF put_site
<1>11. /\ Sectioned(now) /\ now.settings = was.settings /\ now.policies = was.policies /\ now.realms = was.realms
       /\ now.accounts = was.accounts /\ now.certs = was.certs /\ now.sites = new
  BY <1>1, <1>10 DEF Sectioned
<1>12. /\ DOMAIN new \subseteq DOMAIN doc.sites /\ new = [t \in DOMAIN new |-> new[t]]
       /\ \A t \in DOMAIN doc.sites \ (sites \ {s}) : t \in DOMAIN new /\ new[t] = doc.sites[t]
  BY <1>1, <1>2, <1>9, <1>10
<1> QED
  BY <1>11, <1>12 DEF Written

LEMMA WrittenOut ==
  ASSUME NEW doc, NEW had, NEW i, NEW now, NEW sites, Written("stage", sites, now, doc, had, i)
  PROVE  MadeSo(now, doc, had, i)
BY DEF Written, MadeSo

LEMMA FileStart == ImportInit => FileInv
<1> SUFFICES ASSUME ImportInit PROVE FileInv
  OBVIOUS
<1>1. IsConfig(live)
  BY ImportAssumption DEF ImportInit
<1>2. \A i \in Importers : ~UnderWay(i) /\ last[i] = None
  BY DEF ImportInit, UnderWay, Idle
<1>3. waiting = None
  BY DEF ImportInit
<1> QED
  BY <1>1, <1>2, <1>3 DEF FileInv

\* A step of one who is at it: nobody else is.
LEMMA FileMoves ==
  ASSUME ImportInv, FileInv, NEW i \in Importers, UnderWay(i), NEW todo, NEW now, OneImportAtATime,
         GoesOn(i, todo, now) \/ GivesUp(i),
         UNCHANGED <<live, offered, candidate, waiting, imports, changes>>,
         todo.at \in DOMAIN Following \cup {"stage"},
         Written(todo.at, todo.sites, now, last[i].doc, last[i].before, i)
  PROVE  FileInv'
<1>1. /\ left = [j \in Importers |-> left[j]] /\ copy = [j \in Importers |-> copy[j]]
      /\ last = [j \in Importers |-> last[j]] /\ ~last[i].done
  BY DEF ImportInv
<1>2. waiting # None => waiting.by # i /\ waiting.by \in Importers
  BY DEF FileInv, ImportInv
<1>3. CASE GoesOn(i, todo, now)
  <2>1. /\ left' = [left EXCEPT ![i] = todo] /\ copy' = [copy EXCEPT ![i] = now]
        /\ path' = path /\ last' = last /\ live' = live /\ waiting' = waiting
    BY <1>3 DEF GoesOn
  <2>2. left'[i] = todo /\ copy'[i] = now /\ \A j \in Importers : j # i => left'[j] = left[j]
    BY <1>1, <2>1
  <2>3. ASSUME NEW j \in Importers, UnderWay(j)' PROVE j = i
    BY <2>2, <2>3 DEF UnderWay, OneImportAtATime
  <2>4. path = i /\ (waiting # None => waiting.by # i) /\ Fits(last[i].doc, last[i].before)
    BY DEF FileInv
  <2> QED
    BY <2>1, <2>2, <2>3, <2>4 DEF FileInv
<1>4. CASE GivesUp(i)
  <2>1. /\ left' = [left EXCEPT ![i] = Idle]
        /\ last' = [last EXCEPT ![i] = None] /\ live' = live /\ waiting' = waiting
    BY <1>4 DEF GivesUp
  <2>2. left'[i] = Idle /\ last'[i] = None
        /\ \A j \in Importers : j # i => left'[j] = left[j] /\ last'[j] = last[j]
    BY <1>1, <2>1
  <2>3. \A j \in Importers : ~UnderWay(j)'
    BY <2>2 DEF UnderWay, OneImportAtATime, Idle
  <2>4. waiting' # None =>
          /\ Fits(last'[waiting'.by].doc, last'[waiting'.by].before)
          /\ MadeSo(waiting'.config, last'[waiting'.by].doc, last'[waiting'.by].before, waiting'.by)
          /\ ~last'[waiting'.by].done
    BY <1>2, <2>1, <2>2 DEF FileInv
  <2>5. \A j \in Importers : last'[j] # None /\ last'[j].done =>
          /\ Fits(last'[j].doc, last'[j].before)
          /\ MadeSo(live', last'[j].doc, last'[j].before, j)
    BY <2>1, <2>2 DEF FileInv
  <2> QED
    BY <2>1, <2>3, <2>4, <2>5 DEF FileInv
<1> QED
  BY <1>3, <1>4

LEMMA FileSection ==
  ASSUME ImportInv, FileInv, NEW i \in Importers, apply_section(i), OneImportAtATime
  PROVE  FileInv'
<1>1. PICK section, sites, was, doc, had, todo, now :
         /\ section = left[i].at /\ sites = left[i].sites
         /\ was = copy[i] /\ doc = last[i].doc /\ had = last[i].before
         /\ todo = [left[i] EXCEPT !.at = Following[section]] /\ now = apply(section, was, doc, i)
  OBVIOUS
<1>2. /\ section \in DOMAIN Following /\ (section = "unnamed" => sites = {})
      /\ (GoesOn(i, todo, now) \/ GivesUp(i))
      /\ UNCHANGED <<live, offered, candidate, waiting, imports, changes>>
  BY <1>1 DEF apply_section
<1>3. UnderWay(i)
  BY <1>1, <1>2 DEF UnderWay, Following
<1>4. Fits(doc, had) /\ Written(section, sites, was, doc, had, i)
  BY <1>1, <1>3 DEF FileInv
<1>5. Written(Following[section], sites, now, doc, had, i)
  BY <1>1, <1>2, <1>4, SectionWrites
<1>6. left[i] = [at |-> left[i].at, sites |-> left[i].sites]
  BY DEF ImportInv
<1>7. todo.at = Following[section] /\ todo.sites = sites
  BY <1>1, <1>6
<1>8. Following[section] \in DOMAIN Following \cup {"stage"}
  BY <1>2 DEF Following
<1>9. Written(todo.at, todo.sites, now, last[i].doc, last[i].before, i)
  BY <1>1, <1>5, <1>7
<1> QED
  BY <1>2, <1>3, <1>7, <1>8, <1>9, FileMoves

LEMMA FileSite ==
  ASSUME ImportInv, FileInv, NEW i \in Importers, apply_site(i), OneImportAtATime
  PROVE  FileInv'
<1>1. PICK s \in left[i].sites :
         \/ GivesUp(i)
         \/ GoesOn(i, [left[i] EXCEPT !.sites = @ \ {s}], put_site(copy[i], last[i].doc, s))
  BY DEF apply_site
<1>2. PICK sites, was, doc, had, todo, now :
         /\ sites = left[i].sites
         /\ was = copy[i] /\ doc = last[i].doc /\ had = last[i].before
         /\ todo = [left[i] EXCEPT !.sites = @ \ {s}] /\ now = put_site(was, doc, s)
  OBVIOUS
<1>3. left[i].at = "unnamed" /\ UNCHANGED <<live, offered, candidate, waiting, imports, changes>>
  BY DEF apply_site
<1>4. UnderWay(i)
  BY <1>3 DEF UnderWay
<1>5. Fits(doc, had) /\ Written("unnamed", sites, was, doc, had, i) /\ s \in sites
  BY <1>1, <1>2, <1>3, <1>4 DEF FileInv
<1>6. Written("unnamed", sites \ {s}, now, doc, had, i)
  BY <1>2, <1>5, SiteWrites
<1>7. left[i] = [at |-> left[i].at, sites |-> left[i].sites]
  BY DEF ImportInv
<1>8. todo.at = "unnamed" /\ todo.sites = sites \ {s}
  BY <1>2, <1>3, <1>7
<1>9. Written(todo.at, todo.sites, now, last[i].doc, last[i].before, i)
  BY <1>2, <1>6, <1>8
<1>10. todo.at \in DOMAIN Following \cup {"stage"}
  BY <1>8 DEF Following
<1>11. GoesOn(i, todo, now) \/ GivesUp(i)
  BY <1>1, <1>2
<1> QED
  BY <1>3, <1>4, <1>9, <1>10, <1>11, FileMoves

LEMMA FileBegins ==
  ASSUME ImportInv, FileInv, NEW i \in Importers, post_import_apply(i), OneImportAtATime'
  PROVE  FileInv'
<1>1. /\ left = [j \in Importers |-> left[j]] /\ copy = [j \in Importers |-> copy[j]]
      /\ last = [j \in Importers |-> last[j]]
  BY DEF ImportInv
<1>2. PICK todo, said : /\ todo = [at |-> "settings", sites |-> DOMAIN candidate.sites]
                        /\ said = [doc |-> candidate, before |-> live, done |-> FALSE]
  OBVIOUS
<1>3. /\ left' = [left EXCEPT ![i] = todo] /\ copy' = [copy EXCEPT ![i] = live]
      /\ last' = [last EXCEPT ![i] = said] /\ path' = i /\ candidate \in Docs
      /\ live' = live /\ waiting' = waiting /\ (waiting # None => waiting.by # i) /\ ~Blocked(candidate, live)
  BY <1>2 DEF post_import_apply, ImportInv
<1>4. /\ left'[i] = todo /\ copy'[i] = live /\ last'[i] = said
      /\ \A j \in Importers : j # i => last'[j] = last[j]
  BY <1>1, <1>3
<1>5. ASSUME NEW j \in Importers, UnderWay(j)' PROVE j = i
  <2>1. UnderWay(i)'
    BY <1>2, <1>4 DEF UnderWay
  <2> QED
    BY <1>5, <2>1 DEF OneImportAtATime
<1>6. Fits(candidate, live)
  <2>1. IsFile(candidate) /\ IsConfig(live)
    BY <1>3, ImportAssumption DEF FileInv
  <2> QED
    BY <1>3, <2>1 DEF Fits, Blocked, PoliciesRefused
<1>7. Written("settings", DOMAIN candidate.sites, live, candidate, live, i)
  <2>1. Sectioned(live)
    BY DEF ImportInv, HasAccounts
  <2> QED
    BY <2>1 DEF Written
<1>8. todo.at = "settings" /\ todo.sites = DOMAIN candidate.sites
      /\ said.doc = candidate /\ said.before = live /\ ~said.done
  BY <1>2
<1>9. waiting' # None =>
        /\ Fits(last'[waiting'.by].doc, last'[waiting'.by].before)
        /\ MadeSo(waiting'.config, last'[waiting'.by].doc, last'[waiting'.by].before, waiting'.by)
        /\ ~last'[waiting'.by].done
  BY <1>3, <1>4 DEF FileInv, ImportInv
<1>10. \A j \in Importers : last'[j] # None /\ last'[j].done =>
        /\ Fits(last'[j].doc, last'[j].before)
        /\ MadeSo(live', last'[j].doc, last'[j].before, j)
  BY <1>3, <1>4, <1>8 DEF FileInv
<1>11. "settings" \in DOMAIN Following
  BY DEF Following
<1>12. /\ left'[i].at \in DOMAIN Following \cup {"stage"}
       /\ Fits(last'[i].doc, last'[i].before)
       /\ Written(left'[i].at, left'[i].sites, copy'[i], last'[i].doc, last'[i].before, i)
  BY <1>4, <1>6, <1>7, <1>8, <1>11
<1>13. IsConfig(live)'
  BY <1>3 DEF FileInv, IsConfig
<1> QED
  BY <1>3, <1>5, <1>9, <1>10, <1>12, <1>13 DEF FileInv

LEMMA FileStaged ==
  ASSUME ImportInv, FileInv, NEW i \in Importers, stage(i), OneImportAtATime
  PROVE  FileInv'
<1>1. left = [j \in Importers |-> left[j]]
  BY DEF ImportInv
<1>2. left[i].at = "stage" /\ UnderWay(i)
  BY DEF stage, UnderWay
<1>3. /\ path = i /\ Fits(last[i].doc, last[i].before) /\ ~last[i].done
      /\ Written("stage", left[i].sites, copy[i], last[i].doc, last[i].before, i)
  BY <1>2 DEF FileInv, ImportInv
<1>4. path # None
  BY <1>3, ImportAssumption
<1>5. /\ left' = [left EXCEPT ![i] = Idle] /\ last' = last /\ live' = live
      /\ waiting' = [by |-> i, config |-> copy[i]]
  BY <1>3, <1>4 DEF stage
<1>6. \A j \in Importers : ~UnderWay(j)'
  BY <1>1, <1>2, <1>5 DEF UnderWay, OneImportAtATime, Idle
<1>7. waiting'.by = i /\ waiting'.config = copy[i]
  BY <1>5
<1>8. MadeSo(copy[i], last[i].doc, last[i].before, i)
  BY <1>3, WrittenOut
<1>9. IsConfig(live)'
  BY <1>5 DEF FileInv, IsConfig
<1>10. \A j \in Importers : last'[j] # None /\ last'[j].done =>
        /\ Fits(last'[j].doc, last'[j].before)
        /\ MadeSo(live', last'[j].doc, last'[j].before, j)
  BY <1>5 DEF FileInv
<1>11. /\ Fits(last'[waiting'.by].doc, last'[waiting'.by].before)
       /\ MadeSo(waiting'.config, last'[waiting'.by].doc, last'[waiting'.by].before, waiting'.by)
       /\ ~last'[waiting'.by].done
  BY <1>3, <1>5, <1>7, <1>8
<1> QED
  BY <1>6, <1>9, <1>10, <1>11 DEF FileInv

LEMMA FileRestarted ==
  ASSUME ImportInv, FileInv, request_restart
  PROVE  FileInv'
<1>1. PICK i \in Importers : i = waiting.by
  BY DEF request_restart, ImportInv
<1>2. /\ waiting # None /\ live' = waiting.config /\ waiting' = None
      /\ left' = [j \in Importers |-> Idle]
      /\ last' = [j \in Importers |-> IF j = i /\ last[j] # None THEN [last[j] EXCEPT !.done = TRUE] ELSE None]
  BY <1>1 DEF request_restart
<1>3. \A j \in Importers : ~UnderWay(j)'
  BY <1>2 DEF UnderWay, Idle
<1>4. /\ Fits(last[i].doc, last[i].before)
      /\ MadeSo(live', last[i].doc, last[i].before, i)
  BY <1>1, <1>2 DEF FileInv
<1>5. PICK doc, had : doc = last[i].doc /\ had = last[i].before
  OBVIOUS
<1>6. IsConfig(live')
  BY <1>4, <1>5, MadeSoIsConfig
<1>7. ASSUME NEW j \in Importers, last'[j] # None
      PROVE  j = i /\ last'[j].doc = last[i].doc /\ last'[j].before = last[i].before
  <2>1. j = i /\ last'[j] = [last[i] EXCEPT !.done = TRUE]
    BY <1>2, <1>7
  <2> QED
    BY <2>1
<1>8. \A j \in Importers : last'[j] # None /\ last'[j].done =>
        /\ Fits(last'[j].doc, last'[j].before)
        /\ MadeSo(live', last'[j].doc, last'[j].before, j)
  BY <1>4, <1>7
<1> QED
  BY <1>2, <1>3, <1>6, <1>8 DEF FileInv

LEMMA FileOthers ==
  ASSUME ImportInv, FileInv, SomebodyElse
  PROVE  FileInv'
<1>1. /\ Sectioned(live)' /\ DOMAIN live'.accounts = DOMAIN live.accounts
      /\ live'.realms = live.realms /\ live'.certs = live.certs
      /\ \A u \in DOMAIN live.accounts :
            live'.accounts[u] = live.accounts[u] \/ live'.accounts[u] = [live.accounts[u] EXCEPT !.hash = "changed"]
  BY OthersChange DEF ImportInv, HasAccounts
<1>2. \A u \in DOMAIN live.accounts : IsAccount(live'.accounts[u])
  BY <1>1 DEF FileInv, IsConfig, IsAccount
<1>3. IsConfig(live')
  BY <1>1, <1>2 DEF FileInv, IsConfig, Sectioned
<1>4. /\ UNCHANGED <<candidate, left, copy, path, waiting>>
      /\ last' = [i \in Importers |-> IF last[i] # None /\ last[i].done THEN None ELSE last[i]]
  BY DEF SomebodyElse
<1>5. \A i \in Importers : ~last[i].done => last'[i] = last[i]
  BY <1>4
<1>6. ASSUME NEW i \in Importers PROVE ~(last'[i] # None /\ last'[i].done)
  BY <1>4
<1>7. ASSUME NEW i \in Importers, UnderWay(i)'
      PROVE  UnderWay(i) /\ last'[i] = last[i]
  <2>1. UnderWay(i)
    BY <1>4, <1>7 DEF UnderWay
  <2>2. ~last[i].done
    BY <2>1 DEF ImportInv
  <2> QED
    BY <1>5, <2>1, <2>2
<1>8. ASSUME NEW i \in Importers, UnderWay(i)'
      PROVE  /\ path' = i /\ (waiting' # None => waiting'.by # i)
             /\ left'[i].at \in DOMAIN Following \cup {"stage"}
             /\ Fits(last'[i].doc, last'[i].before)
             /\ Written(left'[i].at, left'[i].sites, copy'[i], last'[i].doc, last'[i].before, i)
  BY <1>4, <1>7, <1>8 DEF FileInv
<1>9. waiting # None => ~last[waiting.by].done /\ waiting.by \in Importers
  BY DEF FileInv, ImportInv
<1>10. waiting' # None =>
        /\ Fits(last'[waiting'.by].doc, last'[waiting'.by].before)
        /\ MadeSo(waiting'.config, last'[waiting'.by].doc, last'[waiting'.by].before, waiting'.by)
        /\ ~last'[waiting'.by].done
  BY <1>4, <1>5, <1>9 DEF FileInv
<1> QED
  BY <1>3, <1>6, <1>8, <1>10 DEF FileInv

LEMMA FileRest ==
  ASSUME FileInv, UNCHANGED <<live, left, copy, path, waiting, last>>
  PROVE  FileInv'
BY DEF FileInv, UnderWay

LEMMA FileStep ==
  ImportInv /\ FileInv /\ OneImportAtATime /\ OneImportAtATime' /\ [ImportNext]_importVars => FileInv'
<1> SUFFICES ASSUME ImportInv, FileInv, OneImportAtATime, OneImportAtATime', [ImportNext]_importVars PROVE FileInv'
  OBVIOUS
<1>1. CASE importVars' = importVars
  BY <1>1, FileRest DEF importVars
<1>2. CASE post_import_upload \/ post_import_discard \/ Withdraw
  BY <1>2, FileRest DEF post_import_upload, post_import_discard, Withdraw
<1>3. CASE request_restart
  BY <1>3, FileRestarted
<1>4. CASE SomebodyElse
  BY <1>4, FileOthers
<1>5. CASE \E i \in Importers : ImportSteps(i)
  BY <1>5, FileSection, FileSite, FileBegins, FileStaged DEF ImportSteps
<1> QED
  BY <1>1, <1>2, <1>3, <1>4, <1>5 DEF ImportNext

\* An import that was swapped in has made of this installation what the file says
\* (backup.rs:478, "make this installation match the held file"), in whatever order
\* the file lists its sites, whatever was there, and whatever somebody changes or the
\* channel withdraws meanwhile; with one import at a time.
THEOREM ImportedAsTheFileSays == ImportSpec /\ []OneImportAtATime => []ImportedIsTheFile
<1>1. FileInv => ImportedIsTheFile
  BY MadeSoIsTheFile DEF FileInv, ImportedIsTheFile
<1> QED
  BY <1>1, ImportStart, ImportStep, FileStart, FileStep, PTL DEF ImportSpec

\* And its preview told of everything it changed but policies (import.rs:87,
\* "Everything an import would do").
THEOREM PreviewToldOfIt == ImportSpec /\ []OneImportAtATime => []ToldWhatChanges
<1>1. FileInv => ToldWhatChanges
  <2> SUFFICES ASSUME FileInv, NEW i \in Importers, last[i] # None /\ last[i].done
               PROVE  Told(last[i].before, live, last[i].doc, i)
    BY DEF ToldWhatChanges, Told
  <2>1. PICK doc, had : doc = last[i].doc /\ had = last[i].before
    OBVIOUS
  <2>2. Fits(doc, had) /\ MadeSo(live, doc, had, i)
    BY <2>1 DEF FileInv
  <2> QED
    BY <2>1, <2>2, MadeSoIsTold
<1> QED
  BY <1>1, ImportStart, ImportStep, FileStart, FileStep, PTL DEF ImportSpec

=============================================================================
