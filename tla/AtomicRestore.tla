--------------------------- MODULE AtomicRestore ---------------------------
(***************************************************************************)
(* What a restore promises the administrator (backup.rs, docs/backup.md):  *)
(* "A restore either works or undoes itself".  There is one database that  *)
(* counts.  Commits go to it; a staged database either takes its place,    *)
(* whole, or is given up, and then every commit is still there.            *)
(***************************************************************************)
EXTENDS Naturals

CONSTANT First    \* the database there is to begin with

VARIABLES
    live,     \* the database that counts
    waiting   \* the one staged to replace it, or NoFile

vars == <<live, waiting>>

NoFile == [kind |-> "none"]

Init == live = First /\ waiting = NoFile

\* The running service commits.
Commit == live' = [live EXCEPT !.writes = @ + 1] /\ UNCHANGED waiting

\* A database is staged, instead of the one that waited, if one did.
Stage == waiting' # NoFile /\ UNCHANGED live

\* It works: the staged database is the one that counts.  It must start.
Works == waiting # NoFile /\ waiting.good /\ live' = waiting /\ waiting' = NoFile

\* Or it undoes itself, and nothing was lost.
Undone == waiting' = NoFile /\ UNCHANGED live

Next == Commit \/ Stage \/ Works \/ Undone

Spec == Init /\ [][Next]_vars
=============================================================================
