---------------------------- MODULE BundleMirror ----------------------------
(***************************************************************************)
(* The mirror of a signed channel on disk: how a bundle, fetched or        *)
(* uploaded, replaces the one before it (install_bundle in                 *)
(* iplist_feeds.rs, and in the same shape in rules_update.rs), and how the *)
(* published lists are loaded from it (reload).                            *)
(*                                                                         *)
(* Everything happens in three directories, the mirror and its siblings    *)
(* ".new" and ".old", shared by whoever installs: the task that checks     *)
(* every few hours and the administrators' pages.  A file is abstracted to *)
(* the version of the bundle it came with, which is what its digest and    *)
(* the signature over the manifest compare; removing a directory and       *)
(* reading or writing a file are one step each.                            *)
(***************************************************************************)
EXTENDS Integers, Sequences

CONSTANTS
    Installers,  \* those who install: the task and the pages
    Lists,       \* the lists a manifest offers, in its order
    MaxVersion,  \* bound on the versions of the bundle
    Broken,      \* versions whose bundle arrives with a file that is not theirs
    MaxFaults,   \* bound on the system calls that fail
    MaxCrashes   \* bound on the restarts of the program

Versions == 1 .. MaxVersion

ASSUME BoundsAssumption ==
    /\ Lists \in Seq({Lists[i] : i \in 1 .. Len(Lists)}) /\ Lists # <<>>
    /\ MaxVersion \in Nat \ {0} /\ Broken \subseteq Versions
    /\ MaxFaults \in Nat /\ MaxCrashes \in Nat

VARIABLES
    live, stage, old, \* the three directories
    task,             \* what each installer does next
    loaded,           \* the lists in memory
    installed,        \* the version last installed, as the installers say
    overlapped,       \* whether two of them ever installed at once (history)
    faults, crashes

dirs == <<live, stage, old>>
vars == <<live, stage, old, task, loaded, installed, overlapped, faults, crashes>>

None == 0
Junk == MaxVersion + 1    \* what is no version's file
Files == {Lists[i] : i \in 1 .. Len(Lists)} \cup {"manifest", "signature"}

\* The files in the order they are written, and in the order they are read.
Written == Lists \o <<"manifest", "signature">>
Read == <<"manifest", "signature">> \o Lists

Absent == [there |-> FALSE, holds |-> [f \in Files |-> None]]
Empty == [there |-> TRUE, holds |-> [f \in Files |-> None]]
Whole(v) == [there |-> TRUE, holds |-> [f \in Files |-> v]]

Directory == [there : BOOLEAN, holds : [Files -> None .. MaxVersion]]

Idle == [step |-> "idle"]

\* An installer: with the bundle of which version, whether by the check, which
\* loads the lists whatever came of it, or by an upload.
Task ==
    {Idle}
    \cup [step : {"clear", "create", "abandon", "drop old", "move live", "move stage",
                  "put back", "tidy"}, version : Versions, check : BOOLEAN]
    \cup [step : {"write"}, version : Versions, check : BOOLEAN, file : 1 .. Len(Written)]
    \cup [step : {"read"}, got : UNION {[1 .. n -> None .. MaxVersion] : n \in 0 .. Len(Read)}]

\* Every variable holds a value of its shape, and a directory that is not there
\* holds nothing.
TypeOK ==
    /\ \A d \in {live, stage, old} : d \in Directory /\ (~d.there => d = Absent)
    /\ task \in [Installers -> Task]
    /\ loaded \in [Files -> None .. MaxVersion]
    /\ installed \in None .. MaxVersion
    /\ overlapped \in BOOLEAN
    /\ faults \in 0 .. MaxFaults /\ crashes \in 0 .. MaxCrashes

\* As if the lists were not compared with the manifest.
Verified_AnyFile(holds) ==
    [f \in Files |->
        IF holds["manifest"] # None /\ holds["signature"] = holds["manifest"]
        THEN holds[f] ELSE None]

\* The lists of a mirror that may be loaded: those whose file is the one its
\* manifest describes, when the manifest is the one its signature is over.
Verified(holds) ==
    [f \in Files |->
        IF holds["signature"] = holds["manifest"] /\ holds[f] = holds["manifest"]
        THEN holds[f] ELSE None]

Init ==
    /\ live \in {Absent, Whole(1)}
    /\ stage = Absent
    /\ old = Absent
    /\ task = [i \in Installers |-> Idle]
    /\ loaded = Verified(live.holds)
    /\ installed = live.holds["manifest"]
    /\ overlapped = FALSE
    /\ faults = 0 /\ crashes = 0

-----------------------------------------------------------------------------

Become(i, next) == task' = [task EXCEPT ![i] = next]
Step(i, step) == Become(i, [step |-> step, version |-> task[i].version, check |-> task[i].check])

Reload == [step |-> "read", got |-> <<>>]

\* The installation is at its end: the lists are loaded after a check, and after
\* an upload that was installed.
Fail(i) == Become(i, IF task[i].check THEN Reload ELSE Idle)

\* A system call fails, as it may.
Fault == faults < MaxFaults /\ faults' = faults + 1

At(i, step) == task[i].step = step

\* sync or post_upload: a bundle with a good signature is in hand.
Begin(i, version, check) ==
    /\ At(i, "idle")
    /\ Become(i, [step |-> "clear", version |-> version, check |-> check])
    /\ overlapped' = (overlapped \/ \E j \in Installers \ {i} : ~At(j, "idle"))
    /\ UNCHANGED <<dirs, loaded, installed, faults, crashes>>

\* What is left of an earlier installation goes; that it may fail is not looked at.
ClearStage(i) ==
    /\ At(i, "clear")
    /\ \/ stage' = Absent /\ UNCHANGED faults
       \/ Fault /\ UNCHANGED stage
    /\ Step(i, "create")
    /\ UNCHANGED <<live, old, loaded, installed, overlapped, crashes>>

CreateStage(i) ==
    /\ At(i, "create")
    /\ \/ /\ stage' = IF stage.there THEN stage ELSE Empty
          /\ Become(i, [step |-> "write", version |-> task[i].version,
                        check |-> task[i].check, file |-> 1])
          /\ UNCHANGED faults
       \/ /\ Fault
          /\ Fail(i)
          /\ UNCHANGED stage
    /\ UNCHANGED <<live, old, loaded, installed, overlapped, crashes>>

\* The file that comes next; the first list of a broken bundle is not its own.
Content(i) == IF task[i].version \in Broken /\ task[i].file = 1
              THEN Junk ELSE task[i].version

\* It is not the file the signed manifest describes.
Mismatch(i) == Content(i) # task[i].version

Writable(i) == stage.there /\ ~Mismatch(i)

\* As if the signature were not written.
More_OneShort(n) == n + 1 < Len(Written)

More(n) == n < Len(Written)

WriteFile(i) ==
    LET n == task[i].file IN
    /\ At(i, "write")
    /\ \/ /\ Writable(i)
          /\ stage' = [stage EXCEPT !.holds[Written[n]] = Content(i)]
          /\ IF More(n) THEN Become(i, [task[i] EXCEPT !.file = n + 1])
                       ELSE Step(i, "drop old")
          /\ UNCHANGED faults
       \/ /\ ~Writable(i)
          /\ Step(i, "abandon")
          /\ UNCHANGED <<stage, faults>>
       \/ /\ Fault
          /\ Step(i, "abandon")
          /\ UNCHANGED stage
    /\ UNCHANGED <<live, old, loaded, installed, overlapped, crashes>>

Abandon(i) ==
    /\ At(i, "abandon")
    /\ \/ stage' = Absent /\ UNCHANGED faults
       \/ Fault /\ UNCHANGED stage
    /\ Fail(i)
    /\ UNCHANGED <<live, old, loaded, installed, overlapped, crashes>>

\* What is left of an earlier swap goes; that it may fail is not looked at.
DropOld(i) ==
    /\ At(i, "drop old")
    /\ \/ old' = Absent /\ UNCHANGED faults
       \/ Fault /\ UNCHANGED old
    /\ Step(i, "move live")
    /\ UNCHANGED <<live, stage, loaded, installed, overlapped, crashes>>

\* A directory is renamed onto one that holds files only to fail.
Occupied(d) == d.there /\ d.holds # Empty.holds

MoveLive(i) ==
    /\ At(i, "move live")
    /\ \/ /\ live.there /\ ~Occupied(old)
          /\ old' = live
          /\ live' = Absent
          /\ Step(i, "move stage")
          /\ UNCHANGED faults
       \/ /\ ~live.there
          /\ Step(i, "move stage")
          /\ UNCHANGED <<live, old, faults>>
       \/ /\ live.there
          /\ \/ Occupied(old) /\ UNCHANGED faults
             \/ Fault
          /\ Fail(i)
          /\ UNCHANGED <<live, old>>
    /\ UNCHANGED <<stage, loaded, installed, overlapped, crashes>>

MoveStage(i) ==
    /\ At(i, "move stage")
    /\ \/ /\ stage.there /\ ~Occupied(live)
          /\ live' = stage
          /\ stage' = Absent
          /\ Step(i, "tidy")
          /\ UNCHANGED faults
       \/ /\ ~stage.there \/ Occupied(live)
          /\ Step(i, "put back")
          /\ UNCHANGED <<live, stage, faults>>
       \/ /\ Fault
          /\ Step(i, "put back")
          /\ UNCHANGED <<live, stage>>
    /\ UNCHANGED <<old, loaded, installed, overlapped, crashes>>

\* The mirror that was moved away comes back, if it can.
PutBack(i) ==
    /\ At(i, "put back")
    /\ \/ /\ old.there /\ ~Occupied(live)
          /\ live' = old
          /\ old' = Absent
          /\ UNCHANGED faults
       \/ /\ ~old.there \/ Occupied(live)
          /\ UNCHANGED <<live, old, faults>>
       \/ /\ Fault
          /\ UNCHANGED <<live, old>>
    /\ Fail(i)
    /\ UNCHANGED <<stage, loaded, installed, overlapped, crashes>>

Tidy(i) ==
    /\ At(i, "tidy")
    /\ \/ old' = Absent /\ UNCHANGED faults
       \/ Fault /\ UNCHANGED old
    /\ installed' = task[i].version
    /\ Become(i, Reload)
    /\ UNCHANGED <<live, stage, loaded, overlapped, crashes>>

\* reload: one file after another, then everything that verified at once.
ReadFile(i) ==
    /\ At(i, "read") /\ Len(task[i].got) < Len(Read)
    /\ Become(i, [task[i] EXCEPT !.got = Append(@, live.holds[Read[Len(@) + 1]])])
    /\ UNCHANGED <<dirs, loaded, installed, overlapped, faults, crashes>>

Got(i) == [f \in Files |-> task[i].got[CHOOSE n \in 1 .. Len(Read) : Read[n] = f]]

SetFeedData(i) ==
    /\ At(i, "read") /\ Len(task[i].got) = Len(Read)
    /\ loaded' = Verified(Got(i))
    /\ Become(i, Idle)
    /\ UNCHANGED <<dirs, installed, overlapped, faults, crashes>>

\* The program stops wherever it is, and loads the mirror when it starts.
Restart ==
    /\ crashes < MaxCrashes
    /\ crashes' = crashes + 1
    /\ task' = [i \in Installers |-> Idle]
    /\ loaded' = Verified(live.holds)
    /\ UNCHANGED <<dirs, installed, overlapped, faults>>

Swap(i) == DropOld(i) \/ MoveLive(i) \/ MoveStage(i) \/ PutBack(i) \/ Tidy(i)

Next ==
    \/ \E i \in Installers :
           \/ \E version \in Versions, check \in BOOLEAN : Begin(i, version, check)
           \/ ClearStage(i) \/ CreateStage(i) \/ WriteFile(i) \/ Abandon(i)
           \/ Swap(i)
           \/ ReadFile(i) \/ SetFeedData(i)
    \/ Restart

Spec == Init /\ [][Next]_vars

-----------------------------------------------------------------------------
(* Properties.                                                               *)

Quiet == \A i \in Installers : At(i, "idle")

\* What is in memory came from one bundle, however the mirror was swapped while
\* it was read (verified_manifest, verified_file).
OneBundleInMemory ==
    \A f, g \in Files : loaded[f] # None /\ loaded[g] # None => loaded[f] = loaded[g]

\* Nobody has installed while somebody else did.
OneAtATime == ~overlapped

\* An installation that is said to have worked has: the mirror is its bundle,
\* whatever earlier ones left behind (install_bundle).
SuccessIsReal ==
    OneAtATime =>
        \A i \in Installers : At(i, "tidy") => live = Whole(task[i].version)

\* "A mirror is never half a version" (sync_cache), with nothing held back: two
\* installers share one staging directory.
NeverHalf == live.there => \E v \in Versions : live = Whole(v)

\* Wherever the program stops, and whatever fails, the mirror is one bundle or
\* is not there, as long as one installs at a time.
NeverHalfAlone == OneAtATime => NeverHalf

LastInstalled == live = IF installed = None THEN Absent ELSE Whole(installed)

\* When nobody is installing, the mirror is the last bundle installed, whole: "an
\* interrupted sync leaves the previous one intact" (sync_cache), "a refused
\* bundle leaves yesterday's lists" (install_bundle).
YesterdaysOrTodays == OneAtATime /\ Quiet => LastInstalled

\* It is, as long as the program does not stop between the two renames, and the
\* rename back does not fail as well.
LeftIntact == crashes = 0 /\ faults <= 1 => YesterdaysOrTodays

\* When nobody is installing, the lists in memory are those of the mirror
\* (check_now, post_upload, and the start).
MemoryFollowsMirror == OneAtATime /\ Quiet => loaded = Verified(live.holds)
=============================================================================
