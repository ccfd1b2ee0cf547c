---------------------------- MODULE Upkeep_proofs ----------------------------
(***************************************************************************)
(* What holds of the mirror of a signed channel, of the country database   *)
(* and of the settings, for any number of installers, administrators,      *)
(* lists, versions, failures and restarts.                                 *)
(***************************************************************************)
EXTENDS BundleMirror, CountryDatabase, Settings, SequenceTheorems, FiniteSetTheorems, TLAPS

-----------------------------------------------------------------------------
(* The mirror: the inductive invariant.                                      *)

WholeOrGone(d) == d.there => \E v \in Versions : d = Whole(v)

\* How far an installation has got: what the staging directory holds of its
\* bundle, and, at its end, the mirror.
Progress(i) ==
    /\ At(i, "write") => /\ stage.there
                         /\ \A m \in 1 .. task[i].file - 1 :
                                stage.holds[Written[m]] = task[i].version
    /\ task[i].step \in {"drop old", "move live", "move stage"} => stage = Whole(task[i].version)
    /\ At(i, "tidy") => live = Whole(task[i].version)

\* While one installs at a time, the two directories it moves are whole.
MirrorSound ==
    OneAtATime =>
        /\ \A i, j \in Installers : i # j => At(i, "idle") \/ At(j, "idle")
        /\ WholeOrGone(live) /\ WholeOrGone(old)
        /\ \A i \in Installers : Progress(i)

\* The lists in memory are of one version.
FromOne == \E v \in None .. MaxVersion : \A f \in Files : loaded[f] \in {None, v}

MirrorInv == TypeOK /\ MirrorSound /\ FromOne

-----------------------------------------------------------------------------
(* Its records.                                                              *)

\* Every file is written, and nothing else (iplist_feeds.rs, install_bundle).
LEMMA AllWritten ==
  /\ Len(Written) \in Nat /\ Len(Written) >= 2
  /\ \A m \in 1 .. Len(Written) : Written[m] \in Files
  /\ \A f \in Files : \E m \in 1 .. Len(Written) : Written[m] = f
<1> DEFINE T == {Lists[i] : i \in 1 .. Len(Lists)}
           two == <<"manifest", "signature">>
<1>1. Lists \in Seq(T) /\ Len(Lists) \in Nat
  BY BoundsAssumption, LenProperties
<1>2. /\ two \in Seq({"manifest", "signature"}) /\ Len(two) = 2
      /\ two[1] = "manifest" /\ two[2] = "signature"
  OBVIOUS
<1>3. Lists \in Seq(Files) /\ two \in Seq(Files)
  BY <1>1, <1>2 DEF Files
<1> HIDE DEF two, T
<1>4. /\ Len(Lists \o two) = Len(Lists) + 2
      /\ \A m \in 1 .. Len(Lists) + 2 :
             (Lists \o two)[m] = IF m <= Len(Lists) THEN Lists[m] ELSE two[m - Len(Lists)]
  <2>1. /\ Len(Lists \o two) = Len(Lists) + Len(two)
        /\ \A m \in 1 .. Len(Lists) + Len(two) :
               (Lists \o two)[m] = IF m <= Len(Lists) THEN Lists[m] ELSE two[m - Len(Lists)]
    BY <1>3, ConcatProperties
  <2> QED
    BY <1>2, <2>1
<1>5. Written = Lists \o two
  BY DEF Written, two
<1>6. \A m \in 1 .. Len(Written) : Written[m] \in Files
  <2> SUFFICES ASSUME NEW m \in 1 .. Len(Lists) + 2
               PROVE  (IF m <= Len(Lists) THEN Lists[m] ELSE two[m - Len(Lists)]) \in Files
    BY <1>4, <1>5
  <2>1. CASE m <= Len(Lists)
    BY <1>1, <2>1 DEF Files
  <2>2. CASE m = Len(Lists) + 1 \/ m = Len(Lists) + 2
    BY <1>1, <1>2, <2>2 DEF Files
  <2> QED
    BY <1>1, <2>1, <2>2
<1>7. ASSUME NEW f \in Files PROVE \E m \in 1 .. Len(Written) : Written[m] = f
  <2>1. CASE f = "manifest"
    <3>1. Len(Lists) + 1 \in 1 .. Len(Lists) + 2 /\ Written[Len(Lists) + 1] = f
      BY <1>1, <1>2, <1>4, <1>5, <2>1
    <3> QED
      BY <1>4, <1>5, <3>1
  <2>2. CASE f = "signature"
    <3>1. Len(Lists) + 2 \in 1 .. Len(Lists) + 2 /\ Written[Len(Lists) + 2] = f
      BY <1>1, <1>2, <1>4, <1>5, <2>2
    <3> QED
      BY <1>4, <1>5, <3>1
  <2>3. ASSUME NEW m \in 1 .. Len(Lists), f = Lists[m]
        PROVE  \E n \in 1 .. Len(Written) : Written[n] = f
    <3>1. m \in 1 .. Len(Lists) + 2 /\ Written[m] = f
      BY <1>1, <1>4, <1>5, <2>3
    <3> QED
      BY <1>4, <1>5, <3>1
  <2> QED
    BY <2>1, <2>2, <2>3 DEF Files
<1> QED
  BY <1>1, <1>4, <1>5, <1>6, <1>7

\* The directories there are, and what they hold.
LEMMA Directories ==
  /\ Absent \in Directory /\ Empty \in Directory /\ ~Absent.there /\ Empty.there
  /\ \A v \in Versions : /\ Whole(v) \in Directory /\ Whole(v).there
                         /\ \A f \in Files : Whole(v).holds[f] = v
  /\ \A f \in Files : Absent.holds[f] = None
  /\ \A d \in Directory : d.there \in BOOLEAN /\ d.holds \in [Files -> None .. MaxVersion]
<1>1. MaxVersion \in Nat \ {0}
  BY BoundsAssumption
<1> QED
  BY <1>1 DEF Absent, Empty, Whole, Directory, None, Versions

\* A directory that holds a version's file everywhere is that version.
LEMMA WholeWhen ==
  ASSUME NEW d \in Directory, d.there, NEW v \in Versions,
         \A f \in Files : d.holds[f] = v
  PROVE  d = Whole(v)
<1>1. d.holds = [f \in Files |-> v]
  BY Directories
<1>2. d = [there |-> d.there, holds |-> d.holds]
  BY DEF Directory
<1> QED
  BY <1>1, <1>2 DEF Whole

Late == {"clear", "create", "abandon", "drop old", "move live", "move stage", "put back", "tidy"}
LateTask == [step : Late, version : Versions, check : BOOLEAN]
WriteTask == [step : {"write"}, version : Versions, check : BOOLEAN, file : 1 .. Len(Written)]
Gots == UNION {[1 .. n -> None .. MaxVersion] : n \in 0 .. Len(Read)}
ReadTask == [step : {"read"}, got : Gots]

\* An installer's record, by the step it is at.
LEMMA InstallerRead ==
  ASSUME NEW k \in Task
  PROVE  /\ k.step \in Late \cup {"idle", "write", "read"}
         /\ k.step \in Late \cup {"write"} => k.version \in Versions /\ k.check \in BOOLEAN
         /\ k.step = "write" => k \in WriteTask /\ k.file \in 1 .. Len(Written)
         /\ k.step = "read" => k \in ReadTask /\ k.got \in Gots
<1>1. k \in {Idle} \/ k \in LateTask \/ k \in WriteTask \/ k \in ReadTask
  BY DEF Task, LateTask, WriteTask, ReadTask, Late, Gots
<1>2. CASE k \in {Idle}
  <2>1. k.step = "idle"
    BY <1>2 DEF Idle
  <2> QED
    BY <2>1 DEF Late
<1>3. CASE k \in LateTask
  BY <1>3 DEF LateTask, Late
<1>4. CASE k \in WriteTask
  BY <1>4 DEF WriteTask, Late
<1>5. CASE k \in ReadTask
  BY <1>5 DEF ReadTask, Late
<1> QED
  BY <1>1, <1>2, <1>3, <1>4, <1>5

\* The records an installer is given.
LEMMA InstallerWritten ==
  /\ Idle \in Task /\ Idle.step = "idle" /\ Reload \in Task /\ Reload.step = "read"
  /\ \A s \in Late, v \in Versions, c \in BOOLEAN :
        /\ [step |-> s, version |-> v, check |-> c] \in Task
        /\ [step |-> s, version |-> v, check |-> c].step = s
  /\ \A v \in Versions, c \in BOOLEAN, n \in 1 .. Len(Written) :
        [step |-> "write", version |-> v, check |-> c, file |-> n] \in Task
  /\ \A k \in WriteTask, n \in 1 .. Len(Written) :
        /\ [k EXCEPT !.file = n] \in Task /\ [k EXCEPT !.file = n].step = "write"
        /\ [k EXCEPT !.file = n].file = n /\ [k EXCEPT !.file = n].version = k.version
  /\ \A k \in ReadTask, g \in Gots :
        [k EXCEPT !.got = g] \in Task /\ [k EXCEPT !.got = g].step = "read"
<1>t. LateTask \subseteq Task /\ WriteTask \subseteq Task /\ ReadTask \subseteq Task
  BY DEF Task, LateTask, WriteTask, ReadTask, Late, Gots
<1>1. Idle \in Task /\ Idle.step = "idle"
  BY DEF Task, Idle
<1>2. Reload \in Task /\ Reload.step = "read"
  <2>1. Len(Read) \in Nat
    <3>1. Lists \in Seq({Lists[i] : i \in 1 .. Len(Lists)})
      BY BoundsAssumption
    <3>2. Len(Read) = 2 + Len(Lists) /\ Len(Lists) \in Nat
      BY <3>1, ConcatProperties, LenProperties DEF Read
    <3> QED
      BY <3>2
  <2>2. <<>> \in [1 .. 0 -> None .. MaxVersion]
    OBVIOUS
  <2>3. <<>> \in Gots
    BY <2>1, <2>2 DEF Gots
  <2> QED
    BY <1>t, <2>3 DEF Reload, ReadTask
<1>3. \A s \in Late, v \in Versions, c \in BOOLEAN :
        /\ [step |-> s, version |-> v, check |-> c] \in LateTask
        /\ [step |-> s, version |-> v, check |-> c].step = s
  BY DEF LateTask
<1>4. \A v \in Versions, c \in BOOLEAN, n \in 1 .. Len(Written) :
        [step |-> "write", version |-> v, check |-> c, file |-> n] \in WriteTask
  BY DEF WriteTask
<1>5. \A k \in WriteTask, n \in 1 .. Len(Written) :
        /\ [k EXCEPT !.file = n] \in WriteTask /\ [k EXCEPT !.file = n].step = "write"
        /\ [k EXCEPT !.file = n].file = n /\ [k EXCEPT !.file = n].version = k.version
  BY DEF WriteTask
<1>6. \A k \in ReadTask, g \in Gots :
        [k EXCEPT !.got = g] \in ReadTask /\ [k EXCEPT !.got = g].step = "read"
  BY DEF ReadTask
<1> QED
  BY <1>t, <1>1, <1>2, <1>3, <1>4, <1>5, <1>6

-----------------------------------------------------------------------------
(* Its steps.                                                                *)

MirrorTypes ==
    /\ live \in Directory /\ (~live.there => live = Absent)
    /\ stage \in Directory /\ (~stage.there => stage = Absent)
    /\ old \in Directory /\ (~old.there => old = Absent)
    /\ loaded \in [Files -> None .. MaxVersion]
    /\ installed \in None .. MaxVersion
    /\ overlapped \in BOOLEAN
    /\ faults \in 0 .. MaxFaults /\ crashes \in 0 .. MaxCrashes

\* The shapes, one by one.
LEMMA MirrorTyped == TypeOK <=> MirrorTypes /\ task \in [Installers -> Task]
BY DEF TypeOK, MirrorTypes

\* An installer goes on, and nobody else does.
LEMMA Advance ==
  ASSUME MirrorInv, NEW i \in Installers, NEW k \in Task, ~At(i, "idle"),
         task' = [task EXCEPT ![i] = k],
         MirrorTypes', FromOne', overlapped' = overlapped,
         OneAtATime => WholeOrGone(live') /\ WholeOrGone(old') /\ Progress(i)'
  PROVE  MirrorInv'
<1>t. task \in [Installers -> Task] /\ TypeOK
  BY MirrorTyped DEF MirrorInv
<1>1. task' \in [Installers -> Task] /\ \A j \in Installers : j # i => task'[j] = task[j]
  BY <1>t
<1>2. MirrorSound'
  <2> SUFFICES ASSUME OneAtATime PROVE
                 /\ \A m, n \in Installers : m # n => At(m, "idle")' \/ At(n, "idle")'
                 /\ WholeOrGone(live)' /\ WholeOrGone(old)'
                 /\ \A j \in Installers : Progress(j)'
    BY DEF MirrorSound, OneAtATime
  <2>1. \A j \in Installers : j # i => At(j, "idle") /\ At(j, "idle")'
    BY <1>1 DEF MirrorInv, MirrorSound, At
  <2>2. \A m, n \in Installers : m # n => At(m, "idle")' \/ At(n, "idle")'
    BY <2>1
  <2>3. ASSUME NEW j \in Installers PROVE Progress(j)'
    <3>1. CASE j = i
      BY <3>1
    <3>2. CASE j # i
      BY <2>1, <3>2 DEF Progress, At
    <3> QED
      BY <3>1, <3>2
  <2>4. WholeOrGone(live)' /\ WholeOrGone(old)'
    BY DEF WholeOrGone
  <2> QED
    BY <2>2, <2>3, <2>4
<1> QED
  BY <1>1, <1>2, MirrorTyped DEF MirrorInv, TypeOK, MirrorTypes

\* An installer that is not idle: its record, and that what it holds is whole.
LEMMA InstallerAt ==
  ASSUME MirrorInv, NEW i \in Installers, task[i].step \in Late \cup {"write", "read"}
  PROVE  /\ task[i] \in Task /\ ~At(i, "idle") /\ MirrorTypes /\ FromOne
         /\ task[i].step \in Late \cup {"write"}
              => task[i].version \in Versions /\ task[i].check \in BOOLEAN
         /\ OneAtATime => WholeOrGone(live) /\ WholeOrGone(old) /\ Progress(i)
         /\ \A s \in Late : [step |-> s, version |-> task[i].version, check |-> task[i].check].step = s
<1>1. task[i] \in Task /\ MirrorTypes
  BY MirrorTyped DEF MirrorInv
<1>2. ~At(i, "idle")
  BY DEF At, Late
<1> QED
  BY <1>1, <1>2, InstallerRead DEF MirrorInv, MirrorSound

\* The record an installer is given is the one it has.
LEMMA GivenRecord ==
  ASSUME TypeOK, NEW i \in Installers, NEW k \in Task, task' = [task EXCEPT ![i] = k]
  PROVE  task'[i] = k
BY DEF TypeOK

\* Or its installation is at its end.
LEMMA LastRecord ==
  ASSUME MirrorInv, NEW i \in Installers, Fail(i)
  PROVE  \E k \in Task : /\ task' = [task EXCEPT ![i] = k] /\ task'[i] = k
                         /\ k.step \in {"read", "idle"}
<1> DEFINE k == IF task[i].check THEN Reload ELSE Idle
<1>1. task \in [Installers -> Task]
  BY MirrorTyped DEF MirrorInv
<1>2. k \in Task /\ k.step \in {"read", "idle"}
  BY InstallerWritten
<1>3. task' = [task EXCEPT ![i] = k]
  BY DEF Fail, Become
<1> HIDE DEF k
<1>4. task'[i] = k
  BY <1>1, <1>3
<1> QED
  BY <1>2, <1>3, <1>4

\* Nothing but the step of the installer is looked at once it has failed.
LEMMA NoProgress ==
  ASSUME NEW i \in Installers, task'[i].step \in {"read", "idle", "clear", "abandon", "put back"}
  PROVE  Progress(i)'
BY DEF Progress, At

\* The failures are counted up to their bound.
LEMMA FaultsCounted ==
  ASSUME MirrorTypes, UNCHANGED faults \/ Fault
  PROVE  faults' \in 0 .. MaxFaults
BY BoundsAssumption DEF MirrorTypes, Fault

\* The bundle in hand is the only one being installed, or the history says not.
LEMMA BeginStep ==
  ASSUME MirrorInv, NEW i \in Installers, NEW version \in Versions, NEW check \in BOOLEAN,
         Begin(i, version, check)
  PROVE  MirrorInv'
<1> DEFINE k == [step |-> "clear", version |-> version, check |-> check]
<1>t. task \in [Installers -> Task] /\ MirrorTypes /\ FromOne /\ MirrorSound
  BY MirrorTyped DEF MirrorInv
<1>k. k \in Task /\ k.step = "clear"
  BY InstallerWritten DEF Late
<1> HIDE DEF k
<1>1. /\ task' = [task EXCEPT ![i] = k]
      /\ overlapped' = (overlapped \/ \E j \in Installers \ {i} : ~At(j, "idle"))
      /\ UNCHANGED <<live, stage, old, loaded, installed, faults, crashes>>
  BY DEF Begin, Become, dirs, k
<1>2. /\ task' \in [Installers -> Task] /\ task'[i] = k
      /\ \A j \in Installers : j # i => task'[j] = task[j]
  BY <1>t, <1>k, <1>1
<1>3. MirrorTypes'
  BY <1>t, <1>1 DEF MirrorTypes
<1>4. FromOne'
  BY <1>t, <1>1 DEF FromOne
<1>5. MirrorSound'
  <2> SUFFICES ASSUME OneAtATime' PROVE
                 /\ \A m, n \in Installers : m # n => At(m, "idle")' \/ At(n, "idle")'
                 /\ WholeOrGone(live)' /\ WholeOrGone(old)'
                 /\ \A j \in Installers : Progress(j)'
    BY DEF MirrorSound
  <2>1. OneAtATime /\ \A j \in Installers : j # i => At(j, "idle")
    BY <1>1 DEF OneAtATime
  <2>2. \A j \in Installers : j # i => At(j, "idle")'
    BY <1>2, <2>1 DEF At
  <2>3. \A m, n \in Installers : m # n => At(m, "idle")' \/ At(n, "idle")'
    BY <2>2
  <2>4. WholeOrGone(live)' /\ WholeOrGone(old)'
    BY <1>t, <1>1, <2>1 DEF MirrorSound, WholeOrGone
  <2>5. \A j \in Installers : Progress(j)'
    BY <1>2, <1>k, <2>2 DEF Progress, At
  <2> QED
    BY <2>3, <2>4, <2>5
<1> QED
  BY <1>2, <1>3, <1>4, <1>5 DEF MirrorInv, TypeOK, MirrorTypes

\* The staging directory is emptied before it is made again.
LEMMA ClearStageStep ==
  ASSUME MirrorInv, NEW i \in Installers, ClearStage(i)
  PROVE  MirrorInv'
<1>1. /\ task[i].step = "clear" /\ "create" \in Late
      /\ task[i].step \in Late \cup {"write"} /\ task[i].step \in Late \cup {"write", "read"}
  BY DEF ClearStage, At, Late
<1> DEFINE k == [step |-> "create", version |-> task[i].version, check |-> task[i].check]
<1>2. task' = [task EXCEPT ![i] = k]
  BY <1>1 DEF ClearStage, Step, Become
<1>y. k \in Task /\ k.step = "create" /\ k.version = task[i].version
  BY <1>1, InstallerAt, InstallerWritten
<1> HIDE DEF k
<1>k. k \in Task /\ task'[i] = k /\ k.step = "create" /\ k.version = task[i].version
  BY <1>2, <1>y, GivenRecord DEF MirrorInv
<1>3. Progress(i)'
  BY <1>k DEF Progress, At
<1>4. MirrorTypes' /\ FromOne' /\ overlapped' = overlapped
  <2>1. MirrorTypes /\ FromOne
    BY <1>1, InstallerAt
  <2>2. faults' \in 0 .. MaxFaults
    BY <2>1, FaultsCounted DEF ClearStage
  <2>3. stage' \in Directory /\ (~stage'.there => stage' = Absent)
    BY <2>1, Directories DEF ClearStage, MirrorTypes
  <2> QED
    BY <2>1, <2>2, <2>3 DEF ClearStage, MirrorTypes, FromOne
<1>5. OneAtATime => WholeOrGone(live') /\ WholeOrGone(old')
  BY <1>1, InstallerAt DEF ClearStage
<1> QED
  BY <1>1, <1>2, <1>k, <1>3, <1>4, <1>5, InstallerAt, Advance

\* It is made, or it is not and the installation ends.
LEMMA CreateStageStep ==
  ASSUME MirrorInv, NEW i \in Installers, CreateStage(i)
  PROVE  MirrorInv'
<1>1. /\ task[i].step = "create"
      /\ task[i].step \in Late \cup {"write"} /\ task[i].step \in Late \cup {"write", "read"}
  BY DEF CreateStage, At, Late
<1>2. /\ task[i].version \in Versions /\ task[i].check \in BOOLEAN
      /\ MirrorTypes /\ FromOne /\ task \in [Installers -> Task]
  BY <1>1, InstallerAt, MirrorTyped DEF MirrorInv
<1>3. OneAtATime => WholeOrGone(live') /\ WholeOrGone(old')
  BY <1>1, InstallerAt DEF CreateStage
<1>4. FromOne' /\ overlapped' = overlapped
  BY <1>2 DEF CreateStage, FromOne
<1>5. CASE /\ stage' = IF stage.there THEN stage ELSE Empty
           /\ Become(i, [step |-> "write", version |-> task[i].version,
                         check |-> task[i].check, file |-> 1])
           /\ UNCHANGED faults
  <2> DEFINE k == [step |-> "write", version |-> task[i].version,
                   check |-> task[i].check, file |-> 1]
  <2>1. k \in Task /\ k.step = "write" /\ k.file = 1
    BY <1>2, InstallerWritten, AllWritten
  <2>2. task' = [task EXCEPT ![i] = k]
    BY <1>5 DEF Become
  <2> HIDE DEF k
  <2>3. task'[i] = k
    BY <1>2, <2>2
  <2>4. MirrorTypes'
    BY <1>2, <1>5, Directories DEF CreateStage, MirrorTypes
  <2>5. stage'.there
    BY <1>5, Directories
  <2>6. Progress(i)'
    <3>1. \A m \in 1 .. task'[i].file - 1 : FALSE
      BY <2>1, <2>3
    <3>2. task'[i].step = "write"
      BY <2>1, <2>3
    <3> QED
      BY <2>5, <3>1, <3>2 DEF Progress, At
  <2> QED
    BY <1>1, <1>3, <1>4, <2>1, <2>2, <2>4, <2>6, InstallerAt, Advance
<1>6. CASE Fault /\ Fail(i) /\ UNCHANGED stage
  <2>1. PICK k \in Task : task' = [task EXCEPT ![i] = k] /\ task'[i] = k /\ k.step \in {"read", "idle"}
    BY <1>1, <1>6, LastRecord
  <2>2. Progress(i)'
    BY <2>1, NoProgress
  <2>3. MirrorTypes'
    BY <1>2, <1>6, BoundsAssumption DEF CreateStage, MirrorTypes, Fault
  <2> QED
    BY <1>1, <1>3, <1>4, <2>1, <2>2, <2>3, InstallerAt, Advance
<1> QED
  BY <1>5, <1>6 DEF CreateStage

\* A file of the bundle's own is written, and after the last one the staging
\* directory is that bundle; any other file ends the installation.
LEMMA WriteFileStep ==
  ASSUME MirrorInv, NEW i \in Installers, WriteFile(i)
  PROVE  MirrorInv'
<1> DEFINE n == task[i].file
           v == task[i].version
<1>1. /\ task[i].step = "write"
      /\ task[i].step \in Late \cup {"write"} /\ task[i].step \in Late \cup {"write", "read"}
      /\ {"drop old", "abandon"} \subseteq Late
  BY DEF WriteFile, At, Late
<1>2. /\ v \in Versions /\ task[i].check \in BOOLEAN /\ n \in 1 .. Len(Written)
      /\ task[i] \in WriteTask /\ MirrorTypes /\ FromOne /\ task \in [Installers -> Task]
  BY <1>1, InstallerAt, InstallerRead, MirrorTyped DEF MirrorInv
<1>3. OneAtATime => WholeOrGone(live') /\ WholeOrGone(old')
  BY <1>1, InstallerAt DEF WriteFile
<1>4. FromOne' /\ overlapped' = overlapped
  BY <1>2 DEF WriteFile, FromOne
<1>5. CASE /\ Writable(i)
           /\ stage' = [stage EXCEPT !.holds[Written[n]] = Content(i)]
           /\ IF More(n) THEN Become(i, [task[i] EXCEPT !.file = n + 1])
                        ELSE Step(i, "drop old")
           /\ UNCHANGED faults
  <2>1. Content(i) = v /\ stage.there /\ stage \in Directory
    BY <1>2, <1>5 DEF Writable, Mismatch, MirrorTypes
  <2>2. v \in None .. MaxVersion
    BY <1>2, BoundsAssumption DEF Versions, None
  <2>3. Written[n] \in Files
    BY <1>2, AllWritten
  <2>4. stage' = [stage EXCEPT !.holds = [@ EXCEPT ![Written[n]] = v]]
    BY <1>5, <2>1
  <2>5. /\ stage' \in Directory /\ stage'.there
        /\ stage'.holds = [stage.holds EXCEPT ![Written[n]] = v]
    BY <2>1, <2>2, <2>3, <2>4, Directories DEF Directory
  <2>6. MirrorTypes'
    BY <1>2, <1>5, <2>5 DEF WriteFile, MirrorTypes
  <2>7. ASSUME OneAtATime, NEW m \in 1 .. n PROVE stage'.holds[Written[m]] = v
    <3>1. m # n => stage.holds[Written[m]] = v
      <4>1. m # n => m \in 1 .. n - 1
        BY <1>2, AllWritten
      <4>2. Progress(i)
        BY <1>1, <2>7, InstallerAt
      <4> QED
        BY <1>1, <4>1, <4>2 DEF Progress, At
    <3>2. Written[m] \in Files
      BY <1>2, AllWritten
    <3> QED
      BY <2>1, <2>3, <2>5, <3>1, <3>2, Directories
  <2>8. CASE More(n)
    <3> DEFINE k == [task[i] EXCEPT !.file = n + 1]
    <3>1. n + 1 \in 1 .. Len(Written)
      BY <1>2, <2>8, AllWritten DEF More
    <3>2. k \in Task /\ k.step = "write" /\ k.file = n + 1 /\ k.version = v
      BY <1>2, <3>1, InstallerWritten
    <3>3. task' = [task EXCEPT ![i] = k]
      BY <1>5, <2>8 DEF Become
    <3> HIDE DEF k
    <3>4. task'[i] = k
      BY <1>2, <3>3
    <3>5. OneAtATime => Progress(i)'
      <4>1. task'[i].step = "write" /\ task'[i].version = v
        BY <3>2, <3>4
      <4>2. task'[i].file - 1 = n
        <5> DEFINE m == task'[i].file
        <5>1. m = n + 1
          BY <3>2, <3>4
        <5>2. n \in Nat
          BY <1>2, AllWritten
        <5> HIDE DEF m, n
        <5>3. m - 1 = n
          BY <5>1, <5>2
        <5> QED
          BY <5>3 DEF m
      <4>3. OneAtATime => \A m \in 1 .. task'[i].file - 1 :
                             stage'.holds[Written[m]] = task'[i].version
        BY <2>7, <4>1, <4>2, Zenon
      <4> QED
        BY <2>5, <4>1, <4>3 DEF Progress, At
    <3> QED
      BY <1>1, <1>3, <1>4, <2>6, <3>2, <3>3, <3>5, InstallerAt, Advance
  <2>9. CASE ~More(n)
    <3>0. Step(i, "drop old")
      BY <1>5, <2>9
    <3> DEFINE k == [step |-> "drop old", version |-> task[i].version, check |-> task[i].check]
    <3>1. task' = [task EXCEPT ![i] = k]
      BY <1>1, <3>0 DEF Step, Become
    <3>y. k \in Task /\ k.step = "drop old" /\ k.version = task[i].version
      BY <1>1, InstallerAt, InstallerWritten
    <3> HIDE DEF k
    <3>k. k \in Task /\ task'[i] = k /\ k.step = "drop old" /\ k.version = task[i].version
      BY <3>1, <3>y, GivenRecord DEF MirrorInv
    <3>2. n = Len(Written)
      BY <1>2, <2>9, AllWritten DEF More
    <3>3. OneAtATime => stage' = Whole(v)
      <4> SUFFICES ASSUME OneAtATime PROVE stage' = Whole(v)
        OBVIOUS
      <4>1. ASSUME NEW f \in Files PROVE stage'.holds[f] = v
        <5>1. PICK m \in 1 .. Len(Written) : Written[m] = f
          BY AllWritten
        <5> QED
          BY <2>7, <3>2, <5>1
      <4> QED
        BY <1>2, <2>5, <4>1, WholeWhen
    <3>4. OneAtATime => Progress(i)'
      BY <3>1, <3>k, <3>3 DEF Progress, At
    <3> QED
      BY <1>1, <1>3, <1>4, <2>6, <3>1, <3>k, <3>4, InstallerAt, Advance
  <2> QED
    BY <2>8, <2>9
<1>6. CASE Step(i, "abandon") /\ UNCHANGED stage /\ (UNCHANGED faults \/ Fault)
  <2> DEFINE k == [step |-> "abandon", version |-> task[i].version, check |-> task[i].check]
  <2>1. task' = [task EXCEPT ![i] = k]
    BY <1>1, <1>6 DEF Step, Become
  <2>y. k \in Task /\ k.step = "abandon" /\ k.version = task[i].version
    BY <1>1, InstallerAt, InstallerWritten
  <2> HIDE DEF k
  <2>k. k \in Task /\ task'[i] = k /\ k.step = "abandon" /\ k.version = task[i].version
    BY <2>1, <2>y, GivenRecord DEF MirrorInv
  <2>2. Progress(i)'
    BY <2>1, <2>k, NoProgress
  <2>3. MirrorTypes'
    BY <1>2, <1>6, FaultsCounted DEF WriteFile, MirrorTypes
  <2> QED
    BY <1>1, <1>3, <1>4, <2>1, <2>k, <2>2, <2>3, InstallerAt, Advance
<1> QED
  BY <1>5, <1>6 DEF WriteFile

\* The staging directory goes, and the installation has ended.
LEMMA AbandonStep ==
  ASSUME MirrorInv, NEW i \in Installers, Abandon(i)
  PROVE  MirrorInv'
<1>1. /\ task[i].step = "abandon"
      /\ task[i].step \in Late \cup {"write"} /\ task[i].step \in Late \cup {"write", "read"}
  BY DEF Abandon, At, Late
<1>2. PICK k \in Task : task' = [task EXCEPT ![i] = k] /\ task'[i] = k /\ k.step \in {"read", "idle"}
  BY <1>1, LastRecord DEF Abandon
<1>3. Progress(i)'
  BY <1>2, NoProgress
<1>4. MirrorTypes' /\ FromOne' /\ overlapped' = overlapped
  <2>1. MirrorTypes /\ FromOne
    BY <1>1, InstallerAt
  <2>2. faults' \in 0 .. MaxFaults
    BY <2>1, FaultsCounted DEF Abandon
  <2>3. stage' \in Directory /\ (~stage'.there => stage' = Absent)
    BY <2>1, Directories DEF Abandon, MirrorTypes
  <2> QED
    BY <2>1, <2>2, <2>3 DEF Abandon, MirrorTypes, FromOne
<1>5. OneAtATime => WholeOrGone(live') /\ WholeOrGone(old')
  BY <1>1, InstallerAt DEF Abandon
<1> QED
  BY <1>1, <1>2, <1>3, <1>4, <1>5, InstallerAt, Advance

\* What is left of an earlier swap goes, or stays: the bundle is whole either way.
LEMMA DropOldStep ==
  ASSUME MirrorInv, NEW i \in Installers, DropOld(i)
  PROVE  MirrorInv'
<1>1. /\ task[i].step = "drop old" /\ "move live" \in Late
      /\ task[i].step \in Late \cup {"write"} /\ task[i].step \in Late \cup {"write", "read"}
  BY DEF DropOld, At, Late
<1> DEFINE k == [step |-> "move live", version |-> task[i].version, check |-> task[i].check]
<1>2. task' = [task EXCEPT ![i] = k]
  BY <1>1 DEF DropOld, Step, Become
<1>y. k \in Task /\ k.step = "move live" /\ k.version = task[i].version
  BY <1>1, InstallerAt, InstallerWritten
<1> HIDE DEF k
<1>k. k \in Task /\ task'[i] = k /\ k.step = "move live" /\ k.version = task[i].version
  BY <1>2, <1>y, GivenRecord DEF MirrorInv
<1>3. OneAtATime => Progress(i)'
  <2>1. stage' = stage /\ (OneAtATime => stage = Whole(task[i].version))
    BY <1>1, InstallerAt DEF DropOld, Progress
  <2> QED
    BY <1>k, <2>1 DEF Progress, At
<1>4. MirrorTypes' /\ FromOne' /\ overlapped' = overlapped
  <2>1. MirrorTypes /\ FromOne /\ (UNCHANGED faults \/ Fault)
    BY <1>1, InstallerAt DEF DropOld
  <2> QED
    BY <2>1, Directories, FaultsCounted DEF DropOld, MirrorTypes, FromOne
<1>5. OneAtATime => WholeOrGone(live') /\ WholeOrGone(old')
  BY <1>1, InstallerAt, Directories DEF DropOld, WholeOrGone
<1> QED
  BY <1>1, <1>2, <1>k, <1>3, <1>4, <1>5, InstallerAt, Advance

\* The first rename: the mirror becomes the old one, whole as it was.
LEMMA MoveLiveStep ==
  ASSUME MirrorInv, NEW i \in Installers, MoveLive(i)
  PROVE  MirrorInv'
<1>1. /\ task[i].step = "move live" /\ "move stage" \in Late
      /\ task[i].step \in Late \cup {"write"} /\ task[i].step \in Late \cup {"write", "read"}
  BY DEF MoveLive, At, Late
<1>2. /\ MirrorTypes /\ FromOne
      /\ OneAtATime => WholeOrGone(live) /\ WholeOrGone(old) /\ Progress(i)
  BY <1>1, InstallerAt
<1>3. FromOne' /\ overlapped' = overlapped /\ stage' = stage
  BY <1>2 DEF MoveLive, FromOne
<1>4. CASE Step(i, "move stage") /\ \/ old' = live /\ live' = Absent /\ UNCHANGED faults
                                    \/ UNCHANGED <<live, old, faults>>
  <2> DEFINE k == [step |-> "move stage", version |-> task[i].version, check |-> task[i].check]
  <2>1. task' = [task EXCEPT ![i] = k]
    BY <1>1, <1>4 DEF Step, Become
  <2>y. k \in Task /\ k.step = "move stage" /\ k.version = task[i].version
    BY <1>1, InstallerAt, InstallerWritten
  <2> HIDE DEF k
  <2>k. k \in Task /\ task'[i] = k /\ k.step = "move stage" /\ k.version = task[i].version
    BY <2>1, <2>y, GivenRecord DEF MirrorInv
  <2>2. OneAtATime => Progress(i)'
    BY <1>1, <1>2, <1>3, <2>1, <2>k DEF Progress, At
  <2>3. MirrorTypes'
    BY <1>2, <1>4, Directories DEF MoveLive, MirrorTypes
  <2>4. OneAtATime => WholeOrGone(live') /\ WholeOrGone(old')
    BY <1>2, <1>4, Directories DEF WholeOrGone
  <2> QED
    BY <1>1, <1>3, <2>1, <2>k, <2>2, <2>3, <2>4, InstallerAt, Advance
<1>5. CASE Fail(i) /\ UNCHANGED <<live, old>> /\ (UNCHANGED faults \/ Fault)
  <2>1. PICK k \in Task : task' = [task EXCEPT ![i] = k] /\ task'[i] = k /\ k.step \in {"read", "idle"}
    BY <1>1, <1>5, LastRecord
  <2>2. Progress(i)'
    BY <2>1, NoProgress
  <2>3. MirrorTypes'
    BY <1>2, <1>5, FaultsCounted DEF MoveLive, MirrorTypes
  <2>4. OneAtATime => WholeOrGone(live') /\ WholeOrGone(old')
    BY <1>2, <1>5
  <2> QED
    BY <1>1, <1>3, <2>1, <2>2, <2>3, <2>4, InstallerAt, Advance
<1> QED
  BY <1>4, <1>5 DEF MoveLive

\* The second rename: the staged bundle, whole, becomes the mirror, or stays.
LEMMA MoveStageStep ==
  ASSUME MirrorInv, NEW i \in Installers, MoveStage(i)
  PROVE  MirrorInv'
<1>1. /\ task[i].step = "move stage" /\ {"tidy", "put back"} \subseteq Late
      /\ task[i].step \in Late \cup {"write"} /\ task[i].step \in Late \cup {"write", "read"}
  BY DEF MoveStage, At, Late
<1>2. /\ MirrorTypes /\ FromOne
      /\ OneAtATime => WholeOrGone(live) /\ WholeOrGone(old) /\ Progress(i)
      /\ task[i].version \in Versions
  BY <1>1, InstallerAt
<1>3. FromOne' /\ overlapped' = overlapped /\ old' = old
  BY <1>2 DEF MoveStage, FromOne
<1>4. CASE live' = stage /\ stage' = Absent /\ Step(i, "tidy") /\ UNCHANGED faults
  <2> DEFINE k == [step |-> "tidy", version |-> task[i].version, check |-> task[i].check]
  <2>1. task' = [task EXCEPT ![i] = k]
    BY <1>4 DEF Step, Become
  <2>2. k \in Task /\ k.step = "tidy" /\ k.version = task[i].version
    BY <1>1, InstallerAt, InstallerWritten
  <2> HIDE DEF k
  <2>3. task'[i].step = "tidy" /\ task'[i].version = task[i].version
    BY <2>1, <2>2, GivenRecord DEF MirrorInv
  <2>4. OneAtATime => live' = Whole(task[i].version)
    BY <1>1, <1>2, <1>4 DEF Progress, At
  <2>5. OneAtATime => Progress(i)'
    BY <2>3, <2>4 DEF Progress, At
  <2>6. MirrorTypes'
    BY <1>2, <1>4, Directories DEF MoveStage, MirrorTypes
  <2>7. OneAtATime => WholeOrGone(live') /\ WholeOrGone(old')
    BY <1>2, <1>3, <2>4 DEF WholeOrGone
  <2> QED
    BY <1>1, <1>3, <2>1, <2>2, <2>5, <2>6, <2>7, InstallerAt, Advance
<1>5. CASE Step(i, "put back") /\ UNCHANGED <<live, stage>> /\ (UNCHANGED faults \/ Fault)
  <2> DEFINE k == [step |-> "put back", version |-> task[i].version, check |-> task[i].check]
  <2>1. task' = [task EXCEPT ![i] = k]
    BY <1>5 DEF Step, Become
  <2>2. k \in Task /\ k.step = "put back"
    BY <1>1, InstallerAt, InstallerWritten
  <2> HIDE DEF k
  <2>3. task'[i].step = "put back"
    BY <2>1, <2>2, GivenRecord DEF MirrorInv
  <2>4. Progress(i)'
    BY <2>3, NoProgress
  <2>5. MirrorTypes'
    BY <1>2, <1>5, FaultsCounted DEF MoveStage, MirrorTypes
  <2>6. OneAtATime => WholeOrGone(live') /\ WholeOrGone(old')
    BY <1>2, <1>3, <1>5
  <2> QED
    BY <1>1, <1>3, <2>1, <2>2, <2>4, <2>5, <2>6, InstallerAt, Advance
<1> QED
  BY <1>4, <1>5 DEF MoveStage

\* The rename back: the mirror that was moved away comes back whole, or does not.
LEMMA PutBackStep ==
  ASSUME MirrorInv, NEW i \in Installers, PutBack(i)
  PROVE  MirrorInv'
<1>1. /\ task[i].step = "put back"
      /\ task[i].step \in Late \cup {"write"} /\ task[i].step \in Late \cup {"write", "read"}
  BY DEF PutBack, At, Late
<1>2. /\ MirrorTypes /\ FromOne
      /\ OneAtATime => WholeOrGone(live) /\ WholeOrGone(old)
  BY <1>1, InstallerAt
<1>3. PICK k \in Task : task' = [task EXCEPT ![i] = k] /\ task'[i] = k /\ k.step \in {"read", "idle"}
  BY LastRecord DEF PutBack
<1>4. Progress(i)'
  BY <1>3, NoProgress
<1>5. FromOne' /\ overlapped' = overlapped
  BY <1>2 DEF PutBack, FromOne
<1>6. \/ live' = old /\ old' = Absent /\ UNCHANGED faults
      \/ UNCHANGED <<live, old>> /\ (UNCHANGED faults \/ Fault)
  BY DEF PutBack
<1>7. MirrorTypes'
  BY <1>2, <1>6, FaultsCounted, Directories DEF PutBack, MirrorTypes
<1>8. OneAtATime => WholeOrGone(live') /\ WholeOrGone(old')
  BY <1>2, <1>6, Directories DEF WholeOrGone
<1> QED
  BY <1>1, <1>3, <1>4, <1>5, <1>7, <1>8, InstallerAt, Advance

\* What was moved away goes, and the lists are read.
LEMMA TidyStep ==
  ASSUME MirrorInv, NEW i \in Installers, Tidy(i)
  PROVE  MirrorInv'
<1>1. /\ task[i].step = "tidy"
      /\ task[i].step \in Late \cup {"write"} /\ task[i].step \in Late \cup {"write", "read"}
  BY DEF Tidy, At, Late
<1>2. /\ MirrorTypes /\ FromOne /\ task[i].version \in Versions
      /\ OneAtATime => WholeOrGone(live) /\ WholeOrGone(old)
  BY <1>1, InstallerAt
<1>3. Reload \in Task /\ Reload.step = "read" /\ task' = [task EXCEPT ![i] = Reload]
  BY InstallerWritten DEF Tidy, Become
<1>4. Progress(i)'
  BY <1>3, GivenRecord, NoProgress DEF MirrorInv
<1>5. FromOne' /\ overlapped' = overlapped
  BY <1>2 DEF Tidy, FromOne
<1>6. MirrorTypes'
  <2>1. task[i].version \in None .. MaxVersion
    BY <1>2, BoundsAssumption DEF Versions, None
  <2> QED
    BY <1>2, <2>1, FaultsCounted, Directories DEF Tidy, MirrorTypes
<1>7. OneAtATime => WholeOrGone(live') /\ WholeOrGone(old')
  BY <1>2, Directories DEF Tidy, WholeOrGone
<1> QED
  BY <1>1, <1>3, <1>4, <1>5, <1>6, <1>7, InstallerAt, Advance

\* Every file is read, and nothing else (iplist_feeds.rs, reload).
LEMMA AllRead ==
  /\ Len(Read) \in Nat
  /\ \A m \in 1 .. Len(Read) : Read[m] \in Files
  /\ \A f \in Files : \E m \in 1 .. Len(Read) : Read[m] = f
<1> DEFINE T == {Lists[i] : i \in 1 .. Len(Lists)}
           two == <<"manifest", "signature">>
<1>1. Lists \in Seq(T) /\ Len(Lists) \in Nat
  BY BoundsAssumption, LenProperties
<1>2. /\ two \in Seq({"manifest", "signature"}) /\ Len(two) = 2
      /\ two[1] = "manifest" /\ two[2] = "signature"
  OBVIOUS
<1>3. Lists \in Seq(Files) /\ two \in Seq(Files)
  BY <1>1, <1>2 DEF Files
<1> HIDE DEF two, T
<1>4. /\ Len(two \o Lists) = 2 + Len(Lists)
      /\ \A m \in 1 .. 2 + Len(Lists) :
             (two \o Lists)[m] = IF m <= 2 THEN two[m] ELSE Lists[m - 2]
  <2>1. /\ Len(two \o Lists) = Len(two) + Len(Lists)
        /\ \A m \in 1 .. Len(two) + Len(Lists) :
               (two \o Lists)[m] = IF m <= Len(two) THEN two[m] ELSE Lists[m - Len(two)]
    BY <1>3, ConcatProperties
  <2> QED
    BY <1>2, <2>1
<1>5. Read = two \o Lists
  BY DEF Read, two
<1>6. \A m \in 1 .. Len(Read) : Read[m] \in Files
  <2> SUFFICES ASSUME NEW m \in 1 .. 2 + Len(Lists)
               PROVE  (IF m <= 2 THEN two[m] ELSE Lists[m - 2]) \in Files
    BY <1>4, <1>5
  <2>1. CASE m = 1 \/ m = 2
    BY <1>2, <2>1 DEF Files
  <2>2. CASE m > 2
    <3>1. m - 2 \in 1 .. Len(Lists) /\ ~(m <= 2)
      BY <1>1, <2>2
    <3> QED
      BY <3>1 DEF Files
  <2> QED
    BY <1>1, <2>1, <2>2
<1>7. ASSUME NEW f \in Files PROVE \E m \in 1 .. Len(Read) : Read[m] = f
  <2>1. CASE f = "manifest"
    <3>1. 1 \in 1 .. 2 + Len(Lists) /\ Read[1] = f
      BY <1>1, <1>2, <1>4, <1>5, <2>1
    <3> QED
      BY <1>4, <1>5, <3>1
  <2>2. CASE f = "signature"
    <3>1. 2 \in 1 .. 2 + Len(Lists) /\ Read[2] = f
      BY <1>1, <1>2, <1>4, <1>5, <2>2
    <3> QED
      BY <1>4, <1>5, <3>1
  <2>3. ASSUME NEW m \in 1 .. Len(Lists), f = Lists[m]
        PROVE  \E n \in 1 .. Len(Read) : Read[n] = f
    <3>1. m + 2 \in 1 .. 2 + Len(Lists) /\ ~(m + 2 <= 2) /\ m + 2 - 2 = m
      BY <1>1, <2>3
    <3>2. Read[m + 2] = f
      BY <1>4, <1>5, <2>3, <3>1
    <3> QED
      BY <1>4, <1>5, <3>1, <3>2
  <2> QED
    BY <2>1, <2>2, <2>3 DEF Files
<1> QED
  BY <1>1, <1>4, <1>5, <1>6, <1>7

\* What was read is a sequence that is not yet, or at last, as long as the files.
LEMMA GotSoFar ==
  ASSUME NEW g \in Gots
  PROVE  /\ g \in Seq(None .. MaxVersion) /\ Len(g) \in 0 .. Len(Read)
         /\ g \in [1 .. Len(g) -> None .. MaxVersion]
         /\ Len(g) < Len(Read) => \A v \in None .. MaxVersion : Append(g, v) \in Gots
<1>1. PICK n \in 0 .. Len(Read) : g \in [1 .. n -> None .. MaxVersion]
  BY DEF Gots
<1>2. n \in Nat
  BY <1>1, AllRead
<1>3. g \in Seq(None .. MaxVersion) /\ Len(g) = n
  <2> DEFINE S == None .. MaxVersion
  <2> HIDE DEF S
  <2>1. g \in [1 .. n -> S]
    BY <1>1 DEF S
  <2>2. g \in Seq(S)
    BY <1>2, <2>1, SeqDef
  <2>3. Len(g) \in Nat /\ DOMAIN g = 1 .. Len(g) /\ DOMAIN g = 1 .. n
    BY <2>1, <2>2, LenProperties
  <2>4. \A a, b \in Nat : 1 .. a = 1 .. b => a <= b
    <3> SUFFICES ASSUME NEW a \in Nat, NEW b \in Nat, 1 .. a = 1 .. b, a > 0 PROVE a <= b
      OBVIOUS
    <3>1. a \in 1 .. a
      OBVIOUS
    <3> QED
      BY <3>1
  <2>5. Len(g) <= n /\ n <= Len(g)
    BY <1>2, <2>3, <2>4
  <2>6. \A a, b \in Nat : a <= b /\ b <= a => a = b
    OBVIOUS
  <2>7. Len(g) = n
    BY <1>2, <2>3, <2>5, <2>6, Zenon
  <2> QED
    BY <2>2, <2>7 DEF S
<1>4. ASSUME n < Len(Read), NEW v \in None .. MaxVersion PROVE Append(g, v) \in Gots
  <2>1. Append(g, v) \in Seq(None .. MaxVersion) /\ Len(Append(g, v)) = n + 1
    BY <1>3, AppendProperties
  <2>2. Append(g, v) \in [1 .. n + 1 -> None .. MaxVersion]
    BY <2>1, LenProperties
  <2>3. n + 1 \in 0 .. Len(Read)
    BY <1>2, <1>4, AllRead
  <2> QED
    BY <2>2, <2>3 DEF Gots
<1> QED
  BY <1>1, <1>3, <1>4

\* What is loaded is of the version of the manifest.
LEMMA LoadedFromOne ==
  ASSUME NEW holds \in [Files -> None .. MaxVersion]
  PROVE  /\ Verified(holds) \in [Files -> None .. MaxVersion]
         /\ \E v \in None .. MaxVersion : \A f \in Files : Verified(holds)[f] \in {None, v}
<1>1. None \in None .. MaxVersion
  BY BoundsAssumption DEF None
<1>2. "manifest" \in Files
  BY DEF Files
<1>3. holds["manifest"] \in None .. MaxVersion
  BY <1>2
<1>4. \A f \in Files : Verified(holds)[f] \in {None, holds["manifest"]}
  BY DEF Verified
<1>5. Verified(holds) \in [Files -> None .. MaxVersion]
  BY <1>1 DEF Verified
<1> QED
  BY <1>3, <1>4, <1>5

\* One more file is read, whatever the mirror is by now.
LEMMA ReadFileStep ==
  ASSUME MirrorInv, NEW i \in Installers, ReadFile(i)
  PROVE  MirrorInv'
<1>1. task[i].step = "read" /\ task[i].step \in Late \cup {"write", "read"}
  BY DEF ReadFile, At
<1>2. /\ MirrorTypes /\ FromOne /\ task[i] \in Task
      /\ OneAtATime => WholeOrGone(live) /\ WholeOrGone(old)
  BY <1>1, InstallerAt
<1>3. task[i] \in ReadTask /\ task[i].got \in Gots
  BY <1>1, <1>2, InstallerRead
<1> DEFINE g == task[i].got
           v == live.holds[Read[Len(g) + 1]]
           k == [task[i] EXCEPT !.got = Append(g, v)]
<1>4. Append(g, v) \in Gots
  <2>1. Len(g) \in 0 .. Len(Read) /\ Len(g) < Len(Read) /\ Len(Read) \in Nat
    BY <1>3, GotSoFar, AllRead DEF ReadFile
  <2>2. Read[Len(g) + 1] \in Files
    <3>1. Len(g) + 1 \in 1 .. Len(Read)
      BY <2>1
    <3> QED
      BY <3>1, AllRead
  <2>3. v \in None .. MaxVersion
    BY <1>2, <2>2, Directories DEF MirrorTypes
  <2> QED
    BY <1>3, <2>1, <2>3, GotSoFar
<1>5. k \in Task /\ k.step = "read"
  <2>1. k \in ReadTask /\ k.step = "read"
    BY <1>3, <1>4 DEF ReadTask
  <2>2. ReadTask \subseteq Task
    BY DEF ReadTask, Gots, Task
  <2> QED
    BY ONLY <2>1, <2>2
<1>6. task' = [task EXCEPT ![i] = k]
  BY DEF ReadFile, Become
<1> HIDE DEF k
<1>7. Progress(i)'
  BY <1>5, <1>6, GivenRecord, NoProgress DEF MirrorInv
<1>8. /\ MirrorTypes' /\ FromOne' /\ overlapped' = overlapped
      /\ OneAtATime => WholeOrGone(live') /\ WholeOrGone(old')
  BY <1>2 DEF ReadFile, dirs, MirrorTypes, FromOne
<1> QED
  BY <1>1, <1>5, <1>6, <1>7, <1>8, InstallerAt, Advance

\* The lists are put in force together: those of what was read that verify.
LEMMA SetFeedDataStep ==
  ASSUME MirrorInv, NEW i \in Installers, SetFeedData(i)
  PROVE  MirrorInv'
<1>1. task[i].step = "read" /\ task[i].step \in Late \cup {"write", "read"}
  BY DEF SetFeedData, At
<1>2. /\ MirrorTypes /\ FromOne /\ task[i] \in Task
      /\ OneAtATime => WholeOrGone(live) /\ WholeOrGone(old)
  BY <1>1, InstallerAt
<1>3. task[i].got \in [1 .. Len(Read) -> None .. MaxVersion]
  BY <1>1, <1>2, InstallerRead, GotSoFar DEF SetFeedData
<1>4. Got(i) \in [Files -> None .. MaxVersion]
  <2> SUFFICES ASSUME NEW f \in Files
               PROVE  task[i].got[CHOOSE n \in 1 .. Len(Read) : Read[n] = f] \in None .. MaxVersion
    BY DEF Got
  <2>1. (CHOOSE n \in 1 .. Len(Read) : Read[n] = f) \in 1 .. Len(Read)
    BY AllRead
  <2> QED
    BY <1>3, <2>1
<1>5. loaded' \in [Files -> None .. MaxVersion] /\ FromOne'
  BY <1>4, LoadedFromOne DEF SetFeedData, FromOne
<1>6. Idle \in Task /\ Idle.step = "idle" /\ task' = [task EXCEPT ![i] = Idle]
  BY InstallerWritten DEF SetFeedData, Become
<1>7. Progress(i)'
  BY <1>6, GivenRecord, NoProgress DEF MirrorInv
<1>8. /\ MirrorTypes' /\ overlapped' = overlapped
      /\ OneAtATime => WholeOrGone(live') /\ WholeOrGone(old')
  BY <1>2, <1>5 DEF SetFeedData, dirs, MirrorTypes
<1> QED
  BY <1>1, <1>5, <1>6, <1>7, <1>8, InstallerAt, Advance

\* Every directory is as the program left it when it stops, and nobody installs.
LEMMA RestartStep ==
  ASSUME MirrorInv, Restart
  PROVE  MirrorInv'
<1>1. MirrorTypes /\ MirrorSound
  BY MirrorTyped DEF MirrorInv
<1>2. loaded' \in [Files -> None .. MaxVersion] /\ FromOne'
  <2>1. live.holds \in [Files -> None .. MaxVersion]
    BY <1>1, Directories DEF MirrorTypes
  <2> QED
    BY <2>1, LoadedFromOne DEF Restart, FromOne
<1>3. crashes' \in 0 .. MaxCrashes
  BY <1>1, BoundsAssumption DEF Restart, MirrorTypes
<1>4. MirrorTypes'
  BY <1>1, <1>2, <1>3 DEF Restart, dirs, MirrorTypes
<1>5. task' \in [Installers -> Task] /\ \A j \in Installers : task'[j].step = "idle"
  BY InstallerWritten DEF Restart
<1>6. \A j \in Installers : Progress(j)'
  BY <1>5 DEF Progress, At
<1>7. MirrorSound'
  BY <1>1, <1>5, <1>6 DEF Restart, dirs, MirrorSound, OneAtATime, WholeOrGone, At
<1> QED
  BY <1>2, <1>4, <1>5, <1>7 DEF MirrorInv, TypeOK, MirrorTypes

\* The program starts with a whole mirror or none, and with its lists.
LEMMA MirrorStart == Init => MirrorInv
<1> SUFFICES ASSUME Init PROVE MirrorInv
  OBVIOUS
<1>1. 1 \in Versions /\ None \in None .. MaxVersion /\ 1 \in None .. MaxVersion
  BY BoundsAssumption DEF Versions, None
<1>2. live \in Directory /\ (~live.there => live = Absent) /\ WholeOrGone(live)
  BY <1>1, Directories DEF Init, WholeOrGone
<1>3. live.holds \in [Files -> None .. MaxVersion] /\ live.holds["manifest"] \in None .. MaxVersion
  <2>1. "manifest" \in Files
    BY DEF Files
  <2>2. live.holds \in [Files -> None .. MaxVersion]
    BY <1>2, Directories
  <2> QED
    BY <2>1, <2>2
<1>4. loaded \in [Files -> None .. MaxVersion] /\ FromOne
  BY <1>3, LoadedFromOne DEF Init, FromOne
<1>5. 0 \in 0 .. MaxFaults /\ 0 \in 0 .. MaxCrashes
  BY BoundsAssumption
<1>6. MirrorTypes
  BY <1>2, <1>3, <1>4, <1>5, Directories DEF Init, MirrorTypes
<1>7. task \in [Installers -> Task] /\ \A j \in Installers : task[j].step = "idle"
  BY InstallerWritten DEF Init
<1>8. MirrorSound
  <2>1. \A j \in Installers : Progress(j) /\ At(j, "idle")
    BY <1>7 DEF Progress, At
  <2>2. WholeOrGone(old)
    BY Directories DEF Init, WholeOrGone
  <2> QED
    BY <1>2, <2>1, <2>2 DEF MirrorSound
<1> QED
  BY <1>4, <1>6, <1>7, <1>8, MirrorTyped DEF MirrorInv

-----------------------------------------------------------------------------
(* What follows.                                                             *)

\* Every step keeps the invariant.
LEMMA MirrorStep == MirrorInv /\ [Next]_vars => MirrorInv'
<1> SUFFICES ASSUME MirrorInv, [Next]_vars PROVE MirrorInv'
  OBVIOUS
<1>1. ASSUME NEW i \in Installers, NEW version \in Versions, NEW check \in BOOLEAN,
             Begin(i, version, check)
      PROVE  MirrorInv'
  BY <1>1, BeginStep
<1>2. ASSUME NEW i \in Installers,
             ClearStage(i) \/ CreateStage(i) \/ WriteFile(i) \/ Abandon(i)
      PROVE  MirrorInv'
  BY <1>2, ClearStageStep, CreateStageStep, WriteFileStep, AbandonStep
<1>3. ASSUME NEW i \in Installers, Swap(i) PROVE MirrorInv'
  BY <1>3, DropOldStep, MoveLiveStep, MoveStageStep, PutBackStep, TidyStep DEF Swap
<1>4. ASSUME NEW i \in Installers, ReadFile(i) \/ SetFeedData(i) PROVE MirrorInv'
  BY <1>4, ReadFileStep, SetFeedDataStep
<1>5. CASE Restart
  BY <1>5, RestartStep
<1>6. CASE UNCHANGED vars
  <2>1. UNCHANGED <<live, stage, old, task, loaded, installed, overlapped, faults, crashes>>
    BY <1>6 DEF vars
  <2>2. TypeOK' /\ FromOne'
    BY <2>1 DEF MirrorInv, TypeOK, FromOne
  <2>3. MirrorSound'
    BY <2>1 DEF MirrorInv, MirrorSound, OneAtATime, WholeOrGone, Progress, At
  <2> QED
    BY <2>2, <2>3 DEF MirrorInv
<1> QED
  BY <1>1, <1>2, <1>3, <1>4, <1>5, <1>6 DEF Next

\* The invariant of the mirror (install_bundle, reload).
THEOREM MirrorKnown == Spec => []MirrorInv
BY MirrorStart, MirrorStep, PTL DEF Spec

\* Every variable of the mirror holds a value of its shape.
THEOREM MirrorTypeCorrect == Spec => []TypeOK
<1>1. MirrorInv => TypeOK
  BY DEF MirrorInv
<1> QED
  BY <1>1, MirrorKnown, PTL

\* What is in memory came from one bundle, however many installed at once and
\* however the mirror was swapped while it was read (verified_manifest,
\* verified_file).
THEOREM OneBundle == Spec => []OneBundleInMemory
<1>1. MirrorInv => OneBundleInMemory
  BY DEF MirrorInv, FromOne, OneBundleInMemory
<1> QED
  BY <1>1, MirrorKnown, PTL

\* Wherever the program stops, and whatever fails, the mirror is one bundle or is
\* not there, as long as one installs at a time (install_bundle).
THEOREM AMirrorIsWhole == Spec => []NeverHalfAlone
<1>1. MirrorInv => NeverHalfAlone
  BY DEF MirrorInv, MirrorSound, NeverHalfAlone, NeverHalf, WholeOrGone
<1> QED
  BY <1>1, MirrorKnown, PTL

\* An installation that is said to have worked has (install_bundle).
THEOREM WorkedWhenSaid == Spec => []SuccessIsReal
<1>1. MirrorInv => SuccessIsReal
  BY DEF MirrorInv, MirrorSound, Progress, SuccessIsReal
<1> QED
  BY <1>1, MirrorKnown, PTL

-----------------------------------------------------------------------------
(* The country database: the inductive invariant.                            *)

Databases == Editions \cup {Upload}
Fetching == {"compare", "download", "choose", "unhold", "hold body", "hold manifest",
             "hold signature", "held body"}
Settling == {"create", "keep", "place", "label", "load", "drop held", "drop previous"}
Afters == {"record", "drop held", "drop previous", "nothing"}
Sources == {"channel", "uploaded"}

\* A hand with an edition, one that puts back, and one that installs.
FetchHand == [at : Fetching \cup {"record"}, db : Editions]
RevertHand == [at : {"revert label"}, db : Databases]
InstallHand == {r \in [at : Settling \cup {"record"}, db : Databases, source : Sources, after : Afters] :
                    r.after = "record" => r.db \in Editions}
WriteHand == {r \in [at : {"write"}, db : Databases, source : Sources, after : Afters,
                     into : Paths \cup {"nowhere"}] :
                  r.after = "record" => r.db \in Editions}
HandState == {Rest} \cup FetchHand \cup RevertHand \cup InstallHand \cup WriteHand

\* What is held is of the channel, whatever there is of it.
HeldState == [there : BOOLEAN, body : Nothing .. MaxEdition, manifest : Nothing .. MaxEdition,
              signature : Nothing .. MaxEdition]

Shelf ==
    /\ file \in [Paths -> Nothing .. Half]
    /\ offers \in Editions
    /\ held \in HeldState

\* What is staged is whole once it is written, and what is to be recorded is there.
Way(h) ==
    /\ HandAt(h, "write") => hand[h].into = "new"
    /\ hand[h].at \in {"keep", "place"} => file["new"] = hand[h].db
    /\ hand[h].at \in {"label", "load"} /\ hand[h].after = "record" => hand[h].db \in had
    /\ HandAt(h, "record") => hand[h].db \in had

CountrySound ==
    OneHand =>
        /\ \A h, j \in Hands : h # j => HandAt(h, "idle") \/ HandAt(j, "idle")
        /\ WholeWhereItStood /\ TakenWasHad
        /\ \A h \in Hands : Way(h)

CountryInv == Shelf /\ hand \in [Hands -> HandState] /\ CountrySound

-----------------------------------------------------------------------------
(* Its records.                                                              *)

\* What a file may be: nothing, a part of a database, or a database.
LEMMA WhatAFileIs ==
  /\ Nothing \in Nothing .. Half /\ Half \in Nothing .. Half /\ Databases \subseteq Nothing .. Half
  /\ Nothing # Half /\ Nothing \notin Databases /\ Half \notin Databases
  /\ \A x \in Nothing .. Half : x \notin {Nothing, Half} => x \in Databases
  /\ Editions \subseteq Nothing .. MaxEdition /\ Nothing \in Nothing .. MaxEdition
  /\ \A x \in Nothing .. MaxEdition : x # Nothing => x \in Editions
  /\ Editions \subseteq Databases /\ Upload \in Databases
  /\ 1 \in Editions
BY CountryAssumption DEF Nothing, Half, Databases, Editions, Upload

\* A hand's record, by what it does next.
LEMMA HandRead ==
  ASSUME NEW r \in HandState
  PROVE  /\ r.at \in Fetching => r \in FetchHand /\ r.db \in Editions
         /\ r.at = "revert label" => r \in RevertHand /\ r.db \in Databases
         /\ r.at \in Settling => r \in InstallHand /\ r.db \in Databases
         /\ r.at = "write" => r \in WriteHand /\ r.db \in Databases
         /\ r.at = "record" => r \in FetchHand \cup InstallHand
<1>1. r = Rest \/ r \in FetchHand \/ r \in RevertHand \/ r \in InstallHand \/ r \in WriteHand
  BY DEF HandState
<1>2. CASE r = Rest
  <2>1. r.at = "idle"
    BY <1>2 DEF Rest
  <2> QED
    BY <2>1 DEF Fetching, Settling
<1>3. CASE r \in FetchHand
  BY <1>3 DEF FetchHand, Fetching, Settling
<1>4. CASE r \in RevertHand
  BY <1>4 DEF RevertHand, Fetching, Settling
<1>5. CASE r \in InstallHand
  BY <1>5 DEF InstallHand, Fetching, Settling
<1>6. CASE r \in WriteHand
  BY <1>6 DEF WriteHand, Fetching, Settling
<1> QED
  BY <1>1, <1>2, <1>3, <1>4, <1>5, <1>6

\* The records a hand is given by a fetch.
LEMMA FetchWritten ==
  /\ Rest \in HandState /\ Rest.at = "idle"
  /\ FetchHand \subseteq HandState /\ RevertHand \subseteq HandState
  /\ InstallHand \subseteq HandState /\ WriteHand \subseteq HandState
  /\ \A s \in Fetching, e \in Editions : [at |-> s, db |-> e] \in FetchHand
  /\ \A d \in Databases : [at |-> "revert label", db |-> d] \in RevertHand
  /\ \A r \in FetchHand, s \in Fetching \cup {"record"} :
         /\ [r EXCEPT !.at = s] \in FetchHand
         /\ [r EXCEPT !.at = s].at = s /\ [r EXCEPT !.at = s].db = r.db
BY DEF HandState, Rest, FetchHand, RevertHand

\* And by an installation.
LEMMA InstallWritten ==
  /\ \A d \in Databases, s \in Sources, a \in Afters : (a = "record" => d \in Editions) =>
         /\ Installing(d, s, a) \in InstallHand /\ Installing(d, s, a).at = "create"
  /\ \A r \in InstallHand, s \in Settling \cup {"record"} :
         /\ [r EXCEPT !.at = s] \in InstallHand
         /\ [r EXCEPT !.at = s].at = s /\ [r EXCEPT !.at = s].db = r.db
         /\ [r EXCEPT !.at = s].after = r.after
  /\ \A r \in InstallHand : LET w == [at |-> "write", db |-> r.db, source |-> r.source,
                                      after |-> r.after, into |-> "new"] IN
         w \in WriteHand /\ w.at = "write" /\ w.into = "new"
  /\ \A r \in WriteHand : LET k == [at |-> "keep", db |-> r.db, source |-> r.source,
                                    after |-> r.after] IN
         k \in InstallHand /\ k.at = "keep" /\ k.db = r.db
  /\ \A r \in WriteHand, p \in Paths \cup {"nowhere"} :
         [r EXCEPT !.into = p] \in WriteHand /\ [r EXCEPT !.into = p].at = "write"
<1>1. \A d \in Databases, s \in Sources, a \in Afters : (a = "record" => d \in Editions) =>
         /\ Installing(d, s, a) \in InstallHand /\ Installing(d, s, a).at = "create"
  BY DEF Installing, InstallHand, Settling
<1>2. \A r \in InstallHand, s \in Settling \cup {"record"} :
         /\ [r EXCEPT !.at = s] \in InstallHand
         /\ [r EXCEPT !.at = s].at = s /\ [r EXCEPT !.at = s].db = r.db
         /\ [r EXCEPT !.at = s].after = r.after
  BY DEF InstallHand
<1>3. \A r \in InstallHand : LET w == [at |-> "write", db |-> r.db, source |-> r.source,
                                       after |-> r.after, into |-> "new"] IN
         w \in WriteHand /\ w.at = "write" /\ w.into = "new"
  BY DEF InstallHand, WriteHand, Paths
<1>4. \A r \in WriteHand : LET k == [at |-> "keep", db |-> r.db, source |-> r.source,
                                     after |-> r.after] IN
         k \in InstallHand /\ k.at = "keep" /\ k.db = r.db
  BY DEF InstallHand, WriteHand, Settling
<1>5. \A r \in WriteHand, p \in Paths \cup {"nowhere"} :
         [r EXCEPT !.into = p] \in WriteHand /\ [r EXCEPT !.into = p].at = "write"
  BY DEF WriteHand
<1> QED
  BY <1>1, <1>2, <1>3, <1>4, <1>5, Zenon

-----------------------------------------------------------------------------
(* Its steps.                                                                *)

\* A hand goes on, and one that was idle stays so.
LEMMA HandAdvance ==
  ASSUME CountryInv, NEW h \in Hands, ~HandAt(h, "idle"),
         hand' \in [Hands -> HandState],
         \A j \in Hands \ {h} : HandAt(j, "idle") => HandAt(j, "idle")',
         crossed' = crossed, Shelf',
         OneHand => (WholeWhereItStood /\ TakenWasHad)' /\ Way(h)'
  PROVE  CountryInv'
<1> SUFFICES ASSUME OneHand PROVE
               /\ \A i, j \in Hands : i # j => HandAt(i, "idle")' \/ HandAt(j, "idle")'
               /\ (WholeWhereItStood /\ TakenWasHad)'
               /\ \A j \in Hands : Way(j)'
  BY DEF CountryInv, CountrySound, OneHand
<1>1. \A j \in Hands : j # h => HandAt(j, "idle")'
  BY DEF CountryInv, CountrySound
<1>2. \A i, j \in Hands : i # j => HandAt(i, "idle")' \/ HandAt(j, "idle")'
  BY <1>1
<1>3. ASSUME NEW j \in Hands PROVE Way(j)'
  <2>1. CASE j = h
    BY <2>1
  <2>2. CASE j # h
    BY <1>1, <2>2 DEF Way, HandAt
  <2> QED
    BY <2>1, <2>2
<1> QED
  BY <1>2, <1>3

\* A hand that is at work: its record, and what is known of the files.
LEMMA HandBusy ==
  ASSUME CountryInv, NEW h \in Hands, ~HandAt(h, "idle")
  PROVE  /\ hand[h] \in HandState /\ Shelf /\ hand \in [Hands -> HandState]
         /\ OneHand => WholeWhereItStood /\ TakenWasHad /\ Way(h)
BY DEF CountryInv, CountrySound

\* What a hand is given is what it has, and the others have what they had.
LEMMA HandGiven ==
  ASSUME hand \in [Hands -> HandState], NEW h \in Hands, NEW r \in HandState,
         hand' = [hand EXCEPT ![h] = r]
  PROVE  /\ hand' \in [Hands -> HandState] /\ hand'[h] = r
         /\ \A j \in Hands \ {h} : HandAt(j, "idle") => HandAt(j, "idle")'
BY DEF HandAt

\* Nothing but what it does next is looked at of a hand in between.
LEMMA NotUnderWay ==
  ASSUME NEW h \in Hands, hand'[h].at \notin {"write", "keep", "place", "label", "load", "record"}
  PROVE  Way(h)'
BY DEF Way, HandAt

UnderWay == {"write", "keep", "place", "label", "load", "record"}

\* A hand begins: it is the only one, or the history says not.
LEMMA HandBegins ==
  ASSUME CountryInv, NEW h \in Hands, NEW r \in HandState, r.at \notin UnderWay, Begins(h, r),
         UNCHANGED <<file, offers, held, taken, had>>
  PROVE  CountryInv'
<1>1. /\ hand' = [hand EXCEPT ![h] = r]
      /\ crossed' = (crossed \/ \E j \in Hands \ {h} : ~HandAt(j, "idle"))
  BY DEF Begins, Take
<1>2. /\ hand' \in [Hands -> HandState] /\ hand'[h] = r
      /\ \A j \in Hands \ {h} : HandAt(j, "idle") => HandAt(j, "idle")'
  BY <1>1, HandGiven DEF CountryInv
<1>3. Shelf'
  BY DEF CountryInv, Shelf
<1>4. CountrySound'
  <2> SUFFICES ASSUME OneHand' PROVE
                 /\ \A i, j \in Hands : i # j => HandAt(i, "idle")' \/ HandAt(j, "idle")'
                 /\ (WholeWhereItStood /\ TakenWasHad)'
                 /\ \A j \in Hands : Way(j)'
    BY DEF CountrySound
  <2>1. OneHand /\ \A j \in Hands : j # h => HandAt(j, "idle")'
    BY <1>1, <1>2 DEF OneHand
  <2>2. \A i, j \in Hands : i # j => HandAt(i, "idle")' \/ HandAt(j, "idle")'
    BY <2>1
  <2>3. (WholeWhereItStood /\ TakenWasHad)'
    BY <2>1 DEF CountryInv, CountrySound, WholeWhereItStood, TakenWasHad, Usable
  <2>4. ASSUME NEW j \in Hands PROVE Way(j)'
    BY <1>2, <2>1, <2>4 DEF Way, HandAt, UnderWay
  <2> QED
    BY <2>2, <2>3, <2>4
<1> QED
  BY <1>2, <1>3, <1>4 DEF CountryInv

\* A hand goes on without touching a file, a line or what is held.
LEMMA HandGoes ==
  ASSUME CountryInv, NEW h \in Hands, ~HandAt(h, "idle"), NEW r \in HandState,
         r.at \notin UnderWay, hand' = [hand EXCEPT ![h] = r],
         UNCHANGED <<file, offers, held, taken, had, crossed>>
  PROVE  CountryInv'
<1>1. /\ hand' \in [Hands -> HandState] /\ hand'[h] = r
      /\ \A j \in Hands \ {h} : HandAt(j, "idle") => HandAt(j, "idle")'
  BY HandGiven DEF CountryInv
<1>2. Shelf' /\ (OneHand => (WholeWhereItStood /\ TakenWasHad)')
  BY DEF CountryInv, CountrySound, Shelf, OneHand, WholeWhereItStood, TakenWasHad, Usable
<1>3. Way(h)'
  BY <1>1, NotUnderWay DEF UnderWay
<1> QED
  BY <1>1, <1>2, <1>3, HandAdvance

\* The pages and the task begin with an edition, an upload or what was replaced.
LEMMA BeginningStep ==
  ASSUME CountryInv, NEW h \in Hands, Check(h) \/ ApplyHeld(h) \/ UploadOne(h) \/ Revert(h)
  PROVE  CountryInv'
<1>1. Shelf
  BY DEF CountryInv
<1>2. CASE Check(h)
  <2> DEFINE r == [at |-> "compare", db |-> offers]
  <2>1. r \in HandState /\ r.at \notin UnderWay
    BY <1>1, FetchWritten DEF Fetching, UnderWay, Shelf
  <2>2. Begins(h, r) /\ UNCHANGED <<file, offers, held, taken, had>>
    BY <1>2 DEF Check, files
  <2> HIDE DEF r
  <2> QED
    BY <2>1, <2>2, HandBegins
<1>3. CASE ApplyHeld(h)
  <2> DEFINE r == [at |-> "held body", db |-> held.manifest]
  <2>1. held.manifest \in Editions
    BY <1>1, <1>3, WhatAFileIs DEF ApplyHeld, Shelf, HeldState
  <2>2. r \in HandState /\ r.at \notin UnderWay
    BY <2>1, FetchWritten DEF Fetching, UnderWay
  <2>3. Begins(h, r) /\ UNCHANGED <<file, offers, held, taken, had>>
    BY <1>3 DEF ApplyHeld, files
  <2> HIDE DEF r
  <2> QED
    BY <2>2, <2>3, HandBegins
<1>4. CASE UploadOne(h)
  <2> DEFINE r == Installing(Upload, "uploaded", "nothing")
  <2>1. r \in HandState /\ r.at \notin UnderWay
    BY WhatAFileIs, InstallWritten, FetchWritten DEF Sources, Afters, UnderWay
  <2>2. Begins(h, r) /\ UNCHANGED <<file, offers, held, taken, had>>
    BY <1>4 DEF UploadOne, files
  <2> HIDE DEF r
  <2> QED
    BY <2>1, <2>2, HandBegins
<1>5. CASE Revert(h)
  <2> DEFINE r == [at |-> "revert label", db |-> file["previous"]]
  <2>1. file["previous"] \in Databases
    BY <1>1, <1>5, WhatAFileIs DEF Revert, Usable, Shelf, Paths
  <2>2. r \in HandState /\ r.at \notin UnderWay
    BY <2>1, FetchWritten DEF UnderWay
  <2>3. Begins(h, r) /\ UNCHANGED <<file, offers, held, taken, had>>
    BY <1>5 DEF Revert, files
  <2> HIDE DEF r
  <2> QED
    BY <2>2, <2>3, HandBegins
<1> QED
  BY <1>2, <1>3, <1>4, <1>5

\* The fetch compares, downloads and chooses without writing anything.
LEMMA FetchingStep ==
  ASSUME CountryInv, NEW h \in Hands, Compare(h) \/ Download(h) \/ Choose(h)
  PROVE  CountryInv'
<1>1. ~HandAt(h, "idle") /\ hand[h].at \in Fetching
  BY DEF Compare, Download, Choose, HandAt, Fetching
<1>2. hand[h] \in FetchHand /\ hand[h].db \in Editions
  BY <1>1, HandRead DEF CountryInv
<1>3. UNCHANGED <<file, offers, held, taken, had, crossed>>
  BY DEF Compare, Download, Choose, files
<1>4. CASE Done(h)
  <2>1. Rest \in HandState /\ Rest.at \notin UnderWay
    BY FetchWritten DEF UnderWay
  <2> QED
    BY <1>1, <1>3, <1>4, <2>1, HandGoes DEF Done, Take
<1>5. ASSUME NEW s \in {"download", "choose", "unhold"}, On(h, s) PROVE CountryInv'
  <2> DEFINE r == [hand[h] EXCEPT !.at = s]
  <2>1. r \in HandState /\ r.at \notin UnderWay
    BY <1>2, FetchWritten DEF Fetching, UnderWay
  <2>2. hand' = [hand EXCEPT ![h] = r]
    BY <1>5 DEF On, Take
  <2> HIDE DEF r
  <2> QED
    BY <1>1, <1>3, <2>1, <2>2, HandGoes
<1>6. CASE Take(h, Installing(hand[h].db, "channel", "record"))
  <2> DEFINE r == Installing(hand[h].db, "channel", "record")
  <2>1. r \in HandState /\ r.at \notin UnderWay
    BY <1>2, WhatAFileIs, FetchWritten, InstallWritten DEF UnderWay, Sources, Afters
  <2>2. hand' = [hand EXCEPT ![h] = r]
    BY <1>6 DEF Take
  <2> HIDE DEF r
  <2> QED
    BY <1>1, <1>3, <2>1, <2>2, HandGoes
<1> QED
  BY <1>4, <1>5, <1>6 DEF Compare, Download, Choose

\* What is held is of the channel, whichever of its files is written.
LEMMA HeldWritten ==
  /\ NoneHeld \in HeldState
  /\ \A e \in Editions, w \in HeldState :
         /\ [w EXCEPT !.there = TRUE, !.body = e] \in HeldState
         /\ [w EXCEPT !.manifest = e] \in HeldState
         /\ [w EXCEPT !.signature = e] \in HeldState
<1>1. Nothing \in Nothing .. MaxEdition /\ \A e \in Editions : e \in Nothing .. MaxEdition
  BY WhatAFileIs
<1> QED
  BY <1>1 DEF NoneHeld, HeldState

\* An edition is held, file by file, and counts as had once it is whole.
LEMMA HoldStep ==
  ASSUME CountryInv, NEW h \in Hands, Hold(h)
  PROVE  CountryInv'
<1>1. ~HandAt(h, "idle") /\ hand[h].at \in Fetching
  BY DEF Hold, Unhold, HoldBody, HoldManifest, HoldSignature, HandAt, Fetching
<1>2. hand[h] \in FetchHand /\ hand[h].db \in Editions /\ Shelf /\ hand \in [Hands -> HandState]
  BY <1>1, HandRead DEF CountryInv
<1>3. /\ UNCHANGED <<file, offers, taken, crossed>>
      /\ held' \in {NoneHeld, held, [held EXCEPT !.there = TRUE, !.body = hand[h].db],
                    [held EXCEPT !.manifest = hand[h].db], [held EXCEPT !.signature = hand[h].db]}
      /\ had' \in {had, had \cup {hand[h].db}}
  BY DEF Hold, Unhold, HoldBody, HoldManifest, HoldSignature, files
<1>4. Shelf'
  <2> DEFINE e == hand[h].db
  <2>1. held' \in HeldState
    <3>1. e \in Editions /\ held \in HeldState
      BY <1>2 DEF Shelf
    <3>2. /\ NoneHeld \in HeldState /\ [held EXCEPT !.there = TRUE, !.body = e] \in HeldState
          /\ [held EXCEPT !.manifest = e] \in HeldState /\ [held EXCEPT !.signature = e] \in HeldState
      BY ONLY <3>1, HeldWritten, Zenon
    <3> QED
      BY ONLY <1>3, <3>1, <3>2
  <2> QED
    BY <1>2, <1>3, <2>1 DEF Shelf
<1>5. OneHand => (WholeWhereItStood /\ TakenWasHad)'
  BY <1>3 DEF CountryInv, CountrySound, OneHand, WholeWhereItStood, TakenWasHad, Usable
<1>6. CASE Done(h)
  <2>1. Rest \in HandState /\ Rest.at \notin UnderWay
    BY FetchWritten DEF UnderWay
  <2>2. /\ hand' \in [Hands -> HandState] /\ hand'[h] = Rest
        /\ \A j \in Hands \ {h} : HandAt(j, "idle") => HandAt(j, "idle")'
    BY <1>2, <1>6, <2>1, HandGiven DEF Done, Take
  <2>3. Way(h)'
    BY <2>1, <2>2, NotUnderWay DEF UnderWay
  <2> QED
    BY <1>1, <1>3, <1>4, <1>5, <2>2, <2>3, HandAdvance
<1>7. ASSUME NEW s \in Fetching, On(h, s) PROVE CountryInv'
  <2> DEFINE r == [hand[h] EXCEPT !.at = s]
  <2>1. r \in HandState /\ r.at \notin UnderWay
    BY <1>2, FetchWritten DEF Fetching, UnderWay
  <2>2. hand' = [hand EXCEPT ![h] = r]
    BY <1>7 DEF On, Take
  <2> HIDE DEF r
  <2>3. /\ hand' \in [Hands -> HandState] /\ hand'[h] = r
        /\ \A j \in Hands \ {h} : HandAt(j, "idle") => HandAt(j, "idle")'
    BY <1>2, <2>1, <2>2, HandGiven
  <2>4. Way(h)'
    BY <2>1, <2>3, NotUnderWay DEF UnderWay
  <2> QED
    BY <1>1, <1>3, <1>4, <1>5, <2>3, <2>4, HandAdvance
<1>8. CASE On(h, "record") /\ had' = had \cup {hand[h].db}
  <2> DEFINE r == [hand[h] EXCEPT !.at = "record"]
  <2>1. r \in HandState /\ r.at = "record" /\ r.db = hand[h].db
    BY <1>2, FetchWritten
  <2>2. hand' = [hand EXCEPT ![h] = r]
    BY <1>8 DEF On, Take
  <2> HIDE DEF r
  <2>3. /\ hand' \in [Hands -> HandState] /\ hand'[h] = r
        /\ \A j \in Hands \ {h} : HandAt(j, "idle") => HandAt(j, "idle")'
    BY <1>2, <2>1, <2>2, HandGiven
  <2>4. Way(h)'
    BY <1>8, <2>1, <2>3 DEF Way, HandAt
  <2> QED
    BY <1>1, <1>3, <1>4, <1>5, <2>3, <2>4, HandAdvance
<1>9. "hold body" \in Fetching /\ "hold manifest" \in Fetching /\ "hold signature" \in Fetching
  BY DEF Fetching
<1> QED
  BY <1>6, <1>7, <1>8, <1>9 DEF Hold, Unhold, HoldBody, HoldManifest, HoldSignature, HeldFirst

\* What is recorded as taken has been had.
LEMMA RecordStep ==
  ASSUME CountryInv, NEW h \in Hands, Record(h)
  PROVE  CountryInv'
<1>1. ~HandAt(h, "idle") /\ HandAt(h, "record")
  BY DEF Record, HandAt
<1>2. Shelf /\ hand \in [Hands -> HandState] /\ (OneHand => WholeWhereItStood /\ Way(h))
  BY <1>1, HandBusy
<1>3. Rest \in HandState /\ Rest.at \notin UnderWay
  BY FetchWritten DEF UnderWay
<1>4. /\ hand' \in [Hands -> HandState] /\ hand'[h] = Rest
      /\ \A j \in Hands \ {h} : HandAt(j, "idle") => HandAt(j, "idle")'
  BY <1>2, <1>3, HandGiven DEF Record, Done, Take
<1>5. Way(h)'
  BY <1>3, <1>4, NotUnderWay DEF UnderWay
<1>6. Shelf' /\ crossed' = crossed
  BY <1>2 DEF Record, files, Shelf
<1>7. OneHand => (WholeWhereItStood /\ TakenWasHad)'
  BY <1>1, <1>2 DEF Record, files, OneHand, WholeWhereItStood, TakenWasHad, Usable, Way
<1> QED
  BY <1>1, <1>4, <1>5, <1>6, <1>7, HandAdvance

\* The pages look at what is held and at the line beside the database.
LEMMA PageReadsStep ==
  ASSUME CountryInv, NEW h \in Hands, HeldBody(h) \/ RevertLabel(h)
  PROVE  CountryInv'
<1>1. ~HandAt(h, "idle") /\ UNCHANGED <<file, offers, held, taken, had, crossed>>
  BY DEF HeldBody, RevertLabel, HandAt, files
<1>2. CASE Done(h)
  <2>1. Rest \in HandState /\ Rest.at \notin UnderWay
    BY FetchWritten DEF UnderWay
  <2> QED
    BY <1>1, <1>2, <2>1, HandGoes DEF Done, Take
<1>3. CASE HandAt(h, "held body") /\ Take(h, Installing(hand[h].db, "channel", "drop held"))
  <2> DEFINE r == Installing(hand[h].db, "channel", "drop held")
  <2>1. hand[h].db \in Databases
    BY <1>3, HandRead, WhatAFileIs DEF CountryInv, HandAt, Fetching
  <2>2. r \in HandState /\ r.at \notin UnderWay
    BY <2>1, FetchWritten, InstallWritten DEF UnderWay, Sources, Afters
  <2>3. hand' = [hand EXCEPT ![h] = r]
    BY <1>3 DEF Take
  <2> HIDE DEF r
  <2> QED
    BY <1>1, <2>2, <2>3, HandGoes
<1>4. CASE HandAt(h, "revert label") /\ Take(h, Installing(hand[h].db, stored_source, "drop previous"))
  <2> DEFINE r == Installing(hand[h].db, stored_source, "drop previous")
  <2>1. hand[h].db \in Databases
    BY <1>4, HandRead DEF CountryInv, HandAt
  <2>2. stored_source \in Sources
    BY DEF stored_source, Sources
  <2>3. r \in HandState /\ r.at \notin UnderWay
    BY <2>1, <2>2, FetchWritten, InstallWritten DEF UnderWay, Afters
  <2>4. hand' = [hand EXCEPT ![h] = r]
    BY <1>4 DEF Take
  <2> HIDE DEF r
  <2> QED
    BY <1>1, <2>3, <2>4, HandGoes
<1> QED
  BY <1>2, <1>3, <1>4 DEF HeldBody, RevertLabel

\* And drop what was held, or what was put back.
LEMMA PageDropsStep ==
  ASSUME CountryInv, NEW h \in Hands, DropHeld(h) \/ DropPrevious(h)
  PROVE  CountryInv'
<1>1. ~HandAt(h, "idle") /\ UNCHANGED <<offers, taken, had, crossed>>
  BY DEF DropHeld, DropPrevious, HandAt
<1>2. Shelf /\ hand \in [Hands -> HandState] /\ (OneHand => WholeWhereItStood /\ TakenWasHad)
  BY <1>1, HandBusy
<1>3. Rest \in HandState /\ Rest.at \notin UnderWay
  BY FetchWritten DEF UnderWay
<1>4. /\ hand' \in [Hands -> HandState] /\ hand'[h] = Rest
      /\ \A j \in Hands \ {h} : HandAt(j, "idle") => HandAt(j, "idle")'
  BY <1>2, <1>3, HandGiven DEF DropHeld, DropPrevious, Done, Take
<1>5. Way(h)'
  BY <1>3, <1>4, NotUnderWay DEF UnderWay
<1>6. CASE DropHeld(h)
  <2>1. Shelf' /\ file' = file
    BY <1>2, <1>6, HeldWritten DEF DropHeld, files, Shelf
  <2>2. OneHand => (WholeWhereItStood /\ TakenWasHad)'
    BY <1>1, <1>2, <2>1 DEF OneHand, WholeWhereItStood, TakenWasHad, Usable
  <2> QED
    BY <1>1, <1>4, <1>5, <2>1, <2>2, HandAdvance
<1>7. CASE DropPrevious(h)
  <2>1. file' = [file EXCEPT !["previous"] = Nothing] /\ held' = held
    BY <1>7 DEF DropPrevious
  <2>2. Shelf'
    BY <1>1, <1>2, <2>1, WhatAFileIs DEF Shelf
  <2>3. OneHand => (WholeWhereItStood /\ TakenWasHad)'
    BY <1>1, <1>2, <2>1 DEF OneHand, WholeWhereItStood, TakenWasHad, Usable, Shelf, Paths
  <2> QED
    BY <1>1, <1>4, <1>5, <2>2, <2>3, HandAdvance
<1> QED
  BY <1>6, <1>7

\* The staging file is opened, and holds a part of the database for a while.
LEMMA CreateStep ==
  ASSUME CountryInv, NEW h \in Hands, Create(h)
  PROVE  CountryInv'
<1>1. ~HandAt(h, "idle") /\ hand[h].at \in Settling /\ UNCHANGED <<offers, held, taken, had, crossed>>
  BY DEF Create, HandAt, Settling
<1>2. /\ Shelf /\ hand \in [Hands -> HandState] /\ (OneHand => WholeWhereItStood /\ TakenWasHad)
      /\ hand[h] \in InstallHand
  BY <1>1, HandBusy, HandRead
<1> DEFINE r == [at |-> "write", db |-> hand[h].db, source |-> hand[h].source,
                 after |-> hand[h].after, into |-> "new"]
<1>3. r \in HandState /\ r.at = "write" /\ r.into = "new"
  BY <1>2, FetchWritten, InstallWritten
<1>4. hand' = [hand EXCEPT ![h] = r] /\ file' = [file EXCEPT !["new"] = Half]
  BY DEF Create, Take, Staging
<1> HIDE DEF r
<1>5. /\ hand' \in [Hands -> HandState] /\ hand'[h] = r
      /\ \A j \in Hands \ {h} : HandAt(j, "idle") => HandAt(j, "idle")'
  BY <1>2, <1>3, <1>4, HandGiven
<1>6. Way(h)'
  BY <1>3, <1>5 DEF Way, HandAt
<1>7. Shelf'
  BY <1>1, <1>2, <1>4, WhatAFileIs DEF Shelf
<1>8. OneHand => (WholeWhereItStood /\ TakenWasHad)'
  BY <1>1, <1>2, <1>4 DEF OneHand, WholeWhereItStood, TakenWasHad, Usable, Shelf, Paths
<1> QED
  BY <1>1, <1>5, <1>6, <1>7, <1>8, HandAdvance

\* A writer that fails, or finds nothing to rename, is done.
LEMMA GivesUp ==
  ASSUME CountryInv, NEW h \in Hands, ~HandAt(h, "idle"), Done(h),
         UNCHANGED <<file, offers, held, taken, had, crossed>>
  PROVE  CountryInv'
<1>1. Rest \in HandState /\ Rest.at \notin UnderWay
  BY FetchWritten DEF UnderWay
<1> QED
  BY <1>1, HandGoes DEF Done, Take

\* The database is written, where the writer's file has been renamed to.
LEMMA WriteStep ==
  ASSUME CountryInv, NEW h \in Hands, Write(h)
  PROVE  CountryInv'
<1>1. ~HandAt(h, "idle") /\ HandAt(h, "write") /\ UNCHANGED <<offers, held, taken, had, crossed>>
  BY DEF Write, HandAt
<1>2. /\ Shelf /\ hand \in [Hands -> HandState]
      /\ OneHand => WholeWhereItStood /\ TakenWasHad /\ Way(h)
      /\ hand[h] \in WriteHand /\ hand[h].db \in Databases
  BY <1>1, HandBusy, HandRead DEF HandAt
<1>3. CASE /\ file' = [p \in Paths |-> IF p = hand[h].into THEN hand[h].db ELSE file[p]]
           /\ Take(h, [at |-> "keep", db |-> hand[h].db, source |-> hand[h].source,
                       after |-> hand[h].after])
  <2> DEFINE r == [at |-> "keep", db |-> hand[h].db, source |-> hand[h].source,
                   after |-> hand[h].after]
  <2>1. r \in HandState /\ r.at = "keep" /\ r.db = hand[h].db
    BY <1>2, FetchWritten, InstallWritten
  <2>2. hand' = [hand EXCEPT ![h] = r]
    BY <1>3 DEF Take
  <2> HIDE DEF r
  <2>3. /\ hand' \in [Hands -> HandState] /\ hand'[h] = r
        /\ \A j \in Hands \ {h} : HandAt(j, "idle") => HandAt(j, "idle")'
    BY <1>2, <2>1, <2>2, HandGiven
  <2>4. Shelf'
    BY <1>1, <1>2, <1>3, WhatAFileIs DEF Shelf
  <2>5. OneHand => /\ file'["new"] = hand[h].db
                   /\ \A p \in {"country.mmdb", "previous"} : file'[p] = file[p]
    BY <1>1, <1>2, <1>3 DEF Way, Paths
  <2>6. OneHand => Way(h)'
    BY <2>1, <2>3, <2>5 DEF Way, HandAt
  <2>7. OneHand => (WholeWhereItStood /\ TakenWasHad)'
    BY <1>1, <1>2, <2>5 DEF OneHand, WholeWhereItStood, TakenWasHad, Usable
  <2> QED
    BY <1>1, <2>3, <2>4, <2>6, <2>7, HandAdvance
<1>4. CASE Done(h) /\ UNCHANGED file
  BY <1>1, <1>4, GivesUp
<1> QED
  BY <1>3, <1>4 DEF Write

\* A rename moves what is there, and with it whoever is writing into it.
LEMMA Renamed ==
  ASSUME Shelf, hand \in [Hands -> HandState], NEW h \in Hands, NEW from \in Paths, NEW to \in Paths,
         from # to, NEW step \in Settling, hand[h] \in InstallHand,
         Rename(h, from, to, step)
  PROVE  /\ hand' \in [Hands -> HandState] /\ hand'[h] = [hand[h] EXCEPT !.at = step]
         /\ \A j \in Hands \ {h} : HandAt(j, "idle") => HandAt(j, "idle")'
         /\ file' \in [Paths -> Nothing .. Half]
         /\ \A p \in Paths : file'[p] = IF p = from THEN Nothing ELSE IF p = to THEN file[from]
                                        ELSE file[p]
<1>1. [hand[h] EXCEPT !.at = step] \in HandState
  BY FetchWritten, InstallWritten
<1>2. ASSUME NEW j \in Hands \ {h}, HandAt(j, "write")
      PROVE  [hand[j] EXCEPT !.into = IF @ = from THEN to ELSE IF @ = to THEN "nowhere" ELSE @]
               \in HandState
  <2> DEFINE p == IF hand[j].into = from THEN to ELSE IF hand[j].into = to THEN "nowhere"
                  ELSE hand[j].into
  <2>1. hand[j] \in WriteHand
    BY <1>2, HandRead DEF HandAt
  <2>2. p \in Paths \cup {"nowhere"}
    BY <2>1 DEF WriteHand
  <2>3. [hand[j] EXCEPT !.into = p] \in HandState
    <3> HIDE DEF p
    <3> QED
      BY <2>1, <2>2, FetchWritten, InstallWritten
  <2> QED
    BY <2>3
<1>3. hand' = [j \in Hands |->
                  IF j = h THEN [hand[h] EXCEPT !.at = step]
                  ELSE IF ~HandAt(j, "write") THEN hand[j]
                  ELSE [hand[j] EXCEPT !.into = IF @ = from THEN to
                                               ELSE IF @ = to THEN "nowhere" ELSE @]]
  BY DEF Rename
<1>4. hand' \in [Hands -> HandState] /\ hand'[h] = [hand[h] EXCEPT !.at = step]
  BY <1>1, <1>2, <1>3, Zenon
<1>5. \A j \in Hands \ {h} : HandAt(j, "idle") => HandAt(j, "idle")'
  <2> SUFFICES ASSUME NEW j \in Hands \ {h}, HandAt(j, "idle") PROVE HandAt(j, "idle")'
    OBVIOUS
  <2>1. ~HandAt(j, "write")
    BY DEF HandAt
  <2>2. hand'[j] = hand[j]
    BY <1>3, <2>1, Zenon
  <2> QED
    BY <2>2 DEF HandAt
<1>6. file' = [file EXCEPT ![to] = file[from], ![from] = Nothing]
  BY DEF Rename
<1>7. file' \in [Paths -> Nothing .. Half]
  BY <1>6, WhatAFileIs DEF Shelf
<1>8. \A p \in Paths : file'[p] = IF p = from THEN Nothing ELSE IF p = to THEN file[from] ELSE file[p]
  BY <1>6 DEF Shelf
<1> QED
  BY <1>4, <1>5, <1>7, <1>8

\* An installation goes to its next step; what it knows of the files is kept.
LEMMA InstallGoes ==
  ASSUME CountryInv, NEW h \in Hands, hand[h].at \in Settling,
         NEW s \in Settling \cup {"record"}, hand' = [hand EXCEPT ![h] = [hand[h] EXCEPT !.at = s]],
         UNCHANGED <<file, offers, taken, had, crossed>>, held' \in HeldState,
         s \in {"keep", "place"} => hand[h].at \in {"keep", "place"},
         s \in {"label", "load"} => hand[h].at \in {"label", "load"},
         s = "record" => hand[h].at = "load" /\ hand[h].after = "record"
  PROVE  CountryInv'
<1>1. ~HandAt(h, "idle")
  BY DEF Settling, HandAt
<1>2. /\ Shelf /\ hand \in [Hands -> HandState]
      /\ OneHand => WholeWhereItStood /\ TakenWasHad /\ Way(h)
      /\ hand[h] \in InstallHand
  BY <1>1, HandBusy, HandRead
<1> DEFINE r == [hand[h] EXCEPT !.at = s]
<1>3. r \in HandState /\ r.at = s /\ r.db = hand[h].db /\ r.after = hand[h].after
  BY <1>2, FetchWritten, InstallWritten
<1>4. hand' = [hand EXCEPT ![h] = r]
  OBVIOUS
<1> HIDE DEF r
<1>5. /\ hand' \in [Hands -> HandState] /\ hand'[h] = r
      /\ \A j \in Hands \ {h} : HandAt(j, "idle") => HandAt(j, "idle")'
  BY <1>2, <1>3, <1>4, HandGiven
<1>6. Shelf' /\ (OneHand => (WholeWhereItStood /\ TakenWasHad)')
  BY <1>2 DEF Shelf, OneHand, WholeWhereItStood, TakenWasHad, Usable
<1>7. OneHand => Way(h)'
  <2> SUFFICES ASSUME OneHand PROVE Way(h)'
    OBVIOUS
  <2>1. hand'[h].at = s /\ hand'[h].db = hand[h].db /\ hand'[h].after = hand[h].after
    BY <1>3, <1>5
  <2>2. s # "write"
    BY DEF Settling
  <2>3. s \in {"keep", "place"} => file'["new"] = hand'[h].db
    BY <1>2, <2>1 DEF Way
  <2>4. s \in {"label", "load"} /\ hand'[h].after = "record" => hand'[h].db \in had'
    BY <1>2, <2>1 DEF Way
  <2>5. s = "record" => hand'[h].db \in had'
    BY <1>2, <2>1 DEF Way
  <2> QED
    BY <2>1, <2>2, <2>3, <2>4, <2>5 DEF Way, HandAt
<1> QED
  BY <1>1, <1>5, <1>6, <1>7, HandAdvance

\* The database in place becomes the way back, or stays.
LEMMA KeepStep ==
  ASSUME CountryInv, NEW h \in Hands, Keep(h)
  PROVE  CountryInv'
<1>1. /\ ~HandAt(h, "idle") /\ HandAt(h, "keep") /\ hand[h].at \in Settling
      /\ UNCHANGED <<offers, held, taken, had, crossed>>
  BY DEF Keep, HandAt, Settling
<1>2. /\ Shelf /\ hand \in [Hands -> HandState]
      /\ OneHand => WholeWhereItStood /\ TakenWasHad /\ Way(h)
      /\ hand[h] \in InstallHand
  BY <1>1, HandBusy, HandRead
<1>3. "place" \in Settling
  BY DEF Settling
<1>4. CASE Rename(h, "country.mmdb", "previous", "place")
  <2>1. /\ hand' \in [Hands -> HandState] /\ hand'[h] = [hand[h] EXCEPT !.at = "place"]
        /\ \A j \in Hands \ {h} : HandAt(j, "idle") => HandAt(j, "idle")'
        /\ file' \in [Paths -> Nothing .. Half]
        /\ \A p \in Paths : file'[p] = IF p = "country.mmdb" THEN Nothing
                                       ELSE IF p = "previous" THEN file["country.mmdb"]
                                       ELSE file[p]
    <3>1. "country.mmdb" \in Paths /\ "previous" \in Paths
      BY DEF Paths
    <3> QED
      BY <1>2, <1>3, <1>4, <3>1, Renamed
  <2>2. /\ file'["new"] = file["new"] /\ file'["country.mmdb"] = Nothing
        /\ file'["previous"] = file["country.mmdb"]
    BY <2>1 DEF Paths
  <2>3. hand'[h].at = "place" /\ hand'[h].db = hand[h].db
    BY <1>2, <1>3, <2>1, InstallWritten
  <2>4. OneHand => Way(h)'
    BY <1>1, <1>2, <2>2, <2>3 DEF Way, HandAt
  <2>5. Shelf'
    BY <1>1, <1>2, <2>1 DEF Shelf
  <2>6. OneHand => (WholeWhereItStood /\ TakenWasHad)'
    BY <1>1, <1>2, <2>2 DEF OneHand, WholeWhereItStood, TakenWasHad, Usable
  <2> QED
    BY <1>1, <2>1, <2>4, <2>5, <2>6, HandAdvance
<1>5. CASE On(h, "place") /\ UNCHANGED file
  <2>1. hand' = [hand EXCEPT ![h] = [hand[h] EXCEPT !.at = "place"]]
    BY <1>5 DEF On, Take
  <2>2. hand[h].at = "keep" /\ held' \in HeldState
    BY <1>1, <1>2 DEF HandAt, Shelf
  <2> QED
    BY <1>1, <1>3, <1>5, <2>1, <2>2, InstallGoes
<1> QED
  BY <1>4, <1>5 DEF Keep

\* The staged database is renamed into place, whole, and has been had.
LEMMA PlaceStep ==
  ASSUME CountryInv, NEW h \in Hands, Place(h)
  PROVE  CountryInv'
<1>1. /\ ~HandAt(h, "idle") /\ HandAt(h, "place") /\ hand[h].at \in Settling
      /\ UNCHANGED <<offers, held, taken, crossed>>
  BY DEF Place, HandAt, Settling
<1>2. /\ Shelf /\ hand \in [Hands -> HandState]
      /\ OneHand => WholeWhereItStood /\ TakenWasHad /\ Way(h)
      /\ hand[h] \in InstallHand /\ hand[h].db \in Databases
  BY <1>1, HandBusy, HandRead
<1>3. "label" \in Settling
  BY DEF Settling
<1>4. CASE /\ Rename(h, "new", "country.mmdb", "label")
           /\ had' = had \cup ({file["new"]} \cap Editions)
  <2>1. /\ hand' \in [Hands -> HandState] /\ hand'[h] = [hand[h] EXCEPT !.at = "label"]
        /\ \A j \in Hands \ {h} : HandAt(j, "idle") => HandAt(j, "idle")'
        /\ file' \in [Paths -> Nothing .. Half]
        /\ \A p \in Paths : file'[p] = IF p = "new" THEN Nothing
                                       ELSE IF p = "country.mmdb" THEN file["new"]
                                       ELSE file[p]
    <3>1. "country.mmdb" \in Paths /\ "new" \in Paths
      BY DEF Paths
    <3> QED
      BY <1>2, <1>3, <1>4, <3>1, Renamed
  <2>2. file'["country.mmdb"] = file["new"] /\ file'["previous"] = file["previous"]
    BY <2>1 DEF Paths
  <2>3. hand'[h].at = "label" /\ hand'[h].db = hand[h].db /\ hand'[h].after = hand[h].after
    BY <1>2, <1>3, <2>1, InstallWritten
  <2>4. OneHand => file["new"] = hand[h].db
    BY <1>1, <1>2 DEF Way, HandAt
  <2>5. hand[h].after = "record" => hand[h].db \in Editions
    BY <1>2 DEF InstallHand
  <2>6. OneHand => Way(h)'
    BY <1>4, <2>3, <2>4, <2>5 DEF Way, HandAt
  <2>7. Shelf'
    BY <1>1, <1>2, <2>1 DEF Shelf
  <2>8. OneHand => (WholeWhereItStood /\ TakenWasHad)'
    BY <1>1, <1>2, <1>4, <2>2, <2>4, WhatAFileIs
       DEF OneHand, WholeWhereItStood, TakenWasHad, Usable
  <2> QED
    BY <1>1, <2>1, <2>6, <2>7, <2>8, HandAdvance
<1>5. CASE Done(h) /\ UNCHANGED <<file, had>>
  BY <1>1, <1>5, GivesUp
<1> QED
  BY <1>4, <1>5 DEF Place

\* The line beside it is written, and then the database is loaded.
LEMMA LabelStep ==
  ASSUME CountryInv, NEW h \in Hands, Label(h)
  PROVE  CountryInv'
<1>1. /\ hand[h].at \in Settling /\ hand[h].at = "label" /\ "load" \in Settling
      /\ UNCHANGED <<file, offers, held, taken, had, crossed>>
  BY DEF Label, HandAt, Settling
<1>2. hand' = [hand EXCEPT ![h] = [hand[h] EXCEPT !.at = "load"]]
  BY DEF Label, On, Take
<1>3. held' \in HeldState
  BY <1>1 DEF CountryInv, Shelf
<1> QED
  BY <1>1, <1>2, <1>3, InstallGoes

\* What the caller had left to do is done next.
LEMMA LoadStep ==
  ASSUME CountryInv, NEW h \in Hands, Load(h)
  PROVE  CountryInv'
<1>1. /\ ~HandAt(h, "idle") /\ hand[h].at \in Settling /\ hand[h].at = "load"
      /\ UNCHANGED <<file, offers, held, taken, had, crossed>>
  BY DEF Load, HandAt, Settling, files
<1>2. hand[h] \in InstallHand /\ held' \in HeldState
  BY <1>1, HandBusy, HandRead DEF Shelf
<1>3. CASE Done(h)
  BY <1>1, <1>3, GivesUp
<1>4. CASE hand[h].after # "nothing" /\ On(h, hand[h].after)
  <2> DEFINE s == hand[h].after
  <2>1. s \in {"record", "drop held", "drop previous"}
    BY <1>2, <1>4 DEF InstallHand, Afters
  <2>2. s \in Settling \cup {"record"} /\ s \notin {"keep", "place", "label", "load"}
    BY <2>1 DEF Settling
  <2>3. hand' = [hand EXCEPT ![h] = [hand[h] EXCEPT !.at = s]]
    BY <1>4 DEF On, Take
  <2>4. s = "record" => hand[h].at = "load" /\ hand[h].after = "record"
    BY <1>1
  <2> HIDE DEF s
  <2> QED
    BY <1>1, <1>2, <2>2, <2>3, <2>4, InstallGoes
<1> QED
  BY <1>3, <1>4 DEF Load

-----------------------------------------------------------------------------
(* What follows.                                                             *)

\* The publisher and the switch move nothing here; a stop leaves the files as
\* they are and nobody at work.
LEMMA OutsideStep ==
  ASSUME CountryInv, SetAuto \/ Publish \/ Stop
  PROVE  CountryInv'
<1>1. UNCHANGED <<file, held, taken, had, crossed>>
  BY DEF SetAuto, Publish, Stop, files
<1>2. Shelf'
  BY <1>1 DEF CountryInv, Shelf, SetAuto, Publish, Stop
<1>3. OneHand => (WholeWhereItStood /\ TakenWasHad)'
  BY <1>1 DEF CountryInv, CountrySound, OneHand, WholeWhereItStood, TakenWasHad, Usable
<1>4. CASE hand' = hand
  BY <1>1, <1>2, <1>3, <1>4 DEF CountryInv, CountrySound, OneHand, Way, HandAt
<1>5. CASE Stop
  <2>1. /\ hand' \in [Hands -> HandState]
        /\ \A h \in Hands : hand'[h].at = "idle"
    BY <1>5, FetchWritten DEF Stop
  <2>2. \A h \in Hands : Way(h)' /\ HandAt(h, "idle")'
    BY <2>1 DEF Way, HandAt
  <2> QED
    BY <1>1, <1>2, <1>3, <2>1, <2>2 DEF CountryInv, CountrySound, OneHand
<1> QED
  BY <1>4, <1>5 DEF SetAuto, Publish

\* The program starts with nothing stored and nobody at work.
LEMMA CountryStart == CountryInit => CountryInv
<1> SUFFICES ASSUME CountryInit PROVE CountryInv
  OBVIOUS
<1>1. Shelf
  BY WhatAFileIs, HeldWritten DEF CountryInit, Shelf
<1>2. /\ hand \in [Hands -> HandState]
      /\ \A h \in Hands : hand[h].at = "idle"
  BY FetchWritten DEF CountryInit
<1>3. \A h \in Hands : Way(h) /\ HandAt(h, "idle")
  BY <1>2 DEF Way, HandAt
<1>4. WholeWhereItStood /\ TakenWasHad
  BY DEF CountryInit, WholeWhereItStood, TakenWasHad, Paths
<1> QED
  BY <1>1, <1>2, <1>3, <1>4 DEF CountryInv, CountrySound

\* Every step keeps the invariant.
LEMMA CountryStep == CountryInv /\ [CountryNext]_countryVars => CountryInv'
<1> SUFFICES ASSUME CountryInv, [CountryNext]_countryVars PROVE CountryInv'
  OBVIOUS
<1>1. ASSUME NEW h \in Hands, Check(h) PROVE CountryInv'
  BY <1>1, BeginningStep
<1>2. ASSUME NEW h \in Hands, Sync(h) PROVE CountryInv'
  BY <1>2, FetchingStep, HoldStep, RecordStep DEF Sync
<1>3. ASSUME NEW h \in Hands, Install(h) PROVE CountryInv'
  BY <1>3, CreateStep, WriteStep, KeepStep, PlaceStep, LabelStep, LoadStep DEF Install
<1>4. ASSUME NEW h \in Hands, Pages(h) PROVE CountryInv'
  BY <1>4, BeginningStep, PageReadsStep, PageDropsStep DEF Pages
<1>5. CASE SetAuto \/ Publish \/ Stop
  BY <1>5, OutsideStep
<1>6. CASE UNCHANGED countryVars
  <2>1. UNCHANGED <<file, offers, held, hand, taken, had, crossed>>
    BY <1>6 DEF countryVars, files
  <2>2. Shelf' /\ hand' \in [Hands -> HandState]
    BY <2>1 DEF CountryInv, Shelf
  <2>3. CountrySound'
    BY <2>1 DEF CountryInv, CountrySound, OneHand, WholeWhereItStood, TakenWasHad, Usable, Way,
                HandAt
  <2> QED
    BY <2>2, <2>3 DEF CountryInv
<1> QED
  BY <1>1, <1>2, <1>3, <1>4, <1>5, <1>6 DEF CountryNext

\* The invariant of the country database (geo.rs, install; geo_update.rs, sync).
THEOREM CountryKnown == CountrySpec => []CountryInv
BY CountryStart, CountryStep, PTL DEF CountrySpec

\* Staged and renamed, so that an interrupted write leaves no half a database
\* where a whole one was, as long as one installs at a time (geo.rs, install).
THEOREM NoHalfADatabase == CountrySpec => []WholeWhereItStood
<1>1. CountryInv => WholeWhereItStood
  BY DEF CountryInv, CountrySound, WholeWhereItStood
<1> QED
  BY <1>1, CountryKnown, PTL

\* What is recorded as taken has been put in place or held whole (geo_update.rs,
\* sync and hold).
THEOREM NoEditionSkipped == CountrySpec => []TakenWasHad
<1>1. CountryInv => TakenWasHad
  BY DEF CountryInv, CountrySound, TakenWasHad
<1> QED
  BY <1>1, CountryKnown, PTL

-----------------------------------------------------------------------------
(* The settings: the inductive invariant.                                    *)

\* What a request is, and where in the form's statements it has got.
Request(r) ==
    /\ r.does \in {"nothing", "delete", "save"}
    /\ r.does = "nothing" => r = Away
    /\ r.does = "delete" => r = [does |-> "delete", name |-> r.name]
    /\ r.does = "save" => /\ r = [does |-> "save", n |-> r.n, form |-> r.form, got |-> r.got]
                          /\ r.n \in 1 .. Len(Statements) /\ r.form \in Forms

Shapes ==
    /\ desk = [a \in Admins |-> desk[a]] /\ \A a \in Admins : Request(desk[a])
    /\ inUse = [proxies |-> inUse.proxies, kb |-> inUse.kb, collector |-> inUse.collector]
    /\ DOMAIN stored = Rows
    /\ cuts \in Nat

\* What is in use is what is stored, but for what the request has just stored and
\* is about to take into use.
Follows(r) ==
    /\ r.n \notin {8, 9} => inUse.proxies = <<stored["proxies"]>>
    /\ r.n = 9 => r.got = <<stored["proxies"]>>
    /\ r.n # 12 => inUse.kb = <<stored["kb"]>>
    /\ r.n = 12 => stored["kb"] = r.form["kb"]
    /\ r.n \notin 15 .. 18 => inUse.collector = syslog_target(stored)
    /\ r.n = 18 => r.got = syslog_target(stored)

Saving(a) == desk[a].does = "save"

SettingsSound ==
    ~together /\ cuts = 0 =>
        /\ \A a, b \in Admins : a # b => desk[a] = Away \/ desk[b] = Away
        /\ \A a \in Admins : Saving(a) => Follows(desk[a])
        /\ (\A a \in Admins : ~Saving(a)) => inUse = Meant(stored)

SettingsInv == Shapes /\ SettingsSound

-----------------------------------------------------------------------------
(* Its statements and its records.                                           *)

\* What the form does at each of its statements (post_settings_update).
LEMMA StatementsRead ==
  /\ Len(Statements) = 21
  /\ \A n \in 1 .. 21 :
        /\ Statements[n][1] = "check" => n \in {1, 4, 5, 6, 10, 13}
        /\ Statements[n][1] = "set" => /\ n \in {2, 3, 7, 11, 14, 15, 16, 19, 20, 21}
                                       /\ Statements[n][2] \in Rows
                                       /\ Statements[n][2] = "proxies" <=> n = 7
                                       /\ Statements[n][2] = "kb" <=> n = 11
                                       /\ Statements[n][2] \in {"enabled", "host", "port"}
                                            <=> n \in {14, 15, 16}
        /\ Statements[n][1] = "read" => \/ n = 8 /\ Statements[n][2] = "proxies"
                                        \/ n = 17 /\ Statements[n][2] = "collector"
        /\ Statements[n][1] = "use" => \/ n = 9 /\ Statements[n][2] = "proxies"
                                       \/ n = 12 /\ Statements[n][2] = "kb"
                                       \/ n = 18 /\ Statements[n][2] = "collector"
<1>1. Len(Statements) = 21
  BY DEF Statements
<1>2. \A n \in 1 .. 21 : n \in 1 .. 7 \/ n \in 8 .. 14 \/ n \in 15 .. 21
  OBVIOUS
<1> DEFINE P(n) ==
        /\ Statements[n][1] = "check" => n \in {1, 4, 5, 6, 10, 13}
        /\ Statements[n][1] = "set" => /\ n \in {2, 3, 7, 11, 14, 15, 16, 19, 20, 21}
                                       /\ Statements[n][2] \in Rows
                                       /\ Statements[n][2] = "proxies" <=> n = 7
                                       /\ Statements[n][2] = "kb" <=> n = 11
                                       /\ Statements[n][2] \in {"enabled", "host", "port"}
                                            <=> n \in {14, 15, 16}
        /\ Statements[n][1] = "read" => \/ n = 8 /\ Statements[n][2] = "proxies"
                                        \/ n = 17 /\ Statements[n][2] = "collector"
        /\ Statements[n][1] = "use" => \/ n = 9 /\ Statements[n][2] = "proxies"
                                       \/ n = 12 /\ Statements[n][2] = "kb"
                                       \/ n = 18 /\ Statements[n][2] = "collector"
<1>3. \A n \in 1 .. 7 : P(n)
  BY DEF Statements, Checking, Setting, Reading, Using, Rows
<1>4. \A n \in 8 .. 14 : P(n)
  BY DEF Statements, Checking, Setting, Reading, Using, Rows
<1>5. \A n \in 15 .. 21 : P(n)
  BY DEF Statements, Checking, Setting, Reading, Using, Rows
<1> HIDE DEF P
<1>6. \A n \in 1 .. 21 : P(n)
  BY <1>2, <1>3, <1>4, <1>5, Zenon
<1> QED
  BY <1>1, <1>6 DEF P

\* A request at a statement, and the one after it.
LEMMA Onward ==
  ASSUME NEW r, Request(r), r.does = "save"
  PROVE  /\ r.n \in 1 .. 21 /\ r.form \in Forms
         /\ r.n # 21 =>
              /\ Request([r EXCEPT !.n = @ + 1])
              /\ [r EXCEPT !.n = @ + 1].does = "save" /\ [r EXCEPT !.n = @ + 1].n = r.n + 1
              /\ [r EXCEPT !.n = @ + 1].form = r.form /\ [r EXCEPT !.n = @ + 1].got = r.got
<1>1. r.n \in 1 .. 21 /\ r.form \in Forms /\ Len(Statements) = 21
  BY StatementsRead DEF Request
<1>2. r = [does |-> "save", n |-> r.n, form |-> r.form, got |-> r.got]
  BY DEF Request
<1> DEFINE k == [r EXCEPT !.n = @ + 1]
<1>3. k = [does |-> "save", n |-> r.n + 1, form |-> r.form, got |-> r.got]
  BY <1>2
<1> HIDE DEF k
<1>4. k.does = "save" /\ k.n = r.n + 1 /\ k.form = r.form /\ k.got = r.got
  BY <1>3
<1>5. r.n # 21 => Request(k)
  BY <1>1, <1>3, <1>4 DEF Request
<1> QED
  BY <1>1, <1>4, <1>5 DEF k

\* And with what it has read.
LEMMA WithWhatItRead ==
  ASSUME NEW r, Request(r), r.does = "save", NEW g
  PROVE  /\ Request([r EXCEPT !.got = g]) /\ [r EXCEPT !.got = g].does = "save"
         /\ [r EXCEPT !.got = g].n = r.n /\ [r EXCEPT !.got = g].form = r.form
         /\ [r EXCEPT !.got = g].got = g
<1>1. r.n \in 1 .. Len(Statements) /\ r.form \in Forms
  BY DEF Request
<1>2. r = [does |-> "save", n |-> r.n, form |-> r.form, got |-> r.got]
  BY DEF Request
<1> DEFINE k == [r EXCEPT !.got = g]
<1>3. k = [does |-> "save", n |-> r.n, form |-> r.form, got |-> g]
  BY <1>2
<1> HIDE DEF k
<1>4. k.does = "save" /\ k.n = r.n /\ k.form = r.form /\ k.got = g
  BY <1>3
<1>5. Request(k)
  BY <1>1, <1>3, <1>4 DEF Request
<1> QED
  BY <1>4, <1>5 DEF k

\* Nothing under way is a request as well.
LEMMA AwayIsARequest == Away.does = "nothing" /\ Request(Away)
BY DEF Away, Request

-----------------------------------------------------------------------------
(* Its steps.                                                                *)

\* A request goes on or ends, and the others wait.
LEMMA RequestMoves ==
  ASSUME SettingsInv, NEW a \in Admins, desk[a] # Away,
         desk' = [b \in Admins |-> desk'[b]], \A b \in Admins \ {a} : desk'[b] = desk[b],
         Request(desk'[a]), cuts' \in Nat, cuts' = 0 => cuts = 0, together' = together,
         inUse' = [proxies |-> inUse'.proxies, kb |-> inUse'.kb, collector |-> inUse'.collector],
         DOMAIN stored' = Rows,
         ~together /\ cuts' = 0 =>
             /\ desk'[a].does = "save" => Follows(desk[a])'
             /\ desk'[a].does # "save" => inUse' = Meant(stored')
  PROVE  SettingsInv'
<1>1. Shapes'
  BY DEF SettingsInv, Shapes
<1>2. SettingsSound'
  <2> SUFFICES ASSUME ~together, cuts' = 0 PROVE
                 /\ \A b, c \in Admins : b # c => desk'[b] = Away \/ desk'[c] = Away
                 /\ \A b \in Admins : Saving(b)' => Follows(desk[b])'
                 /\ (\A b \in Admins : ~Saving(b)') => inUse' = Meant(stored')
    BY DEF SettingsSound, Away
  <2>1. \A b \in Admins : b # a => desk'[b] = Away
    BY DEF SettingsInv, SettingsSound
  <2>2. Away.does # "save"
    BY DEF Away
  <2> QED
    BY <2>1, <2>2 DEF Saving
<1> QED
  BY <1>1, <1>2 DEF SettingsInv

\* A request that saves: its record, and what is in use.
LEMMA RequestSaving ==
  ASSUME SettingsInv, NEW a \in Admins, Saving(a)
  PROVE  /\ desk = [b \in Admins |-> desk[b]] /\ Request(desk[a]) /\ desk[a].does = "save"
         /\ desk[a].n \in 1 .. 21 /\ desk[a].form \in Forms /\ desk[a] # Away
         /\ inUse = [proxies |-> inUse.proxies, kb |-> inUse.kb, collector |-> inUse.collector]
         /\ DOMAIN stored = Rows /\ cuts \in Nat
         /\ ~together /\ cuts = 0 => Follows(desk[a])
<1>1. Request(desk[a]) /\ desk[a].does = "save" /\ Away.does # "save"
  BY DEF SettingsInv, Shapes, Saving, Away
<1>2. desk[a].n \in 1 .. 21 /\ desk[a].form \in Forms
  BY <1>1, Onward
<1>3. desk[a] # Away
  BY <1>1
<1> QED
  BY <1>1, <1>2, <1>3 DEF SettingsInv, Shapes, SettingsSound

\* The record an administrator's request is given is the one it has.
LEMMA DeskGiven ==
  ASSUME desk = [b \in Admins |-> desk[b]], NEW a \in Admins, NEW k,
         desk' = [desk EXCEPT ![a] = k]
  PROVE  /\ desk' = [b \in Admins |-> desk'[b]] /\ desk'[a] = k
         /\ \A b \in Admins \ {a} : desk'[b] = desk[b]
<1>1. DOMAIN desk = Admins
  OBVIOUS
<1> HIDE DEF Away
<1> QED
  BY <1>1

\* A check that passes or not leaves what is in use and what is stored alike.
LEMMA ChecksStep ==
  ASSUME SettingsInv, NEW a \in Admins, Checks(a)
  PROVE  SettingsInv'
<1>1. Saving(a) /\ Statements[desk[a].n][1] = "check" /\ UNCHANGED <<stored, inUse, together, cuts>>
  BY DEF Checks, Does, Saving
<1>2. /\ desk = [b \in Admins |-> desk[b]] /\ Request(desk[a]) /\ desk[a].does = "save"
      /\ desk[a].n \in 1 .. 21 /\ desk[a] # Away /\ DOMAIN stored = Rows /\ cuts \in Nat
      /\ inUse = [proxies |-> inUse.proxies, kb |-> inUse.kb, collector |-> inUse.collector]
      /\ ~together /\ cuts = 0 => Follows(desk[a])
  BY <1>1, RequestSaving
<1>3. desk[a].n \in {1, 4, 5, 6, 10, 13}
  BY <1>1, <1>2, StatementsRead
<1>4. CASE desk' = [desk EXCEPT ![a] = Away]
  <2>1. /\ desk' = [b \in Admins |-> desk'[b]] /\ desk'[a] = Away
        /\ \A b \in Admins \ {a} : desk'[b] = desk[b]
    BY <1>2, <1>4, DeskGiven
  <2>2. Request(desk'[a]) /\ desk'[a].does # "save"
    BY <2>1, AwayIsARequest
  <2>3. ~together /\ cuts = 0 => inUse' = Meant(stored')
    BY <1>1, <1>2, <1>3 DEF Follows, Meant
  <2> QED
    BY <1>1, <1>2, <2>1, <2>2, <2>3, RequestMoves
<1>5. CASE desk' = [desk EXCEPT ![a] = [desk[a] EXCEPT !.n = @ + 1]]
  <2> DEFINE k == [desk[a] EXCEPT !.n = @ + 1]
  <2>1. /\ Request(k) /\ k.does = "save" /\ k.n = desk[a].n + 1 /\ k.form = desk[a].form
        /\ k.got = desk[a].got
    BY <1>2, <1>3, Onward
  <2>2. desk' = [desk EXCEPT ![a] = k]
    BY <1>5
  <2> HIDE DEF k
  <2>3. /\ desk' = [b \in Admins |-> desk'[b]] /\ desk'[a] = k
        /\ \A b \in Admins \ {a} : desk'[b] = desk[b]
    BY <1>2, <2>2, DeskGiven
  <2>4. Request(desk'[a]) /\ desk'[a].does = "save" /\ desk'[a].n = desk[a].n + 1
    BY <2>1, <2>3
  <2>5. desk'[a].n \in {2, 5, 6, 7, 11, 14}
    BY <1>3, <2>4
  <2>6. ~together /\ cuts = 0 => Follows(desk[a])'
    <3> SUFFICES ASSUME ~together, cuts = 0 PROVE Follows(desk[a])'
      OBVIOUS
    <3>1. /\ inUse.proxies = <<stored["proxies"]>> /\ inUse.kb = <<stored["kb"]>>
          /\ inUse.collector = syslog_target(stored)
      BY <1>2, <1>3 DEF Follows
    <3>2. /\ inUse'.proxies = <<stored'["proxies"]>> /\ inUse'.kb = <<stored'["kb"]>>
          /\ inUse'.collector = syslog_target(stored')
      BY <1>1, <3>1
    <3>3. desk'[a].n \notin {8, 9, 12} /\ desk'[a].n \notin 15 .. 18
      BY <2>5
    <3> QED
      BY <3>2, <3>3 DEF Follows
  <2> QED
    BY <1>1, <1>2, <2>3, <2>4, <2>6, RequestMoves
<1>6. Len(Statements) = 21
  BY StatementsRead
<1> QED
  BY <1>3, <1>4, <1>5, <1>6 DEF Checks, Goes, Then

\* A request that goes on is at the statement after, or ends after the last.
LEMMA WentOn ==
  ASSUME SettingsInv, NEW a \in Admins, Saving(a), Goes(a, desk[a])
  PROVE  /\ desk' = [b \in Admins |-> desk'[b]] /\ \A b \in Admins \ {a} : desk'[b] = desk[b]
         /\ Request(desk'[a])
         /\ desk[a].n = 21 => desk'[a].does # "save"
         /\ desk[a].n # 21 => /\ desk'[a].does = "save" /\ desk'[a].n = desk[a].n + 1
                              /\ desk'[a].form = desk[a].form /\ desk'[a].got = desk[a].got
<1>1. /\ desk = [b \in Admins |-> desk[b]] /\ Request(desk[a]) /\ desk[a].does = "save"
      /\ desk[a].n \in 1 .. 21
  BY RequestSaving
<1>2. CASE desk[a].n = 21
  <2>1. desk' = [desk EXCEPT ![a] = Away]
    BY <1>2, StatementsRead DEF Goes, Then
  <2>2. /\ desk' = [b \in Admins |-> desk'[b]] /\ desk'[a] = Away
        /\ \A b \in Admins \ {a} : desk'[b] = desk[b]
    BY <1>1, <2>1, DeskGiven
  <2> QED
    BY <1>2, <2>2, AwayIsARequest
<1>3. CASE desk[a].n # 21
  <2> DEFINE k == [desk[a] EXCEPT !.n = @ + 1]
  <2>1. /\ Request(k) /\ k.does = "save" /\ k.n = desk[a].n + 1 /\ k.form = desk[a].form
        /\ k.got = desk[a].got
    BY <1>1, <1>3, Onward
  <2>2. desk' = [desk EXCEPT ![a] = k]
    BY <1>3, StatementsRead DEF Goes, Then
  <2> HIDE DEF k
  <2>3. /\ desk' = [b \in Admins |-> desk'[b]] /\ desk'[a] = k
        /\ \A b \in Admins \ {a} : desk'[b] = desk[b]
    BY <1>1, <2>2, DeskGiven
  <2> QED
    BY <1>3, <2>1, <2>3
<1> QED
  BY <1>2, <1>3

\* And has what it read, which is not the last thing it does.
LEMMA WentOnWith ==
  ASSUME SettingsInv, NEW a \in Admins, Saving(a), desk[a].n # 21, NEW g,
         Goes(a, [desk[a] EXCEPT !.got = g])
  PROVE  /\ desk' = [b \in Admins |-> desk'[b]] /\ \A b \in Admins \ {a} : desk'[b] = desk[b]
         /\ Request(desk'[a]) /\ desk'[a].does = "save" /\ desk'[a].n = desk[a].n + 1
         /\ desk'[a].form = desk[a].form /\ desk'[a].got = g
<1>1. /\ desk = [b \in Admins |-> desk[b]] /\ Request(desk[a]) /\ desk[a].does = "save"
      /\ desk[a].n \in 1 .. 21
  BY RequestSaving
<1> DEFINE r == [desk[a] EXCEPT !.got = g]
<1>2. Request(r) /\ r.does = "save" /\ r.n = desk[a].n /\ r.form = desk[a].form /\ r.got = g
  BY <1>1, WithWhatItRead
<1>3. Goes(a, r)
  OBVIOUS
<1> HIDE DEF r
<1> DEFINE k == [r EXCEPT !.n = @ + 1]
<1>4. /\ Request(k) /\ k.does = "save" /\ k.n = r.n + 1 /\ k.form = r.form
      /\ k.got = r.got
  BY <1>2, Onward
<1>5. desk' = [desk EXCEPT ![a] = k]
  BY <1>2, <1>3, StatementsRead DEF Goes, Then
<1> HIDE DEF k
<1>6. /\ desk' = [b \in Admins |-> desk'[b]] /\ desk'[a] = k
      /\ \A b \in Admins \ {a} : desk'[b] = desk[b]
  BY <1>1, <1>5, DeskGiven
<1> QED
  BY <1>2, <1>4, <1>6

\* A row is stored: what is in use falls behind until the statement that follows.
LEMMA SetsStep ==
  ASSUME SettingsInv, NEW a \in Admins, Sets(a)
  PROVE  SettingsInv'
<1> DEFINE n == desk[a].n
           x == Statements[desk[a].n][2]
<1>1. /\ Saving(a) /\ Statements[n][1] = "set" /\ UNCHANGED <<inUse, together, cuts>>
      /\ Goes(a, desk[a])
      /\ stored' = [stored EXCEPT ![x] = desk[a].form[x]]
  BY DEF Sets, Does, Subject, Saving
<1>2. /\ desk[a].n \in 1 .. 21 /\ desk[a] # Away /\ DOMAIN stored = Rows /\ cuts \in Nat
      /\ inUse = [proxies |-> inUse.proxies, kb |-> inUse.kb, collector |-> inUse.collector]
      /\ ~together /\ cuts = 0 => Follows(desk[a])
  BY <1>1, RequestSaving
<1>3. /\ n \in {2, 3, 7, 11, 14, 15, 16, 19, 20, 21} /\ x \in Rows
      /\ x = "proxies" <=> n = 7
      /\ x = "kb" <=> n = 11
      /\ x \in {"enabled", "host", "port"} <=> n \in {14, 15, 16}
  BY <1>1, <1>2, StatementsRead
<1>4. /\ desk' = [b \in Admins |-> desk'[b]] /\ \A b \in Admins \ {a} : desk'[b] = desk[b]
      /\ Request(desk'[a])
      /\ desk[a].n = 21 => desk'[a].does # "save"
      /\ desk[a].n # 21 => /\ desk'[a].does = "save" /\ desk'[a].n = desk[a].n + 1
                           /\ desk'[a].form = desk[a].form /\ desk'[a].got = desk[a].got
  BY <1>1, WentOn
<1> HIDE DEF x
<1>5. DOMAIN stored' = Rows /\ \A y \in Rows : stored'[y] = IF y = x THEN desk[a].form[x] ELSE stored[y]
  BY <1>1, <1>2, <1>3
<1>6. n # 7 => stored'["proxies"] = stored["proxies"]
  BY <1>3, <1>5 DEF Rows
<1>7. n # 11 => stored'["kb"] = stored["kb"]
  BY <1>3, <1>5 DEF Rows
<1>8. n = 11 => stored'["kb"] = desk[a].form["kb"]
  BY <1>3, <1>5 DEF Rows
<1>9. n \notin {14, 15, 16} => syslog_target(stored') = syslog_target(stored)
  <2> SUFFICES ASSUME n \notin {14, 15, 16} PROVE syslog_target(stored') = syslog_target(stored)
    OBVIOUS
  <2>1. x \notin {"enabled", "host", "port"}
    BY <1>3
  <2>2. stored'["enabled"] = stored["enabled"] /\ stored'["host"] = stored["host"]
        /\ stored'["port"] = stored["port"]
    BY <1>5, <2>1 DEF Rows
  <2> QED
    BY <2>2 DEF syslog_target
<1>10. ~together /\ cuts = 0 =>
           /\ desk'[a].does = "save" => Follows(desk[a])'
           /\ desk'[a].does # "save" => inUse' = Meant(stored')
  <2> SUFFICES ASSUME ~together, cuts = 0
               PROVE  /\ desk'[a].does = "save" => Follows(desk[a])'
                      /\ desk'[a].does # "save" => inUse' = Meant(stored')
    OBVIOUS
  <2>1. Follows(desk[a])
    BY <1>2
  <2>2. ASSUME n = 21 PROVE inUse' = Meant(stored')
    <3>1. inUse.proxies = <<stored["proxies"]>> /\ inUse.kb = <<stored["kb"]>>
          /\ inUse.collector = syslog_target(stored)
      BY <2>1, <2>2 DEF Follows
    <3>2. inUse.proxies = <<stored'["proxies"]>> /\ inUse.kb = <<stored'["kb"]>>
          /\ inUse.collector = syslog_target(stored')
      BY <1>6, <1>7, <1>9, <2>2, <3>1
    <3> QED
      BY <1>1, <1>2, <3>2 DEF Meant
  <2>3. ASSUME n # 21 PROVE Follows(desk[a])'
    <3>1. n \in {2, 3, 7, 11, 14, 15, 16, 19, 20} /\ desk'[a].n = n + 1
      BY <1>3, <1>4, <2>3
    <3>2. /\ desk'[a].n \in {3, 4, 8, 12, 15, 16, 17, 20, 21}
          /\ desk'[a].n = 8 <=> n = 7
          /\ desk'[a].n = 12 <=> n = 11
          /\ desk'[a].n \in {15, 16, 17} <=> n \in {14, 15, 16}
      BY <3>1
    <3>3. desk'[a].n \notin {8, 9} => inUse'.proxies = <<stored'["proxies"]>>
      BY <1>1, <1>6, <2>1, <3>1, <3>2 DEF Follows
    <3>4. desk'[a].n # 12 => inUse'.kb = <<stored'["kb"]>>
      BY <1>1, <1>7, <2>1, <3>1, <3>2 DEF Follows
    <3>5. desk'[a].n = 12 => stored'["kb"] = desk'[a].form["kb"]
      BY <1>4, <1>8, <2>3, <3>2
    <3>6. desk'[a].n \notin 15 .. 18 => inUse'.collector = syslog_target(stored')
      <4>1. desk'[a].n \notin 15 .. 18 => n \notin {14, 15, 16} /\ n \notin 15 .. 18
        BY <3>1, <3>2
      <4> QED
        BY <1>1, <1>9, <2>1, <4>1 DEF Follows
    <3>7. desk'[a].n # 9 /\ desk'[a].n # 18
      BY <3>2
    <3> QED
      BY <3>3, <3>4, <3>5, <3>6, <3>7 DEF Follows
  <2> QED
    BY <1>4, <2>2, <2>3
<1> QED
  BY <1>1, <1>2, <1>4, <1>5, <1>10, RequestMoves

\* What is stored is read, to be taken into use by the statement after.
LEMMA ReadsStep ==
  ASSUME SettingsInv, NEW a \in Admins, Reads(a)
  PROVE  SettingsInv'
<1> DEFINE n == desk[a].n
           x == Statements[desk[a].n][2]
           g == Meant(stored)[x]
<1>1. /\ Saving(a) /\ Statements[n][1] = "read"
      /\ UNCHANGED <<stored, inUse, together, cuts>>
      /\ Goes(a, [desk[a] EXCEPT !.got = g])
  BY DEF Reads, Does, Subject, Saving
<1>2. /\ desk[a].n \in 1 .. 21 /\ desk[a] # Away /\ DOMAIN stored = Rows /\ cuts \in Nat
      /\ inUse = [proxies |-> inUse.proxies, kb |-> inUse.kb, collector |-> inUse.collector]
      /\ ~together /\ cuts = 0 => Follows(desk[a])
  BY <1>1, RequestSaving
<1>3. \/ n = 8 /\ x = "proxies"
      \/ n = 17 /\ x = "collector"
  BY <1>1, <1>2, StatementsRead
<1>4. n = 8 => g = <<stored["proxies"]>>
  BY <1>3 DEF Meant
<1>5. n = 17 => g = syslog_target(stored)
  BY <1>3 DEF Meant
<1> HIDE DEF x, g
<1>6. /\ desk' = [b \in Admins |-> desk'[b]] /\ \A b \in Admins \ {a} : desk'[b] = desk[b]
      /\ Request(desk'[a]) /\ desk'[a].does = "save" /\ desk'[a].n = desk[a].n + 1
      /\ desk'[a].form = desk[a].form /\ desk'[a].got = g
  BY <1>1, <1>3, WentOnWith
<1>7. ~together /\ cuts = 0 => Follows(desk[a])'
  <2> SUFFICES ASSUME ~together, cuts = 0 PROVE Follows(desk[a])'
    OBVIOUS
  <2>1. Follows(desk[a])
    BY <1>2
  <2>2. CASE n = 8
    <3>1. desk'[a].n = 9 /\ desk'[a].got = <<stored'["proxies"]>>
      BY <1>1, <1>4, <1>6, <2>2
    <3>2. inUse'.kb = <<stored'["kb"]>> /\ inUse'.collector = syslog_target(stored')
      BY <1>1, <2>1, <2>2 DEF Follows
    <3> QED
      BY <3>1, <3>2 DEF Follows
  <2>3. CASE n = 17
    <3>1. desk'[a].n = 18 /\ desk'[a].got = syslog_target(stored')
      BY <1>1, <1>5, <1>6, <2>3
    <3>2. inUse'.kb = <<stored'["kb"]>> /\ inUse'.proxies = <<stored'["proxies"]>>
      BY <1>1, <2>1, <2>3 DEF Follows
    <3> QED
      BY <3>1, <3>2 DEF Follows
  <2> QED
    BY <1>3, <2>2, <2>3
<1> QED
  BY <1>1, <1>2, <1>6, <1>7, RequestMoves

\* It is taken into use: the limit of the form, and what was read.
LEMMA UsesStep ==
  ASSUME SettingsInv, NEW a \in Admins, Uses(a)
  PROVE  SettingsInv'
<1> DEFINE n == desk[a].n
           x == Statements[desk[a].n][2]
           v == IF x = "kb" THEN <<desk[a].form["kb"]>> ELSE desk[a].got
<1>1. /\ Saving(a) /\ Statements[n][1] = "use" /\ UNCHANGED <<stored, together, cuts>>
      /\ Goes(a, desk[a])
      /\ inUse' = [inUse EXCEPT ![x] = v]
  BY DEF Uses, Given, Does, Subject, Saving
<1>2. /\ desk[a].n \in 1 .. 21 /\ desk[a] # Away /\ DOMAIN stored = Rows /\ cuts \in Nat
      /\ inUse = [proxies |-> inUse.proxies, kb |-> inUse.kb, collector |-> inUse.collector]
      /\ ~together /\ cuts = 0 => Follows(desk[a])
  BY <1>1, RequestSaving
<1>3. \/ n = 9 /\ x = "proxies"
      \/ n = 12 /\ x = "kb"
      \/ n = 18 /\ x = "collector"
  BY <1>1, <1>2, StatementsRead
<1>4. /\ desk' = [b \in Admins |-> desk'[b]] /\ \A b \in Admins \ {a} : desk'[b] = desk[b]
      /\ Request(desk'[a])
      /\ desk'[a].does = "save" /\ desk'[a].n = desk[a].n + 1
  BY <1>1, <1>3, WentOn
<1>5. v = IF n = 12 THEN <<desk[a].form["kb"]>> ELSE desk[a].got
  BY <1>3
<1> HIDE DEF x, v
<1>6. /\ inUse' = [proxies |-> inUse'.proxies, kb |-> inUse'.kb, collector |-> inUse'.collector]
      /\ inUse'.proxies = IF n = 9 THEN v ELSE inUse.proxies
      /\ inUse'.kb = IF n = 12 THEN v ELSE inUse.kb
      /\ inUse'.collector = IF n = 18 THEN v ELSE inUse.collector
  <2> DEFINE w == [proxies |-> inUse.proxies, kb |-> inUse.kb, collector |-> inUse.collector]
  <2>1. inUse' = [w EXCEPT ![x] = v]
    BY <1>1, <1>2
  <2>2. CASE n = 9
    <3>0. x = "proxies"
      BY <1>3, <2>2
    <3>1. inUse' = [w EXCEPT !.proxies = v]
      BY <2>1, <3>0, Zenon
    <3>2. inUse' = [proxies |-> v, kb |-> inUse.kb, collector |-> inUse.collector]
      BY <3>1
    <3> QED
      BY <2>2, <3>2
  <2>3. CASE n = 12
    <3>0. x = "kb"
      BY <1>3, <2>3
    <3>1. inUse' = [w EXCEPT !.kb = v]
      BY <2>1, <3>0, Zenon
    <3>2. inUse' = [proxies |-> inUse.proxies, kb |-> v, collector |-> inUse.collector]
      BY <3>1
    <3> QED
      BY <2>3, <3>2
  <2>4. CASE n = 18
    <3>0. x = "collector"
      BY <1>3, <2>4
    <3>1. inUse' = [w EXCEPT !.collector = v]
      BY <2>1, <3>0, Zenon
    <3>2. inUse' = [proxies |-> inUse.proxies, kb |-> inUse.kb, collector |-> v]
      BY <3>1
    <3> QED
      BY <2>4, <3>2
  <2> QED
    BY <1>3, <2>2, <2>3, <2>4
<1>7. ~together /\ cuts = 0 => Follows(desk[a])'
  <2> SUFFICES ASSUME ~together, cuts = 0 PROVE Follows(desk[a])'
    OBVIOUS
  <2>1. Follows(desk[a])
    BY <1>2
  <2>2. inUse'.proxies = <<stored["proxies"]>>
    BY <1>3, <1>5, <1>6, <2>1 DEF Follows
  <2>3. inUse'.kb = <<stored["kb"]>>
    BY <1>3, <1>5, <1>6, <2>1 DEF Follows
  <2>4. inUse'.collector = syslog_target(stored)
    BY <1>3, <1>5, <1>6, <2>1 DEF Follows
  <2>5. desk'[a].n \in {10, 13, 19}
    BY <1>3, <1>4
  <2> QED
    BY <1>1, <2>2, <2>3, <2>4, <2>5 DEF Follows
<1> QED
  BY <1>1, <1>2, <1>4, <1>6, <1>7, RequestMoves

\* A request that is dropped half way is counted as cut.
LEMMA CutStep ==
  ASSUME SettingsInv, NEW a \in Admins, Cut(a)
  PROVE  SettingsInv'
<1>1. Shapes
  BY DEF SettingsInv
<1>2. /\ desk' = [b \in Admins |-> desk'[b]] /\ desk'[a] = Away
      /\ \A b \in Admins \ {a} : desk'[b] = desk[b]
  BY <1>1, DeskGiven DEF Cut, Then, Shapes
<1>3. cuts' \in Nat /\ cuts' # 0
  BY <1>1 DEF Cut, Shapes
<1> QED
  BY <1>1, <1>2, <1>3, AwayIsARequest, RequestMoves DEF Cut, Shapes

\* A certificate goes, which is not looked at here.
LEMMA DeletesStep ==
  ASSUME SettingsInv, NEW a \in Admins, Deletes(a)
  PROVE  SettingsInv'
<1>1. Shapes /\ SettingsSound
  BY DEF SettingsInv
<1>2. /\ desk' = [b \in Admins |-> desk'[b]] /\ desk'[a] = Away
      /\ \A b \in Admins \ {a} : desk'[b] = desk[b]
  BY <1>1, DeskGiven DEF Deletes, Then, Shapes
<1>3. desk[a] # Away /\ ~Saving(a) /\ Away.does # "save"
  BY DEF Deletes, Saving, Away
<1>4. ~together /\ cuts = 0 => inUse' = Meant(stored')
  <2> SUFFICES ASSUME ~together, cuts = 0 PROVE inUse' = Meant(stored')
    OBVIOUS
  <2>1. \A b \in Admins : ~Saving(b)
    BY <1>1, <1>3 DEF SettingsSound, Saving
  <2> QED
    BY <1>1, <2>1 DEF SettingsSound, Deletes
<1> QED
  BY <1>1, <1>2, <1>3, <1>4, AwayIsARequest, RequestMoves DEF Deletes, Shapes

\* A request begins: it is the only one, or the history says not.
LEMMA RequestBegins ==
  ASSUME SettingsInv, NEW a \in Admins, NEW k, Request(k), k.does = "save" => k.n = 1,
         Begun(a, k), UNCHANGED <<stored, inUse, cuts>>
  PROVE  SettingsInv'
<1>1. Shapes /\ SettingsSound
  BY DEF SettingsInv
<1>2. /\ desk' = [b \in Admins |-> desk'[b]] /\ desk'[a] = k
      /\ \A b \in Admins \ {a} : desk'[b] = desk[b]
  BY <1>1, DeskGiven DEF Begun, Then, Shapes
<1>3. Shapes'
  BY <1>1, <1>2 DEF Shapes
<1>4. SettingsSound'
  <2> SUFFICES ASSUME ~together', cuts' = 0 PROVE
                 /\ \A b, c \in Admins : b # c => desk'[b] = Away \/ desk'[c] = Away
                 /\ \A b \in Admins : Saving(b)' => Follows(desk[b])'
                 /\ (\A b \in Admins : ~Saving(b)') => inUse' = Meant(stored')
    BY DEF SettingsSound, Away
  <2>1. ~together /\ cuts = 0 /\ desk[a] = Away /\ \A b \in Admins \ {a} : desk[b] = Away
    BY DEF Begun
  <2>2. \A b \in Admins : ~Saving(b)
    BY <2>1 DEF Saving, Away
  <2>3. inUse = Meant(stored)
    BY <1>1, <2>1, <2>2 DEF SettingsSound
  <2>4. \A b \in Admins \ {a} : desk'[b] = Away /\ ~Saving(b)'
    BY <1>2, <2>1 DEF Saving, Away
  <2>5. Saving(a)' => Follows(desk[a])'
    <3> SUFFICES ASSUME k.does = "save" PROVE Follows(desk[a])'
      BY <1>2 DEF Saving
    <3>1. desk'[a].n = 1
      BY <1>2
    <3>2. inUse'.proxies = <<stored'["proxies"]>> /\ inUse'.kb = <<stored'["kb"]>>
          /\ inUse'.collector = syslog_target(stored')
      BY <2>3 DEF Meant
    <3> QED
      BY <3>1, <3>2 DEF Follows
  <2> QED
    BY <2>3, <2>4, <2>5
<1> QED
  BY <1>3, <1>4 DEF SettingsInv

\* The form is submitted, or the deletion of a certificate is asked for.
LEMMA AskedStep ==
  ASSUME SettingsInv, NEW a \in Admins,
         (\E form \in Forms : Submit(a, form)) \/ (\E name \in certs : DeleteAsks(a, name))
  PROVE  SettingsInv'
<1>1. ASSUME NEW form \in Forms, Submit(a, form) PROVE SettingsInv'
  <2> DEFINE k == [does |-> "save", n |-> 1, form |-> form, got |-> <<>>]
  <2>1. 1 \in 1 .. Len(Statements)
    BY StatementsRead
  <2>2. Request(k) /\ k.n = 1
    BY <2>1 DEF Request
  <2>3. Begun(a, k) /\ UNCHANGED <<stored, inUse, cuts>>
    BY <1>1 DEF Submit
  <2> HIDE DEF k
  <2> QED
    BY <2>2, <2>3, RequestBegins
<1>2. ASSUME NEW name \in certs, DeleteAsks(a, name) PROVE SettingsInv'
  <2>1. UNCHANGED <<stored, inUse, cuts>>
    BY <1>2 DEF DeleteAsks
  <2>2. CASE Begun(a, Away)
    BY <2>1, <2>2, AwayIsARequest, RequestBegins
  <2>3. CASE Begun(a, [does |-> "delete", name |-> name])
    <3> DEFINE k == [does |-> "delete", name |-> name]
    <3>1. Request(k) /\ k.does # "save"
      BY DEF Request
    <3>2. Begun(a, k)
      BY <2>3
    <3> HIDE DEF k
    <3> QED
      BY <2>1, <3>1, <3>2, RequestBegins
  <2> QED
    BY <1>2, <2>2, <2>3 DEF DeleteAsks
<1> QED
  BY <1>1, <1>2

\* A start takes what is stored into use, and nobody is saving.
LEMMA StartStep ==
  ASSUME SettingsInv, StopAndStart
  PROVE  SettingsInv'
<1>1. Shapes
  BY DEF SettingsInv
<1>2. desk' = [a \in Admins |-> Away] /\ stored' = stored /\ inUse' = Meant(stored)
  BY DEF StopAndStart, Start
<1>3. \A a \in Admins : desk'[a] = Away /\ Request(desk'[a]) /\ ~Saving(a)'
  BY <1>2, AwayIsARequest DEF Saving
<1>4. cuts' \in Nat
  <2>1. IsFiniteSet({a \in Admins : desk[a] # Away})
    BY SettingsAssumption, FS_Subset
  <2>2. Cardinality({a \in Admins : desk[a] # Away}) \in Nat
    BY <2>1, FS_CardinalityType
  <2> QED
    BY <1>1, <2>2 DEF StopAndStart, Shapes
<1>5. inUse' = [proxies |-> inUse'.proxies, kb |-> inUse'.kb, collector |-> inUse'.collector]
  BY <1>2 DEF Meant
<1>6. desk' = [a \in Admins |-> desk'[a]]
  BY <1>2
<1>7. Shapes'
  BY <1>1, <1>2, <1>3, <1>4, <1>5, <1>6 DEF Shapes
<1>8. SettingsSound'
  BY <1>2, <1>3 DEF SettingsSound
<1> QED
  BY <1>7, <1>8 DEF SettingsInv

\* The program starts with what is stored in use.
LEMMA SettingsStart == SettingsInit => SettingsInv
<1> SUFFICES ASSUME SettingsInit PROVE SettingsInv
  OBVIOUS
<1>1. \A a \in Admins : desk[a] = Away /\ Request(desk[a]) /\ ~Saving(a)
  BY AwayIsARequest DEF SettingsInit, Saving
<1>2. inUse = [proxies |-> inUse.proxies, kb |-> inUse.kb, collector |-> inUse.collector]
  BY DEF SettingsInit, Meant
<1>3. DOMAIN stored = Rows /\ desk = [a \in Admins |-> desk[a]] /\ cuts \in Nat
  BY SettingsAssumption DEF SettingsInit
<1>4. inUse = Meant(stored)
  BY DEF SettingsInit
<1> QED
  BY <1>1, <1>2, <1>3, <1>4 DEF SettingsInv, Shapes, SettingsSound

-----------------------------------------------------------------------------
(* What follows.                                                             *)

\* Every step keeps the invariant.
LEMMA SettingsStep == SettingsInv /\ [SettingsNext]_settingsVars => SettingsInv'
<1> SUFFICES ASSUME SettingsInv, [SettingsNext]_settingsVars PROVE SettingsInv'
  OBVIOUS
<1>1. ASSUME NEW a \in Admins,
             \/ \E form \in Forms : Submit(a, form)
             \/ \E name \in certs : DeleteAsks(a, name)
      PROVE  SettingsInv'
  BY <1>1, AskedStep
<1>2. ASSUME NEW a \in Admins, Checks(a) \/ Sets(a) \/ Reads(a) \/ Uses(a)
      PROVE  SettingsInv'
  BY <1>2, ChecksStep, SetsStep, ReadsStep, UsesStep
<1>3. ASSUME NEW a \in Admins, Cut(a) \/ Deletes(a) PROVE SettingsInv'
  BY <1>3, CutStep, DeletesStep
<1>4. CASE StopAndStart
  BY <1>4, StartStep
<1>5. CASE UNCHANGED settingsVars
  <2>1. UNCHANGED <<stored, inUse, desk, together, cuts>>
    BY <1>5 DEF settingsVars
  <2>2. Shapes'
    BY <2>1 DEF SettingsInv, Shapes
  <2>3. SettingsSound'
    BY <2>1 DEF SettingsInv, SettingsSound, Saving, Follows
  <2> QED
    BY <2>2, <2>3 DEF SettingsInv
<1> QED
  BY <1>1, <1>2, <1>3, <1>4, <1>5 DEF SettingsNext

\* The invariant of the settings (post_settings_update).
THEOREM SettingsKept == SettingsSpec => []SettingsInv
BY SettingsStart, SettingsStep, PTL DEF SettingsSpec

\* When nobody is saving, the program goes by what is stored, unless two saves ran
\* at once or one was cut short (post_settings_update, forwarded.rs, logging.rs).
THEOREM GoesByWhatIsStored == SettingsSpec => []InUseAsStored
<1>1. SettingsInv => InUseAsStored
  <2> SUFFICES ASSUME SettingsInv, Settled, ~together, cuts = 0 PROVE inUse = Meant(stored)
    BY DEF InUseAsStored
  <2>1. \A a \in Admins : ~Saving(a)
    BY DEF Settled, Saving, Away
  <2> QED
    BY <2>1 DEF SettingsInv, SettingsSound
<1> QED
  BY <1>1, SettingsKept, PTL

=============================================================================
