---------------------------- MODULE CountryDatabase ----------------------------
(***************************************************************************)
(* The country database: the file in force and the one it replaced         *)
(* (geo.rs), the signed channel newer ones come from, applied as they      *)
(* arrive or held until somebody applies them (geo_update.rs), and the     *)
(* pages that apply, upload and put back (routes/updates.rs).              *)
(*                                                                         *)
(* A database is an edition of the channel or somebody's upload.  A writer *)
(* goes on writing into the file it opened wherever another installation   *)
(* has renamed it to: every installation stages at the same path.  A       *)
(* manifest is the edition it is of; the file is compared with it, and the *)
(* signature over it, by that.                                             *)
(***************************************************************************)
EXTENDS Integers, FiniteSets

CONSTANTS
    Hands,        \* who installs: the task and the administrators' pages
    MaxEdition,   \* bound on the editions the channel publishes
    MaxPublished, \* bound on how often what the channel offers changes
    MaxUploads,   \* bound on the uploads
    MaxTrips,     \* bound on the fetches and writes that fail
    MaxStops      \* bound on the restarts of the program

Editions == 1 .. MaxEdition

ASSUME CountryAssumption ==
    /\ IsFiniteSet(Hands) /\ MaxEdition \in Nat \ {0}
    /\ {MaxPublished, MaxUploads, MaxTrips, MaxStops} \subseteq Nat

VARIABLES
    file,      \* what is at each path
    label,     \* the line beside the database: how it got there
    inForce,   \* the database answering lookups, and how it is said to have got there
    named,     \* whether config.toml names a database
    offers,    \* the edition the channel offers
    taken,     \* the edition last taken from it (KEY_VERSION)
    applies,   \* the switch: applied as they arrive
    held,      \* the directory of what was fetched and not applied
    hand,      \* what each hand does next
    had,       \* the editions that were put in place or held whole (history)
    crossed,   \* whether two hands were ever at it at once (history)
    switched,  \* whether the switch was ever moved (history)
    published, uploads, trips, stops

files == <<file, label>>
bounds == <<published, uploads, trips, stops>>
countryVars == <<files, inForce, named, offers, taken, applies, held, hand, had, crossed,
                 switched, bounds>>

Paths == {"country.mmdb", "previous", "new"}

Nothing == 0
Upload == MaxEdition + 1
Half == MaxEdition + 2       \* a file that is not all there

Bundled == [db |-> Nothing, source |-> "bundled"]
Configured == [db |-> Nothing, source |-> "configured"]

NoneHeld == [there |-> FALSE, body |-> Nothing, manifest |-> Nothing, signature |-> Nothing]

Rest == [at |-> "idle"]

HandAt(h, step) == hand[h].at = step

\* stored_source: what is not said to be the channel's is said to be uploaded.
stored_source == IF label = "channel" THEN "channel" ELSE "uploaded"

\* Reader::open_readfile: what is at a path and is a database.
Usable(p) == file[p] \notin {Nothing, Half}

\* init: what config.toml names, then what is stored, then what is compiled in.
Loaded ==
    IF named THEN Configured
    ELSE IF Usable("country.mmdb")
         THEN [db |-> file["country.mmdb"], source |-> stored_source]
         ELSE Bundled

CountryInit ==
    /\ file = [p \in Paths |-> Nothing]
    /\ label = "none"
    /\ named \in BOOLEAN
    /\ inForce = Loaded
    /\ offers = 1
    /\ taken = Nothing
    /\ applies \in BOOLEAN
    /\ held = NoneHeld
    /\ hand = [h \in Hands |-> Rest]
    /\ had = {}
    /\ crossed = FALSE /\ switched = FALSE
    /\ published = 0 /\ uploads = 0 /\ trips = 0 /\ stops = 0

-----------------------------------------------------------------------------

Take(h, next) == hand' = [hand EXCEPT ![h] = next]
On(h, step) == Take(h, [hand[h] EXCEPT !.at = step])
Done(h) == Take(h, Rest)

\* A hand that was idle begins.
Begins(h, next) ==
    /\ HandAt(h, "idle")
    /\ Take(h, next)
    /\ crossed' = (crossed \/ \E j \in Hands \ {h} : ~HandAt(j, "idle"))

\* A fetch or a write fails.
Trip == trips < MaxTrips /\ trips' = trips + 1 /\ UNCHANGED <<published, uploads, stops>>

Installing(db, source, after) ==
    [at |-> "create", db |-> db, source |-> source, after |-> after]

-----------------------------------------------------------------------------
(* geo::install.  It is refused before anything is written when the bytes    *)
(* are not a database.                                                       *)

\* A file is renamed, over what is at the other path, and whoever is writing into
\* either goes on doing so.
Rename(h, from, to, step) ==
    /\ file' = [file EXCEPT ![to] = file[from], ![from] = Nothing]
    /\ hand' = [j \in Hands |->
                    IF j = h THEN [hand[h] EXCEPT !.at = step]
                    ELSE IF ~HandAt(j, "write") THEN hand[j]
                    ELSE [hand[j] EXCEPT !.into = IF @ = from THEN to
                                                 ELSE IF @ = to THEN "nowhere" ELSE @]]

\* As if the database were written where it is read.
Staging_InPlace == "country.mmdb"

Staging == "new"

Create(h) ==
    /\ HandAt(h, "create")
    /\ file' = [file EXCEPT ![Staging] = Half]
    /\ Take(h, [at |-> "write", db |-> hand[h].db, source |-> hand[h].source,
                after |-> hand[h].after, into |-> Staging])
    /\ UNCHANGED <<label, inForce, named, offers, taken, applies, held, had, crossed, switched,
                   bounds>>

Write(h) ==
    /\ HandAt(h, "write")
    /\ \/ /\ file' = [p \in Paths |-> IF p = hand[h].into THEN hand[h].db ELSE file[p]]
          /\ Take(h, [at |-> "keep", db |-> hand[h].db, source |-> hand[h].source,
                      after |-> hand[h].after])
          /\ UNCHANGED bounds
       \/ Trip /\ Done(h) /\ UNCHANGED file
    /\ UNCHANGED <<label, inForce, named, offers, taken, applies, held, had, crossed, switched>>

\* The database it replaces becomes the way back, if it can.
Keep(h) ==
    /\ HandAt(h, "keep")
    /\ \/ /\ file["country.mmdb"] # Nothing
          /\ Rename(h, "country.mmdb", "previous", "place")
          /\ UNCHANGED bounds
       \/ /\ \/ file["country.mmdb"] = Nothing /\ UNCHANGED bounds
             \/ file["country.mmdb"] # Nothing /\ Trip
          /\ On(h, "place")
          /\ UNCHANGED file
    /\ UNCHANGED <<label, inForce, named, offers, taken, applies, held, had, crossed, switched>>

Place(h) ==
    /\ HandAt(h, "place")
    /\ \/ /\ file["new"] # Nothing
          /\ Rename(h, "new", "country.mmdb", "label")
          /\ had' = had \cup ({file["new"]} \cap Editions)
          /\ UNCHANGED bounds
       \/ file["new"] = Nothing /\ Done(h) /\ UNCHANGED <<file, had, bounds>>
       \/ Trip /\ Done(h) /\ UNCHANGED <<file, had>>
    /\ UNCHANGED <<label, inForce, named, offers, taken, applies, held, crossed, switched>>

\* That it could not be written is not looked at.
Label(h) ==
    /\ HandAt(h, "label")
    /\ \/ label' = hand[h].source /\ UNCHANGED bounds
       \/ Trip /\ UNCHANGED label
    /\ On(h, "load")
    /\ UNCHANGED <<file, inForce, named, offers, taken, applies, held, had, crossed, switched>>

\* init, and then whatever the caller had left to do.
Load(h) ==
    /\ HandAt(h, "load")
    /\ inForce' = Loaded
    /\ IF hand[h].after = "nothing" THEN Done(h) ELSE On(h, hand[h].after)
    /\ UNCHANGED <<files, named, offers, taken, applies, held, had, crossed, switched, bounds>>

Install(h) == Create(h) \/ Write(h) \/ Keep(h) \/ Place(h) \/ Label(h) \/ Load(h)

-----------------------------------------------------------------------------
(* geo_update::sync, by the task and by the page that checks now.            *)

\* The manifest, with a signature that verifies.
Check(h) ==
    /\ Begins(h, [at |-> "compare", db |-> offers])
    /\ UNCHANGED <<files, inForce, named, offers, taken, applies, held, had, switched, bounds>>

Newer(edition) == taken = Nothing \/ edition > taken

Compare(h) ==
    /\ HandAt(h, "compare")
    /\ IF Newer(hand[h].db) THEN On(h, "download") ELSE Done(h)
    /\ UNCHANGED <<files, inForce, named, offers, taken, applies, held, had, crossed, switched,
                   bounds>>

\* The file, which is what the manifest describes unless it was replaced since.
Download(h) ==
    /\ HandAt(h, "download")
    /\ \/ (IF offers = hand[h].db THEN On(h, "choose") ELSE Done(h)) /\ UNCHANGED bounds
       \/ Trip /\ Done(h)
    /\ UNCHANGED <<files, inForce, named, offers, taken, applies, held, had, crossed, switched>>

\* The switch is read: into force, or held.
Choose(h) ==
    /\ HandAt(h, "choose")
    /\ IF applies THEN Take(h, Installing(hand[h].db, "channel", "record"))
                  ELSE On(h, "unhold")
    /\ UNCHANGED <<files, inForce, named, offers, taken, applies, held, had, crossed, switched,
                   bounds>>

\* As if it were recorded as taken before it is written.
HeldFirst_Recorded == "record"

HeldFirst == "hold body"

Unhold(h) ==
    /\ HandAt(h, "unhold")
    /\ held' = NoneHeld
    /\ On(h, HeldFirst)
    /\ UNCHANGED <<files, inForce, named, offers, taken, applies, had, crossed, switched, bounds>>

HoldBody(h) ==
    /\ HandAt(h, "hold body")
    /\ \/ /\ held' = [held EXCEPT !.there = TRUE, !.body = hand[h].db]
          /\ On(h, "hold manifest")
          /\ UNCHANGED bounds
       \/ Trip /\ Done(h) /\ UNCHANGED held
    /\ UNCHANGED <<files, inForce, named, offers, taken, applies, had, crossed, switched>>

\* A file cannot be written into a directory another hand has removed.
HoldManifest(h) ==
    /\ HandAt(h, "hold manifest")
    /\ \/ /\ held.there
          /\ held' = [held EXCEPT !.manifest = hand[h].db]
          /\ On(h, "hold signature")
          /\ UNCHANGED bounds
       \/ ~held.there /\ Done(h) /\ UNCHANGED <<held, bounds>>
       \/ Trip /\ Done(h) /\ UNCHANGED held
    /\ UNCHANGED <<files, inForce, named, offers, taken, applies, had, crossed, switched>>

HoldSignature(h) ==
    /\ HandAt(h, "hold signature")
    /\ \/ /\ held.there
          /\ held' = [held EXCEPT !.signature = hand[h].db]
          /\ had' = had \cup {hand[h].db}
          /\ On(h, "record")
          /\ UNCHANGED bounds
       \/ ~held.there /\ Done(h) /\ UNCHANGED <<held, had, bounds>>
       \/ Trip /\ Done(h) /\ UNCHANGED <<held, had>>
    /\ UNCHANGED <<files, inForce, named, offers, taken, applies, crossed, switched>>

\* Recorded as taken, in force or not.
Record(h) ==
    /\ HandAt(h, "record")
    /\ taken' = hand[h].db
    /\ Done(h)
    /\ UNCHANGED <<files, inForce, named, offers, applies, held, had, crossed, switched, bounds>>

Hold(h) == Unhold(h) \/ HoldBody(h) \/ HoldManifest(h) \/ HoldSignature(h)

Sync(h) == Compare(h) \/ Download(h) \/ Choose(h) \/ Hold(h) \/ Record(h)

-----------------------------------------------------------------------------
(* The pages.                                                                *)

\* apply_held: the manifest is there, and verifies again.
ApplyHeld(h) ==
    /\ held.manifest # Nothing /\ held.signature = held.manifest
    /\ Begins(h, [at |-> "held body", db |-> held.manifest])
    /\ UNCHANGED <<files, inForce, named, offers, taken, applies, held, had, switched, bounds>>

\* The file is checked against it again.
HeldBody(h) ==
    /\ HandAt(h, "held body")
    /\ IF held.body = hand[h].db
       THEN Take(h, Installing(hand[h].db, "channel", "drop held"))
       ELSE Done(h)
    /\ UNCHANGED <<files, inForce, named, offers, taken, applies, held, had, crossed, switched,
                   bounds>>

DropHeld(h) ==
    /\ HandAt(h, "drop held")
    /\ held' = NoneHeld
    /\ Done(h)
    /\ UNCHANGED <<files, inForce, named, offers, taken, applies, had, crossed, switched, bounds>>

\* post_upload: a file nobody signed, which is a database.
UploadOne(h) ==
    /\ uploads < MaxUploads
    /\ uploads' = uploads + 1
    /\ Begins(h, Installing(Upload, "uploaded", "nothing"))
    /\ UNCHANGED <<files, inForce, named, offers, taken, applies, held, had, switched, published,
                   trips, stops>>

\* revert: the one an update replaced is read.
Revert(h) ==
    /\ Usable("previous")
    /\ Begins(h, [at |-> "revert label", db |-> file["previous"]])
    /\ UNCHANGED <<files, inForce, named, offers, taken, applies, held, had, switched, bounds>>

\* How it got there is taken from the line beside the one in place.
RevertLabel(h) ==
    /\ HandAt(h, "revert label")
    /\ Take(h, Installing(hand[h].db, stored_source, "drop previous"))
    /\ UNCHANGED <<files, inForce, named, offers, taken, applies, held, had, crossed, switched,
                   bounds>>

DropPrevious(h) ==
    /\ HandAt(h, "drop previous")
    /\ file' = [file EXCEPT !["previous"] = Nothing]
    /\ Done(h)
    /\ UNCHANGED <<label, inForce, named, offers, taken, applies, held, had, crossed, switched,
                   bounds>>

\* post_updates_settings.
SetAuto ==
    /\ ~switched
    /\ switched' = TRUE
    /\ applies' = ~applies
    /\ UNCHANGED <<files, inForce, named, offers, taken, held, hand, had, crossed, bounds>>

\* The publisher puts another edition up, or an earlier one back.
Publish ==
    /\ published < MaxPublished
    /\ published' = published + 1
    /\ offers' \in Editions \ {offers}
    /\ UNCHANGED <<files, inForce, named, taken, applies, held, hand, had, crossed, switched,
                   uploads, trips, stops>>

\* The program stops wherever it is, and starts.
Stop ==
    /\ stops < MaxStops
    /\ stops' = stops + 1
    /\ hand' = [h \in Hands |-> Rest]
    /\ inForce' = Loaded
    /\ UNCHANGED <<files, named, offers, taken, applies, held, had, crossed, switched,
                   published, uploads, trips>>

Pages(h) ==
    \/ ApplyHeld(h) \/ HeldBody(h) \/ DropHeld(h)
    \/ UploadOne(h)
    \/ Revert(h) \/ RevertLabel(h) \/ DropPrevious(h)

CountryNext ==
    \/ \E h \in Hands : Check(h) \/ Sync(h) \/ Install(h) \/ Pages(h)
    \/ SetAuto \/ Publish \/ Stop

CountrySpec == CountryInit /\ [][CountryNext]_countryVars

-----------------------------------------------------------------------------
(* Properties.                                                               *)

OneHand == ~crossed

\* "Staged and renamed, so an interrupted write cannot leave half a database
\* where a whole one was" (geo.rs:247-248), wherever the program stops and
\* whatever fails, as long as one installs at a time.
WholeWhereItStood ==
    OneHand => \A p \in {"country.mmdb", "previous"} : file[p] # Nothing => Usable(p)

\* What is recorded as taken has been put in place or held whole, so that no
\* edition is skipped because the program stopped, or a write failed, half way
\* (sync: KEY_VERSION is what "newer" is measured against).
TakenWasHad == OneHand /\ taken # Nothing => taken \in had

\* "An installation must not follow a channel backwards" (geo_update.rs:237-238):
\* no edition is put in place for the channel that is older than one that was,
\* or than one held, as long as the switch stays where it is and the program
\* does not stop between putting one in place and recording it.
NotFollowedBack ==
    OneHand /\ ~switched /\ stops = 0 /\ trips = 0 =>
        \A h \in Hands :
            hand[h].at = "place" /\ hand[h].after \in {"record", "drop held"} =>
                \A e \in had : e <= hand[h].db

\* The same with the switch moved: what was held before stays, and may be applied
\* after a newer one came into force by itself.
NeverBackwards ==
    OneHand /\ stops = 0 /\ trips = 0 =>
        \A h \in Hands :
            hand[h].at = "place" /\ hand[h].after \in {"record", "drop held"} =>
                \A e \in had : e <= hand[h].db

\* "A .mmdb cannot say whether anybody checked a signature over it, and the page
\* must not guess" (geo.rs:221-222): what is said to be the channel's is.
SaidToBeVerified ==
    OneHand /\ stops = 0 /\ trips = 0 =>
        (inForce.source = "channel" => inForce.db \in Editions)
=============================================================================
