------------------------------ MODULE RuleSets ------------------------------
(* Policies and the rules they hold: sets of rules installed from the signed   *)
(* channel, updated, put back and removed, rules taken one by one, rules of    *)
(* the administrator's own, and the entries of a policy's lists.               *)
(*                                                                             *)
(* Nothing here is in a transaction.  What a handler does to one row is a      *)
(* step; installing a set and putting one back are as many steps as the set    *)
(* has rules, and the checker's task and an administrator take theirs in any   *)
(* order.  A rule is its text, as the version of the set it comes from, and    *)
(* whether it is on.                                                           *)
(*                                                                             *)
(* Names, descriptions and scores, the pages that only read, and the rate of   *)
(* the checks are left out.  The mirror is whole (BundleMirror), and the       *)
(* channel's files are as signed.                                              *)
EXTENDS Integers, Sequences, SequencesExt, FiniteSets, FiniteSetsExt, Functions, TLC

CONSTANTS
    None,
    Policies,   \* names a policy may have
    Sets,       \* rule sets of the channel
    Ext,        \* numbers of catalogue rules
    Own,        \* ids a rule of the administrator's own may have
    Entries,    \* entries a list may have: [kind, of, does]
    File,       \* what the versions of each set contain: File[s][v] \subseteq Ext
    Newer,      \* <<set, version>> written for a newer EasyWAF
    Budgets     \* bounds, of which a behaviour has one: [first, auto, acts, edits,
                \* faults, stops], what there is at first ("set", "before sets" or
                \* "two"), whether updates are applied by themselves, and how
                \* much there is of what two administrators do, of times the channel
                \* is not reached, and of stops

Every == "every policy"
Scopes == Policies \cup {Every}
Latest(s) == Len(File[s])
RulesOf(s) == UNION {File[s][v] : v \in 1..Latest(s)}
SetOf(e) == CHOOSE s \in Sets : e \in RulesOf(s)
Workers == {"admin", "task"}

Row == [text : Nat, whole : BOOLEAN, on : BOOLEAN, claimed : BOOLEAN]

\* The numbers of two sets never overlap, and no version of a set is empty.
ASSUME RuleSetsAssumption ==
    /\ Ext = UNION {RulesOf(s) : s \in Sets}
    /\ \A s, t \in Sets : s # t => RulesOf(s) \cap RulesOf(t) = {}
    /\ Policies # {} /\ None \notin Scopes /\ None \notin Ext /\ None \notin Row
    /\ \A s \in Sets : /\ Len(File[s]) \in Nat \ {0}
                       /\ \A v \in 1..Latest(s) : File[s][v] # {}

VARIABLES
    policies,  \* those there are
    rows,      \* waf_rules with a number: for each policy and number, its row or None
    own,       \* waf_rules without one: for each id, its row or None
    held,      \* policy_rule_sets: the version of each set held, or 0
    previous,  \* policy_rule_set_previous: what an update replaced, or None
    entries,   \* ip_rules, ip_list_feeds and policy_rule_exclusions, by scope
    site,      \* the policy of the site, or None
    published, \* the version of each set that the channel offers
    known,     \* the one in the manifest last read
    mirror,    \* the one in the mirror on disk, or 0
    job,       \* what each worker has still to do
    undo,      \* what the administrator putting a set back has read, or None
    hand,      \* rules put in or taken out one by one since (history)
    torn,      \* holdings that no job has finished alone since one did not (history)
    tangled,   \* those of them that no update will mend (history)
    left       \* what is left of the budget

channel == <<published, known, mirror>>
history == <<hand, torn, tangled>>
tables == <<policies, rows, own, held, previous, entries, site>>
vars == <<tables, channel, job, undo, history, left>>

Holdings == Policies \X Sets
OwnRow == [policy : Policies, text : Nat, whole : BOOLEAN, from : Ext \cup {None}, on : BOOLEAN]

\* Nothing belongs to a policy that is gone.
TypeOK ==
    /\ policies \subseteq Policies /\ site \in policies \cup {None}
    /\ \A p \in Policies, e \in Ext : rows[p][e] = None \/ (p \in policies /\ rows[p][e] \in Row)
    /\ \A i \in Own : own[i] = None \/ (own[i] \in OwnRow /\ own[i].policy \in policies)
    /\ \A p \in Policies, s \in Sets : held[p][s] \in 0..Latest(s) /\ (p \notin policies => held[p][s] = 0)
    /\ \A p \in Scopes : entries[p] \subseteq Entries /\ (p \in Policies \ policies => entries[p] = {})
    /\ tangled \subseteq torn /\ torn \subseteq Holdings

Fresh(v) == [text |-> v, whole |-> TRUE, on |-> TRUE, claimed |-> TRUE]

\* One policy, of a site, with the first version of every set, as this version
\* installs it or as one did that recorded no sets; or it and an empty one, of no
\* site.
Init ==
    /\ left \in Budgets
    /\ LET p == CHOOSE p \in Policies : TRUE IN
        /\ policies = IF left.first = "two" THEN Policies ELSE {p}
        /\ site = IF left.first = "two" THEN None ELSE p
        /\ rows = [q \in Policies |-> [e \in Ext |->
                     IF q = p /\ e \in File[SetOf(e)][1] THEN [Fresh(1) EXCEPT !.claimed = left.first # "before sets"]
                     ELSE None]]
        /\ held = [q \in Policies |-> [s \in Sets |-> IF q = p /\ left.first # "before sets" THEN 1 ELSE 0]]
    /\ own = [i \in Own |-> None]
    /\ previous = [p \in Policies |-> [s \in Sets |-> None]]
    /\ entries = [p \in Scopes |-> {}]
    /\ published = [s \in Sets |-> 1] /\ known = published /\ mirror = published
    /\ job = [w \in Workers |-> <<>>] /\ undo = None
    /\ hand = [p \in Policies |-> {}] /\ torn = {} /\ tangled = {}

-----------------------------------------------------------------------------
(* What there is to do: a job is a sequence of things, the first of them begun. *)

\* Something to do, where it is several statements each for one of the rest.
To(do, p, s, v, rest) == <<[do |-> do, policy |-> p, set |-> s, version |-> v, rest |-> rest]>>
One(do, p, s, v) == To(do, p, s, v, {})
Each(do, p, rest) == IF rest = {} THEN <<>> ELSE To(do, p, None, 0, rest)

\* Wrong on purpose: the version recorded before the rules are written.
install_set_RecordsFirst ==
    [snapshot |-> "record", record |-> "rule", rule |-> "sweep", sweep |-> "done"]

\* Installing a version: the rules it replaces kept, every rule of it written,
\* the set's others removed, and last the version recorded.
install_set == [snapshot |-> "rule", rule |-> "sweep", sweep |-> "record", record |-> "done"]

\* Putting the version back that it replaced.
revert_set == [restore |-> "sweep_back", sweep_back |-> "put_back", put_back |-> "forget", forget |-> "done"]

\* Taking a set out of a policy.
uninstall_set == [remove |-> "release", release |-> "done"]

\* Copying a policy: its rules, its record of sets, its exclusions and lists.
copy_policy == [copy_rules |-> "copy_sets", copy_sets |-> "copy_entries", copy_entries |-> "done"]

\* A set adopted: its rules, and the record of it.
adoption == [claim |-> "adopt", adopt |-> "done"]

\* The picker: the sets ticked, then the rules ticked, then the rules unticked.
apply_selection(p, sets, ids, off) ==
    Each("apply", None, {p} \X sets) \o Each("tick", p, ids) \o Each("untick", p, off)

-----------------------------------------------------------------------------
(* Who is at what. *)

Updating == {"snapshot", "rule", "sweep", "record"}
Undoing == {"restore", "sweep_back", "put_back", "forget", "remove", "release"}
Booting == {"backfill", "claim", "adopt", "purge"}
Kinds(w) == {job[w][k].do : k \in DOMAIN job[w]}

\* The first thing a worker has to do, and the one of its rest that is next; done,
\* it goes on.
Doing(w, do) == job[w] # <<>> /\ Head(job[w]).do = do
This(w) == Head(job[w])
Taken(w) == CHOOSE x \in This(w).rest : TRUE
Others(w) == This(w).rest \ {Taken(w)}
Done(w) == job' = [job EXCEPT ![w] = Tail(@)]
Turn(w, do, rest) == job' = [job EXCEPT ![w] = <<[Head(@) EXCEPT !.do = do, !.rest = rest]>> \o Tail(@)]
DoneAfterAll(w) == IF Others(w) = {} THEN Done(w) ELSE Turn(w, This(w).do, Others(w))
Onward(w, order) ==
    LET do == order[This(w).do] IN IF do = "done" THEN Done(w) ELSE Turn(w, do, This(w).rest)
OnwardAfterAll(w, order) ==
    IF Others(w) = {} THEN Turn(w, order[This(w).do], {}) ELSE Turn(w, This(w).do, Others(w))

Busy(w) ==
    IF job[w] # <<>> /\ This(w).do \in Updating \cup Undoing THEN {<<This(w).policy, This(w).set>>} ELSE {}
InHand == UNION {Busy(w) : w \in Workers}

\* A row cannot be written for a policy that is gone.
There(w) == This(w).policy \in policies

\* Two workers on one holding leave it in a state neither of them meant.
Starting(w, h) ==
    LET together == h \in UNION {Busy(x) : x \in Workers \ {w}} IN
    /\ torn' = IF together THEN torn \cup {h} ELSE torn
    /\ tangled' = IF together THEN tangled \cup {h} ELSE tangled

\* A job that ends alone, after one that began alone, mends what was torn.
Ending(w, h, sound) ==
    LET alone == h \notin UNION {Busy(x) : x \in Workers \ {w}} /\ h \notin tangled IN
    /\ torn' = IF alone /\ sound THEN torn \ {h} ELSE torn \cup {h}
    /\ UNCHANGED tangled

Still == UNCHANGED <<policies, own, entries, site, channel, left>>
Quiet == Still /\ UNCHANGED undo

-----------------------------------------------------------------------------
(* The channel's task: spawn_check_task. *)

\* The version the mirror has, or with none there the channel's.
Offered(s) == IF mirror[s] > 0 THEN mirror[s] ELSE published[s]
\* The version on disk, shipped with this version of EasyWAF or mirrored since.
Shipped(s) == IF mirror[s] = 0 THEN 1 ELSE mirror[s]
fits_here(s) == <<s, Offered(s)>> \notin Newer

Publish ==
    /\ \E s \in Sets : published[s] < Latest(s) /\ published' = [published EXCEPT ![s] = @ + 1]
    /\ UNCHANGED <<tables, known, mirror, job, undo, history, left>>

\* Holdings behind the manifest.
available == {h \in policies \X Sets : held[h[1]][h[2]] > 0 /\ known[h[2]] > held[h[1]][h[2]]}

\* A round with nothing to find, to mirror or to apply is left out.
CheckTask ==
    /\ job["task"] = <<>>
    /\ known # published \/ mirror # published \/ (left.auto /\ available # {})
    /\ job' = [job EXCEPT !["task"] = One("check", None, None, 0) \o One("mirror", None, None, 0)
                                      \o One("automatic", None, None, 0)]
    /\ UNCHANGED <<tables, channel, undo, history, left>>

\* Reached, or not: a failure is stored and the round goes on.
Reached == left' = left
NotReached == left.faults > 0 /\ left' = [left EXCEPT !.faults = @ - 1]

check ==
    /\ Doing("task", "check") /\ Done("task")
    /\ (Reached /\ known' = published) \/ (NotReached /\ UNCHANGED known)
    /\ UNCHANGED <<tables, published, mirror, undo, history>>

sync_cache ==
    /\ Doing("task", "mirror") /\ Done("task")
    /\ (Reached /\ mirror' = published) \/ (NotReached /\ UNCHANGED mirror)
    /\ UNCHANGED <<tables, published, known, undo, history>>

AutoApply ==
    /\ Doing("task", "automatic")
    /\ job' = [job EXCEPT !["task"] =
                 Tail(@) \o (IF left.auto THEN Each("apply", None, available) ELSE <<>>)]
    /\ UNCHANGED <<tables, channel, undo, history, left>>

-----------------------------------------------------------------------------
(* Installing. *)

\* rules_update::apply: refused before anything is written, or begun.
apply(w) ==
    /\ Doing(w, "apply")
    /\ LET h == Taken(w)
           v == Offered(h[2])
       IN  IF fits_here(h[2]) /\ h[1] \in policies
            THEN /\ job' = [job EXCEPT ![w] =
                              To("snapshot", h[1], h[2], v, File[h[2]][v])
                                \o Each("apply", None, Others(w)) \o Tail(@)]
                 /\ Starting(w, h)
            ELSE DoneAfterAll(w) /\ UNCHANGED <<torn, tangled>>
    /\ Quiet /\ UNCHANGED <<rows, held, previous, hand>>

OfSet(p, s) == {e \in RulesOf(s) : rows[p][e] # None /\ rows[p][e].claimed}

\* The rules about to be overwritten, unless the set is not held, the version is
\* the same or there are none.
snapshot_before_update(w) ==
    /\ Doing(w, "snapshot")
    /\ LET p == This(w).policy
           s == This(w).set
       IN  previous' =
             IF held[p][s] \in {0, This(w).version} \/ OfSet(p, s) = {} THEN previous
             ELSE [previous EXCEPT ![p][s] =
                    [version |-> held[p][s],
                     rules |-> [e \in Ext |-> IF e \in OfSet(p, s) THEN rows[p][e] ELSE None],
                     hand |-> hand[p] \cap RulesOf(s), sound |-> <<p, s>> \notin torn]]
    /\ Onward(w, install_set) /\ Quiet /\ UNCHANGED <<rows, held, history>>

\* Wrong on purpose: the rule is put in again, switched on.
Written_On(row, text, whole) == [Fresh(text) EXCEPT !.whole = whole]

\* A rule updated stays on or off; one that was not there is on.
Written(row, text, whole) ==
    [Fresh(text) EXCEPT !.whole = whole, !.on = row = None \/ row.on]

install_rule(w) ==
    /\ Doing(w, "rule") /\ There(w)
    /\ LET p == This(w).policy
           e == Taken(w)
       IN  /\ rows' = [rows EXCEPT ![p][e] = Written(@, This(w).version, TRUE)]
           /\ hand' = [hand EXCEPT ![p] = @ \ {e}]
    /\ OnwardAfterAll(w, install_set) /\ Quiet /\ UNCHANGED <<held, previous, torn, tangled>>

\* A row of a policy that is gone cannot be written: the rest of it is not done.
PolicyGone(w) ==
    /\ \E do \in {"rule", "record", "restore", "sweep_back", "put_back", "tick",
               "copy_rules", "copy_sets", "copy_entries", "enter", "attach"} : Doing(w, do)
    /\ ~There(w)
    /\ Done(w)
    /\ UNCHANGED <<tables, channel, undo, history, left>>

Cleared(p, gone) == [rows EXCEPT ![p] = [e \in Ext |-> IF e \in gone THEN None ELSE @[e]]]

\* Wrong on purpose: the rules a version no longer has are kept.
Retired_Kept(p, s, v) == {}

Retired(p, s, v) == OfSet(p, s) \ File[s][v]

sweep(w) ==
    /\ Doing(w, "sweep")
    /\ LET t == This(w) IN
        /\ rows' = Cleared(t.policy, Retired(t.policy, t.set, t.version))
        /\ hand' = [hand EXCEPT ![t.policy] = @ \ (RulesOf(t.set) \ File[t.set][t.version])]
    /\ Onward(w, install_set) /\ Quiet /\ UNCHANGED <<held, previous, torn, tangled>>

record(w) ==
    /\ Doing(w, "record") /\ There(w)
    /\ held' = [held EXCEPT ![This(w).policy][This(w).set] = This(w).version]
    /\ Ending(w, <<This(w).policy, This(w).set>>, TRUE)
    /\ Onward(w, install_set) /\ Quiet /\ UNCHANGED <<rows, previous, hand>>

-----------------------------------------------------------------------------
(* Putting back, and removing. *)

Was(w) == undo

\* As it was: updated where it is, put in again where the update removed it.
restore_rule(w) ==
    /\ Doing(w, "restore") /\ There(w)
    /\ LET p == This(w).policy
           e == Taken(w)
       IN  /\ rows' = [rows EXCEPT ![p][e] = Written(@, Was(w).rules[e].text, Was(w).rules[e].whole)]
           /\ hand' = [hand EXCEPT ![p] = (@ \ {e}) \cup (Was(w).hand \cap {e})]
    /\ OnwardAfterAll(w, revert_set) /\ Quiet /\ UNCHANGED <<held, previous, torn, tangled>>

sweep_back(w) ==
    /\ Doing(w, "sweep_back") /\ There(w)
    /\ LET p == This(w).policy
           others == {e \in RulesOf(This(w).set) : Was(w).rules[e] = None}
       IN  /\ rows' = Cleared(p, others \cap OfSet(p, This(w).set))
           /\ hand' = [hand EXCEPT ![p] = (@ \ others) \cup (Was(w).hand \cap others)]
    /\ Onward(w, revert_set) /\ Quiet /\ UNCHANGED <<held, previous, torn, tangled>>

\* An UPDATE: a set no longer held stays so.
put_back(w) ==
    /\ Doing(w, "put_back") /\ There(w)
    /\ held' = [held EXCEPT ![This(w).policy][This(w).set] = IF @ = 0 THEN 0 ELSE Was(w).version]
    /\ Ending(w, <<This(w).policy, This(w).set>>, Was(w).sound)
    /\ Onward(w, revert_set) /\ Quiet /\ UNCHANGED <<rows, previous, hand>>

forget(w) ==
    /\ Doing(w, "forget")
    /\ previous' = [previous EXCEPT ![This(w).policy][This(w).set] = None] /\ undo' = None
    /\ Onward(w, revert_set) /\ Still /\ UNCHANGED <<rows, held, history>>

\* The rows of the set, and then the record of it.  What it replaced is left.
remove(w) ==
    /\ Doing(w, "remove")
    /\ LET t == This(w) IN
        /\ rows' = Cleared(t.policy, OfSet(t.policy, t.set))
        /\ hand' = [hand EXCEPT ![t.policy] = @ \ RulesOf(t.set)]
    /\ Onward(w, uninstall_set) /\ Quiet /\ UNCHANGED <<held, previous, torn, tangled>>

release(w) ==
    /\ Doing(w, "release")
    /\ held' = [held EXCEPT ![This(w).policy][This(w).set] = 0]
    /\ Ending(w, <<This(w).policy, This(w).set>>, TRUE)
    /\ Onward(w, uninstall_set) /\ Quiet /\ UNCHANGED <<rows, previous, hand>>

-----------------------------------------------------------------------------
(* Rules ticked and unticked, one by one. *)

\* In already: switched on.  Else put in as the mirror has it, the set not held.
add_rules_by_external_ids(w) ==
    /\ Doing(w, "tick") /\ There(w)
    /\ LET p == This(w).policy
           e == Taken(w)
           s == SetOf(e)
       IN  /\ rows' = [rows EXCEPT ![p][e] =
                         IF @ # None THEN [@ EXCEPT !.on = TRUE]
                         ELSE IF e \in File[s][Shipped(s)] THEN Fresh(Shipped(s)) ELSE None]
           /\ hand' = [hand EXCEPT ![p] = IF rows[p][e] = None THEN @ \cup {e} ELSE @]
    /\ DoneAfterAll(w) /\ Quiet /\ UNCHANGED <<held, previous, torn, tangled>>

switch_off_by_external_ids(w) ==
    /\ Doing(w, "untick")
    /\ rows' = [rows EXCEPT ![This(w).policy][Taken(w)] =
                  IF @ = None THEN None ELSE [@ EXCEPT !.on = FALSE]]
    /\ DoneAfterAll(w) /\ Quiet /\ UNCHANGED <<held, previous, history>>

\* Several at once switched on or deleted: a rule that is not there is passed over.
switch_on(w) ==
    /\ Doing(w, "switch_on")
    /\ rows' = [rows EXCEPT ![This(w).policy][Taken(w)] =
                  IF @ = None THEN None ELSE [@ EXCEPT !.on = TRUE]]
    /\ DoneAfterAll(w) /\ Quiet /\ UNCHANGED <<held, previous, history>>

drop(w) ==
    /\ Doing(w, "drop")
    /\ rows' = Cleared(This(w).policy, {Taken(w)})
    /\ hand' = [hand EXCEPT ![This(w).policy] = @ \cup {Taken(w)}]
    /\ DoneAfterAll(w) /\ Quiet /\ UNCHANGED <<held, previous, torn, tangled>>

-----------------------------------------------------------------------------
(* Policies made, copied and deleted. *)

\* A rule is copied with its first condition only: not with what negates it, its
\* further conditions or its decodings.
Copied(row) == IF row = None THEN None ELSE [row EXCEPT !.whole = FALSE]

\* These rows added under new ids, as long as there are any.
NewRows(made) ==
    LET free == SetToSortSeq({i \in Own : own[i] = None}, <)
        mine == SetToSortSeq(DOMAIN made, <)
        new == {k \in 1..Len(mine) : k <= Len(free)}
    IN  [i \in Own |->
            IF \E k \in new : free[k] = i THEN made[mine[CHOOSE k \in new : free[k] = i]]
            ELSE own[i]]

CopiedOwn(from, into) ==
    NewRows([i \in {k \in Own : own[k] # None /\ own[k].policy = from} |->
                [Copied(own[i]) EXCEPT !.policy = into]])

copy_rules(w) ==
    /\ Doing(w, "copy_rules") /\ There(w)
    /\ LET p == This(w).policy
           from == Taken(w)
       IN  /\ rows' = [rows EXCEPT ![p] = [e \in Ext |-> Copied(rows[from][e])]]
           /\ own' = CopiedOwn(from, p)
           /\ hand' = [hand EXCEPT ![p] = hand[from]]
           /\ torn' = torn \cup ({p} \X Sets) /\ tangled' = tangled \cup ({p} \X Sets)
    /\ Onward(w, copy_policy)
    /\ UNCHANGED <<policies, held, previous, entries, site, channel, undo, left>>

\* The record of the sets is another statement: it fits if the rules copied are
\* still those of the policy copied.
copy_sets(w) ==
    /\ Doing(w, "copy_sets") /\ There(w)
    /\ LET p == This(w).policy
           from == Taken(w)
           fits == {s \in Sets : /\ <<from, s>> \notin torn \cup InHand
                                 /\ \A e \in RulesOf(s) :
                                        \/ rows[p][e] = None /\ rows[from][e] = None
                                        \/ rows[p][e] # None /\ rows[from][e] # None
                                           /\ rows[p][e].text = rows[from][e].text
                                           /\ rows[p][e].claimed = rows[from][e].claimed
                                 /\ hand[p] \cap RulesOf(s) = hand[from] \cap RulesOf(s)}
       IN  /\ held' = [held EXCEPT ![p] = held[from]]
           /\ torn' = torn \ ({p} \X fits) /\ tangled' = tangled \ ({p} \X fits)
    /\ Onward(w, copy_policy) /\ Quiet /\ UNCHANGED <<rows, previous, hand>>

\* Of one address, or one list, a policy has one entry.
With(there, x) == {y \in there : <<y.kind, y.of>> # <<x.kind, x.of>>} \cup {x}

\* An exclusion naming a rule of one's own is not copied.
copy_entries(w) ==
    /\ Doing(w, "copy_entries") /\ There(w)
    /\ entries' = [entries EXCEPT ![This(w).policy] =
                     @ \cup {x \in entries[Taken(w)] : ~(x.kind = "exclusion" /\ x.of \in Own)}]
    /\ Onward(w, copy_policy)
    /\ UNCHANGED <<policies, rows, own, held, previous, site, channel, undo, history, left>>

\* An address or a published list of the form.
enter(w) ==
    /\ Doing(w, "enter") /\ There(w)
    /\ entries' = [entries EXCEPT ![This(w).policy] = With(@, Taken(w))]
    /\ DoneAfterAll(w)
    /\ UNCHANGED <<policies, rows, own, held, previous, site, channel, undo, history, left>>

attach_site(w) ==
    /\ Doing(w, "attach") /\ There(w)
    /\ site' = This(w).policy
    /\ Done(w)
    /\ UNCHANGED <<policies, rows, own, held, previous, entries, channel, undo, history, left>>

\* Everything of a policy goes with it, and a site that had it has none.
delete_policy(w) ==
    /\ Doing(w, "delete")
    /\ LET p == This(w).policy IN
        /\ policies' = policies \ {p}
        /\ rows' = [rows EXCEPT ![p] = [e \in Ext |-> None]]
        /\ own' = [i \in Own |-> IF own[i] # None /\ own[i].policy = p THEN None ELSE own[i]]
        /\ held' = [held EXCEPT ![p] = [s \in Sets |-> 0]]
        /\ previous' = [previous EXCEPT ![p] = [s \in Sets |-> None]]
        /\ entries' = [entries EXCEPT ![p] = {}]
        /\ site' = IF site = p THEN None ELSE site
        /\ hand' = [hand EXCEPT ![p] = {}]
        /\ torn' = torn \ ({p} \X Sets) /\ tangled' = tangled \ ({p} \X Sets)
    /\ Done(w) /\ UNCHANGED <<channel, undo, left>>

JobStep(w) ==
    \/ apply(w) \/ snapshot_before_update(w) \/ install_rule(w) \/ sweep(w) \/ record(w) \/ PolicyGone(w)
    \/ restore_rule(w) \/ sweep_back(w) \/ put_back(w) \/ forget(w) \/ remove(w) \/ release(w)
    \/ add_rules_by_external_ids(w) \/ switch_off_by_external_ids(w) \/ switch_on(w) \/ drop(w)
    \/ copy_rules(w) \/ copy_sets(w) \/ copy_entries(w) \/ enter(w) \/ attach_site(w) \/ delete_policy(w)

-----------------------------------------------------------------------------
(* What one administrator does, one thing after another. *)

Serving == Kinds("task") \cap Booting = {}
Act == left.acts > 0 /\ left' = [left EXCEPT !.acts = @ - 1] /\ job["admin"] = <<>> /\ Serving
Begin(todo) == job' = [job EXCEPT !["admin"] = todo]
Untouched == UNCHANGED <<channel, undo>>
NotBegun == UNCHANGED <<tables, channel, history>>

post_apply_rule_update ==
    /\ Act /\ \E p \in policies, s \in Sets : Begin(To("apply", None, None, 0, {<<p, s>>}))
    /\ NotBegun /\ UNCHANGED undo

\* What is put back is read here; without it nothing is.
post_revert_rule_set ==
    /\ Act
    /\ \E p \in policies, s \in Sets :
        /\ previous[p][s] # None
        /\ undo' = previous[p][s] /\ Starting("admin", <<p, s>>)
        /\ Begin(To("restore", p, s, 0, {e \in Ext : previous[p][s].rules[e] # None}))
    /\ UNCHANGED <<tables, channel, hand>>

post_remove_rule_set ==
    /\ Act
    /\ \E p \in policies, s \in Sets : Begin(One("remove", p, s, 0)) /\ Starting("admin", <<p, s>>)
    /\ UNCHANGED <<tables, channel, undo, hand>>

\* The picker of three pages: ticked, and of what is there unticked.
post_rules_catalog ==
    /\ Act
    /\ \E p \in policies, sets \in SUBSET Sets, ids \in SUBSET Ext, off \in SUBSET Ext :
        /\ Cardinality(ids) + Cardinality(off) = 1
        /\ Begin(apply_selection(p, sets, ids, off))
    /\ NotBegun /\ UNCHANGED undo

\* Rules marked on the policy's page: two, which is as good as more.
post_bulk_rules ==
    /\ Act
    /\ \E p \in policies, do \in {"switch_on", "untick", "drop"} :
        \E S \in SUBSET {e \in Ext : rows[p][e] # None} : Cardinality(S) = 2 /\ Begin(Each(do, p, S))
    /\ NotBegun /\ UNCHANGED undo

Concerned(t) == {t.policy} \cup (IF t.do = "apply" THEN {h[1] : h \in t.rest} ELSE {})

\* A new policy: copied from one or not, put on the site or not, at most one
\* address or list typed in, and with sets.  Its id was no other's, so it has a
\* name here that nothing is left to do of.
post_policy_create ==
    /\ Act
    /\ \E p \in Policies \ policies, from \in policies \cup {None}, sets \in SUBSET Sets, attach \in BOOLEAN,
          given \in {{}} \cup {{x} : x \in {x \in Entries : x.kind # "exclusion"}} :
        /\ \A w \in Workers : \A k \in DOMAIN job[w] : p \notin Concerned(job[w][k])
        /\ policies' = policies \cup {p}
        /\ Begin(Each("copy_rules", p, {from} \ {None})
                   \o (IF attach THEN One("attach", p, None, 0) ELSE <<>>)
                   \o Each("enter", p, given) \o apply_selection(p, sets, {}, {}))
    /\ UNCHANGED <<rows, own, held, previous, entries, site, history>> /\ Untouched

InUse(p) == site = p

\* The question and the deletion are two statements.
post_policy_delete ==
    /\ Act
    /\ \E p \in policies : ~InUse(p) /\ Begin(One("delete", p, None, 0))
    /\ NotBegun /\ UNCHANGED undo

-----------------------------------------------------------------------------
(* What another administrator does meanwhile, each of it asked and done at once. *)

Edit == left.edits > 0 /\ left' = [left EXCEPT !.edits = @ - 1] /\ Serving

post_site_save ==
    /\ Edit
    /\ site' \in policies
    /\ UNCHANGED <<policies, rows, own, held, previous, entries, job, history>> /\ Untouched

RowEdit(change) ==
    /\ Edit /\ change
    /\ UNCHANGED <<policies, own, held, previous, entries, site, job, torn, tangled>> /\ Untouched

\* A rule of a set switched, or deleted.
post_rule_toggle ==
    RowEdit(\E p \in policies, e \in Ext :
        rows[p][e] # None /\ rows' = [rows EXCEPT ![p][e].on = ~@] /\ UNCHANGED hand)

post_rule_delete ==
    RowEdit(\E p \in policies, e \in Ext :
        rows[p][e] # None /\ rows' = Cleared(p, {e}) /\ hand' = [hand EXCEPT ![p] = @ \cup {e}])

NewOwn == {i \in Own : own[i] = None /\ \A j \in Own : j < i => own[j] # None}

OwnEdit(change) ==
    /\ Edit /\ change
    /\ UNCHANGED <<policies, rows, held, previous, site, job, history>> /\ Untouched

\* A rule of the administrator's own, from the policy's page or from the list of
\* all rules.
post_rule_create ==
    OwnEdit(\E i \in NewOwn, p \in policies :
        /\ own' = [own EXCEPT ![i] = [policy |-> p, text |-> 1, whole |-> TRUE, from |-> None, on |-> TRUE]]
        /\ UNCHANGED entries)

\* A clone is switched on, and not the set's.
post_rule_clone ==
    OwnEdit(\E i \in NewOwn, p \in policies, e \in Ext :
        /\ rows[p][e] # None
        /\ own' = [own EXCEPT ![i] = [policy |-> p, text |-> rows[p][e].text, whole |-> rows[p][e].whole,
                                      from |-> e, on |-> TRUE]]
        /\ UNCHANGED entries)

\* Every one of a policy into another, but what that one has already, worded the
\* same; ids are new.
share_custom_rules ==
    OwnEdit(\E from, into \in policies :
        LET had(i) == \/ \E k \in Own : /\ own[k] # None /\ own[k].policy = into
                                        /\ <<own[k].from, own[k].text, own[k].whole>>
                                             = <<own[i].from, own[i].text, own[i].whole>>
                      \/ /\ own[i].from # None /\ rows[into][own[i].from] # None
                         /\ rows[into][own[i].from].text = own[i].text
                         /\ rows[into][own[i].from].whole = own[i].whole
            those == {i \in Own : own[i] # None /\ own[i].policy = from /\ ~had(i)}
        IN  /\ from # into /\ those # {}
            /\ own' = NewRows([i \in those |-> [own[i] EXCEPT !.policy = into]])
            /\ UNCHANGED entries)

\* Reworded, and worded back.
post_rule_update_global ==
    OwnEdit(\E i \in Own :
        own[i] # None /\ own' = [own EXCEPT ![i].text = IF @ = 0 THEN 1 ELSE 0] /\ UNCHANGED entries)

post_rule_toggle_global ==
    OwnEdit(\E i \in Own : own[i] # None /\ own' = [own EXCEPT ![i].on = ~@] /\ UNCHANGED entries)

\* The exclusions that name it go with it.
post_rule_delete_global ==
    OwnEdit(\E i \in Own :
        /\ own[i] # None /\ own' = [own EXCEPT ![i] = None]
        /\ entries' = [p \in Scopes |-> {x \in entries[p] : ~(x.kind = "exclusion" /\ x.of = i)}])

EntryEdit(change) == OwnEdit(change /\ UNCHANGED own)
Into(p, x) == entries' = [entries EXCEPT ![p] = With(@, x)]
OutOf(kind) ==
    \E p \in Scopes : \E x \in {x \in entries[p] : x.kind = kind} :
        entries' = [entries EXCEPT ![p] = @ \ {x}]

\* An exclusion is of one policy, and of a rule there may not be any more; a rule
\* of one's own there is.
post_exclusion_add ==
    EntryEdit(\E p \in policies, x \in Entries :
        x \notin entries[p] /\ x.kind = "exclusion" /\ (x.of \in Own => own[x.of] # None) /\ Into(p, x))

\* From a line of the traffic: of the policy its site has.
post_exclusion_from_traffic ==
    EntryEdit(\E x \in Entries :
        site # None /\ x \notin entries[site] /\ x.kind = "exclusion" /\ x.of \in Ext /\ Into(site, x))

\* An address is on one list of a policy, or of every policy: put on the other it
\* moves.
post_ip_add ==
    EntryEdit(\E p \in policies \cup {Every}, x \in Entries : x.kind = "address" /\ Into(p, x))

post_exclusion_remove == EntryEdit(OutOf("exclusion"))
post_ip_remove == EntryEdit(OutOf("address"))

\* A published list: what a policy does about it, or every policy that says
\* nothing of it; following them again is forgetting what it does.
post_feed_save ==
    \/ EntryEdit(\E p \in policies \cup {Every}, x \in Entries : x.kind = "list" /\ Into(p, x))
    \/ EntryEdit(\E p \in policies, x \in Entries :
                   x.kind = "list" /\ entries' = [entries EXCEPT ![p] = {y \in @ : <<y.kind, y.of>> # <<x.kind, x.of>>}])

AdminActs ==
    \/ post_apply_rule_update \/ post_revert_rule_set \/ post_remove_rule_set \/ post_rules_catalog
    \/ post_bulk_rules \/ post_policy_create \/ post_policy_delete

AdminEdits ==
    \/ post_site_save \/ post_rule_toggle \/ post_rule_delete
    \/ post_rule_create \/ post_rule_clone \/ share_custom_rules \/ post_rule_update_global
    \/ post_rule_toggle_global \/ post_rule_delete_global
    \/ post_exclusion_add \/ post_exclusion_from_traffic \/ post_exclusion_remove
    \/ post_ip_add \/ post_ip_remove \/ post_feed_save

-----------------------------------------------------------------------------
(* A stop anywhere, and the start after it. *)

\* Rules numbered and of no set that are, all of them and unchanged, a set's.
Adoptable(p, s) ==
    \A e \in File[s][Shipped(s)] :
        rows[p][e] # None /\ ~rows[p][e].claimed /\ rows[p][e].text = Shipped(s)

\* With no rule numbered and of no set there is nothing to look at; else every
\* holding there might be; then the empty ones are purged.
Starts ==
    (IF \E p \in policies, e \in Ext : rows[p][e] # None /\ ~rows[p][e].claimed
        THEN To("backfill", None, None, 0, policies \X Sets) ELSE <<>>)
        \o One("purge", None, None, 0)

\* A job cut off leaves its holding torn; a putting back or a removal cut off is
\* not gone on with by anybody.
Restart ==
    /\ left.stops > 0 /\ left' = [left EXCEPT !.stops = @ - 1]
    /\ job' = [w \in Workers |-> IF w = "task" THEN Starts ELSE <<>>]
    /\ undo' = None
    /\ torn' = torn \cup InHand
    /\ tangled' = tangled \cup UNION {IF Kinds(w) \cap Undoing = {} THEN {} ELSE Busy(w) : w \in Workers}
    /\ UNCHANGED <<tables, channel, hand>>

\* Adopted rule by rule, and then the record.
backfill_rule_sets ==
    /\ Doing("task", "backfill")
    /\ LET h == Taken("task") IN
        IF Adoptable(h[1], h[2])
            THEN job' = [job EXCEPT !["task"] =
                           To("claim", h[1], h[2], Shipped(h[2]), File[h[2]][Shipped(h[2])])
                             \o Each("backfill", None, Others("task")) \o Tail(@)]
            ELSE DoneAfterAll("task")
    /\ Quiet /\ UNCHANGED <<rows, held, previous, history>>

claim ==
    /\ Doing("task", "claim")
    /\ rows' = [rows EXCEPT ![This("task").policy][Taken("task")].claimed = TRUE]
    /\ OnwardAfterAll("task", adoption) /\ Quiet /\ UNCHANGED <<held, previous, history>>

adopt ==
    /\ Doing("task", "adopt")
    /\ held' = [held EXCEPT ![This("task").policy][This("task").set] = IF @ = 0 THEN This("task").version ELSE @]
    /\ Onward("task", adoption) /\ Quiet /\ UNCHANGED <<rows, previous, history>>

\* Migration 034: holdings with no rules, and what was to be put back of them.
purge ==
    /\ Doing("task", "purge")
    /\ held' = [p \in Policies |-> [s \in Sets |-> IF OfSet(p, s) = {} THEN 0 ELSE held[p][s]]]
    /\ previous' = [p \in Policies |-> [s \in Sets |-> IF held'[p][s] = 0 THEN None ELSE previous[p][s]]]
    /\ torn' = torn \ {h \in Holdings : held'[h[1]][h[2]] = 0}
    /\ tangled' = tangled \ {h \in Holdings : held'[h[1]][h[2]] = 0}
    /\ Done("task") /\ Quiet /\ UNCHANGED <<rows, hand>>

-----------------------------------------------------------------------------

TaskSteps ==
    \/ CheckTask \/ check \/ sync_cache \/ AutoApply
    \/ JobStep("task") \/ backfill_rule_sets \/ claim \/ adopt \/ purge

Next == Publish \/ TaskSteps \/ JobStep("admin") \/ AdminActs \/ AdminEdits \/ Restart

Spec == Init /\ [][Next]_vars

\* What has begun goes on, and the task goes round.
FairSpec == Spec /\ WF_vars(TaskSteps) /\ WF_vars(JobStep("admin"))

-----------------------------------------------------------------------------
(* Properties. *)

\* What a policy holds of a set at this version, rules put in and taken out by
\* hand apart.
IsVersion(p, s, v) ==
    \A e \in RulesOf(s) \ hand[p] :
        /\ e \in OfSet(p, s) <=> e \in File[s][v]
        /\ e \in File[s][v] => rows[p][e].text = v

\* When nobody is at it and nothing was cut off, a policy that says it holds a
\* version of a set holds that version's rules, all of them and no other's
\* (rules.rs, apply_selection: "so the policy records which version of it it
\* holds").
HeldIsWhole ==
    \A p \in policies, s \in Sets :
        held[p][s] > 0 /\ <<p, s>> \notin torn \cup InHand => IsVersion(p, s, held[p][s])

\* What a rule says and whether it is on never change together: no update, and
\* no putting back, switches a rule that is there (rules.rs:464, "`enabled`
\* surviving is the point of doing it this way").
SwitchIsTheOperators ==
    [][\A p \in Policies, e \in Ext :
          rows[p][e] # None /\ rows'[p][e] # None =>
              rows[p][e].text = rows'[p][e].text \/ rows[p][e].on = rows'[p][e].on]_vars

\* A site loses its policy only by being saved without one (policy.rs:1008,
\* "deleting a policy in use silently unsets it on every site that had it").
SiteKeepsItsPolicy == [][site # None => site' # None]_vars

\* With updates applied by themselves, what a policy holds becomes what the
\* channel offers, every rule of it, an update cut off in the middle included;
\* but not a set that somebody is putting back for ever, or one written for a
\* newer EasyWAF.
CatchesUp ==
    left.auto => <>[](\A p \in policies, s \in Sets :
        held[p][s] > 0 /\ <<p, s>> \notin tangled /\ <<s, published[s]>> \notin Newer =>
            held[p][s] = published[s] /\ IsVersion(p, s, published[s]))

\* A policy copied into a new one holds the same rules (policy.rs, "Copy
\* everything one policy holds into another, newly created one").
CopiedWhole == \A p \in policies, e \in Ext : rows[p][e] # None => rows[p][e].whole
=============================================================================
