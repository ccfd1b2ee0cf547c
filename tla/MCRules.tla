------------------------------- MODULE MCRules -------------------------------
(* Small instances of the rule sets policies hold and of the caches requests read *)
(* rules from: a behaviour is one of them at work.                                 *)
EXTENDS RuleSets, ConfigCache

VARIABLE part

partVars == <<vars, cacheVars, part>>

\* A set whose second version drops a rule and brings one.
OneSet == ("core" :> <<{1, 2}, {2, 3}>>)
NoneNewer == {}

\* An exclusion of a set's rule, one of a rule of one's own, an address on either
\* list, and a published list.
SomeEntries ==
    {[kind |-> "exclusion", of |-> 1, does |-> "skip"], [kind |-> "exclusion", of |-> 11, does |-> "skip"],
     [kind |-> "address", of |-> 21, does |-> "allow"], [kind |-> "address", of |-> 21, does |-> "block"],
     [kind |-> "list", of |-> 31, does |-> "block"]}

Budget(first, auto, acts, edits, faults, stops) ==
    [first |-> first, auto |-> auto, acts |-> acts, edits |-> edits, faults |-> faults, stops |-> stops]
SomeBudgets ==
    {Budget("set", FALSE, 2, 0, 0, 0), Budget("two", FALSE, 0, 3, 0, 0), Budget("two", TRUE, 1, 0, 0, 0),
     Budget("set", TRUE, 1, 0, 0, 1), Budget("set", TRUE, 1, 0, 1, 0), Budget("before sets", TRUE, 0, 1, 0, 2)}

MCInit ==
    /\ part \in {"sets", "caches"}
    /\ Init /\ CacheInit
    /\ part = "caches" => left = CHOOSE budget \in Budgets : TRUE

MCNext ==
    \/ part = "sets" /\ Next /\ UNCHANGED cacheVars
    \/ part = "caches" /\ CacheNext /\ UNCHANGED vars

MCSpec ==
    /\ MCInit /\ [][MCNext /\ UNCHANGED part]_partVars
    /\ WF_vars(part = "sets" /\ TaskSteps) /\ WF_vars(part = "sets" /\ JobStep("admin"))
    /\ WF_cacheVars(part = "caches" /\ Tick)
    /\ \A t \in Tasks : /\ WF_cacheVars(part = "caches" /\ GoOn(t))
                        /\ \A s \in Sites : SF_cacheVars(part = "caches" /\ Ask(t, s))

\* The two that say what happens in the end, of the part that is at work: a policy
\* catches up with the sets it holds (rules_update.rs), and a cache with what is
\* stored (generation.rs).
SetsCatchUp == part = "sets" => CatchesUp
CachesSettle == part = "caches" => SettlesFresh

\* That no failed query leaves its mark on a cache (iplist.rs).
CachesSettleWhole == part = "caches" => SettlesWhole
=============================================================================
