---------------------------- MODULE ConfigCache ----------------------------
(***************************************************************************)
(* The caches of configuration that every request reads: a site's rules    *)
(* (modules/waf.rs) and country rules (modules/geoip.rs) in a PerSite, the *)
(* site table (proxy/mod.rs) and the IP lists (iplist.rs), all invalidated *)
(* by one counter that database triggers move (modules/generation.rs).     *)
(*                                                                         *)
(* An entry is made from several tables, read one query at a time, with no *)
(* transaction around them.  A row is abstracted to the number of writes   *)
(* its table has had, the published lists to the number of reloads, and    *)
(* time to the age of the last look at the counter.                        *)
(***************************************************************************)
EXTENDS Integers, Sequences

CONSTANTS
    Tasks,         \* requests being answered at once
    Sites,         \* keys of the cache: sites, or one key for a whole table
    Parts,         \* tables an entry is read from, 1 .. Parts, in this order
    MaxAge,        \* MAX_AGE, in ticks
    KeepsFailures, \* whether a query that fails counts as no rows (waf, iplist)
                   \* or ends the load (site_table)
    MaxWrites,     \* bound on the writes to the tables
    MaxPublished,  \* bound on the reloads of the published lists
    MaxErrors      \* bound on the queries that fail

ASSUME BoundsAssumption ==
    /\ Parts \in Nat \ {0} /\ MaxAge \in Nat \ {0} /\ KeepsFailures \in BOOLEAN
    /\ MaxWrites \in Nat /\ MaxPublished \in Nat /\ MaxErrors \in Nat

VARIABLES
    generations, \* the tables as of every generation so far
    feeds,     \* the version of the published lists held in memory
    seen,      \* SEEN: the generation last read, and how long ago
    cache,     \* the entries, and the generation and version they were read at
    task,      \* what each request does next
    errors     \* queries that have failed

cacheVars == <<generations, feeds, seen, cache, task, errors>>

Never == -1      \* no look at the counter yet
Lost == -1       \* what a query that failed left in an entry
NoEntry == [rows |-> <<>>, data |-> 0]

\* The counter: the triggers move it with every write.
Generation == Len(generations) - 1
Tables == generations[Len(generations)]
TablesAt(g) == generations[g + 1]

Rows == [1 .. Parts -> Lost .. MaxWrites]
Entry == [rows : Rows, data : 0 .. MaxPublished]
Stamp == [generation : 0 .. MaxWrites, version : 0 .. MaxPublished]

Idle == [step |-> "idle"]

Task ==
    {Idle}
    \cup [step : {"read"}, site : Sites]
    \cup [step : {"set"}, site : Sites, read : Lost .. MaxWrites]
    \cup [step : {"look"}, site : Sites, stamp : Stamp]
    \cup [step : {"load"}, site : Sites, stamp : Stamp, rows : UNION {[1 .. n -> Lost .. MaxWrites] : n \in 0 .. Parts}]
    \cup [step : {"put"}, site : Sites, stamp : Stamp, entry : Entry]

\* Every variable holds a value of its shape, and nothing is seen or held of a
\* generation that has not been.
CacheTypeOK ==
    /\ generations \in Seq([1 .. Parts -> 0 .. MaxWrites])
    /\ Generation \in 0 .. MaxWrites
    /\ feeds \in 0 .. MaxPublished
    /\ seen.value \in 0 .. Generation
    /\ seen.checked \in Never .. MaxAge
    /\ cache.stamp.generation \in 0 .. Generation
    /\ cache.stamp.version \in 0 .. feeds
    /\ cache.entries \in [Sites -> Entry \cup {NoEntry}]
    /\ task \in [Tasks -> Task]
    /\ errors \in 0 .. MaxErrors

CacheInit ==
    /\ generations = << [p \in 1 .. Parts |-> 0] >>
    /\ feeds = 0
    /\ seen = [value |-> 0, checked |-> Never]
    /\ cache = [stamp |-> [generation |-> 0, version |-> 0],
                entries |-> [s \in Sites |-> NoEntry]]
    /\ task = [t \in Tasks |-> Idle]
    /\ errors = 0

-----------------------------------------------------------------------------
(* Around the requests.                                                      *)

\* A handler writes a row, and the trigger moves the counter in the statement.
Write(p) ==
    /\ Generation < MaxWrites
    /\ generations' = Append(generations, [Tables EXCEPT ![p] = @ + 1])
    /\ UNCHANGED <<feeds, seen, cache, task, errors>>

\* set_feed_data: the mirror was read again, which moves no counter.
ReloadFeeds ==
    /\ feeds < MaxPublished
    /\ feeds' = feeds + 1
    /\ UNCHANGED <<generations, seen, cache, task, errors>>

Tick ==
    /\ seen.checked \in 0 .. MaxAge - 1
    /\ seen' = [seen EXCEPT !.checked = @ + 1]
    /\ UNCHANGED <<generations, feeds, cache, task, errors>>

-----------------------------------------------------------------------------
(* A request.                                                                *)

Goto(t, next) == task' = [task EXCEPT ![t] = next]

TaskAt(t, step) == task[t].step = step

Fails == errors < MaxErrors /\ errors' = errors + 1

Look(site, generation) ==
    [step |-> "look", site |-> site,
     stamp |-> [generation |-> generation, version |-> feeds]]

\* current(), under its lock: young enough, or claimed and read.  The very
\* first read is not claimed.
Ask(t, site) ==
    /\ task[t] = Idle
    /\ \/ /\ seen.checked \in 0 .. MaxAge - 1
          /\ Goto(t, Look(site, seen.value))
          /\ UNCHANGED seen
       \/ /\ seen.checked \notin 0 .. MaxAge - 1
          /\ Goto(t, [step |-> "read", site |-> site])
          /\ seen' = IF seen.checked = Never THEN seen ELSE [seen EXCEPT !.checked = 0]
    /\ UNCHANGED <<generations, feeds, cache, errors>>

\* The lock is not held while the counter is read.
ReadGeneration(t) ==
    /\ TaskAt(t, "read")
    /\ \/ /\ Goto(t, [step |-> "set", site |-> task[t].site, read |-> Generation])
          /\ UNCHANGED errors
       \/ /\ Fails
          /\ Goto(t, [step |-> "set", site |-> task[t].site, read |-> Lost])
    /\ UNCHANGED <<generations, feeds, seen, cache>>

\* A read that failed keeps the last value, and counts as a check all the same.
SetSeen(t) ==
    /\ TaskAt(t, "set")
    /\ LET value == IF task[t].read = Lost THEN seen.value ELSE task[t].read
       IN /\ seen' = [value |-> value, checked |-> 0]
          /\ Goto(t, Look(task[t].site, value))
    /\ UNCHANGED <<generations, feeds, cache, errors>>

\* Wrong on purpose: an entry is served for ever.
Served_AtAnyStamp(site, stamp) == cache.entries[site] # NoEntry

\* get: an entry is served only under the stamp it was stored at.
Served(site, stamp) == cache.stamp = stamp /\ cache.entries[site] # NoEntry

LookUp(t) ==
    /\ TaskAt(t, "look")
    /\ Goto(t, IF Served(task[t].site, task[t].stamp) THEN Idle
               ELSE [step |-> "load", site |-> task[t].site, stamp |-> task[t].stamp,
                     rows |-> <<>>])
    /\ UNCHANGED <<generations, feeds, seen, cache, errors>>

\* The next table is read.
LoadPart(t) ==
    /\ TaskAt(t, "load")
    /\ Len(task[t].rows) < Parts
    /\ Goto(t, [task[t] EXCEPT !.rows = Append(@, Tables[Len(@) + 1])])
    /\ UNCHANGED <<generations, feeds, seen, cache, errors>>

\* Or its query fails, which is no rows, or the end of the load.
LoadFails(t) ==
    /\ TaskAt(t, "load")
    /\ Len(task[t].rows) < Parts
    /\ Fails
    /\ Goto(t, IF KeepsFailures THEN [task[t] EXCEPT !.rows = Append(@, Lost)] ELSE Idle)
    /\ UNCHANGED <<generations, feeds, seen, cache>>

\* The published lists, read last.
LoadData(t) ==
    /\ TaskAt(t, "load")
    /\ Len(task[t].rows) = Parts
    /\ Goto(t, [step |-> "put", site |-> task[t].site, stamp |-> task[t].stamp,
                entry |-> [rows |-> task[t].rows, data |-> feeds]])
    /\ UNCHANGED <<generations, feeds, seen, cache, errors>>

\* The older stamp is the one of the older generation, then of the older version.
Later(a, b) ==
    \/ a.generation > b.generation
    \/ a.generation = b.generation /\ a.version > b.version

\* Wrong on purpose: what is read is filed under the generation as it is now.
Put_UnderSeen(t) ==
    /\ TaskAt(t, "put")
    /\ cache' = [stamp |-> [task[t].stamp EXCEPT !.generation = seen.value],
                 entries |-> [s \in Sites |-> IF s = task[t].site THEN task[t].entry
                              ELSE IF seen.value = cache.stamp.generation THEN cache.entries[s]
                              ELSE NoEntry]]
    /\ Goto(t, Idle)
    /\ UNCHANGED <<generations, feeds, seen, errors>>

\* put: a newer stamp forgets every entry, an equal one replaces this one, and
\* an older one is not kept.
Put(t) ==
    /\ TaskAt(t, "put")
    /\ LET this == task[t].stamp
           kept == IF Later(this, cache.stamp) THEN [s \in Sites |-> NoEntry] ELSE cache.entries
       IN cache' = IF Later(cache.stamp, this) THEN cache
                   ELSE [stamp |-> this,
                         entries |-> [kept EXCEPT ![task[t].site] = task[t].entry]]
    /\ Goto(t, Idle)
    /\ UNCHANGED <<generations, feeds, seen, errors>>

-----------------------------------------------------------------------------

\* What a request does by itself once it has begun.
GoOn(t) ==
    \/ ReadGeneration(t) \/ SetSeen(t) \/ LookUp(t)
    \/ LoadPart(t) \/ LoadFails(t) \/ LoadData(t) \/ Put(t)

CacheNext ==
    \/ \E p \in 1 .. Parts : Write(p)
    \/ ReloadFeeds
    \/ Tick
    \/ \E t \in Tasks : GoOn(t) \/ \E s \in Sites : Ask(t, s)

CacheSpec == CacheInit /\ [][CacheNext]_cacheVars

\* Time passes, a request goes on until it is answered, and requests for a site
\* keep coming.
CacheFairSpec ==
    /\ CacheSpec
    /\ WF_cacheVars(Tick)
    /\ \A t \in Tasks : WF_cacheVars(GoOn(t)) /\ \A s \in Sites : SF_cacheVars(Ask(t, s))

-----------------------------------------------------------------------------
(* Properties.                                                               *)

\* An entry holds nothing older than the stamp it is served under: the
\* generation is read before the rows (WafModule::snapshot, "Reading in the
\* other order could file rows from before a write under the number from after
\* it").  A part whose query failed is none of its business.
NeverOlderThanItsStamp ==
    \A s \in Sites : cache.entries[s] # NoEntry =>
        LET e == cache.entries[s]
        IN /\ \A p \in 1 .. Parts :
                e.rows[p] = Lost \/ e.rows[p] >= TablesAt(cache.stamp.generation)[p]
           /\ e.data >= cache.stamp.version

\* The cache never goes back to an older generation (put, "A value read at an
\* older generation than the cache already holds is returned but not kept").
StampNeverGoesBack == [][~Later(cache.stamp, cache.stamp')]_cacheVars

\* A slow read does not put back rows a faster one had already seen changed
\* (site_table and policy_lists say so of themselves).
NothingPutBack ==
    [][\A s \in Sites :
         cache.entries[s] # NoEntry /\ cache'.entries[s] # NoEntry =>
           \A p \in 1 .. Parts : cache'.entries[s].rows[p] >= cache.entries[s].rows[p]]_cacheVars

\* What an entry is made of describes one moment (SiteSnapshot, "read together
\* so the three always describe the same moment").
OneMoment ==
    \A s \in Sites : cache.entries[s] # NoEntry =>
        \E g \in 0 .. Generation : cache.entries[s].rows = TablesAt(g)

\* Once nobody writes any more, what is served is what is stored, for good: no
\* lost race leaves a stale entry behind.  A part whose query failed is missing
\* from it, where that counts as no rows.
SettlesFresh ==
    <>[](\A s \in Sites :
            /\ cache.entries[s] # NoEntry
            /\ \A p \in 1 .. Parts : cache.entries[s].rows[p] \in {Tables[p], Lost}
            /\ cache.entries[s].data = feeds)

\* And no failed query leaves its mark: the entry is whole in the end.
SettlesWhole ==
    <>[](\A s \in Sites : cache.entries[s] = [rows |-> Tables, data |-> feeds])
=============================================================================
