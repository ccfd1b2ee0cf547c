---------------------------- MODULE Rules_proofs ----------------------------
(***************************************************************************)
(* What holds, for any number of requests, sites, sets, rules, tables and  *)
(* writes, of the rule sets an administrator keeps and of the caches the   *)
(* configuration is served from.                                           *)
(*                                                                         *)
(* The caches: an entry is never older than the stamp it is served under,  *)
(* and the stamp never goes back.  The argument follows a load from its    *)
(* first look at the counter: no stamp in flight is of a generation yet to *)
(* come, and every table read under it was read at that generation or a    *)
(* later one.                                                              *)
(*                                                                         *)
(* The rule sets: a switch an administrator set is left by every other     *)
(* writer (Inv: the shape of the tables, of the jobs, and of what the      *)
(* first thing of each job will write), and a holding at rest carries      *)
(* every rule of the version it names (Sound: what a job alone at a        *)
(* holding has already written or taken out, what was kept to undo it, and *)
(* that two jobs at one holding are known of).                             *)
(***************************************************************************)
EXTENDS RuleSets, ConfigCache, SequenceTheorems, FiniteSetTheorems, TLAPS

-----------------------------------------------------------------------------
(* The inductive invariant.                                                  *)

\* The triggers move the counter with every write (migrations, the generation
\* triggers), so a table has had at most as many writes as the counter has moved,
\* and no generation takes one back.
History ==
    /\ generations \in Seq([1 .. Parts -> Nat])
    /\ Generation \in 0 .. MaxWrites
    /\ \A g \in 0 .. Generation, p \in 1 .. Parts : TablesAt(g)[p] \in 0 .. g
    /\ \A g, h \in 0 .. Generation, p \in 1 .. Parts : g <= h => TablesAt(g)[p] <= TablesAt(h)[p]

\* What was looked at is not of a generation, or of lists, yet to come.
Past(stamp) == stamp.generation \in 0 .. Generation /\ stamp.version \in 0 .. feeds

\* Rows read since a stamp's generation: the first n tables are of it or later.
Since(got, n, stamp) ==
    \A p \in 1 .. n : got[p] = Lost \/ got[p] >= TablesAt(stamp.generation)[p]

\* What a request carries was read after the stamp it carries.
InOrder(k) ==
    /\ k.step = "set" => k.read \in Lost .. Generation
    /\ k.step \in {"look", "load", "put"} => Past(k.stamp)
    /\ k.step = "load" => Since(k.rows, Len(k.rows), k.stamp)
    /\ k.step = "put" => Since(k.entry.rows, Parts, k.stamp) /\ k.entry.data >= k.stamp.version

\* What is kept was read after the stamp it is kept under.
KeptInOrder ==
    \A s \in Sites : cache.entries[s] # NoEntry =>
        /\ Since(cache.entries[s].rows, Parts, cache.stamp)
        /\ cache.entries[s].data >= cache.stamp.version

CacheInv ==
    /\ History
    /\ feeds \in 0 .. MaxPublished
    /\ seen \in [value : 0 .. Generation, checked : Never .. MaxAge]
    /\ cache \in [stamp : Stamp, entries : [Sites -> Entry \cup {NoEntry}]]
    /\ Past(cache.stamp)
    /\ task \in [Tasks -> Task]
    /\ errors \in 0 .. MaxErrors
    /\ \A t \in Tasks : InOrder(task[t])
    /\ KeptInOrder

-----------------------------------------------------------------------------
(* Shapes.                                                                   *)

\* What has been read of an entry so far.
Partly == UNION {[1 .. n -> Lost .. MaxWrites] : n \in 0 .. Parts}

\* Reading one table more (waf.rs, snapshot).
LEMMA ReadOneMore ==
  ASSUME NEW got \in Partly
  PROVE  /\ got \in Seq(Lost .. MaxWrites) /\ Len(got) \in 0 .. Parts
         /\ Len(got) = Parts => got \in Rows
         /\ \A x \in Lost .. MaxWrites : Len(got) < Parts =>
              /\ Append(got, x) \in Partly
              /\ Len(Append(got, x)) = Len(got) + 1
              /\ Append(got, x)[Len(got) + 1] = x
              /\ \A p \in 1 .. Len(got) : Append(got, x)[p] = got[p]
<1> DEFINE S == Lost .. MaxWrites
<1>1. PICK n \in 0 .. Parts : got \in [1 .. n -> S]
  BY DEF Partly
<1>2. got \in Seq(S) /\ Len(got) = n
  <2>1. n \in Nat
    BY BoundsAssumption
  <2>2. got \in Seq(S)
    BY <1>1, <2>1, SeqDef, Zenon
  <2>3. Len(got) \in Nat /\ 1 .. Len(got) = 1 .. n
    BY <1>1, <2>2, LenProperties
  <2> QED
    BY <2>1, <2>2, <2>3
<1>3. ASSUME NEW x \in S, n < Parts
      PROVE  /\ Append(got, x) \in [1 .. n + 1 -> S]
             /\ Len(Append(got, x)) = n + 1
             /\ Append(got, x)[n + 1] = x
             /\ \A p \in 1 .. n : Append(got, x)[p] = got[p]
  <2>1. /\ Append(got, x) \in Seq(S) /\ Len(Append(got, x)) = n + 1
        /\ Append(got, x)[n + 1] = x
        /\ \A p \in 1 .. n : Append(got, x)[p] = got[p]
    BY <1>2, <1>3, AppendProperties
  <2> QED
    BY <2>1, LenProperties
<1>4. n < Parts => n + 1 \in 0 .. Parts
  BY <1>1, BoundsAssumption
<1> QED
  BY <1>1, <1>2, <1>3, <1>4 DEF Partly, Rows

\* Before a load has read a table it has read nothing, and nothing is no entry.
LEMMA NothingRead ==
  <<>> \in Partly /\ Len(<<>>) = 0 /\ \A e \in Entry : e # NoEntry
<1>1. <<>> \in [1 .. 0 -> Lost .. MaxWrites]
  BY EmptySeq, LenProperties
<1>2. <<>> \in Partly
  BY <1>1, BoundsAssumption DEF Partly
<1>3. ASSUME NEW e \in Entry, e = NoEntry PROVE FALSE
  <2>1. e.rows \in Rows /\ e.rows = <<>>
    BY <1>3 DEF Entry, NoEntry
  <2>2. Len(e.rows) = Parts
    BY <2>1, BoundsAssumption, SeqDef, LenProperties DEF Rows
  <2> QED
    BY <2>1, <2>2, BoundsAssumption
<1> QED
  BY <1>2, <1>3

\* What the steps of a request keep of it is a request.
LEMMA TasksWritten ==
  /\ Idle \in Task
  /\ \A s \in Sites :
       /\ [step |-> "read", site |-> s] \in Task
       /\ \A x \in Lost .. MaxWrites : [step |-> "set", site |-> s, read |-> x] \in Task
       /\ \A m \in Stamp :
            /\ [step |-> "look", site |-> s, stamp |-> m] \in Task
            /\ \A got \in Partly : [step |-> "load", site |-> s, stamp |-> m, rows |-> got] \in Task
            /\ \A e \in Entry : [step |-> "put", site |-> s, stamp |-> m, entry |-> e] \in Task
BY DEF Task, Partly, Idle

\* What a request that loads an entry keeps between two queries.
LEMMA TasksRead ==
  ASSUME NEW k \in Task
  PROVE  /\ k.step \in {"read", "set", "look", "load", "put"} => k.site \in Sites
         /\ k.step = "set" => k.read \in Lost .. MaxWrites
         /\ k.step \in {"look", "load", "put"} => k.stamp \in Stamp
         /\ k.step = "load" =>
              /\ k.rows \in Partly
              /\ \A got \in Partly : 
                   [k EXCEPT !.rows = got] =
                   [step |-> "load", site |-> k.site, stamp |-> k.stamp, rows |-> got]
         /\ k.step = "put" => k.entry \in Entry
<1> DEFINE Reads == [step : {"read"}, site : Sites]
           Marks == [step : {"set"}, site : Sites, read : Lost .. MaxWrites]
           Looks == [step : {"look"}, site : Sites, stamp : Stamp]
           Loads == [step : {"load"}, site : Sites, stamp : Stamp, rows : Partly]
           Puts == [step : {"put"}, site : Sites, stamp : Stamp, entry : Entry]
<1>1. CASE k = Idle
  BY <1>1 DEF Idle
<1>2. CASE k \in Reads
  BY <1>2
<1>3. CASE k \in Marks
  BY <1>3
<1>4. CASE k \in Looks
  BY <1>4
<1>5. CASE k \in Loads
  BY <1>5
<1>6. CASE k \in Puts
  BY <1>6
<1> QED
  BY <1>1, <1>2, <1>3, <1>4, <1>5, <1>6, Zenon DEF Task, Partly

-----------------------------------------------------------------------------
(* The tables.                                                               *)

\* A write takes nothing back of the generations there were.
LEMMA WriteAdds ==
  ASSUME History, NEW p \in 1 .. Parts, Write(p)
  PROVE  /\ History'
         /\ Generation' = Generation + 1
         /\ \A g \in 0 .. Generation : TablesAt(g)' = TablesAt(g)
<1>0. PICK n \in Nat : n = Len(generations)
  BY LenProperties DEF History
<1> DEFINE new == [Tables EXCEPT ![p] = Tables[p] + 1]
<1>1. /\ generations \in Seq([1 .. Parts -> Nat]) /\ n = Len(generations) /\ n >= 1 /\ Generation = n - 1
      /\ Generation < MaxWrites /\ generations' = Append(generations, new)
  BY <1>0, BoundsAssumption DEF History, Generation, Write, Tables
<1>2. Tables \in [1 .. Parts -> Nat] /\ new \in [1 .. Parts -> Nat] /\ Tables = TablesAt(Generation)
  <2>1. Tables = TablesAt(Generation)
    BY <1>1 DEF Tables, TablesAt, Generation
  <2>2. Tables \in [1 .. Parts -> Nat]
    BY <1>1, ElementOfSeq DEF Tables
  <2> QED
    BY <2>1, <2>2
<1>3. /\ generations' \in Seq([1 .. Parts -> Nat]) /\ Len(generations') = n + 1
      /\ Generation' = n
      /\ \A g \in 0 .. Generation : TablesAt(g)' = TablesAt(g)
      /\ TablesAt(n)' = new
  <2>1. /\ generations' \in Seq([1 .. Parts -> Nat]) /\ Len(generations') = n + 1
        /\ \A i \in 1 .. n : generations'[i] = generations[i]
        /\ generations'[n + 1] = new
    BY <1>1, <1>2, AppendProperties
  <2>2. Generation' = n
    BY <1>1, <2>1 DEF Generation
  <2>3. \A g \in 0 .. Generation : TablesAt(g)' = TablesAt(g)
    BY <1>1, <2>1 DEF TablesAt
  <2>4. TablesAt(n)' = new
    BY <1>1, <2>1 DEF TablesAt
  <2> QED
    BY <2>1, <2>2, <2>3, <2>4
<1>4. ASSUME NEW q \in 1 .. Parts
      PROVE  new[q] \in 0 .. n /\ new[q] >= Tables[q] /\ Tables[q] \in 0 .. Generation
  <2>1. Tables[q] \in 0 .. Generation
    BY <1>1, <1>2 DEF History
  <2>2. new[q] = IF q = p THEN Tables[q] + 1 ELSE Tables[q]
    BY <1>2
  <2> QED
    BY <1>1, <2>1, <2>2
<1>5. ASSUME NEW g \in 0 .. n, NEW q \in 1 .. Parts
      PROVE  /\ g = n => TablesAt(g)'[q] = new[q]
             /\ g # n => TablesAt(g)'[q] = TablesAt(g)[q] /\ g \in 0 .. Generation
             /\ TablesAt(g)'[q] \in 0 .. g
  <2>1. CASE g = n
    BY <1>3, <1>4, <2>1
  <2>2. CASE g # n
    <3>1. g \in 0 .. Generation
      BY <1>1, <2>2
    <3> QED
      BY <1>3, <2>2, <3>1 DEF History
  <2> QED
    BY <2>1, <2>2
<1>6. ASSUME NEW g \in 0 .. n, NEW h \in 0 .. n, g <= h, NEW q \in 1 .. Parts
      PROVE  TablesAt(g)'[q] <= TablesAt(h)'[q]
  <2>1. CASE h # n
    <3>1. g # n
      BY <1>6, <2>1
    <3> QED
      BY <1>5, <1>6, <2>1, <3>1 DEF History
  <2>2. CASE h = n /\ g = n
    BY <1>5, <2>2
  <2>3. CASE h = n /\ g # n
    <3>1. TablesAt(g)'[q] = TablesAt(g)[q] /\ g \in 0 .. Generation /\ TablesAt(h)'[q] = new[q]
      BY <1>5, <2>3
    <3>2. TablesAt(g)[q] <= Tables[q] /\ TablesAt(g)[q] \in 0 .. g
      <4>1. Generation \in 0 .. Generation /\ g <= Generation
        BY <1>1, <3>1
      <4>2. TablesAt(g)[q] <= TablesAt(Generation)[q] /\ TablesAt(g)[q] \in 0 .. g
        BY <3>1, <4>1 DEF History
      <4> QED
        BY <1>2, <4>2
    <3> QED
      BY <1>1, <1>4, <3>1, <3>2
  <2> QED
    BY <2>1, <2>2, <2>3
<1>7. Generation' \in 0 .. MaxWrites
  BY <1>1, <1>3, BoundsAssumption
<1> QED
  BY <1>1, <1>3, <1>5, <1>6, <1>7 DEF History

\* The generations and the published lists go on, and keep what was.
Ahead ==
    /\ History'
    /\ Generation <= Generation' /\ Generation \in Nat /\ Generation' \in Nat
    /\ \A g \in 0 .. Generation : TablesAt(g)' = TablesAt(g)
    /\ feeds' \in 0 .. MaxPublished /\ feeds <= feeds'

\* Every step adds to history or leaves it: the generation (config_generation, moved by
\* the triggers) and the published version only grow, and what was stays as it was.
LEMMA GoesOnward ==
  ASSUME CacheInv, [CacheNext]_cacheVars
  PROVE  Ahead
<1>1. /\ History /\ Generation \in Nat /\ feeds \in 0 .. MaxPublished
  BY BoundsAssumption DEF CacheInv, History
<1>2. ASSUME NEW p \in 1 .. Parts, Write(p) PROVE Ahead
  BY <1>1, <1>2, WriteAdds DEF Write, Ahead
<1>3. CASE ReloadFeeds
  BY <1>1, <1>3, BoundsAssumption DEF ReloadFeeds, Ahead, History, Generation, TablesAt
<1>4. CASE UNCHANGED <<generations, feeds>>
  BY <1>1, <1>4, BoundsAssumption DEF Ahead, History, Generation, TablesAt
<1> QED
  BY <1>2, <1>3, <1>4, Zenon
  DEF CacheNext, GoOn, Tick, Ask, ReadGeneration, SetSeen, LookUp, LoadPart, LoadFails, LoadData,
      Put, cacheVars

\* What is in order stays in order.
LEMMA StaysInOrder ==
  ASSUME CacheInv, Ahead
  PROVE  /\ \A m : Past(m) => Past(m)'
         /\ \A got, n, m : Past(m) /\ Since(got, n, m) => Since(got, n, m)'
         /\ \A k \in Task : InOrder(k) => InOrder(k)'
<1>1. \A m : Past(m) => Past(m)'
  BY BoundsAssumption DEF Ahead, Past, CacheInv
<1>2. \A got, n, m : Past(m) /\ Since(got, n, m) => Since(got, n, m)'
  BY DEF Ahead, Past, Since
<1>3. ASSUME NEW k \in Task, InOrder(k) PROVE InOrder(k)'
  <2>1. k.step = "set" => k.read \in Lost .. Generation'
    BY <1>3 DEF InOrder, Ahead, Lost
  <2> QED
    BY <1>1, <1>2, <1>3, <2>1 DEF InOrder
<1> QED
  BY <1>1, <1>2, <1>3

\* Each step of a request, of a write and of a reload keeps CacheInv.
LEMMA CacheStep == CacheInv /\ [CacheNext]_cacheVars => CacheInv'
<1> SUFFICES ASSUME CacheInv, [CacheNext]_cacheVars PROVE CacheInv'
  OBVIOUS
<1>o. Ahead
  BY GoesOnward
<1>t. /\ History /\ feeds \in 0 .. MaxPublished /\ Generation \in 0 .. MaxWrites
      /\ seen \in [value : 0 .. Generation, checked : Never .. MaxAge]
      /\ cache \in [stamp : Stamp, entries : [Sites -> Entry \cup {NoEntry}]]
      /\ Past(cache.stamp)
      /\ task \in [Tasks -> Task]
      /\ errors \in 0 .. MaxErrors
      /\ \A t \in Tasks : InOrder(task[t])
      /\ KeptInOrder
  BY BoundsAssumption DEF CacheInv, History
\* What the requests carry.
<1>g. ASSUME NEW t \in Tasks, NEW k \in Task, Goto(t, k), InOrder(k)
      PROVE  task' \in [Tasks -> Task] /\ \A u \in Tasks : InOrder(task[u])'
  <2>1. \A u \in Tasks : task'[u] \in Task /\ InOrder(task'[u])
    BY <1>g, <1>t DEF Goto
  <2>2. \A j \in Task : InOrder(j) => InOrder(j)'
    BY <1>o, StaysInOrder
  <2>3. task' \in [Tasks -> Task]
    BY <1>g, <1>t DEF Goto
  <2> QED
    BY <2>1, <2>2, <2>3 DEF InOrder
<1>u. ASSUME UNCHANGED task
      PROVE  task' \in [Tasks -> Task] /\ \A u \in Tasks : InOrder(task[u])'
  BY <1>u, <1>t, <1>o, StaysInOrder DEF InOrder
\* What was looked at.
<1>s. ASSUME UNCHANGED seen \/ \E c \in Never .. MaxAge : seen' = [seen EXCEPT !.checked = c]
      PROVE  seen' \in [value : 0 .. Generation', checked : Never .. MaxAge]
  <2>1. 0 .. Generation \subseteq 0 .. Generation'
    BY <1>o DEF Ahead
  <2> QED
    BY <1>s, <1>t, <2>1
\* What is kept.
<1>c. ASSUME UNCHANGED cache
      PROVE  /\ cache' \in [stamp : Stamp, entries : [Sites -> Entry \cup {NoEntry}]]
             /\ Past(cache.stamp)' /\ KeptInOrder'
  <2>1. Past(cache.stamp)'
    BY <1>c, <1>t, <1>o, StaysInOrder DEF Past
  <2>2. ASSUME NEW e \in Sites, cache'.entries[e] # NoEntry
        PROVE  /\ Since(cache.entries[e].rows, Parts, cache.stamp)'
               /\ cache'.entries[e].data >= cache'.stamp.version
    <3>1. Since(cache.entries[e].rows, Parts, cache.stamp)
      BY <1>c, <1>t, <2>2 DEF KeptInOrder
    <3>2. \A got, n, m : Past(m) /\ Since(got, n, m) => Since(got, n, m)'
      BY <1>o, StaysInOrder
    <3> QED
      BY <1>c, <1>t, <2>2, <3>1, <3>2 DEF KeptInOrder, Since
  <2> QED
    BY <1>c, <1>t, <2>1, <2>2 DEF KeptInOrder
<1>j. ASSUME /\ task' \in [Tasks -> Task] /\ \A u \in Tasks : InOrder(task[u])'
             /\ seen' \in [value : 0 .. Generation', checked : Never .. MaxAge]
             /\ cache' \in [stamp : Stamp, entries : [Sites -> Entry \cup {NoEntry}]]
             /\ Past(cache.stamp)' /\ KeptInOrder'
             /\ errors' \in 0 .. MaxErrors
      PROVE  CacheInv'
  BY <1>j, <1>o DEF CacheInv, Ahead
<1>f. ASSUME Fails PROVE errors' \in 0 .. MaxErrors
  BY <1>f, <1>t, BoundsAssumption DEF Fails
<1>1. ASSUME NEW p \in 1 .. Parts, Write(p) PROVE CacheInv'
  BY <1>1, <1>t, <1>u, <1>s, <1>c, <1>j DEF Write
<1>2. CASE ReloadFeeds
  BY <1>2, <1>t, <1>u, <1>s, <1>c, <1>j DEF ReloadFeeds
<1>3. CASE Tick
  <2>1. seen.checked + 1 \in Never .. MaxAge
    BY <1>3, BoundsAssumption DEF Tick, Never
  <2>2. seen' = [seen EXCEPT !.checked = seen.checked + 1]
    BY <1>3 DEF Tick
  <2> QED
    BY <1>3, <2>1, <2>2, <1>t, <1>u, <1>s, <1>c, <1>j DEF Tick
<1>l. ASSUME NEW at \in Sites, NEW g \in 0 .. Generation
      PROVE  Look(at, g) \in Task /\ InOrder(Look(at, g))
  <2>1. [generation |-> g, version |-> feeds] \in Stamp
    BY <1>t, BoundsAssumption DEF Stamp
  <2>2. Past([generation |-> g, version |-> feeds])
    BY <1>t DEF Past
  <2> QED
    BY <2>1, <2>2, TasksWritten DEF Look, InOrder
<1>4. ASSUME NEW t \in Tasks, NEW at \in Sites, Ask(t, at) PROVE CacheInv'
  <2>1. CASE seen.checked \in 0 .. MaxAge - 1 /\ Goto(t, Look(at, seen.value)) /\ UNCHANGED seen
    <3>1. Look(at, seen.value) \in Task /\ InOrder(Look(at, seen.value))
      BY <1>t, <1>l
    <3> QED
      BY <1>4, <2>1, <3>1, <1>t, <1>g, <1>s, <1>c, <1>j DEF Ask
  <2>2. CASE /\ Goto(t, [step |-> "read", site |-> at])
             /\ seen' = IF seen.checked = Never THEN seen ELSE [seen EXCEPT !.checked = 0]
    <3>1. [step |-> "read", site |-> at] \in Task /\ InOrder([step |-> "read", site |-> at])
      BY TasksWritten DEF InOrder
    <3>2. 0 \in Never .. MaxAge
      BY BoundsAssumption DEF Never
    <3> QED
      BY <1>4, <2>2, <3>1, <3>2, <1>t, <1>g, <1>s, <1>c, <1>j DEF Ask
  <2> QED
    BY <1>4, <2>1, <2>2 DEF Ask
<1>5. ASSUME NEW t \in Tasks, ReadGeneration(t) PROVE CacheInv'
  <2>1. task[t] \in Task /\ task[t].site \in Sites
    BY <1>5, <1>t, TasksRead DEF ReadGeneration, TaskAt
  <2>2. PICK x \in {Generation, Lost} : Goto(t, [step |-> "set", site |-> task[t].site, read |-> x])
    BY <1>5 DEF ReadGeneration
  <2>3. x \in Lost .. MaxWrites /\ x \in Lost .. Generation
    BY <1>t, BoundsAssumption DEF History, Lost
  <2>4. /\ [step |-> "set", site |-> task[t].site, read |-> x] \in Task
        /\ InOrder([step |-> "set", site |-> task[t].site, read |-> x])
    BY <2>1, <2>3, TasksWritten DEF InOrder
  <2>5. errors' \in 0 .. MaxErrors
    BY <1>5, <1>t, <1>f DEF ReadGeneration
  <2> QED
    BY <1>5, <2>2, <2>4, <2>5, <1>g, <1>s, <1>c, <1>j DEF ReadGeneration
<1>6. ASSUME NEW t \in Tasks, SetSeen(t) PROVE CacheInv'
  <2> DEFINE value == IF task[t].read = Lost THEN seen.value ELSE task[t].read
  <2>1. task[t] \in Task /\ task[t].site \in Sites /\ InOrder(task[t]) /\ task[t].step = "set"
    BY <1>6, <1>t, TasksRead DEF SetSeen, TaskAt
  <2>2. value \in 0 .. Generation
    BY <1>t, <2>1 DEF InOrder, Lost
  <2>3. Look(task[t].site, value) \in Task /\ InOrder(Look(task[t].site, value))
    BY <2>1, <2>2, <1>l
  <2>4. seen' = [value |-> value, checked |-> 0] /\ Goto(t, Look(task[t].site, value))
    BY <1>6 DEF SetSeen
  <2>5. seen' \in [value : 0 .. Generation', checked : Never .. MaxAge]
    <3>1. value \in 0 .. Generation'
      BY <2>2, <1>o DEF Ahead
    <3>2. 0 \in Never .. MaxAge
      BY BoundsAssumption DEF Never
    <3> QED
      BY <2>4, <3>1, <3>2
  <2> QED
    BY <1>6, <2>3, <2>4, <2>5, <1>t, <1>g, <1>c, <1>j DEF SetSeen
<1>7. ASSUME NEW t \in Tasks, LookUp(t) PROVE CacheInv'
  <2> DEFINE load == [step |-> "load", site |-> task[t].site, stamp |-> task[t].stamp, rows |-> <<>>]
  <2>1. /\ task[t] \in Task /\ task[t].site \in Sites /\ task[t].stamp \in Stamp
        /\ InOrder(task[t]) /\ task[t].step = "look"
    BY <1>7, <1>t, TasksRead DEF LookUp, TaskAt
  <2>2. load \in Task /\ Idle \in Task
    BY <2>1, TasksWritten, NothingRead
  <2>3. InOrder(load) /\ InOrder(Idle)
    BY <2>1, NothingRead DEF InOrder, Since, Idle
  <2>4. Goto(t, load) \/ Goto(t, Idle)
    BY <1>7 DEF LookUp
  <2> QED
    BY <1>7, <2>2, <2>3, <2>4, <1>t, <1>g, <1>s, <1>c, <1>j DEF LookUp
\* One more table, or nothing of it.
<1>m. ASSUME NEW t \in Tasks, task[t].step = "load", Len(task[t].rows) < Parts,
             NEW x \in Lost .. MaxWrites,
             x = Lost \/ x = Tables[Len(task[t].rows) + 1]
      PROVE  LET next == [task[t] EXCEPT !.rows = Append(task[t].rows, x)]
             IN  next \in Task /\ InOrder(next)
  <2> DEFINE k == task[t]
             got == Append(k.rows, x)
             next == [step |-> "load", site |-> k.site, stamp |-> k.stamp, rows |-> got]
  <2>1. /\ k \in Task /\ k.site \in Sites /\ k.stamp \in Stamp /\ k.rows \in Partly
        /\ Past(k.stamp) /\ Since(k.rows, Len(k.rows), k.stamp)
    BY <1>m, <1>t, TasksRead DEF InOrder
  <2>2. /\ got \in Partly /\ Len(got) = Len(k.rows) + 1 /\ Len(k.rows) \in Nat
        /\ got[Len(k.rows) + 1] = x
        /\ \A p \in 1 .. Len(k.rows) : got[p] = k.rows[p]
    BY <1>m, <2>1, ReadOneMore
  <2>3. [k EXCEPT !.rows = got] = next
    BY <1>m, <2>1, <2>2, TasksRead
  <2>4. next \in Task
    BY <2>1, <2>2, TasksWritten
  <2>5. Since(got, Len(got), k.stamp)
    <3>1. ASSUME x # Lost PROVE x >= TablesAt(k.stamp.generation)[Len(k.rows) + 1]
      <4>0. Len(generations) \in Nat
        BY <1>t, LenProperties DEF History
      <4>1. /\ Len(k.rows) + 1 \in 1 .. Parts
            /\ k.stamp.generation \in 0 .. Generation /\ Generation \in 0 .. Generation
            /\ k.stamp.generation <= Generation
        <5>1. Len(k.rows) + 1 \in 1 .. Parts
          BY <1>m, <2>2, BoundsAssumption
        <5>2. k.stamp.generation \in 0 .. Generation /\ Generation \in Int
          BY <2>1, <4>0 DEF Past, Generation
        <5> QED
          BY ONLY <5>1, <5>2
      <4>3. Tables = TablesAt(Generation)
        BY <4>0 DEF Tables, TablesAt, Generation
      <4>2. /\ TablesAt(k.stamp.generation)[Len(k.rows) + 1] <= TablesAt(Generation)[Len(k.rows) + 1]
            /\ TablesAt(k.stamp.generation)[Len(k.rows) + 1] \in 0 .. k.stamp.generation
        BY <1>t, <4>1 DEF History
      <4> QED
        BY <1>m, <1>t, <3>1, <4>1, <4>2, <4>3
    <3> QED
      BY <2>1, <2>2, <3>1 DEF Since
  <2> QED
    BY <2>2, <2>3, <2>4, <2>5, <2>1 DEF InOrder
<1>8. ASSUME NEW t \in Tasks, LoadPart(t) PROVE CacheInv'
  <2> DEFINE x == Tables[Len(task[t].rows) + 1]
             next == [task[t] EXCEPT !.rows = Append(task[t].rows, x)]
  <2>1. task[t].step = "load" /\ Len(task[t].rows) < Parts /\ Goto(t, next)
    BY <1>8, Zenon DEF LoadPart, TaskAt
  <2>2. x \in Lost .. MaxWrites
    <3>1. Tables = TablesAt(Generation) /\ Generation \in 0 .. Generation
      BY <1>t, LenProperties, BoundsAssumption DEF Tables, TablesAt, Generation, History
    <3>2. Len(task[t].rows) + 1 \in 1 .. Parts
      BY <1>t, <2>1, TasksRead, ReadOneMore, BoundsAssumption
    <3>3. x \in 0 .. Generation
      BY <1>t, <3>1, <3>2 DEF History
    <3> QED
      BY <1>t, <3>3, BoundsAssumption DEF Lost
  <2>3. next \in Task /\ InOrder(next)
    BY <2>1, <2>2, <1>m
  <2> QED
    BY <1>8, <2>1, <2>3, <1>t, <1>g, <1>s, <1>c, <1>j DEF LoadPart
<1>9. ASSUME NEW t \in Tasks, LoadFails(t) PROVE CacheInv'
  <2> DEFINE next == [task[t] EXCEPT !.rows = Append(task[t].rows, Lost)]
  <2>1. /\ task[t].step = "load" /\ Len(task[t].rows) < Parts
        /\ Goto(t, IF KeepsFailures THEN next ELSE Idle)
    BY <1>9, Zenon DEF LoadFails, TaskAt
  <2>2. Lost \in Lost .. MaxWrites
    BY BoundsAssumption DEF Lost
  <2>3. next \in Task /\ InOrder(next)
    BY <2>1, <2>2, <1>m
  <2>4. Idle \in Task /\ InOrder(Idle)
    BY TasksWritten DEF InOrder, Idle
  <2>5. task' \in [Tasks -> Task] /\ \A u \in Tasks : InOrder(task[u])'
    BY <2>1, <2>3, <2>4, <1>g
  <2> QED
    BY <1>9, <2>5, <1>f, <1>s, <1>c, <1>j DEF LoadFails
<1>10. ASSUME NEW t \in Tasks, LoadData(t) PROVE CacheInv'
  <2> DEFINE k == task[t]
             e == [rows |-> k.rows, data |-> feeds]
             next == [step |-> "put", site |-> k.site, stamp |-> k.stamp, entry |-> e]
  <2>1. k.step = "load" /\ Len(k.rows) = Parts /\ Goto(t, next)
    BY <1>10, Zenon DEF LoadData, TaskAt
  <2>2. /\ k.site \in Sites /\ k.stamp \in Stamp /\ k.rows \in Rows
        /\ Past(k.stamp) /\ Since(k.rows, Parts, k.stamp)
    BY <2>1, <1>t, TasksRead, ReadOneMore DEF InOrder
  <2>3. e \in Entry /\ feeds >= k.stamp.version
    BY <2>2, <1>t, BoundsAssumption DEF Entry, Past
  <2>4. next \in Task
    BY <2>2, <2>3, TasksWritten
  <2>5. InOrder(next)
    BY <2>2, <2>3 DEF InOrder
  <2> QED
    BY <1>10, <2>1, <2>4, <2>5, <1>t, <1>g, <1>s, <1>c, <1>j DEF LoadData
<1>11. ASSUME NEW t \in Tasks, Put(t) PROVE CacheInv'
  <2> DEFINE k == task[t]
             this == k.stamp
             kept == IF Later(this, cache.stamp) THEN [s \in Sites |-> NoEntry] ELSE cache.entries
             all == [kept EXCEPT ![k.site] = k.entry]
  <2>1. /\ k.step = "put" /\ k.site \in Sites /\ this \in Stamp /\ k.entry \in Entry
        /\ Past(this) /\ Since(k.entry.rows, Parts, this) /\ k.entry.data >= this.version
    BY <1>11, <1>t, TasksRead DEF Put, TaskAt, InOrder
  <2>2. task' \in [Tasks -> Task] /\ \A u \in Tasks : InOrder(task[u])'
    BY <1>11, <1>g, TasksWritten DEF Put, InOrder, Idle
  <2>3. CASE Later(cache.stamp, this)
    <3>1. UNCHANGED cache
      BY <1>11, <2>3 DEF Put
    <3> QED
      BY <1>11, <2>2, <3>1, <1>t, <1>s, <1>c, <1>j DEF Put
  <2>4. CASE ~Later(cache.stamp, this)
    <3>1. cache' = [stamp |-> this, entries |-> all]
      BY <1>11, <2>4, Zenon DEF Put
    <3>2. kept \in [Sites -> Entry \cup {NoEntry}]
      BY <1>t
    <3>3. all \in [Sites -> Entry \cup {NoEntry}] /\ all[k.site] = k.entry
          /\ \A s \in Sites : s # k.site => all[s] = kept[s]
      BY <2>1, <3>2
    <3>4. cache' \in [stamp : Stamp, entries : [Sites -> Entry \cup {NoEntry}]]
      BY <2>1, <3>1, <3>3
    <3>5. \A got, n, m : Past(m) => Past(m)' /\ (Since(got, n, m) => Since(got, n, m)')
      BY <1>o, StaysInOrder
    <3>6. Past(cache.stamp)'
      BY <2>1, <3>1, <3>5 DEF Past
    <3>7. ASSUME NEW s \in Sites, all[s] # NoEntry
          PROVE  Since(all[s].rows, Parts, this) /\ all[s].data >= this.version
      <4>1. CASE s = k.site
        BY <2>1, <3>3, <4>1
      <4>2. CASE s # k.site
        <5>1. ~Later(this, cache.stamp) /\ all[s] = cache.entries[s]
          BY <3>3, <3>7, <4>2
        <5>2. this = cache.stamp
          BY <1>t, <2>1, <2>4, <5>1, BoundsAssumption DEF Later, Stamp
        <5> QED
          BY <1>t, <3>7, <5>1, <5>2 DEF KeptInOrder
      <4> QED
        BY <4>1, <4>2
    <3>8. ASSUME NEW s \in Sites, cache'.entries[s] # NoEntry
          PROVE  /\ Since(cache.entries[s].rows, Parts, cache.stamp)'
                 /\ cache'.entries[s].data >= cache'.stamp.version
      <4>1. cache'.entries[s] = all[s] /\ cache'.stamp = this
        BY <3>1
      <4>2. Since(all[s].rows, Parts, this) /\ all[s].data >= this.version
        BY <3>7, <3>8, <4>1
      <4> QED
        BY <2>1, <3>5, <4>1, <4>2 DEF Since
    <3>9. KeptInOrder'
      BY <3>8 DEF KeptInOrder
    <3> QED
      BY <1>11, <2>2, <3>4, <3>6, <3>9, <1>t, <1>s, <1>j DEF Put
  <2> QED
    BY <2>3, <2>4
<1>12. CASE UNCHANGED cacheVars
  BY <1>12, <1>t, <1>u, <1>s, <1>c, <1>j DEF cacheVars
<1> QED
  BY <1>1, <1>2, <1>3, <1>4, <1>5, <1>6, <1>7, <1>8, <1>9, <1>10, <1>11, <1>12 DEF CacheNext, GoOn

\* A service that has just started has an empty cache under generation 0.
LEMMA CacheStart == CacheInit => CacheInv
<1> SUFFICES ASSUME CacheInit PROVE CacheInv
  OBVIOUS
<1> DEFINE first == [p \in 1 .. Parts |-> 0]
<1>1. /\ generations = <<first>> /\ first \in [1 .. Parts -> Nat] /\ feeds = 0 /\ errors = 0
      /\ seen = [value |-> 0, checked |-> Never]
      /\ cache.stamp = [generation |-> 0, version |-> 0]
      /\ \A s \in Sites : cache.entries[s] = NoEntry
      /\ cache.entries \in [Sites -> {NoEntry}]
      /\ \A t \in Tasks : task[t] = Idle
  BY DEF CacheInit
<1>2. generations \in Seq([1 .. Parts -> Nat]) /\ Len(generations) = 1 /\ generations[1] = first
  BY <1>1
<1>3. Generation = 0 /\ TablesAt(0) = first
  BY <1>2 DEF Generation, TablesAt
<1>4. History
  BY <1>2, <1>3, BoundsAssumption DEF History
<1>5. cache.stamp \in Stamp /\ Past(cache.stamp)
  BY <1>1, <1>3, BoundsAssumption DEF Stamp, Past
<1>6. cache \in [stamp : Stamp, entries : [Sites -> Entry \cup {NoEntry}]]
  BY <1>1, <1>5 DEF CacheInit
<1>7. seen \in [value : 0 .. Generation, checked : Never .. MaxAge]
  BY <1>1, <1>3, BoundsAssumption DEF Never
<1>8. task \in [Tasks -> Task] /\ \A t \in Tasks : InOrder(task[t])
  BY <1>1, TasksWritten DEF CacheInit, InOrder, Idle
<1> QED
  BY <1>1, <1>4, <1>5, <1>6, <1>7, <1>8, BoundsAssumption DEF CacheInv, KeptInOrder

\* In every reachable state CacheInv holds: what a load has read so far is no older than the
\* stamp it will be stored under (PerSite in modules/generation.rs).
THEOREM CacheKnown == CacheSpec => []CacheInv
BY CacheStart, CacheStep, PTL DEF CacheSpec

\* The types of ConfigCache, and that nothing is seen or kept of a generation, or of
\* published lists, yet to come (modules/generation.rs, iplist.rs).
THEOREM CacheTypeCorrect == CacheSpec => []CacheTypeOK
<1>1. CacheInv => CacheTypeOK
  <2> SUFFICES ASSUME CacheInv PROVE CacheTypeOK
    OBVIOUS
  <2>1. generations \in Seq([1 .. Parts -> 0 .. MaxWrites])
    <3>1. /\ generations \in Seq([1 .. Parts -> Nat]) /\ Len(generations) \in Nat
          /\ Generation = Len(generations) - 1 /\ Generation \in 0 .. MaxWrites
      BY LenProperties DEF CacheInv, History, Generation
    <3>2. ASSUME NEW i \in 1 .. Len(generations)
          PROVE  generations[i] \in [1 .. Parts -> 0 .. MaxWrites]
      <4>1. /\ generations[i] \in [1 .. Parts -> Nat] /\ i - 1 \in 0 .. Generation
            /\ generations[i] = TablesAt(i - 1)
        BY <3>1, ElementOfSeq DEF TablesAt
      <4>2. \A p \in 1 .. Parts : generations[i][p] \in 0 .. i - 1
        BY <4>1 DEF CacheInv, History
      <4>3. ASSUME NEW p \in 1 .. Parts PROVE generations[i][p] \in 0 .. MaxWrites
        <5>1. generations[i][p] \in 0 .. i - 1 /\ i - 1 <= MaxWrites /\ i \in Int
          BY <3>1, <4>2, BoundsAssumption
        <5> QED
          BY <5>1, BoundsAssumption
      <4> QED
        BY <4>1, <4>3
    <3>3. generations \in [1 .. Len(generations) -> [1 .. Parts -> 0 .. MaxWrites]]
      BY <3>1, <3>2, LenProperties
    <3>4. \E n \in Nat : generations \in [1 .. n -> [1 .. Parts -> 0 .. MaxWrites]]
      BY <3>1, <3>3, Zenon
    <3> QED
      BY <3>4, SeqDef, Zenon
  <2>2. /\ cache.stamp.generation \in 0 .. Generation /\ cache.stamp.version \in 0 .. feeds
        /\ seen.value \in 0 .. Generation /\ seen.checked \in Never .. MaxAge
        /\ cache.entries \in [Sites -> Entry \cup {NoEntry}]
        /\ Generation \in 0 .. MaxWrites
    BY DEF CacheInv, Past, History
  <2> QED
    BY <2>1, <2>2 DEF CacheInv, CacheTypeOK
<1> QED
  BY <1>1, CacheKnown, PTL

\* An entry holds nothing older than the stamp it is served under, whatever is written
\* while it is loaded (waf.rs, snapshot: the counter is read before the rows).
THEOREM NeverOlder == CacheSpec => []NeverOlderThanItsStamp
<1>1. CacheInv => NeverOlderThanItsStamp
  BY DEF CacheInv, KeptInOrder, Since, NeverOlderThanItsStamp
<1> QED
  BY <1>1, CacheKnown, PTL

\* However late a slow load puts what it read, the cache does not go back to an older
\* generation or to older lists (per_site.rs, put).
THEOREM NeverBack == CacheSpec => StampNeverGoesBack
<1>1. ASSUME CacheInv, [CacheNext]_cacheVars PROVE ~Later(cache.stamp, cache.stamp')
  <2>1. cache.stamp \in Stamp /\ cache.stamp.generation \in Nat /\ cache.stamp.version \in Nat
    BY <1>1 DEF CacheInv, Stamp
  <2>2. CASE UNCHANGED cache
    BY <2>1, <2>2 DEF Later
  <2>3. ASSUME NEW t \in Tasks, Put(t) PROVE ~Later(cache.stamp, cache.stamp')
    <3>1. cache' = cache \/ (cache.stamp' = task[t].stamp /\ ~Later(cache.stamp, task[t].stamp))
      BY <2>3 DEF Put
    <3> QED
      BY <2>2, <3>1
  <2> QED
    BY <1>1, <2>2, <2>3, Zenon
    DEF CacheNext, GoOn, Write, ReloadFeeds, Tick, Ask, ReadGeneration, SetSeen, LookUp, LoadPart,
        LoadFails, LoadData, cacheVars
<1>2. CacheInv /\ [CacheNext]_cacheVars => [~Later(cache.stamp, cache.stamp')]_cacheVars
  BY <1>1
<1> QED
  BY <1>2, CacheKnown, PTL DEF CacheSpec, StampNeverGoesBack

-----------------------------------------------------------------------------
(* What a job may hold.  A thing to do has a form of its own; what waits behind *)
(* the first thing is never half done.                                          *)

Copying == {"copy_rules", "copy_sets", "copy_entries"}
ByHand == {"tick", "untick", "switch_on", "drop"}
Restoring == {"restore", "sweep_back", "put_back", "forget"}
Plain == {"check", "mirror", "automatic", "apply", "enter", "attach", "delete"}
Deeds == Plain \cup Updating \cup Undoing \cup Booting \cup ByHand \cup Copying
Waiting == {"mirror", "automatic", "apply", "tick", "untick", "enter", "attach", "backfill", "purge"}

Does == [task |-> {"check", "mirror", "automatic", "apply"} \cup Updating \cup Booting,
         admin |-> {"apply", "enter", "attach", "delete"} \cup ByHand \cup Updating \cup Undoing \cup Copying]

Thing == [do : Deeds, policy : Policies \cup {None}, set : Sets \cup {None}, version : Nat,
          rest : SUBSET (Holdings \cup Policies \cup Ext \cup Entries)]

OfHolding(t) == t.policy \in Policies /\ t.set \in Sets
OfVersion(t) == OfHolding(t) /\ t.version \in 1..Latest(t.set)

ThingFits(t) ==
    /\ t.do \in {"apply", "backfill"} => t.rest \in SUBSET Holdings /\ t.rest # {}
    /\ t.do \in Undoing => OfHolding(t)
    /\ t.do \in Updating \cup {"claim", "adopt"} => OfVersion(t)
    /\ t.do = "snapshot" => t.rest = File[t.set][t.version]
    /\ t.do \in {"rule", "claim"} => t.rest \in SUBSET File[t.set][t.version] /\ t.rest # {}
    /\ t.do \in {"sweep", "record", "sweep_back", "put_back", "forget", "adopt"} => t.rest = {}
    /\ t.do \in ByHand => t.policy \in Policies
    /\ t.do \in ByHand \cup {"restore"} => t.rest \in SUBSET Ext /\ t.rest # {}
    /\ t.do \in Copying => t.policy \in Policies /\ \E from \in Policies \ {t.policy} : t.rest = {from}
    /\ t.do \in {"enter", "attach", "delete"} => t.policy \in Policies

Things(w) == {t \in Thing : t.do \in Does[w] /\ ThingFits(t)}
Queued(w) == {t \in Things(w) : t.do \in Waiting}

JobsFit ==
    /\ job \in [Workers -> Seq(Thing)]
    /\ \A w \in Workers : job[w] # <<>> => This(w) \in Things(w) /\ Tail(job[w]) \in Seq(Queued(w))

\* What is done at a start is done before anything else.
Boots == {t \in Thing : t.do \in Booting}
BootsAlone ==
    \/ job["task"] \in Seq(Thing \ Boots)
    \/ job["task"] \in Seq(Boots) /\ job["admin"] = <<>>

JobsInv == JobsFit /\ BootsAlone

Turned(t, do, rest) == [t EXCEPT !.do = do, !.rest = rest]
Elsewhere(w) == \A x \in Workers \ {w} : job'[x] = job[x]

\* Nothing is left to do of a policy that nothing was left to do of.
Without(p) == {t \in Thing : p \notin Concerned(t)}
KeepsOff(w) == \A p \in Policies : job[w] \in Seq(Without(p)) => job'[w] \in Seq(Without(p))

\* A worker's first thing becomes another, or it is done and what waits is next.
Puts(w, n, q) == job' = [job EXCEPT ![w] = <<n>> \o q]
Heads(w, n) == JobsInv' /\ job'[w] # <<>> /\ This(w)' = n /\ Elsewhere(w)
Rests(w) == JobsInv' /\ Elsewhere(w) /\ (job'[w] = <<>> \/ This(w)' \in Queued(w))
Goes(w, n) == Heads(w, n) /\ KeepsOff(w)
Stops(w) == Rests(w) /\ KeepsOff(w)

\* What is put in a job may be there: nothing of a start but after a stop.
Allowed(w, n, q) ==
    \/ /\ job["task"] \in Seq(Thing \ Boots)
       /\ n \notin Boots /\ q \in Seq(Thing \ Boots)
    \/ /\ job["admin"] = <<>> /\ w = "task"
       /\ n \in Boots /\ q \in Seq(Boots)

\* The files of two sets have no number in common, and each is among its set's.
LEMMA OfVersions ==
    ASSUME NEW s \in Sets, NEW v \in 1..Latest(s)
    PROVE  File[s][v] \subseteq RulesOf(s) /\ RulesOf(s) \subseteq Ext /\ File[s][v] # {}
BY RuleSetsAssumption, Z3 DEF RulesOf

\* A thing put in front of a sequence: its head, and the rest.
LEMMA PutInFront ==
    ASSUME NEW S, NEW q \in Seq(S), NEW n \in S
    PROVE  /\ <<n>> \o q \in Seq(S) /\ <<n>> \o q # <<>>
           /\ Head(<<n>> \o q) = n /\ Tail(<<n>> \o q) = q
<1>1. <<n>> \in Seq(S) /\ Len(<<n>>) = 1 /\ <<n>>[1] = n  OBVIOUS
<1>2. /\ <<n>> \o q \in Seq(S) /\ Len(<<n>> \o q) = 1 + Len(q)
      /\ (<<n>> \o q)[1] = n
  BY <1>1, LenProperties
<1>3. <<n>> \o q # <<>> BY <1>2, LenProperties
<1>4. Head(<<n>> \o q) = n BY <1>2, <1>3
<1>5. Tail(<<n>> \o q) = q
  <2>1. Tail(<<n>> \o q) \in Seq(S) /\ Len(Tail(<<n>> \o q)) = Len(q)
    BY <1>2, <1>3, HeadTailProperties, LenProperties
  <2>2. \A i \in 1..Len(q) : Tail(<<n>> \o q)[i] = (<<n>> \o q)[i + 1]
    BY <1>2, <1>3, HeadTailProperties, LenProperties
  <2>3. \A i \in 1..Len(q) : (<<n>> \o q)[i + 1] = q[i]
    BY <1>1, LenProperties
  <2> QED BY <2>1, <2>2, <2>3, SeqEqual
<1> QED BY <1>2, <1>3, <1>4, <1>5

\* The head and the tail of a sequence over a set are of the set.
LEMMA Rest ==
    ASSUME NEW S, NEW q \in Seq(S), q # <<>>
    PROVE  Head(q) \in S /\ Tail(q) \in Seq(S)
BY HeadTailProperties

\* A sequence over a set is one over any that contains it.
LEMMA Wider ==
    ASSUME NEW S, NEW T, S \subseteq T, NEW q \in Seq(S)
    PROVE  q \in Seq(T)
<1>1. q \in [1..Len(q) -> T] BY ElementOfSeq, LenProperties
<1> QED BY <1>1, SeqDef, LenProperties

\* What a worker may do, and what may wait, are things to do.
LEMMA ThingsAre ==
    ASSUME NEW w \in Workers
    PROVE  Things(w) \subseteq Thing /\ Queued(w) \subseteq Things(w) /\ Queued(w) \subseteq Thing
BY DEF Things, Queued

\* A thing turned into another keeps what it is of.
LEMMA TurnedIs ==
    ASSUME NEW t \in Thing, NEW do \in Deeds, NEW rest \in SUBSET t.rest
    PROVE  /\ Turned(t, do, rest) \in Thing
           /\ Turned(t, do, rest).do = do /\ Turned(t, do, rest).rest = rest
           /\ Turned(t, do, rest).policy = t.policy /\ Turned(t, do, rest).set = t.set
           /\ Turned(t, do, rest).version = t.version
BY DEF Thing, Turned

\* A job keeps its form with a thing put in front of what waits.
LEMMA PutHeads ==
    ASSUME JobsInv, NEW w \in Workers, NEW n \in Things(w), NEW q \in Seq(Queued(w)), Puts(w, n, q),
           Allowed(w, n, q)
    PROVE  Heads(w, n)
<1>1. job \in [Workers -> Seq(Thing)] BY DEF JobsInv, JobsFit
<1>2. q \in Seq(Thing) BY ThingsAre, Wider
<1>3. n \in Thing BY ThingsAre
<1>4. /\ <<n>> \o q \in Seq(Thing) /\ <<n>> \o q # <<>>
      /\ Head(<<n>> \o q) = n /\ Tail(<<n>> \o q) = q
  BY <1>2, <1>3, PutInFront
<1>5. job'[w] = <<n>> \o q /\ Elsewhere(w) /\ job' \in [Workers -> Seq(Thing)]
  BY <1>1, <1>4 DEF Puts, Elsewhere
<1>6. JobsFit'
  <2>1. ASSUME NEW x \in Workers, job'[x] # <<>>
        PROVE  Head(job'[x]) \in Things(x) /\ Tail(job'[x]) \in Seq(Queued(x))
    <3>1. CASE x = w BY <3>1, <1>4, <1>5
    <3>2. CASE x # w BY <3>2, <2>1, <1>5 DEF Elsewhere, JobsInv, JobsFit, This
    <3> QED BY <3>1, <3>2
  <2> QED BY <2>1, <1>5 DEF JobsFit, This, Things, Queued
<1>7. BootsAlone'
  <2>1. CASE w = "task"
    <3>1. "admin" \in Workers /\ "admin" # w BY <2>1 DEF Workers
    <3>2. job'["admin"] = job["admin"] BY <3>1, <1>5 DEF Elsewhere
    <3>3. CASE n \notin Boots /\ q \in Seq(Thing \ Boots)
      <4>3. <<n>> \o q \in Seq(Thing \ Boots) BY <3>3, <1>3, PutInFront
      <4> QED BY <4>3, <1>5, <2>1 DEF BootsAlone
    <3>4. CASE n \in Boots /\ q \in Seq(Boots) /\ job["admin"] = <<>>
      <4>3. <<n>> \o q \in Seq(Boots) BY <3>4, PutInFront
      <4> QED BY <4>3, <1>5, <2>1, <3>2, <3>4 DEF BootsAlone
    <3> QED BY <3>3, <3>4, <2>1 DEF Allowed
  <2>2. CASE w = "admin"
    <3>1. "task" \in Workers /\ "task" # w BY <2>2 DEF Workers
    <3>2. job'["task"] = job["task"] BY <3>1, <1>5 DEF Elsewhere
    <3>3. job["task"] \in Seq(Thing \ Boots) BY <2>2 DEF Allowed
    <3> QED BY <3>2, <3>3 DEF BootsAlone
  <2> QED BY <2>1, <2>2 DEF Workers
<1> QED BY <1>4, <1>5, <1>6, <1>7 DEF Heads, JobsInv, This

\* What waits may be there as the first thing may.
LEMMA TailAllowed ==
    ASSUME JobsInv, NEW w \in Workers, job[w] # <<>>, NEW n \in Things(w), n \in Boots <=> This(w) \in Boots
    PROVE  Allowed(w, n, Tail(job[w]))
<1>1. job \in [Workers -> Seq(Thing)] /\ n \in Thing BY ThingsAre DEF JobsInv, JobsFit
<1>2. CASE w = "task"
  <2>1. job[w] \in Seq(Thing \ Boots) => This(w) \notin Boots /\ Tail(job[w]) \in Seq(Thing \ Boots) BY Rest DEF This
  <2>2. job[w] \in Seq(Boots) => This(w) \in Boots /\ Tail(job[w]) \in Seq(Boots) BY Rest DEF This
  <2> QED BY <1>2, <2>1, <2>2 DEF JobsInv, BootsAlone, Allowed
<1>3. CASE w = "admin"
  <2>1. job["task"] \in Seq(Thing \ Boots) BY <1>3 DEF JobsInv, BootsAlone
  <2>2. \A t \in Things(w) : t \notin Boots
    BY <1>3 DEF Things, Boots, Does, Booting, Updating, Undoing, Copying, ByHand
  <2>3. Queued(w) \subseteq Thing \ Boots BY <2>2, ThingsAre
  <2>4. Tail(job[w]) \in Seq(Queued(w)) BY DEF JobsInv, JobsFit
  <2>5. Tail(job[w]) \in Seq(Thing \ Boots) BY <2>3, <2>4, Wider
  <2> QED BY <2>1, <2>2, <2>5 DEF Allowed
<1> QED BY <1>2, <1>3 DEF Workers

\* The first thing becomes one that concerns no other policy.
LEMMA BecomesGoes ==
    ASSUME JobsInv, NEW w \in Workers, job[w] # <<>>, NEW n \in Things(w), Puts(w, n, Tail(job[w])),
           n \in Boots <=> This(w) \in Boots, Concerned(n) \subseteq Concerned(This(w))
    PROVE  Goes(w, n)
<1> DEFINE q == Tail(job[w])
<1>1. q \in Seq(Queued(w)) /\ job \in [Workers -> Seq(Thing)] BY DEF JobsInv, JobsFit
<1>2. n \in Thing BY ThingsAre
<1>3. job'[w] = <<n>> \o q BY <1>1 DEF Puts
<1>4. ASSUME NEW p \in Policies, job[w] \in Seq(Without(p))
      PROVE  job'[w] \in Seq(Without(p))
  <2>1. This(w) \in Without(p) /\ q \in Seq(Without(p)) BY <1>4, Rest DEF This
  <2>2. n \in Without(p) BY <2>1, <1>2 DEF Without
  <2> HIDE DEF q
  <2>3. <<n>> \o q \in Seq(Without(p)) BY <2>1, <2>2, PutInFront
  <2> QED BY <2>3, <1>3
<1>5. Heads(w, n) BY <1>1, TailAllowed, PutHeads
<1> QED BY <1>4, <1>5 DEF Goes, KeepsOff

\* What may wait, and nothing before it.
AllowedToWait(w, q) ==
    \/ job["task"] \in Seq(Thing \ Boots) /\ q \in Seq(Thing \ Boots)
    \/ job["admin"] = <<>> /\ w = "task" /\ q \in Seq(Boots)

\* With only what waits left in it, a job rests.
LEMMA LeftRests ==
    ASSUME JobsInv, NEW w \in Workers, NEW q \in Seq(Queued(w)), job' = [job EXCEPT ![w] = q],
           AllowedToWait(w, q)
    PROVE  Rests(w)
<1>1. job \in [Workers -> Seq(Thing)] BY DEF JobsInv, JobsFit
<1>2. q \in Seq(Thing) BY ThingsAre, Wider
<1>5. job'[w] = q /\ Elsewhere(w) /\ job' \in [Workers -> Seq(Thing)]
  BY <1>1, <1>2 DEF Elsewhere
<1>3. q # <<>> => Head(q) \in Queued(w) /\ Tail(q) \in Seq(Queued(w)) BY Rest
<1>6. JobsFit'
  <2>1. ASSUME NEW x \in Workers, job'[x] # <<>>
        PROVE  Head(job'[x]) \in Things(x) /\ Tail(job'[x]) \in Seq(Queued(x))
    <3>1. CASE x = w BY <3>1, <2>1, <1>3, <1>5, ThingsAre
    <3>2. CASE x # w BY <3>2, <2>1, <1>5 DEF Elsewhere, JobsInv, JobsFit, This
    <3> QED BY <3>1, <3>2
  <2> QED BY <2>1, <1>5 DEF JobsFit, This, Things, Queued
<1>7. BootsAlone'
  <2>1. CASE w = "task"
    <3>1. "admin" \in Workers /\ "admin" # w BY <2>1 DEF Workers
    <3>2. job'["admin"] = job["admin"] BY <3>1, <1>5 DEF Elsewhere
    <3> QED BY <3>2, <2>1, <1>5 DEF AllowedToWait, BootsAlone
  <2>2. CASE w = "admin"
    <3>1. "task" \in Workers /\ "task" # w BY <2>2 DEF Workers
    <3>2. job'["task"] = job["task"] BY <3>1, <1>5 DEF Elsewhere
    <3>3. job["task"] \in Seq(Thing \ Boots) BY <2>2 DEF AllowedToWait
    <3> QED BY <3>2, <3>3 DEF BootsAlone
  <2> QED BY <2>1, <2>2 DEF Workers
<1> QED BY <1>3, <1>5, <1>6, <1>7 DEF Rests, JobsInv, This

\* Done: the next of what waits.
LEMMA DoneStops ==
    ASSUME JobsInv, NEW w \in Workers, job[w] # <<>>, Done(w)
    PROVE  Stops(w)
<1> DEFINE q == Tail(job[w])
<1>1. q \in Seq(Queued(w)) /\ job \in [Workers -> Seq(Thing)] BY DEF JobsInv, JobsFit
<1>2. job' = [job EXCEPT ![w] = q] /\ job'[w] = q BY <1>1 DEF Done
<1>3. AllowedToWait(w, q)
  <2>1. CASE w = "task"
    <3>1. job[w] \in Seq(Thing \ Boots) => q \in Seq(Thing \ Boots) BY Rest DEF q
    <3>2. job[w] \in Seq(Boots) => q \in Seq(Boots) BY Rest DEF q
    <3> QED BY <3>1, <3>2, <2>1 DEF JobsInv, BootsAlone, AllowedToWait
  <2>2. CASE w = "admin"
    <3>1. This(w) \in Things(w) /\ This(w) \notin Boots
      BY <2>2 DEF JobsInv, JobsFit, Things, Boots, Does, Booting, Updating, Undoing, Copying, ByHand
    <3>2. Allowed(w, This(w), q) BY <3>1, TailAllowed
    <3> QED BY <3>1, <3>2 DEF Allowed, AllowedToWait
  <2> QED BY <2>1, <2>2 DEF Workers
<1>4. KeepsOff(w) BY <1>2, Rest DEF KeepsOff, q
<1> QED BY <1>1, <1>2, <1>3, <1>4, LeftRests DEF Stops


\* A thing turned into what comes next (Turn): the job goes on with it.
LEMMA TurnGoes ==
    ASSUME JobsInv, NEW w \in Workers, job[w] # <<>>, NEW do \in Does[w], NEW rest \in SUBSET This(w).rest,
           ThingFits(Turned(This(w), do, rest)), do \in Booting <=> This(w).do \in Booting,
           do = "apply" => This(w).do = "apply", Turn(w, do, rest)
    PROVE  Goes(w, Turned(This(w), do, rest))
<1> DEFINE n == Turned(This(w), do, rest)
<1>1. job \in [Workers -> Seq(Thing)] /\ This(w) \in Thing /\ This(w) \in Things(w)
  BY ThingsAre DEF JobsInv, JobsFit
<1>2. do \in Deeds
  BY DEF Does, Workers, Deeds, Plain
<1>3. n \in Thing /\ n.do = do /\ n.rest = rest /\ n.policy = This(w).policy BY <1>1, <1>2, TurnedIs
<1>7. Concerned(n) \subseteq Concerned(This(w)) BY <1>3 DEF Concerned
<1>4. n \in Things(w) BY <1>3 DEF Things
<1>5. n \in Boots <=> This(w) \in Boots BY <1>1, <1>3 DEF Boots
<1>6. Puts(w, n, Tail(job[w])) BY <1>1 DEF Turn, Puts, Turned, This
<1> QED BY <1>4, <1>5, <1>6, <1>7, BecomesGoes

\* A statement for each of the rest: the rest of it, or it is done.
LEMMA DoneAfterAllSteps ==
    ASSUME JobsInv, NEW w \in Workers, job[w] # <<>>,
           This(w).do \in {"apply", "backfill", "enter"} \cup ByHand, DoneAfterAll(w)
    PROVE  \/ Stops(w)
           \/ Goes(w, Turned(This(w), This(w).do, Others(w)))
<1> DEFINE t == This(w)
<1>1. t \in Thing /\ t.do \in Does[w] /\ ThingFits(t) BY DEF JobsInv, JobsFit, Things
<1>2. CASE Others(w) = {} BY <1>2, DoneStops DEF DoneAfterAll
<1>3. CASE Others(w) # {}
  <2>1. Others(w) \in SUBSET t.rest BY DEF Others
  <2>2. t.do \in Deeds BY <1>1 DEF Thing
  <2> DEFINE n == Turned(t, t.do, Others(w))
  <2>3. n.do = t.do /\ n.rest = Others(w) /\ n.policy = t.policy BY <1>1, <2>1, <2>2, TurnedIs
  <2> HIDE DEF n
  <2>4. ThingFits(n)
    BY <1>1, <1>3, <2>1, <2>3 DEF ThingFits, Updating, Undoing, Copying, ByHand
  <2> QED BY <1>1, <1>3, <2>1, <2>4, TurnGoes DEF DoneAfterAll, n
<1> QED BY <1>2, <1>3

\* Installing a version of a set: one thing after the other.
LEMMA InstallGoes ==
    ASSUME JobsInv, NEW w \in Workers, job[w] # <<>>, NEW t, t = This(w)
    PROVE  /\ t.do = "snapshot" /\ Onward(w, install_set) => Goes(w, Turned(t, "rule", t.rest))
           /\ t.do = "rule" /\ OnwardAfterAll(w, install_set) =>
                  \/ Others(w) = {} /\ Goes(w, Turned(t, "sweep", {}))
                  \/ Others(w) # {} /\ Goes(w, Turned(t, "rule", Others(w)))
           /\ t.do = "sweep" /\ Onward(w, install_set) => Goes(w, Turned(t, "record", {}))
           /\ t.do = "record" /\ Onward(w, install_set) => Stops(w)
<1>1. t \in Thing /\ t.do \in Does[w] /\ ThingFits(t) BY DEF JobsInv, JobsFit, Things
<1>2. t.do \in Updating => Updating \subseteq Does[w] BY DEF Workers, Does
<1>3. Updating \subseteq Deeds /\ Updating \cap Booting = {} BY DEF Deeds, Updating, Booting
<1>4. Others(w) \subseteq t.rest /\ {} \subseteq t.rest BY DEF Others
<1>5. ASSUME t.do = "snapshot", Onward(w, install_set)
      PROVE  Goes(w, Turned(t, "rule", t.rest))
  <2> DEFINE n == Turned(t, "rule", t.rest)
  <2>1. "rule" \in Updating /\ t.do \in Updating BY <1>5 DEF Updating
  <2>2. n.do = "rule" /\ n.rest = t.rest /\ n.policy = t.policy /\ n.set = t.set /\ n.version = t.version
    BY <1>1, <1>3, <2>1, TurnedIs
  <2> HIDE DEF n
  <2>3. OfVersion(t) /\ t.rest = File[t.set][t.version] BY <1>1, <1>5, <2>1 DEF ThingFits
  <2>4. t.rest # {} BY <2>3, OfVersions DEF OfVersion, OfHolding
  <2>5. ThingFits(n) BY <2>2, <2>3, <2>4 DEF ThingFits, Updating, Undoing, Copying, ByHand, OfVersion, OfHolding
  <2>6. Turn(w, "rule", t.rest) BY <1>5 DEF Onward, install_set
  <2> QED BY <1>2, <1>3, <2>1, <2>5, <2>6, TurnGoes DEF n
<1>6. ASSUME t.do = "rule", OnwardAfterAll(w, install_set)
      PROVE  \/ Others(w) = {} /\ Goes(w, Turned(t, "sweep", {}))
             \/ Others(w) # {} /\ Goes(w, Turned(t, "rule", Others(w)))
  <2>1. {"rule", "sweep"} \subseteq Updating /\ t.do \in Updating BY <1>6 DEF Updating
  <2>2. OfVersion(t) /\ t.rest \in SUBSET File[t.set][t.version] BY <1>1, <1>6, <2>1 DEF ThingFits
  <2>3. CASE Others(w) = {}
    <3> DEFINE n == Turned(t, "sweep", {})
    <3>2. n.do = "sweep" /\ n.rest = {} /\ n.policy = t.policy /\ n.set = t.set /\ n.version = t.version
      BY <1>1, <1>3, <1>4, <2>1, TurnedIs
    <3> HIDE DEF n
    <3>5. ThingFits(n) BY <2>2, <3>2 DEF ThingFits, Updating, Undoing, Copying, ByHand, OfVersion, OfHolding
    <3>6. Turn(w, "sweep", {}) BY <1>6, <2>3 DEF OnwardAfterAll, install_set
    <3> QED BY <1>2, <1>3, <1>4, <2>1, <2>3, <3>5, <3>6, TurnGoes DEF n
  <2>4. CASE Others(w) # {}
    <3> DEFINE n == Turned(t, "rule", Others(w))
    <3>2. n.do = "rule" /\ n.rest = Others(w) /\ n.policy = t.policy /\ n.set = t.set /\ n.version = t.version
      BY <1>1, <1>3, <1>4, <2>1, TurnedIs
    <3> HIDE DEF n
    <3>5. ThingFits(n) BY <1>4, <2>2, <2>4, <3>2 DEF ThingFits, Updating, Undoing, Copying, ByHand, OfVersion, OfHolding
    <3>6. Turn(w, "rule", Others(w)) BY <1>6, <2>4 DEF OnwardAfterAll
    <3> QED BY <1>2, <1>3, <1>4, <2>1, <2>4, <3>5, <3>6, TurnGoes DEF n
  <2> QED BY <2>3, <2>4
<1>7. ASSUME t.do = "sweep", Onward(w, install_set)
      PROVE  Goes(w, Turned(t, "record", {}))
  <2> DEFINE n == Turned(t, "record", {})
  <2>1. "record" \in Updating /\ t.do \in Updating BY <1>7 DEF Updating
  <2>2. n.do = "record" /\ n.rest = {} /\ n.policy = t.policy /\ n.set = t.set /\ n.version = t.version
    BY <1>1, <1>3, <1>4, <2>1, TurnedIs
  <2> HIDE DEF n
  <2>3. OfVersion(t) /\ t.rest = {} BY <1>1, <1>7, <2>1 DEF ThingFits
  <2>5. ThingFits(n) BY <2>2, <2>3 DEF ThingFits, Updating, Undoing, Copying, ByHand, OfVersion, OfHolding
  <2>6. Turn(w, "record", {}) BY <1>7, <2>3 DEF Onward, install_set
  <2> QED BY <1>2, <1>3, <1>4, <2>1, <2>5, <2>6, TurnGoes DEF n
<1>8. ASSUME t.do = "record", Onward(w, install_set) PROVE Stops(w)
  BY <1>8, DoneStops DEF Onward, install_set
<1> QED BY <1>5, <1>6, <1>7, <1>8


\* Putting a version back.
LEMMA RevertGoes ==
    ASSUME JobsInv, NEW w \in Workers, job[w] # <<>>, NEW t, t = This(w)
    PROVE  /\ t.do = "restore" /\ OnwardAfterAll(w, revert_set) =>
                  \/ Others(w) = {} /\ Goes(w, Turned(t, "sweep_back", {}))
                  \/ Others(w) # {} /\ Goes(w, Turned(t, "restore", Others(w)))
           /\ t.do = "sweep_back" /\ Onward(w, revert_set) => Goes(w, Turned(t, "put_back", {}))
           /\ t.do = "put_back" /\ Onward(w, revert_set) => Goes(w, Turned(t, "forget", {}))
           /\ t.do = "forget" /\ Onward(w, revert_set) => Stops(w)
<1>1. t \in Thing /\ t.do \in Does[w] /\ ThingFits(t) BY DEF JobsInv, JobsFit, Things
<1>2. t.do \in Undoing => Undoing \subseteq Does[w] BY <1>1 DEF Workers, Does, Undoing, Updating, Booting
<1>3. Undoing \subseteq Deeds /\ Undoing \cap Booting = {} BY DEF Deeds, Undoing, Booting
<1>4. Others(w) \subseteq t.rest /\ {} \subseteq t.rest BY DEF Others
<1>6. ASSUME t.do = "restore", OnwardAfterAll(w, revert_set)
      PROVE  \/ Others(w) = {} /\ Goes(w, Turned(t, "sweep_back", {}))
             \/ Others(w) # {} /\ Goes(w, Turned(t, "restore", Others(w)))
  <2>1. {"restore", "sweep_back"} \subseteq Undoing /\ t.do \in Undoing BY <1>6 DEF Undoing
  <2>2. OfHolding(t) /\ t.rest \in SUBSET Ext BY <1>1, <1>6, <2>1 DEF ThingFits
  <2>3. CASE Others(w) = {}
    <3> DEFINE n == Turned(t, "sweep_back", {})
    <3>2. n.do = "sweep_back" /\ n.rest = {} /\ n.policy = t.policy /\ n.set = t.set /\ n.version = t.version
      BY <1>1, <1>3, <1>4, <2>1, TurnedIs
    <3> HIDE DEF n
    <3>5. ThingFits(n) BY <2>2, <3>2 DEF ThingFits, Updating, Undoing, Copying, ByHand, OfHolding
    <3>6. Turn(w, "sweep_back", {}) BY <1>6, <2>3 DEF OnwardAfterAll, revert_set
    <3> QED BY <1>2, <1>3, <1>4, <2>1, <2>3, <3>5, <3>6, TurnGoes DEF n
  <2>4. CASE Others(w) # {}
    <3> DEFINE n == Turned(t, "restore", Others(w))
    <3>2. n.do = "restore" /\ n.rest = Others(w) /\ n.policy = t.policy /\ n.set = t.set /\ n.version = t.version
      BY <1>1, <1>3, <1>4, <2>1, TurnedIs
    <3> HIDE DEF n
    <3>5. ThingFits(n) BY <1>4, <2>2, <2>4, <3>2 DEF ThingFits, Updating, Undoing, Copying, ByHand, OfHolding
    <3>6. Turn(w, "restore", Others(w)) BY <1>6, <2>4 DEF OnwardAfterAll
    <3> QED BY <1>2, <1>3, <1>4, <2>1, <2>4, <3>5, <3>6, TurnGoes DEF n
  <2> QED BY <2>3, <2>4
<1>7. ASSUME t.do = "sweep_back", Onward(w, revert_set)
      PROVE  Goes(w, Turned(t, "put_back", {}))
  <2> DEFINE n == Turned(t, "put_back", {})
  <2>1. "put_back" \in Undoing /\ t.do \in Undoing BY <1>7 DEF Undoing
  <2>2. n.do = "put_back" /\ n.rest = {} /\ n.policy = t.policy /\ n.set = t.set /\ n.version = t.version
    BY <1>1, <1>3, <1>4, <2>1, TurnedIs
  <2> HIDE DEF n
  <2>3. OfHolding(t) /\ t.rest = {} BY <1>1, <1>7, <2>1 DEF ThingFits
  <2>5. ThingFits(n) BY <2>2, <2>3 DEF ThingFits, Updating, Undoing, Copying, ByHand, OfHolding
  <2>6. Turn(w, "put_back", {}) BY <1>7, <2>3 DEF Onward, revert_set
  <2> QED BY <1>2, <1>3, <1>4, <2>1, <2>5, <2>6, TurnGoes DEF n
<1>8. ASSUME t.do = "put_back", Onward(w, revert_set)
      PROVE  Goes(w, Turned(t, "forget", {}))
  <2> DEFINE n == Turned(t, "forget", {})
  <2>1. "forget" \in Undoing /\ t.do \in Undoing BY <1>8 DEF Undoing
  <2>2. n.do = "forget" /\ n.rest = {} /\ n.policy = t.policy /\ n.set = t.set /\ n.version = t.version
    BY <1>1, <1>3, <1>4, <2>1, TurnedIs
  <2> HIDE DEF n
  <2>3. OfHolding(t) /\ t.rest = {} BY <1>1, <1>8, <2>1 DEF ThingFits
  <2>5. ThingFits(n) BY <2>2, <2>3 DEF ThingFits, Updating, Undoing, Copying, ByHand, OfHolding
  <2>6. Turn(w, "forget", {}) BY <1>8, <2>3 DEF Onward, revert_set
  <2> QED BY <1>2, <1>3, <1>4, <2>1, <2>5, <2>6, TurnGoes DEF n
<1>9. ASSUME t.do = "forget", Onward(w, revert_set) PROVE Stops(w)
  BY <1>9, DoneStops DEF Onward, revert_set
<1> QED BY <1>6, <1>7, <1>8, <1>9

\* Taking a set out.
LEMMA UninstallGoes ==
    ASSUME JobsInv, NEW w \in Workers, job[w] # <<>>, NEW t, t = This(w)
    PROVE  /\ t.do = "remove" /\ Onward(w, uninstall_set) => Goes(w, Turned(t, "release", t.rest))
           /\ t.do = "release" /\ Onward(w, uninstall_set) => Stops(w)
<1>1. t \in Thing /\ t.do \in Does[w] /\ ThingFits(t) BY DEF JobsInv, JobsFit, Things
<1>2. t.do \in Undoing => Undoing \subseteq Does[w] BY <1>1 DEF Workers, Does, Undoing, Updating, Booting
<1>3. Undoing \subseteq Deeds /\ Undoing \cap Booting = {} BY DEF Deeds, Undoing, Booting
<1>7. ASSUME t.do = "remove", Onward(w, uninstall_set)
      PROVE  Goes(w, Turned(t, "release", t.rest))
  <2> DEFINE n == Turned(t, "release", t.rest)
  <2>1. "release" \in Undoing /\ t.do \in Undoing BY <1>7 DEF Undoing
  <2>2. n.do = "release" /\ n.rest = t.rest /\ n.policy = t.policy /\ n.set = t.set /\ n.version = t.version
    BY <1>1, <1>3, <2>1, TurnedIs
  <2> HIDE DEF n
  <2>3. OfHolding(t) BY <1>1, <1>7, <2>1 DEF ThingFits
  <2>5. ThingFits(n) BY <2>2, <2>3 DEF ThingFits, Updating, Undoing, Copying, ByHand, OfHolding
  <2>6. Turn(w, "release", t.rest) BY <1>7, <2>3 DEF Onward, uninstall_set
  <2> QED BY <1>2, <1>3, <2>1, <2>5, <2>6, TurnGoes DEF n
<1>9. ASSUME t.do = "release", Onward(w, uninstall_set) PROVE Stops(w)
  BY <1>9, DoneStops DEF Onward, uninstall_set
<1> QED BY <1>7, <1>9

\* Copying a policy.
LEMMA CopyGoes ==
    ASSUME JobsInv, NEW w \in Workers, job[w] # <<>>, NEW t, t = This(w)
    PROVE  /\ t.do = "copy_rules" /\ Onward(w, copy_policy) => Goes(w, Turned(t, "copy_sets", t.rest))
           /\ t.do = "copy_sets" /\ Onward(w, copy_policy) => Goes(w, Turned(t, "copy_entries", t.rest))
           /\ t.do = "copy_entries" /\ Onward(w, copy_policy) => Stops(w)
<1>1. t \in Thing /\ t.do \in Does[w] /\ ThingFits(t) BY DEF JobsInv, JobsFit, Things
<1>2. t.do \in Copying => Copying \subseteq Does[w]
  BY <1>1 DEF Workers, Does, Undoing, Updating, Booting, Copying
<1>3. Copying \subseteq Deeds /\ Copying \cap Booting = {} BY DEF Deeds, Copying, Booting
<1>5. ASSUME NEW do \in {"copy_sets", "copy_entries"}, t.do \in Copying, Turn(w, do, t.rest)
      PROVE  Goes(w, Turned(t, do, t.rest))
  <2> DEFINE n == Turned(t, do, t.rest)
  <2>1. do \in Copying BY DEF Copying
  <2>2. n.do = do /\ n.rest = t.rest /\ n.policy = t.policy /\ n.set = t.set /\ n.version = t.version
    BY <1>1, <1>3, <2>1, TurnedIs
  <2> HIDE DEF n
  <2>3. t.policy \in Policies /\ \E from \in Policies \ {t.policy} : t.rest = {from}
    BY <1>1, <1>5 DEF ThingFits
  <2>5. ThingFits(n) BY <2>2, <2>3 DEF ThingFits, Updating, Undoing, Copying, ByHand, OfHolding
  <2> QED BY <1>2, <1>3, <1>5, <2>1, <2>5, TurnGoes DEF n
<1>7. t.do = "copy_rules" /\ Onward(w, copy_policy) => Turn(w, "copy_sets", t.rest)
  BY DEF Onward, copy_policy
<1>8. t.do = "copy_sets" /\ Onward(w, copy_policy) => Turn(w, "copy_entries", t.rest)
  BY DEF Onward, copy_policy
<1>9. t.do = "copy_entries" /\ Onward(w, copy_policy) => Stops(w)
  BY DoneStops DEF Onward, copy_policy
<1> QED BY <1>5, <1>7, <1>8, <1>9 DEF Copying

\* Adopting a set.
LEMMA AdoptionGoes ==
    ASSUME JobsInv, NEW w \in Workers, job[w] # <<>>, NEW t, t = This(w)
    PROVE  /\ t.do = "claim" /\ OnwardAfterAll(w, adoption) =>
                  \/ Others(w) = {} /\ Goes(w, Turned(t, "adopt", {}))
                  \/ Others(w) # {} /\ Goes(w, Turned(t, "claim", Others(w)))
           /\ t.do = "adopt" /\ Onward(w, adoption) => Stops(w)
<1>1. t \in Thing /\ t.do \in Does[w] /\ ThingFits(t) BY DEF JobsInv, JobsFit, Things
<1>2. t.do \in Booting => Booting \subseteq Does[w]
  BY <1>1 DEF Workers, Does, Undoing, Updating, Booting, Copying, ByHand
<1>3. Booting \subseteq Deeds BY DEF Deeds, Booting
<1>4. Others(w) \subseteq t.rest /\ {} \subseteq t.rest BY DEF Others
<1>6. ASSUME t.do = "claim", OnwardAfterAll(w, adoption)
      PROVE  \/ Others(w) = {} /\ Goes(w, Turned(t, "adopt", {}))
             \/ Others(w) # {} /\ Goes(w, Turned(t, "claim", Others(w)))
  <2>1. {"claim", "adopt"} \subseteq Booting /\ t.do \in Booting BY <1>6 DEF Booting
  <2>2. OfVersion(t) /\ t.rest \in SUBSET File[t.set][t.version] BY <1>1, <1>6 DEF ThingFits
  <2>3. CASE Others(w) = {}
    <3> DEFINE n == Turned(t, "adopt", {})
    <3>2. n.do = "adopt" /\ n.rest = {} /\ n.policy = t.policy /\ n.set = t.set /\ n.version = t.version
      BY <1>1, <1>3, <1>4, <2>1, TurnedIs
    <3> HIDE DEF n
    <3>5. ThingFits(n) BY <2>2, <3>2 DEF ThingFits, Updating, Undoing, Copying, ByHand, OfVersion, OfHolding
    <3>6. Turn(w, "adopt", {}) BY <1>6, <2>3 DEF OnwardAfterAll, adoption
    <3> QED BY <1>2, <1>3, <1>4, <2>1, <2>3, <3>5, <3>6, TurnGoes DEF n
  <2>4. CASE Others(w) # {}
    <3> DEFINE n == Turned(t, "claim", Others(w))
    <3>2. n.do = "claim" /\ n.rest = Others(w) /\ n.policy = t.policy /\ n.set = t.set /\ n.version = t.version
      BY <1>1, <1>3, <1>4, <2>1, TurnedIs
    <3> HIDE DEF n
    <3>5. ThingFits(n) BY <1>4, <2>2, <2>4, <3>2 DEF ThingFits, Updating, Undoing, Copying, ByHand, OfVersion, OfHolding
    <3>6. Turn(w, "claim", Others(w)) BY <1>6, <2>4 DEF OnwardAfterAll
    <3> QED BY <1>2, <1>3, <1>4, <2>1, <2>4, <3>5, <3>6, TurnGoes DEF n
  <2> QED BY <2>3, <2>4
<1>9. ASSUME t.do = "adopt", Onward(w, adoption) PROVE Stops(w)
  BY <1>9, DoneStops DEF Onward, adoption
<1> QED BY <1>6, <1>9


-----------------------------------------------------------------------------
(* Jobs begun. *)

\* A sequence of one.
LEMMA OneIn ==
    ASSUME NEW S, NEW n \in S
    PROVE  <<n>> \in Seq(S)
OBVIOUS

\* One thing to do, as To makes it.
LEMMA ToIs ==
    ASSUME NEW do \in Deeds, NEW p \in Policies \cup {None}, NEW s \in Sets \cup {None}, NEW v \in Nat,
           NEW rest \in SUBSET (Holdings \cup Policies \cup Ext \cup Entries)
    PROVE  \E n \in Thing : /\ To(do, p, s, v, rest) = <<n>>
                            /\ n.do = do /\ n.policy = p /\ n.set = s /\ n.version = v /\ n.rest = rest
<1> DEFINE n == [do |-> do, policy |-> p, set |-> s, version |-> v, rest |-> rest]
<1>1. n \in Thing BY DEF Thing
<1>2. To(do, p, s, v, rest) = <<n>> BY DEF To
<1> QED BY <1>1, <1>2

\* What each of the rest is done with waits, when there is any.
LEMMA EachIs ==
    ASSUME NEW do \in Deeds, NEW p \in Policies \cup {None}, NEW S,
           NEW rest \in SUBSET (Holdings \cup Policies \cup Ext \cup Entries),
           \A n \in Thing : /\ n.do = do /\ n.policy = p /\ n.set = None /\ n.version = 0 /\ n.rest = rest
                            /\ rest # {}
                            => n \in S
    PROVE  Each(do, p, rest) \in Seq(S)
<1>1. CASE rest = {} BY <1>1 DEF Each
<1>2. CASE rest # {}
  <2>1. PICK n \in Thing : /\ To(do, p, None, 0, rest) = <<n>>
                           /\ n.do = do /\ n.policy = p /\ n.set = None /\ n.version = 0 /\ n.rest = rest
    BY ToIs
  <2>2. n \in S BY <1>2, <2>1
  <2>3. <<n>> \in Seq(S) BY <2>2
  <2>4. Each(do, p, rest) = <<n>> BY <1>2, <2>1 DEF Each
  <2> QED BY <2>3, <2>4
<1> QED BY <1>1, <1>2

\* Two sequences over a set make one.
LEMMA Joined ==
    ASSUME NEW S, NEW q \in Seq(S), NEW r \in Seq(S)
    PROVE  q \o r \in Seq(S)
BY ConcatProperties

\* The version offered is one there is.
ChannelFits ==
    /\ published \in [Sets -> Nat] /\ mirror \in [Sets -> Nat]
    /\ \A s \in Sets : 1 <= mirror[s] /\ mirror[s] <= published[s] /\ published[s] <= Latest(s)

\* The version offered and the one shipped are the mirror's.
LEMMA OfferedIs ==
    ASSUME ChannelFits, NEW s \in Sets
    PROVE  /\ Offered(s) = mirror[s] /\ Shipped(s) = mirror[s]
           /\ mirror[s] \in 1..Latest(s) /\ Latest(s) \in Nat
BY RuleSetsAssumption DEF Offered, Shipped, ChannelFits, Latest

\* Applying (apply): refused, or a snapshot of the holding is what comes next.
LEMMA ApplyGoes ==
    ASSUME JobsInv, ChannelFits, NEW w \in Workers, apply(w)
    PROVE  /\ job[w] # <<>> /\ This(w) \in Things(w) /\ This(w).do = "apply"
           /\ Taken(w) \in Holdings
           /\ \/ (Stops(w) \/ Goes(w, Turned(This(w), "apply", Others(w)))) /\ UNCHANGED <<torn, tangled>>
              \/ /\ Taken(w)[1] \in policies /\ Starting(w, Taken(w))
                 /\ \E n \in Things(w) :
                       /\ Goes(w, n) /\ n.do = "snapshot" /\ <<n.policy, n.set>> = Taken(w)
                       /\ n.version = mirror[n.set]
<1> DEFINE t == This(w)
           h == Taken(w)
<1>1. job[w] # <<>> /\ t \in Things(w) /\ t.do = "apply" BY DEF apply, Doing, This, JobsInv, JobsFit
<1>2. t.rest \in SUBSET Holdings /\ t.rest # {} /\ t \in Thing BY <1>1 DEF Things, ThingFits
<1>3. h \in t.rest /\ h \in Holdings BY <1>2 DEF Taken
<1>4. CASE DoneAfterAll(w) /\ UNCHANGED <<torn, tangled>>
  BY <1>1, <1>3, <1>4, DoneAfterAllSteps
<1>5. CASE /\ h[1] \in policies /\ Starting(w, h)
           /\ job' = [job EXCEPT ![w] = To("snapshot", h[1], h[2], Offered(h[2]), File[h[2]][Offered(h[2])])
                                          \o Each("apply", None, Others(w)) \o Tail(@)]
  <2>1. h[1] \in Policies /\ h[2] \in Sets /\ h = <<h[1], h[2]>> BY <1>3 DEF Holdings
  <2> DEFINE p == h[1]
             s == h[2]
             v == mirror[s]
             e == Each("apply", None, Others(w))
             q == Tail(job[w])
  <2>2. Offered(s) = v /\ v \in 1..Latest(s) /\ v \in Nat /\ Latest(s) \in Nat BY <2>1, OfferedIs
  <2>3. File[s][v] \subseteq Ext /\ File[s][v] # {} BY <2>1, <2>2, OfVersions
  <2>4. "snapshot" \in Deeds /\ "apply" \in Deeds BY DEF Deeds, Plain, Updating
  <2>5. PICK n \in Thing : /\ To("snapshot", p, s, v, File[s][v]) = <<n>>
                           /\ n.do = "snapshot" /\ n.policy = p /\ n.set = s /\ n.version = v /\ n.rest = File[s][v]
    BY <2>1, <2>2, <2>3, <2>4, ToIs
  <2>6. n \in Things(w)
    <3>1. n.do \in Does[w] BY <2>5 DEF Workers, Does, Updating
    <3>2. ThingFits(n)
      BY <2>1, <2>2, <2>3, <2>5 DEF ThingFits, Updating, Undoing, Copying, ByHand, OfVersion, OfHolding
    <3> QED BY <3>1, <3>2 DEF Things
  <2>7. q \in Seq(Queued(w)) /\ job \in [Workers -> Seq(Thing)] BY <1>1 DEF JobsInv, JobsFit
  <2>8. Others(w) \in SUBSET Holdings /\ Others(w) \subseteq t.rest BY <1>2 DEF Others
  <2>9. ASSUME NEW m \in Thing, m.do = "apply", m.rest = Others(w), m.rest # {}
        PROVE  m \in Queued(w)
    <3>1. "apply" \in Does[w] /\ "apply" \in Waiting BY DEF Workers, Does, Waiting
    <3>2. ThingFits(m) BY <2>8, <2>9 DEF ThingFits, Updating, Undoing, Copying, ByHand
    <3> QED BY <2>9, <3>1, <3>2 DEF Things, Queued
  <2>10. e \in Seq(Queued(w)) BY <2>4, <2>8, <2>9, EachIs
  <2>11. n.do \notin Booting /\ t.do \notin Booting BY <1>1, <2>5 DEF Booting
  <2> HIDE DEF p, s, v, e, q
  <2>12. e \o q \in Seq(Queued(w)) BY <2>7, <2>10, Joined
  <2>13. (<<n>> \o e) \o q = <<n>> \o (e \o q)
    <3>1. <<n>> \in Seq(Thing) /\ e \in Seq(Thing) /\ q \in Seq(Thing) BY <2>7, <2>10, ThingsAre, Wider
    <3> QED BY <3>1, ConcatAssociative
  <2>14. job' = [job EXCEPT ![w] = (<<n>> \o e) \o q] BY <1>5, <2>2, <2>5, <2>7 DEF p, s, v, e, q
  <2>15. Puts(w, n, e \o q) BY <2>13, <2>14 DEF Puts
  <2>16. Allowed(w, n, e \o q)
    <3>1. Allowed(w, n, q) BY <1>1, <2>6, <2>11, TailAllowed DEF Boots, q
    <3>2. n \notin Boots BY <2>11 DEF Boots
    <3>3. job["task"] \in Seq(Thing \ Boots) /\ q \in Seq(Thing \ Boots) BY <3>1, <3>2 DEF Allowed
    <3>4. e \in Seq(Thing \ Boots)
      <4>1. \A m \in Thing : m.do = "apply" => m \in Thing \ Boots BY DEF Boots, Booting
      <4> QED BY <2>4, <2>8, <4>1, EachIs DEF e
    <3>5. e \o q \in Seq(Thing \ Boots) BY <3>3, <3>4, Joined
    <3> QED BY <3>2, <3>3, <3>5 DEF Allowed
  <2>17. Heads(w, n) BY <2>6, <2>12, <2>15, <2>16, PutHeads
  <2>18. KeepsOff(w)
    <3> SUFFICES ASSUME NEW x \in Policies, job[w] \in Seq(Without(x))
                 PROVE  job'[w] \in Seq(Without(x))
      BY DEF KeepsOff
    <3>1. t \in Without(x) /\ q \in Seq(Without(x)) BY <1>1, Rest DEF This, q
    <3>2. \A g \in t.rest : g[1] # x BY <3>1, <1>1 DEF Without, Concerned
    <3>3. n \in Without(x) BY <3>2, <1>3, <2>5 DEF Without, Concerned, p
    <3>4. e \in Seq(Without(x))
      <4>1. None \notin Policies BY RuleSetsAssumption DEF Scopes
      <4>2. \A m \in Thing : m.do = "apply" /\ m.policy = None /\ m.rest = Others(w) => m \in Without(x)
        BY <3>2, <2>8, <4>1 DEF Without, Concerned
      <4> QED BY <2>4, <2>8, <4>2, EachIs DEF e
    <3>5. e \o q \in Seq(Without(x)) BY <3>1, <3>4, Joined
    <3>6. <<n>> \o (e \o q) \in Seq(Without(x)) BY <3>3, <3>5, PutInFront
    <3> QED BY <3>6, <2>13, <2>14, <2>7
  <2>19. Taken(w)[1] \in policies /\ Starting(w, Taken(w)) /\ <<n.policy, n.set>> = Taken(w) /\ n.version = mirror[n.set]
    BY <1>5, <2>1, <2>5 DEF p, s, v
  <2> QED BY <1>1, <1>3, <2>5, <2>6, <2>17, <2>18, <2>19 DEF Goes
<1>6. \/ DoneAfterAll(w) /\ UNCHANGED <<torn, tangled>>
      \/ /\ h[1] \in policies /\ Starting(w, h)
         /\ job' = [job EXCEPT ![w] = To("snapshot", h[1], h[2], Offered(h[2]), File[h[2]][Offered(h[2])])
                                          \o Each("apply", None, Others(w)) \o Tail(@)]
  BY DEF apply
<1> QED BY <1>4, <1>5, <1>6


\* The round of the task: a check of the channel, the mirror, and what is applied
\* by itself.
LEMMA OneIs ==
    ASSUME NEW do \in Deeds, NEW p \in Policies \cup {None}, NEW s \in Sets \cup {None}, NEW v \in Nat
    PROVE  \E n \in Thing : /\ One(do, p, s, v) = <<n>>
                            /\ n.do = do /\ n.policy = p /\ n.set = s /\ n.version = v /\ n.rest = {}
<1>1. {} \in SUBSET (Holdings \cup Policies \cup Ext \cup Entries) OBVIOUS
<1> HIDE DEF Deeds
<1> QED BY <1>1, ToIs DEF One

\* The task's round begins with a check of the channel (CheckTask).
LEMMA CheckTaskHeads ==
    ASSUME JobsInv, CheckTask
    PROVE  \E n \in Things("task") : Goes("task", n) /\ n.do = "check"
<1> DEFINE w == "task"
<1>0. /\ {"check", "mirror", "automatic"} \subseteq Deeds
      /\ None \in Policies \cup {None} /\ None \in Sets \cup {None} /\ 0 \in Nat
  BY DEF Deeds, Plain
<1>1. PICK a \in Thing : One("check", None, None, 0) = <<a>> /\ a.do = "check" /\ a.policy = None
  BY ONLY <1>0, OneIs
<1>2. PICK b \in Thing : One("mirror", None, None, 0) = <<b>> /\ b.do = "mirror" /\ b.policy = None
  BY ONLY <1>0, OneIs
<1>3. PICK c \in Thing : One("automatic", None, None, 0) = <<c>> /\ c.do = "automatic" /\ c.policy = None
  BY ONLY <1>0, OneIs
<1>4. w \in Workers BY DEF Workers
<1>5. a \in Things(w) /\ b \in Queued(w) /\ c \in Queued(w)
  BY <1>1, <1>2, <1>3
     DEF Things, Queued, Does, Waiting, ThingFits, Updating, Undoing, Copying, ByHand
<1>6. a \notin Boots /\ b \notin Boots /\ c \notin Boots BY <1>1, <1>2, <1>3 DEF Boots, Booting
<1> DEFINE q == <<b>> \o <<c>>
<1>7. \A S : b \in S /\ c \in S => q \in Seq(S)
  <2> SUFFICES ASSUME NEW S, b \in S, c \in S PROVE q \in Seq(S) OBVIOUS
  <2>1. <<b>> \in Seq(S) /\ <<c>> \in Seq(S) OBVIOUS
  <2> QED BY <2>1, Joined
<1>8. (<<a>> \o <<b>>) \o <<c>> = <<a>> \o q
  <2>1. <<a>> \in Seq(Thing) /\ <<b>> \in Seq(Thing) /\ <<c>> \in Seq(Thing) OBVIOUS
  <2> QED BY <2>1, ConcatAssociative
<1>9. job' = [job EXCEPT ![w] = (<<a>> \o <<b>>) \o <<c>>] BY <1>1, <1>2, <1>3 DEF CheckTask
<1> HIDE DEF w, q
<1>10. Puts(w, a, q) BY <1>8, <1>9 DEF Puts
<1>11. job[w] = <<>> /\ job[w] \in Seq(Thing \ Boots) BY DEF CheckTask, w
<1>12. Allowed(w, a, q) BY <1>6, <1>7, <1>11 DEF Allowed, w
<1>13. Heads(w, a) BY <1>4, <1>5, <1>7, <1>10, <1>12, PutHeads
<1>14. KeepsOff(w)
  <2> SUFFICES ASSUME NEW p \in Policies PROVE job'[w] \in Seq(Without(p)) BY DEF KeepsOff
  <2>1. None \notin Policies BY RuleSetsAssumption DEF Scopes
  <2>2. a \in Without(p) /\ b \in Without(p) /\ c \in Without(p)
    BY <1>1, <1>2, <1>3, <2>1 DEF Without, Concerned
  <2>3. <<a>> \o q \in Seq(Without(p)) BY <1>7, <2>2, PutInFront
  <2>4. job'[w] = <<a>> \o q BY <1>4, <1>8, <1>9 DEF JobsInv, JobsFit
  <2> QED BY <2>3, <2>4
<1> QED BY <1>1, <1>5, <1>13, <1>14 DEF Goes, w

\* Applying by itself what is behind the manifest.
LEMMA AutoApplyRests ==
    ASSUME JobsInv, policies \subseteq Policies, AutoApply
    PROVE  /\ Rests("task")
           /\ \A p \in Policies : (\A s \in Sets : held[p][s] = 0) /\ job["task"] \in Seq(Without(p)) =>
                  job'["task"] \in Seq(Without(p))
<1> DEFINE w == "task"
           e == IF left.auto THEN Each("apply", None, available) ELSE <<>>
           q == Tail(job[w])
<1>1. w \in Workers BY DEF Workers
<1>2. job[w] # <<>> /\ This(w).do = "automatic" BY DEF AutoApply, Doing, This
<1>3. q \in Seq(Queued(w)) /\ job \in [Workers -> Seq(Thing)] BY <1>1, <1>2 DEF JobsInv, JobsFit
<1>4. available \in SUBSET Holdings BY DEF available, Holdings
<1>5. ASSUME NEW S, \A n \in Thing : n.do = "apply" /\ n.policy = None /\ n.rest = available /\ n.rest # {} => n \in S
      PROVE  e \in Seq(S)
  <2>1. "apply" \in Deeds BY DEF Deeds, Plain
  <2>2. Each("apply", None, available) \in Seq(S) BY <1>4, <1>5, <2>1, EachIs
  <2> QED BY <2>2
<1>6. e \in Seq(Queued(w))
  <2>1. ASSUME NEW n \in Thing, n.do = "apply", n.rest = available, n.rest # {} PROVE n \in Queued(w)
    BY <1>4, <2>1 DEF Things, Queued, Does, Waiting, ThingFits, Updating, Undoing, Copying, ByHand
  <2> QED BY <1>5, <2>1
<1>7. e \in Seq(Thing \ Boots)
  <2>1. \A n \in Thing : n.do = "apply" => n \in Thing \ Boots BY DEF Boots, Booting
  <2> QED BY <1>5, <2>1
<1>8. job' = [job EXCEPT ![w] = q \o e] BY <1>3 DEF AutoApply
<1>9. This(w) \notin Boots BY <1>2 DEF Boots, Booting
<1>10. job[w] \in Seq(Thing \ Boots) /\ q \in Seq(Thing \ Boots)
  <2>1. job[w] \in Seq(Boots) => This(w) \in Boots BY <1>2, Rest DEF This
  <2>2. job[w] \in Seq(Thing \ Boots) BY <1>9, <2>1 DEF JobsInv, BootsAlone
  <2> QED BY <1>2, <2>2, Rest
<1>11. ASSUME NEW p \in Policies, \A s \in Sets : held[p][s] = 0, job[w] \in Seq(Without(p))
       PROVE  job'[w] \in Seq(Without(p))
  <2>1. q \in Seq(Without(p)) BY <1>2, <1>11, Rest
  <2>2. \A h \in available : h[1] # p BY <1>11 DEF available
  <2>3. None \notin Policies BY RuleSetsAssumption DEF Scopes
  <2>4. \A n \in Thing : n.do = "apply" /\ n.policy = None /\ n.rest = available => n \in Without(p)
    BY <2>2, <2>3 DEF Without, Concerned
  <2>5. e \in Seq(Without(p)) BY <1>5, <2>4
  <2> HIDE DEF q, e
  <2>6. q \o e \in Seq(Without(p)) BY <2>1, <2>5, Joined
  <2> QED BY <1>1, <1>3, <1>8, <2>6
<1> HIDE DEF q, e
<1>12. q \o e \in Seq(Queued(w)) /\ q \o e \in Seq(Thing \ Boots) BY <1>3, <1>6, <1>7, <1>10, Joined
<1>13. AllowedToWait(w, q \o e) BY <1>10, <1>12 DEF AllowedToWait
<1> QED BY <1>1, <1>8, <1>11, <1>12, <1>13, LeftRests


\* A start: what there is to adopt, and the purge.
LEMMA StartsWait ==
    ASSUME policies \subseteq Policies
    PROVE  Starts \in Seq(Queued("task")) /\ Starts \in Seq(Boots)
<1> DEFINE b == IF \E p \in policies, e \in Ext : rows[p][e] # None /\ ~rows[p][e].claimed
                    THEN To("backfill", None, None, 0, policies \X Sets) ELSE <<>>
           c == One("purge", None, None, 0)
<1>0. {"backfill", "purge"} \subseteq Deeds BY DEF Deeds, Booting
<1>1. PICK n \in Thing : c = <<n>> /\ n.do = "purge" BY <1>0, OneIs
<1>2. n \in Queued("task") /\ n \in Boots
  BY <1>1 DEF Things, Queued, Does, Booting, Boots, Waiting, ThingFits, Updating, Undoing, Copying, ByHand
<1>3. c \in Seq(Queued("task")) /\ c \in Seq(Boots)
  <2>1. <<n>> \in Seq(Queued("task")) /\ <<n>> \in Seq(Boots) BY <1>2, OneIn
  <2> QED BY <1>1, <2>1
<1>4. b \in Seq(Queued("task")) /\ b \in Seq(Boots)
  <2>1. CASE \E p \in policies, e \in Ext : rows[p][e] # None /\ ~rows[p][e].claimed
    <3>1. policies \X Sets \in SUBSET Holdings BY DEF Holdings
    <3>2. policies \X Sets # {}
      <4>1. PICK p \in policies, e \in Ext : TRUE BY <2>1
      <4>2. PICK s \in Sets : e \in RulesOf(s) BY RuleSetsAssumption
      <4>3. <<p, s>> \in policies \X Sets OBVIOUS
      <4> QED BY <4>3
    <3>3. PICK m \in Thing : /\ To("backfill", None, None, 0, policies \X Sets) = <<m>>
                             /\ m.do = "backfill" /\ m.rest = policies \X Sets
      BY <1>0, <3>1, ToIs
    <3>4. m \in Queued("task") /\ m \in Boots
      BY <3>1, <3>2, <3>3 DEF Things, Queued, Does, Booting, Boots, Waiting, ThingFits, Updating, Undoing, Copying, ByHand
    <3>5. b = <<m>> BY <2>1, <3>3
    <3>6. <<m>> \in Seq(Queued("task")) /\ <<m>> \in Seq(Boots) BY <3>4, OneIn
    <3> HIDE DEF b
    <3> QED BY <3>5, <3>6
  <2>2. CASE ~\E p \in policies, e \in Ext : rows[p][e] # None /\ ~rows[p][e].claimed
    BY <2>2
  <2> QED BY <2>1, <2>2
<1>5. Starts = b \o c BY DEF Starts
<1> HIDE DEF b, c
<1> QED BY <1>3, <1>4, <1>5, Joined

\* After a stop only the start is to be done.
LEMMA RestartRests ==
    ASSUME JobsInv, policies \subseteq Policies, Restart
    PROVE  /\ JobsInv' /\ job'["admin"] = <<>>
           /\ job'["task"] = <<>> \/ This("task")' \in Queued("task")
<1>1. Starts \in Seq(Queued("task")) /\ Starts \in Seq(Boots) BY StartsWait
<1>2. Starts \in Seq(Thing) BY <1>1, Wider DEF Boots
<1>3. job' = [w \in Workers |-> IF w = "task" THEN Starts ELSE <<>>] BY DEF Restart
<1>4. job'["admin"] = <<>> /\ job'["task"] = Starts /\ job' \in [Workers -> Seq(Thing)]
  BY <1>2, <1>3 DEF Workers
<1>5. Starts # <<>> => Head(Starts) \in Queued("task") /\ Tail(Starts) \in Seq(Queued("task")) BY <1>1, Rest
<1>6. \A x \in Workers : job'[x] # <<>> => Head(job'[x]) \in Things(x) /\ Tail(job'[x]) \in Seq(Queued(x))
  BY <1>4, <1>5, ThingsAre DEF Workers
<1>7. JobsFit' BY <1>4, <1>6 DEF JobsFit, This, Things, Queued
<1>8. BootsAlone' BY <1>1, <1>4 DEF BootsAlone
<1> QED BY <1>4, <1>5, <1>7, <1>8 DEF JobsInv, This

\* A holding looked at, at a start: adopted, or the next.
LEMMA BackfillGoes ==
    ASSUME JobsInv, ChannelFits, backfill_rule_sets
    PROVE  /\ job["task"] # <<>> /\ This("task").do = "backfill" /\ job["admin"] = <<>>
           /\ \/ Stops("task")
              \/ Goes("task", Turned(This("task"), "backfill", Others("task")))
              \/ \E n \in Things("task") :
                    /\ Heads("task", n) /\ n.do = "claim"
                    /\ n.version = mirror[n.set] /\ n.rest = File[n.set][n.version]
                    /\ Adoptable(n.policy, n.set)
<1> DEFINE w == "task"
           t == This(w)
           h == Taken(w)
<1>w. w \in Workers BY DEF Workers
<1>1. job[w] # <<>> /\ t \in Things(w) /\ t.do = "backfill" BY <1>w DEF backfill_rule_sets, Doing, This, JobsInv, JobsFit
<1>2. t.rest \in SUBSET Holdings /\ t.rest # {} /\ t \in Thing BY <1>1 DEF Things, ThingFits
<1>3. h \in t.rest /\ h \in Holdings BY <1>2 DEF Taken
<1>0. job["admin"] = <<>> /\ job[w] \in Seq(Boots) /\ Tail(job[w]) \in Seq(Boots)
  <2>1. t \in Boots BY <1>1, <1>2 DEF Boots, Booting
  <2>2. job[w] \notin Seq(Thing \ Boots) BY <1>1, <2>1, Rest DEF This
  <2>3. job["admin"] = <<>> /\ job[w] \in Seq(Boots) BY <2>2 DEF JobsInv, BootsAlone
  <2> QED BY <1>1, <2>3, Rest
<1>4. CASE DoneAfterAll(w)
  BY <1>w, <1>0, <1>1, <1>3, <1>4, DoneAfterAllSteps
<1>5. CASE /\ Adoptable(h[1], h[2])
           /\ job' = [job EXCEPT ![w] = To("claim", h[1], h[2], Shipped(h[2]), File[h[2]][Shipped(h[2])])
                                          \o Each("backfill", None, Others(w)) \o Tail(@)]
  <2>1. h[1] \in Policies /\ h[2] \in Sets /\ h = <<h[1], h[2]>> BY <1>3 DEF Holdings
  <2> DEFINE p == h[1]
             s == h[2]
             v == mirror[s]
             e == Each("backfill", None, Others(w))
             q == Tail(job[w])
  <2>2. Shipped(s) = v /\ v \in 1..Latest(s) /\ v \in Nat /\ Latest(s) \in Nat BY <2>1, OfferedIs
  <2>3. File[s][v] \subseteq Ext /\ File[s][v] # {} BY <2>1, <2>2, OfVersions
  <2>4. "claim" \in Deeds /\ "backfill" \in Deeds BY DEF Deeds, Plain, Booting
  <2>5. PICK n \in Thing : /\ To("claim", p, s, v, File[s][v]) = <<n>>
                           /\ n.do = "claim" /\ n.policy = p /\ n.set = s /\ n.version = v /\ n.rest = File[s][v]
    BY <2>1, <2>2, <2>3, <2>4, ToIs
  <2>6. n \in Things(w)
    <3>1. n.do \in Does[w] BY <2>5 DEF Workers, Does, Booting
    <3>2. ThingFits(n)
      BY <2>1, <2>2, <2>3, <2>5 DEF ThingFits, Updating, Undoing, Copying, ByHand, OfVersion, OfHolding
    <3> QED BY <3>1, <3>2 DEF Things
  <2>7. q \in Seq(Queued(w)) /\ job \in [Workers -> Seq(Thing)] BY <1>w, <1>1 DEF JobsInv, JobsFit
  <2>8. Others(w) \in SUBSET Holdings BY <1>2 DEF Others
  <2>9. ASSUME NEW m \in Thing, m.do = "backfill", m.rest = Others(w), m.rest # {}
        PROVE  m \in Queued(w)
    <3>1. "backfill" \in Does[w] /\ "backfill" \in Waiting BY DEF Booting, Does, Waiting
    <3>2. ThingFits(m) BY <2>8, <2>9 DEF ThingFits, Updating, Undoing, Copying, ByHand
    <3> QED BY <2>9, <3>1, <3>2 DEF Things, Queued
  <2>10. e \in Seq(Queued(w)) BY <2>4, <2>8, <2>9, EachIs
  <2>11. e \in Seq(Boots)
    <3>1. \A m \in Thing : m.do = "backfill" => m \in Boots BY DEF Boots, Booting
    <3> QED BY <2>4, <2>8, <3>1, EachIs
  <2>12. n \in Boots BY <2>5 DEF Boots, Booting
  <2>13. q \in Seq(Boots) BY <1>0
  <2> HIDE DEF p, s, v, e, q
  <2>14. e \o q \in Seq(Queued(w)) /\ e \o q \in Seq(Boots) BY <2>7, <2>10, <2>11, <2>13, Joined
  <2>15. (<<n>> \o e) \o q = <<n>> \o (e \o q)
    <3>1. <<n>> \in Seq(Thing) /\ e \in Seq(Thing) /\ q \in Seq(Thing) BY <1>w, <2>7, <2>10, ThingsAre, Wider
    <3> QED BY <3>1, ConcatAssociative
  <2>16. job' = [job EXCEPT ![w] = (<<n>> \o e) \o q] BY <1>5, <2>2, <2>5, <2>7 DEF p, s, v, e, q
  <2>17. Puts(w, n, e \o q) BY <2>15, <2>16 DEF Puts
  <2>18. Allowed(w, n, e \o q) BY <1>0, <2>12, <2>14 DEF Allowed
  <2>19. Heads(w, n) BY <1>w, <2>6, <2>14, <2>17, <2>18, PutHeads
  <2> QED BY <1>0, <1>1, <1>5, <2>5, <2>6, <2>19 DEF p, s, v
<1>6. \/ DoneAfterAll(w)
      \/ /\ Adoptable(h[1], h[2])
         /\ job' = [job EXCEPT ![w] = To("claim", h[1], h[2], Shipped(h[2]), File[h[2]][Shipped(h[2])])
                                          \o Each("backfill", None, Others(w)) \o Tail(@)]
  BY DEF backfill_rule_sets
<1> QED BY <1>4, <1>5, <1>6

-----------------------------------------------------------------------------
(* What the administrator begins. *)

\* While requests are served the task is at nothing of a start.
LEMMA ServingIs ==
    ASSUME JobsInv, Serving
    PROVE  job["task"] \in Seq(Thing \ Boots)
<1>1. CASE job["task"] \in Seq(Boots) /\ job["task"] # <<>>
  <2>1. job["task"] \in Seq(Thing) BY <1>1, Wider DEF Boots
  <2>2. 1 \in DOMAIN job["task"] /\ job["task"][1] \in Boots BY <1>1, LenProperties, EmptySeq, ElementOfSeq
  <2>3. job["task"][1].do \in Kinds("task") \cap Booting BY <2>2 DEF Kinds, Boots
  <2> QED BY <2>3 DEF Serving
<1>2. CASE job["task"] = <<>> BY <1>2
<1> QED BY <1>1, <1>2 DEF JobsInv, BootsAlone

\* A job begun by the administrator, with what waits behind it.
LEMMA ActHeads ==
    ASSUME JobsInv, Act, NEW n \in Things("admin"), NEW q \in Seq(Queued("admin")),
           Begin(<<n>> \o q)
    PROVE  Heads("admin", n)
<1>1. job["task"] \in Seq(Thing \ Boots) BY ServingIs DEF Act
<1>2. \A t \in Things("admin") : t \in Thing \ Boots
  BY DEF Things, Boots, Does, Booting, Updating, Undoing, Copying, ByHand
<1>3. Queued("admin") \subseteq Thing \ Boots BY <1>2 DEF Queued
<1>4. q \in Seq(Thing \ Boots) BY <1>3, Wider
<1>5. Allowed("admin", n, q) BY <1>1, <1>2, <1>4 DEF Allowed
<1>6. Puts("admin", n, q) BY DEF Begin, Puts
<1>7. "admin" \in Workers BY DEF Workers
<1> QED BY <1>5, <1>6, <1>7, PutHeads

\* A job begun in which everything waits.
LEMMA ActRests ==
    ASSUME JobsInv, Act, NEW q \in Seq(Queued("admin")), Begin(q)
    PROVE  Rests("admin")
<1>1. job["task"] \in Seq(Thing \ Boots) BY ServingIs DEF Act
<1>2. \A t \in Things("admin") : t \in Thing \ Boots
  BY DEF Things, Boots, Does, Booting, Updating, Undoing, Copying, ByHand
<1>3. Queued("admin") \subseteq Thing \ Boots BY <1>2 DEF Queued
<1>4. q \in Seq(Thing \ Boots) BY <1>3, Wider
<1>5. AllowedToWait("admin", q) BY <1>1, <1>4 DEF AllowedToWait
<1>6. job' = [job EXCEPT !["admin"] = q] BY DEF Begin
<1>7. "admin" \in Workers BY DEF Workers
<1> QED BY <1>5, <1>6, <1>7, LeftRests

\* One thing to do, and nothing behind it.
LEMMA AloneHeads ==
    ASSUME JobsInv, Act, NEW n \in Things("admin"), Begin(<<n>>)
    PROVE  Heads("admin", n)
<1>1. <<>> \in Seq(Queued("admin")) OBVIOUS
<1>2. <<n>> \in Seq(Thing) BY DEF Things
<1>3. <<n>> \o <<>> = <<n>> BY <1>2, ConcatEmptySeq
<1>4. Begin(<<n>> \o <<>>) BY <1>3
<1> QED BY <1>1, <1>4, ActHeads

\* What the picker begins waits (apply_selection).
LEMMA SelectionWaits ==
    ASSUME NEW p \in Policies, NEW sets \in SUBSET Sets, NEW ids \in SUBSET Ext, NEW off \in SUBSET Ext
    PROVE  apply_selection(p, sets, ids, off) \in Seq(Queued("admin"))
<1> DEFINE a == Each("apply", None, {p} \X sets)
           b == Each("tick", p, ids)
           c == Each("untick", p, off)
<1>0. {"apply", "tick", "untick"} \subseteq Deeds BY DEF Deeds, Plain, ByHand
<1>1. {p} \X sets \in SUBSET Holdings BY DEF Holdings
<1>2. a \in Seq(Queued("admin"))
  <2>1. ASSUME NEW m \in Thing, m.do = "apply", m.rest = {p} \X sets, m.rest # {} PROVE m \in Queued("admin")
    BY <1>1, <2>1 DEF Things, Queued, Does, Waiting, ThingFits, Updating, Undoing, Copying, ByHand
  <2> QED BY <1>0, <1>1, <2>1, EachIs
<1>3. ASSUME NEW do \in {"tick", "untick"}, NEW S \in SUBSET Ext
      PROVE  Each(do, p, S) \in Seq(Queued("admin"))
  <2>1. ASSUME NEW m \in Thing, m.do = do, m.policy = p, m.rest = S, m.rest # {} PROVE m \in Queued("admin")
    <3>1. m.do \in Does["admin"] /\ m.do \in Waiting BY <2>1 DEF Does, Waiting, ByHand
    <3>2. ThingFits(m) BY <2>1 DEF ThingFits, Updating, Undoing, Copying, ByHand
    <3> QED BY <3>1, <3>2 DEF Things, Queued
  <2>2. do \in Deeds BY <1>0
  <2>3. S \in SUBSET (Holdings \cup Policies \cup Ext \cup Entries) OBVIOUS
  <2> QED BY <2>1, <2>2, <2>3, EachIs
<1>4. b \in Seq(Queued("admin")) /\ c \in Seq(Queued("admin")) BY <1>3
<1>5. apply_selection(p, sets, ids, off) = (a \o b) \o c BY DEF apply_selection
<1> HIDE DEF a, b, c
<1> QED BY <1>2, <1>4, <1>5, Joined


-----------------------------------------------------------------------------
(* What the tables hold.  A rule is one that its set has at its version; one of *)
(* no set is of the first.  What is kept to be put back is of one set.          *)

Kept == [version : Nat, rules : [Ext -> Row \cup {None}], hand : SUBSET Ext, sound : BOOLEAN]

RowFits(s, e, row) ==
    row = None \/ /\ row.text \in 1..mirror[s] /\ e \in File[s][row.text]
                  /\ row.claimed \/ row.text = 1

IsKeptOf(s, u) ==
    /\ u \in Kept /\ u.version \in 1..mirror[s]
    /\ \A e \in Ext : u.rules[e] # None => e \in RulesOf(s) /\ u.rules[e].claimed
    /\ \A e \in RulesOf(s) : RowFits(s, e, u.rules[e])
    /\ \E e \in Ext : u.rules[e] # None

RowsFit ==
    /\ policies \in SUBSET Policies /\ rows \in [Policies -> [Ext -> Row \cup {None}]]
    /\ \A p \in Policies \ policies, e \in Ext : rows[p][e] = None
    /\ \A p \in Policies, s \in Sets : \A e \in RulesOf(s) : RowFits(s, e, rows[p][e])

HeldFits ==
    /\ held \in [Policies -> [Sets -> Nat]]
    /\ \A p \in Policies, s \in Sets : held[p][s] <= mirror[s]
    /\ \A p \in Policies \ policies, s \in Sets : held[p][s] = 0

PreviousFits ==
    /\ previous \in [Policies -> [Sets -> Kept \cup {None}]]
    /\ \A p \in Policies, s \in Sets : previous[p][s] = None \/ IsKeptOf(s, previous[p][s])

HistoryFits == hand \in [Policies -> SUBSET Ext] /\ torn \in SUBSET Holdings /\ tangled \in SUBSET torn

\* What a worker is at, with what the tables hold: it writes no version newer than
\* the mirror, puts back what was kept of the set, copies into a policy that has
\* nothing and that no one is at, and adopts what is all there.
ClaimFits(t) ==
    /\ mirror[t.set] = 1 /\ t.version = 1
    /\ \A e \in File[t.set][1] : /\ rows[t.policy][e] # None /\ rows[t.policy][e].text = 1
                                 /\ rows[t.policy][e].claimed <=> e \notin t.rest

FitsNow(t) ==
    /\ t.do \in Updating => t.version <= mirror[t.set]
    /\ t.do \in Restoring => IsKeptOf(t.set, undo)
    /\ t.do = "restore" => t.rest \subseteq {e \in Ext : undo.rules[e] # None}
    /\ t.do \in {"copy_rules", "copy_sets"} =>
           job["task"] \in Seq(Without(t.policy)) /\ \A s \in Sets : held[t.policy][s] = 0
    /\ t.do = "copy_rules" => \A e \in Ext : rows[t.policy][e] = None
    /\ t.do = "copy_sets" => \A s \in Sets : <<t.policy, s>> \in torn
    /\ t.do \in {"claim", "adopt"} => ClaimFits(t)

HeadFits(w) == job[w] # <<>> => FitsNow(This(w))

TablesInv == ChannelFits /\ RowsFit /\ HeldFits /\ PreviousFits /\ HistoryFits
Inv == JobsInv /\ TablesInv /\ HeadFits("admin") /\ HeadFits("task")

\* A rule is of one set.
LEMMA OfOneSet ==
    ASSUME NEW e \in Ext
    PROVE  /\ SetOf(e) \in Sets /\ e \in RulesOf(SetOf(e))
           /\ \A s \in Sets : e \in RulesOf(s) => s = SetOf(e)
<1>1. \E s \in Sets : e \in RulesOf(s) BY RuleSetsAssumption
<1>2. SetOf(e) \in Sets /\ e \in RulesOf(SetOf(e)) BY <1>1 DEF SetOf
<1>3. \A s \in Sets : s # SetOf(e) => RulesOf(s) \cap RulesOf(SetOf(e)) = {}
  BY <1>2, RuleSetsAssumption
<1> QED BY <1>2, <1>3

\* A rule of a version of a set is the set's.
LEMMA InFile ==
    ASSUME NEW s \in Sets, NEW v \in 1..Latest(s), NEW e \in File[s][v]
    PROVE  e \in Ext /\ e \in RulesOf(s) /\ SetOf(e) = s
BY OfVersions, OfOneSet

\* Rules not written stay as they fit.
LEMMA RowsSame ==
    ASSUME RowsFit, UNCHANGED <<policies, rows, mirror>>
    PROVE  RowsFit'
BY DEF RowsFit, RowFits

\* Holdings not written stay as they fit.
LEMMA HeldSame ==
    ASSUME HeldFits, UNCHANGED <<policies, held, mirror>>
    PROVE  HeldFits'
BY DEF HeldFits

\* What was kept, not written, stays as it fits.
LEMMA PreviousSame ==
    ASSUME PreviousFits, UNCHANGED <<previous, mirror>>
    PROVE  PreviousFits'
BY DEF PreviousFits, IsKeptOf, RowFits

\* The rules of one policy written: each as it was, or gone, or one of its set.
LEMMA RowsNext ==
    ASSUME RowsFit, UNCHANGED <<policies, mirror>>,
           NEW p \in Policies, NEW f, rows' = [rows EXCEPT ![p] = f], f \in [Ext -> Row \cup {None}],
           \A e \in Ext : f[e] # None /\ f[e] # rows[p][e] => p \in policies /\ RowFits(SetOf(e), e, f[e])
    PROVE  RowsFit'
<1>1. rows' \in [Policies -> [Ext -> Row \cup {None}]] BY DEF RowsFit
<1>2. rows'[p] = f /\ \A q \in Policies \ {p} : rows'[q] = rows[q] BY DEF RowsFit
<1>3. ASSUME NEW q \in Policies \ policies, NEW e \in Ext PROVE rows'[q][e] = None
  BY <1>2, <1>3 DEF RowsFit
<1>4. ASSUME NEW q \in Policies, NEW s \in Sets, NEW e \in RulesOf(s)
      PROVE  RowFits(s, e, rows'[q][e])
  <2>1. e \in Ext BY RuleSetsAssumption
  <2>2. s = SetOf(e) BY <2>1, OfOneSet
  <2>3. CASE q # p BY <1>2, <2>3 DEF RowsFit
  <2>4. CASE q = p /\ f[e] = None BY <1>2, <2>4 DEF RowFits
  <2>5. CASE q = p /\ f[e] = rows[p][e] BY <1>2, <2>5 DEF RowsFit
  <2>6. CASE q = p /\ RowFits(SetOf(e), e, f[e]) BY <1>2, <2>2, <2>6
  <2> QED BY <2>1, <2>3, <2>4, <2>5, <2>6
<1> QED BY <1>1, <1>3, <1>4 DEF RowsFit, RowFits

\* The rows of p are without those of gone, and the others are as they were.
RowsWithout(p, gone) ==
    /\ RowsFit'
    /\ \A q \in Policies \ {p} : rows'[q] = rows[q]
    /\ \A e \in Ext : rows'[p][e] = IF e \in gone THEN None ELSE rows[p][e]

\* A set of rules taken out.
LEMMA ClearedIs ==
    ASSUME RowsFit, UNCHANGED <<policies, mirror>>,
           NEW p \in Policies, NEW gone, rows' = Cleared(p, gone)
    PROVE  RowsWithout(p, gone)
<1> DEFINE f == [e \in Ext |-> IF e \in gone THEN None ELSE rows[p][e]]
<1>1. rows' = [rows EXCEPT ![p] = f] BY DEF Cleared, RowsFit
<1>2. f \in [Ext -> Row \cup {None}] BY DEF RowsFit
<1>3. ASSUME NEW e \in Ext, f[e] # None, f[e] # rows[p][e]
      PROVE  p \in policies /\ RowFits(SetOf(e), e, f[e])
  BY <1>3
<1>4. \A e \in Ext : f[e] = IF e \in gone THEN None ELSE rows[p][e] OBVIOUS
<1> HIDE DEF f
<1>5. RowsFit' BY <1>1, <1>2, <1>3, RowsNext
<1>6. rows'[p] = f /\ \A q \in Policies \ {p} : rows'[q] = rows[q] BY <1>1 DEF RowsFit
<1> QED BY <1>4, <1>5, <1>6 DEF RowsWithout

\* One rule written.
LEMMA RowPut ==
    ASSUME RowsFit, UNCHANGED <<policies, mirror>>,
           NEW p \in Policies, NEW e \in Ext, NEW row \in Row \cup {None}, rows' = [rows EXCEPT ![p][e] = row]
    PROVE  /\ (row # None => p \in policies /\ RowFits(SetOf(e), e, row)) => RowsFit'
           /\ \A q \in Policies \ {p} : rows'[q] = rows[q]
           /\ \A x \in Ext : rows'[p][x] = IF x = e THEN row ELSE rows[p][x]
<1> DEFINE f == [rows[p] EXCEPT ![e] = row]
<1>1. rows' = [rows EXCEPT ![p] = f] BY DEF RowsFit
<1>2. f \in [Ext -> Row \cup {None}] BY DEF RowsFit
<1>3. \A x \in Ext : f[x] = IF x = e THEN row ELSE rows[p][x] BY DEF RowsFit
<1> HIDE DEF f
<1>5. ASSUME row # None => p \in policies /\ RowFits(SetOf(e), e, row) PROVE RowsFit'
  <2>1. ASSUME NEW x \in Ext, f[x] # None, f[x] # rows[p][x]
        PROVE  p \in policies /\ RowFits(SetOf(x), x, f[x])
    <3>1. x = e /\ f[x] = row BY <1>3, <2>1
    <3>2. p \in policies /\ RowFits(SetOf(e), e, row) BY <3>1, <2>1, <1>5
    <3> QED BY <3>1, <3>2
  <2> QED BY <1>1, <1>2, <2>1, RowsNext
<1>6. rows'[p] = f /\ \A q \in Policies \ {p} : rows'[q] = rows[q] BY <1>1 DEF RowsFit
<1> QED BY <1>3, <1>5, <1>6

\* One row switched: what it says is as it was.
LEMMA SwitchedFits ==
    ASSUME RowsFit, NEW p \in Policies, NEW e \in Ext, rows[p][e] # None, NEW row \in Row,
           row.text = rows[p][e].text, row.claimed = rows[p][e].claimed
    PROVE  p \in policies /\ RowFits(SetOf(e), e, row)
BY OfOneSet DEF RowsFit, RowFits

\* A rule put in anew (Fresh).
LEMMA FreshIs ==
    ASSUME NEW text \in Nat
    PROVE  /\ Fresh(text) \in Row /\ Fresh(text) # None
           /\ Fresh(text).text = text /\ Fresh(text).claimed
<1>1. Fresh(text) \in Row /\ Fresh(text).text = text BY DEF Fresh, Row
<1>2. Fresh(text).claimed BY DEF Fresh
<1> QED BY <1>1, <1>2, RuleSetsAssumption

\* A rule written (Written): its text new, its switch as it was.
LEMMA WrittenIs ==
    ASSUME NEW row \in Row \cup {None}, NEW text \in Nat, NEW whole \in BOOLEAN
    PROVE  /\ Written(row, text, whole) \in Row /\ Written(row, text, whole) # None
           /\ Written(row, text, whole).text = text /\ Written(row, text, whole).claimed
           /\ row # None => Written(row, text, whole).on = row.on
<1>1. PICK on \in BOOLEAN : on = (row = None \/ row.on) OBVIOUS
<1>2. Written(row, text, whole) = [Fresh(text) EXCEPT !.whole = whole, !.on = on] BY <1>1 DEF Written
<1>3. /\ [Fresh(text) EXCEPT !.whole = whole, !.on = on] \in Row
      /\ [Fresh(text) EXCEPT !.whole = whole, !.on = on].text = text
      /\ [Fresh(text) EXCEPT !.whole = whole, !.on = on].on = on
      /\ [Fresh(text) EXCEPT !.whole = whole, !.on = on].claimed
  <2>1. Fresh(text) \in Row /\ Fresh(text).text = text /\ Fresh(text).claimed BY FreshIs
  <2> QED BY <2>1 DEF Row
<1>5. row # None => row.on \in BOOLEAN BY DEF Row
<1>6. row # None => on = row.on BY <1>1, <1>5
<1> QED BY <1>2, <1>3, <1>6, RuleSetsAssumption


-----------------------------------------------------------------------------
(* A step of one worker, and the other's work. *)

\* The first thing of a job has its form.
LEMMA ThisIs ==
    ASSUME JobsInv, NEW w \in Workers, job[w] # <<>>
    PROVE  /\ This(w) \in Things(w) /\ This(w) \in Thing /\ This(w).do \in Does[w] /\ ThingFits(This(w))
           /\ This(w).policy \in Policies \cup {None}
BY DEF JobsInv, JobsFit, Things, Thing

\* What waits asks nothing of the tables.
LEMMA RestingFits ==
    ASSUME NEW w \in Workers, job'[w] = <<>> \/ This(w)' \in Queued(w)
    PROVE  HeadFits(w)'
BY DEF HeadFits, FitsNow, Queued, Waiting, Updating, Restoring

\* Most things to do ask nothing of the tables.
LEMMA OtherwiseNow ==
    ASSUME NEW n, n.do \notin Updating \cup Restoring \cup {"copy_rules", "copy_sets", "claim", "adopt"}
    PROVE  FitsNow(n)'
BY DEF FitsNow, Restoring

\* An update that goes on asks what it asked.
LEMMA UpdatingNow ==
    ASSUME NEW t, NEW n, FitsNow(t), t.do \in Updating, n.do \in Updating, n.set = t.set, n.version = t.version,
           mirror' = mirror
    PROVE  FitsNow(n)'
BY DEF FitsNow, Restoring, Updating

\* A putting back that goes on asks what it asked.
LEMMA RestoringNow ==
    ASSUME NEW t, NEW n, FitsNow(t), t.do \in Restoring, n.do \in Restoring, n.set = t.set,
           n.do = "restore" => t.do = "restore" /\ n.rest \subseteq t.rest,
           mirror' = mirror, undo' = undo
    PROVE  FitsNow(n)'
BY DEF FitsNow, Restoring, Updating, IsKeptOf, RowFits

\* A copy that nobody disturbs asks what it asked.
LEMMA CopyingNow ==
    ASSUME NEW t, FitsNow(t), t.do \in {"copy_rules", "copy_sets"},
           job'["task"] \in Seq(Without(t.policy)),
           rows'[t.policy] = rows[t.policy], held'[t.policy] = held[t.policy],
           \A s \in Sets : <<t.policy, s>> \in torn => <<t.policy, s>> \in torn'
    PROVE  FitsNow(t)'
<1>1. t.do \notin Updating \cup Restoring \cup {"claim", "adopt"} BY DEF Updating, Restoring
<1>2. \A s \in Sets : held'[t.policy][s] = 0 BY DEF FitsNow
<1>3. t.do = "copy_rules" => \A e \in Ext : rows'[t.policy][e] = None BY DEF FitsNow
<1>4. t.do = "copy_sets" => \A s \in Sets : <<t.policy, s>> \in torn' BY DEF FitsNow
<1> QED BY <1>1, <1>2, <1>3, <1>4 DEF FitsNow, Restoring, Without

\* Whoever works on a policy leaves the others alone.
Spared(w) ==
    \A p \in Policies \ {This(w).policy} :
        /\ rows'[p] = rows[p] /\ held'[p] = held[p]
        /\ \A s \in Sets : <<p, s>> \in torn => <<p, s>> \in torn'

\* The task's thing fits after a step that is not its own.
LEMMA TaskAside ==
    ASSUME JobsInv, HeadFits("task"), job'["task"] = job["task"], job["task"] \in Seq(Thing \ Boots), mirror' = mirror
    PROVE  HeadFits("task")'
<1>1. SUFFICES ASSUME job["task"] # <<>> PROVE FitsNow(This("task"))'
  BY DEF HeadFits
<1> DEFINE t == This("task")
<1>2. t' = t BY DEF This
<1>3. "task" \in Workers BY DEF Workers
<1>4. t \in Thing \ Boots /\ t.do \in Does["task"] BY <1>1, <1>3, Rest, ThisIs DEF This
<1>5. t.do \notin Booting /\ t.do \notin Undoing \cup Copying
  BY <1>4 DEF Boots, Does, Undoing, Copying, Updating, Booting
<1>6. FitsNow(t) BY <1>1 DEF HeadFits
<1> QED BY <1>2, <1>5, <1>6 DEF FitsNow, Updating, Restoring, Undoing, Copying, Booting

\* The administrator's thing fits after a step that is not its own.
LEMMA AdminAside ==
    ASSUME JobsInv, HeadFits("admin"), job'["admin"] = job["admin"], mirror' = mirror, undo' = undo,
           \A p \in Policies : job["task"] \in Seq(Without(p)) =>
               /\ job'["task"] \in Seq(Without(p))
               /\ rows'[p] = rows[p] /\ held'[p] = held[p]
               /\ \A s \in Sets : <<p, s>> \in torn => <<p, s>> \in torn'
    PROVE  HeadFits("admin")'
<1>1. SUFFICES ASSUME job["admin"] # <<>> PROVE FitsNow(This("admin"))'
  BY DEF HeadFits
<1> DEFINE t == This("admin")
<1>2. t' = t BY DEF This
<1>3. "admin" \in Workers BY DEF Workers
<1>4. t.do \in Does["admin"] /\ ThingFits(t) BY <1>1, <1>3, ThisIs
<1>5. t.do \notin Booting
  BY <1>4 DEF Does, Undoing, Copying, Updating, Booting, ByHand
<1>6. FitsNow(t) BY <1>1 DEF HeadFits
<1>7. CASE t.do \in {"copy_rules", "copy_sets"}
  <2>1. t.policy \in Policies /\ job["task"] \in Seq(Without(t.policy))
    BY <1>4, <1>6, <1>7 DEF ThingFits, FitsNow, Copying
  <2>2. /\ job'["task"] \in Seq(Without(t.policy))
        /\ rows'[t.policy] = rows[t.policy] /\ held'[t.policy] = held[t.policy]
        /\ \A s \in Sets : <<t.policy, s>> \in torn => <<t.policy, s>> \in torn'
    BY <2>1
  <2> QED BY <1>2, <1>6, <1>7, <2>2, CopyingNow
<1>8. CASE t.do \in Updating
  BY <1>2, <1>6, <1>8, UpdatingNow
<1>9. CASE t.do \in Restoring
  BY <1>2, <1>6, <1>9, RestoringNow
<1>10. CASE t.do \notin Updating \cup Restoring \cup {"copy_rules", "copy_sets"}
  BY <1>2, <1>5, <1>10, OtherwiseNow DEF Booting
<1> QED BY <1>7, <1>8, <1>9, <1>10

\* Whoever did not step still fits.
LEMMA OtherFits ==
    ASSUME Inv, NEW w \in Workers, job[w] # <<>>, Elsewhere(w), KeepsOff(w), Spared(w),
           mirror' = mirror, undo' = undo \/ w = "admin"
    PROVE  \A x \in Workers \ {w} : HeadFits(x)'
<1>1. CASE w = "admin"
  <2>1. job["task"] \in Seq(Thing \ Boots) BY <1>1 DEF Inv, JobsInv, BootsAlone
  <2>2. job'["task"] = job["task"] BY <1>1 DEF Elsewhere, Workers
  <2>3. HeadFits("task")' BY <2>1, <2>2, TaskAside DEF Inv
  <2> QED BY <1>1, <2>3 DEF Workers
<1>2. CASE w = "task"
  <2>1. job'["admin"] = job["admin"] BY <1>2 DEF Elsewhere, Workers
  <2>2. ASSUME NEW p \in Policies, job["task"] \in Seq(Without(p))
        PROVE  /\ job'["task"] \in Seq(Without(p))
               /\ rows'[p] = rows[p] /\ held'[p] = held[p]
               /\ \A s \in Sets : <<p, s>> \in torn => <<p, s>> \in torn'
    <3>1. job'["task"] \in Seq(Without(p)) BY <1>2, <2>2 DEF KeepsOff
    <3>2. This("task") \in Without(p) BY <1>2, <2>2, Rest DEF This
    <3>3. p # This("task").policy BY <3>2 DEF Without, Concerned
    <3> QED BY <1>2, <3>1, <3>3 DEF Spared
  <2>3. undo' = undo BY <1>2
  <2>4. HeadFits("admin")' BY <2>1, <2>2, <2>3, AdminAside DEF Inv
  <2> QED BY <1>2, <2>4 DEF Workers
<1> QED BY <1>1, <1>2 DEF Workers

\* A step of a worker keeps the invariant when its tables and its own next thing do.
LEMMA StepKeeps ==
    ASSUME Inv, NEW w \in Workers, job[w] # <<>>, Spared(w), TablesInv',
           mirror' = mirror, undo' = undo \/ w = "admin",
           \/ Stops(w)
           \/ \E n \in Thing : Goes(w, n) /\ FitsNow(n)'
    PROVE  Inv'
<1>1. HeadFits(w)'
  <2>1. CASE Stops(w) BY <2>1, RestingFits DEF Stops, Rests
  <2>2. CASE \E n \in Thing : Goes(w, n) /\ FitsNow(n)'
    <3>1. PICK n \in Thing : Goes(w, n) /\ FitsNow(n)' BY <2>2
    <3>2. This(w)' = n BY <3>1 DEF Goes, Heads
    <3> QED BY <3>1, <3>2 DEF HeadFits
  <2> QED BY <2>1, <2>2
<1>2. JobsInv' /\ Elsewhere(w) /\ KeepsOff(w) BY DEF Stops, Rests, Goes, Heads
<1>3. \A x \in Workers \ {w} : HeadFits(x)' BY <1>2, OtherFits
<1>4. HeadFits("admin")' /\ HeadFits("task")' BY <1>1, <1>3 DEF Workers
<1> QED BY <1>2, <1>4 DEF Inv


-----------------------------------------------------------------------------
(* Tables written, in general. *)

\* One holding recorded.
LEMMA HeldNext ==
    ASSUME HeldFits, UNCHANGED <<policies, mirror>>, NEW p \in Policies, NEW s \in Sets, NEW v \in Nat,
           held' = [held EXCEPT ![p][s] = v], v <= mirror[s], v = 0 \/ p \in policies
    PROVE  /\ HeldFits'
           /\ \A q \in Policies \ {p} : held'[q] = held[q]
           /\ \A x \in Sets : held'[p][x] = IF x = s THEN v ELSE held[p][x]
<1>1. \A q \in Policies \ {p} : held'[q] = held[q] BY DEF HeldFits
<1>2. \A x \in Sets : held'[p][x] = IF x = s THEN v ELSE held[p][x] BY DEF HeldFits
<1>3. held' \in [Policies -> [Sets -> Nat]] BY DEF HeldFits
<1>4. \A q \in Policies, x \in Sets : held'[q][x] = IF q = p /\ x = s THEN v ELSE held[q][x] BY <1>1, <1>2
<1>5. HeldFits' BY <1>3, <1>4 DEF HeldFits
<1> QED BY <1>1, <1>2, <1>5

\* One thing kept, or forgotten.
LEMMA PreviousNext ==
    ASSUME PreviousFits, UNCHANGED mirror, NEW p \in Policies, NEW s \in Sets, NEW u,
           previous' = [previous EXCEPT ![p][s] = u]
    PROVE  /\ u = None \/ IsKeptOf(s, u) => PreviousFits'
           /\ \A q \in Policies, x \in Sets : previous'[q][x] = IF q = p /\ x = s THEN u ELSE previous[q][x]
<1>1. \A q \in Policies, x \in Sets : previous'[q][x] = IF q = p /\ x = s THEN u ELSE previous[q][x]
  BY DEF PreviousFits
<1>2. SUFFICES ASSUME u = None \/ IsKeptOf(s, u) PROVE PreviousFits'
  BY <1>1
<1>3. u \in Kept \cup {None} BY <1>2 DEF IsKeptOf
<1>4. previous' \in [Policies -> [Sets -> Kept \cup {None}]] BY <1>3 DEF PreviousFits
<1>5. ASSUME NEW q \in Policies, NEW x \in Sets
      PROVE  previous'[q][x] = None \/ IsKeptOf(x, previous'[q][x])
  BY <1>1, <1>2 DEF PreviousFits
<1>6. ASSUME NEW q \in Policies, NEW x \in Sets, previous'[q][x] # None
      PROVE  IsKeptOf(x, previous[q][x])'
  BY <1>5, <1>6 DEF IsKeptOf, RowFits
<1> QED BY <1>4, <1>6 DEF PreviousFits

\* A rule written for a policy clears it of the hand's mark, or sets it.
LEMMA HandNext ==
    ASSUME hand \in [Policies -> SUBSET Ext], NEW p \in Policies, NEW H \in SUBSET Ext,
           hand' = [hand EXCEPT ![p] = H]
    PROVE  /\ hand' \in [Policies -> SUBSET Ext] /\ hand'[p] = H
           /\ \A q \in Policies \ {p} : hand'[q] = hand[q]
OBVIOUS

\* The holding a worker is at, if at any (Busy).
LEMMA BusyIs ==
    ASSUME JobsInv, NEW w \in Workers
    PROVE  /\ Busy(w) \subseteq Holdings
           /\ job[w] # <<>> /\ This(w).do \in Updating \cup Undoing =>
                  OfHolding(This(w)) /\ Busy(w) = {<<This(w).policy, This(w).set>>}
           /\ job[w] = <<>> \/ This(w).do \notin Updating \cup Undoing => Busy(w) = {}
<1>1. ASSUME job[w] # <<>>, This(w).do \in Updating \cup Undoing PROVE OfHolding(This(w))
  BY <1>1, ThisIs DEF ThingFits, OfVersion
<1> QED BY <1>1 DEF Busy, Holdings, OfHolding

\* What beginning at a holding does to the history (Starting).
LEMMA StartingIs ==
    ASSUME HistoryFits, NEW w \in Workers, NEW h \in Holdings, Starting(w, h)
    PROVE  /\ torn' \in SUBSET Holdings /\ tangled' \in SUBSET torn'
           /\ torn \subseteq torn' /\ torn' \subseteq torn \cup {h}
           /\ tangled \subseteq tangled' /\ tangled' \subseteq tangled \cup {h}
           /\ \A x \in Workers \ {w} : h \in Busy(x) => h \in tangled'
           /\ (\A x \in Workers \ {w} : h \notin Busy(x)) => torn' = torn /\ tangled' = tangled
<1>1. h \in UNION {Busy(x) : x \in Workers \ {w}} <=> \E x \in Workers \ {w} : h \in Busy(x) OBVIOUS
<1> QED BY <1>1 DEF Starting, HistoryFits

\* What ending at a holding does to the history (Ending).
LEMMA EndingIs ==
    ASSUME HistoryFits, NEW w \in Workers, NEW h \in Holdings, NEW sound \in BOOLEAN, Ending(w, h, sound)
    PROVE  /\ torn' \in SUBSET Holdings /\ tangled' = tangled /\ tangled' \in SUBSET torn'
           /\ torn' = torn \ {h} \/ torn' = torn \cup {h}
           /\ h \notin torn' => h \notin tangled /\ sound /\ \A x \in Workers \ {w} : h \notin Busy(x)
<1>1. h \in UNION {Busy(x) : x \in Workers \ {w}} <=> \E x \in Workers \ {w} : h \in Busy(x) OBVIOUS
<1> QED BY <1>1 DEF Ending, HistoryFits

\* A worker's first thing, what it is of, and what it is asked now.
LEMMA AtThing ==
    ASSUME Inv, NEW w \in Workers, NEW do, Doing(w, do)
    PROVE  /\ job[w] # <<>> /\ This(w) \in Things(w) /\ This(w) \in Thing /\ This(w).do = do
           /\ do \in Does[w] /\ ThingFits(This(w)) /\ FitsNow(This(w))
<1>1. job[w] # <<>> /\ This(w).do = do BY DEF Doing, This
<1>2. FitsNow(This(w)) BY <1>1 DEF Inv, HeadFits, Workers
<1> QED BY <1>1, <1>2, ThisIs DEF Inv

\* One of the rest is taken.
LEMMA TakenIs ==
    ASSUME NEW w, This(w).rest # {}
    PROVE  /\ Taken(w) \in This(w).rest /\ Others(w) \subseteq This(w).rest
           /\ Others(w) = This(w).rest \ {Taken(w)}
BY DEF Taken, Others

\* A worker at a version of a set.
LEMMA AtVersion ==
    ASSUME Inv, NEW w \in Workers, NEW do \in Updating, Doing(w, do)
    PROVE  /\ This(w).policy \in Policies /\ This(w).set \in Sets
           /\ This(w).version \in 1..mirror[This(w).set] /\ This(w).version \in 1..Latest(This(w).set)
           /\ This(w).version \in Nat
<1>1. This(w).do = do /\ ThingFits(This(w)) /\ FitsNow(This(w)) BY AtThing
<1>2. OfVersion(This(w)) BY <1>1 DEF ThingFits
<1>3. This(w).set \in Sets BY <1>2 DEF OfVersion, OfHolding
<1>4. mirror[This(w).set] \in 1..Latest(This(w).set) /\ Latest(This(w).set) \in Nat BY <1>3, OfferedIs DEF Inv, TablesInv
<1> QED BY <1>1, <1>2, <1>4 DEF OfVersion, OfHolding, FitsNow

\* Only the administrator puts back and removes.
LEMMA AtHolding ==
    ASSUME Inv, NEW w \in Workers, NEW do \in Undoing, Doing(w, do)
    PROVE  /\ This(w).policy \in Policies /\ This(w).set \in Sets /\ w = "admin"
<1>1. This(w).do = do /\ ThingFits(This(w)) /\ do \in Does[w] BY AtThing
<1>2. w = "admin" BY <1>1 DEF Does, Workers, Undoing, Updating, Booting
<1> QED BY <1>1, <1>2 DEF ThingFits, OfHolding

\* A set's rules are its rows of it that a channel put there.
LEMMA OfSetIs ==
    ASSUME RowsFit, NEW p \in Policies, NEW s \in Sets
    PROVE  /\ OfSet(p, s) \subseteq RulesOf(s) /\ OfSet(p, s) \subseteq Ext
           /\ \A e \in RulesOf(s) : e \in OfSet(p, s) <=> rows[p][e] # None /\ rows[p][e].claimed
BY RuleSetsAssumption DEF OfSet

\* What a snapshot keeps is of its set (snapshot_before_update).
LEMMA SnapshotIs ==
    ASSUME ChannelFits, RowsFit, HeldFits, HistoryFits, NEW p \in Policies, NEW s \in Sets, held[p][s] # 0,
           OfSet(p, s) # {}, NEW sound \in BOOLEAN, NEW u,
           u = [version |-> held[p][s], rules |-> [e \in Ext |-> IF e \in OfSet(p, s) THEN rows[p][e] ELSE None],
                hand |-> hand[p] \cap RulesOf(s), sound |-> sound]
    PROVE  /\ IsKeptOf(s, u) /\ u.version = held[p][s] /\ u.hand = hand[p] \cap RulesOf(s) /\ u.sound = sound
           /\ \A e \in Ext : u.rules[e] = IF e \in OfSet(p, s) THEN rows[p][e] ELSE None
<1>1. OfSet(p, s) \subseteq RulesOf(s) /\ OfSet(p, s) \subseteq Ext BY OfSetIs
<1>2. held[p][s] \in 1..mirror[s] /\ held[p][s] \in Nat
  BY DEF HeldFits, ChannelFits
<1> DEFINE f == [e \in Ext |-> IF e \in OfSet(p, s) THEN rows[p][e] ELSE None]
<1>3. f \in [Ext -> Row \cup {None}] BY DEF RowsFit
<1>4. \A e \in Ext : f[e] = IF e \in OfSet(p, s) THEN rows[p][e] ELSE None OBVIOUS
<1>5. u = [version |-> held[p][s], rules |-> f, hand |-> hand[p] \cap RulesOf(s), sound |-> sound] OBVIOUS
<1> HIDE DEF f
<1>6. hand[p] \cap RulesOf(s) \in SUBSET Ext BY DEF HistoryFits
<1>7. u \in Kept BY <1>2, <1>3, <1>5, <1>6 DEF Kept
<1>8. u.version = held[p][s] /\ u.rules = f /\ u.hand = hand[p] \cap RulesOf(s) /\ u.sound = sound BY <1>5
<1>9. \A e \in Ext : u.rules[e] # None => e \in RulesOf(s) /\ u.rules[e].claimed
  BY <1>1, <1>4, <1>8 DEF OfSet
<1>10. \A e \in RulesOf(s) : RowFits(s, e, u.rules[e])
  BY <1>1, <1>4, <1>8, RuleSetsAssumption DEF RowsFit, RowFits
<1>11. \E e \in Ext : u.rules[e] # None
  <2>1. PICK e \in OfSet(p, s) : TRUE OBVIOUS
  <2>2. rows[p][e] # None BY <2>1 DEF OfSet
  <2> QED BY <1>1, <1>4, <1>8, <2>1, <2>2
<1> QED BY <1>2, <1>4, <1>7, <1>8, <1>9, <1>10, <1>11 DEF IsKeptOf


-----------------------------------------------------------------------------
(* The steps of a job, one by one. *)

\* What the first thing of a job turns into.
LEMMA TurnsInto ==
    ASSUME JobsInv, NEW w \in Workers, job[w] # <<>>, NEW do \in Deeds, NEW rest \in SUBSET This(w).rest
    PROVE  /\ Turned(This(w), do, rest) \in Thing
           /\ Turned(This(w), do, rest).do = do /\ Turned(This(w), do, rest).rest = rest
           /\ Turned(This(w), do, rest).policy = This(w).policy /\ Turned(This(w), do, rest).set = This(w).set
           /\ Turned(This(w), do, rest).version = This(w).version
BY ThisIs, TurnedIs

\* The snapshot: what it keeps, and that nothing else changes.
LEMMA SnapshotKeeps ==
    ASSUME Inv, NEW w \in Workers, snapshot_before_update(w)
    PROVE  /\ Inv' /\ Goes(w, Turned(This(w), "rule", This(w).rest))
           /\ \A p \in Policies, s \in Sets : <<p, s>> # <<This(w).policy, This(w).set>> => previous'[p][s] = previous[p][s]
           /\ \/ previous' = previous
              \/ LET p == This(w).policy
                     s == This(w).set
                     u == previous'[p][s]
                 IN  /\ held[p][s] # 0
                     /\ u.version = held[p][s] /\ u.hand = hand[p] \cap RulesOf(s) /\ u.sound = (<<p, s>> \notin torn)
                     /\ \A e \in Ext : u.rules[e] = IF e \in OfSet(p, s) THEN rows[p][e] ELSE None
<1>0. Doing(w, "snapshot") /\ Onward(w, install_set) /\ "snapshot" \in Updating
  BY DEF snapshot_before_update, Updating
<1>1. /\ job[w] # <<>> /\ This(w).do = "snapshot" /\ FitsNow(This(w))
      /\ JobsInv
  BY <1>0, AtThing DEF Inv
<1>2. /\ This(w).policy \in Policies /\ This(w).set \in Sets BY <1>0, AtVersion
<1> DEFINE p == This(w).policy
           s == This(w).set
<1>4. "rule" \in Deeds /\ "rule" \in Updating BY DEF Deeds, Updating
<1>5. PICK n \in Thing : /\ n = Turned(This(w), "rule", This(w).rest)
                         /\ n.do = "rule" /\ n.set = s /\ n.version = This(w).version
  BY <1>1, <1>4, TurnsInto
<1>3. Goes(w, n) BY <1>0, <1>1, <1>5, InstallGoes
<1>6. UNCHANGED <<policies, rows, held, hand, torn, tangled, published, mirror, undo>>
  BY DEF snapshot_before_update, Quiet, Still, history, channel
<1>7. FitsNow(n)' BY <1>0, <1>1, <1>4, <1>5, <1>6, UpdatingNow
<1>8. PICK sound \in BOOLEAN : sound = (<<p, s>> \notin torn) OBVIOUS
<1> DEFINE u == [version |-> held[p][s], rules |-> [e \in Ext |-> IF e \in OfSet(p, s) THEN rows[p][e] ELSE None],
                 hand |-> hand[p] \cap RulesOf(s), sound |-> sound]
<1>9. \/ previous' = previous
      \/ held[p][s] # 0 /\ OfSet(p, s) # {} /\ previous' = [previous EXCEPT ![p][s] = u]
  BY <1>8 DEF snapshot_before_update
<1>10. held[p][s] # 0 /\ OfSet(p, s) # {} =>
           /\ IsKeptOf(s, u) /\ u.version = held[p][s] /\ u.hand = hand[p] \cap RulesOf(s) /\ u.sound = sound
           /\ \A e \in Ext : u.rules[e] = IF e \in OfSet(p, s) THEN rows[p][e] ELSE None
  BY <1>2, SnapshotIs DEF Inv, TablesInv
<1> HIDE DEF u
<1>11. \/ previous' = previous
       \/ /\ held[p][s] # 0 /\ PreviousFits'
          /\ \A q \in Policies, x \in Sets : previous'[q][x] = IF q = p /\ x = s THEN u ELSE previous[q][x]
          /\ IsKeptOf(s, u) /\ u.version = held[p][s] /\ u.hand = hand[p] \cap RulesOf(s) /\ u.sound = sound
          /\ \A e \in Ext : u.rules[e] = IF e \in OfSet(p, s) THEN rows[p][e] ELSE None
  BY <1>2, <1>6, <1>9, <1>10, PreviousNext DEF Inv, TablesInv
<1>12. PreviousFits' BY <1>6, <1>11, PreviousSame DEF Inv, TablesInv
<1>13. TablesInv'
  <2>1. RowsFit' /\ HeldFits' BY <1>6, RowsSame, HeldSame DEF Inv, TablesInv
  <2>2. ChannelFits' /\ HistoryFits' BY <1>6 DEF Inv, TablesInv, ChannelFits, HistoryFits
  <2> QED BY <1>12, <2>1, <2>2 DEF TablesInv
<1>14. Spared(w) BY <1>6 DEF Spared
<1>15. Inv' BY <1>1, <1>3, <1>5, <1>6, <1>7, <1>13, <1>14, StepKeeps
<1> QED BY <1>2, <1>3, <1>5, <1>8, <1>11, <1>15


\* One rule of the version written (install_rule).
LEMMA InstallKeeps ==
    ASSUME Inv, NEW w \in Workers, install_rule(w)
    PROVE  LET p == This(w).policy
               s == This(w).set
               v == This(w).version
               e == Taken(w)
           IN  /\ Inv' /\ p \in policies /\ e \in This(w).rest /\ e \in File[s][v] /\ e \in Ext
               /\ \/ Others(w) = {} /\ Goes(w, Turned(This(w), "sweep", {}))
                  \/ Others(w) # {} /\ Goes(w, Turned(This(w), "rule", Others(w)))
               /\ \A q \in Policies \ {p} : rows'[q] = rows[q] /\ hand'[q] = hand[q]
               /\ \A x \in Ext \ {e} : rows'[p][x] = rows[p][x]
               /\ hand'[p] = hand[p] \ {e}
               /\ rows'[p][e] # None /\ rows'[p][e].text = v /\ rows'[p][e].claimed
               /\ rows[p][e] # None => rows'[p][e].on = rows[p][e].on
               /\ UNCHANGED <<policies, held, previous, torn, tangled, mirror, undo>>
<1> DEFINE p == This(w).policy
           s == This(w).set
           v == This(w).version
           e == Taken(w)
<1>0. Doing(w, "rule") /\ OnwardAfterAll(w, install_set) /\ {"rule", "sweep"} \subseteq Updating /\ p \in policies
  BY DEF install_rule, Updating, There
<1>1. job[w] # <<>> /\ This(w).do = "rule" /\ FitsNow(This(w)) /\ ThingFits(This(w)) /\ JobsInv
  BY <1>0, AtThing DEF Inv
<1>2. p \in Policies /\ s \in Sets /\ v \in 1..mirror[s] /\ v \in 1..Latest(s) /\ v \in Nat BY <1>0, AtVersion
<1>3. This(w).rest \in SUBSET File[s][v] /\ This(w).rest # {} BY <1>1 DEF ThingFits
<1>4. e \in This(w).rest /\ e \in File[s][v] /\ Others(w) \subseteq This(w).rest BY <1>3, TakenIs
<1>5. e \in Ext /\ e \in RulesOf(s) /\ SetOf(e) = s BY <1>2, <1>4, InFile
<1>6. UNCHANGED <<policies, held, previous, torn, tangled, published, mirror, undo>>
  BY DEF install_rule, Quiet, Still, channel
<1> DEFINE row == Written(rows[p][e], v, TRUE)
<1>7. rows[p][e] \in Row \cup {None} BY <1>2, <1>5 DEF Inv, TablesInv, RowsFit
<1>8. /\ row \in Row /\ row # None /\ row.text = v /\ row.claimed
      /\ rows[p][e] # None => row.on = rows[p][e].on
  BY <1>2, <1>7, WrittenIs
<1>9. rows' = [rows EXCEPT ![p][e] = row] BY <1>2, <1>5 DEF install_rule, Inv, TablesInv, RowsFit
<1> HIDE DEF row
<1>10. RowFits(SetOf(e), e, row) BY <1>2, <1>4, <1>5, <1>8 DEF RowFits
<1>11. /\ RowsFit'
       /\ \A q \in Policies \ {p} : rows'[q] = rows[q]
       /\ \A x \in Ext : rows'[p][x] = IF x = e THEN row ELSE rows[p][x]
  <2>1. RowsFit /\ UNCHANGED <<policies, mirror>> BY <1>6 DEF Inv, TablesInv
  <2>2. row \in Row \cup {None} BY <1>8
  <2> HIDE DEF p, s, v, e
  <2> QED BY <1>0, <1>2, <1>5, <1>9, <1>10, <2>1, <2>2, RowPut
<1>12. hand' = [hand EXCEPT ![p] = hand[p] \ {e}] BY DEF install_rule
<1>13. /\ hand' \in [Policies -> SUBSET Ext] /\ hand'[p] = hand[p] \ {e}
       /\ \A q \in Policies \ {p} : hand'[q] = hand[q]
  BY <1>2, <1>12, HandNext DEF Inv, TablesInv, HistoryFits
<1>14. TablesInv'
  <2>1. HeldFits' /\ PreviousFits' BY <1>6, HeldSame, PreviousSame DEF Inv, TablesInv
  <2>2. ChannelFits' /\ HistoryFits' BY <1>6, <1>13 DEF Inv, TablesInv, ChannelFits, HistoryFits
  <2> QED BY <1>11, <2>1, <2>2 DEF TablesInv
<1>15. Spared(w) BY <1>6, <1>11 DEF Spared
<1>16. \/ Others(w) = {} /\ Goes(w, Turned(This(w), "sweep", {}))
       \/ Others(w) # {} /\ Goes(w, Turned(This(w), "rule", Others(w)))
  BY <1>0, <1>1, InstallGoes
<1>17. \E n \in Thing : Goes(w, n) /\ FitsNow(n)'
  <2>1. PICK do \in {"rule", "sweep"}, rest \in SUBSET This(w).rest : Goes(w, Turned(This(w), do, rest))
    BY <1>4, <1>16
  <2>2. do \in Deeds /\ do \in Updating BY DEF Deeds, Updating
  <2>3. PICK n \in Thing : /\ n = Turned(This(w), do, rest)
                           /\ n.do = do /\ n.set = s /\ n.version = v
    BY <1>1, <2>2, TurnsInto
  <2>4. FitsNow(n)' BY <1>0, <1>1, <1>6, <2>2, <2>3, UpdatingNow
  <2> QED BY <2>1, <2>3, <2>4
<1>18. Inv' BY <1>1, <1>6, <1>14, <1>15, <1>17, StepKeeps
<1> QED BY <1>0, <1>4, <1>5, <1>6, <1>8, <1>11, <1>13, <1>16, <1>18

\* The set's other rules taken out (sweep).
LEMMA SweepKeeps ==
    ASSUME Inv, NEW w \in Workers, sweep(w)
    PROVE  LET p == This(w).policy
               s == This(w).set
               v == This(w).version
           IN  /\ Inv' /\ p \in Policies /\ s \in Sets
               /\ Goes(w, Turned(This(w), "record", {}))
               /\ \A q \in Policies \ {p} : rows'[q] = rows[q] /\ hand'[q] = hand[q]
               /\ \A x \in Ext : rows'[p][x] = IF x \in OfSet(p, s) \ File[s][v] THEN None ELSE rows[p][x]
               /\ hand'[p] = hand[p] \ (RulesOf(s) \ File[s][v])
               /\ UNCHANGED <<policies, held, previous, torn, tangled, mirror, undo>>
<1> DEFINE p == This(w).policy
           s == This(w).set
           v == This(w).version
<1>0. Doing(w, "sweep") /\ Onward(w, install_set) /\ {"record", "sweep"} \subseteq Updating
  BY DEF sweep, Updating
<1>1. job[w] # <<>> /\ This(w).do = "sweep" /\ FitsNow(This(w)) /\ JobsInv
  BY <1>0, AtThing DEF Inv
<1>2. p \in Policies /\ s \in Sets BY <1>0, AtVersion
<1>6. UNCHANGED <<policies, held, previous, torn, tangled, published, mirror, undo>>
  BY DEF sweep, Quiet, Still, channel
<1>9. rows' = Cleared(p, OfSet(p, s) \ File[s][v]) BY DEF sweep, Retired
<1>11. /\ RowsFit'
       /\ \A q \in Policies \ {p} : rows'[q] = rows[q]
       /\ \A x \in Ext : rows'[p][x] = IF x \in OfSet(p, s) \ File[s][v] THEN None ELSE rows[p][x]
  <2>1. RowsFit /\ UNCHANGED <<policies, mirror>> BY <1>6 DEF Inv, TablesInv
  <2>2. RowsWithout(p, OfSet(p, s) \ File[s][v]) BY ONLY <1>2, <1>9, <2>1, ClearedIs
  <2> QED BY <2>2 DEF RowsWithout
<1>12. hand' = [hand EXCEPT ![p] = hand[p] \ (RulesOf(s) \ File[s][v])] BY DEF sweep
<1>13. /\ hand' \in [Policies -> SUBSET Ext] /\ hand'[p] = hand[p] \ (RulesOf(s) \ File[s][v])
       /\ \A q \in Policies \ {p} : hand'[q] = hand[q]
  BY <1>2, <1>12, HandNext DEF Inv, TablesInv, HistoryFits
<1>14. TablesInv'
  <2>1. HeldFits' /\ PreviousFits' BY <1>6, HeldSame, PreviousSame DEF Inv, TablesInv
  <2>2. ChannelFits' /\ HistoryFits' BY <1>6, <1>13 DEF Inv, TablesInv, ChannelFits, HistoryFits
  <2> QED BY <1>11, <2>1, <2>2 DEF TablesInv
<1>15. Spared(w) BY <1>6, <1>11 DEF Spared
<1>16. Goes(w, Turned(This(w), "record", {}))
  BY <1>0, <1>1, InstallGoes
<1>17. \E n \in Thing : Goes(w, n) /\ FitsNow(n)'
  <2>2. "record" \in Deeds BY DEF Deeds, Updating
  <2>3. PICK n \in Thing : /\ n = Turned(This(w), "record", {})
                           /\ n.do = "record" /\ n.set = s /\ n.version = v
    BY <1>1, <2>2, TurnsInto
  <2>4. FitsNow(n)' BY <1>0, <1>1, <1>6, <2>3, UpdatingNow
  <2> QED BY <1>16, <2>3, <2>4
<1>18. Inv' BY <1>1, <1>6, <1>14, <1>15, <1>17, StepKeeps
<1> QED BY <1>2, <1>6, <1>11, <1>13, <1>16, <1>18

\* The version recorded (record).
LEMMA RecordKeeps ==
    ASSUME Inv, NEW w \in Workers, record(w)
    PROVE  LET p == This(w).policy
               s == This(w).set
               v == This(w).version
           IN  /\ Inv' /\ p \in policies /\ s \in Sets /\ Stops(w)
               /\ Ending(w, <<p, s>>, TRUE)
               /\ \A q \in Policies, x \in Sets : held'[q][x] = IF q = p /\ x = s THEN v ELSE held[q][x]
               /\ UNCHANGED <<policies, rows, hand, previous, tangled, mirror, undo>>
<1> DEFINE p == This(w).policy
           s == This(w).set
           v == This(w).version
<1>0. Doing(w, "record") /\ Onward(w, install_set) /\ "record" \in Updating /\ p \in policies
  BY DEF record, Updating, There
<1>1. job[w] # <<>> /\ This(w).do = "record" /\ JobsInv
  BY <1>0, AtThing DEF Inv
<1>2. p \in Policies /\ s \in Sets /\ v \in 1..mirror[s] /\ v \in Nat /\ mirror[s] \in Nat
  BY <1>0, AtVersion DEF Inv, TablesInv, ChannelFits
<1>6. UNCHANGED <<policies, rows, hand, previous, published, mirror, undo>>
  BY DEF record, Quiet, Still, channel
<1>9. held' = [held EXCEPT ![p][s] = v] BY DEF record
<1>11. /\ HeldFits'
       /\ \A q \in Policies \ {p} : held'[q] = held[q]
       /\ \A x \in Sets : held'[p][x] = IF x = s THEN v ELSE held[p][x]
  <2>1. HeldFits /\ UNCHANGED <<policies, mirror>> BY <1>6 DEF Inv, TablesInv
  <2>2. v <= mirror[s] /\ (v = 0 \/ p \in policies) BY <1>0, <1>2
  <2> HIDE DEF p, s, v
  <2> QED BY ONLY <1>2, <1>9, <2>1, <2>2, HeldNext
<1>12. <<p, s>> \in Holdings BY <1>2 DEF Holdings
<1>13. Ending(w, <<p, s>>, TRUE) BY DEF record
<1>14. /\ torn' \in SUBSET Holdings /\ tangled' = tangled /\ tangled' \in SUBSET torn'
       /\ torn' = torn \ {<<p, s>>} \/ torn' = torn \cup {<<p, s>>}
  BY <1>12, <1>13, EndingIs DEF Inv, TablesInv
<1>15. TablesInv'
  <2>1. RowsFit' /\ PreviousFits' BY <1>6, RowsSame, PreviousSame DEF Inv, TablesInv
  <2>2. ChannelFits' /\ HistoryFits' BY <1>6, <1>14 DEF Inv, TablesInv, ChannelFits, HistoryFits
  <2> QED BY <1>11, <2>1, <2>2 DEF TablesInv
<1>16. Spared(w) BY <1>6, <1>11, <1>14 DEF Spared
<1>17. Stops(w) BY <1>0, <1>1, InstallGoes
<1>18. Inv' BY <1>1, <1>6, <1>15, <1>16, <1>17, StepKeeps
<1> QED BY <1>0, <1>2, <1>6, <1>11, <1>13, <1>14, <1>17, <1>18


\* What is being put back is of the set.
LEMMA AtKept ==
    ASSUME Inv, NEW w \in Workers, NEW do \in Restoring, Doing(w, do)
    PROVE  /\ This(w).policy \in Policies /\ This(w).set \in Sets /\ w = "admin"
           /\ IsKeptOf(This(w).set, undo) /\ undo \in Kept
           /\ undo.version \in Nat /\ undo.version <= mirror[This(w).set]
           /\ undo.rules \in [Ext -> Row \cup {None}] /\ undo.hand \in SUBSET Ext /\ undo.sound \in BOOLEAN
<1>1. do \in Undoing BY DEF Undoing, Restoring
<1>2. This(w).policy \in Policies /\ This(w).set \in Sets /\ w = "admin" BY <1>1, AtHolding
<1>3. FitsNow(This(w)) /\ This(w).do = do BY AtThing
<1>4. IsKeptOf(This(w).set, undo) BY <1>3 DEF FitsNow
<1>5. mirror[This(w).set] \in Nat BY <1>2 DEF Inv, TablesInv, ChannelFits
<1> QED BY <1>2, <1>4, <1>5 DEF IsKeptOf, Kept

\* One rule put back (restore_rule).
LEMMA RestoreKeeps ==
    ASSUME Inv, NEW w \in Workers, restore_rule(w)
    PROVE  LET p == This(w).policy
               s == This(w).set
               e == Taken(w)
           IN  /\ Inv' /\ p \in policies /\ s \in Sets /\ e \in This(w).rest /\ e \in Ext /\ e \in RulesOf(s)
               /\ undo.rules[e] # None
               /\ \/ Others(w) = {} /\ Goes(w, Turned(This(w), "sweep_back", {}))
                  \/ Others(w) # {} /\ Goes(w, Turned(This(w), "restore", Others(w)))
               /\ \A q \in Policies \ {p} : rows'[q] = rows[q] /\ hand'[q] = hand[q]
               /\ \A x \in Ext \ {e} : rows'[p][x] = rows[p][x]
               /\ hand'[p] = (hand[p] \ {e}) \cup (undo.hand \cap {e})
               /\ rows'[p][e] # None /\ rows'[p][e].text = undo.rules[e].text /\ rows'[p][e].claimed
               /\ rows[p][e] # None => rows'[p][e].on = rows[p][e].on
               /\ UNCHANGED <<policies, held, previous, torn, tangled, mirror, undo>>
<1> DEFINE p == This(w).policy
           s == This(w).set
           e == Taken(w)
<1>0. Doing(w, "restore") /\ OnwardAfterAll(w, revert_set) /\ {"restore", "sweep_back"} \subseteq Restoring /\ p \in policies
  BY DEF restore_rule, Restoring, There
<1>1. job[w] # <<>> /\ This(w).do = "restore" /\ FitsNow(This(w)) /\ ThingFits(This(w)) /\ JobsInv
  BY <1>0, AtThing DEF Inv
<1>2. p \in Policies /\ s \in Sets /\ IsKeptOf(s, undo) /\ undo.rules \in [Ext -> Row \cup {None}] /\ undo.hand \in SUBSET Ext
  BY <1>0, AtKept
<1>3. This(w).rest \subseteq {x \in Ext : undo.rules[x] # None} /\ This(w).rest # {} BY <1>1 DEF ThingFits, FitsNow
<1>4. e \in This(w).rest /\ e \in Ext /\ undo.rules[e] # None /\ Others(w) \subseteq This(w).rest BY <1>3, TakenIs
<1>5. e \in RulesOf(s) /\ SetOf(e) = s /\ RowFits(s, e, undo.rules[e]) BY <1>2, <1>4, OfOneSet DEF IsKeptOf
<1>6. UNCHANGED <<policies, held, previous, torn, tangled, published, mirror, undo>>
  BY DEF restore_rule, Quiet, Still, channel
<1> DEFINE was == undo.rules[e]
           row == Written(rows[p][e], was.text, was.whole)
<1>7. rows[p][e] \in Row \cup {None} /\ was \in Row /\ was.text \in Nat /\ was.whole \in BOOLEAN
  <2>1. rows[p][e] \in Row \cup {None} BY <1>2, <1>4 DEF Inv, TablesInv, RowsFit
  <2>2. was \in Row BY <1>2, <1>4
  <2> HIDE DEF was
  <2> QED BY <2>1, <2>2 DEF Row
<1>8. /\ row \in Row /\ row # None /\ row.text = was.text /\ row.claimed
      /\ rows[p][e] # None => row.on = rows[p][e].on
  <2> HIDE DEF was
  <2> QED BY <1>7, WrittenIs
<1>9. rows' = [rows EXCEPT ![p][e] = row] BY <1>2, <1>4 DEF restore_rule, Was, Inv, TablesInv, RowsFit
<1>10. RowFits(SetOf(e), e, row)
  <2>1. was.text \in 1..mirror[s] /\ e \in File[s][was.text] BY <1>4, <1>5 DEF RowFits
  <2> HIDE DEF was, row
  <2> QED BY <1>5, <1>8, <2>1 DEF RowFits
<1> HIDE DEF row
<1>11. /\ RowsFit'
       /\ \A q \in Policies \ {p} : rows'[q] = rows[q]
       /\ \A x \in Ext : rows'[p][x] = IF x = e THEN row ELSE rows[p][x]
  <2>1. RowsFit /\ UNCHANGED <<policies, mirror>> BY <1>6 DEF Inv, TablesInv
  <2>2. row \in Row \cup {None} BY <1>8
  <2> HIDE DEF p, s, e
  <2> QED BY <1>0, <1>2, <1>4, <1>9, <1>10, <2>1, <2>2, RowPut
<1>12. hand' = [hand EXCEPT ![p] = (hand[p] \ {e}) \cup (undo.hand \cap {e})] BY DEF restore_rule, Was
<1>13. /\ hand' \in [Policies -> SUBSET Ext] /\ hand'[p] = (hand[p] \ {e}) \cup (undo.hand \cap {e})
       /\ \A q \in Policies \ {p} : hand'[q] = hand[q]
  BY <1>2, <1>12, HandNext DEF Inv, TablesInv, HistoryFits
<1>14. TablesInv'
  <2>1. HeldFits' /\ PreviousFits' BY <1>6, HeldSame, PreviousSame DEF Inv, TablesInv
  <2>2. ChannelFits' /\ HistoryFits' BY <1>6, <1>13 DEF Inv, TablesInv, ChannelFits, HistoryFits
  <2> QED BY <1>11, <2>1, <2>2 DEF TablesInv
<1>15. Spared(w) BY <1>6, <1>11 DEF Spared
<1>16. \/ Others(w) = {} /\ Goes(w, Turned(This(w), "sweep_back", {}))
       \/ Others(w) # {} /\ Goes(w, Turned(This(w), "restore", Others(w)))
  BY <1>0, <1>1, RevertGoes
<1>17. \E n \in Thing : Goes(w, n) /\ FitsNow(n)'
  <2>1. PICK do \in {"restore", "sweep_back"}, rest \in SUBSET This(w).rest : Goes(w, Turned(This(w), do, rest))
    BY <1>4, <1>16
  <2>2. do \in Deeds /\ do \in Restoring BY DEF Deeds, Undoing, Restoring
  <2>3. PICK n \in Thing : /\ n = Turned(This(w), do, rest)
                           /\ n.do = do /\ n.set = s /\ n.rest = rest
    BY <1>1, <2>2, TurnsInto
  <2>4. FitsNow(n)' BY <1>0, <1>1, <1>6, <2>2, <2>3, RestoringNow
  <2> QED BY <2>1, <2>3, <2>4
<1>18. Inv' BY <1>1, <1>6, <1>14, <1>15, <1>17, StepKeeps
<1>19. rows'[p][e] = row /\ \A x \in Ext \ {e} : rows'[p][x] = rows[p][x] BY <1>4, <1>11
<1> QED BY <1>0, <1>2, <1>4, <1>5, <1>6, <1>8, <1>11, <1>13, <1>16, <1>18, <1>19

\* What was not there taken out again (sweep_back).
LEMMA SweepBackKeeps ==
    ASSUME Inv, NEW w \in Workers, sweep_back(w)
    PROVE  LET p == This(w).policy
               s == This(w).set
               others == {e \in RulesOf(s) : undo.rules[e] = None}
           IN  /\ Inv' /\ p \in policies /\ s \in Sets
               /\ Goes(w, Turned(This(w), "put_back", {}))
               /\ \A q \in Policies \ {p} : rows'[q] = rows[q] /\ hand'[q] = hand[q]
               /\ \A x \in Ext : rows'[p][x] = IF x \in others \cap OfSet(p, s) THEN None ELSE rows[p][x]
               /\ hand'[p] = (hand[p] \ others) \cup (undo.hand \cap others)
               /\ UNCHANGED <<policies, held, previous, torn, tangled, mirror, undo>>
<1> DEFINE p == This(w).policy
           s == This(w).set
           others == {e \in RulesOf(s) : undo.rules[e] = None}
<1>0. Doing(w, "sweep_back") /\ Onward(w, revert_set) /\ {"sweep_back", "put_back"} \subseteq Restoring /\ p \in policies
  BY DEF sweep_back, Restoring, There
<1>1. job[w] # <<>> /\ This(w).do = "sweep_back" /\ FitsNow(This(w)) /\ JobsInv
  BY <1>0, AtThing DEF Inv
<1>2. p \in Policies /\ s \in Sets /\ undo.hand \in SUBSET Ext BY <1>0, AtKept
<1>6. UNCHANGED <<policies, held, previous, torn, tangled, published, mirror, undo>>
  BY DEF sweep_back, Quiet, Still, channel
<1>9. rows' = Cleared(p, others \cap OfSet(p, s)) BY DEF sweep_back, Was
<1>11. /\ RowsFit'
       /\ \A q \in Policies \ {p} : rows'[q] = rows[q]
       /\ \A x \in Ext : rows'[p][x] = IF x \in others \cap OfSet(p, s) THEN None ELSE rows[p][x]
  <2>1. RowsFit /\ UNCHANGED <<policies, mirror>> BY <1>6 DEF Inv, TablesInv
  <2> HIDE DEF p, s, others
  <2>2. RowsWithout(p, others \cap OfSet(p, s)) BY ONLY <1>2, <1>9, <2>1, ClearedIs
  <2> QED BY <2>2 DEF RowsWithout
<1>12. hand' = [hand EXCEPT ![p] = (hand[p] \ others) \cup (undo.hand \cap others)] BY DEF sweep_back, Was
<1>13. /\ hand' \in [Policies -> SUBSET Ext] /\ hand'[p] = (hand[p] \ others) \cup (undo.hand \cap others)
       /\ \A q \in Policies \ {p} : hand'[q] = hand[q]
  <2> HIDE DEF others
  <2> QED BY <1>2, <1>12, HandNext DEF Inv, TablesInv, HistoryFits
<1>14. TablesInv'
  <2>1. HeldFits' /\ PreviousFits' BY <1>6, HeldSame, PreviousSame DEF Inv, TablesInv
  <2>2. ChannelFits' /\ HistoryFits' BY <1>6, <1>13 DEF Inv, TablesInv, ChannelFits, HistoryFits
  <2> QED BY <1>11, <2>1, <2>2 DEF TablesInv
<1>15. Spared(w) BY <1>6, <1>11 DEF Spared
<1>16. Goes(w, Turned(This(w), "put_back", {})) BY <1>0, <1>1, RevertGoes
<1>17. \E n \in Thing : Goes(w, n) /\ FitsNow(n)'
  <2>2. "put_back" \in Deeds BY DEF Deeds, Undoing
  <2>3. PICK n \in Thing : n = Turned(This(w), "put_back", {}) /\ n.do = "put_back" /\ n.set = s
    BY <1>1, <2>2, TurnsInto
  <2>4. FitsNow(n)' BY <1>0, <1>1, <1>6, <2>3, RestoringNow
  <2> QED BY <1>16, <2>3, <2>4
<1>18. Inv' BY <1>1, <1>6, <1>14, <1>15, <1>17, StepKeeps
<1> QED BY <1>0, <1>2, <1>6, <1>11, <1>13, <1>16, <1>18

\* The version put back on the record (put_back).
LEMMA PutBackKeeps ==
    ASSUME Inv, NEW w \in Workers, put_back(w)
    PROVE  LET p == This(w).policy
               s == This(w).set
               v == IF held[p][s] = 0 THEN 0 ELSE undo.version
           IN  /\ Inv' /\ p \in policies /\ s \in Sets
               /\ Goes(w, Turned(This(w), "forget", {}))
               /\ Ending(w, <<p, s>>, undo.sound)
               /\ \A q \in Policies, x \in Sets : held'[q][x] = IF q = p /\ x = s THEN v ELSE held[q][x]
               /\ UNCHANGED <<policies, rows, hand, previous, tangled, mirror, undo>>
<1> DEFINE p == This(w).policy
           s == This(w).set
           v == IF held[p][s] = 0 THEN 0 ELSE undo.version
<1>0. Doing(w, "put_back") /\ Onward(w, revert_set) /\ {"put_back", "forget"} \subseteq Restoring /\ p \in policies
  BY DEF put_back, Restoring, There
<1>1. job[w] # <<>> /\ This(w).do = "put_back" /\ FitsNow(This(w)) /\ JobsInv
  BY <1>0, AtThing DEF Inv
<1>2. p \in Policies /\ s \in Sets /\ v \in Nat /\ v <= mirror[s] /\ undo.sound \in BOOLEAN
  BY <1>0, AtKept DEF Inv, TablesInv, ChannelFits
<1>6. UNCHANGED <<policies, rows, hand, previous, published, mirror, undo>>
  BY DEF put_back, Quiet, Still, channel
<1>9. held' = [held EXCEPT ![p][s] = v] BY <1>2 DEF put_back, Was, Inv, TablesInv, HeldFits
<1>11. /\ HeldFits'
       /\ \A q \in Policies \ {p} : held'[q] = held[q]
       /\ \A x \in Sets : held'[p][x] = IF x = s THEN v ELSE held[p][x]
  <2>1. HeldFits /\ UNCHANGED <<policies, mirror>> BY <1>6 DEF Inv, TablesInv
  <2>2. v <= mirror[s] /\ (v = 0 \/ p \in policies) BY <1>0, <1>2
  <2> HIDE DEF p, s, v
  <2> QED BY ONLY <1>2, <1>9, <2>1, <2>2, HeldNext
<1>12. <<p, s>> \in Holdings BY <1>2 DEF Holdings
<1>13. Ending(w, <<p, s>>, undo.sound) BY DEF put_back, Was
<1>14. /\ torn' \in SUBSET Holdings /\ tangled' = tangled /\ tangled' \in SUBSET torn'
       /\ torn' = torn \ {<<p, s>>} \/ torn' = torn \cup {<<p, s>>}
  BY <1>2, <1>12, <1>13, EndingIs DEF Inv, TablesInv
<1>15. TablesInv'
  <2>1. RowsFit' /\ PreviousFits' BY <1>6, RowsSame, PreviousSame DEF Inv, TablesInv
  <2>2. ChannelFits' /\ HistoryFits' BY <1>6, <1>14 DEF Inv, TablesInv, ChannelFits, HistoryFits
  <2> QED BY <1>11, <2>1, <2>2 DEF TablesInv
<1>16. Spared(w) BY <1>6, <1>11, <1>14 DEF Spared
<1>17. Goes(w, Turned(This(w), "forget", {})) BY <1>0, <1>1, RevertGoes
<1>18. \E n \in Thing : Goes(w, n) /\ FitsNow(n)'
  <2>2. "forget" \in Deeds BY DEF Deeds, Undoing
  <2>3. PICK n \in Thing : n = Turned(This(w), "forget", {}) /\ n.do = "forget" /\ n.set = s
    BY <1>1, <2>2, TurnsInto
  <2>4. FitsNow(n)' BY <1>0, <1>1, <1>6, <2>3, RestoringNow
  <2> QED BY <1>17, <2>3, <2>4
<1>19. Inv' BY <1>1, <1>6, <1>15, <1>16, <1>18, StepKeeps
<1>20. \A q \in Policies, x \in Sets : held'[q][x] = IF q = p /\ x = s THEN v ELSE held[q][x] BY <1>11
<1> QED BY <1>0, <1>2, <1>6, <1>13, <1>14, <1>17, <1>19, <1>20

\* What was put back forgotten (forget).
LEMMA ForgetKeeps ==
    ASSUME Inv, NEW w \in Workers, forget(w)
    PROVE  LET p == This(w).policy
               s == This(w).set
           IN  /\ Inv' /\ p \in Policies /\ s \in Sets /\ Stops(w) /\ w = "admin"
               /\ \A q \in Policies, x \in Sets : previous'[q][x] = IF q = p /\ x = s THEN None ELSE previous[q][x]
               /\ UNCHANGED <<policies, rows, hand, held, torn, tangled, mirror>>
<1> DEFINE p == This(w).policy
           s == This(w).set
<1>0. Doing(w, "forget") /\ Onward(w, revert_set) /\ "forget" \in Restoring
  BY DEF forget, Restoring
<1>1. job[w] # <<>> /\ This(w).do = "forget" /\ JobsInv
  BY <1>0, AtThing DEF Inv
<1>2. p \in Policies /\ s \in Sets /\ w = "admin" BY <1>0, AtKept
<1>6. UNCHANGED <<policies, rows, hand, held, torn, tangled, published, mirror>>
  BY DEF forget, Still, channel, history
<1>9. previous' = [previous EXCEPT ![p][s] = None] BY DEF forget
<1>11. /\ PreviousFits'
       /\ \A q \in Policies, x \in Sets : previous'[q][x] = IF q = p /\ x = s THEN None ELSE previous[q][x]
  <2>1. PreviousFits /\ mirror' = mirror BY <1>6 DEF Inv, TablesInv
  <2> HIDE DEF p, s
  <2>2. \A q \in Policies, x \in Sets : previous'[q][x] = IF q = p /\ x = s THEN None ELSE previous[q][x]
    BY ONLY <1>2, <1>9, <2>1 DEF PreviousFits
  <2>3. previous' \in [Policies -> [Sets -> Kept \cup {None}]] BY ONLY <1>2, <1>9, <2>1 DEF PreviousFits
  <2>4. ASSUME NEW q \in Policies, NEW x \in Sets, previous'[q][x] # None
        PROVE  IsKeptOf(x, previous[q][x])'
    <3>1. previous'[q][x] = previous[q][x] /\ IsKeptOf(x, previous[q][x]) BY <2>1, <2>2, <2>4 DEF PreviousFits
    <3> QED BY <2>1, <3>1 DEF IsKeptOf, RowFits
  <2> QED BY <2>2, <2>3, <2>4 DEF PreviousFits
<1>15. TablesInv'
  <2>1. RowsFit' /\ HeldFits' BY <1>6, RowsSame, HeldSame DEF Inv, TablesInv
  <2>2. ChannelFits' /\ HistoryFits' BY <1>6 DEF Inv, TablesInv, ChannelFits, HistoryFits
  <2> QED BY <1>11, <2>1, <2>2 DEF TablesInv
<1>16. Spared(w) BY <1>6 DEF Spared
<1>17. Stops(w) BY <1>0, <1>1, RevertGoes
<1>18. Inv' BY <1>1, <1>2, <1>6, <1>15, <1>16, <1>17, StepKeeps
<1> QED BY <1>2, <1>6, <1>11, <1>17, <1>18

\* The rules of a set taken out (remove).
LEMMA RemoveKeeps ==
    ASSUME Inv, NEW w \in Workers, remove(w)
    PROVE  LET p == This(w).policy
               s == This(w).set
           IN  /\ Inv' /\ p \in Policies /\ s \in Sets
               /\ Goes(w, Turned(This(w), "release", This(w).rest))
               /\ \A q \in Policies \ {p} : rows'[q] = rows[q] /\ hand'[q] = hand[q]
               /\ \A x \in Ext : rows'[p][x] = IF x \in OfSet(p, s) THEN None ELSE rows[p][x]
               /\ hand'[p] = hand[p] \ RulesOf(s)
               /\ UNCHANGED <<policies, held, previous, torn, tangled, mirror, undo>>
<1> DEFINE p == This(w).policy
           s == This(w).set
<1>0. Doing(w, "remove") /\ Onward(w, uninstall_set) /\ {"remove", "release"} \subseteq Undoing
  BY DEF remove, Undoing
<1>1. job[w] # <<>> /\ This(w).do = "remove" /\ JobsInv
  BY <1>0, AtThing DEF Inv
<1>2. p \in Policies /\ s \in Sets BY <1>0, AtHolding
<1>6. UNCHANGED <<policies, held, previous, torn, tangled, published, mirror, undo>>
  BY DEF remove, Quiet, Still, channel
<1>9. rows' = Cleared(p, OfSet(p, s)) BY DEF remove
<1>11. /\ RowsFit'
       /\ \A q \in Policies \ {p} : rows'[q] = rows[q]
       /\ \A x \in Ext : rows'[p][x] = IF x \in OfSet(p, s) THEN None ELSE rows[p][x]
  <2>1. RowsFit /\ UNCHANGED <<policies, mirror>> BY <1>6 DEF Inv, TablesInv
  <2>2. RowsWithout(p, OfSet(p, s)) BY ONLY <1>2, <1>9, <2>1, ClearedIs
  <2> QED BY <2>2 DEF RowsWithout
<1>12. hand' = [hand EXCEPT ![p] = hand[p] \ RulesOf(s)] BY DEF remove
<1>13. /\ hand' \in [Policies -> SUBSET Ext] /\ hand'[p] = hand[p] \ RulesOf(s)
       /\ \A q \in Policies \ {p} : hand'[q] = hand[q]
  BY <1>2, <1>12, HandNext DEF Inv, TablesInv, HistoryFits
<1>14. TablesInv'
  <2>1. HeldFits' /\ PreviousFits' BY <1>6, HeldSame, PreviousSame DEF Inv, TablesInv
  <2>2. ChannelFits' /\ HistoryFits' BY <1>6, <1>13 DEF Inv, TablesInv, ChannelFits, HistoryFits
  <2> QED BY <1>11, <2>1, <2>2 DEF TablesInv
<1>15. Spared(w) BY <1>6, <1>11 DEF Spared
<1>16. Goes(w, Turned(This(w), "release", This(w).rest)) BY <1>0, <1>1, UninstallGoes
<1>17. \E n \in Thing : Goes(w, n) /\ FitsNow(n)'
  <2>2. "release" \in Deeds BY DEF Deeds, Undoing
  <2>3. PICK n \in Thing : n = Turned(This(w), "release", This(w).rest) /\ n.do = "release"
    BY <1>1, <2>2, TurnsInto
  <2>4. FitsNow(n)' BY <2>3, OtherwiseNow DEF Updating, Restoring
  <2> QED BY <1>16, <2>3, <2>4
<1>18. Inv' BY <1>1, <1>6, <1>14, <1>15, <1>17, StepKeeps
<1> QED BY <1>2, <1>6, <1>11, <1>13, <1>16, <1>18

\* The record of it taken out (release).
LEMMA ReleaseKeeps ==
    ASSUME Inv, NEW w \in Workers, release(w)
    PROVE  LET p == This(w).policy
               s == This(w).set
           IN  /\ Inv' /\ p \in Policies /\ s \in Sets /\ Stops(w)
               /\ Ending(w, <<p, s>>, TRUE)
               /\ \A q \in Policies, x \in Sets : held'[q][x] = IF q = p /\ x = s THEN 0 ELSE held[q][x]
               /\ UNCHANGED <<policies, rows, hand, previous, tangled, mirror, undo>>
<1> DEFINE p == This(w).policy
           s == This(w).set
<1>0. Doing(w, "release") /\ Onward(w, uninstall_set) /\ "release" \in Undoing
  BY DEF release, Undoing
<1>1. job[w] # <<>> /\ This(w).do = "release" /\ JobsInv
  BY <1>0, AtThing DEF Inv
<1>2. p \in Policies /\ s \in Sets BY <1>0, AtHolding
<1>3. 0 <= mirror[s] BY <1>2 DEF Inv, TablesInv, ChannelFits
<1>6. UNCHANGED <<policies, rows, hand, previous, published, mirror, undo>>
  BY DEF release, Quiet, Still, channel
<1>9. held' = [held EXCEPT ![p][s] = 0] BY DEF release
<1>11. /\ HeldFits'
       /\ \A q \in Policies \ {p} : held'[q] = held[q]
       /\ \A x \in Sets : held'[p][x] = IF x = s THEN 0 ELSE held[p][x]
  <2>1. HeldFits /\ UNCHANGED <<policies, mirror>> /\ 0 \in Nat BY <1>6 DEF Inv, TablesInv
  <2> HIDE DEF p, s
  <2> QED BY ONLY <1>2, <1>3, <1>9, <2>1, HeldNext
<1>12. <<p, s>> \in Holdings BY <1>2 DEF Holdings
<1>13. Ending(w, <<p, s>>, TRUE) BY DEF release
<1>14. /\ torn' \in SUBSET Holdings /\ tangled' = tangled /\ tangled' \in SUBSET torn'
       /\ torn' = torn \ {<<p, s>>} \/ torn' = torn \cup {<<p, s>>}
  BY <1>12, <1>13, EndingIs DEF Inv, TablesInv
<1>15. TablesInv'
  <2>1. RowsFit' /\ PreviousFits' BY <1>6, RowsSame, PreviousSame DEF Inv, TablesInv
  <2>2. ChannelFits' /\ HistoryFits' BY <1>6, <1>14 DEF Inv, TablesInv, ChannelFits, HistoryFits
  <2> QED BY <1>11, <2>1, <2>2 DEF TablesInv
<1>16. Spared(w) BY <1>6, <1>11, <1>14 DEF Spared
<1>17. Stops(w) BY <1>0, <1>1, UninstallGoes
<1>18. Inv' BY <1>1, <1>6, <1>15, <1>16, <1>17, StepKeeps
<1>20. \A q \in Policies, x \in Sets : held'[q][x] = IF q = p /\ x = s THEN 0 ELSE held[q][x] BY <1>11
<1> QED BY <1>2, <1>6, <1>13, <1>14, <1>17, <1>18, <1>20

\* Applying: refused, or begun with a version that the mirror has.
LEMMA ApplyKeeps ==
    ASSUME Inv, NEW w \in Workers, apply(w)
    PROVE  /\ Inv' /\ UNCHANGED <<policies, rows, held, previous, hand, mirror, undo>>
           /\ Taken(w) \in Holdings
           /\ \/ (Stops(w) \/ Goes(w, Turned(This(w), "apply", Others(w)))) /\ UNCHANGED <<torn, tangled>>
              \/ /\ Taken(w)[1] \in policies /\ Starting(w, Taken(w))
                 /\ \E n \in Things(w) :
                       /\ Goes(w, n) /\ n.do = "snapshot" /\ <<n.policy, n.set>> = Taken(w)
                       /\ n.version = mirror[n.set]
<1>1. JobsInv /\ ChannelFits /\ HistoryFits BY DEF Inv, TablesInv
<1>2. /\ job[w] # <<>> /\ This(w) \in Things(w) /\ This(w).do = "apply"
      /\ Taken(w) \in Holdings
      /\ \/ (Stops(w) \/ Goes(w, Turned(This(w), "apply", Others(w)))) /\ UNCHANGED <<torn, tangled>>
         \/ /\ Taken(w)[1] \in policies /\ Starting(w, Taken(w))
            /\ \E n \in Things(w) :
                  /\ Goes(w, n) /\ n.do = "snapshot" /\ <<n.policy, n.set>> = Taken(w)
                  /\ n.version = mirror[n.set]
  BY <1>1, ApplyGoes
<1>3. UNCHANGED <<policies, rows, held, previous, hand, published, mirror, undo>>
  BY DEF apply, Quiet, Still, channel
<1>4. torn' \in SUBSET Holdings /\ tangled' \in SUBSET torn' /\ torn \subseteq torn'
  BY <1>1, <1>2, StartingIs DEF HistoryFits
<1>5. TablesInv'
  <2>1. RowsFit' /\ HeldFits' /\ PreviousFits' BY <1>3, RowsSame, HeldSame, PreviousSame DEF Inv, TablesInv
  <2>2. ChannelFits' /\ HistoryFits' BY <1>3, <1>4 DEF Inv, TablesInv, ChannelFits, HistoryFits
  <2> QED BY <2>1, <2>2 DEF TablesInv
<1>6. Spared(w) BY <1>3, <1>4 DEF Spared
<1>7. Stops(w) \/ \E n \in Thing : Goes(w, n) /\ FitsNow(n)'
  <2>1. CASE Stops(w) BY <2>1
  <2>2. CASE Goes(w, Turned(This(w), "apply", Others(w)))
    <3>1. "apply" \in Deeds /\ This(w) \in Thing BY <1>2, ThingsAre DEF Deeds, Plain
    <3>2. Others(w) \in SUBSET This(w).rest BY DEF Others
    <3>3. PICK n \in Thing : n = Turned(This(w), "apply", Others(w)) /\ n.do = "apply"
      BY <3>1, <3>2, TurnedIs
    <3>4. FitsNow(n)' BY <3>3, OtherwiseNow DEF Updating, Restoring
    <3> QED BY <2>2, <3>3, <3>4
  <2>3. CASE \E n \in Things(w) : Goes(w, n) /\ n.do = "snapshot" /\ <<n.policy, n.set>> = Taken(w)
                                  /\ n.version = mirror[n.set]
    <3>1. PICK n \in Things(w) : Goes(w, n) /\ n.do = "snapshot" /\ <<n.policy, n.set>> = Taken(w)
                                  /\ n.version = mirror[n.set]
      BY <2>3
    <3>2. n \in Thing /\ n.set \in Sets BY <1>2, <3>1, ThingsAre DEF Holdings
    <3>3. n.version <= mirror'[n.set] BY <1>1, <1>3, <3>1, <3>2 DEF ChannelFits
    <3>4. FitsNow(n)' BY <3>1, <3>3 DEF FitsNow, Restoring, Updating
    <3> QED BY <3>1, <3>2, <3>4
  <2> QED BY <1>2, <2>1, <2>2, <2>3
<1>8. Inv' BY <1>2, <1>3, <1>5, <1>6, <1>7, StepKeeps
<1> QED BY <1>2, <1>3, <1>8

-----------------------------------------------------------------------------
(* Rules ticked and unticked.  What is not marked as put in or taken out by hand *)
(* says what it said.                                                            *)
Alike(p, e) ==
    \/ rows[p][e] = None /\ rows'[p][e] = None
    \/ /\ rows[p][e] # None /\ rows'[p][e] # None
       /\ rows'[p][e].text = rows[p][e].text /\ rows'[p][e].claimed = rows[p][e].claimed
Gentle(p) == \A e \in Ext : e \in hand'[p] \/ (e \notin hand[p] /\ Alike(p, e))
\* What a rule says and whether it is on do not change together.
Steady(p, e) ==
    rows[p][e] # None /\ rows'[p][e] # None =>
        rows[p][e].text = rows'[p][e].text \/ rows[p][e].on = rows'[p][e].on

\* One row of one policy written by hand.
PutByHand(p, e) ==
    /\ RowsFit' /\ hand' \in [Policies -> SUBSET Ext]
    /\ \A q \in Policies : Gentle(q)
    /\ \A q \in Policies \ {p} : rows'[q] = rows[q] /\ hand'[q] = hand[q]
    /\ \A q \in Policies, x \in Ext : Steady(q, x)

\* A row put in, taken out or switched, marked as the code marks it.
LEMMA PutByHandIs ==
    ASSUME RowsFit, UNCHANGED <<policies, mirror>>, hand \in [Policies -> SUBSET Ext],
           NEW p \in Policies, NEW e \in Ext, NEW row \in Row \cup {None}, rows' = [rows EXCEPT ![p][e] = row],
           NEW marked \in BOOLEAN, hand' = [hand EXCEPT ![p] = IF marked THEN hand[p] \cup {e} ELSE hand[p]]
    PROVE  /\ row # None => p \in policies /\ RowFits(SetOf(e), e, row)
           /\ \/ marked /\ (rows[p][e] = None \/ row = None)
              \/ ~marked /\ rows[p][e] = None /\ row = None
              \/ ~marked /\ rows[p][e] # None /\ row # None
                 /\ row.text = rows[p][e].text /\ row.claimed = rows[p][e].claimed
           => PutByHand(p, e)
<1>1. /\ (row # None => p \in policies /\ RowFits(SetOf(e), e, row)) => RowsFit'
      /\ \A q \in Policies \ {p} : rows'[q] = rows[q]
      /\ \A x \in Ext : rows'[p][x] = IF x = e THEN row ELSE rows[p][x]
  BY RowPut
<1>2. PICK H \in SUBSET Ext : H = IF marked THEN hand[p] \cup {e} ELSE hand[p] OBVIOUS
<1>3. hand' \in [Policies -> SUBSET Ext] /\ hand'[p] = H /\ \A q \in Policies \ {p} : hand'[q] = hand[q]
  BY <1>2
<1>4. SUFFICES ASSUME row # None => p \in policies /\ RowFits(SetOf(e), e, row),
                      \/ marked /\ (rows[p][e] = None \/ row = None)
                      \/ ~marked /\ rows[p][e] = None /\ row = None
                      \/ ~marked /\ rows[p][e] # None /\ row # None
                         /\ row.text = rows[p][e].text /\ row.claimed = rows[p][e].claimed
               PROVE  PutByHand(p, e)
  OBVIOUS
<1>5. RowsFit' BY <1>1, <1>4
<1>6. ASSUME NEW q \in Policies, NEW x \in Ext
      PROVE  (x \in hand'[q] \/ (x \notin hand[q] /\ Alike(q, x)) ) /\ Steady(q, x)
  <2>1. CASE q # p
    <3>1. rows'[q] = rows[q] /\ hand'[q] = hand[q] BY <1>1, <1>3, <2>1
    <3> QED BY <3>1 DEF Alike, Steady
  <2>2. CASE q = p /\ x # e BY <1>1, <1>2, <1>3, <2>2 DEF Alike, Steady
  <2>3. CASE q = p /\ x = e BY <1>1, <1>2, <1>3, <1>4, <2>3 DEF Alike, Steady
  <2> QED BY <2>1, <2>2, <2>3
<1>7. \A q \in Policies : Gentle(q) BY <1>6 DEF Gentle
<1> QED BY <1>1, <1>3, <1>5, <1>6, <1>7 DEF PutByHand

\* A thing done by hand keeps the invariant.
LEMMA ByHandKeeps ==
    ASSUME Inv, NEW w \in Workers, NEW do \in ByHand, Doing(w, do), DoneAfterAll(w), PutByHand(This(w).policy, Taken(w)),
           UNCHANGED <<policies, held, previous, torn, tangled, published, mirror, undo>>
    PROVE  Inv' /\ (Stops(w) \/ Goes(w, Turned(This(w), do, Others(w))))
<1>1. job[w] # <<>> /\ This(w).do = do /\ ThingFits(This(w)) /\ JobsInv BY AtThing DEF Inv
<1>2. This(w).rest # {} /\ Others(w) \in SUBSET This(w).rest BY <1>1 DEF ThingFits, Others
<1>3. Stops(w) \/ Goes(w, Turned(This(w), do, Others(w))) BY <1>1, DoneAfterAllSteps
<1>4. TablesInv'
  <2>1. HeldFits' /\ PreviousFits' BY HeldSame, PreviousSame DEF Inv, TablesInv
  <2>2. ChannelFits' /\ HistoryFits' BY DEF Inv, TablesInv, ChannelFits, HistoryFits, PutByHand
  <2>3. RowsFit' BY DEF PutByHand
  <2> QED BY <2>1, <2>2, <2>3 DEF TablesInv
<1>5. Spared(w) BY DEF Spared, PutByHand
<1>6. ASSUME Goes(w, Turned(This(w), do, Others(w))) PROVE \E n \in Thing : Goes(w, n) /\ FitsNow(n)'
  <2>1. do \in Deeds BY DEF Deeds
  <2>2. PICK n \in Thing : n = Turned(This(w), do, Others(w)) /\ n.do = do BY <1>1, <1>2, <2>1, TurnsInto
  <2>3. FitsNow(n)' BY <2>2, OtherwiseNow DEF Updating, Restoring, ByHand
  <2> QED BY <1>6, <2>2, <2>3
<1> QED BY <1>1, <1>3, <1>4, <1>5, <1>6, StepKeeps

\* A thing done by hand: of which policy, and to which rule.
LEMMA AtHand ==
    ASSUME Inv, NEW w \in Workers, NEW do \in ByHand, Doing(w, do)
    PROVE  /\ This(w).policy \in Policies /\ Taken(w) \in Ext /\ w = "admin" /\ This(w).do = do
           /\ rows[This(w).policy][Taken(w)] \in Row \cup {None}
           /\ rows \in [Policies -> [Ext -> Row \cup {None}]]
           /\ hand \in [Policies -> SUBSET Ext] /\ RowsFit
           /\ rows[This(w).policy][Taken(w)] # None => This(w).policy \in policies
<1>1. do \in Does[w] /\ ThingFits(This(w)) /\ This(w).do = do BY AtThing
<1>2. This(w).policy \in Policies /\ This(w).rest \in SUBSET Ext /\ This(w).rest # {} BY <1>1 DEF ThingFits
<1>3. Taken(w) \in Ext BY <1>2, TakenIs
<1>4. w = "admin" BY <1>1 DEF Does, ByHand, Updating, Booting, Workers
<1> QED BY <1>1, <1>2, <1>3, <1>4 DEF Inv, TablesInv, RowsFit, HistoryFits

\* A rule ticked (add_rules_by_external_ids).
LEMMA TickKeeps ==
    ASSUME Inv, NEW w \in Workers, add_rules_by_external_ids(w)
    PROVE  /\ Inv' /\ Doing(w, "tick") /\ (Stops(w) \/ Goes(w, Turned(This(w), "tick", Others(w))))
           /\ This(w).policy \in Policies /\ PutByHand(This(w).policy, Taken(w))
           /\ UNCHANGED <<policies, held, previous, torn, tangled, mirror, undo>>
<1> DEFINE p == This(w).policy
           e == Taken(w)
           s == SetOf(e)
           row == IF rows[p][e] # None THEN [rows[p][e] EXCEPT !.on = TRUE]
                  ELSE IF e \in File[s][Shipped(s)] THEN Fresh(Shipped(s)) ELSE None
<1>0. Doing(w, "tick") /\ DoneAfterAll(w) /\ "tick" \in ByHand /\ p \in policies
  BY DEF add_rules_by_external_ids, ByHand, There
<1>1. /\ p \in Policies /\ e \in Ext /\ rows[p][e] \in Row \cup {None} /\ RowsFit
      /\ hand \in [Policies -> SUBSET Ext] /\ rows \in [Policies -> [Ext -> Row \cup {None}]]
  BY <1>0, AtHand
<1>2. UNCHANGED <<policies, held, previous, torn, tangled, published, mirror, undo>>
  BY DEF add_rules_by_external_ids, Quiet, Still, channel
<1>3. s \in Sets /\ e \in RulesOf(s) BY <1>1, OfOneSet
<1>4. Shipped(s) = mirror[s] /\ mirror[s] \in 1..Latest(s) /\ mirror[s] \in Nat /\ 1 <= mirror[s]
  BY <1>3, OfferedIs DEF Inv, TablesInv
<1>5. PICK marked \in BOOLEAN : marked = (rows[p][e] = None) OBVIOUS
<1>6. hand' = [hand EXCEPT ![p] = IF marked THEN hand[p] \cup {e} ELSE hand[p]]
  BY <1>5 DEF add_rules_by_external_ids
<1>7. rows' = [rows EXCEPT ![p][e] = row] BY <1>1 DEF add_rules_by_external_ids
<1>8. /\ row \in Row \cup {None} /\ (row # None => RowFits(s, e, row))
      /\ rows[p][e] # None => row # None /\ row.text = rows[p][e].text /\ row.claimed = rows[p][e].claimed
  <2>1. CASE rows[p][e] # None
    <3>1. row \in Row /\ row # None /\ row.text = rows[p][e].text /\ row.claimed = rows[p][e].claimed
      BY <1>1, <2>1, RuleSetsAssumption DEF Row
    <3>2. RowFits(SetOf(e), e, row)
      <4> HIDE DEF row
      <4> QED BY <1>1, <2>1, <3>1, SwitchedFits
    <3> QED BY <3>1, <3>2
  <2>2. CASE rows[p][e] = None /\ e \in File[s][Shipped(s)]
    <3>1. row = Fresh(mirror[s]) BY <1>4, <2>2
    <3>2. row \in Row /\ row.text = mirror[s] /\ row.claimed BY <1>4, <3>1, FreshIs
    <3>3. RowFits(s, e, row)
      <4> HIDE DEF row
      <4> QED BY <1>4, <2>2, <3>2 DEF RowFits
    <3> QED BY <2>2, <3>2, <3>3
  <2>3. CASE rows[p][e] = None /\ e \notin File[s][Shipped(s)] BY <2>3
  <2> QED BY <2>1, <2>2, <2>3
<1> HIDE DEF row
<1>9. PutByHand(p, e)
  <2>1. UNCHANGED <<policies, mirror>> /\ row \in Row \cup {None} BY <1>2, <1>8
  <2>2. row # None => p \in policies /\ RowFits(SetOf(e), e, row) BY <1>0, <1>8
  <2>3. \/ marked /\ (rows[p][e] = None \/ row = None)
        \/ ~marked /\ rows[p][e] = None /\ row = None
        \/ ~marked /\ rows[p][e] # None /\ row # None
           /\ row.text = rows[p][e].text /\ row.claimed = rows[p][e].claimed
    BY <1>5, <1>8
  <2> HIDE DEF p, e
  <2> QED BY ONLY <1>1, <1>6, <1>7, <2>1, <2>2, <2>3, PutByHandIs
<1>10. Inv' /\ (Stops(w) \/ Goes(w, Turned(This(w), "tick", Others(w))))
  BY <1>0, <1>2, <1>9, ByHandKeeps
<1> QED BY <1>0, <1>1, <1>2, <1>9, <1>10

\* A rule switched (switch_off_by_external_ids, switch_on).
LEMMA SwitchKeeps ==
    ASSUME Inv, NEW w \in Workers, switch_off_by_external_ids(w) \/ switch_on(w)
    PROVE  /\ Inv' /\ \E do \in ByHand : Doing(w, do) /\ (Stops(w) \/ Goes(w, Turned(This(w), do, Others(w))))
           /\ This(w).policy \in Policies /\ PutByHand(This(w).policy, Taken(w))
           /\ UNCHANGED <<policies, held, previous, torn, tangled, mirror, undo>>
<1> DEFINE p == This(w).policy
           e == Taken(w)
<1>0. PICK do \in ByHand, on \in BOOLEAN :
           /\ Doing(w, do) /\ DoneAfterAll(w)
           /\ rows' = [rows EXCEPT ![p][e] = IF @ = None THEN None ELSE [@ EXCEPT !.on = on]]
           /\ UNCHANGED <<policies, held, previous, hand, torn, tangled, published, mirror, undo>>
  <2>1. CASE switch_off_by_external_ids(w)
    <3>1. "untick" \in ByHand BY DEF ByHand
    <3> QED BY <2>1, <3>1 DEF switch_off_by_external_ids, Quiet, Still, channel, history
  <2>2. CASE switch_on(w)
    <3>1. "switch_on" \in ByHand BY DEF ByHand
    <3> QED BY <2>2, <3>1 DEF switch_on, Quiet, Still, channel, history
  <2> QED BY <2>1, <2>2
<1>1. /\ p \in Policies /\ e \in Ext /\ rows[p][e] \in Row \cup {None} /\ RowsFit
      /\ hand \in [Policies -> SUBSET Ext] /\ rows \in [Policies -> [Ext -> Row \cup {None}]]
  BY <1>0, AtHand
<1> DEFINE row == IF rows[p][e] = None THEN None ELSE [rows[p][e] EXCEPT !.on = on]
<1>5. PICK marked \in BOOLEAN : marked = FALSE OBVIOUS
<1>6. hand' = [hand EXCEPT ![p] = IF marked THEN hand[p] \cup {e} ELSE hand[p]]
  BY <1>0, <1>1, <1>5
<1>7. rows' = [rows EXCEPT ![p][e] = row] BY <1>0, <1>1
<1>8. /\ row \in Row \cup {None} /\ (row # None => p \in policies /\ RowFits(SetOf(e), e, row))
      /\ rows[p][e] = None <=> row = None
      /\ rows[p][e] # None => row.text = rows[p][e].text /\ row.claimed = rows[p][e].claimed
  <2>1. CASE rows[p][e] # None
    <3>1. row \in Row /\ row # None /\ row.text = rows[p][e].text /\ row.claimed = rows[p][e].claimed
      BY <1>1, <2>1, RuleSetsAssumption DEF Row
    <3>2. p \in policies /\ RowFits(SetOf(e), e, row)
      <4> HIDE DEF row
      <4> QED BY <1>1, <2>1, <3>1, SwitchedFits
    <3> QED BY <2>1, <3>1, <3>2
  <2>2. CASE rows[p][e] = None BY <2>2
  <2> QED BY <2>1, <2>2
<1> HIDE DEF row
<1>9. PutByHand(p, e)
  <2>1. UNCHANGED <<policies, mirror>> /\ row \in Row \cup {None} BY <1>0, <1>8
  <2>3. \/ marked /\ (rows[p][e] = None \/ row = None)
        \/ ~marked /\ rows[p][e] = None /\ row = None
        \/ ~marked /\ rows[p][e] # None /\ row # None
           /\ row.text = rows[p][e].text /\ row.claimed = rows[p][e].claimed
    BY <1>5, <1>8
  <2>4. row # None => p \in policies /\ RowFits(SetOf(e), e, row) BY <1>8
  <2> HIDE DEF p, e
  <2> QED BY ONLY <1>1, <1>6, <1>7, <2>1, <2>3, <2>4, PutByHandIs
<1>10. Inv' /\ (Stops(w) \/ Goes(w, Turned(This(w), do, Others(w))))
  BY <1>0, <1>9, ByHandKeeps
<1> QED BY <1>0, <1>1, <1>9, <1>10

\* A rule deleted: nothing of it is there.
LEMMA DropIs ==
    ASSUME RowsFit, UNCHANGED <<policies, mirror>>, hand \in [Policies -> SUBSET Ext],
           NEW p \in Policies, NEW e \in Ext, rows' = Cleared(p, {e}), hand' = [hand EXCEPT ![p] = hand[p] \cup {e}]
    PROVE  PutByHand(p, e)
<1>1. rows \in [Policies -> [Ext -> Row \cup {None}]] BY DEF RowsFit
<1>2. rows' = [rows EXCEPT ![p][e] = None] BY <1>1 DEF Cleared
<1>3. PICK marked \in BOOLEAN, row \in Row \cup {None} : marked = TRUE /\ row = None OBVIOUS
<1>4. rows' = [rows EXCEPT ![p][e] = row] BY <1>2, <1>3
<1>5. hand' = [hand EXCEPT ![p] = IF marked THEN hand[p] \cup {e} ELSE hand[p]] BY <1>3
<1>6. /\ row # None => p \in policies /\ RowFits(SetOf(e), e, row)
      /\ \/ marked /\ (rows[p][e] = None \/ row = None)
         \/ ~marked /\ rows[p][e] = None /\ row = None
         \/ ~marked /\ rows[p][e] # None /\ row # None
            /\ row.text = rows[p][e].text /\ row.claimed = rows[p][e].claimed
  BY <1>3
<1> QED BY <1>4, <1>5, <1>6, PutByHandIs

\* A rule deleted, one of several (drop).
LEMMA DropKeeps ==
    ASSUME Inv, NEW w \in Workers, drop(w)
    PROVE  /\ Inv' /\ Doing(w, "drop") /\ (Stops(w) \/ Goes(w, Turned(This(w), "drop", Others(w))))
           /\ This(w).policy \in Policies /\ PutByHand(This(w).policy, Taken(w))
           /\ UNCHANGED <<policies, held, previous, torn, tangled, mirror, undo>>
<1>0. Doing(w, "drop") /\ DoneAfterAll(w) /\ "drop" \in ByHand BY DEF drop, ByHand
<1>1. This(w).policy \in Policies /\ Taken(w) \in Ext /\ RowsFit /\ hand \in [Policies -> SUBSET Ext] BY <1>0, AtHand
<1>2. UNCHANGED <<policies, held, previous, torn, tangled, published, mirror, undo>>
  BY DEF drop, Quiet, Still, channel
<1>3. rows' = Cleared(This(w).policy, {Taken(w)}) BY DEF drop
<1>4. hand' = [hand EXCEPT ![This(w).policy] = hand[This(w).policy] \cup {Taken(w)}] BY DEF drop
<1>5. PICK p \in Policies, e \in Ext : p = This(w).policy /\ e = Taken(w) BY <1>1
<1>6. PutByHand(p, e) BY <1>1, <1>2, <1>3, <1>4, <1>5, DropIs
<1>7. Inv' /\ (Stops(w) \/ Goes(w, Turned(This(w), "drop", Others(w)))) BY <1>0, <1>2, <1>5, <1>6, ByHandKeeps
<1> QED BY <1>0, <1>1, <1>2, <1>5, <1>6, <1>7

-----------------------------------------------------------------------------
(* Policies made, copied and deleted. *)
Idly == UNCHANGED <<policies, rows, held, previous, published, mirror, hand, torn, tangled>>

\* Nothing of the tables touched, they are as they were.
LEMMA IdlySame ==
    ASSUME Inv, Idly
    PROVE  TablesInv' /\ \A w \in Workers : Spared(w)
<1>1. RowsFit' /\ HeldFits' /\ PreviousFits' BY RowsSame, HeldSame, PreviousSame DEF Inv, TablesInv, Idly
<1>2. ChannelFits' /\ HistoryFits' BY DEF Inv, TablesInv, ChannelFits, HistoryFits, Idly
<1>3. \A w \in Workers : Spared(w) BY DEF Spared, Idly
<1> QED BY <1>1, <1>2, <1>3 DEF TablesInv

\* A policy is gone: what was to be done of it is not.
LEMMA GoneKeeps ==
    ASSUME Inv, NEW w \in Workers, PolicyGone(w)
    PROVE  Inv' /\ Stops(w) /\ Idly /\ undo' = undo /\ This(w).policy \notin policies
<1>1. job[w] # <<>> /\ Done(w) /\ Idly /\ undo' = undo /\ This(w).policy \notin policies
  BY DEF PolicyGone, Doing, Idly, tables, channel, history, There
<1>2. Stops(w) BY <1>1, DoneStops DEF Inv
<1>3. TablesInv' /\ Spared(w) BY <1>1, IdlySame
<1>4. mirror' = mirror BY <1>1 DEF Idly
<1>5. Inv' BY <1>1, <1>2, <1>3, <1>4, StepKeeps
<1> QED BY <1>1, <1>2, <1>5

\* Who copies, from what and into what.
LEMMA AtCopy ==
    ASSUME Inv, NEW w \in Workers, NEW do \in Copying, Doing(w, do)
    PROVE  /\ w = "admin" /\ This(w).policy \in Policies /\ Taken(w) \in Policies /\ Taken(w) # This(w).policy
           /\ job[w] # <<>> /\ This(w).do = do /\ FitsNow(This(w)) /\ JobsInv /\ do \in Deeds
<1>1. do \in Does[w] /\ ThingFits(This(w)) /\ This(w).do = do /\ job[w] # <<>> /\ FitsNow(This(w)) BY AtThing
<1>2. w = "admin" BY <1>1 DEF Does, Copying, Updating, Booting, Workers
<1>3. PICK from \in Policies \ {This(w).policy} : This(w).rest = {from} BY <1>1 DEF ThingFits
<1>4. Taken(w) = from BY <1>3 DEF Taken
<1>5. This(w).policy \in Policies BY <1>1 DEF ThingFits
<1> QED BY <1>1, <1>2, <1>3, <1>4, <1>5 DEF Inv, Deeds

\* The rules of a policy copied (copy_rules).
LEMMA CopyRulesKeeps ==
    ASSUME Inv, NEW w \in Workers, copy_rules(w)
    PROVE  LET p == This(w).policy
           IN  /\ Inv' /\ w = "admin" /\ p \in Policies /\ Goes(w, Turned(This(w), "copy_sets", This(w).rest))
               /\ \A e \in Ext : rows[p][e] = None
               /\ \A s \in Sets : held[p][s] = 0
               /\ job["task"] \in Seq(Without(p))
               /\ \A q \in Policies \ {p} : rows'[q] = rows[q] /\ hand'[q] = hand[q]
               /\ torn' = torn \cup ({p} \X Sets) /\ tangled' = tangled \cup ({p} \X Sets)
               /\ UNCHANGED <<policies, held, previous, mirror, undo>>
<1> DEFINE p == This(w).policy
           from == Taken(w)
           f == [e \in Ext |-> Copied(rows[from][e])]
<1>0. Doing(w, "copy_rules") /\ Onward(w, copy_policy) /\ p \in policies /\ "copy_rules" \in Copying /\ "copy_sets" \in Deeds
  BY DEF copy_rules, There, Copying, Deeds
<1>1. /\ w = "admin" /\ p \in Policies /\ from \in Policies
      /\ job[w] # <<>> /\ This(w).do = "copy_rules" /\ FitsNow(This(w)) /\ JobsInv
  BY <1>0, AtCopy
<1>2. UNCHANGED <<policies, held, previous, published, mirror, undo>> BY DEF copy_rules, channel
<1>3. /\ \A e \in Ext : rows[p][e] = None
      /\ \A s \in Sets : held[p][s] = 0
      /\ job["task"] \in Seq(Without(p))
  BY <1>1 DEF FitsNow
<1>4. rows' = [rows EXCEPT ![p] = f] BY DEF copy_rules
<1>5. ASSUME NEW e \in Ext PROVE f[e] \in Row \cup {None} /\ (f[e] # None => RowFits(SetOf(e), e, f[e]))
  <2>1. rows[from][e] \in Row \cup {None} BY <1>1 DEF Inv, TablesInv, RowsFit
  <2>2. CASE rows[from][e] = None BY <2>2 DEF Copied
  <2>3. CASE rows[from][e] # None
    <3>1. f[e] \in Row /\ f[e].text = rows[from][e].text /\ f[e].claimed = rows[from][e].claimed
      BY <2>1, <2>3 DEF Copied, Row
    <3>2. RowFits(SetOf(e), e, f[e])
      <4> HIDE DEF f
      <4> QED BY <1>1, <2>3, <3>1, SwitchedFits DEF Inv, TablesInv
    <3> QED BY <3>1, <3>2
  <2> QED BY <2>2, <2>3
<1>6. f \in [Ext -> Row \cup {None}] BY <1>5
<1> HIDE DEF f
<1>7. RowsFit'
  <2>1. RowsFit /\ UNCHANGED <<policies, mirror>> BY <1>2 DEF Inv, TablesInv
  <2>2. \A e \in Ext : f[e] # None /\ f[e] # rows[p][e] => p \in policies /\ RowFits(SetOf(e), e, f[e])
    BY <1>0, <1>5
  <2> HIDE DEF p, from
  <2> QED BY ONLY <1>1, <1>4, <1>6, <2>1, <2>2, RowsNext
<1>8. \A q \in Policies \ {p} : rows'[q] = rows[q] BY <1>4 DEF Inv, TablesInv, RowsFit
<1>9. /\ hand' \in [Policies -> SUBSET Ext] /\ \A q \in Policies \ {p} : hand'[q] = hand[q]
  BY <1>1 DEF copy_rules, Inv, TablesInv, HistoryFits
<1>10. torn' = torn \cup ({p} \X Sets) /\ tangled' = tangled \cup ({p} \X Sets) BY DEF copy_rules
<1>11. TablesInv'
  <2>1. HeldFits' /\ PreviousFits' BY <1>2, HeldSame, PreviousSame DEF Inv, TablesInv
  <2>2. ChannelFits' BY <1>2 DEF Inv, TablesInv, ChannelFits
  <2>3. HistoryFits' BY <1>1, <1>9, <1>10 DEF Inv, TablesInv, HistoryFits, Holdings
  <2> QED BY <1>7, <2>1, <2>2, <2>3 DEF TablesInv
<1>12. Spared(w) BY <1>2, <1>8, <1>10 DEF Spared
<1>13. Goes(w, Turned(This(w), "copy_sets", This(w).rest)) BY <1>0, <1>1, CopyGoes
<1>14. \E n \in Thing : Goes(w, n) /\ FitsNow(n)'
  <2>1. PICK n \in Thing : /\ n = Turned(This(w), "copy_sets", This(w).rest)
                           /\ n.do = "copy_sets" /\ n.policy = p
    BY <1>0, <1>1, TurnsInto
  <2>2. job'["task"] = job["task"] BY <1>1, <1>13 DEF Goes, Heads, Elsewhere, Workers
  <2>3. job'["task"] \in Seq(Without(n.policy)) BY <1>3, <2>1, <2>2
  <2>4. \A s \in Sets : held'[n.policy][s] = 0 /\ <<n.policy, s>> \in torn'
    BY <1>2, <1>3, <1>10, <2>1
  <2>5. FitsNow(n)' BY <2>1, <2>3, <2>4 DEF FitsNow, Updating, Restoring
  <2> QED BY <1>13, <2>1, <2>5
<1>15. Inv' BY <1>1, <1>2, <1>11, <1>12, <1>14, StepKeeps
<1> QED BY <1>1, <1>2, <1>3, <1>8, <1>9, <1>10, <1>13, <1>15

\* The record of its sets copied (copy_sets).
LEMMA CopySetsKeeps ==
    ASSUME Inv, NEW w \in Workers, copy_sets(w)
    PROVE  LET p == This(w).policy
               from == Taken(w)
           IN  /\ Inv' /\ w = "admin" /\ p \in policies /\ p \in Policies /\ from \in Policies /\ from # p
               /\ Goes(w, Turned(This(w), "copy_entries", This(w).rest))
               /\ job["task"] \in Seq(Without(p))
               /\ held'[p] = held[from]
               /\ \A s \in Sets : <<p, s>> \in torn
               /\ \A q \in Policies \ {p} : held'[q] = held[q]
               /\ UNCHANGED <<policies, rows, hand, previous, mirror, undo>>
<1> DEFINE p == This(w).policy
           from == Taken(w)
<1>0. Doing(w, "copy_sets") /\ Onward(w, copy_policy) /\ p \in policies /\ "copy_sets" \in Copying /\ "copy_entries" \in Deeds
  BY DEF copy_sets, There, Copying, Deeds
<1>1. /\ w = "admin" /\ p \in Policies /\ from \in Policies /\ from # p
      /\ job[w] # <<>> /\ This(w).do = "copy_sets" /\ FitsNow(This(w)) /\ JobsInv
  BY <1>0, AtCopy
<1>2. UNCHANGED <<policies, rows, hand, previous, published, mirror, undo>> BY DEF copy_sets, Quiet, Still, channel
<1>3. (\A s \in Sets : <<p, s>> \in torn) /\ job["task"] \in Seq(Without(p)) BY <1>1 DEF FitsNow
<1>4. held' = [held EXCEPT ![p] = held[from]] BY DEF copy_sets
<1>5. /\ held'[p] = held[from] /\ \A q \in Policies \ {p} : held'[q] = held[q]
      /\ held' \in [Policies -> [Sets -> Nat]]
  BY <1>1, <1>4 DEF Inv, TablesInv, HeldFits
<1>6. HeldFits'
  <2>1. ASSUME NEW q \in Policies, NEW s \in Sets PROVE held'[q][s] <= mirror'[s] /\ (q \notin policies' => held'[q][s] = 0)
    <3>1. CASE q = p BY <1>0, <1>1, <1>2, <1>5, <3>1 DEF Inv, TablesInv, HeldFits
    <3>2. CASE q # p BY <1>2, <1>5, <3>2 DEF Inv, TablesInv, HeldFits
    <3> QED BY <3>1, <3>2
  <2> QED BY <1>5, <2>1 DEF HeldFits
<1>7. PICK fits : torn' = torn \ ({p} \X fits) /\ tangled' = tangled \ ({p} \X fits) BY DEF copy_sets
<1>8. TablesInv'
  <2>1. RowsFit' /\ PreviousFits' BY <1>2, RowsSame, PreviousSame DEF Inv, TablesInv
  <2>2. ChannelFits' BY <1>2 DEF Inv, TablesInv, ChannelFits
  <2>3. HistoryFits' BY <1>2, <1>7 DEF Inv, TablesInv, HistoryFits
  <2> QED BY <1>6, <2>1, <2>2, <2>3 DEF TablesInv
<1>9. Spared(w) BY <1>2, <1>5, <1>7 DEF Spared
<1>10. Goes(w, Turned(This(w), "copy_entries", This(w).rest)) BY <1>0, <1>1, CopyGoes
<1>11. \E n \in Thing : Goes(w, n) /\ FitsNow(n)'
  <2>1. PICK n \in Thing : n = Turned(This(w), "copy_entries", This(w).rest) /\ n.do = "copy_entries"
    BY <1>0, <1>1, TurnsInto
  <2>2. FitsNow(n)' BY <2>1, OtherwiseNow DEF Updating, Restoring
  <2> QED BY <1>10, <2>1, <2>2
<1>12. Inv' BY <1>1, <1>2, <1>8, <1>9, <1>11, StepKeeps
<1> QED BY <1>0, <1>1, <1>2, <1>3, <1>5, <1>10, <1>12

\* Lists and the site: nothing of the rules.
LEMMA ListKeeps ==
    ASSUME Inv, NEW w \in Workers, copy_entries(w) \/ enter(w) \/ attach_site(w)
    PROVE  Inv' /\ Idly /\ undo' = undo /\ job[w] # <<>>
           /\ \/ Stops(w)
              \/ \E n \in Thing : Goes(w, n) /\ n.do = "enter"
<1>1. job[w] # <<>> /\ JobsInv BY DEF copy_entries, enter, attach_site, Doing, Inv
<1>2. Idly /\ undo' = undo BY DEF copy_entries, enter, attach_site, Idly, channel, history
<1>3. Stops(w) \/ \E n \in Thing : Goes(w, n) /\ n.do = "enter"
  <2>1. CASE copy_entries(w)
    <3>1. This(w).do = "copy_entries" /\ Onward(w, copy_policy) BY <2>1 DEF copy_entries, Doing, This
    <3> QED BY <1>1, <3>1, CopyGoes
  <2>2. CASE enter(w)
    <3>1. This(w).do = "enter" /\ DoneAfterAll(w) BY <2>2 DEF enter, Doing, This
    <3>2. Stops(w) \/ Goes(w, Turned(This(w), "enter", Others(w))) BY <1>1, <3>1, DoneAfterAllSteps
    <3>3. Others(w) \in SUBSET This(w).rest /\ "enter" \in Deeds BY DEF Others, Deeds, Plain
    <3>4. PICK n \in Thing : n = Turned(This(w), "enter", Others(w)) /\ n.do = "enter" BY <1>1, <3>3, TurnsInto
    <3> QED BY <3>2, <3>4
  <2>3. CASE attach_site(w) BY <1>1, <2>3, DoneStops DEF attach_site
  <2> QED BY <2>1, <2>2, <2>3
<1>4. TablesInv' /\ Spared(w) BY <1>2, IdlySame
<1>5. Stops(w) \/ \E n \in Thing : Goes(w, n) /\ FitsNow(n)'
  BY <1>3, OtherwiseNow DEF Updating, Restoring
<1>6. mirror' = mirror BY <1>2 DEF Idly
<1>7. Inv' BY <1>1, <1>2, <1>4, <1>5, <1>6, StepKeeps
<1> QED BY <1>1, <1>2, <1>3, <1>7

\* A policy deleted (delete_policy).
LEMMA DeleteKeeps ==
    ASSUME Inv, NEW w \in Workers, delete_policy(w)
    PROVE  LET p == This(w).policy
           IN  /\ Inv' /\ w = "admin" /\ p \in Policies /\ Stops(w)
               /\ policies' = policies \ {p}
               /\ \A e \in Ext : rows'[p][e] = None
               /\ \A q \in Policies \ {p} : rows'[q] = rows[q] /\ hand'[q] = hand[q] /\ held'[q] = held[q]
               /\ \A q \in Policies, s \in Sets : previous'[q][s] = IF q = p THEN None ELSE previous[q][s]
               /\ torn' = torn \ ({p} \X Sets) /\ tangled' = tangled \ ({p} \X Sets)
               /\ mirror' = mirror /\ undo' = undo
<1> DEFINE p == This(w).policy
<1>0. Doing(w, "delete") /\ Done(w) BY DEF delete_policy
<1>1. job[w] # <<>> /\ This(w).do = "delete" /\ "delete" \in Does[w] /\ ThingFits(This(w)) /\ JobsInv BY <1>0, AtThing DEF Inv
<1>2. p \in Policies /\ w = "admin" BY <1>1 DEF ThingFits, Does, Workers, Updating, Booting
<1>3. UNCHANGED <<published, mirror, undo>> BY DEF delete_policy, channel
<1>4. /\ rows' = [rows EXCEPT ![p] = [e \in Ext |-> None]]
      /\ held' = [held EXCEPT ![p] = [s \in Sets |-> 0]]
      /\ previous' = [previous EXCEPT ![p] = [s \in Sets |-> None]]
      /\ hand' = [hand EXCEPT ![p] = {}]
      /\ policies' = policies \ {p}
      /\ torn' = torn \ ({p} \X Sets) /\ tangled' = tangled \ ({p} \X Sets)
  BY DEF delete_policy
<1>5. /\ rows' \in [Policies -> [Ext -> Row \cup {None}]]
      /\ \A e \in Ext : rows'[p][e] = None
      /\ \A q \in Policies \ {p} : rows'[q] = rows[q]
  BY <1>2, <1>4 DEF Inv, TablesInv, RowsFit
<1>6. RowsFit'
  <2>1. policies' \in SUBSET Policies BY <1>4 DEF Inv, TablesInv, RowsFit
  <2>2. \A q \in Policies \ policies', e \in Ext : rows'[q][e] = None BY <1>4, <1>5 DEF Inv, TablesInv, RowsFit
  <2>3. ASSUME NEW q \in Policies, NEW s \in Sets, NEW e \in RulesOf(s) PROVE RowFits(s, e, rows[q][e])'
    <3>0. e \in Ext BY RuleSetsAssumption
    <3>1. CASE q = p BY <1>5, <3>0, <3>1 DEF RowFits
    <3>2. CASE q # p
      <4>1. RowFits(s, e, rows[q][e]) BY DEF Inv, TablesInv, RowsFit
      <4> QED BY <1>3, <1>5, <3>2, <4>1 DEF RowFits
    <3> QED BY <3>1, <3>2
  <2> QED BY <1>5, <2>1, <2>2, <2>3 DEF RowsFit
<1>7. /\ held' \in [Policies -> [Sets -> Nat]] /\ \A s \in Sets : held'[p][s] = 0
      /\ \A q \in Policies \ {p} : held'[q] = held[q]
  BY <1>2, <1>4 DEF Inv, TablesInv, HeldFits
<1>8. HeldFits'
  <2>1. ASSUME NEW q \in Policies, NEW s \in Sets PROVE held'[q][s] <= mirror'[s] /\ (q \notin policies' => held'[q][s] = 0)
    <3>1. CASE q = p BY <1>3, <1>7, <3>1 DEF Inv, TablesInv, ChannelFits
    <3>2. CASE q # p BY <1>3, <1>4, <1>7, <3>2 DEF Inv, TablesInv, HeldFits
    <3> QED BY <3>1, <3>2
  <2> QED BY <1>7, <2>1 DEF HeldFits
<1>9. /\ previous' \in [Policies -> [Sets -> Kept \cup {None}]]
      /\ \A q \in Policies, s \in Sets : previous'[q][s] = IF q = p THEN None ELSE previous[q][s]
  BY <1>2, <1>4 DEF Inv, TablesInv, PreviousFits
<1>10. PreviousFits'
  <2>1. ASSUME NEW q \in Policies, NEW s \in Sets, previous'[q][s] # None PROVE IsKeptOf(s, previous[q][s])'
    <3>1. previous'[q][s] = previous[q][s] /\ IsKeptOf(s, previous[q][s])
      BY <1>9, <2>1 DEF Inv, TablesInv, PreviousFits
    <3> QED BY <1>3, <3>1 DEF IsKeptOf, RowFits
  <2> QED BY <1>9, <2>1 DEF PreviousFits
<1>11. hand' \in [Policies -> SUBSET Ext] /\ \A q \in Policies \ {p} : hand'[q] = hand[q]
  BY <1>2, <1>4 DEF Inv, TablesInv, HistoryFits
<1>12. TablesInv'
  <2>1. ChannelFits' BY <1>3 DEF Inv, TablesInv, ChannelFits
  <2>2. HistoryFits' BY <1>4, <1>11 DEF Inv, TablesInv, HistoryFits
  <2> QED BY <1>6, <1>8, <1>10, <2>1, <2>2 DEF TablesInv
<1>13. Spared(w) BY <1>4, <1>5, <1>7 DEF Spared
<1>14. Stops(w) BY <1>0, <1>1, DoneStops
<1>15. Inv' BY <1>1, <1>3, <1>12, <1>13, <1>14, StepKeeps
<1> QED BY <1>2, <1>3, <1>4, <1>5, <1>7, <1>9, <1>11, <1>14, <1>15

-----------------------------------------------------------------------------
(* The task: the channel, and what there is to do at a start. *)
\* A mirror that grows unsettles nothing.
LEMMA Grows ==
    ASSUME Inv, UNCHANGED <<policies, rows, held, previous, hand, torn, tangled>>, ChannelFits',
           \A s \in Sets : mirror[s] <= mirror'[s]
    PROVE  TablesInv' /\ \A w \in Workers : Spared(w)
<1>1. \A s \in Sets : mirror[s] \in Nat /\ mirror'[s] \in Nat BY DEF Inv, TablesInv, ChannelFits
<1>2. ASSUME NEW s \in Sets, NEW e, NEW row, RowFits(s, e, row), row = None \/ row \in Row
      PROVE  row = None \/ (row.text \in 1..mirror'[s] /\ e \in File[s][row.text] /\ (row.claimed \/ row.text = 1))
  <2>1. CASE row = None BY <2>1
  <2>2. CASE row # None
    <3>1. row.text \in Nat /\ 1 <= row.text /\ row.text <= mirror[s] BY <1>1, <1>2, <2>2 DEF RowFits, Row
    <3> QED BY <1>1, <1>2, <3>1 DEF RowFits
  <2> QED BY <2>1, <2>2
<1>3. RowsFit'
  <2>1. ASSUME NEW p \in Policies, NEW s \in Sets, NEW e \in RulesOf(s) PROVE RowFits(s, e, rows[p][e])'
    <3>1. RowFits(s, e, rows[p][e]) BY DEF Inv, TablesInv, RowsFit
    <3>2. e \in Ext BY RuleSetsAssumption
    <3>3. rows[p][e] = None \/ rows[p][e] \in Row BY <3>2 DEF Inv, TablesInv, RowsFit
    <3> QED BY <1>2, <3>1, <3>3 DEF RowFits
  <2> QED BY <2>1 DEF Inv, TablesInv, RowsFit
<1>4. HeldFits' BY <1>1 DEF Inv, TablesInv, HeldFits
<1>5. ASSUME NEW p \in Policies, NEW s \in Sets, previous[p][s] # None PROVE IsKeptOf(s, previous[p][s])'
  <2>1. IsKeptOf(s, previous[p][s]) /\ previous[p][s] \in Kept BY <1>5 DEF Inv, TablesInv, PreviousFits, IsKeptOf
  <2>2. previous[p][s].version \in 1..mirror'[s] BY <1>1, <2>1 DEF IsKeptOf
  <2>3. ASSUME NEW e \in RulesOf(s) PROVE RowFits(s, e, previous[p][s].rules[e])'
    <3>1. e \in Ext BY RuleSetsAssumption
    <3>2. previous[p][s].rules[e] = None \/ previous[p][s].rules[e] \in Row BY <2>1, <3>1 DEF Kept
    <3>3. RowFits(s, e, previous[p][s].rules[e]) BY <2>1 DEF IsKeptOf
    <3> QED BY <1>2, <3>2, <3>3 DEF RowFits
  <2> QED BY <2>1, <2>2, <2>3 DEF IsKeptOf
<1>6. PreviousFits' BY <1>5 DEF Inv, TablesInv, PreviousFits
<1>7. HistoryFits' BY DEF Inv, TablesInv, HistoryFits
<1>8. \A w \in Workers : Spared(w) BY DEF Spared
<1> QED BY <1>3, <1>4, <1>6, <1>7, <1>8 DEF TablesInv

\* The head of a list fits as long as nothing it is about has moved.
LEMMA FitsStill ==
    ASSUME NEW t, FitsNow(t), UNCHANGED <<rows, held, mirror, torn, job, undo>>
    PROVE  FitsNow(t)'
<1>1. UNCHANGED <<rows, held, mirror, torn, job, undo>> OBVIOUS
<1>2. \A s, e, row : RowFits(s, e, row)' <=> RowFits(s, e, row) BY ONLY <1>1 DEF RowFits
<1>3. \A s : IsKeptOf(s, undo)' <=> IsKeptOf(s, undo) BY ONLY <1>1, <1>2, Zenon DEF IsKeptOf
<1>4. ClaimFits(t)' <=> ClaimFits(t) BY ONLY <1>1 DEF ClaimFits
<1> QED BY ONLY FitsNow(t), <1>1, <1>3, <1>4, Zenon DEF FitsNow

LEMMA HeadFitsStill ==
    ASSUME NEW w, HeadFits(w), UNCHANGED <<rows, held, mirror, torn, job, undo>>
    PROVE  HeadFits(w)'
<1>1. PICK t : t = This(w) OBVIOUS
<1>2. job'[w] = job[w] /\ This(w)' = t BY <1>1 DEF This
<1>3. job[w] # <<>> => FitsNow(t) BY <1>1 DEF HeadFits
<1>4. job[w] # <<>> => FitsNow(t)' BY <1>3, FitsStill
<1> QED BY <1>2, <1>4 DEF HeadFits

\* The version offered may only go up.
LEMMA PublishKeeps ==
    ASSUME Inv, Publish
    PROVE  Inv' /\ job' = job /\ undo' = undo /\ UNCHANGED <<policies, rows, held, previous, hand, torn, tangled, mirror>>
<1>1. job' = job /\ undo' = undo /\ UNCHANGED <<policies, rows, held, previous, hand, torn, tangled, mirror>>
  BY DEF Publish, tables, history
<1>2. PICK s \in Sets : published[s] < Latest(s) /\ published' = [published EXCEPT ![s] = @ + 1] BY DEF Publish
<1>3. \A x \in Sets : Latest(x) \in Nat BY RuleSetsAssumption DEF Latest
<1>4. ChannelFits' BY <1>1, <1>2, <1>3 DEF Inv, TablesInv, ChannelFits
<1>5. TablesInv'
  <2>1. \A x \in Sets : mirror[x] <= mirror'[x] BY <1>1 DEF Inv, TablesInv, ChannelFits
  <2> QED BY <1>1, <1>4, <2>1, Grows
<1>6. JobsInv' BY <1>1 DEF Inv, JobsInv, JobsFit, BootsAlone, This
<1>7. HeadFits("admin")' /\ HeadFits("task")' BY <1>1, HeadFitsStill DEF Inv
<1> QED BY <1>1, <1>5, <1>6, <1>7 DEF Inv

\* The manifest read, or not (check).
LEMMA CheckKeeps ==
    ASSUME Inv, check
    PROVE  Inv' /\ Stops("task") /\ Idly /\ undo' = undo
<1>1. job["task"] # <<>> /\ Done("task") /\ Idly /\ undo' = undo /\ "task" \in Workers
  BY DEF check, Doing, Idly, tables, history, Workers
<1>2. Stops("task") BY <1>1, DoneStops DEF Inv
<1>3. TablesInv' /\ Spared("task") BY <1>1, IdlySame
<1>4. mirror' = mirror BY <1>1 DEF Idly
<1>5. Inv' BY <1>1, <1>2, <1>3, <1>4, StepKeeps
<1> QED BY <1>1, <1>2, <1>5

\* The administrator's work, with a mirror that has grown.
LEMMA AdminGrown ==
    ASSUME Inv, job'["admin"] = job["admin"], undo' = undo, KeepsOff("task"),
           UNCHANGED <<policies, rows, held, previous, hand, torn, tangled>>, ChannelFits', TablesInv',
           \A s \in Sets : mirror[s] <= mirror'[s]
    PROVE  HeadFits("admin")'
<1> SUFFICES ASSUME job["admin"] # <<>> PROVE FitsNow(This("admin"))'
  BY DEF HeadFits, This
<1> DEFINE u == This("admin")
<1>1. PICK t : t = This("admin") OBVIOUS
<1>2. t \in Things("admin") /\ t.do \in Does["admin"] /\ ThingFits(t) /\ FitsNow(t)
  BY <1>1, ThisIs DEF Inv, HeadFits, Workers
<1>3. t.do \notin {"claim", "adopt"} BY <1>2 DEF Does, ByHand, Updating, Undoing, Copying
<1>4. t.do \in Updating => t.version <= mirror'[t.set]
  <2>1. t.do \in Updating => OfVersion(t) /\ t.version <= mirror[t.set] BY <1>2 DEF ThingFits, FitsNow
  <2>2. \A s \in Sets : mirror[s] \in Nat /\ mirror'[s] \in Nat /\ \A v \in 1..Latest(s) : v \in Int
    BY DEF Inv, TablesInv, ChannelFits
  <2> QED BY <2>1, <2>2 DEF OfVersion, OfHolding
<1>5. t.do \in Restoring => IsKeptOf(t.set, undo)'
  <2>1. SUFFICES ASSUME t.do \in Restoring PROVE IsKeptOf(t.set, undo)' OBVIOUS
  <2>2. t.set \in Sets /\ IsKeptOf(t.set, undo) BY <1>2, <2>1 DEF FitsNow, ThingFits, OfHolding, Undoing, Restoring
  <2>3. undo \in Kept BY <2>2 DEF IsKeptOf
  <2>4. \A s \in Sets : mirror[s] \in Nat /\ mirror'[s] \in Nat BY DEF Inv, TablesInv, ChannelFits
  <2>5. undo.version \in 1..mirror'[t.set] BY <2>2, <2>4 DEF IsKeptOf
  <2>6. ASSUME NEW e \in RulesOf(t.set) PROVE RowFits(t.set, e, undo.rules[e])'
    <3>1. e \in Ext BY <2>2, RuleSetsAssumption
    <3>2. undo.rules[e] = None \/ undo.rules[e] \in Row BY <2>3, <3>1 DEF Kept
    <3>3. RowFits(t.set, e, undo.rules[e]) BY <2>2 DEF IsKeptOf
    <3>4. CASE undo.rules[e] = None BY <3>4 DEF RowFits
    <3>5. CASE undo.rules[e] # None
      <4>1. undo.rules[e].text \in Nat /\ 1 <= undo.rules[e].text /\ undo.rules[e].text <= mirror[t.set]
        BY <2>2, <2>4, <3>2, <3>3, <3>5 DEF RowFits, Row
      <4>2. undo.rules[e].text \in 1..mirror'[t.set] BY <2>2, <2>4, <4>1
      <4> QED BY <3>3, <3>5, <4>2 DEF RowFits
    <3> QED BY <3>4, <3>5
  <2> QED BY <2>2, <2>3, <2>5, <2>6 DEF IsKeptOf
<1>6. t.do \in Copying => job'["task"] \in Seq(Without(t.policy)) \/ job["task"] \notin Seq(Without(t.policy))
  BY <1>2 DEF KeepsOff, ThingFits
<1>7. FitsNow(t)'
  BY <1>2, <1>3, <1>4, <1>5, <1>6 DEF FitsNow, Copying
<1> QED BY <1>1, <1>7 DEF This

\* The mirror brought up to date, or not (sync_cache).
LEMMA SyncKeeps ==
    ASSUME Inv, sync_cache
    PROVE  /\ Inv' /\ Stops("task") /\ undo' = undo
           /\ UNCHANGED <<policies, rows, held, previous, hand, torn, tangled>>
           /\ \A s \in Sets : mirror[s] <= mirror'[s]
<1>1. /\ job["task"] # <<>> /\ Done("task") /\ undo' = undo /\ "task" \in Workers
      /\ UNCHANGED <<policies, rows, held, previous, hand, torn, tangled, published>>
      /\ mirror' = published \/ mirror' = mirror
  BY DEF sync_cache, Doing, tables, history, Workers
<1>2. Stops("task") BY <1>1, DoneStops DEF Inv
<1>3. ChannelFits' /\ \A s \in Sets : mirror[s] <= mirror'[s]
  BY <1>1 DEF Inv, TablesInv, ChannelFits
<1>4. TablesInv' BY <1>1, <1>3, Grows
<1>5. JobsInv' /\ KeepsOff("task") /\ job'["admin"] = job["admin"] /\ (job'["task"] = <<>> \/ This("task")' \in Queued("task"))
  BY <1>2 DEF Stops, Rests, Elsewhere, Workers
<1>6. HeadFits("task")' BY <1>1, <1>5, RestingFits
<1>7. HeadFits("admin")' BY <1>1, <1>3, <1>4, <1>5, AdminGrown
<1> QED BY <1>1, <1>2, <1>3, <1>4, <1>5, <1>6, <1>7 DEF Inv

\* A round begins.
LEMMA RoundKeeps ==
    ASSUME Inv, CheckTask
    PROVE  Inv' /\ Idly /\ undo' = undo /\ \E n \in Things("task") : Goes("task", n) /\ n.do = "check"
<1>1. Idly /\ undo' = undo BY DEF CheckTask, Idly, tables, channel, history
<1>2. PICK n \in Things("task") : Goes("task", n) /\ n.do = "check" BY CheckTaskHeads DEF Inv
<1>3. TablesInv' BY <1>1, IdlySame
<1>4. FitsNow(n)' BY <1>2, OtherwiseNow DEF Updating, Restoring
<1>5. HeadFits("task")' BY <1>2, <1>4 DEF HeadFits, Goes, Heads
<1>6. job'["admin"] = job["admin"] /\ JobsInv' /\ KeepsOff("task") BY <1>2 DEF Goes, Heads, Elsewhere, Workers
<1>7. HeadFits("admin")'
  <2>1. \A p \in Policies : job["task"] \in Seq(Without(p)) =>
           /\ job'["task"] \in Seq(Without(p))
           /\ rows'[p] = rows[p] /\ held'[p] = held[p]
           /\ \A s \in Sets : <<p, s>> \in torn => <<p, s>> \in torn'
    BY <1>1, <1>6 DEF KeepsOff, Idly
  <2> QED BY <1>1, <1>6, <2>1, AdminAside DEF Inv, Idly
<1> QED BY <1>1, <1>2, <1>3, <1>5, <1>6, <1>7 DEF Inv

\* What is applied by itself is of a policy that holds something.
LEMMA AutoKeeps ==
    ASSUME Inv, AutoApply
    PROVE  Inv' /\ Idly /\ undo' = undo /\ Rests("task") /\ Doing("task", "automatic")
<1>1. Idly /\ undo' = undo /\ Doing("task", "automatic") BY DEF AutoApply, Idly, tables, channel, history
<1>2. policies \subseteq Policies BY DEF Inv, TablesInv, RowsFit
<1>3. /\ Rests("task")
      /\ \A p \in Policies : (\A s \in Sets : held[p][s] = 0) /\ job["task"] \in Seq(Without(p)) =>
             job'["task"] \in Seq(Without(p))
  BY <1>2, AutoApplyRests DEF Inv
<1>4. TablesInv' BY <1>1, IdlySame
<1>5. "task" \in Workers /\ "admin" \in Workers BY DEF Workers
<1>6. HeadFits("task")' BY <1>3, <1>5, RestingFits DEF Rests
<1>7. job'["admin"] = job["admin"] /\ JobsInv' BY <1>3 DEF Rests, Elsewhere, Workers
<1>8. HeadFits("admin")'
  <2> SUFFICES ASSUME job["admin"] # <<>> PROVE FitsNow(This("admin"))'
    BY <1>7 DEF HeadFits
  <2>1. PICK t : t = This("admin") OBVIOUS
  <2>2. t.do \in Does["admin"] /\ ThingFits(t) /\ FitsNow(t)
    BY <1>5, <2>1, ThisIs DEF Inv, HeadFits
  <2>3. t.do \notin {"claim", "adopt"} BY <2>2 DEF Does, ByHand, Updating, Undoing, Copying
  <2>4. t.do \in {"copy_rules", "copy_sets"} => job'["task"] \in Seq(Without(t.policy))
    <3>1. t.do \in {"copy_rules", "copy_sets"} =>
             t.policy \in Policies /\ job["task"] \in Seq(Without(t.policy)) /\ \A s \in Sets : held[t.policy][s] = 0
      BY <2>2 DEF FitsNow, ThingFits, Copying
    <3> QED BY <1>3, <3>1
  <2>5. t.do \in Restoring => IsKeptOf(t.set, undo)' BY <1>1, <2>2 DEF FitsNow, IsKeptOf, RowFits, Idly
  <2>6. FitsNow(t)' BY <1>1, <2>2, <2>3, <2>4, <2>5 DEF FitsNow, Idly
  <2> QED BY <1>7, <2>1, <2>6 DEF This
<1> QED BY <1>1, <1>3, <1>4, <1>6, <1>7, <1>8 DEF Inv

\* At a start: nobody else is at anything.
LEMMA AtStart ==
    ASSUME Inv, NEW do \in Booting, Doing("task", do)
    PROVE  /\ job["task"] # <<>> /\ This("task") \in Thing /\ This("task").do = do /\ do \in Deeds
           /\ ThingFits(This("task")) /\ FitsNow(This("task")) /\ JobsInv
           /\ job["admin"] = <<>> /\ "task" \in Workers
<1>1. "task" \in Workers BY DEF Workers
<1>2. /\ job["task"] # <<>> /\ This("task") \in Thing /\ This("task").do = do /\ do \in Does["task"]
      /\ ThingFits(This("task")) /\ FitsNow(This("task"))
  BY <1>1, AtThing
<1>3. This("task") \in Boots BY <1>2 DEF Boots
<1>4. job["task"] \notin Seq(Thing \ Boots) BY <1>2, <1>3, Rest DEF This
<1> QED BY <1>1, <1>2, <1>4 DEF Inv, JobsInv, BootsAlone, Deeds

\* With the tables sound, and the task's next thing.
LEMMA StartKeeps ==
    ASSUME Inv, job["admin"] = <<>>, TablesInv',
           \/ Rests("task")
           \/ \E n \in Thing : Heads("task", n) /\ FitsNow(n)'
    PROVE  Inv'
<1>1. "task" \in Workers BY DEF Workers
<1>2. JobsInv' /\ job'["admin"] = <<>> BY DEF Rests, Heads, Elsewhere, Workers
<1>3. HeadFits("admin")' BY <1>2 DEF HeadFits
<1>4. CASE Rests("task")
  <2>1. HeadFits("task")' BY <1>1, <1>4, RestingFits DEF Rests
  <2> QED BY <1>2, <1>3, <2>1 DEF Inv
<1>5. CASE \E n \in Thing : Heads("task", n) /\ FitsNow(n)'
  <2>1. HeadFits("task")' BY <1>5 DEF HeadFits, Heads
  <2> QED BY <1>2, <1>3, <2>1 DEF Inv
<1> QED BY <1>4, <1>5

\* A holding looked at, at a start (backfill_rule_sets).
LEMMA BackfillKeeps ==
    ASSUME Inv, backfill_rule_sets
    PROVE  Inv' /\ Idly /\ undo' = undo /\ job["admin"] = <<>> /\ job'["admin"] = <<>> /\ Doing("task", "backfill")
           /\ \/ Rests("task")
              \/ \E n \in Thing : Heads("task", n) /\ n.do \in {"backfill", "claim"}
<1>1. Idly /\ undo' = undo /\ Doing("task", "backfill")
  BY DEF backfill_rule_sets, Quiet, Still, Idly, channel, history
<1>2. /\ job["task"] # <<>> /\ This("task").do = "backfill" /\ job["admin"] = <<>>
      /\ \/ Stops("task")
         \/ Goes("task", Turned(This("task"), "backfill", Others("task")))
         \/ \E n \in Things("task") :
               /\ Heads("task", n) /\ n.do = "claim"
               /\ n.version = mirror[n.set] /\ n.rest = File[n.set][n.version]
               /\ Adoptable(n.policy, n.set)
  BY BackfillGoes DEF Inv, TablesInv
<1>3. "task" \in Workers BY DEF Workers
<1>4. \/ Rests("task")
      \/ \E n \in Thing : Heads("task", n) /\ n.do \in {"backfill", "claim"} /\ FitsNow(n)'
  <2>1. CASE Stops("task") BY <2>1 DEF Stops
  <2>2. CASE Goes("task", Turned(This("task"), "backfill", Others("task")))
    <3>1. Others("task") \in SUBSET This("task").rest /\ "backfill" \in Deeds BY DEF Others, Deeds, Booting
    <3>2. PICK n \in Thing : n = Turned(This("task"), "backfill", Others("task")) /\ n.do = "backfill"
      BY <1>2, <1>3, <3>1, TurnsInto DEF Inv
    <3>3. FitsNow(n)' BY <3>2, OtherwiseNow DEF Updating, Restoring
    <3> QED BY <2>2, <3>2, <3>3 DEF Goes
  <2>3. CASE \E n \in Things("task") :
               /\ Heads("task", n) /\ n.do = "claim"
               /\ n.version = mirror[n.set] /\ n.rest = File[n.set][n.version]
               /\ Adoptable(n.policy, n.set)
    <3>1. PICK n \in Things("task") :
               /\ Heads("task", n) /\ n.do = "claim"
               /\ n.version = mirror[n.set] /\ n.rest = File[n.set][n.version]
               /\ Adoptable(n.policy, n.set)
      BY <2>3
    <3>2. n \in Thing /\ n.policy \in Policies /\ n.set \in Sets /\ n.version \in 1..Latest(n.set)
      BY <3>1 DEF Things, ThingFits, OfVersion, OfHolding, Updating
    <3>3. PICK p \in Policies, s \in Sets : p = n.policy /\ s = n.set BY <3>2
    <3>4. Shipped(s) = mirror[s] /\ mirror[s] \in 1..Latest(s) BY OfferedIs DEF Inv, TablesInv
    <3>5. \A e \in File[s][mirror[s]] : rows[p][e] # None /\ ~rows[p][e].claimed /\ rows[p][e].text = mirror[s]
      BY <3>1, <3>3, <3>4 DEF Adoptable
    <3>6. PICK e \in File[s][mirror[s]] : e \in RulesOf(s) BY <3>4, OfVersions
    <3>7. RowFits(s, e, rows[p][e]) BY <3>6 DEF Inv, TablesInv, RowsFit
    <3>8. mirror[s] = 1 BY <3>5, <3>7 DEF RowFits
    <3>9. ClaimFits(n)' BY <1>1, <3>1, <3>3, <3>5, <3>8 DEF ClaimFits, Idly
    <3>10. FitsNow(n)' BY <3>1, <3>9 DEF FitsNow, Updating, Restoring
    <3> QED BY <3>1, <3>2, <3>10
  <2> QED BY <1>2, <2>1, <2>2, <2>3
<1>5. TablesInv' BY <1>1, IdlySame
<1>6. Inv' BY <1>2, <1>4, <1>5, StartKeeps
<1>7. job'["admin"] = <<>> BY <1>2, <1>4 DEF Rests, Heads, Elsewhere, Workers
<1> QED BY <1>1, <1>2, <1>4, <1>6, <1>7

\* A rule of no set becomes the set's: what it says is as it was.
LEMMA ClaimKeeps ==
    ASSUME Inv, claim
    PROVE  LET p == This("task").policy
               s == This("task").set
               e == Taken("task")
           IN  /\ Inv' /\ job["admin"] = <<>> /\ job'["admin"] = <<>> /\ p \in policies /\ p \in Policies /\ s \in Sets
               /\ Doing("task", "claim") /\ \E n \in Thing : Heads("task", n) /\ n.do \in {"claim", "adopt"}
               /\ mirror[s] = 1 /\ e \in File[s][1]
               /\ rows[p][e] # None /\ rows'[p][e] = [rows[p][e] EXCEPT !.claimed = TRUE]
               /\ \A q \in Policies \ {p} : rows'[q] = rows[q]
               /\ \A x \in Ext \ {e} : rows'[p][x] = rows[p][x]
               /\ UNCHANGED <<policies, held, previous, hand, torn, tangled, mirror, undo>>
<1> DEFINE t == This("task")
           p == t.policy
           s == t.set
           e == Taken("task")
           row == [rows[p][e] EXCEPT !.claimed = TRUE]
<1>0. Doing("task", "claim") /\ OnwardAfterAll("task", adoption) /\ {"claim", "adopt"} \subseteq Booting
  BY DEF claim, Booting
<1>1. /\ job["task"] # <<>> /\ t \in Thing /\ t.do = "claim" /\ ThingFits(t) /\ FitsNow(t) /\ JobsInv
      /\ job["admin"] = <<>> /\ "task" \in Workers
  BY <1>0, AtStart
<1>2. UNCHANGED <<policies, held, previous, hand, torn, tangled, published, mirror, undo>>
  BY DEF claim, Quiet, Still, channel, history
<1>3. p \in Policies /\ s \in Sets /\ t.version = 1 /\ mirror[s] = 1 /\ ClaimFits(t) /\ 1 \in 1..Latest(s)
  BY <1>1 DEF FitsNow, ClaimFits, ThingFits, OfVersion, OfHolding
<1>4. t.rest \in SUBSET File[s][1] /\ t.rest # {} BY <1>1, <1>3 DEF ThingFits
<1>5. e \in t.rest /\ e \in File[s][1] /\ Others("task") = t.rest \ {e} BY <1>4, TakenIs
<1>6. e \in Ext /\ e \in RulesOf(s) /\ SetOf(e) = s BY <1>3, <1>5, InFile
<1>7. rows[p][e] # None /\ rows[p][e].text = 1 BY <1>3, <1>5 DEF ClaimFits
<1>8. /\ rows[p][e] \in Row /\ rows \in [Policies -> [Ext -> Row \cup {None}]]
      /\ p \in policies
  BY <1>3, <1>6, <1>7 DEF Inv, TablesInv, RowsFit
<1>9. rows' = [rows EXCEPT ![p][e] = row] BY <1>3, <1>6, <1>8 DEF claim
<1>10. row \in Row /\ row.text = 1 /\ row.claimed BY <1>7, <1>8 DEF Row
<1>11. row # None BY <1>10, RuleSetsAssumption
<1>12. rows'[p][e] = row BY <1>3, <1>6, <1>8, <1>9
<1>13. row = [rows[p][e] EXCEPT !.claimed = TRUE] OBVIOUS
<1> HIDE DEF row
<1>14. /\ RowsFit'
       /\ \A q \in Policies \ {p} : rows'[q] = rows[q]
       /\ \A x \in Ext : rows'[p][x] = IF x = e THEN row ELSE rows[p][x]
  <2>1. RowsFit /\ UNCHANGED <<policies, mirror>> /\ row \in Row \cup {None} BY <1>2, <1>10 DEF Inv, TablesInv
  <2>2. row # None => p \in policies /\ RowFits(SetOf(e), e, row) BY <1>3, <1>5, <1>6, <1>8, <1>10 DEF RowFits
  <2> HIDE DEF p, e, s, t
  <2> QED BY ONLY <1>3, <1>6, <1>9, <2>1, <2>2, RowPut
<1>15. TablesInv'
  <2>1. HeldFits' /\ PreviousFits' BY <1>2, HeldSame, PreviousSame DEF Inv, TablesInv
  <2>2. ChannelFits' /\ HistoryFits' BY <1>2 DEF Inv, TablesInv, ChannelFits, HistoryFits
  <2> QED BY <1>14, <2>1, <2>2 DEF TablesInv
<1>16. \/ Others("task") = {} /\ Goes("task", Turned(t, "adopt", {}))
       \/ Others("task") # {} /\ Goes("task", Turned(t, "claim", Others("task")))
  BY <1>0, <1>1, AdoptionGoes
<1>17. \E n \in Thing : Heads("task", n) /\ n.do \in {"claim", "adopt"} /\ FitsNow(n)'
  <2>1. PICK do \in {"claim", "adopt"} : Goes("task", Turned(t, do, Others("task")))
    BY <1>16
  <2>2. do \in Deeds /\ Others("task") \in SUBSET t.rest BY <1>5 DEF Deeds, Booting
  <2>3. PICK n \in Thing : /\ n = Turned(t, do, Others("task")) /\ n.do = do /\ n.rest = Others("task")
                           /\ n.policy = p /\ n.set = s /\ n.version = t.version
    BY <1>1, <2>2, TurnsInto
  <2>4. ASSUME NEW x \in File[s][1]
        PROVE  /\ rows'[p][x] # None /\ rows'[p][x].text = 1
               /\ rows'[p][x].claimed <=> x \notin t.rest \ {e}
    <3>1. x \in Ext BY <1>3, InFile
    <3>2. rows[p][x] # None /\ rows[p][x].text = 1 /\ (rows[p][x].claimed <=> x \notin t.rest) BY <1>3 DEF ClaimFits
    <3>3. CASE x = e BY <1>10, <1>11, <1>12, <3>3
    <3>4. CASE x # e BY <1>14, <3>1, <3>2, <3>4
    <3> QED BY <3>3, <3>4
  <2>5. ClaimFits(n)' BY <1>2, <1>3, <1>5, <2>3, <2>4 DEF ClaimFits
  <2>6. FitsNow(n)' BY <2>3, <2>5 DEF FitsNow, Updating, Restoring
  <2> QED BY <2>1, <2>3, <2>6 DEF Goes
<1>18. Inv' BY <1>1, <1>15, <1>17, StartKeeps
<1>19. job'["admin"] = <<>> BY <1>1, <1>17 DEF Heads, Elsewhere, Workers
<1> QED BY <1>0, <1>1, <1>2, <1>3, <1>5, <1>7, <1>8, <1>12, <1>13, <1>14, <1>17, <1>18, <1>19

\* A set adopted: all of it is there at its first version (adopt).
LEMMA AdoptKeeps ==
    ASSUME Inv, adopt
    PROVE  LET p == This("task").policy
               s == This("task").set
           IN  /\ Inv' /\ job["admin"] = <<>> /\ job'["admin"] = <<>> /\ Rests("task")
               /\ p \in policies /\ p \in Policies /\ s \in Sets
               /\ mirror[s] = 1
               /\ \A e \in File[s][1] : rows[p][e] # None /\ rows[p][e].text = 1 /\ rows[p][e].claimed
               /\ \A q \in Policies, x \in Sets :
                      held'[q][x] = IF q = p /\ x = s /\ held[p][s] = 0 THEN 1 ELSE held[q][x]
               /\ UNCHANGED <<policies, rows, previous, hand, torn, tangled, mirror, undo>>
<1> DEFINE t == This("task")
           p == t.policy
           s == t.set
           v == IF held[p][s] = 0 THEN t.version ELSE held[p][s]
<1>0. Doing("task", "adopt") /\ Onward("task", adoption) /\ "adopt" \in Booting
  BY DEF adopt, Booting
<1>1. /\ job["task"] # <<>> /\ t \in Thing /\ t.do = "adopt" /\ ThingFits(t) /\ FitsNow(t) /\ JobsInv
      /\ job["admin"] = <<>> /\ "task" \in Workers
  BY <1>0, AtStart
<1>2. UNCHANGED <<policies, rows, previous, hand, torn, tangled, published, mirror, undo>>
  BY DEF adopt, Quiet, Still, channel, history
<1>3. p \in Policies /\ s \in Sets /\ t.version = 1 /\ mirror[s] = 1 /\ ClaimFits(t) /\ 1 \in 1..Latest(s) /\ t.rest = {}
  BY <1>1 DEF FitsNow, ClaimFits, ThingFits, OfVersion, OfHolding
<1>4. \A e \in File[s][1] : rows[p][e] # None /\ rows[p][e].text = 1 /\ rows[p][e].claimed
  BY <1>3 DEF ClaimFits
<1>5. p \in policies
  <2>1. PICK e \in File[s][1] : e \in Ext BY <1>3, OfVersions
  <2> QED BY <1>3, <1>4, <2>1 DEF Inv, TablesInv, RowsFit
<1>6. held' = [held EXCEPT ![p][s] = v] BY <1>3 DEF adopt, Inv, TablesInv, HeldFits
<1>7. v \in Nat /\ v <= mirror[s] /\ v = IF held[p][s] = 0 THEN 1 ELSE held[p][s]
  BY <1>3 DEF Inv, TablesInv, HeldFits
<1> HIDE DEF v
<1>8. /\ HeldFits'
      /\ \A q \in Policies \ {p} : held'[q] = held[q]
      /\ \A x \in Sets : held'[p][x] = IF x = s THEN v ELSE held[p][x]
  <2>1. HeldFits /\ UNCHANGED <<policies, mirror>> BY <1>2 DEF Inv, TablesInv
  <2>2. v \in Nat /\ v <= mirror[s] /\ (v = 0 \/ p \in policies) BY <1>5, <1>7
  <2> HIDE DEF p, s, t
  <2> QED BY ONLY <1>3, <1>6, <2>1, <2>2, HeldNext
<1>9. \A q \in Policies, x \in Sets :
          held'[q][x] = IF q = p /\ x = s /\ held[p][s] = 0 THEN 1 ELSE held[q][x]
  BY <1>7, <1>8
<1>10. TablesInv'
  <2>1. RowsFit' /\ PreviousFits' BY <1>2, RowsSame, PreviousSame DEF Inv, TablesInv
  <2>2. ChannelFits' /\ HistoryFits' BY <1>2 DEF Inv, TablesInv, ChannelFits, HistoryFits
  <2> QED BY <1>8, <2>1, <2>2 DEF TablesInv
<1>11. Rests("task") BY <1>0, <1>1, AdoptionGoes DEF Stops
<1>12. Inv' BY <1>1, <1>10, <1>11, StartKeeps
<1>13. job'["admin"] = <<>> BY <1>1, <1>11 DEF Rests, Elsewhere, Workers
<1> QED BY <1>1, <1>2, <1>3, <1>4, <1>5, <1>9, <1>11, <1>12, <1>13

\* The empty holdings go.
LEMMA PurgeKeeps ==
    ASSUME Inv, purge
    PROVE  /\ Inv' /\ job["admin"] = <<>> /\ job'["admin"] = <<>> /\ Rests("task")
           /\ \A p \in Policies, s \in Sets :
                  /\ held'[p][s] = IF OfSet(p, s) = {} THEN 0 ELSE held[p][s]
                  /\ previous'[p][s] = None \/ previous'[p][s] = previous[p][s]
           /\ torn' = torn \ {h \in Holdings : held'[h[1]][h[2]] = 0}
           /\ tangled' = tangled \ {h \in Holdings : held'[h[1]][h[2]] = 0}
           /\ UNCHANGED <<policies, rows, hand, mirror, undo>>
<1>0. Doing("task", "purge") /\ Done("task") /\ "purge" \in Booting
  BY DEF purge, Booting
<1>1. job["task"] # <<>> /\ JobsInv /\ job["admin"] = <<>> /\ "task" \in Workers
  BY <1>0, AtStart
<1>2. UNCHANGED <<policies, rows, hand, published, mirror, undo>> BY DEF purge, Quiet, Still, channel
<1>3. /\ held' = [p \in Policies |-> [s \in Sets |-> IF OfSet(p, s) = {} THEN 0 ELSE held[p][s]]]
      /\ previous' = [p \in Policies |-> [s \in Sets |-> IF held'[p][s] = 0 THEN None ELSE previous[p][s]]]
      /\ torn' = torn \ {h \in Holdings : held'[h[1]][h[2]] = 0}
      /\ tangled' = tangled \ {h \in Holdings : held'[h[1]][h[2]] = 0}
  BY DEF purge
<1>4. \A p \in Policies, s \in Sets :
          /\ held'[p][s] = IF OfSet(p, s) = {} THEN 0 ELSE held[p][s]
          /\ previous'[p][s] = None \/ previous'[p][s] = previous[p][s]
  BY <1>3
<1>5. HeldFits'
  <2>1. held' \in [Policies -> [Sets -> Nat]] BY <1>3 DEF Inv, TablesInv, HeldFits
  <2>2. ASSUME NEW p \in Policies, NEW s \in Sets PROVE held'[p][s] <= mirror'[s] /\ (p \notin policies' => held'[p][s] = 0)
    BY <1>2, <1>4 DEF Inv, TablesInv, HeldFits, ChannelFits
  <2> QED BY <2>1, <2>2 DEF HeldFits
<1>6. PreviousFits'
  <2>1. previous' \in [Policies -> [Sets -> Kept \cup {None}]] BY <1>3 DEF Inv, TablesInv, PreviousFits
  <2>2. ASSUME NEW p \in Policies, NEW s \in Sets, previous'[p][s] # None PROVE IsKeptOf(s, previous[p][s])'
    <3>1. previous'[p][s] = previous[p][s] /\ IsKeptOf(s, previous[p][s])
      BY <1>4, <2>2 DEF Inv, TablesInv, PreviousFits
    <3> QED BY <1>2, <3>1 DEF IsKeptOf, RowFits
  <2> QED BY <2>1, <2>2 DEF PreviousFits
<1>7. TablesInv'
  <2>1. RowsFit' BY <1>2, RowsSame DEF Inv, TablesInv
  <2>2. ChannelFits' BY <1>2 DEF Inv, TablesInv, ChannelFits
  <2>3. HistoryFits' BY <1>2, <1>3 DEF Inv, TablesInv, HistoryFits
  <2> QED BY <1>5, <1>6, <2>1, <2>2, <2>3 DEF TablesInv
<1>8. Rests("task") BY <1>0, <1>1, DoneStops DEF Stops
<1>9. Inv' BY <1>1, <1>7, <1>8, StartKeeps
<1>10. job'["admin"] = <<>> BY <1>1, <1>8 DEF Rests, Elsewhere, Workers
<1> QED BY <1>1, <1>2, <1>3, <1>4, <1>8, <1>9, <1>10

-----------------------------------------------------------------------------
(* What the administrators do. *)
\* What the administrator begins keeps the invariant.
LEMMA ActKeeps ==
    ASSUME Inv, Act, TablesInv', mirror' = mirror,
           \/ Rests("admin")
           \/ \E n \in Thing : Heads("admin", n) /\ FitsNow(n)'
    PROVE  Inv'
<1>1. "admin" \in Workers /\ "task" \in Workers BY DEF Workers
<1>2. JobsInv' /\ job'["task"] = job["task"] BY DEF Rests, Heads, Elsewhere, Workers
<1>3. job["task"] \in Seq(Thing \ Boots) BY ServingIs DEF Inv, Act
<1>4. HeadFits("task")' BY <1>2, <1>3, TaskAside DEF Inv
<1>5. HeadFits("admin")'
  <2>1. CASE Rests("admin") BY <1>1, <2>1, RestingFits DEF Rests
  <2>2. CASE \E n \in Thing : Heads("admin", n) /\ FitsNow(n)' BY <2>2 DEF HeadFits, Heads
  <2> QED BY <2>1, <2>2
<1> QED BY <1>2, <1>4, <1>5 DEF Inv

\* An update asked for (post_apply_rule_update).
LEMMA ApplyUpdateKeeps ==
    ASSUME Inv, post_apply_rule_update
    PROVE  Inv' /\ Idly /\ undo' = undo /\ \E n \in Thing : Heads("admin", n) /\ n.do = "apply"
<1>1. Act /\ Idly /\ undo' = undo BY DEF post_apply_rule_update, NotBegun, Idly, tables, channel, history
<1>2. PICK p \in policies, s \in Sets : Begin(To("apply", None, None, 0, {<<p, s>>}))
  BY DEF post_apply_rule_update
<1>3. p \in Policies BY DEF Inv, TablesInv, RowsFit
<1>4. PICK rest \in SUBSET Holdings : rest = {<<p, s>>} /\ rest # {}
  <2>1. {<<p, s>>} \in SUBSET Holdings /\ {<<p, s>>} # {} BY <1>3 DEF Holdings
  <2> QED BY <2>1
<1>5. rest \in SUBSET Holdings /\ rest # {} BY <1>4
<1>6. PICK n \in Thing : To("apply", None, None, 0, rest) = <<n>> /\ n.do = "apply" /\ n.rest = rest
  <2>1. PICK do \in Deeds, none \in Policies \cup {None}, none2 \in Sets \cup {None}, zero \in Nat :
            do = "apply" /\ none = None /\ none2 = None /\ zero = 0
    BY DEF Deeds, Plain
  <2>2. rest \in SUBSET (Holdings \cup Policies \cup Ext \cup Entries) BY <1>5
  <2>3. \E n \in Thing : /\ To(do, none, none2, zero, rest) = <<n>>
                         /\ n.do = do /\ n.policy = none /\ n.set = none2 /\ n.version = zero /\ n.rest = rest
    BY ONLY <2>1, <2>2, ToIs
  <2> QED BY <2>1, <2>3
<1>7. n \in Things("admin")
  BY <1>5, <1>6 DEF Things, Does, ThingFits, Updating, Undoing, Copying, ByHand
<1>8. Begin(<<n>>) BY <1>2, <1>4, <1>6
<1>9. Heads("admin", n) BY <1>1, <1>7, <1>8, AloneHeads DEF Inv
<1>10. FitsNow(n)' BY <1>6, OtherwiseNow DEF Updating, Restoring
<1>11. TablesInv' BY <1>1, IdlySame
<1>12. Inv' BY <1>1, <1>6, <1>9, <1>10, <1>11, ActKeeps DEF Idly
<1> QED BY <1>1, <1>6, <1>9, <1>12

\* A putting back asked for, with what it read (post_revert_rule_set).
LEMMA RevertKeeps ==
    ASSUME Inv, post_revert_rule_set
    PROVE  /\ Inv' /\ UNCHANGED <<policies, rows, held, previous, hand, mirror>> /\ Act
           /\ \E p \in Policies, s \in Sets :
                  /\ p \in policies /\ previous[p][s] # None /\ undo' = previous[p][s] /\ Starting("admin", <<p, s>>)
                  /\ \E n \in Thing : /\ Heads("admin", n) /\ n.do = "restore" /\ n.policy = p /\ n.set = s
                                      /\ n.rest = {e \in Ext : previous[p][s].rules[e] # None}
<1>1. Act /\ UNCHANGED <<policies, rows, held, previous, published, mirror, hand>>
  BY DEF post_revert_rule_set, tables, channel
<1>2. PICK p \in policies, s \in Sets :
        /\ previous[p][s] # None
        /\ undo' = previous[p][s] /\ Starting("admin", <<p, s>>)
        /\ Begin(To("restore", p, s, 0, {e \in Ext : previous[p][s].rules[e] # None}))
  BY DEF post_revert_rule_set
<1>3. p \in Policies BY DEF Inv, TablesInv, RowsFit
<1>4. PICK rest \in SUBSET Ext : rest = {e \in Ext : previous[p][s].rules[e] # None} OBVIOUS
<1>5. IsKeptOf(s, previous[p][s]) BY <1>2, <1>3 DEF Inv, TablesInv, PreviousFits
<1>6. rest # {} BY <1>4, <1>5 DEF IsKeptOf
<1>7. PICK n \in Thing : /\ To("restore", p, s, 0, rest) = <<n>> /\ n.do = "restore" /\ n.rest = rest
                         /\ n.policy = p /\ n.set = s
  <2>1. "restore" \in Deeds /\ 0 \in Nat /\ rest \in SUBSET (Holdings \cup Policies \cup Ext \cup Entries)
        /\ p \in Policies \cup {None} /\ s \in Sets \cup {None}
    BY <1>3 DEF Deeds, Undoing
  <2> QED BY ONLY <2>1, ToIs
<1>8. n \in Things("admin")
  BY <1>3, <1>6, <1>7 DEF Things, Does, ThingFits, Updating, Undoing, Copying, ByHand, OfHolding
<1>9. Begin(<<n>>) BY <1>2, <1>4, <1>7
<1>10. Heads("admin", n) BY <1>1, <1>8, <1>9, AloneHeads DEF Inv
<1>11. FitsNow(n)'
  <2>1. IsKeptOf(s, undo)' BY <1>1, <1>2, <1>5 DEF IsKeptOf, RowFits
  <2>2. n.rest \subseteq {e \in Ext : undo'.rules[e] # None} BY <1>2, <1>4, <1>7
  <2> QED BY <1>7, <2>1, <2>2 DEF FitsNow, Updating
<1>12. TablesInv'
  <2>1. RowsFit' /\ HeldFits' /\ PreviousFits' BY <1>1, RowsSame, HeldSame, PreviousSame DEF Inv, TablesInv
  <2>2. ChannelFits' BY <1>1 DEF Inv, TablesInv, ChannelFits
  <2>3. "admin" \in Workers /\ <<p, s>> \in Holdings BY <1>3 DEF Workers, Holdings
  <2>4. torn' \in SUBSET Holdings /\ tangled' \in SUBSET torn' BY <1>2, <2>3, StartingIs DEF Inv, TablesInv
  <2>5. HistoryFits' BY <1>1, <2>4 DEF Inv, TablesInv, HistoryFits
  <2> QED BY <2>1, <2>2, <2>5 DEF TablesInv
<1>13. Inv' BY <1>1, <1>10, <1>11, <1>12, ActKeeps
<1> QED BY <1>1, <1>2, <1>3, <1>4, <1>7, <1>10, <1>13

\* A removal asked for (post_remove_rule_set).
LEMMA RemoveBegins ==
    ASSUME Inv, post_remove_rule_set
    PROVE  /\ Inv' /\ UNCHANGED <<policies, rows, held, previous, hand, mirror, undo>> /\ Act
           /\ \E p \in Policies, s \in Sets :
                  /\ Starting("admin", <<p, s>>)
                  /\ \E n \in Thing : Heads("admin", n) /\ n.do = "remove" /\ n.policy = p /\ n.set = s
<1>1. Act /\ UNCHANGED <<policies, rows, held, previous, published, mirror, hand, undo>>
  BY DEF post_remove_rule_set, tables, channel
<1>2. PICK p \in policies, s \in Sets : Begin(One("remove", p, s, 0)) /\ Starting("admin", <<p, s>>)
  BY DEF post_remove_rule_set
<1>3. p \in Policies BY DEF Inv, TablesInv, RowsFit
<1>7. PICK n \in Thing : /\ One("remove", p, s, 0) = <<n>> /\ n.do = "remove"
                         /\ n.policy = p /\ n.set = s
  <2>1. "remove" \in Deeds /\ 0 \in Nat /\ p \in Policies \cup {None} /\ s \in Sets \cup {None}
    BY <1>3 DEF Deeds, Undoing
  <2> QED BY ONLY <2>1, OneIs
<1>8. n \in Things("admin")
  BY <1>3, <1>7 DEF Things, Does, ThingFits, Updating, Undoing, Copying, ByHand, OfHolding
<1>9. Begin(<<n>>) BY <1>2, <1>7
<1>10. Heads("admin", n) BY <1>1, <1>8, <1>9, AloneHeads DEF Inv
<1>11. FitsNow(n)' BY <1>7, OtherwiseNow DEF Updating, Restoring
<1>12. TablesInv'
  <2>1. RowsFit' /\ HeldFits' /\ PreviousFits' BY <1>1, RowsSame, HeldSame, PreviousSame DEF Inv, TablesInv
  <2>2. ChannelFits' BY <1>1 DEF Inv, TablesInv, ChannelFits
  <2>3. "admin" \in Workers /\ <<p, s>> \in Holdings BY <1>3 DEF Workers, Holdings
  <2>4. torn' \in SUBSET Holdings /\ tangled' \in SUBSET torn' BY <1>2, <2>3, StartingIs DEF Inv, TablesInv
  <2>5. HistoryFits' BY <1>1, <2>4 DEF Inv, TablesInv, HistoryFits
  <2> QED BY <2>1, <2>2, <2>5 DEF TablesInv
<1>13. Inv' BY <1>1, <1>10, <1>11, <1>12, ActKeeps
<1> QED BY <1>1, <1>2, <1>3, <1>7, <1>10, <1>13

\* The picker, rules marked, a deletion: something waits, or one thing is begun.
LEMMA PickerKeeps ==
    ASSUME Inv, post_rules_catalog \/ post_bulk_rules \/ post_policy_delete
    PROVE  Inv' /\ Idly /\ undo' = undo /\ job'["task"] = job["task"]
           /\ \/ Rests("admin")
              \/ \E n \in Thing : Heads("admin", n) /\ n.do \in ByHand \cup {"delete"}
<1>1. Act /\ Idly /\ undo' = undo
  BY DEF post_rules_catalog, post_bulk_rules, post_policy_delete, NotBegun, Idly, tables, channel, history
<1>2. policies \subseteq Policies BY DEF Inv, TablesInv, RowsFit
<1>3. \/ Rests("admin")
      \/ \E n \in Thing : Heads("admin", n) /\ n.do \in ByHand \cup {"delete"}
  <2>1. CASE post_rules_catalog
    <3>1. PICK p \in Policies, sets \in SUBSET Sets, ids \in SUBSET Ext, off \in SUBSET Ext :
             Begin(apply_selection(p, sets, ids, off))
      BY <1>2, <2>1 DEF post_rules_catalog
    <3>2. PICK q \in Seq(Queued("admin")) : q = apply_selection(p, sets, ids, off) BY SelectionWaits
    <3> QED BY <1>1, <3>1, <3>2, ActRests DEF Inv
  <2>2. CASE post_bulk_rules
    <3>1. PICK p \in Policies, do \in {"switch_on", "untick", "drop"}, S \in SUBSET Ext :
             Cardinality(S) = 2 /\ Begin(Each(do, p, S))
      BY <1>2, <2>2 DEF post_bulk_rules
    <3>2. CASE S = {}
      <4>1. Cardinality({}) = 0 BY FS_EmptySet
      <4> QED BY <3>1, <3>2, <4>1
    <3>3. CASE S # {}
      <4>1. PICK n \in Thing : /\ To(do, p, None, 0, S) = <<n>> /\ n.do = do /\ n.rest = S /\ n.policy = p
        <5>1. do \in Deeds /\ 0 \in Nat /\ S \in SUBSET (Holdings \cup Policies \cup Ext \cup Entries)
              /\ p \in Policies \cup {None} /\ None \in Sets \cup {None}
          BY <3>1 DEF Deeds, ByHand
        <5> QED BY ONLY <5>1, ToIs
      <4>2. do \in ByHand BY DEF ByHand
      <4>3. n \in Things("admin")
        BY <3>3, <4>1, <4>2 DEF Things, Does, ThingFits, Updating, Undoing, Copying, ByHand
      <4>4. Begin(<<n>>) BY <3>1, <3>3, <4>1 DEF Each
      <4>5. Heads("admin", n) BY <1>1, <4>3, <4>4, AloneHeads DEF Inv
      <4> QED BY <4>1, <4>2, <4>5
    <3> QED BY <3>2, <3>3
  <2>3. CASE post_policy_delete
    <3>1. PICK p \in Policies : Begin(One("delete", p, None, 0)) BY <1>2, <2>3 DEF post_policy_delete
    <3>2. PICK n \in Thing : One("delete", p, None, 0) = <<n>> /\ n.do = "delete" /\ n.policy = p
      <4>1. "delete" \in Deeds /\ 0 \in Nat /\ p \in Policies \cup {None} /\ None \in Sets \cup {None}
        BY DEF Deeds, Plain
      <4> QED BY ONLY <4>1, OneIs
    <3>3. n \in Things("admin")
      BY <3>2 DEF Things, Does, ThingFits, Updating, Undoing, Copying, ByHand
    <3>4. Heads("admin", n) BY <1>1, <3>1, <3>2, <3>3, AloneHeads DEF Inv
    <3> QED BY <3>2, <3>4
  <2> QED BY <2>1, <2>2, <2>3
<1>4. Rests("admin") \/ \E n \in Thing : Heads("admin", n) /\ FitsNow(n)'
  BY <1>3, OtherwiseNow DEF Updating, Restoring, ByHand
<1>5. TablesInv' BY <1>1, IdlySame
<1>6. Inv' BY <1>1, <1>4, <1>5, ActKeeps DEF Idly
<1>7. job'["task"] = job["task"] BY <1>3 DEF Rests, Heads, Elsewhere, Workers
<1> QED BY <1>1, <1>3, <1>6, <1>7

\* A policy made: nothing was left to do of it.
LEMMA CreateKeeps ==
    ASSUME Inv, post_policy_create
    PROVE  /\ Inv' /\ UNCHANGED <<rows, held, previous, hand, torn, tangled, mirror, undo>> /\ job'["task"] = job["task"]
           /\ \E p \in Policies \ policies : policies' = policies \cup {p} /\ job["task"] \in Seq(Without(p))
           /\ Act
           /\ \/ Rests("admin")
              \/ \E n \in Thing : Heads("admin", n) /\ n.do = "copy_rules"
<1>1. Act /\ UNCHANGED <<rows, held, previous, hand, torn, tangled, published, mirror, undo>>
  BY DEF post_policy_create, Untouched, channel, history
<1>2. PICK p \in Policies \ policies, from \in policies \cup {None}, sets \in SUBSET Sets, attach \in BOOLEAN,
          given \in {{}} \cup {{x} : x \in {x \in Entries : x.kind # "exclusion"}} :
        /\ \A w \in Workers : \A k \in DOMAIN job[w] : p \notin Concerned(job[w][k])
        /\ policies' = policies \cup {p}
        /\ Begin(Each("copy_rules", p, {from} \ {None})
                   \o (IF attach THEN One("attach", p, None, 0) ELSE <<>>)
                   \o Each("enter", p, given) \o apply_selection(p, sets, {}, {}))
  BY DEF post_policy_create
<1>3. policies \subseteq Policies BY DEF Inv, TablesInv, RowsFit
<1>4. "admin" \in Workers /\ "task" \in Workers BY DEF Workers
<1>5. job["task"] \in Seq(Without(p))
  <2>1. job["task"] \in Seq(Thing) BY <1>4 DEF Inv, JobsInv, JobsFit
  <2>2. PICK q \in Seq(Thing) : q = job["task"] BY <2>1
  <2>3. \A k \in 1..Len(q) : q[k] \in Without(p)
    <3>1. DOMAIN q = 1..Len(q) /\ \A k \in 1..Len(q) : q[k] \in Thing OBVIOUS
    <3>2. \A k \in DOMAIN q : p \notin Concerned(q[k]) BY <1>2, <1>4, <2>2
    <3> QED BY <3>1, <3>2 DEF Without
  <2>4. q \in Seq(Without(p)) BY <2>2, <2>3
  <2> QED BY <2>2, <2>4
<1> DEFINE b == IF attach THEN One("attach", p, None, 0) ELSE <<>>
           c == Each("enter", p, given)
           d == apply_selection(p, sets, {}, {})
<1>6. b \in Seq(Queued("admin"))
  <2>1. CASE attach
    <3>1. "attach" \in Deeds /\ 0 \in Nat /\ p \in Policies \cup {None} /\ None \in Sets \cup {None}
      BY DEF Deeds, Plain
    <3>2. PICK n \in Thing : One("attach", p, None, 0) = <<n>> /\ n.do = "attach" /\ n.policy = p
      BY ONLY <3>1, OneIs
    <3>3. n \in Queued("admin")
      BY <3>2 DEF Things, Queued, Waiting, Does, ThingFits, Updating, Undoing, Copying, ByHand
    <3>4. <<n>> \in Seq(Queued("admin")) BY <3>3, OneIn
    <3> QED BY <2>1, <3>2, <3>4
  <2>2. CASE ~attach BY <2>2
  <2> QED BY <2>1, <2>2
<1>7. c \in Seq(Queued("admin"))
  <2>1. "enter" \in Deeds /\ p \in Policies \cup {None} BY DEF Deeds, Plain
  <2>2. given \in SUBSET (Holdings \cup Policies \cup Ext \cup Entries) OBVIOUS
  <2>3. ASSUME NEW m \in Thing, m.do = "enter", m.policy = p, m.rest = given, m.rest # {} PROVE m \in Queued("admin")
    BY <2>3 DEF Things, Queued, Waiting, Does, ThingFits, Updating, Undoing, Copying, ByHand
  <2> QED BY <2>1, <2>2, <2>3, EachIs
<1>8. d \in Seq(Queued("admin"))
  <2>1. {} \in SUBSET Ext /\ p \in Policies OBVIOUS
  <2> QED BY <2>1, SelectionWaits
<1>9. PICK q \in Seq(Queued("admin")) : /\ q = (b \o c) \o d
                                        /\ \A n : ((<<n>> \o b) \o c) \o d = <<n>> \o q
                                        /\ ((<<>> \o b) \o c) \o d = q
  <2> HIDE DEF b, c, d
  <2> DEFINE Q == Queued("admin")
  <2>1. b \o c \in Seq(Q) BY <1>6, <1>7, Joined
  <2>2. (b \o c) \o d \in Seq(Q) BY <1>8, <2>1, Joined
  <2>3. <<>> \o b = b BY <1>6, ConcatEmptySeq
  <2>4. ASSUME NEW n PROVE ((<<n>> \o b) \o c) \o d = <<n>> \o ((b \o c) \o d)
    <3> DEFINE S == Q \cup {n}
    <3>1. Q \subseteq S OBVIOUS
    <3> HIDE DEF S, Q
    <3>2. b \in Seq(S) /\ c \in Seq(S) /\ d \in Seq(S) /\ (b \o c) \in Seq(S)
      BY <1>6, <1>7, <1>8, <2>1, <3>1, Wider DEF Q
    <3>3. <<n>> \in Seq(S) BY OneIn DEF S
    <3>4. (<<n>> \o b) \o c = <<n>> \o (b \o c) BY <3>2, <3>3, ConcatAssociative
    <3>5. (<<n>> \o (b \o c)) \o d = <<n>> \o ((b \o c) \o d) BY <3>2, <3>3, ConcatAssociative
    <3> QED BY <3>4, <3>5
  <2> QED BY <2>2, <2>3, <2>4
<1>10. \/ Rests("admin")
       \/ \E n \in Thing : Heads("admin", n) /\ n.do = "copy_rules" /\ n.policy = p
  <2>1. CASE from = None
    <3>1. Each("copy_rules", p, {from} \ {None}) = <<>> BY <2>1 DEF Each
    <3>2. Begin(q) BY <1>2, <1>9, <3>1
    <3> QED BY <1>1, <3>2, ActRests DEF Inv
  <2>2. CASE from # None
    <3>1. PICK rest \in SUBSET Policies : rest = {from} BY <1>3, <2>2
    <3>2. Each("copy_rules", p, {from} \ {None}) = To("copy_rules", p, None, 0, rest)
      <4>1. {from} \ {None} = rest /\ rest # {} BY <2>2, <3>1
      <4>2. Each("copy_rules", p, rest) = To("copy_rules", p, None, 0, rest) BY <4>1 DEF Each
      <4> QED BY <4>1, <4>2
    <3>3. "copy_rules" \in Deeds /\ 0 \in Nat /\ p \in Policies \cup {None} /\ None \in Sets \cup {None}
          /\ rest \in SUBSET (Holdings \cup Policies \cup Ext \cup Entries)
      BY DEF Deeds, Copying
    <3>4. PICK n \in Thing : /\ To("copy_rules", p, None, 0, rest) = <<n>>
                             /\ n.do = "copy_rules" /\ n.policy = p /\ n.rest = rest
      <4>1. PICK do \in Deeds, none \in Sets \cup {None}, zero \in Nat, x \in Policies \cup {None} :
                do = "copy_rules" /\ none = None /\ zero = 0 /\ x = p
        BY <3>3
      <4>2. \E n \in Thing : /\ To(do, x, none, zero, rest) = <<n>>
                             /\ n.do = do /\ n.policy = x /\ n.set = none /\ n.version = zero /\ n.rest = rest
        BY ONLY <3>3, <4>1, ToIs
      <4> QED BY <4>1, <4>2
    <3>5. from \in Policies \ {p} BY <1>2, <1>3, <2>2
    <3>6. n \in Things("admin")
      BY <3>1, <3>4, <3>5 DEF Things, Does, ThingFits, Updating, Undoing, Copying, ByHand
    <3>7. Begin(<<n>> \o q) BY <1>2, <1>9, <3>2, <3>4
    <3>8. Heads("admin", n) BY <1>1, <3>6, <3>7, ActHeads DEF Inv
    <3> QED BY <3>4, <3>8
  <2> QED BY <2>1, <2>2
<1>11. job'["task"] = job["task"] BY <1>10 DEF Rests, Heads, Elsewhere, Workers
<1>12. \/ Rests("admin")
       \/ \E n \in Thing : Heads("admin", n) /\ FitsNow(n)'
  <2>1. ASSUME NEW n \in Thing, n.do = "copy_rules", n.policy = p PROVE FitsNow(n)'
    <3>1. job'["task"] \in Seq(Without(p)) BY <1>5, <1>11
    <3>2. (\A s \in Sets : held'[p][s] = 0) /\ \A e \in Ext : rows'[p][e] = None
      BY <1>1 DEF Inv, TablesInv, HeldFits, RowsFit
    <3> QED BY <2>1, <3>1, <3>2 DEF FitsNow, Updating, Restoring
  <2> QED BY <1>10, <2>1
<1>13. TablesInv'
  <2>1. RowsFit' BY <1>1, <1>2 DEF Inv, TablesInv, RowsFit, RowFits
  <2>2. HeldFits' BY <1>1, <1>2 DEF Inv, TablesInv, HeldFits
  <2>3. PreviousFits' BY <1>1, PreviousSame DEF Inv, TablesInv
  <2>4. ChannelFits' /\ HistoryFits' BY <1>1 DEF Inv, TablesInv, ChannelFits, HistoryFits
  <2> QED BY <2>1, <2>2, <2>3, <2>4 DEF TablesInv
<1>14. Inv' BY <1>1, <1>12, <1>13, ActKeeps
<1> QED BY <1>1, <1>2, <1>5, <1>10, <1>11, <1>14

\* An edit of nothing here keeps the invariant.
LEMMA IdleEditKeeps ==
    ASSUME Inv, Idly, job' = job, undo' = undo
    PROVE  Inv'
<1>1. TablesInv' BY IdlySame
<1>2. JobsInv' BY DEF Inv, JobsInv, JobsFit, BootsAlone, This
<1>3. HeadFits("admin")' /\ HeadFits("task")' BY HeadFitsStill DEF Inv, Idly
<1> QED BY <1>1, <1>2, <1>3 DEF Inv

\* An edit of one row keeps the invariant.
LEMMA RowEditKeeps ==
    ASSUME Inv, Serving, NEW p \in Policies, NEW e \in Ext, rows[p][e] # None, PutByHand(p, e),
           job' = job, undo' = undo, UNCHANGED <<policies, held, previous, torn, tangled, published, mirror>>
    PROVE  Inv'
<1>1. TablesInv'
  <2>1. HeldFits' /\ PreviousFits' BY HeldSame, PreviousSame DEF Inv, TablesInv
  <2>2. ChannelFits' /\ HistoryFits' BY DEF Inv, TablesInv, ChannelFits, HistoryFits, PutByHand
  <2>3. RowsFit' BY DEF PutByHand
  <2> QED BY <2>1, <2>2, <2>3 DEF TablesInv
<1>2. JobsInv' BY DEF Inv, JobsInv, JobsFit, BootsAlone, This
<1>3. HeadFits("task")'
  <2>1. job["task"] \in Seq(Thing \ Boots) BY ServingIs DEF Inv
  <2> QED BY <2>1, TaskAside DEF Inv
<1>4. HeadFits("admin")'
  <2> SUFFICES ASSUME job["admin"] # <<>> PROVE FitsNow(This("admin"))'
    BY DEF HeadFits
  <2>1. PICK t : t = This("admin") OBVIOUS
  <2>2. t.do \in Does["admin"] /\ ThingFits(t) /\ FitsNow(t)
    BY <2>1, ThisIs DEF Inv, HeadFits, Workers
  <2>3. t.do \notin {"claim", "adopt"} BY <2>2 DEF Does, ByHand, Updating, Undoing, Copying
  <2>4. t.do = "copy_rules" => \A x \in Ext : rows'[t.policy][x] = None
    <3>1. t.do = "copy_rules" => t.policy \in Policies /\ t.policy # p BY <2>2 DEF FitsNow, ThingFits, Copying
    <3> QED BY <2>2, <3>1 DEF FitsNow, PutByHand
  <2>5. t.do \in Restoring => IsKeptOf(t.set, undo)' BY <2>2 DEF FitsNow, IsKeptOf, RowFits
  <2>6. FitsNow(t)' BY <2>2, <2>3, <2>4, <2>5 DEF FitsNow
  <2> QED BY <2>1, <2>6 DEF This
<1> QED BY <1>1, <1>2, <1>3, <1>4 DEF Inv

\* Every edit: nothing of the rules, or one row by hand.
LEMMA EditKeeps ==
    ASSUME Inv, AdminEdits
    PROVE  /\ Inv' /\ job' = job /\ undo' = undo /\ UNCHANGED <<policies, held, previous, torn, tangled, mirror>>
           /\ \/ Idly
              \/ \E p \in Policies, e \in Ext : PutByHand(p, e)
<1>1. job' = job /\ undo' = undo /\ UNCHANGED <<policies, held, previous, torn, tangled, published, mirror>>
  BY DEF AdminEdits, post_site_save, post_rule_toggle, post_rule_delete, RowEdit, OwnEdit, EntryEdit,
         post_rule_create, post_rule_clone, share_custom_rules, post_rule_update_global,
         post_rule_toggle_global, post_rule_delete_global, post_exclusion_add, post_exclusion_from_traffic,
         post_exclusion_remove, post_ip_add, post_ip_remove, post_feed_save, Untouched, channel, history
<1>2. CASE post_rule_toggle \/ post_rule_delete
  <2>1. Serving BY <1>2 DEF post_rule_toggle, post_rule_delete, RowEdit, Edit
  <2>2. /\ policies \subseteq Policies /\ RowsFit /\ rows \in [Policies -> [Ext -> Row \cup {None}]]
        /\ hand \in [Policies -> SUBSET Ext] /\ UNCHANGED <<policies, mirror>>
    BY <1>1 DEF Inv, TablesInv, RowsFit, HistoryFits
  <2>3. \E p \in Policies, e \in Ext : rows[p][e] # None /\ PutByHand(p, e)
    <3>1. CASE post_rule_toggle
      <4>1. PICK p \in Policies, e \in Ext :
                rows[p][e] # None /\ rows' = [rows EXCEPT ![p][e].on = ~@] /\ UNCHANGED hand
        BY <2>2, <3>1 DEF post_rule_toggle, RowEdit
      <4>2. PICK old \in Row : old = rows[p][e] BY <2>2, <4>1
      <4>3. PICK on \in BOOLEAN : on = ~old.on BY <4>2 DEF Row
      <4>4. PICK row \in Row : row = [old EXCEPT !.on = on] /\ row.text = old.text /\ row.claimed = old.claimed
        <5>1. /\ [old EXCEPT !.on = on] \in Row
              /\ [old EXCEPT !.on = on].text = old.text /\ [old EXCEPT !.on = on].claimed = old.claimed
          BY DEF Row
        <5> QED BY <5>1
      <4>5. PICK new \in Row \cup {None} : new = row BY <4>4
      <4>6. rows' = [rows EXCEPT ![p][e] = new] BY <2>2, <4>1, <4>2, <4>3, <4>4, <4>5
      <4>7. PICK marked \in BOOLEAN : marked = FALSE OBVIOUS
      <4>8. hand' = [hand EXCEPT ![p] = IF marked THEN hand[p] \cup {e} ELSE hand[p]] BY <2>2, <4>1, <4>7
      <4>9. new # None /\ new.text = rows[p][e].text /\ new.claimed = rows[p][e].claimed
        BY <4>2, <4>4, <4>5, RuleSetsAssumption
      <4>10. p \in policies /\ RowFits(SetOf(e), e, new)
        BY <2>2, <4>1, <4>2, <4>4, <4>5, SwitchedFits
      <4>11. /\ new # None => p \in policies /\ RowFits(SetOf(e), e, new)
             /\ \/ marked /\ (rows[p][e] = None \/ new = None)
                \/ ~marked /\ rows[p][e] = None /\ new = None
                \/ ~marked /\ rows[p][e] # None /\ new # None
                   /\ new.text = rows[p][e].text /\ new.claimed = rows[p][e].claimed
        BY <4>1, <4>7, <4>9, <4>10
      <4>12. PutByHand(p, e) BY ONLY <2>2, <4>5, <4>6, <4>7, <4>8, <4>11, PutByHandIs
      <4> QED BY <4>1, <4>12
    <3>2. CASE post_rule_delete
      <4>1. PICK p \in Policies, e \in Ext :
                rows[p][e] # None /\ rows' = Cleared(p, {e}) /\ hand' = [hand EXCEPT ![p] = @ \cup {e}]
        BY <2>2, <3>2 DEF post_rule_delete, RowEdit
      <4>2. hand' = [hand EXCEPT ![p] = hand[p] \cup {e}] BY <4>1
      <4>3. PutByHand(p, e) BY <2>2, <4>1, <4>2, DropIs
      <4> QED BY <4>1, <4>3
    <3> QED BY <1>2, <3>1, <3>2
  <2>4. Inv' BY <1>1, <2>1, <2>3, RowEditKeeps
  <2> QED BY <1>1, <2>3, <2>4
<1>3. CASE ~(post_rule_toggle \/ post_rule_delete)
  <2>1. Idly
    BY <1>1, <1>3 DEF AdminEdits, post_site_save, RowEdit, OwnEdit, EntryEdit, Idly,
         post_rule_create, post_rule_clone, share_custom_rules, post_rule_update_global,
         post_rule_toggle_global, post_rule_delete_global, post_exclusion_add, post_exclusion_from_traffic,
         post_exclusion_remove, post_ip_add, post_ip_remove, post_feed_save, Untouched, channel, history
  <2>2. Inv' BY <1>1, <2>1, IdleEditKeeps
  <2> QED BY <1>1, <2>1, <2>2
<1> QED BY <1>2, <1>3

\* A stop: what was under way is cut off.
LEMMA RestartKeeps ==
    ASSUME Inv, Restart
    PROVE  /\ Inv' /\ UNCHANGED <<policies, rows, held, previous, hand, mirror>> /\ undo' = None
           /\ job'["admin"] = <<>> /\ (job'["task"] = <<>> \/ This("task")' \in Queued("task"))
           /\ torn' = torn \cup InHand /\ tangled' = tangled \cup UNION {IF Kinds(w) \cap Undoing = {} THEN {} ELSE Busy(w) : w \in Workers}
<1>1. /\ UNCHANGED <<policies, rows, held, previous, published, mirror, hand>> /\ undo' = None
      /\ torn' = torn \cup InHand
      /\ tangled' = tangled \cup UNION {IF Kinds(w) \cap Undoing = {} THEN {} ELSE Busy(w) : w \in Workers}
  BY DEF Restart, tables, channel
<1>2. policies \subseteq Policies BY DEF Inv, TablesInv, RowsFit
<1>3. JobsInv' /\ job'["admin"] = <<>> /\ (job'["task"] = <<>> \/ This("task")' \in Queued("task"))
  BY <1>2, RestartRests DEF Inv
<1>4. HeadFits("task")'
  <2>1. "task" \in Workers BY DEF Workers
  <2> QED BY <1>3, <2>1, RestingFits
<1>5. HeadFits("admin")' BY <1>3 DEF HeadFits
<1>6. torn' \in SUBSET Holdings /\ tangled' \in SUBSET torn'
  <2>1. \A w \in Workers : Busy(w) \subseteq Holdings BY BusyIs DEF Inv
  <2>2. InHand \subseteq Holdings BY <2>1 DEF InHand
  <2>3. UNION {IF Kinds(w) \cap Undoing = {} THEN {} ELSE Busy(w) : w \in Workers} \subseteq InHand BY DEF InHand
  <2> QED BY <1>1, <2>2, <2>3 DEF Inv, TablesInv, HistoryFits
<1>7. TablesInv'
  <2>1. RowsFit' /\ HeldFits' /\ PreviousFits' BY <1>1, RowsSame, HeldSame, PreviousSame DEF Inv, TablesInv
  <2>2. ChannelFits' /\ HistoryFits' BY <1>1, <1>6 DEF Inv, TablesInv, ChannelFits, HistoryFits
  <2> QED BY <2>1, <2>2 DEF TablesInv
<1> QED BY <1>1, <1>3, <1>4, <1>5, <1>7 DEF Inv

-----------------------------------------------------------------------------
(* Every step. *)
Switches == \A p \in Policies, e \in Ext : Steady(p, e)

\* Rules as they were, or gone, are switched as they were.
LEMMA SameSwitches ==
    ASSUME \A p \in Policies, e \in Ext : rows'[p][e] = rows[p][e] \/ rows'[p][e] = None
    PROVE  Switches
BY DEF Switches, Steady

\* The invariant at first.
LEMMA StartHolds ==
    ASSUME Init
    PROVE  Inv
<1> DEFINE p == CHOOSE p \in Policies : TRUE
<1>1. p \in Policies BY RuleSetsAssumption
<1>2. PICK b \in BOOLEAN : b = (left.first # "before sets") OBVIOUS
<1>3. /\ policies \in SUBSET Policies /\ p \in policies
      /\ rows = [q \in Policies |-> [e \in Ext |->
                   IF q = p /\ e \in File[SetOf(e)][1] THEN [Fresh(1) EXCEPT !.claimed = b] ELSE None]]
      /\ held = [q \in Policies |-> [s \in Sets |-> IF q = p /\ b THEN 1 ELSE 0]]
      /\ previous = [q \in Policies |-> [s \in Sets |-> None]]
      /\ published = [s \in Sets |-> 1] /\ mirror = published
      /\ job = [w \in Workers |-> <<>>]
      /\ hand = [q \in Policies |-> {}] /\ torn = {} /\ tangled = {}
  BY <1>1, <1>2 DEF Init
<1> HIDE DEF p
<1>4. PICK row \in Row : row = [Fresh(1) EXCEPT !.claimed = b] /\ row.text = 1
  <2>1. [Fresh(1) EXCEPT !.claimed = b] \in Row /\ [Fresh(1) EXCEPT !.claimed = b].text = 1 BY DEF Fresh, Row
  <2> QED BY <2>1
<1>5. JobsInv
  <2>1. job \in [Workers -> Seq(Thing)] BY <1>3
  <2>2. \A w \in Workers : job[w] = <<>> BY <1>3
  <2>3. job["task"] \in Seq(Thing \ Boots)
    <3>1. PICK S : S = Thing \ Boots OBVIOUS
    <3>2. <<>> \in Seq(S) OBVIOUS
    <3>3. job["task"] = <<>> BY <2>2 DEF Workers
    <3> QED BY <3>1, <3>2, <3>3
  <2> QED BY <2>1, <2>2, <2>3 DEF JobsInv, JobsFit, BootsAlone
<1>6. \A s \in Sets : Latest(s) \in Nat /\ 1 <= Latest(s) /\ 1 \in 1..Latest(s) BY RuleSetsAssumption DEF Latest
<1>7. ChannelFits BY <1>3, <1>6 DEF ChannelFits
<1>8. RowsFit
  <2>1. \A q \in Policies, e \in Ext : rows[q][e] = IF q = p /\ e \in File[SetOf(e)][1] THEN row ELSE None
    BY <1>3, <1>4
  <2>2. rows \in [Policies -> [Ext -> Row \cup {None}]] BY <1>3, <1>4
  <2>3. \A q \in Policies \ policies, e \in Ext : rows[q][e] = None BY <1>3, <2>1
  <2>4. ASSUME NEW q \in Policies, NEW s \in Sets, NEW e \in RulesOf(s) PROVE RowFits(s, e, rows[q][e])
    <3>1. e \in Ext /\ SetOf(e) = s BY RuleSetsAssumption, OfOneSet
    <3>2. mirror[s] = 1 BY <1>3
    <3>3. rows[q][e] = None \/ (rows[q][e] = row /\ e \in File[s][1]) BY <2>1, <3>1
    <3>4. CASE rows[q][e] = None BY <3>4 DEF RowFits
    <3>5. CASE rows[q][e] # None
      <4>1. rows[q][e].text = 1 /\ e \in File[s][1] BY <1>4, <3>3, <3>5
      <4> QED BY <3>2, <4>1 DEF RowFits
    <3> QED BY <3>4, <3>5
  <2> QED BY <1>3, <2>2, <2>3, <2>4 DEF RowsFit
<1>9. HeldFits BY <1>3 DEF HeldFits
<1>10. PreviousFits BY <1>3 DEF PreviousFits
<1>11. HistoryFits BY <1>3 DEF HistoryFits
<1>12. HeadFits("admin") /\ HeadFits("task") BY <1>3 DEF HeadFits, Workers
<1> QED BY <1>5, <1>7, <1>8, <1>9, <1>10, <1>11, <1>12 DEF Inv, TablesInv

\* Every step of a job keeps the invariant and the switches.
LEMMA JobStepKeeps ==
    ASSUME Inv, NEW w \in Workers, JobStep(w)
    PROVE  Inv' /\ Switches
<1>1. CASE apply(w) BY <1>1, ApplyKeeps, SameSwitches
<1>2. CASE snapshot_before_update(w)
  <2>1. rows' = rows BY <1>2 DEF snapshot_before_update
  <2> QED BY <1>2, <2>1, SnapshotKeeps, SameSwitches
<1>3. CASE install_rule(w)
  <2> DEFINE p == This(w).policy
             e == Taken(w)
  <2>1. /\ Inv'
        /\ \A q \in Policies \ {p} : rows'[q] = rows[q]
        /\ \A x \in Ext \ {e} : rows'[p][x] = rows[p][x]
        /\ rows[p][e] # None => rows'[p][e].on = rows[p][e].on
    BY <1>3, InstallKeeps
  <2> QED BY <2>1 DEF Switches, Steady
<1>4. CASE sweep(w)
  <2> DEFINE p == This(w).policy
             gone == OfSet(p, This(w).set) \ File[This(w).set][This(w).version]
  <2>1. /\ Inv'
        /\ \A q \in Policies \ {p} : rows'[q] = rows[q]
        /\ \A x \in Ext : rows'[p][x] = IF x \in gone THEN None ELSE rows[p][x]
    BY <1>4, SweepKeeps
  <2> HIDE DEF gone
  <2> QED BY <2>1, SameSwitches
<1>5. CASE record(w) BY <1>5, RecordKeeps, SameSwitches
<1>6. CASE PolicyGone(w) BY <1>6, GoneKeeps, SameSwitches DEF Idly
<1>7. CASE restore_rule(w)
  <2> DEFINE p == This(w).policy
             e == Taken(w)
  <2>1. /\ Inv'
        /\ \A q \in Policies \ {p} : rows'[q] = rows[q]
        /\ \A x \in Ext \ {e} : rows'[p][x] = rows[p][x]
        /\ rows[p][e] # None => rows'[p][e].on = rows[p][e].on
    BY <1>7, RestoreKeeps
  <2> QED BY <2>1 DEF Switches, Steady
<1>8. CASE sweep_back(w)
  <2> DEFINE p == This(w).policy
             gone == {e \in RulesOf(This(w).set) : undo.rules[e] = None} \cap OfSet(p, This(w).set)
  <2>1. /\ Inv'
        /\ \A q \in Policies \ {p} : rows'[q] = rows[q]
        /\ \A x \in Ext : rows'[p][x] = IF x \in gone THEN None ELSE rows[p][x]
    BY <1>8, SweepBackKeeps
  <2> HIDE DEF gone
  <2> QED BY <2>1, SameSwitches
<1>9. CASE put_back(w) BY <1>9, PutBackKeeps, SameSwitches
<1>10. CASE forget(w) BY <1>10, ForgetKeeps, SameSwitches
<1>11. CASE remove(w)
  <2> DEFINE p == This(w).policy
  <2>1. /\ Inv'
        /\ \A q \in Policies \ {p} : rows'[q] = rows[q]
        /\ \A x \in Ext : rows'[p][x] = IF x \in OfSet(p, This(w).set) THEN None ELSE rows[p][x]
    BY <1>11, RemoveKeeps
  <2> QED BY <2>1, SameSwitches
<1>12. CASE release(w) BY <1>12, ReleaseKeeps, SameSwitches
<1>13. CASE add_rules_by_external_ids(w) BY <1>13, TickKeeps DEF PutByHand, Switches
<1>14. CASE switch_off_by_external_ids(w) \/ switch_on(w) BY <1>14, SwitchKeeps DEF PutByHand, Switches
<1>15. CASE drop(w) BY <1>15, DropKeeps DEF PutByHand, Switches
<1>16. CASE copy_rules(w)
  <2> DEFINE p == This(w).policy
  <2>1. /\ Inv'
        /\ \A e \in Ext : rows[p][e] = None
        /\ \A q \in Policies \ {p} : rows'[q] = rows[q]
    BY <1>16, CopyRulesKeeps
  <2> QED BY <2>1 DEF Switches, Steady
<1>17. CASE copy_sets(w) BY <1>17, CopySetsKeeps, SameSwitches
<1>18. CASE copy_entries(w) \/ enter(w) \/ attach_site(w) BY <1>18, ListKeeps, SameSwitches DEF Idly
<1>19. CASE delete_policy(w)
  <2> DEFINE p == This(w).policy
  <2>1. /\ Inv'
        /\ \A e \in Ext : rows'[p][e] = None
        /\ \A q \in Policies \ {p} : rows'[q] = rows[q]
    BY <1>19, DeleteKeeps
  <2> QED BY <2>1, SameSwitches
<1> QED BY <1>1, <1>2, <1>3, <1>4, <1>5, <1>6, <1>7, <1>8, <1>9, <1>10, <1>11, <1>12, <1>13, <1>14,
           <1>15, <1>16, <1>17, <1>18, <1>19 DEF JobStep

\* Every step of the task does.
LEMMA TaskStepKeeps ==
    ASSUME Inv, TaskSteps
    PROVE  Inv' /\ Switches
<1>1. CASE CheckTask BY <1>1, RoundKeeps, SameSwitches DEF Idly
<1>2. CASE check BY <1>2, CheckKeeps, SameSwitches DEF Idly
<1>3. CASE sync_cache BY <1>3, SyncKeeps, SameSwitches
<1>4. CASE AutoApply BY <1>4, AutoKeeps, SameSwitches DEF Idly
<1>5. CASE JobStep("task") BY <1>5, JobStepKeeps DEF Workers
<1>6. CASE backfill_rule_sets BY <1>6, BackfillKeeps, SameSwitches DEF Idly
<1>7. CASE claim
  <2> DEFINE p == This("task").policy
             e == Taken("task")
  <2>1. /\ Inv'
        /\ rows'[p][e] = [rows[p][e] EXCEPT !.claimed = TRUE]
        /\ \A q \in Policies \ {p} : rows'[q] = rows[q]
        /\ \A x \in Ext \ {e} : rows'[p][x] = rows[p][x]
        /\ p \in Policies /\ rows[p][e] # None /\ e \in File[This("task").set][1] /\ This("task").set \in Sets
    BY <1>7, ClaimKeeps
  <2>2. e \in Ext
    <3>1. 1 \in 1..Latest(This("task").set) BY <2>1, RuleSetsAssumption DEF Latest
    <3> QED BY <2>1, <3>1, InFile
  <2>3. rows[p][e] \in Row BY <2>1, <2>2 DEF Inv, TablesInv, RowsFit
  <2>4. [rows[p][e] EXCEPT !.claimed = TRUE].text = rows[p][e].text BY <2>3 DEF Row
  <2> QED BY <2>1, <2>4 DEF Switches, Steady
<1>8. CASE adopt BY <1>8, AdoptKeeps, SameSwitches
<1>9. CASE purge BY <1>9, PurgeKeeps, SameSwitches
<1> QED BY <1>1, <1>2, <1>3, <1>4, <1>5, <1>6, <1>7, <1>8, <1>9 DEF TaskSteps

\* Whatever an administrator begins does.
LEMMA ActStepKeeps ==
    ASSUME Inv, AdminActs
    PROVE  Inv' /\ Switches
<1>1. CASE post_apply_rule_update BY <1>1, ApplyUpdateKeeps, SameSwitches DEF Idly
<1>2. CASE post_revert_rule_set BY <1>2, RevertKeeps, SameSwitches
<1>3. CASE post_remove_rule_set BY <1>3, RemoveBegins, SameSwitches
<1>4. CASE post_rules_catalog \/ post_bulk_rules \/ post_policy_delete BY <1>4, PickerKeeps, SameSwitches DEF Idly
<1>5. CASE post_policy_create BY <1>5, CreateKeeps, SameSwitches
<1> QED BY <1>1, <1>2, <1>3, <1>4, <1>5 DEF AdminActs

\* Every step does.
LEMMA NextKeeps ==
    ASSUME Inv, Next
    PROVE  Inv' /\ Switches
<1>1. CASE Publish BY <1>1, PublishKeeps, SameSwitches
<1>2. CASE TaskSteps BY <1>2, TaskStepKeeps
<1>3. CASE JobStep("admin") BY <1>3, JobStepKeeps DEF Workers
<1>4. CASE AdminActs BY <1>4, ActStepKeeps
<1>5. CASE AdminEdits
  <2>1. Inv' /\ (Idly \/ \E p \in Policies, e \in Ext : PutByHand(p, e)) BY <1>5, EditKeeps
  <2>2. CASE Idly BY <2>1, <2>2, SameSwitches DEF Idly
  <2>3. CASE \E p \in Policies, e \in Ext : PutByHand(p, e) BY <2>1, <2>3 DEF PutByHand, Switches
  <2> QED BY <2>1, <2>2, <2>3
<1>6. CASE Restart BY <1>6, RestartKeeps, SameSwitches
<1> QED BY <1>1, <1>2, <1>3, <1>4, <1>5, <1>6 DEF Next

\* And so does no step.
LEMMA StutterKeeps ==
    ASSUME Inv, UNCHANGED vars
    PROVE  Inv' /\ Idly /\ job' = job /\ undo' = undo
<1>1. Idly /\ job' = job /\ undo' = undo BY DEF vars, tables, channel, history, Idly
<1>2. Inv' BY <1>1, IdleEditKeeps
<1> QED BY <1>1, <1>2

\* Whatever the workers have still to do has its form, no rule is of a version its
\* set does not have or the mirror has not, and what is being done fits the tables.
THEOREM RulesInvariant == Spec => []Inv
<1>1. Init => Inv BY StartHolds
<1>2. Inv /\ [Next]_vars => Inv' BY NextKeeps, StutterKeeps
<1> QED BY <1>1, <1>2, PTL DEF Spec

\* What a rule says and whether it is on never change together: no update and no
\* putting back switches a rule that is there (install_rule, restore_rule).
THEOREM SwitchStaysTheOperators == Spec => SwitchIsTheOperators
<1>1. Inv /\ [Next]_vars =>
        [\A p \in Policies, e \in Ext :
          rows[p][e] # None /\ rows'[p][e] # None =>
              rows[p][e].text = rows'[p][e].text \/ rows[p][e].on = rows'[p][e].on]_vars
  BY NextKeeps DEF Switches, Steady
<1> QED BY <1>1, RulesInvariant, PTL DEF Spec, SwitchIsTheOperators

-----------------------------------------------------------------------------
(* What is there of a set, while somebody is at it and when nobody is. *)
Present(p, e) == rows[p][e] # None /\ rows[p][e].claimed
Has(p, e, v) == Present(p, e) /\ rows[p][e].text = v
\* What was kept is the version it says, what was by hand apart.
Describes(s, u) ==
    \A e \in RulesOf(s) :
        \/ e \in u.hand
        \/ u.rules[e] = None /\ e \notin File[s][u.version]
        \/ u.rules[e] # None /\ e \in File[s][u.version] /\ u.rules[e].text = u.version
Whole(p, s) == held[p][s] > 0 /\ <<p, s>> \notin torn => IsVersion(p, s, held[p][s])
\* How far a job has come: what it has written is there, what it had to take out
\* is not.
WorkFits(t) ==
    /\ t.do \in {"snapshot", "forget"} => Whole(t.policy, t.set)
    /\ t.do \in {"rule", "sweep", "record"} =>
           \A e \in File[t.set][t.version] : e \in t.rest \/ e \in hand[t.policy] \/ Has(t.policy, e, t.version)
    /\ t.do = "record" =>
           \A e \in RulesOf(t.set) : Present(t.policy, e) => e \in File[t.set][t.version] \/ e \in hand[t.policy]
    /\ t.do \in {"restore", "sweep_back", "put_back"} =>
           \A e \in RulesOf(t.set) :
               \/ undo.rules[e] = None \/ e \in t.rest \/ e \in hand[t.policy]
               \/ e \notin undo.hand /\ Has(t.policy, e, undo.rules[e].text)
    /\ t.do = "put_back" =>
           \A e \in RulesOf(t.set) :
               /\ Present(t.policy, e) => undo.rules[e] # None \/ e \in hand[t.policy]
               /\ undo.rules[e] # None \/ e \in hand[t.policy] \/ e \notin undo.hand
AtIt(w) == job[w] # <<>> /\ This(w).do \in Updating \cup Undoing
Alone(w) == AtIt(w) /\ This(w).policy \in policies /\ <<This(w).policy, This(w).set>> \notin tangled
WorkIsSound == \A w \in Workers : Alone(w) => WorkFits(This(w))
\* Two at one holding are known of.
Together == \A h \in Busy("admin") : h \in Busy("task") => h \in tangled
PreviousSound ==
    \A p \in Policies, s \in Sets :
        previous[p][s] # None /\ previous[p][s].sound => Describes(s, previous[p][s])
UndoSound ==
    job["admin"] # <<>> /\ This("admin").do \in Restoring =>
        (undo.sound => Describes(This("admin").set, undo))
Sound == Together /\ PreviousSound /\ UndoSound /\ WorkIsSound /\ HeldIsWhole

-----------------------------------------------------------------------------
(* A holding that nobody disturbs, and a worker's way with it. *)
Settled(q, x) == held[q][x] > 0 /\ <<q, x>> \notin torn \cup InHand => IsVersion(q, x, held[q][x])

\* What a step leaves alone: but for what is marked by hand.
Calm(q, x) ==
    /\ q \in policies
    /\ \A e \in RulesOf(x) : e \in hand'[q] \/ (e \notin hand[q] /\ Alike(q, e))
    /\ held'[q][x] = held[q][x]
    /\ <<q, x>> \in torn => <<q, x>> \in torn'
    /\ <<q, x>> \in tangled => <<q, x>> \in tangled'

\* The holdings somebody is at.
LEMMA HandsAre ==
    /\ InHand = Busy("admin") \cup Busy("task")
    /\ InHand' = Busy("admin")' \cup Busy("task")'
BY DEF InHand, Workers

\* A holding is at a version, rule by rule.
LEMMA VersionIs ==
    ASSUME NEW p, NEW s, NEW v
    PROVE  IsVersion(p, s, v) <=>
               \A e \in RulesOf(s) :
                   e \in hand[p] \/ /\ Present(p, e) <=> e \in File[s][v]
                                    /\ e \in File[s][v] => rows[p][e].text = v
BY DEF IsVersion, OfSet, Present

\* The same of the next state.
LEMMA VersionIsNext ==
    ASSUME NEW p, NEW s, NEW v
    PROVE  IsVersion(p, s, v)' <=>
               \A e \in RulesOf(s) :
                   e \in hand'[p] \/ /\ Present(p, e)' <=> e \in File[s][v]
                                     /\ e \in File[s][v] => rows'[p][e].text = v
BY DEF IsVersion, OfSet, Present

\* A rule that says what it said is there as it was.
LEMMA AlikeIs ==
    ASSUME NEW p, NEW e, Alike(p, e)
    PROVE  /\ Present(p, e)' <=> Present(p, e)
           /\ Present(p, e) => rows'[p][e].text = rows[p][e].text
           /\ \A v : Has(p, e, v) => Has(p, e, v)'
BY DEF Alike, Present, Has

\* A version that is there stays.
LEMMA CalmVersion ==
    ASSUME NEW q, NEW x, NEW v, Calm(q, x), IsVersion(q, x, v)
    PROVE  IsVersion(q, x, v)'
<1> SUFFICES ASSUME NEW e \in RulesOf(x), e \notin hand'[q]
             PROVE  /\ Present(q, e)' <=> e \in File[x][v]
                    /\ e \in File[x][v] => rows'[q][e].text = v
  BY VersionIsNext
<1>1. e \notin hand[q] /\ Alike(q, e)  BY DEF Calm
<1>2. /\ Present(q, e) <=> e \in File[x][v]
      /\ e \in File[x][v] => rows[q][e].text = v
  BY <1>1, VersionIs
<1> QED BY <1>1, <1>2, AlikeIs

\* A whole holding left alone is whole.
LEMMA CalmWhole ==
    ASSUME NEW q, NEW x, Calm(q, x), Whole(q, x)
    PROVE  Whole(q, x)'
<1>1. PICK v : v = held[q][x]  OBVIOUS
<1>2. held'[q][x] = v /\ (<<q, x>> \in torn => <<q, x>> \in torn')  BY <1>1 DEF Calm
<1>3. v > 0 /\ <<q, x>> \notin torn => IsVersion(q, x, v)  BY <1>1 DEF Whole
<1>4. v > 0 /\ <<q, x>> \notin torn => IsVersion(q, x, v)'  BY <1>3, CalmVersion
<1> QED BY <1>2, <1>4 DEF Whole

\* A settled holding left alone is settled.
LEMMA CalmSettled ==
    ASSUME NEW q, NEW x, Calm(q, x), Settled(q, x),
           <<q, x>> \in InHand => <<q, x>> \in InHand' \/ <<q, x>> \in torn'
    PROVE  Settled(q, x)'
<1>1. PICK v : v = held[q][x]  OBVIOUS
<1>2. held'[q][x] = v /\ (<<q, x>> \in torn => <<q, x>> \in torn')  BY <1>1 DEF Calm
<1>3. v > 0 /\ <<q, x>> \notin torn \cup InHand => IsVersion(q, x, v)  BY <1>1 DEF Settled
<1>4. v > 0 /\ <<q, x>> \notin torn \cup InHand => IsVersion(q, x, v)'  BY <1>3, CalmVersion
<1> QED BY <1>2, <1>4 DEF Settled

\* What a job has done of a holding stays done.
LEMMA CalmWork ==
    ASSUME NEW t, Calm(t.policy, t.set), WorkFits(t), undo' = undo \/ t.do \notin Restoring,
           t.do \in Updating => File[t.set][t.version] \subseteq RulesOf(t.set)
    PROVE  WorkFits(t)'
<1> DEFINE p == t.policy
           s == t.set
<1>1. t.do \in {"snapshot", "forget"} => Whole(p, s)'
  BY CalmWhole DEF WorkFits
<1>2. \A e \in RulesOf(s) : e \in hand'[p] \/ (e \notin hand[p] /\ Alike(p, e))
  BY DEF Calm
<1>3. \A e \in RulesOf(s) : \/ e \in hand'[p]
                            \/ /\ e \notin hand[p] /\ (Present(p, e)' <=> Present(p, e))
                               /\ \A v : Has(p, e, v) => Has(p, e, v)'
  BY <1>2, AlikeIs
<1>4. t.do \in {"rule", "sweep", "record"} =>
          \A e \in File[s][t.version] : e \in t.rest \/ e \in hand'[p] \/ Has(p, e, t.version)'
  BY <1>3 DEF WorkFits, Updating
<1>5. t.do = "record" =>
          \A e \in RulesOf(s) : Present(p, e)' => e \in File[s][t.version] \/ e \in hand'[p]
  BY <1>3 DEF WorkFits
<1>6. t.do \in {"restore", "sweep_back", "put_back"} =>
          \A e \in RulesOf(s) :
              \/ undo'.rules[e] = None \/ e \in t.rest \/ e \in hand'[p]
              \/ e \notin undo'.hand /\ Has(p, e, undo.rules[e].text)'
  <2> SUFFICES ASSUME t.do \in {"restore", "sweep_back", "put_back"}, NEW e \in RulesOf(s), e \notin hand'[p],
                      undo.rules[e] # None, e \notin t.rest
               PROVE  e \notin undo.hand /\ Has(p, e, undo.rules[e].text)'
    BY DEF Restoring
  <2>1. undo' = undo  BY DEF Restoring
  <2>2. e \notin hand[p] /\ \A v : Has(p, e, v) => Has(p, e, v)'  BY <1>3
  <2>3. e \notin undo.hand /\ Has(p, e, undo.rules[e].text)  BY <2>2 DEF WorkFits
  <2>4. PICK v : v = undo.rules[e].text  OBVIOUS
  <2> QED BY <2>1, <2>2, <2>3, <2>4
<1>7. t.do = "put_back" =>
          \A e \in RulesOf(s) :
              /\ Present(p, e)' => undo'.rules[e] # None \/ e \in hand'[p]
              /\ undo'.rules[e] # None \/ e \in hand'[p] \/ e \notin undo'.hand
  BY <1>3 DEF WorkFits, Restoring
<1> QED BY <1>1, <1>4, <1>5, <1>6, <1>7 DEF WorkFits

-----------------------------------------------------------------------------
(* A step keeps what is sound when what it touches is sound after it. *)
AtOf(x) == <<This(x).policy, This(x).set>>

\* A worker at a holding is at that one.
LEMMA AtItIs ==
    ASSUME JobsInv, NEW w \in Workers
    PROVE  /\ AtIt(w) => /\ OfHolding(This(w)) /\ Busy(w) = {AtOf(w)} /\ AtOf(w) \in Holdings
                         /\ This(w).do \in Does[w] /\ ThingFits(This(w)) /\ This(w) \in Thing
           /\ ~AtIt(w) => Busy(w) = {}
<1>1. AtIt(w) => job[w] # <<>> /\ This(w).do \in Updating \cup Undoing  BY DEF AtIt
<1>2. AtIt(w) => OfHolding(This(w)) /\ Busy(w) = {AtOf(w)}  BY <1>1, BusyIs DEF AtOf
<1>3. AtIt(w) => AtOf(w) \in Holdings  BY <1>2, BusyIs
<1>4. AtIt(w) => /\ This(w).do \in Does[w] /\ ThingFits(This(w)) /\ This(w) \in Thing
  BY <1>1, ThisIs
<1>5. ~AtIt(w) => Busy(w) = {}  BY DEF AtIt, Busy
<1> QED BY <1>2, <1>3, <1>4, <1>5

\* A worker whose job is as it was.
LEMMA SameJob ==
    ASSUME NEW x, job'[x] = job[x]
    PROVE  /\ This(x)' = This(x) /\ (AtIt(x)' <=> AtIt(x)) /\ Busy(x)' = Busy(x) /\ AtOf(x)' = AtOf(x)
BY DEF This, AtIt, Busy, AtOf

\* An updating file is the set's.
LEMMA UpdatingFile ==
    ASSUME NEW t, ThingFits(t), t.do \in Updating
    PROVE  File[t.set][t.version] \subseteq RulesOf(t.set)
<1>1. t.set \in Sets /\ t.version \in 1..Latest(t.set)  BY DEF ThingFits, OfVersion, OfHolding, Updating
<1> QED BY <1>1, OfVersions

\* The job of one that the step leaves alone.
LEMMA AsideSound ==
    ASSUME JobsInv, WorkIsSound, NEW x \in Workers, job'[x] = job[x], undo' = undo \/ x = "task",
           AtIt(x) => \/ AtOf(x)[1] \notin policies'
                      \/ AtOf(x) \in tangled'
                      \/ Calm(This(x).policy, This(x).set)
    PROVE  Alone(x)' => WorkFits(This(x))'
<1> SUFFICES ASSUME Alone(x)'
             PROVE  WorkFits(This(x))'
  OBVIOUS
<1>1. PICK t : t = This(x)  OBVIOUS
<1>2. /\ AtIt(x) /\ This(x)' = t /\ AtOf(x) = <<t.policy, t.set>>
      /\ t.policy \in policies' /\ <<t.policy, t.set>> \notin tangled'
  BY <1>1, SameJob DEF Alone, AtOf
<1>3. Calm(t.policy, t.set)  BY <1>1, <1>2
<1>4. Alone(x)  BY <1>1, <1>2, <1>3 DEF Alone, Calm
<1>5. WorkFits(t)  BY <1>1, <1>4 DEF WorkIsSound
<1>6. t.do \in Does[x] /\ ThingFits(t)  BY <1>1, <1>2, AtItIs
<1>7. undo' = undo \/ t.do \notin Restoring
  BY <1>6 DEF Does, Restoring, Updating, Booting
<1>8. t.do \in Updating => File[t.set][t.version] \subseteq RulesOf(t.set)
  BY <1>6, UpdatingFile
<1>9. WorkFits(t)'  BY <1>3, <1>5, <1>7, <1>8, CalmWork
<1> QED BY <1>2, <1>9

\* What was kept stays as it was kept.
KeptAlike ==
    \A p \in Policies, s \in Sets :
        \/ previous'[p][s] = None \/ previous'[p][s] = previous[p][s]
        \/ previous'[p][s].sound => Describes(s, previous'[p][s])

\* What is kept describes a version, as it did.
LEMMA PreviousKept ==
    ASSUME PreviousSound, KeptAlike
    PROVE  PreviousSound'
BY DEF PreviousSound, KeptAlike, Describes

\* What is being put back describes one, as it did.
LEMMA UndoKept ==
    ASSUME UndoSound,
           \/ job'["admin"] = <<>>
           \/ This("admin")'.do \notin Restoring
           \/ /\ undo' = undo /\ job["admin"] # <<>> /\ This("admin").do \in Restoring
              /\ This("admin")'.set = This("admin").set
    PROVE  UndoSound'
BY DEF UndoSound, Describes

\* Not two at one holding but it is known of.
LEMMA StillTogether ==
    ASSUME Together,
           \/ Busy("admin")' = {} \/ Busy("task")' = {}
           \/ /\ Busy("admin")' \subseteq Busy("admin") /\ Busy("task")' \subseteq Busy("task")
              /\ tangled \subseteq tangled'
    PROVE  Together'
BY DEF Together

\* Beginning where another is, one is known to be there with it.
LEMMA StartTogether ==
    ASSUME Together, HistoryFits, NEW w \in Workers, NEW h \in Holdings, Starting(w, h),
           Busy(w)' \subseteq {h}, \A x \in Workers \ {w} : Busy(x)' = Busy(x)
    PROVE  Together'
<1>1. \A x \in Workers \ {w} : h \in Busy(x) => h \in tangled'  BY StartingIs
<1> QED BY <1>1 DEF Together, Workers

\* A step, of a worker or not, that touches some holdings.
LEMMA SoundKeeps ==
    ASSUME Inv, Sound, NEW F \in SUBSET Holdings,
           \A q \in Policies, x \in Sets :
               q \in policies' => IF <<q, x>> \in F THEN Settled(q, x)'
                                  ELSE Calm(q, x) /\ (<<q, x>> \in InHand => <<q, x>> \in InHand' \cup torn'),
           policies' \subseteq Policies, KeptAlike, Together', UndoSound',
           \A x \in Workers : Alone(x)' => WorkFits(This(x))'
    PROVE  Sound'
<1>1. PreviousSound'  BY PreviousKept DEF Sound
<1>2. WorkIsSound'  BY DEF WorkIsSound
<1>3. ASSUME NEW q \in policies', NEW x \in Sets
      PROVE  Settled(q, x)'
  <2>1. q \in Policies  OBVIOUS
  <2>2. CASE <<q, x>> \in F  BY <2>1, <2>2
  <2>3. CASE <<q, x>> \notin F
    <3>1. Calm(q, x) /\ (<<q, x>> \in InHand => <<q, x>> \in InHand' \cup torn')  BY <2>1, <2>3
    <3>2. Settled(q, x)  BY <3>1 DEF Calm, Sound, HeldIsWhole, Settled
    <3> QED BY <3>1, <3>2, CalmSettled
  <2> QED BY <2>2, <2>3
<1>4. HeldIsWhole'  BY <1>3 DEF HeldIsWhole, Settled
<1> QED BY <1>1, <1>2, <1>4 DEF Sound

-----------------------------------------------------------------------------
(* A step of one worker. *)
\* A step of a worker keeps what is sound, when what it touches is sound after it.
LEMMA StepSound ==
    ASSUME Inv, Inv', Sound, NEW w \in Workers, NEW F \in SUBSET Holdings,
           Elsewhere(w), undo' = undo \/ w = "admin",
           \A q \in Policies, x \in Sets :
               q \in policies' => IF <<q, x>> \in F THEN Settled(q, x)' ELSE Calm(q, x),
           \A h \in Busy(w) : h \in F \/ h[1] \notin policies' \/ h \in Busy(w)' \cup torn',
           \A x \in Workers \ {w} : AtIt(x) /\ AtOf(x) \in F => AtOf(x) \in tangled' \/ AtOf(x)[1] \notin policies',
           KeptAlike, Together', w = "admin" => UndoSound',
           Alone(w)' => WorkFits(This(w))'
    PROVE  Sound'
<1>1. policies' \subseteq Policies  BY DEF Inv, TablesInv, RowsFit
<1>2. JobsInv  BY DEF Inv
<1>3. \A x \in Workers \ {w} : job'[x] = job[x]  BY DEF Elsewhere
<1>4. \A x \in Workers \ {w} : Busy(x)' = Busy(x)  BY <1>3, SameJob
<1>5. ASSUME NEW q \in Policies, NEW x \in Sets, q \in policies', <<q, x>> \notin F, <<q, x>> \in InHand
      PROVE  <<q, x>> \in InHand' \cup torn'
  <2>1. CASE <<q, x>> \in Busy(w)
    <3>1. <<q, x>> \in Busy(w)' \cup torn'  BY <1>5, <2>1
    <3> QED BY <3>1, HandsAre DEF Workers
  <2>2. CASE <<q, x>> \notin Busy(w)
    <3>1. PICK y \in Workers \ {w} : <<q, x>> \in Busy(y)  BY <1>5, <2>2, HandsAre DEF Workers
    <3>2. <<q, x>> \in Busy(y)'  BY <1>4, <3>1
    <3> QED BY <3>2, HandsAre DEF Workers
  <2> QED BY <2>1, <2>2
<1>6. \A q \in Policies, x \in Sets :
          q \in policies' => IF <<q, x>> \in F THEN Settled(q, x)'
                             ELSE Calm(q, x) /\ (<<q, x>> \in InHand => <<q, x>> \in InHand' \cup torn')
  BY <1>5
<1>7. UndoSound'
  <2>1. CASE w = "admin"  BY <2>1
  <2>2. CASE w = "task"
    <3>1. job'["admin"] = job["admin"] /\ undo' = undo  BY <1>3, <2>2 DEF Workers
    <3>2. This("admin")' = This("admin")  BY <3>1, SameJob
    <3>3. UndoSound  BY DEF Sound
    <3> QED BY <3>1, <3>2, <3>3 DEF UndoSound, Describes
  <2> QED BY <2>1, <2>2 DEF Workers
<1>8. ASSUME NEW x \in Workers
      PROVE  Alone(x)' => WorkFits(This(x))'
  <2>1. CASE x = w  BY <2>1
  <2>2. CASE x # w
    <3>1. job'[x] = job[x] /\ (undo' = undo \/ x = "task")  BY <1>3, <2>2 DEF Workers
    <3>2. ASSUME AtIt(x)
          PROVE  \/ AtOf(x)[1] \notin policies'
                 \/ AtOf(x) \in tangled'
                 \/ Calm(This(x).policy, This(x).set)
      <4>1. CASE AtOf(x) \in F  BY <2>2, <3>2, <4>1
      <4>2. CASE AtOf(x) \notin F
        <5>1. This(x).policy \in Policies /\ This(x).set \in Sets  BY <1>2, <3>2, AtItIs DEF OfHolding
        <5>2. AtOf(x) = <<This(x).policy, This(x).set>> /\ AtOf(x)[1] = This(x).policy  BY DEF AtOf
        <5> QED BY <1>6, <4>2, <5>1, <5>2
      <4> QED BY <4>1, <4>2
    <3>3. WorkIsSound  BY DEF Sound
    <3> QED BY <1>2, <3>1, <3>2, <3>3, AsideSound
  <2> QED BY <2>1, <2>2
<1> QED BY <1>1, <1>6, <1>7, <1>8, SoundKeeps

\* What a worker is at next.
LEMMA RestsIs ==
    ASSUME NEW w \in Workers, Rests(w)
    PROVE  /\ ~AtIt(w)' /\ Busy(w)' = {} /\ Elsewhere(w)
           /\ job'[w] = <<>> \/ This(w)'.do \notin Restoring
<1>1. job'[w] = <<>> \/ This(w)'.do \in Waiting  BY DEF Rests, Queued
<1>2. job'[w] = <<>> \/ This(w)'.do \notin Updating \cup Undoing \cup Restoring
  BY <1>1 DEF Waiting, Updating, Undoing, Restoring
<1> QED BY <1>2 DEF Rests, AtIt, Busy

\* A job that goes on: what it is at next.
LEMMA HeadsIs ==
    ASSUME NEW w \in Workers, NEW n, Heads(w, n)
    PROVE  /\ Elsewhere(w) /\ This(w)' = n
           /\ n.do \in Updating \cup Undoing => Busy(w)' = {<<n.policy, n.set>>} /\ AtOf(w)' = <<n.policy, n.set>>
           /\ n.do \notin Updating \cup Undoing => Busy(w)' = {} /\ ~AtIt(w)' /\ n.do \notin Restoring
           /\ WorkFits(n)' => WorkFits(This(w))'
           /\ Alone(w)' => n.policy \in policies' /\ <<n.policy, n.set>> \notin tangled'
<1>1. This(w)' = n /\ job'[w] # <<>> /\ Elsewhere(w)  BY DEF Heads
<1>2. WorkFits(n)' => WorkFits(This(w))'  BY <1>1
<1>3. n.do \notin Updating \cup Undoing => n.do \notin Restoring  BY DEF Undoing, Restoring
<1> QED BY <1>1, <1>2, <1>3 DEF AtIt, Busy, AtOf, Alone

\* Nothing but what is marked by hand is written.
LEMMA GentleCalm ==
    ASSUME Inv, \A q \in Policies : Gentle(q), UNCHANGED <<policies, held, torn, tangled>>
    PROVE  \A q \in Policies, x \in Sets : q \in policies' => Calm(q, x)
<1>1. \A x \in Sets : RulesOf(x) \subseteq Ext  BY RuleSetsAssumption
<1> QED BY <1>1 DEF Gentle, Calm

\* A policy not written is as it was.
LEMMA SameGentle ==
    ASSUME NEW q, rows'[q] = rows[q], hand'[q] = hand[q]
    PROVE  Gentle(q) /\ \A e : e \in hand'[q] \/ (e \notin hand[q] /\ Alike(q, e))
BY DEF Gentle, Alike

\* Nothing kept or forgotten.
LEMMA SamePrevious ==
    ASSUME previous' = previous
    PROVE  KeptAlike
BY DEF KeptAlike

\* A step of one that is at no holding, and goes on with none.
LEMMA ElsewhereSound ==
    ASSUME Inv, Inv', Sound, NEW w \in Workers, Busy(w) = {}, Elsewhere(w), undo' = undo, ~AtIt(w)', Busy(w)' = {},
           job'[w] = <<>> \/ This(w)'.do \notin Restoring,
           \A q \in Policies : Gentle(q), UNCHANGED <<policies, held, previous, torn, tangled>>
    PROVE  Sound'
<1>1. PICK F \in SUBSET Holdings : F = {}  OBVIOUS
<1>2. \A q \in Policies, x \in Sets : q \in policies' => IF <<q, x>> \in F THEN Settled(q, x)' ELSE Calm(q, x)
  BY <1>1, GentleCalm
<1>3. \A h \in Busy(w) : h \in F \/ h[1] \notin policies' \/ h \in Busy(w)' \cup torn'  OBVIOUS
<1>4. \A x \in Workers \ {w} : AtIt(x) /\ AtOf(x) \in F => AtOf(x) \in tangled' \/ AtOf(x)[1] \notin policies'
  BY <1>1
<1>5. KeptAlike  BY SamePrevious
<1>6. Together'  BY StillTogether DEF Sound, Workers
<1>7. w = "admin" => UndoSound'  BY UndoKept DEF Sound
<1>8. Alone(w)' => WorkFits(This(w))'  BY DEF Alone
<1> QED BY <1>2, <1>3, <1>4, <1>5, <1>6, <1>7, <1>8, StepSound

\* Two at one holding.
LEMMA OtherAtIt ==
    ASSUME JobsInv, Together, NEW w \in Workers, NEW x \in Workers \ {w}, AtIt(w), AtIt(x), AtOf(x) = AtOf(w)
    PROVE  AtOf(x) \in tangled
<1>1. Busy(w) = {AtOf(w)} /\ Busy(x) = {AtOf(w)}  BY AtItIs
<1> QED BY <1>1 DEF Together, Workers

\* A rule of one set is of no other.
LEMMA OtherSets ==
    ASSUME NEW s \in Sets, NEW x \in Sets, x # s
    PROVE  \A e \in RulesOf(x) : e \in Ext \ RulesOf(s)
BY RuleSetsAssumption

\* A job that goes on with its holding.
LEMMA BusySound ==
    ASSUME Inv, Inv', Sound, NEW w \in Workers, AtIt(w), NEW n, Heads(w, n), n.do \in Updating \cup Undoing,
           n.policy = This(w).policy, n.set = This(w).set, n.do \in Restoring => This(w).do \in Restoring,
           UNCHANGED <<policies, held, torn, tangled, undo>>, KeptAlike,
           \A q \in Policies \ {n.policy} : rows'[q] = rows[q] /\ hand'[q] = hand[q],
           \A e \in Ext \ RulesOf(n.set) : rows'[n.policy][e] = rows[n.policy][e]
                                           /\ (e \in hand'[n.policy] <=> e \in hand[n.policy]),
           Alone(w) => WorkFits(n)'
    PROVE  Sound'
<1>1. /\ JobsInv /\ Together /\ AtOf(w) = <<n.policy, n.set>> /\ AtOf(w) \in Holdings /\ Busy(w) = {AtOf(w)}
      /\ n.policy \in Policies /\ n.set \in Sets
  BY AtItIs DEF Inv, Sound, AtOf, OfHolding
<1>2. PICK F \in SUBSET Holdings : F = {<<n.policy, n.set>>}  BY <1>1
<1>3. /\ Elsewhere(w) /\ This(w)' = n /\ Busy(w)' = {<<n.policy, n.set>>}
      /\ WorkFits(n)' => WorkFits(This(w))'
      /\ Alone(w)' => n.policy \in policies' /\ <<n.policy, n.set>> \notin tangled'
  BY HeadsIs
<1>4. ASSUME NEW q \in Policies, NEW x \in Sets, q \in policies'
      PROVE  IF <<q, x>> \in F THEN Settled(q, x)' ELSE Calm(q, x)
  <2>1. CASE <<q, x>> \in F
    <3>1. <<q, x>> \in Busy(w)'  BY <1>2, <1>3, <2>1
    <3>2. <<q, x>> \in InHand'  BY <3>1, HandsAre DEF Workers
    <3> QED BY <2>1, <3>2 DEF Settled
  <2>2. CASE q # n.policy
    <3>1. rows'[q] = rows[q] /\ hand'[q] = hand[q]  BY <2>2
    <3>2. \A e : e \in hand'[q] \/ (e \notin hand[q] /\ Alike(q, e))  BY <3>1, SameGentle
    <3>3. Calm(q, x)  BY <1>4, <3>2 DEF Calm
    <3> QED BY <1>2, <2>2, <3>3
  <2>3. CASE q = n.policy /\ x # n.set
    <3>1. \A e \in RulesOf(x) : e \in Ext \ RulesOf(n.set)  BY <1>1, <2>3, OtherSets
    <3>2. \A e \in RulesOf(x) : e \in hand'[q] \/ (e \notin hand[q] /\ Alike(q, e))
      BY <2>3, <3>1 DEF Alike
    <3>3. Calm(q, x)  BY <1>4, <3>2 DEF Calm
    <3> QED BY <1>2, <2>3, <3>3
  <2> QED BY <1>2, <2>1, <2>2, <2>3
<1>5. \A h \in Busy(w) : h \in F \/ h[1] \notin policies' \/ h \in Busy(w)' \cup torn'  BY <1>1, <1>2
<1>6. \A x \in Workers \ {w} : AtIt(x) /\ AtOf(x) \in F => AtOf(x) \in tangled' \/ AtOf(x)[1] \notin policies'
  BY <1>1, <1>2, OtherAtIt
<1>7. \A x \in Workers \ {w} : Busy(x)' = Busy(x)  BY <1>3, SameJob DEF Elsewhere
<1>8. Together'
  <2>1. \A x \in Workers : Busy(x)' = Busy(x)  BY <1>1, <1>3, <1>7
  <2> QED BY <1>1, <2>1 DEF Together, Workers
<1>9. w = "admin" => UndoSound'
  <2>1. UndoSound  BY DEF Sound
  <2> QED BY <1>3, <2>1, UndoKept DEF AtIt
<1>10. Alone(w)' => WorkFits(This(w))'
  <2>1. Alone(w)' => Alone(w)  BY <1>1, <1>3 DEF Alone, AtOf
  <2> QED BY <1>3, <2>1
<1> QED BY <1>3, <1>4, <1>5, <1>6, <1>8, <1>9, <1>10, StepSound

\* A job that ends, or all but.
LEMMA EndSound ==
    ASSUME Inv, Inv', Sound, NEW w \in Workers, AtIt(w), NEW p, NEW s, p = This(w).policy, s = This(w).set,
           NEW sound \in BOOLEAN, Ending(w, <<p, s>>, sound),
           Elsewhere(w), Busy(w)' \subseteq {<<p, s>>},
           \A q \in Policies, x \in Sets : <<q, x>> # <<p, s>> => held'[q][x] = held[q][x],
           UNCHANGED <<policies, rows, hand, previous, undo>>,
           sound /\ Alone(w) => Settled(p, s)',
           w = "admin" => UndoSound',
           Alone(w)' => WorkFits(This(w))'
    PROVE  Sound'
<1>1. /\ JobsInv /\ Together /\ AtOf(w) = <<p, s>> /\ <<p, s>> \in Holdings /\ Busy(w) = {<<p, s>>} /\ HistoryFits
      /\ p \in Policies /\ s \in Sets
  BY AtItIs DEF Inv, TablesInv, Sound, AtOf, OfHolding
<1>2. PICK F \in SUBSET Holdings : F = {<<p, s>>}  BY <1>1
<1>3. /\ tangled' = tangled /\ (torn' = torn \ {<<p, s>>} \/ torn' = torn \cup {<<p, s>>})
      /\ <<p, s>> \notin torn' => <<p, s>> \notin tangled /\ sound
  BY <1>1, EndingIs
<1>4. ASSUME NEW q \in Policies, NEW x \in Sets, q \in policies'
      PROVE  IF <<q, x>> \in F THEN Settled(q, x)' ELSE Calm(q, x)
  <2>1. CASE <<q, x>> = <<p, s>>
    <3>1. q = p /\ x = s  BY <2>1
    <3>2. CASE <<p, s>> \in torn'  BY <1>2, <2>1, <3>1, <3>2 DEF Settled
    <3>3. CASE <<p, s>> \notin torn'
      <4>1. sound /\ <<p, s>> \notin tangled  BY <1>3, <3>3
      <4>2. Alone(w)  BY <1>1, <1>4, <3>1, <4>1 DEF Alone
      <4>3. Settled(p, s)'  BY <4>1, <4>2
      <4> QED BY <1>2, <2>1, <3>1, <4>3
    <3> QED BY <3>2, <3>3
  <2>2. CASE <<q, x>> # <<p, s>>
    <3>1. rows'[q] = rows[q] /\ hand'[q] = hand[q]  OBVIOUS
    <3>2. \A e : e \in hand'[q] \/ (e \notin hand[q] /\ Alike(q, e))  BY <3>1, SameGentle
    <3>3. <<q, x>> \in torn => <<q, x>> \in torn'  BY <1>3, <2>2
    <3>4. held'[q][x] = held[q][x]  BY <2>2
    <3>5. Calm(q, x)  BY <1>3, <1>4, <3>2, <3>3, <3>4 DEF Calm
    <3> QED BY <1>2, <2>2, <3>5
  <2> QED BY <2>1, <2>2
<1>5. \A h \in Busy(w) : h \in F \/ h[1] \notin policies' \/ h \in Busy(w)' \cup torn'  BY <1>1, <1>2
<1>6. \A x \in Workers \ {w} : AtIt(x) /\ AtOf(x) \in F => AtOf(x) \in tangled' \/ AtOf(x)[1] \notin policies'
  BY <1>1, <1>2, <1>3, OtherAtIt
<1>7. \A x \in Workers \ {w} : Busy(x)' = Busy(x)  BY SameJob DEF Elsewhere
<1>8. Together'
  <2>1. \A x \in Workers : Busy(x)' \subseteq Busy(x)  BY <1>1, <1>7
  <2> QED BY <1>1, <1>3, <2>1 DEF Together, Workers
<1>9. KeptAlike  BY SamePrevious
<1> QED BY <1>4, <1>5, <1>6, <1>8, <1>9, StepSound

-----------------------------------------------------------------------------
(* The steps of an update. *)
\* A worker at a step of an update or a putting back.
LEMMA AtUpdate ==
    ASSUME Inv, NEW w \in Workers, NEW do \in Updating \cup Undoing, Doing(w, do)
    PROVE  /\ AtIt(w) /\ This(w) \in Thing /\ This(w).do = do /\ ThingFits(This(w)) /\ JobsInv
           /\ This(w).policy \in Policies /\ This(w).set \in Sets /\ AtOf(w) = <<This(w).policy, This(w).set>>
<1>1. /\ job[w] # <<>> /\ This(w) \in Thing /\ This(w).do = do /\ ThingFits(This(w)) /\ JobsInv
  BY AtThing DEF Inv
<1>2. AtIt(w)  BY <1>1 DEF AtIt
<1>3. This(w).policy \in Policies /\ This(w).set \in Sets  BY <1>1, <1>2, AtItIs DEF OfHolding
<1> QED BY <1>1, <1>2, <1>3 DEF AtOf

\* What a thing to do becomes.
LEMMA BecomesIs ==
    ASSUME NEW w \in Workers, JobsInv, AtIt(w), NEW do \in Deeds, NEW rest \in SUBSET This(w).rest
    PROVE  LET n == Turned(This(w), do, rest)
           IN  n.do = do /\ n.rest = rest /\ n.policy = This(w).policy /\ n.set = This(w).set
               /\ n.version = This(w).version
BY TurnsInto DEF AtIt

\* What is kept of a holding that is whole is the version it was.
LEMMA SnapshotDescribes ==
    ASSUME NEW p, NEW s, NEW u, Whole(p, s), <<p, s>> \notin torn, held[p][s] \in Nat, held[p][s] # 0,
           u.version = held[p][s], u.hand = hand[p] \cap RulesOf(s), RulesOf(s) \subseteq Ext,
           \A e \in Ext : u.rules[e] = IF e \in OfSet(p, s) THEN rows[p][e] ELSE None
    PROVE  Describes(s, u)
<1>1. PICK v : v = held[p][s]  OBVIOUS
<1>2. IsVersion(p, s, v)  BY <1>1 DEF Whole
<1>3. \A e \in RulesOf(s) : e \in OfSet(p, s) <=> Present(p, e)  BY DEF OfSet, Present
<1>4. ASSUME NEW e \in RulesOf(s), e \notin u.hand
      PROVE  \/ u.rules[e] = None /\ e \notin File[s][v]
             \/ u.rules[e] # None /\ e \in File[s][v] /\ u.rules[e].text = v
  <2>1. e \notin hand[p]  BY <1>4
  <2>2. /\ Present(p, e) <=> e \in File[s][v]
        /\ e \in File[s][v] => rows[p][e].text = v
    BY <1>2, <2>1, VersionIs
  <2>3. u.rules[e] = IF Present(p, e) THEN rows[p][e] ELSE None  BY <1>3, <1>4
  <2> QED BY <2>2, <2>3 DEF Present
<1> QED BY <1>1, <1>4 DEF Describes

\* What is kept is as sound as the holding is (snapshot_before_update).
LEMMA SnapshotSound ==
    ASSUME Inv, Sound, NEW w \in Workers, snapshot_before_update(w)
    PROVE  Sound'
<1>1. /\ Inv' /\ Goes(w, Turned(This(w), "rule", This(w).rest))
      /\ \A p \in Policies, s \in Sets : <<p, s>> # <<This(w).policy, This(w).set>> => previous'[p][s] = previous[p][s]
      /\ \/ previous' = previous
         \/ LET p == This(w).policy
                s == This(w).set
                u == previous'[p][s]
            IN  /\ held[p][s] # 0
                /\ u.version = held[p][s] /\ u.hand = hand[p] \cap RulesOf(s) /\ u.sound = (<<p, s>> \notin torn)
                /\ \A e \in Ext : u.rules[e] = IF e \in OfSet(p, s) THEN rows[p][e] ELSE None
  BY SnapshotKeeps
<1>2. Doing(w, "snapshot") /\ UNCHANGED <<policies, rows, held, hand, torn, tangled, undo>>
  BY DEF snapshot_before_update, Quiet, Still, history
<1>3. PICK t \in Thing : t = This(w)  BY <1>2, AtUpdate DEF Updating
<1>4. AtIt(w) /\ t.do = "snapshot" /\ ThingFits(t) /\ JobsInv /\ t.policy \in Policies /\ t.set \in Sets
      /\ AtOf(w) = <<t.policy, t.set>>
  BY <1>2, <1>3, AtUpdate DEF Updating
<1>5. PICK n : n = Turned(t, "rule", t.rest)  OBVIOUS
<1>6. n.do = "rule" /\ n.rest = t.rest /\ n.policy = t.policy /\ n.set = t.set /\ n.version = t.version
  <2>1. "rule" \in Deeds  BY DEF Deeds, Updating
  <2> QED BY <1>3, <1>4, <1>5, <2>1, BecomesIs
<1>7. Heads(w, n)  BY <1>1, <1>3, <1>5 DEF Goes
<1>8. WorkFits(n)'
  <2>1. n.rest = File[n.set][n.version]  BY <1>4, <1>6 DEF ThingFits
  <2> QED BY <1>6, <2>1 DEF WorkFits
<1>9. Alone(w) => Whole(t.policy, t.set)  BY <1>3, <1>4 DEF Sound, WorkIsSound, WorkFits
<1>10. KeptAlike
  <2> SUFFICES ASSUME NEW p \in Policies, NEW s \in Sets, previous'[p][s] # previous[p][s], previous'[p][s].sound
               PROVE  Describes(s, previous'[p][s])
    BY DEF KeptAlike
  <2>1. p = t.policy /\ s = t.set  BY <1>1, <1>3
  <2>2. PICK u : u = previous'[p][s]  OBVIOUS
  <2>3. /\ held[p][s] # 0 /\ u.version = held[p][s] /\ u.hand = hand[p] \cap RulesOf(s) /\ <<p, s>> \notin torn
        /\ \A e \in Ext : u.rules[e] = IF e \in OfSet(p, s) THEN rows[p][e] ELSE None
    BY <1>1, <1>3, <2>1, <2>2
  <2>4. held[p][s] \in Nat /\ p \in policies /\ <<p, s>> \notin tangled
    BY <2>3 DEF Inv, TablesInv, HeldFits, HistoryFits
  <2>5. Whole(p, s)  BY <1>3, <1>4, <1>9, <2>1, <2>4 DEF Alone, AtOf
  <2>6. RulesOf(s) \subseteq Ext  BY RuleSetsAssumption
  <2>7. Describes(s, u)  BY <2>3, <2>4, <2>5, <2>6, SnapshotDescribes
  <2> QED BY <2>2, <2>7
<1>11. \A q \in Policies \ {n.policy} : rows'[q] = rows[q] /\ hand'[q] = hand[q]  BY <1>2
<1>12. \A e \in Ext \ RulesOf(n.set) : rows'[n.policy][e] = rows[n.policy][e]
                                       /\ (e \in hand'[n.policy] <=> e \in hand[n.policy])
  BY <1>2
<1>13. n.do \in Updating \cup Undoing /\ (n.do \in Restoring => This(w).do \in Restoring)
  BY <1>6 DEF Updating, Restoring
<1> QED BY <1>1, <1>2, <1>3, <1>4, <1>6, <1>7, <1>8, <1>10, <1>11, <1>12, <1>13, BusySound

\* A rule of the version written is written (install_rule).
LEMMA InstallSound ==
    ASSUME Inv, Sound, NEW w \in Workers, install_rule(w)
    PROVE  Sound'
<1>1. Doing(w, "rule")  BY DEF install_rule
<1>2. PICK t \in Thing : t = This(w)  BY <1>1, AtUpdate DEF Updating
<1>3. AtIt(w) /\ t.do = "rule" /\ ThingFits(t) /\ JobsInv /\ t.policy \in Policies /\ t.set \in Sets
      /\ AtOf(w) = <<t.policy, t.set>>
  BY <1>1, <1>2, AtUpdate DEF Updating
<1>4. PICK e \in Ext : e = Taken(w)  BY InstallKeeps
<1>5. PICK p, s, v : p = t.policy /\ s = t.set /\ v = t.version  OBVIOUS
<1>6. /\ Inv' /\ p \in policies /\ e \in t.rest /\ e \in File[s][v]
      /\ \/ Others(w) = {} /\ Goes(w, Turned(t, "sweep", {}))
         \/ Others(w) # {} /\ Goes(w, Turned(t, "rule", Others(w)))
      /\ \A q \in Policies \ {p} : rows'[q] = rows[q] /\ hand'[q] = hand[q]
      /\ \A x \in Ext \ {e} : rows'[p][x] = rows[p][x]
      /\ hand'[p] = hand[p] \ {e}
      /\ rows'[p][e] # None /\ rows'[p][e].text = v /\ rows'[p][e].claimed
      /\ UNCHANGED <<policies, held, previous, torn, tangled, mirror, undo>>
  BY <1>2, <1>4, <1>5, InstallKeeps
<1>7. Others(w) = t.rest \ {e}  BY <1>2, <1>4 DEF Others
<1>8. PICK n : n = IF Others(w) = {} THEN Turned(t, "sweep", {}) ELSE Turned(t, "rule", Others(w))  OBVIOUS
<1>9. n.do \in {"sweep", "rule"} /\ n.rest = t.rest \ {e} /\ n.policy = p /\ n.set = s /\ n.version = v
  <2>1. "rule" \in Deeds /\ "sweep" \in Deeds  BY DEF Deeds, Updating
  <2>2. Others(w) \in SUBSET This(w).rest /\ {} \in SUBSET This(w).rest  BY <1>2, <1>7
  <2> QED BY <1>2, <1>3, <1>5, <1>7, <1>8, <2>1, <2>2, BecomesIs
<1>10. Heads(w, n)  BY <1>6, <1>8 DEF Goes
<1>11. File[s][v] \subseteq RulesOf(s) /\ RulesOf(s) \subseteq Ext
  <2>1. t.do \in Updating  BY <1>3 DEF Updating
  <2> QED BY <1>3, <1>5, <2>1, UpdatingFile, RuleSetsAssumption
<1>12. ASSUME Alone(w)
       PROVE  WorkFits(n)'
  <2>1. \A x \in File[s][v] : x \in t.rest \/ x \in hand[p] \/ Has(p, x, v)
    BY <1>2, <1>3, <1>5, <1>12 DEF Sound, WorkIsSound, WorkFits
  <2>2. ASSUME NEW x \in File[s][v]
        PROVE  x \in n.rest \/ x \in hand'[p] \/ Has(p, x, v)'
    <3>1. CASE x = e  BY <1>6, <3>1 DEF Has, Present
    <3>2. CASE x # e
      <4>1. rows'[p][x] = rows[p][x] /\ (x \in hand[p] => x \in hand'[p])  BY <1>6, <1>11, <3>2
      <4> QED BY <1>9, <2>1, <3>2, <4>1 DEF Has, Present
    <3> QED BY <3>1, <3>2
  <2> QED BY <1>9, <2>2 DEF WorkFits
<1>13. \A x \in Ext \ RulesOf(n.set) : rows'[n.policy][x] = rows[n.policy][x]
                                       /\ (x \in hand'[n.policy] <=> x \in hand[n.policy])
  BY <1>6, <1>9, <1>11
<1>14. n.do \in Updating \cup Undoing /\ (n.do \in Restoring => This(w).do \in Restoring)
  BY <1>9 DEF Updating, Restoring
<1>15. KeptAlike  BY <1>6, SamePrevious
<1>16. n.policy = This(w).policy /\ n.set = This(w).set  BY <1>2, <1>5, <1>9
<1> QED BY <1>3, <1>6, <1>9, <1>10, <1>12, <1>13, <1>14, <1>15, <1>16, BusySound

\* After the sweep only the version's rules are left (sweep).
LEMMA SweepSound ==
    ASSUME Inv, Sound, NEW w \in Workers, sweep(w)
    PROVE  Sound'
<1>1. Doing(w, "sweep")  BY DEF sweep
<1>2. PICK t \in Thing : t = This(w)  BY <1>1, AtUpdate DEF Updating
<1>3. AtIt(w) /\ t.do = "sweep" /\ ThingFits(t) /\ JobsInv /\ t.policy \in Policies /\ t.set \in Sets
      /\ AtOf(w) = <<t.policy, t.set>>
  BY <1>1, <1>2, AtUpdate DEF Updating
<1>4. PICK p, s, v : p = t.policy /\ s = t.set /\ v = t.version  OBVIOUS
<1>5. /\ Inv' /\ Goes(w, Turned(t, "record", {}))
      /\ \A q \in Policies \ {p} : rows'[q] = rows[q] /\ hand'[q] = hand[q]
      /\ \A x \in Ext : rows'[p][x] = IF x \in OfSet(p, s) \ File[s][v] THEN None ELSE rows[p][x]
      /\ hand'[p] = hand[p] \ (RulesOf(s) \ File[s][v])
      /\ UNCHANGED <<policies, held, previous, torn, tangled, mirror, undo>>
  BY <1>2, <1>4, SweepKeeps
<1>6. PICK n : n = Turned(t, "record", {})  OBVIOUS
<1>7. n.do = "record" /\ n.rest = {} /\ n.policy = p /\ n.set = s /\ n.version = v
  <2>1. "record" \in Deeds  BY DEF Deeds, Updating
  <2>2. {} \in SUBSET This(w).rest  OBVIOUS
  <2> QED BY <1>2, <1>3, <1>4, <1>6, <2>1, <2>2, BecomesIs
<1>8. Heads(w, n)  BY <1>5, <1>6 DEF Goes
<1>9. File[s][v] \subseteq RulesOf(s) /\ RulesOf(s) \subseteq Ext
  <2>1. t.do \in Updating  BY <1>3 DEF Updating
  <2> QED BY <1>3, <1>4, <2>1, UpdatingFile, RuleSetsAssumption
<1>10. OfSet(p, s) \subseteq RulesOf(s) /\ \A e \in RulesOf(s) : e \in OfSet(p, s) <=> Present(p, e)
  BY DEF OfSet, Present
<1>11. ASSUME Alone(w)
       PROVE  WorkFits(n)'
  <2>0. t.rest = {}  BY <1>3 DEF ThingFits
  <2>1. \A x \in File[s][v] : x \in hand[p] \/ Has(p, x, v)
    BY <1>2, <1>3, <1>4, <1>11, <2>0 DEF Sound, WorkIsSound, WorkFits
  <2>2. ASSUME NEW x \in File[s][v]
        PROVE  x \in n.rest \/ x \in hand'[p] \/ Has(p, x, v)'
    <3>1. rows'[p][x] = rows[p][x] /\ (x \in hand[p] => x \in hand'[p])  BY <1>5, <1>9
    <3> QED BY <2>1, <3>1 DEF Has, Present
  <2>3. ASSUME NEW x \in RulesOf(s), Present(p, x)'
        PROVE  x \in File[s][v]
    <3>1. x \in Ext  BY <1>9
    <3>2. rows'[p][x] # None /\ rows'[p][x].claimed  BY <2>3 DEF Present
    <3>3. x \notin OfSet(p, s) \ File[s][v] /\ rows'[p][x] = rows[p][x]  BY <1>5, <3>1, <3>2
    <3>4. Present(p, x)  BY <3>2, <3>3 DEF Present
    <3> QED BY <1>10, <2>3, <3>3, <3>4
  <2> QED BY <1>7, <2>2, <2>3 DEF WorkFits
<1>12. \A x \in Ext \ RulesOf(n.set) : rows'[n.policy][x] = rows[n.policy][x]
                                       /\ (x \in hand'[n.policy] <=> x \in hand[n.policy])
  BY <1>5, <1>7, <1>10
<1>13. n.do \in Updating \cup Undoing /\ (n.do \in Restoring => This(w).do \in Restoring)
  BY <1>7 DEF Updating, Restoring
<1>14. KeptAlike  BY <1>5, SamePrevious
<1>15. n.policy = This(w).policy /\ n.set = This(w).set  BY <1>2, <1>4, <1>7
<1> QED BY <1>3, <1>5, <1>7, <1>8, <1>11, <1>12, <1>13, <1>14, <1>15, BusySound

\* All of the version written, and nothing else there: it is the version.
LEMMA RecordSound ==
    ASSUME Inv, Sound, NEW w \in Workers, record(w)
    PROVE  Sound'
<1>1. Doing(w, "record")  BY DEF record
<1>2. PICK t \in Thing : t = This(w)  BY <1>1, AtUpdate DEF Updating
<1>3. AtIt(w) /\ t.do = "record" /\ ThingFits(t) /\ JobsInv /\ t.policy \in Policies /\ t.set \in Sets
      /\ AtOf(w) = <<t.policy, t.set>>
  BY <1>1, <1>2, AtUpdate DEF Updating
<1>4. PICK p \in Policies, s \in Sets : p = t.policy /\ s = t.set  BY <1>3
<1>5. PICK v : v = t.version  OBVIOUS
<1>0. PICK sound \in BOOLEAN : sound = TRUE  OBVIOUS
<1>6. /\ Inv' /\ Stops(w) /\ Ending(w, <<p, s>>, sound)
      /\ \A q \in Policies, x \in Sets : held'[q][x] = IF q = p /\ x = s THEN v ELSE held[q][x]
      /\ UNCHANGED <<policies, rows, hand, previous, tangled, mirror, undo>>
  BY <1>2, <1>4, <1>5, <1>0, RecordKeeps DEF Ending
<1>7. /\ ~AtIt(w)' /\ Busy(w)' = {} /\ Elsewhere(w)
      /\ job'[w] = <<>> \/ This(w)'.do \notin Restoring
  BY <1>6, RestsIs DEF Stops
<1>8. ASSUME Alone(w)
      PROVE  Settled(p, s)'
  <2>0. t.rest = {}  BY <1>3 DEF ThingFits
  <2>1. /\ \A x \in File[s][v] : x \in hand[p] \/ Has(p, x, v)
        /\ \A x \in RulesOf(s) : Present(p, x) => x \in File[s][v] \/ x \in hand[p]
    BY <1>2, <1>3, <1>4, <1>5, <1>8, <2>0 DEF Sound, WorkIsSound, WorkFits
  <2>2. IsVersion(p, s, v)'
    <3> SUFFICES ASSUME NEW e \in RulesOf(s), e \notin hand'[p]
                 PROVE  /\ Present(p, e)' <=> e \in File[s][v]
                        /\ e \in File[s][v] => rows'[p][e].text = v
      BY VersionIsNext
    <3>1. e \notin hand[p] /\ (Present(p, e)' <=> Present(p, e)) /\ rows'[p][e] = rows[p][e]
      BY <1>6 DEF Present
    <3> QED BY <2>1, <3>1 DEF Has
  <2>3. held'[p][s] = v  BY <1>6
  <2> QED BY <2>2, <2>3 DEF Settled
<1>9. \A q \in Policies, x \in Sets : <<q, x>> # <<p, s>> => held'[q][x] = held[q][x]  BY <1>6
<1>10. w = "admin" => UndoSound'
  <2>1. UndoSound  BY DEF Sound
  <2> QED BY <1>7, <2>1, UndoKept
<1>11. Alone(w)' => WorkFits(This(w))'  BY <1>7 DEF Alone
<1>12. p = This(w).policy /\ s = This(w).set /\ Busy(w)' \subseteq {<<p, s>>}  BY <1>2, <1>4, <1>7
<1>13. sound /\ Alone(w) => Settled(p, s)'  BY <1>8
<1> QED BY <1>3, <1>6, <1>7, <1>9, <1>10, <1>11, <1>12, <1>13, EndSound

\* A set taken out is not held.
LEMMA ReleaseSound ==
    ASSUME Inv, Sound, NEW w \in Workers, release(w)
    PROVE  Sound'
<1>1. Doing(w, "release")  BY DEF release
<1>2. PICK t \in Thing : t = This(w)  BY <1>1, AtUpdate DEF Undoing
<1>3. AtIt(w) /\ JobsInv /\ t.policy \in Policies /\ t.set \in Sets
  BY <1>1, <1>2, AtUpdate DEF Undoing
<1>4. PICK p \in Policies, s \in Sets : p = t.policy /\ s = t.set  BY <1>3
<1>0. PICK sound \in BOOLEAN : sound = TRUE  OBVIOUS
<1>6. /\ Inv' /\ Stops(w) /\ Ending(w, <<p, s>>, sound)
      /\ \A q \in Policies, x \in Sets : held'[q][x] = IF q = p /\ x = s THEN 0 ELSE held[q][x]
      /\ UNCHANGED <<policies, rows, hand, previous, tangled, mirror, undo>>
  BY <1>2, <1>4, <1>0, ReleaseKeeps DEF Ending
<1>7. /\ ~AtIt(w)' /\ Busy(w)' = {} /\ Elsewhere(w)
      /\ job'[w] = <<>> \/ This(w)'.do \notin Restoring
  BY <1>6, RestsIs DEF Stops
<1>8. Settled(p, s)'
  <2>1. held'[p][s] = 0  BY <1>6
  <2> QED BY <2>1 DEF Settled
<1>9. \A q \in Policies, x \in Sets : <<q, x>> # <<p, s>> => held'[q][x] = held[q][x]  BY <1>6
<1>10. w = "admin" => UndoSound'
  <2>1. UndoSound  BY DEF Sound
  <2> QED BY <1>7, <2>1, UndoKept
<1>11. Alone(w)' => WorkFits(This(w))'  BY <1>7 DEF Alone
<1>12. p = This(w).policy /\ s = This(w).set /\ Busy(w)' \subseteq {<<p, s>>}  BY <1>2, <1>4, <1>7
<1>13. sound /\ Alone(w) => Settled(p, s)'  BY <1>8
<1> QED BY <1>3, <1>6, <1>7, <1>9, <1>10, <1>11, <1>12, <1>13, EndSound

\* A set being taken out (remove).
LEMMA RemoveSound ==
    ASSUME Inv, Sound, NEW w \in Workers, remove(w)
    PROVE  Sound'
<1>1. Doing(w, "remove")  BY DEF remove
<1>2. PICK t \in Thing : t = This(w)  BY <1>1, AtUpdate DEF Undoing
<1>3. AtIt(w) /\ JobsInv /\ t.policy \in Policies /\ t.set \in Sets
  BY <1>1, <1>2, AtUpdate DEF Undoing
<1>4. PICK p, s : p = t.policy /\ s = t.set  OBVIOUS
<1>5. /\ Inv' /\ Goes(w, Turned(t, "release", t.rest))
      /\ \A q \in Policies \ {p} : rows'[q] = rows[q] /\ hand'[q] = hand[q]
      /\ \A x \in Ext : rows'[p][x] = IF x \in OfSet(p, s) THEN None ELSE rows[p][x]
      /\ hand'[p] = hand[p] \ RulesOf(s)
      /\ UNCHANGED <<policies, held, previous, torn, tangled, mirror, undo>>
  BY <1>2, <1>4, RemoveKeeps
<1>6. PICK n : n = Turned(t, "release", t.rest)  OBVIOUS
<1>7. n.do = "release" /\ n.policy = p /\ n.set = s
  <2>1. "release" \in Deeds  BY DEF Deeds, Undoing
  <2> QED BY <1>2, <1>3, <1>4, <1>6, <2>1, BecomesIs
<1>8. Heads(w, n)  BY <1>5, <1>6 DEF Goes
<1>9. OfSet(p, s) \subseteq RulesOf(s)  BY DEF OfSet
<1>11. WorkFits(n)'  BY <1>7 DEF WorkFits
<1>12. \A x \in Ext \ RulesOf(n.set) : rows'[n.policy][x] = rows[n.policy][x]
                                       /\ (x \in hand'[n.policy] <=> x \in hand[n.policy])
  BY <1>5, <1>7, <1>9
<1>13. n.do \in Updating \cup Undoing /\ (n.do \in Restoring => This(w).do \in Restoring)
  BY <1>7 DEF Undoing, Restoring
<1>14. KeptAlike  BY <1>5, SamePrevious
<1>15. n.policy = This(w).policy /\ n.set = This(w).set  BY <1>2, <1>4, <1>7
<1> QED BY <1>3, <1>5, <1>7, <1>8, <1>11, <1>12, <1>13, <1>14, <1>15, BusySound

-----------------------------------------------------------------------------
(* The steps of a putting back. *)
\* The administrator at a step of a putting back.
LEMMA AtRestore ==
    ASSUME Inv, NEW w \in Workers, NEW do \in Restoring, Doing(w, do), NEW t, t = This(w)
    PROVE  /\ t \in Thing /\ AtIt(w) /\ t.do = do /\ ThingFits(t) /\ JobsInv /\ t.policy \in Policies /\ t.set \in Sets
           /\ AtOf(w) = <<t.policy, t.set>> /\ RulesOf(t.set) \subseteq Ext
<1>1. do \in Updating \cup Undoing  BY DEF Restoring, Undoing
<1> QED BY <1>1, AtUpdate, RuleSetsAssumption

\* A rule put back is put back (restore_rule).
LEMMA RestoreSound ==
    ASSUME Inv, Sound, NEW w \in Workers, restore_rule(w)
    PROVE  Sound'
<1>1. Doing(w, "restore")  BY DEF restore_rule
<1>2. PICK t \in Thing : t = This(w)  BY <1>1, AtRestore DEF Restoring
<1>3. AtIt(w) /\ t.do = "restore" /\ ThingFits(t) /\ JobsInv /\ t.policy \in Policies /\ t.set \in Sets
      /\ AtOf(w) = <<t.policy, t.set>> /\ RulesOf(t.set) \subseteq Ext
  BY <1>1, <1>2, AtRestore DEF Restoring
<1>4. PICK e \in Ext : e = Taken(w)  BY RestoreKeeps
<1>5. PICK p, s : p = t.policy /\ s = t.set  OBVIOUS
<1>6. /\ Inv' /\ p \in policies /\ e \in t.rest /\ e \in RulesOf(s) /\ undo.rules[e] # None
      /\ \/ Others(w) = {} /\ Goes(w, Turned(t, "sweep_back", {}))
         \/ Others(w) # {} /\ Goes(w, Turned(t, "restore", Others(w)))
      /\ \A q \in Policies \ {p} : rows'[q] = rows[q] /\ hand'[q] = hand[q]
      /\ \A x \in Ext \ {e} : rows'[p][x] = rows[p][x]
      /\ hand'[p] = (hand[p] \ {e}) \cup (undo.hand \cap {e})
      /\ rows'[p][e] # None /\ rows'[p][e].text = undo.rules[e].text /\ rows'[p][e].claimed
      /\ UNCHANGED <<policies, held, previous, torn, tangled, mirror, undo>>
  BY <1>2, <1>4, <1>5, RestoreKeeps
<1>7. Others(w) = t.rest \ {e}  BY <1>2, <1>4 DEF Others
<1>8. PICK n : n = IF Others(w) = {} THEN Turned(t, "sweep_back", {}) ELSE Turned(t, "restore", Others(w))  OBVIOUS
<1>9. n.do \in {"sweep_back", "restore"} /\ n.rest = t.rest \ {e} /\ n.policy = p /\ n.set = s
  <2>1. "restore" \in Deeds /\ "sweep_back" \in Deeds  BY DEF Deeds, Undoing
  <2>2. Others(w) \in SUBSET This(w).rest /\ {} \in SUBSET This(w).rest  BY <1>2, <1>7
  <2> QED BY <1>2, <1>3, <1>5, <1>7, <1>8, <2>1, <2>2, BecomesIs
<1>10. Heads(w, n)  BY <1>6, <1>8 DEF Goes
<1>11. ASSUME Alone(w)
       PROVE  WorkFits(n)'
  <2>1. \A x \in RulesOf(s) : \/ undo.rules[x] = None \/ x \in t.rest \/ x \in hand[p]
                              \/ x \notin undo.hand /\ Has(p, x, undo.rules[x].text)
    BY <1>2, <1>3, <1>5, <1>11 DEF Sound, WorkIsSound, WorkFits
  <2>2. ASSUME NEW x \in RulesOf(s)
        PROVE  \/ undo'.rules[x] = None \/ x \in n.rest \/ x \in hand'[p]
               \/ x \notin undo'.hand /\ Has(p, x, undo.rules[x].text)'
    <3>1. CASE x = e  BY <1>6, <3>1 DEF Has, Present
    <3>2. CASE x # e
      <4>1. x \in Ext  BY <1>3, <1>5
      <4>2. rows'[p][x] = rows[p][x] /\ (x \in hand[p] => x \in hand'[p]) /\ undo' = undo  BY <1>6, <3>2, <4>1
      <4> QED BY <1>9, <2>1, <3>2, <4>2 DEF Has, Present
    <3> QED BY <3>1, <3>2
  <2> QED BY <1>9, <2>2 DEF WorkFits
<1>12. \A x \in Ext \ RulesOf(n.set) : rows'[n.policy][x] = rows[n.policy][x]
                                       /\ (x \in hand'[n.policy] <=> x \in hand[n.policy])
  BY <1>6, <1>9
<1>13. n.do \in Updating \cup Undoing /\ (n.do \in Restoring => This(w).do \in Restoring)
  BY <1>2, <1>3, <1>9 DEF Undoing, Restoring
<1>14. KeptAlike  BY <1>6, SamePrevious
<1>15. n.policy = This(w).policy /\ n.set = This(w).set  BY <1>2, <1>5, <1>9
<1> QED BY <1>3, <1>6, <1>9, <1>10, <1>11, <1>12, <1>13, <1>14, <1>15, BusySound

\* After the sweep only what was kept is left (sweep_back).
LEMMA SweepBackSound ==
    ASSUME Inv, Sound, NEW w \in Workers, sweep_back(w)
    PROVE  Sound'
<1>1. Doing(w, "sweep_back")  BY DEF sweep_back
<1>2. PICK t \in Thing : t = This(w)  BY <1>1, AtRestore DEF Restoring
<1>3. AtIt(w) /\ t.do = "sweep_back" /\ ThingFits(t) /\ JobsInv /\ t.policy \in Policies /\ t.set \in Sets
      /\ AtOf(w) = <<t.policy, t.set>> /\ RulesOf(t.set) \subseteq Ext
  BY <1>1, <1>2, AtRestore DEF Restoring
<1>4. PICK p, s : p = t.policy /\ s = t.set  OBVIOUS
<1>5. PICK others : others = {e \in RulesOf(s) : undo.rules[e] = None}  OBVIOUS
<1>6. /\ Inv' /\ Goes(w, Turned(t, "put_back", {}))
      /\ \A q \in Policies \ {p} : rows'[q] = rows[q] /\ hand'[q] = hand[q]
      /\ \A x \in Ext : rows'[p][x] = IF x \in others \cap OfSet(p, s) THEN None ELSE rows[p][x]
      /\ hand'[p] = (hand[p] \ others) \cup (undo.hand \cap others)
      /\ UNCHANGED <<policies, held, previous, torn, tangled, mirror, undo>>
  BY <1>2, <1>4, <1>5, SweepBackKeeps
<1>7. PICK n : n = Turned(t, "put_back", {})  OBVIOUS
<1>8. n.do = "put_back" /\ n.rest = {} /\ n.policy = p /\ n.set = s
  <2>1. "put_back" \in Deeds  BY DEF Deeds, Undoing
  <2>2. {} \in SUBSET This(w).rest  OBVIOUS
  <2> QED BY <1>2, <1>3, <1>4, <1>7, <2>1, <2>2, BecomesIs
<1>9. Heads(w, n)  BY <1>6, <1>7 DEF Goes
<1>10. \A e \in RulesOf(s) : e \in OfSet(p, s) <=> Present(p, e)  BY DEF OfSet, Present
<1>11. ASSUME Alone(w)
       PROVE  WorkFits(n)'
  <2>0. t.rest = {}  BY <1>3 DEF ThingFits
  <2>1. \A x \in RulesOf(s) : \/ undo.rules[x] = None \/ x \in hand[p]
                              \/ x \notin undo.hand /\ Has(p, x, undo.rules[x].text)
    BY <1>2, <1>3, <1>4, <1>11, <2>0 DEF Sound, WorkIsSound, WorkFits
  <2>2. ASSUME NEW x \in RulesOf(s)
        PROVE  \/ undo'.rules[x] = None \/ x \in n.rest \/ x \in hand'[p]
               \/ x \notin undo'.hand /\ Has(p, x, undo.rules[x].text)'
    <3>1. CASE undo.rules[x] = None  BY <1>6, <3>1
    <3>2. CASE undo.rules[x] # None
      <4>1. x \in Ext /\ x \notin others  BY <1>3, <1>4, <1>5, <3>2
      <4>2. rows'[p][x] = rows[p][x] /\ (x \in hand[p] => x \in hand'[p]) /\ undo' = undo  BY <1>6, <4>1
      <4> QED BY <2>1, <3>2, <4>2 DEF Has, Present
    <3> QED BY <3>1, <3>2
  <2>3. ASSUME NEW x \in RulesOf(s), undo.rules[x] = None
        PROVE  ~Present(p, x)' /\ (x \in hand'[p] \/ x \notin undo.hand)
    <3>1. x \in Ext /\ x \in others  BY <1>3, <1>4, <1>5, <2>3
    <3>2. x \in OfSet(p, s) => rows'[p][x] = None  BY <1>6, <3>1
    <3>3. x \notin OfSet(p, s) => rows'[p][x] = rows[p][x]  BY <1>6, <3>1
    <3>4. ~Present(p, x)'  BY <1>10, <3>2, <3>3 DEF Present
    <3>5. x \in hand'[p] \/ x \notin undo.hand  BY <1>6, <3>1
    <3> QED BY <3>4, <3>5
  <2>4. undo' = undo  BY <1>6
  <2> QED BY <1>8, <2>2, <2>3, <2>4 DEF WorkFits
<1>12. \A x \in Ext \ RulesOf(n.set) : rows'[n.policy][x] = rows[n.policy][x]
                                       /\ (x \in hand'[n.policy] <=> x \in hand[n.policy])
  BY <1>5, <1>6, <1>8
<1>13. n.do \in Updating \cup Undoing /\ (n.do \in Restoring => This(w).do \in Restoring)
  BY <1>2, <1>3, <1>8 DEF Undoing, Restoring
<1>14. KeptAlike  BY <1>6, SamePrevious
<1>15. n.policy = This(w).policy /\ n.set = This(w).set  BY <1>2, <1>4, <1>8
<1> QED BY <1>3, <1>6, <1>8, <1>9, <1>11, <1>12, <1>13, <1>14, <1>15, BusySound

\* All of it put back, and nothing else there: it is the version that was kept.
LEMMA PutBackSound ==
    ASSUME Inv, Sound, NEW w \in Workers, put_back(w)
    PROVE  Sound'
<1>1. Doing(w, "put_back")  BY DEF put_back
<1>2. PICK t \in Thing : t = This(w)  BY <1>1, AtRestore DEF Restoring
<1>3. AtIt(w) /\ t.do = "put_back" /\ ThingFits(t) /\ JobsInv /\ t.policy \in Policies /\ t.set \in Sets
      /\ AtOf(w) = <<t.policy, t.set>> /\ RulesOf(t.set) \subseteq Ext /\ job[w] # <<>>
  BY <1>1, <1>2, AtRestore DEF Restoring, Doing
<1>4. PICK p \in Policies, s \in Sets : p = t.policy /\ s = t.set  BY <1>3
<1>5. PICK v : v = IF held[p][s] = 0 THEN 0 ELSE undo.version  OBVIOUS
<1>0. PICK sound \in BOOLEAN : sound = undo.sound
  BY <1>1, AtKept DEF Restoring
<1>6. /\ Inv' /\ Goes(w, Turned(t, "forget", {})) /\ Ending(w, <<p, s>>, sound)
      /\ \A q \in Policies, x \in Sets : held'[q][x] = IF q = p /\ x = s THEN v ELSE held[q][x]
      /\ UNCHANGED <<policies, rows, hand, previous, tangled, mirror, undo>>
  BY <1>2, <1>4, <1>5, <1>0, PutBackKeeps DEF Ending
<1>7. PICK n : n = Turned(t, "forget", {})  OBVIOUS
<1>8. n.do = "forget" /\ n.policy = p /\ n.set = s
  <2>1. "forget" \in Deeds  BY DEF Deeds, Undoing
  <2>2. {} \in SUBSET This(w).rest  OBVIOUS
  <2> QED BY <1>2, <1>3, <1>4, <1>7, <2>1, <2>2, BecomesIs
<1>9. Heads(w, n)  BY <1>6, <1>7 DEF Goes
<1>10. /\ Elsewhere(w) /\ This(w)' = n /\ Busy(w)' = {<<p, s>>}
       /\ WorkFits(n)' => WorkFits(This(w))'
       /\ Alone(w)' => p \in policies' /\ <<p, s>> \notin tangled'
  BY <1>8, <1>9, HeadsIs DEF Undoing
<1>11. ASSUME Alone(w), sound, v # 0
       PROVE  IsVersion(p, s, v)'
  <2>0. t.rest = {}  BY <1>3 DEF ThingFits
  <2>1. /\ \A x \in RulesOf(s) : \/ undo.rules[x] = None \/ x \in hand[p]
                                 \/ x \notin undo.hand /\ Has(p, x, undo.rules[x].text)
        /\ \A x \in RulesOf(s) : /\ Present(p, x) => undo.rules[x] # None \/ x \in hand[p]
                                 /\ undo.rules[x] # None \/ x \in hand[p] \/ x \notin undo.hand
    BY <1>2, <1>3, <1>4, <1>11, <2>0 DEF Sound, WorkIsSound, WorkFits
  <2>2. v = undo.version  BY <1>5, <1>11
  <2>3. Describes(s, undo)
    <3>1. w = "admin"  BY <1>1, AtKept DEF Restoring
    <3>2. job["admin"] # <<>> /\ This("admin").do \in Restoring /\ This("admin").set = s
      BY <1>2, <1>3, <1>4, <3>1 DEF Restoring
    <3> QED BY <1>0, <1>11, <3>2 DEF Sound, UndoSound
  <2>4. ASSUME NEW x \in RulesOf(s), x \notin hand[p]
        PROVE  /\ Present(p, x) <=> x \in File[s][v]
               /\ x \in File[s][v] => rows[p][x].text = v
    <3>1. CASE undo.rules[x] = None
      <4>1. ~Present(p, x) /\ x \notin undo.hand  BY <2>1, <2>4, <3>1
      <4>2. x \notin File[s][v]  BY <2>2, <2>3, <3>1, <4>1 DEF Describes
      <4> QED BY <4>1, <4>2
    <3>2. CASE undo.rules[x] # None
      <4>1. x \notin undo.hand /\ Has(p, x, undo.rules[x].text)  BY <2>1, <2>4, <3>2
      <4>2. x \in File[s][v] /\ undo.rules[x].text = v  BY <2>2, <2>3, <3>2, <4>1 DEF Describes
      <4> QED BY <4>1, <4>2 DEF Has
    <3> QED BY <3>1, <3>2
  <2> SUFFICES ASSUME NEW e \in RulesOf(s), e \notin hand'[p]
               PROVE  /\ Present(p, e)' <=> e \in File[s][v]
                      /\ e \in File[s][v] => rows'[p][e].text = v
    BY VersionIsNext
  <2>5. e \notin hand[p] /\ (Present(p, e)' <=> Present(p, e)) /\ rows'[p][e] = rows[p][e]
    BY <1>6 DEF Present
  <2> QED BY <2>4, <2>5
<1>12. held'[p][s] = v  BY <1>6
<1>13. sound /\ Alone(w) => Settled(p, s)'
  <2>1. CASE v = 0  BY <1>12, <2>1 DEF Settled
  <2>2. CASE v # 0  BY <1>11, <1>12, <2>2 DEF Settled
  <2> QED BY <2>1, <2>2
<1>14. WorkFits(n)' \/ ~Alone(w)'
  <2>1. HistoryFits /\ <<p, s>> \in Holdings  BY DEF Inv, TablesInv, Holdings
  <2>2. <<p, s>> \notin torn' => sound /\ <<p, s>> \notin tangled
    BY <1>6, <2>1, EndingIs
  <2>3. ASSUME Alone(w)', <<p, s>> \notin torn', v > 0
        PROVE  IsVersion(p, s, v)'
    <3>1. p \in policies /\ sound /\ <<p, s>> \notin tangled  BY <1>6, <1>10, <2>2, <2>3
    <3>2. Alone(w)  BY <1>3, <1>4, <3>1 DEF Alone, AtOf
    <3>3. v # 0  BY <2>3
    <3> QED BY <1>11, <3>1, <3>2, <3>3
  <2>4. Alone(w)' => Whole(p, s)'  BY <1>12, <2>3 DEF Whole
  <2> QED BY <1>8, <2>4 DEF WorkFits
<1>15. \A q \in Policies, x \in Sets : <<q, x>> # <<p, s>> => held'[q][x] = held[q][x]  BY <1>6
<1>16. w = "admin" => UndoSound'
  <2>1. UndoSound /\ (w = "admin" => job["admin"] # <<>> /\ This("admin").do \in Restoring)
    BY <1>2, <1>3 DEF Sound, Restoring
  <2>2. undo' = undo /\ This(w)'.set = This(w).set  BY <1>2, <1>4, <1>6, <1>8, <1>10
  <2> QED BY <2>1, <2>2, UndoKept
<1>17. Alone(w)' => WorkFits(This(w))'  BY <1>10, <1>14
<1>18. p = This(w).policy /\ s = This(w).set /\ Busy(w)' \subseteq {<<p, s>>}  BY <1>2, <1>4, <1>10
<1> QED BY <1>3, <1>6, <1>10, <1>13, <1>15, <1>16, <1>17, <1>18, EndSound

\* What was put back is not to be put back again.
LEMMA ForgetSound ==
    ASSUME Inv, Sound, NEW w \in Workers, forget(w)
    PROVE  Sound'
<1>1. Doing(w, "forget")  BY DEF forget
<1>2. PICK t \in Thing : t = This(w)  BY <1>1, AtRestore DEF Restoring
<1>3. AtIt(w) /\ t.do = "forget" /\ JobsInv /\ t.policy \in Policies /\ t.set \in Sets
      /\ AtOf(w) = <<t.policy, t.set>>
  BY <1>1, <1>2, AtRestore DEF Restoring
<1>4. PICK p \in Policies, s \in Sets : p = t.policy /\ s = t.set  BY <1>3
<1>5. /\ Inv' /\ Stops(w) /\ w = "admin"
      /\ \A q \in Policies, x \in Sets : previous'[q][x] = IF q = p /\ x = s THEN None ELSE previous[q][x]
      /\ UNCHANGED <<policies, rows, hand, held, torn, tangled, mirror>>
  BY <1>2, <1>4, ForgetKeeps
<1>6. /\ ~AtIt(w)' /\ Busy(w)' = {} /\ Elsewhere(w)
      /\ job'[w] = <<>> \/ This(w)'.do \notin Restoring
  BY <1>5, RestsIs DEF Stops
<1>7. PICK F \in SUBSET Holdings : F = {<<p, s>>}
  <2>1. <<p, s>> \in Holdings  BY DEF Holdings
  <2> QED BY <2>1
<1>8. \A q \in Policies : Gentle(q)  BY <1>5, SameGentle
<1>9. \A q \in Policies, x \in Sets : q \in policies' => Calm(q, x)  BY <1>5, <1>8, GentleCalm
<1>10. p \in policies' => Settled(p, s)'
  <2> SUFFICES ASSUME p \in policies'
               PROVE  Settled(p, s)'
    OBVIOUS
  <2>1. <<p, s>> \notin torn => <<p, s>> \notin tangled  BY DEF Inv, TablesInv, HistoryFits
  <2>2. p \in policies  BY <1>5
  <2>3. Alone(w) => Whole(p, s)  BY <1>2, <1>3, <1>4 DEF Sound, WorkIsSound, WorkFits
  <2>4. <<p, s>> \notin torn => Whole(p, s)  BY <1>2, <1>3, <1>4, <2>1, <2>2, <2>3 DEF Alone, AtOf
  <2>5. <<p, s>> \notin torn => Whole(p, s)'
    <3>1. Calm(p, s)  BY <1>9
    <3> QED BY <2>4, <3>1, CalmWhole
  <2>6. torn' = torn  BY <1>5
  <2> QED BY <2>5, <2>6 DEF Settled, Whole
<1>11. \A q \in Policies, x \in Sets : q \in policies' => IF <<q, x>> \in F THEN Settled(q, x)' ELSE Calm(q, x)
  BY <1>7, <1>9, <1>10
<1>12. Busy(w) = {<<p, s>>} /\ Together  BY <1>3, <1>4, AtItIs DEF Sound
<1>13. \A h \in Busy(w) : h \in F \/ h[1] \notin policies' \/ h \in Busy(w)' \cup torn'  BY <1>7, <1>12
<1>14. \A x \in Workers \ {w} : AtIt(x) /\ AtOf(x) \in F => AtOf(x) \in tangled' \/ AtOf(x)[1] \notin policies'
  BY <1>3, <1>4, <1>5, <1>7, <1>12, OtherAtIt
<1>15. KeptAlike  BY <1>5 DEF KeptAlike
<1>16. Together'  BY <1>6, <1>12, StillTogether DEF Workers
<1>17. w = "admin" => UndoSound'  BY <1>6, UndoKept DEF Sound
<1>18. Alone(w)' => WorkFits(This(w))'  BY <1>6 DEF Alone
<1> QED BY <1>5, <1>6, <1>11, <1>13, <1>14, <1>15, <1>16, <1>17, <1>18, StepSound

-----------------------------------------------------------------------------
(* Jobs begun at a holding. *)
\* Beginning at a holding: nothing of it is touched, and its work fits.
LEMMA StartSound ==
    ASSUME Inv, Inv', Sound, NEW w \in Workers, Busy(w) = {}, NEW h \in Holdings, Starting(w, h),
           NEW n, Heads(w, n), n.do \in Updating \cup Undoing, <<n.policy, n.set>> = h,
           UNCHANGED <<policies, rows, held, hand, previous>>, undo' = undo \/ w = "admin",
           w = "admin" => UndoSound',
           n.policy \in policies /\ h \notin tangled' => WorkFits(n)'
    PROVE  Sound'
<1>1. PICK F \in SUBSET Holdings : F = {}  OBVIOUS
<1>2. torn \subseteq torn' /\ tangled \subseteq tangled' /\ HistoryFits
  BY StartingIs DEF Inv, TablesInv
<1>3. /\ Elsewhere(w) /\ This(w)' = n /\ Busy(w)' = {h}
      /\ WorkFits(n)' => WorkFits(This(w))'
      /\ Alone(w)' => n.policy \in policies' /\ h \notin tangled'
  BY HeadsIs
<1>4. \A q \in Policies, x \in Sets : q \in policies' => IF <<q, x>> \in F THEN Settled(q, x)' ELSE Calm(q, x)
  <2>1. \A q, e : e \in hand'[q] \/ (e \notin hand[q] /\ Alike(q, e))  BY SameGentle
  <2> QED BY <1>1, <1>2, <2>1 DEF Calm
<1>5. \A g \in Busy(w) : g \in F \/ g[1] \notin policies' \/ g \in Busy(w)' \cup torn'  OBVIOUS
<1>6. \A x \in Workers \ {w} : AtIt(x) /\ AtOf(x) \in F => AtOf(x) \in tangled' \/ AtOf(x)[1] \notin policies'
  BY <1>1
<1>7. \A x \in Workers \ {w} : Busy(x)' = Busy(x)  BY <1>3, SameJob DEF Elsewhere
<1>8. Together'  BY <1>2, <1>3, <1>7, StartTogether DEF Sound
<1>9. KeptAlike  BY SamePrevious
<1>10. Alone(w)' => WorkFits(This(w))'  BY <1>3
<1> QED BY <1>3, <1>4, <1>5, <1>6, <1>8, <1>9, <1>10, StepSound

\* Who does something else is at no holding.
LEMMA NotAtIt ==
    ASSUME NEW w, NEW do, Doing(w, do), do \notin Updating \cup Undoing
    PROVE  ~AtIt(w) /\ Busy(w) = {}
BY DEF Doing, AtIt, Busy, This

\* Nobody else at a holding: what it holds is whole.
LEMMA ApplySound ==
    ASSUME Inv, Sound, NEW w \in Workers, apply(w)
    PROVE  Sound'
<1>1. Doing(w, "apply")  BY DEF apply
<1>2. ~AtIt(w) /\ Busy(w) = {}  BY <1>1, NotAtIt DEF Updating, Undoing
<1>3. /\ Inv' /\ UNCHANGED <<policies, rows, held, previous, hand, mirror, undo>>
      /\ Taken(w) \in Holdings
      /\ \/ (Stops(w) \/ Goes(w, Turned(This(w), "apply", Others(w)))) /\ UNCHANGED <<torn, tangled>>
         \/ /\ Taken(w)[1] \in policies /\ Starting(w, Taken(w))
            /\ \E n \in Things(w) :
                  /\ Goes(w, n) /\ n.do = "snapshot" /\ <<n.policy, n.set>> = Taken(w)
                  /\ n.version = mirror[n.set]
  BY ApplyKeeps
<1>4. \A q \in Policies : Gentle(q)  BY <1>3, SameGentle
<1>5. CASE Stops(w) /\ UNCHANGED <<torn, tangled>>
  <2>1. /\ ~AtIt(w)' /\ Busy(w)' = {} /\ Elsewhere(w)
        /\ job'[w] = <<>> \/ This(w)'.do \notin Restoring
    BY <1>5, RestsIs DEF Stops
  <2> QED BY <1>2, <1>3, <1>4, <1>5, <2>1, ElsewhereSound
<1>6. CASE Goes(w, Turned(This(w), "apply", Others(w))) /\ UNCHANGED <<torn, tangled>>
  <2>1. PICK n : n = Turned(This(w), "apply", Others(w))  OBVIOUS
  <2>2. n.do = "apply"
    <3>1. This(w) \in Thing /\ "apply" \in Deeds  BY <1>1, AtThing DEF Deeds, Plain
    <3>2. Others(w) \in SUBSET This(w).rest  BY DEF Others
    <3> QED BY <2>1, <3>1, <3>2, TurnedIs
  <2>3. Heads(w, n) /\ n.do \notin Updating \cup Undoing  BY <1>6, <2>1, <2>2 DEF Goes, Updating, Undoing
  <2>4. Elsewhere(w) /\ This(w)' = n /\ Busy(w)' = {} /\ ~AtIt(w)' /\ n.do \notin Restoring
    BY <2>3, HeadsIs
  <2> QED BY <1>2, <1>3, <1>4, <1>6, <2>4, ElsewhereSound
<1>7. CASE /\ Taken(w)[1] \in policies /\ Starting(w, Taken(w))
           /\ \E n \in Things(w) :
                 /\ Goes(w, n) /\ n.do = "snapshot" /\ <<n.policy, n.set>> = Taken(w)
  <2>1. PICK n \in Things(w) : Goes(w, n) /\ n.do = "snapshot" /\ <<n.policy, n.set>> = Taken(w)  BY <1>7
  <2>2. PICK h \in Holdings : h = Taken(w)  BY <1>3
  <2>3. Starting(w, h) /\ <<n.policy, n.set>> = h /\ Heads(w, n)  BY <1>7, <2>1, <2>2 DEF Goes
  <2>4. n.do \in Updating \cup Undoing /\ n.do \notin Restoring  BY <2>1 DEF Updating, Restoring
  <2>5. n.policy \in policies /\ n.set \in Sets  BY <1>7, <2>2, <2>3 DEF Holdings
  <2>6. h \notin tangled' => WorkFits(n)'
    <3> SUFFICES ASSUME h \notin tangled'
                 PROVE  Whole(n.policy, n.set)'
      BY <2>1 DEF WorkFits, Updating
    <3>1. HistoryFits  BY DEF Inv, TablesInv
    <3>2. /\ torn \subseteq torn' /\ \A x \in Workers \ {w} : h \in Busy(x) => h \in tangled'
      BY <2>3, <3>1, StartingIs
    <3>3. h \notin InHand  BY <1>2, <3>2 DEF InHand
    <3>4. Settled(n.policy, n.set)  BY <2>5 DEF Sound, HeldIsWhole, Settled
    <3>5. held[n.policy][n.set] > 0 /\ h \notin torn => IsVersion(n.policy, n.set, held[n.policy][n.set])
      BY <2>3, <3>3, <3>4 DEF Settled
    <3>6. h \notin torn => Whole(n.policy, n.set)  BY <3>5 DEF Whole
    <3>7. h \notin torn => Whole(n.policy, n.set)'
      BY <1>3, <2>3, <3>2, <3>5 DEF Whole, IsVersion, OfSet
    <3> QED BY <2>3, <3>2, <3>7 DEF Whole
  <2>7. w = "admin" => UndoSound'
    <3>1. This(w)' = n  BY <2>3, HeadsIs
    <3> QED BY <2>4, <3>1, UndoKept DEF Sound
  <2> QED BY <1>2, <1>3, <2>3, <2>4, <2>6, <2>7, StartSound
<1> QED BY <1>3, <1>5, <1>6, <1>7

-----------------------------------------------------------------------------
(* What no holding is at stake in. *)
\* A thing done by hand is marked, and nothing else changes.
LEMMA HandSound ==
    ASSUME Inv, Inv', Sound, NEW w \in Workers, NEW do \in ByHand, Doing(w, do),
           Stops(w) \/ Goes(w, Turned(This(w), do, Others(w))), NEW p, NEW e, PutByHand(p, e),
           UNCHANGED <<policies, held, previous, torn, tangled, mirror, undo>>
    PROVE  Sound'
<1>1. do \notin Updating \cup Undoing /\ do \in Deeds  BY DEF ByHand, Updating, Undoing, Deeds
<1>2. Busy(w) = {}  BY <1>1, NotAtIt
<1>3. \A q \in Policies : Gentle(q)  BY DEF PutByHand
<1>4. CASE Stops(w)
  <2>1. /\ ~AtIt(w)' /\ Busy(w)' = {} /\ Elsewhere(w)
        /\ job'[w] = <<>> \/ This(w)'.do \notin Restoring
    BY <1>4, RestsIs DEF Stops
  <2> QED BY <1>2, <1>3, <2>1, ElsewhereSound
<1>5. CASE Goes(w, Turned(This(w), do, Others(w)))
  <2>1. PICK n : n = Turned(This(w), do, Others(w))  OBVIOUS
  <2>2. n.do = do
    <3>1. This(w) \in Thing  BY AtThing
    <3>2. Others(w) \in SUBSET This(w).rest  BY DEF Others
    <3> QED BY <1>1, <2>1, <3>1, <3>2, TurnedIs
  <2>3. Heads(w, n) /\ n.do \notin Updating \cup Undoing  BY <1>1, <1>5, <2>1, <2>2 DEF Goes
  <2>4. Elsewhere(w) /\ This(w)' = n /\ Busy(w)' = {} /\ ~AtIt(w)' /\ n.do \notin Restoring
    BY <2>3, HeadsIs
  <2> QED BY <1>2, <1>3, <2>4, ElsewhereSound
<1> QED BY <1>4, <1>5

\* Ticked, unticked, switched or deleted by hand.
LEMMA ByHandSound ==
    ASSUME Inv, Sound, NEW w \in Workers,
           add_rules_by_external_ids(w) \/ switch_off_by_external_ids(w) \/ switch_on(w) \/ drop(w)
    PROVE  Sound'
<1>0. "tick" \in ByHand /\ "drop" \in ByHand  BY DEF ByHand
<1>1. /\ Inv' /\ UNCHANGED <<policies, held, previous, torn, tangled, mirror, undo>>
      /\ PutByHand(This(w).policy, Taken(w))
      /\ \E do \in ByHand : Doing(w, do) /\ (Stops(w) \/ Goes(w, Turned(This(w), do, Others(w))))
  <2>1. CASE add_rules_by_external_ids(w)  BY <1>0, <2>1, TickKeeps
  <2>2. CASE switch_off_by_external_ids(w) \/ switch_on(w)  BY <2>2, SwitchKeeps
  <2>3. CASE drop(w)  BY <1>0, <2>3, DropKeeps
  <2> QED BY <2>1, <2>2, <2>3
<1>2. PICK do \in ByHand : Doing(w, do) /\ (Stops(w) \/ Goes(w, Turned(This(w), do, Others(w))))  BY <1>1
<1>3. PICK p, e : p = This(w).policy /\ e = Taken(w)  OBVIOUS
<1>4. PutByHand(p, e)  BY <1>1, <1>3
<1> QED BY <1>1, <1>2, <1>4, HandSound

\* Nothing of the rules is touched.
LEMMA IdleSound ==
    ASSUME Inv, Inv', Sound, NEW w \in Workers, Busy(w) = {}, Idly, undo' = undo,
           \/ Rests(w)
           \/ \E n : Heads(w, n) /\ n.do \notin Updating \cup Undoing
    PROVE  Sound'
<1>1. UNCHANGED <<policies, held, previous, torn, tangled>> /\ \A q \in Policies : Gentle(q)
  BY SameGentle DEF Idly
<1>2. CASE Rests(w)
  <2>1. /\ ~AtIt(w)' /\ Busy(w)' = {} /\ Elsewhere(w)
        /\ job'[w] = <<>> \/ This(w)'.do \notin Restoring
    BY <1>2, RestsIs
  <2> QED BY <1>1, <2>1, ElsewhereSound
<1>3. CASE \E n : Heads(w, n) /\ n.do \notin Updating \cup Undoing
  <2>1. PICK n : Heads(w, n) /\ n.do \notin Updating \cup Undoing  BY <1>3
  <2>2. Elsewhere(w) /\ This(w)' = n /\ Busy(w)' = {} /\ ~AtIt(w)' /\ n.do \notin Restoring
    BY <2>1, HeadsIs
  <2> QED BY <1>1, <2>2, ElsewhereSound
<1> QED BY <1>2, <1>3

\* Lists and the site (copy_entries, enter, attach_site).
LEMMA ListSound ==
    ASSUME Inv, Sound, NEW w \in Workers, copy_entries(w) \/ enter(w) \/ attach_site(w)
    PROVE  Sound'
<1>1. PICK do \in {"copy_entries", "enter", "attach"} : Doing(w, do)
  BY DEF copy_entries, enter, attach_site
<1>2. Busy(w) = {}  BY <1>1, NotAtIt DEF Updating, Undoing
<1>3. Inv' /\ Idly /\ undo' = undo
  BY ListKeeps
<1>4. \/ Stops(w)
      \/ \E n \in Thing : Goes(w, n) /\ n.do = "enter"
  BY ListKeeps
<1>5. \/ Rests(w)
      \/ \E n : Heads(w, n) /\ n.do \notin Updating \cup Undoing
  BY <1>4 DEF Stops, Goes, Updating, Undoing
<1> QED BY <1>2, <1>3, <1>5, IdleSound

\* Of a policy that is gone nothing is held.
LEMMA GoneSound ==
    ASSUME Inv, Sound, NEW w \in Workers, PolicyGone(w)
    PROVE  Sound'
<1>1. Inv' /\ Stops(w) /\ Idly /\ undo' = undo /\ This(w).policy \notin policies
  BY GoneKeeps
<1>2. /\ ~AtIt(w)' /\ Busy(w)' = {} /\ Elsewhere(w)
      /\ job'[w] = <<>> \/ This(w)'.do \notin Restoring
  BY <1>1, RestsIs DEF Stops
<1>3. PICK F \in SUBSET Holdings : F = {}  OBVIOUS
<1>4. UNCHANGED <<policies, held, previous, torn, tangled>> /\ \A q \in Policies : Gentle(q)
  BY <1>1, SameGentle DEF Idly
<1>5. \A q \in Policies, x \in Sets : q \in policies' => IF <<q, x>> \in F THEN Settled(q, x)' ELSE Calm(q, x)
  BY <1>3, <1>4, GentleCalm
<1>6. \A h \in Busy(w) : h \in F \/ h[1] \notin policies' \/ h \in Busy(w)' \cup torn'
  <2>1. Busy(w) \subseteq {<<This(w).policy, This(w).set>>}  BY DEF Busy
  <2> QED BY <1>1, <1>4, <2>1
<1>7. \A x \in Workers \ {w} : AtIt(x) /\ AtOf(x) \in F => AtOf(x) \in tangled' \/ AtOf(x)[1] \notin policies'
  BY <1>3
<1>8. KeptAlike  BY <1>4, SamePrevious
<1>9. Together'  BY <1>2, StillTogether DEF Sound, Workers
<1>10. w = "admin" => UndoSound'  BY <1>2, UndoKept DEF Sound
<1>11. Alone(w)' => WorkFits(This(w))'  BY <1>2 DEF Alone
<1> QED BY <1>1, <1>2, <1>5, <1>6, <1>7, <1>8, <1>9, <1>10, <1>11, StepSound

-----------------------------------------------------------------------------
(* Policies made, copied and deleted. *)
\* The holdings of one policy.
LEMMA PairsOf ==
    ASSUME NEW p \in Policies
    PROVE  /\ {p} \X Sets \in SUBSET Holdings
           /\ \A q, x : <<q, x>> \in {p} \X Sets <=> q = p /\ x \in Sets
BY DEF Holdings

\* Of a policy the task has nothing to do with, it is at no holding.
LEMMA NotOfThat ==
    ASSUME JobsInv, NEW p \in Policies, job["task"] \in Seq(Without(p)), AtIt("task")
    PROVE  This("task").policy # p
<1>1. This("task") \in Without(p)  BY Rest DEF AtIt, This
<1> QED BY <1>1 DEF Without, Concerned

\* The rules copied: every holding of the copy is torn until its record is (copy_rules).
LEMMA CopyRulesSound ==
    ASSUME Inv, Sound, NEW w \in Workers, copy_rules(w)
    PROVE  Sound'
<1>1. Doing(w, "copy_rules")  BY DEF copy_rules
<1>2. Busy(w) = {} /\ This(w) \in Thing
  BY <1>1, NotAtIt, AtThing DEF Updating, Undoing
<1>3. PICK p \in Policies : p = This(w).policy  BY CopyRulesKeeps
<1>4. PICK F \in SUBSET Holdings : F = {p} \X Sets  BY PairsOf
<1>5. /\ Inv' /\ Goes(w, Turned(This(w), "copy_sets", This(w).rest))
      /\ \A q \in Policies \ {p} : rows'[q] = rows[q] /\ hand'[q] = hand[q]
      /\ torn' = torn \cup F /\ tangled' = tangled \cup F
      /\ UNCHANGED <<policies, held, previous, mirror, undo>>
  BY <1>3, <1>4, CopyRulesKeeps
<1>6. PICK n : n = Turned(This(w), "copy_sets", This(w).rest)  OBVIOUS
<1>7. n.do = "copy_sets"
  <2>1. "copy_sets" \in Deeds  BY DEF Deeds, Copying
  <2> QED BY <1>2, <1>6, <2>1, TurnedIs
<1>8. Heads(w, n) /\ n.do \notin Updating \cup Undoing  BY <1>5, <1>6, <1>7 DEF Goes, Updating, Undoing
<1>9. Elsewhere(w) /\ This(w)' = n /\ Busy(w)' = {} /\ ~AtIt(w)' /\ n.do \notin Restoring
  BY <1>8, HeadsIs
<1>10. ASSUME NEW q \in Policies, NEW x \in Sets, q \in policies'
       PROVE  IF <<q, x>> \in F THEN Settled(q, x)' ELSE Calm(q, x)
  <2>1. CASE <<q, x>> \in F  BY <1>5, <2>1 DEF Settled
  <2>2. CASE <<q, x>> \notin F
    <3>1. q # p  BY <1>4, <2>2
    <3>2. \A e : e \in hand'[q] \/ (e \notin hand[q] /\ Alike(q, e))  BY <1>5, <3>1, SameGentle
    <3>3. Calm(q, x)  BY <1>5, <1>10, <3>2 DEF Calm
    <3> QED BY <2>2, <3>3
  <2> QED BY <2>1, <2>2
<1>11. \A h \in Busy(w) : h \in F \/ h[1] \notin policies' \/ h \in Busy(w)' \cup torn'  BY <1>2
<1>12. \A x \in Workers \ {w} : AtIt(x) /\ AtOf(x) \in F => AtOf(x) \in tangled' \/ AtOf(x)[1] \notin policies'
  BY <1>5
<1>13. KeptAlike  BY <1>5, SamePrevious
<1>14. Together'  BY <1>9, StillTogether DEF Sound, Workers
<1>15. w = "admin" => UndoSound'  BY <1>9, UndoKept DEF Sound
<1>16. Alone(w)' => WorkFits(This(w))'  BY <1>9 DEF Alone
<1> QED BY <1>5, <1>9, <1>10, <1>11, <1>12, <1>13, <1>14, <1>15, <1>16, StepSound

\* The copy fits what it was copied from, which is whole.
LEMMA CopySetsSound ==
    ASSUME Inv, Sound, NEW w \in Workers, copy_sets(w)
    PROVE  Sound'
<1>1. Doing(w, "copy_sets")  BY DEF copy_sets
<1>2. Busy(w) = {} /\ This(w) \in Thing
  BY <1>1, NotAtIt, AtThing DEF Updating, Undoing
<1>3. PICK p \in Policies, from \in Policies : p = This(w).policy /\ from = Taken(w)  BY CopySetsKeeps
<1>4. PICK F \in SUBSET Holdings : F = {p} \X Sets  BY PairsOf
<1>5. PICK fits : fits = {s \in Sets : /\ <<from, s>> \notin torn \cup InHand
                                      /\ \A e \in RulesOf(s) :
                                             \/ rows[p][e] = None /\ rows[from][e] = None
                                             \/ rows[p][e] # None /\ rows[from][e] # None
                                                /\ rows[p][e].text = rows[from][e].text
                                                /\ rows[p][e].claimed = rows[from][e].claimed
                                      /\ hand[p] \cap RulesOf(s) = hand[from] \cap RulesOf(s)}
  OBVIOUS
<1>6. torn' = torn \ ({p} \X fits) /\ tangled' = tangled \ ({p} \X fits)
  BY <1>3, <1>5 DEF copy_sets
<1>7. /\ Inv' /\ w = "admin" /\ Goes(w, Turned(This(w), "copy_entries", This(w).rest))
      /\ job["task"] \in Seq(Without(p))
      /\ held'[p] = held[from]
      /\ \A s \in Sets : <<p, s>> \in torn
      /\ \A q \in Policies \ {p} : held'[q] = held[q]
      /\ UNCHANGED <<policies, rows, hand, previous, mirror, undo>>
  BY <1>3, CopySetsKeeps
<1>8. PICK n : n = Turned(This(w), "copy_entries", This(w).rest)  OBVIOUS
<1>9. n.do = "copy_entries"
  <2>1. "copy_entries" \in Deeds  BY DEF Deeds, Copying
  <2> QED BY <1>2, <1>8, <2>1, TurnedIs
<1>10. Heads(w, n) /\ n.do \notin Updating \cup Undoing  BY <1>7, <1>8, <1>9 DEF Goes, Updating, Undoing
<1>11. Elsewhere(w) /\ This(w)' = n /\ Busy(w)' = {} /\ ~AtIt(w)' /\ n.do \notin Restoring
  BY <1>10, HeadsIs
<1>12. ASSUME NEW s \in Sets
       PROVE  Settled(p, s)'
  <2> SUFFICES ASSUME held'[p][s] > 0, <<p, s>> \notin torn'
               PROVE  IsVersion(p, s, held[p][s])'
    BY DEF Settled
  <2>1. s \in fits  BY <1>6, <1>7
  <2>2. PICK v : v = held[from][s]  OBVIOUS
  <2>3. held'[p][s] = v /\ v > 0  BY <1>7, <2>2
  <2>4. from \in policies  BY <2>2, <2>3 DEF Inv, TablesInv, HeldFits
  <2>5. IsVersion(from, s, v)  BY <1>5, <2>1, <2>2, <2>3, <2>4 DEF Sound, HeldIsWhole
  <2>6. ASSUME NEW e \in RulesOf(s), e \notin hand'[p]
        PROVE  /\ Present(p, e)' <=> e \in File[s][v]
               /\ e \in File[s][v] => rows'[p][e].text = v
    <3>1. e \notin hand[from]  BY <1>5, <1>7, <2>1, <2>6
    <3>2. /\ Present(from, e) <=> e \in File[s][v]
          /\ e \in File[s][v] => rows[from][e].text = v
      BY <2>5, <3>1, VersionIs
    <3>3. \/ rows[p][e] = None /\ rows[from][e] = None
          \/ rows[p][e] # None /\ rows[from][e] # None
             /\ rows[p][e].text = rows[from][e].text
             /\ rows[p][e].claimed = rows[from][e].claimed
      BY <1>5, <2>1
    <3>4. rows'[p][e] = rows[p][e]  BY <1>7
    <3> QED BY <3>2, <3>3, <3>4 DEF Present
  <2>7. IsVersion(p, s, v)'  BY <2>6, VersionIsNext
  <2> QED BY <2>3, <2>7
<1>13. ASSUME NEW q \in Policies, NEW x \in Sets, q \in policies'
       PROVE  IF <<q, x>> \in F THEN Settled(q, x)' ELSE Calm(q, x)
  <2>1. CASE q = p  BY <1>4, <1>12, <2>1
  <2>2. CASE q # p
    <3>1. rows'[q] = rows[q] /\ hand'[q] = hand[q]  BY <1>7
    <3>2. \A e : e \in hand'[q] \/ (e \notin hand[q] /\ Alike(q, e))  BY <3>1, SameGentle
    <3>3. <<q, x>> \notin {p} \X fits  BY <2>2
    <3>4. Calm(q, x)  BY <1>6, <1>7, <1>13, <2>2, <3>2, <3>3 DEF Calm
    <3> QED BY <1>4, <2>2, <3>4
  <2> QED BY <2>1, <2>2
<1>14. \A h \in Busy(w) : h \in F \/ h[1] \notin policies' \/ h \in Busy(w)' \cup torn'  BY <1>2
<1>15. \A x \in Workers \ {w} : AtIt(x) /\ AtOf(x) \in F => AtOf(x) \in tangled' \/ AtOf(x)[1] \notin policies'
  <2>1. AtIt("task") => This("task").policy # p  BY <1>7, NotOfThat DEF Inv
  <2>2. AtOf("task") \in F => This("task").policy = p  BY <1>4 DEF AtOf
  <2> QED BY <1>7, <2>1, <2>2 DEF Workers
<1>16. KeptAlike  BY <1>7, SamePrevious
<1>17. Together'  BY <1>11, StillTogether DEF Sound, Workers
<1>18. w = "admin" => UndoSound'  BY <1>11, UndoKept DEF Sound
<1>19. Alone(w)' => WorkFits(This(w))'  BY <1>11 DEF Alone
<1> QED BY <1>7, <1>11, <1>13, <1>14, <1>15, <1>16, <1>17, <1>18, <1>19, StepSound

\* A policy deleted holds nothing (delete_policy).
LEMMA DeleteSound ==
    ASSUME Inv, Sound, NEW w \in Workers, delete_policy(w)
    PROVE  Sound'
<1>1. Doing(w, "delete")  BY DEF delete_policy
<1>2. Busy(w) = {}
  BY <1>1, NotAtIt DEF Updating, Undoing
<1>3. PICK p \in Policies : p = This(w).policy  BY DeleteKeeps
<1>4. PICK F \in SUBSET Holdings : F = {p} \X Sets  BY PairsOf
<1>5. /\ Inv' /\ w = "admin" /\ Stops(w)
      /\ policies' = policies \ {p}
      /\ \A q \in Policies \ {p} : rows'[q] = rows[q] /\ hand'[q] = hand[q] /\ held'[q] = held[q]
      /\ \A q \in Policies, s \in Sets : previous'[q][s] = IF q = p THEN None ELSE previous[q][s]
      /\ torn' = torn \ F /\ tangled' = tangled \ F
      /\ mirror' = mirror /\ undo' = undo
  BY <1>3, <1>4, DeleteKeeps
<1>6. /\ ~AtIt(w)' /\ Busy(w)' = {} /\ Elsewhere(w)
      /\ job'[w] = <<>> \/ This(w)'.do \notin Restoring
  BY <1>5, RestsIs DEF Stops
<1>7. ASSUME NEW q \in Policies, NEW x \in Sets, q \in policies'
      PROVE  IF <<q, x>> \in F THEN Settled(q, x)' ELSE Calm(q, x)
  <2>1. q # p /\ q \in policies  BY <1>5, <1>7
  <2>2. <<q, x>> \notin F  BY <1>4, <2>1
  <2>3. \A e : e \in hand'[q] \/ (e \notin hand[q] /\ Alike(q, e))  BY <1>5, <2>1, SameGentle
  <2>4. Calm(q, x)  BY <1>5, <2>1, <2>2, <2>3 DEF Calm
  <2> QED BY <2>2, <2>4
<1>8. \A h \in Busy(w) : h \in F \/ h[1] \notin policies' \/ h \in Busy(w)' \cup torn'  BY <1>2
<1>9. \A x \in Workers \ {w} : AtIt(x) /\ AtOf(x) \in F => AtOf(x) \in tangled' \/ AtOf(x)[1] \notin policies'
  BY <1>4, <1>5 DEF AtOf
<1>10. KeptAlike  BY <1>5 DEF KeptAlike
<1>11. Together'  BY <1>6, StillTogether DEF Sound, Workers
<1>12. w = "admin" => UndoSound'  BY <1>6, UndoKept DEF Sound
<1>13. Alone(w)' => WorkFits(This(w))'  BY <1>6 DEF Alone
<1> QED BY <1>5, <1>6, <1>7, <1>8, <1>9, <1>10, <1>11, <1>12, <1>13, StepSound

\* Every step of a job keeps what is sound.
LEMMA JobStepSound ==
    ASSUME Inv, Sound, NEW w \in Workers, JobStep(w)
    PROVE  Sound'
<1>1. CASE apply(w) \/ snapshot_before_update(w) \/ install_rule(w) \/ sweep(w) \/ record(w)
  BY <1>1, ApplySound, SnapshotSound, InstallSound, SweepSound, RecordSound
<1>2. CASE restore_rule(w) \/ sweep_back(w) \/ put_back(w) \/ forget(w) \/ remove(w) \/ release(w)
  BY <1>2, RestoreSound, SweepBackSound, PutBackSound, ForgetSound, RemoveSound, ReleaseSound
<1>3. CASE add_rules_by_external_ids(w) \/ switch_off_by_external_ids(w) \/ switch_on(w) \/ drop(w)
  BY <1>3, ByHandSound
<1>4. CASE copy_rules(w) \/ copy_sets(w) \/ delete_policy(w)
  BY <1>4, CopyRulesSound, CopySetsSound, DeleteSound
<1>5. CASE copy_entries(w) \/ enter(w) \/ attach_site(w) \/ PolicyGone(w)
  BY <1>5, ListSound, GoneSound
<1> QED BY <1>1, <1>2, <1>3, <1>4, <1>5 DEF JobStep

-----------------------------------------------------------------------------
(* Steps of nobody, and those of the task. *)
\* A step that is of no job, and leaves but marks, keeps what is sound.
LEMMA NobodySound ==
    ASSUME Inv, Inv', Sound, job' = job, undo' = undo, \A q \in Policies : Gentle(q),
           UNCHANGED <<policies, held, previous, torn, tangled>>
    PROVE  Sound'
<1>1. PICK F \in SUBSET Holdings : F = {}  OBVIOUS
<1>2. \A q \in Policies, x \in Sets : q \in policies' => Calm(q, x)  BY GentleCalm
<1>3. \A w \in Workers : Busy(w)' = Busy(w)  BY SameJob
<1>4. InHand' = InHand  BY <1>3, HandsAre DEF Workers
<1>5. \A q \in Policies, x \in Sets :
          q \in policies' => IF <<q, x>> \in F THEN Settled(q, x)'
                             ELSE Calm(q, x) /\ (<<q, x>> \in InHand => <<q, x>> \in InHand' \cup torn')
  BY <1>1, <1>2, <1>4
<1>6. policies' \subseteq Policies /\ JobsInv  BY DEF Inv, TablesInv, RowsFit
<1>7. KeptAlike  BY SamePrevious
<1>8. Together'  BY <1>3, StillTogether DEF Sound, Workers
<1>9. UndoSound'  BY DEF Sound, UndoSound, This, Describes
<1>10. ASSUME NEW w \in Workers
       PROVE  Alone(w)' => WorkFits(This(w))'
  <2>1. AtIt(w) => AtOf(w)[1] \notin policies' \/ Calm(This(w).policy, This(w).set)
    BY <1>2, <1>6, AtItIs DEF AtOf, OfHolding
  <2>2. job'[w] = job[w] /\ WorkIsSound  BY DEF Sound
  <2> QED BY <1>6, <2>1, <2>2, AsideSound
<1> QED BY <1>5, <1>6, <1>7, <1>8, <1>9, <1>10, SoundKeeps

\* At a start nobody is at a holding.
LEMMA BootSound ==
    ASSUME Inv, Inv', Sound, job'["admin"] = <<>>, Busy("task") = {}, Busy("admin") = {}, ~AtIt("task")',
           policies' = policies, KeptAlike,
           \A q \in policies, x \in Sets : Settled(q, x) => Settled(q, x)'
    PROVE  Sound'
<1>1. PICK F \in SUBSET Holdings : F = Holdings  OBVIOUS
<1>2. policies' \subseteq Policies  BY DEF Inv, TablesInv, RowsFit
<1>3. \A q \in Policies, x \in Sets :
          q \in policies' => IF <<q, x>> \in F THEN Settled(q, x)'
                             ELSE Calm(q, x) /\ (<<q, x>> \in InHand => <<q, x>> \in InHand' \cup torn')
  <2> SUFFICES ASSUME NEW q \in Policies, NEW x \in Sets, q \in policies'
               PROVE  <<q, x>> \in F /\ Settled(q, x)'
    OBVIOUS
  <2>1. Settled(q, x)  BY DEF Sound, HeldIsWhole, Settled
  <2> QED BY <1>1, <2>1 DEF Holdings
<1>4. Together'  BY DEF Together, Busy
<1>5. UndoSound'  BY DEF UndoSound
<1>6. \A w \in Workers : Alone(w)' => WorkFits(This(w))'  BY DEF Alone, AtIt, Workers
<1> QED BY <1>2, <1>3, <1>4, <1>5, <1>6, SoundKeeps

\* The task's round (CheckTask, check, AutoApply).
LEMMA RoundSound ==
    ASSUME Inv, Sound, CheckTask \/ check \/ AutoApply
    PROVE  Sound'
<1>1. "task" \in Workers  BY DEF Workers
<1>2. CASE CheckTask
  <2>1. Inv' /\ Idly /\ undo' = undo /\ \E n \in Things("task") : Goes("task", n) /\ n.do = "check"
    BY <1>2, RoundKeeps
  <2>2. Busy("task") = {}  BY <1>2 DEF CheckTask, Busy
  <2>3. \E n : Heads("task", n) /\ n.do \notin Updating \cup Undoing  BY <2>1 DEF Goes, Updating, Undoing
  <2> QED BY <1>1, <2>1, <2>2, <2>3, IdleSound
<1>3. CASE check
  <2>1. Inv' /\ Stops("task") /\ Idly /\ undo' = undo  BY <1>3, CheckKeeps
  <2>2. Busy("task") = {}  BY <1>3, NotAtIt DEF check, Updating, Undoing
  <2> QED BY <1>1, <2>1, <2>2, IdleSound DEF Stops
<1>4. CASE AutoApply
  <2>1. Inv' /\ Idly /\ undo' = undo /\ Rests("task") /\ Doing("task", "automatic")  BY <1>4, AutoKeeps
  <2>2. Busy("task") = {}  BY <2>1, NotAtIt DEF Updating, Undoing
  <2> QED BY <1>1, <2>1, <2>2, IdleSound
<1> QED BY <1>2, <1>3, <1>4

\* The mirror brought up to date (sync_cache).
LEMMA SyncSound ==
    ASSUME Inv, Sound, sync_cache
    PROVE  Sound'
<1>1. "task" \in Workers  BY DEF Workers
<1>2. /\ Inv' /\ Stops("task") /\ undo' = undo
      /\ UNCHANGED <<policies, rows, held, previous, hand, torn, tangled>>
  BY SyncKeeps
<1>3. Busy("task") = {}  BY NotAtIt DEF sync_cache, Updating, Undoing
<1>4. /\ ~AtIt("task")' /\ Busy("task")' = {} /\ Elsewhere("task")
      /\ job'["task"] = <<>> \/ This("task")'.do \notin Restoring
  BY <1>1, <1>2, RestsIs DEF Stops
<1>5. \A q \in Policies : Gentle(q)  BY <1>2, SameGentle
<1> QED BY <1>1, <1>2, <1>3, <1>4, <1>5, ElsewhereSound

\* Who is at it at a start.
LEMMA AtBoot ==
    ASSUME Inv, NEW do \in Booting, Doing("task", do)
    PROVE  /\ Busy("task") = {} /\ Busy("admin") = {} /\ InHand = {}
<1>1. job["admin"] = <<>>  BY AtStart
<1>2. Busy("task") = {}  BY NotAtIt DEF Booting, Updating, Undoing
<1>3. Busy("admin") = {}  BY <1>1 DEF Busy
<1> QED BY <1>2, <1>3, HandsAre

\* After a step of a start the task is at no holding.
LEMMA BootNext ==
    ASSUME \/ Rests("task")
           \/ \E n \in Thing : Heads("task", n) /\ n.do \in Booting
    PROVE  ~AtIt("task")'
<1>1. "task" \in Workers  BY DEF Workers
<1>2. CASE Rests("task")  BY <1>1, <1>2, RestsIs
<1>3. CASE \E n \in Thing : Heads("task", n) /\ n.do \in Booting
  <2>1. PICK n \in Thing : Heads("task", n) /\ n.do \in Booting  BY <1>3
  <2>2. n.do \notin Updating \cup Undoing  BY <2>1 DEF Booting, Updating, Undoing
  <2> QED BY <1>1, <2>1, <2>2, HeadsIs
<1> QED BY <1>2, <1>3

\* A holding looked at, at a start (backfill_rule_sets).
LEMMA BackfillSound ==
    ASSUME Inv, Sound, backfill_rule_sets
    PROVE  Sound'
<1>1. /\ Inv' /\ Idly /\ undo' = undo /\ job'["admin"] = <<>> /\ Doing("task", "backfill")
      /\ \/ Rests("task")
         \/ \E n \in Thing : Heads("task", n) /\ n.do \in {"backfill", "claim"}
  BY BackfillKeeps
<1>2. "backfill" \in Booting /\ {"backfill", "claim"} \subseteq Booting  BY DEF Booting
<1>3. Busy("task") = {} /\ Busy("admin") = {} /\ InHand = {}  BY <1>1, <1>2, AtBoot
<1>4. ~AtIt("task")'  BY <1>1, <1>2, BootNext
<1>5. \A q \in policies, x \in Sets : Settled(q, x) => Settled(q, x)'
  BY <1>1, <1>3 DEF Settled, IsVersion, OfSet, Idly
<1>6. KeptAlike /\ policies' = policies  BY <1>1, SamePrevious DEF Idly
<1> QED BY <1>1, <1>3, <1>4, <1>5, <1>6, BootSound

\* A rule that is marked by hand, or was the set's before.
LEMMA ClaimSound ==
    ASSUME Inv, Sound, claim
    PROVE  Sound'
<1>1. PICK p \in Policies, s \in Sets : p = This("task").policy /\ s = This("task").set  BY ClaimKeeps
<1>2. PICK e : e = Taken("task")  OBVIOUS
<1>3. /\ Inv' /\ job'["admin"] = <<>> /\ p \in policies
      /\ Doing("task", "claim") /\ \E n \in Thing : Heads("task", n) /\ n.do \in {"claim", "adopt"}
      /\ mirror[s] = 1 /\ e \in File[s][1]
      /\ rows[p][e] # None /\ rows'[p][e] = [rows[p][e] EXCEPT !.claimed = TRUE]
      /\ \A q \in Policies \ {p} : rows'[q] = rows[q]
      /\ \A x \in Ext \ {e} : rows'[p][x] = rows[p][x]
      /\ UNCHANGED <<policies, held, previous, hand, torn, tangled, mirror, undo>>
  BY <1>1, <1>2, ClaimKeeps
<1>4. "claim" \in Booting /\ {"claim", "adopt"} \subseteq Booting  BY DEF Booting
<1>5. Busy("task") = {} /\ Busy("admin") = {} /\ InHand = {}  BY <1>3, <1>4, AtBoot
<1>6. ~AtIt("task")'  BY <1>3, <1>4, BootNext
<1>7. KeptAlike  BY <1>3, SamePrevious
<1>8. ASSUME NEW q \in policies, NEW x \in Sets, Settled(q, x)
      PROVE  Settled(q, x)'
  <2>1. q \in Policies /\ TablesInv  BY DEF Inv, TablesInv, RowsFit
  <2> SUFFICES ASSUME held[q][x] > 0, <<q, x>> \notin torn
               PROVE  IsVersion(q, x, held[q][x])'
    BY <1>3 DEF Settled
  <2>2. PICK v : v = held[q][x]  OBVIOUS
  <2>3. IsVersion(q, x, v)  BY <1>5, <1>8, <2>2 DEF Settled
  <2> SUFFICES ASSUME NEW y \in RulesOf(x), y \notin hand'[q]
               PROVE  /\ Present(q, y)' <=> y \in File[x][v]
                      /\ y \in File[x][v] => rows'[q][y].text = v
    BY <1>3, <2>2, VersionIsNext
  <2>4. /\ Present(q, y) <=> y \in File[x][v]
        /\ y \in File[x][v] => rows[q][y].text = v
    BY <1>3, <2>3, VersionIs
  <2>5. y \in Ext  BY RuleSetsAssumption
  <2>6. CASE q # p \/ y # e
    <3>1. rows'[q][y] = rows[q][y]  BY <1>3, <2>1, <2>5, <2>6
    <3> QED BY <2>4, <3>1 DEF Present
  <2>7. CASE q = p /\ y = e
    <3>1. 1 \in 1..Latest(s)  BY <1>3, <2>1, OfferedIs DEF TablesInv
    <3>2. y \in RulesOf(s) /\ x = s  BY <1>3, <2>7, <3>1, OfVersions, RuleSetsAssumption
    <3>3. held[q][x] \in Nat /\ held[q][x] <= mirror[x]  BY <2>1 DEF TablesInv, HeldFits
    <3>4. v = 1  BY <1>3, <2>2, <3>2, <3>3
    <3>5. rows[q][y] \in Row \cup {None}  BY <2>1, <2>5 DEF TablesInv, RowsFit
    <3>6. rows[q][y] \in Row /\ rows[q][y].claimed /\ rows[q][y].text = v
      BY <1>3, <2>4, <2>7, <3>2, <3>4, <3>5 DEF Present
    <3>7. /\ rows'[q][y].claimed /\ rows'[q][y].text = v /\ rows'[q][y] \in Row
      BY <1>3, <2>7, <3>6 DEF Row
    <3>8. None \notin Row  BY RuleSetsAssumption
    <3> QED BY <1>3, <2>7, <3>2, <3>4, <3>7, <3>8 DEF Present
  <2> QED BY <2>6, <2>7
<1> QED BY <1>3, <1>5, <1>6, <1>7, <1>8, BootSound

\* All of the first version is there, and no other can be.
LEMMA AdoptSound ==
    ASSUME Inv, Sound, adopt
    PROVE  Sound'
<1>1. PICK p \in Policies, s \in Sets : p = This("task").policy /\ s = This("task").set  BY AdoptKeeps
<1>2. /\ Inv' /\ job'["admin"] = <<>> /\ Rests("task") /\ p \in policies
      /\ mirror[s] = 1
      /\ \A e \in File[s][1] : rows[p][e] # None /\ rows[p][e].text = 1 /\ rows[p][e].claimed
      /\ \A q \in Policies, x \in Sets :
             held'[q][x] = IF q = p /\ x = s /\ held[p][s] = 0 THEN 1 ELSE held[q][x]
      /\ UNCHANGED <<policies, rows, previous, hand, torn, tangled, mirror, undo>>
  BY <1>1, AdoptKeeps
<1>3. Doing("task", "adopt") /\ "adopt" \in Booting  BY DEF adopt, Booting
<1>4. Busy("task") = {} /\ Busy("admin") = {} /\ InHand = {}  BY <1>3, AtBoot
<1>5. ~AtIt("task")'  BY <1>2, BootNext
<1>6. KeptAlike  BY <1>2, SamePrevious
<1>7. ASSUME NEW q \in policies, NEW x \in Sets, Settled(q, x)
      PROVE  Settled(q, x)'
  <2>1. q \in Policies /\ TablesInv  BY DEF Inv, TablesInv, RowsFit
  <2>2. CASE q = p /\ x = s /\ held[p][s] = 0
    <3>1. held'[q][x] = 1  BY <1>2, <2>2
    <3> SUFFICES IsVersion(q, x, 1)'
      BY <3>1 DEF Settled
    <3> SUFFICES ASSUME NEW y \in RulesOf(x), y \notin hand'[q]
                 PROVE  /\ Present(q, y)' <=> y \in File[x][1]
                        /\ y \in File[x][1] => rows'[q][y].text = 1
      BY VersionIsNext
    <3>2. RowFits(x, y, rows[q][y])  BY <2>1 DEF TablesInv, RowsFit
    <3>3. Present(q, y) => y \in File[x][1]  BY <1>2, <2>2, <3>2 DEF Present, RowFits
    <3>4. y \in File[x][1] => Present(q, y) /\ rows[q][y].text = 1  BY <1>2, <2>2 DEF Present
    <3>5. (Present(q, y)' <=> Present(q, y)) /\ rows'[q][y] = rows[q][y]  BY <1>2 DEF Present
    <3> QED BY <3>3, <3>4, <3>5
  <2>3. CASE ~(q = p /\ x = s /\ held[p][s] = 0)
    <3>1. held'[q][x] = held[q][x]  BY <1>2, <2>1, <2>3
    <3> QED BY <1>2, <1>4, <1>7, <3>1 DEF Settled, IsVersion, OfSet
  <2> QED BY <2>2, <2>3
<1> QED BY <1>2, <1>4, <1>5, <1>6, <1>7, BootSound

\* A holding purged is not held; another is as it was (purge).
LEMMA PurgeSound ==
    ASSUME Inv, Sound, purge
    PROVE  Sound'
<1>1. /\ Inv' /\ job'["admin"] = <<>> /\ Rests("task")
      /\ \A p \in Policies, s \in Sets :
             /\ held'[p][s] = IF OfSet(p, s) = {} THEN 0 ELSE held[p][s]
             /\ previous'[p][s] = None \/ previous'[p][s] = previous[p][s]
      /\ torn' = torn \ {h \in Holdings : held'[h[1]][h[2]] = 0}
      /\ UNCHANGED <<policies, rows, hand, mirror, undo>>
  BY PurgeKeeps
<1>2. Doing("task", "purge") /\ "purge" \in Booting  BY DEF purge, Booting
<1>3. Busy("task") = {} /\ Busy("admin") = {} /\ InHand = {}  BY <1>2, AtBoot
<1>4. ~AtIt("task")'  BY <1>1, BootNext
<1>5. KeptAlike  BY <1>1 DEF KeptAlike
<1>6. ASSUME NEW q \in policies, NEW x \in Sets, Settled(q, x)
      PROVE  Settled(q, x)'
  <2>1. q \in Policies  BY DEF Inv, TablesInv, RowsFit
  <2>2. CASE held'[q][x] = 0  BY <2>2 DEF Settled
  <2>3. CASE held'[q][x] # 0
    <3>1. held'[q][x] = held[q][x]  BY <1>1, <2>1, <2>3
    <3>2. <<q, x>> \in torn => <<q, x>> \in torn'
      <4>1. <<q, x>> \notin {h \in Holdings : held'[h[1]][h[2]] = 0}  BY <2>3
      <4> QED BY <1>1, <4>1
    <3> QED BY <1>1, <1>3, <1>6, <3>1, <3>2 DEF Settled, IsVersion, OfSet
  <2> QED BY <2>2, <2>3
<1> QED BY <1>1, <1>3, <1>4, <1>5, <1>6, BootSound

\* Every step of the task keeps what is sound.
LEMMA TaskStepSound ==
    ASSUME Inv, Sound, TaskSteps
    PROVE  Sound'
<1>1. CASE CheckTask \/ check \/ AutoApply  BY <1>1, RoundSound
<1>2. CASE sync_cache  BY <1>2, SyncSound
<1>3. CASE JobStep("task")  BY <1>3, JobStepSound DEF Workers
<1>4. CASE backfill_rule_sets \/ claim \/ adopt \/ purge
  BY <1>4, BackfillSound, ClaimSound, AdoptSound, PurgeSound
<1> QED BY <1>1, <1>2, <1>3, <1>4 DEF TaskSteps

-----------------------------------------------------------------------------
(* What the administrators do, and a stop. *)
\* An administrator who begins something is at nothing.
LEMMA ActIdle ==
    ASSUME Act
    PROVE  "admin" \in Workers /\ Busy("admin") = {} /\ ~AtIt("admin")
BY DEF Act, Busy, AtIt, Workers

\* What is read to be put back is as sound as it was kept (post_revert_rule_set).
LEMMA RevertSound ==
    ASSUME Inv, Sound, post_revert_rule_set
    PROVE  Sound'
<1>1. /\ Inv' /\ UNCHANGED <<policies, rows, held, previous, hand, mirror>> /\ Act
      /\ \E p \in Policies, s \in Sets :
             /\ p \in policies /\ previous[p][s] # None /\ undo' = previous[p][s] /\ Starting("admin", <<p, s>>)
             /\ \E n \in Thing : /\ Heads("admin", n) /\ n.do = "restore" /\ n.policy = p /\ n.set = s
                                 /\ n.rest = {e \in Ext : previous[p][s].rules[e] # None}
  BY RevertKeeps
<1>2. PICK p \in Policies, s \in Sets :
          /\ p \in policies /\ previous[p][s] # None /\ undo' = previous[p][s] /\ Starting("admin", <<p, s>>)
          /\ \E n \in Thing : /\ Heads("admin", n) /\ n.do = "restore" /\ n.policy = p /\ n.set = s
                              /\ n.rest = {e \in Ext : previous[p][s].rules[e] # None}
  BY <1>1
<1>3. PICK n \in Thing : /\ Heads("admin", n) /\ n.do = "restore" /\ n.policy = p /\ n.set = s
                         /\ n.rest = {e \in Ext : previous[p][s].rules[e] # None}
  BY <1>2
<1>4. PICK h \in Holdings : h = <<p, s>>  BY DEF Holdings
<1>5. Starting("admin", h) /\ <<n.policy, n.set>> = h  BY <1>2, <1>3, <1>4
<1>6. "admin" \in Workers /\ Busy("admin") = {}  BY <1>1, ActIdle
<1>7. RulesOf(s) \subseteq Ext  BY RuleSetsAssumption
<1>8. WorkFits(n)'
  <2>1. \A e \in RulesOf(s) : undo'.rules[e] = None \/ e \in n.rest  BY <1>2, <1>3, <1>7
  <2> QED BY <1>3, <2>1 DEF WorkFits
<1>9. This("admin")' = n  BY <1>3, <1>6, HeadsIs
<1>10. UndoSound'
  <2>1. previous[p][s].sound => Describes(s, previous[p][s])  BY <1>2 DEF Sound, PreviousSound
  <2> QED BY <1>2, <1>3, <1>9, <2>1 DEF UndoSound, Describes
<1>11. n.do \in Updating \cup Undoing  BY <1>3 DEF Undoing
<1> QED BY <1>1, <1>3, <1>5, <1>6, <1>8, <1>10, <1>11, StartSound

\* A removal asked for (post_remove_rule_set).
LEMMA RemoveBeginSound ==
    ASSUME Inv, Sound, post_remove_rule_set
    PROVE  Sound'
<1>1. /\ Inv' /\ UNCHANGED <<policies, rows, held, previous, hand, mirror, undo>> /\ Act
      /\ \E p \in Policies, s \in Sets :
             /\ Starting("admin", <<p, s>>)
             /\ \E n \in Thing : Heads("admin", n) /\ n.do = "remove" /\ n.policy = p /\ n.set = s
  BY RemoveBegins
<1>2. PICK p \in Policies, s \in Sets :
          /\ Starting("admin", <<p, s>>)
          /\ \E n \in Thing : Heads("admin", n) /\ n.do = "remove" /\ n.policy = p /\ n.set = s
  BY <1>1
<1>3. PICK n \in Thing : Heads("admin", n) /\ n.do = "remove" /\ n.policy = p /\ n.set = s  BY <1>2
<1>4. PICK h \in Holdings : h = <<p, s>>  BY DEF Holdings
<1>5. Starting("admin", h) /\ <<n.policy, n.set>> = h  BY <1>2, <1>3, <1>4
<1>6. "admin" \in Workers /\ Busy("admin") = {}  BY <1>1, ActIdle
<1>7. WorkFits(n)'  BY <1>3 DEF WorkFits
<1>8. This("admin")' = n /\ n.do \notin Restoring  BY <1>3, <1>6, HeadsIs DEF Restoring
<1>9. UndoSound'  BY <1>8, UndoKept DEF Sound
<1>10. n.do \in Updating \cup Undoing  BY <1>3 DEF Undoing
<1> QED BY <1>1, <1>3, <1>5, <1>6, <1>7, <1>9, <1>10, StartSound

\* What is waited with, or begun at no holding.
LEMMA AskSound ==
    ASSUME Inv, Sound, post_apply_rule_update \/ post_rules_catalog \/ post_bulk_rules \/ post_policy_delete
    PROVE  Sound'
<1>1. Act  BY DEF post_apply_rule_update, post_rules_catalog, post_bulk_rules, post_policy_delete
<1>2. "admin" \in Workers /\ Busy("admin") = {}  BY <1>1, ActIdle
<1>3. /\ Inv' /\ Idly /\ undo' = undo
      /\ \/ Rests("admin")
         \/ \E n \in Thing : Heads("admin", n) /\ n.do \in ByHand \cup {"delete", "apply"}
  BY ApplyUpdateKeeps, PickerKeeps
<1>4. \/ Rests("admin")
      \/ \E n : Heads("admin", n) /\ n.do \notin Updating \cup Undoing
  BY <1>3 DEF ByHand, Updating, Undoing
<1> QED BY <1>2, <1>3, <1>4, IdleSound

\* A policy made holds nothing, and nobody is at it.
LEMMA CreateSound ==
    ASSUME Inv, Sound, post_policy_create
    PROVE  Sound'
<1>1. /\ Inv' /\ UNCHANGED <<rows, held, previous, hand, torn, tangled, mirror, undo>> /\ job'["task"] = job["task"]
      /\ \E p \in Policies \ policies : policies' = policies \cup {p} /\ job["task"] \in Seq(Without(p))
      /\ Act
      /\ \/ Rests("admin")
         \/ \E n \in Thing : Heads("admin", n) /\ n.do = "copy_rules"
  BY CreateKeeps
<1>2. PICK p \in Policies \ policies : policies' = policies \cup {p} /\ job["task"] \in Seq(Without(p))  BY <1>1
<1>3. "admin" \in Workers /\ Busy("admin") = {}  BY <1>1, ActIdle
<1>4. PICK F \in SUBSET Holdings : F = {p} \X Sets  BY PairsOf
<1>5. /\ ~AtIt("admin")' /\ Busy("admin")' = {} /\ Elsewhere("admin")
      /\ job'["admin"] = <<>> \/ This("admin")'.do \notin Restoring
  <2>1. CASE Rests("admin")  BY <1>3, <2>1, RestsIs
  <2>2. CASE \E n \in Thing : Heads("admin", n) /\ n.do = "copy_rules"
    <3>1. PICK n \in Thing : Heads("admin", n) /\ n.do = "copy_rules"  BY <2>2
    <3>2. n.do \notin Updating \cup Undoing  BY <3>1 DEF Updating, Undoing
    <3> QED BY <1>3, <3>1, <3>2, HeadsIs
  <2> QED BY <1>1, <2>1, <2>2
<1>6. ASSUME NEW q \in Policies, NEW x \in Sets, q \in policies'
      PROVE  IF <<q, x>> \in F THEN Settled(q, x)' ELSE Calm(q, x)
  <2>1. CASE q = p
    <3>1. held'[q][x] = 0  BY <1>1, <1>2, <2>1 DEF Inv, TablesInv, HeldFits
    <3> QED BY <1>4, <2>1, <3>1 DEF Settled
  <2>2. CASE q # p
    <3>1. q \in policies /\ <<q, x>> \notin F  BY <1>2, <1>4, <1>6, <2>2
    <3>2. rows'[q] = rows[q] /\ hand'[q] = hand[q]  BY <1>1
    <3>3. \A e : e \in hand'[q] \/ (e \notin hand[q] /\ Alike(q, e))  BY <3>2, SameGentle
    <3>4. Calm(q, x)  BY <1>1, <3>1, <3>3 DEF Calm
    <3> QED BY <3>1, <3>4
  <2> QED BY <2>1, <2>2
<1>7. \A h \in Busy("admin") : h \in F \/ h[1] \notin policies' \/ h \in Busy("admin")' \cup torn'  BY <1>3
<1>8. \A x \in Workers \ {"admin"} : AtIt(x) /\ AtOf(x) \in F => AtOf(x) \in tangled' \/ AtOf(x)[1] \notin policies'
  <2>1. AtIt("task") => This("task").policy # p  BY <1>2, NotOfThat DEF Inv
  <2>2. AtOf("task") \in F => This("task").policy = p  BY <1>4 DEF AtOf
  <2> QED BY <2>1, <2>2 DEF Workers
<1>9. KeptAlike  BY <1>1, SamePrevious
<1>10. Together'  BY <1>5, StillTogether DEF Sound
<1>11. UndoSound'  BY <1>5, UndoKept DEF Sound
<1>12. Alone("admin")' => WorkFits(This("admin"))'  BY <1>5 DEF Alone
<1> QED BY <1>1, <1>3, <1>5, <1>6, <1>7, <1>8, <1>9, <1>10, <1>11, <1>12, StepSound

\* Every edit is marked, or leaves the rules alone.
LEMMA EditSound ==
    ASSUME Inv, Sound, AdminEdits
    PROVE  Sound'
<1>1. /\ Inv' /\ job' = job /\ undo' = undo /\ UNCHANGED <<policies, held, previous, torn, tangled, mirror>>
      /\ \/ Idly
         \/ \E p \in Policies, e \in Ext : PutByHand(p, e)
  BY EditKeeps
<1>2. \A q \in Policies : Gentle(q)  BY <1>1, SameGentle DEF Idly, PutByHand
<1> QED BY <1>1, <1>2, NobodySound

\* What was cut off is torn.
LEMMA RestartSound ==
    ASSUME Inv, Sound, Restart
    PROVE  Sound'
<1>1. /\ Inv' /\ UNCHANGED <<policies, rows, held, previous, hand, mirror>> /\ undo' = None
      /\ job'["admin"] = <<>> /\ (job'["task"] = <<>> \/ This("task")' \in Queued("task"))
      /\ torn' = torn \cup InHand
  BY RestartKeeps
<1>2. tangled \subseteq tangled'  BY DEF Restart
<1>3. PICK F \in SUBSET Holdings : F = {}  OBVIOUS
<1>4. ~AtIt("task")' /\ ~AtIt("admin")'
  BY <1>1 DEF AtIt, Queued, Waiting, Updating, Undoing
<1>5. policies' \subseteq Policies  BY <1>1 DEF Inv, TablesInv, RowsFit
<1>6. \A q \in Policies, x \in Sets :
          q \in policies' => IF <<q, x>> \in F THEN Settled(q, x)'
                             ELSE Calm(q, x) /\ (<<q, x>> \in InHand => <<q, x>> \in InHand' \cup torn')
  <2>1. \A q, e : e \in hand'[q] \/ (e \notin hand[q] /\ Alike(q, e))  BY <1>1, SameGentle
  <2> QED BY <1>1, <1>2, <1>3, <2>1 DEF Calm
<1>7. KeptAlike  BY <1>1, SamePrevious
<1>8. Together'  BY <1>1 DEF Together, Busy
<1>9. UndoSound'  BY <1>1 DEF UndoSound
<1>10. \A w \in Workers : Alone(w)' => WorkFits(This(w))'  BY <1>4 DEF Alone, Workers
<1> QED BY <1>5, <1>6, <1>7, <1>8, <1>9, <1>10, SoundKeeps

-----------------------------------------------------------------------------
(* Every step. *)
\* What is sound at first: one policy with the first versions.
LEMMA InitSound ==
    ASSUME Init, Inv
    PROVE  Sound
<1>1. PICK p : p = CHOOSE q \in Policies : TRUE  OBVIOUS
<1>2. /\ job = [w \in Workers |-> <<>>] /\ torn = {} /\ tangled = {}
      /\ hand = [q \in Policies |-> {}] /\ previous = [q \in Policies |-> [s \in Sets |-> None]]
      /\ rows = [q \in Policies |-> [e \in Ext |->
                   IF q = p /\ e \in File[SetOf(e)][1] THEN [Fresh(1) EXCEPT !.claimed = left.first # "before sets"]
                   ELSE None]]
      /\ held = [q \in Policies |-> [s \in Sets |-> IF q = p /\ left.first # "before sets" THEN 1 ELSE 0]]
  BY <1>1 DEF Init
<1>3. \A w \in Workers : ~AtIt(w) /\ Busy(w) = {}  BY <1>2 DEF AtIt, Busy
<1>4. Together  BY <1>3 DEF Together, Workers
<1>5. PreviousSound  BY <1>2 DEF PreviousSound
<1>6. UndoSound  BY <1>2 DEF UndoSound, Workers
<1>7. WorkIsSound  BY <1>3 DEF WorkIsSound, Alone
<1>8. ASSUME NEW q \in policies, NEW s \in Sets, held[q][s] > 0
      PROVE  IsVersion(q, s, held[q][s])
  <2>1. q \in Policies  BY DEF Inv, TablesInv, RowsFit
  <2>2. q = p /\ left.first # "before sets" /\ held[q][s] = 1
    <3>1. held[q] = [x \in Sets |-> IF q = p /\ left.first # "before sets" THEN 1 ELSE 0]
      BY ONLY <1>2, <2>1
    <3>2. held[q][s] = IF q = p /\ left.first # "before sets" THEN 1 ELSE 0  BY ONLY <3>1, s \in Sets
    <3>3. held[q][s] > 0  BY <1>8
    <3>4. ASSUME ~(q = p /\ left.first # "before sets")
          PROVE  FALSE
      <4>1. held[q][s] = 0  BY ONLY <3>2, <3>4
      <4>2. 0 > 0  BY ONLY <3>3, <4>1
      <4> QED BY ONLY <4>2
    <3>5. held[q][s] = 1  BY ONLY <3>2, <3>4
    <3> QED BY ONLY <3>4, <3>5
  <2>3. ASSUME NEW e \in RulesOf(s)
        PROVE  /\ Present(q, e) <=> e \in File[s][1]
               /\ e \in File[s][1] => rows[q][e].text = 1
    <3>1. e \in Ext /\ SetOf(e) = s
      <4>1. e \in Ext  BY RuleSetsAssumption
      <4> QED BY <4>1, OfOneSet
    <3>2. Fresh(1) \in Row /\ None \notin Row  BY FreshIs, RuleSetsAssumption
    <3>3. CASE e \in File[s][1]
      <4>1. PICK r : r = [Fresh(1) EXCEPT !.claimed = left.first # "before sets"]  OBVIOUS
      <4>2. rows[q][e] = r  BY <1>2, <2>1, <2>2, <3>1, <3>3, <4>1
      <4>3. r \in Row /\ r.claimed /\ r.text = 1  BY <2>2, <3>2, <4>1 DEF Row, Fresh
      <4> QED BY <3>2, <3>3, <4>2, <4>3 DEF Present
    <3>4. CASE e \notin File[s][1]
      <4>1. rows[q][e] = None  BY <1>2, <2>1, <3>1, <3>4
      <4> QED BY <3>4, <4>1 DEF Present
    <3> QED BY <3>3, <3>4
  <2>4. IsVersion(q, s, 1)  BY <2>3, VersionIs
  <2> QED BY <2>2, <2>4
<1>9. HeldIsWhole  BY <1>8 DEF HeldIsWhole
<1> QED BY <1>4, <1>5, <1>6, <1>7, <1>9 DEF Sound

\* Every step keeps what is sound.
LEMMA NextSound ==
    ASSUME Inv, Sound, Next
    PROVE  Sound'
<1>1. CASE Publish
  <2>1. Inv' /\ job' = job /\ undo' = undo /\ UNCHANGED <<policies, rows, held, previous, hand, torn, tangled, mirror>>
    BY <1>1, PublishKeeps
  <2>2. \A q \in Policies : Gentle(q)  BY <2>1, SameGentle
  <2> QED BY <2>1, <2>2, NobodySound
<1>2. CASE TaskSteps  BY <1>2, TaskStepSound
<1>3. CASE JobStep("admin")  BY <1>3, JobStepSound DEF Workers
<1>4. CASE AdminActs
  BY <1>4, AskSound, RevertSound, RemoveBeginSound, CreateSound DEF AdminActs
<1>5. CASE AdminEdits  BY <1>5, EditSound
<1>6. CASE Restart  BY <1>6, RestartSound
<1> QED BY <1>1, <1>2, <1>3, <1>4, <1>5, <1>6 DEF Next

\* When nobody is at it and nothing was cut off, a policy that says it holds a
\* version of a set holds that version's rules, all of them and no other's, but
\* for what was put in or taken out by hand (rules.rs, apply_selection; the steps
\* of install_set, revert_set and copy_policy, in any order with each other).
THEOREM HoldsWhatItSays == Spec => []HeldIsWhole
<1>1. Init => Inv /\ Sound  BY StartHolds, InitSound
<1>2. Inv /\ Sound /\ [Next]_vars => (Inv /\ Sound)'
  <2> SUFFICES ASSUME Inv, Sound, [Next]_vars
               PROVE  Inv' /\ Sound'
    OBVIOUS
  <2>1. CASE Next  BY <2>1, NextKeeps, NextSound
  <2>2. CASE UNCHANGED vars
    <3>1. Inv' /\ Idly /\ job' = job /\ undo' = undo  BY <2>2, StutterKeeps
    <3>2. \A q \in Policies : Gentle(q)  BY <3>1, SameGentle DEF Idly
    <3>3. UNCHANGED <<policies, held, previous, torn, tangled>>  BY <3>1 DEF Idly
    <3> QED BY <3>1, <3>2, <3>3, NobodySound
  <2> QED BY <2>1, <2>2
<1>3. Sound => HeldIsWhole  BY DEF Sound
<1> QED BY <1>1, <1>2, <1>3, PTL DEF Spec

=============================================================================
