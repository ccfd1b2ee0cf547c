---------------------------- MODULE SmartProtect ----------------------------
(***************************************************************************)
(* Smart Protect: an address the rules keep refusing is refused outright   *)
(* for a while.  The state is src/smart_protect.rs's: one table of recent  *)
(* refusals and one of blocks behind a mutex, the number of blocks in an   *)
(* atomic that is read without the mutex, and the three numbers in atomics *)
(* of their own.  The requests are those of src/proxy: each reads its      *)
(* block when it starts (Watch::of), waits for a body and the rules, and   *)
(* only then counts its refusal (Watch::count), so everything may have     *)
(* moved in between.                                                       *)
(*                                                                         *)
(* A key is a policy and a unit: an IPv4 address or an IPv6 /64.  Clients  *)
(* on an allow list and trusted proxies take no step here, and a policy    *)
(* that only detects differs from one that enforces in its answer, never   *)
(* in this state.                                                          *)
(***************************************************************************)
EXTENDS Integers, Sequences, FiniteSets

CONSTANTS
    Policies,     \* policies with a site in front of them
    Units,        \* what a client is counted and blocked as
    Requests,     \* request tasks that may be in flight at once
    Refusals,     \* values the setting "refusals" may take
    Windows,      \* values the setting "window" may take
    Lengths,      \* values the setting "block" may take
    MaxCounted,   \* MAX_COUNTED: keys counted at once
    MaxBlocks,    \* MAX_BLOCKS: blocks held
    MaxTime,      \* bound on the clock
    MaxLog        \* bound on the refusals counted against one key

\* The ranges set_numbers clamps to, without their sizes: two refusals at
\* least, and a window and a block that are not empty.
ASSUME NumbersAssumption ==
    /\ Refusals \subseteq {n \in Nat : n >= 2}
    /\ Windows \subseteq Nat \ {0}
    /\ Lengths \subseteq Nat \ {0}

\* Both tables hold something, and addresses are finitely many.
ASSUME CapsAssumption ==
    /\ MaxCounted \in Nat \ {0}
    /\ MaxBlocks \in Nat \ {0}
    /\ MaxTime \in Nat
    /\ MaxLog \in Nat
    /\ IsFiniteSet(Policies)
    /\ IsFiniteSet(Units)

VARIABLES
    now,        \* the monotonic clock (Instant)
    numbers,    \* REFUSALS, WINDOW_SECS, BLOCK_SECS
    events,     \* State.counter: the times kept per key, <<>> for no entry
    blocks,     \* State.blocks: when the block on a key ends, 0 for no entry
    blockCount, \* BLOCK_COUNT
    switched,   \* policies.smart_protect with the policy not Off, as stored
    served,     \* the same as the site table in use has it
    forgetting, \* policies saved as off whose forget_policy is still to run
    req,        \* the request tasks
    log         \* history: refusals counted per key since it last started over

vars == <<now, numbers, events, blocks, blockCount, switched, served,
          forgetting, req, log>>

Key == Policies \X Units

Numbers == [refusals : Refusals, window : Windows, block : Lengths]

Idle == [step |-> "idle"]

\* A request the rules are inspecting, and one they have refused: Watch::count
\* has read the clock and the numbers and is about to take the lock.
Request ==
    {Idle}
    \cup [step : {"inspecting"}, key : Key]
    \cup [step : {"refused"}, key : Key, stamp : Nat, numbers : Numbers]

\* A refusal counted: the clock reading it carried, when it reached the
\* counter, and the numbers it was counted under.
Counted == [stamp : Nat, at : Nat, numbers : Numbers]

\* Every variable holds a value of its shape.
TypeOK ==
    /\ now \in Nat
    /\ numbers \in Numbers
    /\ events \in [Key -> Seq(Nat)]
    /\ blocks \in [Key -> Nat]
    /\ blockCount \in Nat
    /\ switched \in [Policies -> BOOLEAN]
    /\ served \in [Policies -> BOOLEAN]
    /\ forgetting \subseteq Policies
    /\ req \in [Requests -> Request]
    /\ log \in [Key -> Seq(Counted)]

-----------------------------------------------------------------------------
(* The tables. *)

\* The keys with an entry in a table of blocks, and in one of counts.
Held(b) == {k \in Key : b[k] # 0}
Tracked(ev) == {k \in Key : ev[k] # <<>>}

Last(times) == times[Len(times)]

\* SlidingCounter::make_room: the keys with nothing left in the window go;
\* if that frees nothing, those seen no later than the median go too.  The
\* median is latest[len / 2] of the sorted latest times: at most len / 2 of
\* them are smaller, and more than len / 2 are no larger.
StillInWindow(ev, t, window) ==
    [k \in Key |-> IF ev[k] # <<>> /\ t - Last(ev[k]) < window THEN ev[k] ELSE <<>>]

Median(ev) ==
    LET half == Cardinality(Tracked(ev)) \div 2
    IN {c \in {Last(ev[k]) : k \in Tracked(ev)} :
          /\ Cardinality({k \in Tracked(ev) : Last(ev[k]) < c}) <= half
          /\ Cardinality({k \in Tracked(ev) : Last(ev[k]) <= c}) > half}

SeenAfter(ev, cutoff) ==
    [k \in Key |-> IF ev[k] # <<>> /\ Last(ev[k]) > cutoff THEN ev[k] ELSE <<>>]

MakeRoom(ev, t, window) ==
    LET fresh == StillInWindow(ev, t, window)
    IN IF Cardinality(Tracked(fresh)) < MaxCounted
       THEN {fresh}
       ELSE {SeenAfter(fresh, c) : c \in Median(fresh)}

\* The table as record() finds it once it has made room for k if it must.
RoomFor(ev, k, t, window) ==
    IF ev[k] = <<>> /\ Cardinality(Tracked(ev)) >= MaxCounted
    THEN MakeRoom(ev, t, window)
    ELSE {ev}

\* Wrong on purpose: the loop that pops expired times left out.
FirstKept_NeverExpires(times, t, window) == {1}

\* Where the loop that pops expired times from the front stops.  It looks at
\* the front only: a time is not looked at while one in front of it is kept.
FirstKept(times, t, window) ==
    {i \in 1 .. Len(times) + 1 :
       /\ \A j \in 1 .. i - 1 : t - times[j] >= window
       /\ i <= Len(times) => t - times[i] < window}

\* Wrong on purpose: one time fewer remembered than the caller asks for.
Newest_OneFewer(times, keep) ==
    IF Len(times) >= keep THEN SubSeq(times, Len(times) - keep + 2, Len(times)) ELSE times

\* At most keep times are remembered.
Newest(times, keep) ==
    IF Len(times) > keep THEN SubSeq(times, Len(times) - keep + 1, Len(times)) ELSE times

\* SlidingCounter::record on the times of one key: expired times leave the
\* front, the new one joins the back, and only the newest `keep` stay.
Record(times, t, window, keep) ==
    {Newest(Append(SubSeq(times, i, Len(times)), t), keep) :
        i \in FirstKept(times, t, window)}

\* Wrong on purpose: ended blocks go, and a table of live ones just grows.
BlocksWithRoom_NoEviction(b, t) ==
    {[k \in Key |-> IF Cardinality(Held(b)) >= MaxBlocks /\ b[k] <= t THEN 0 ELSE b[k]]}

\* Room for one more block: blocks that ended go when the table is full, and
\* the one ending soonest if it still is.
BlocksWithRoom(b, t) ==
    LET live == [k \in Key |-> IF b[k] > t THEN b[k] ELSE 0]
        soonest == {k \in Held(live) : \A j \in Held(live) : live[k] <= live[j]}
    IN IF Cardinality(Held(b)) < MaxBlocks THEN {b}
       ELSE IF Cardinality(Held(live)) < MaxBlocks THEN {live}
       ELSE {[live EXCEPT ![k] = 0] : k \in soonest}

-----------------------------------------------------------------------------
(* The state the process starts in: nothing counted, nothing blocked. *)

Init ==
    /\ now = 0
    /\ numbers \in Numbers
    /\ events = [k \in Key |-> <<>>]
    /\ blocks = [k \in Key |-> 0]
    /\ blockCount = 0
    /\ switched = [p \in Policies |-> TRUE]
    /\ served = switched
    /\ forgetting = {}
    /\ req = [r \in Requests |-> Idle]
    /\ log = [k \in Key |-> <<>>]

Tick ==
    /\ now < MaxTime
    /\ now' = now + 1
    /\ UNCHANGED <<numbers, events, blocks, blockCount, switched, served,
                   forgetting, req, log>>

-----------------------------------------------------------------------------
(* Requests. *)

\* Whether a block on k is in force for a refusal stamped t.
BlockedAt(k, t) == blocks[k] > t

\* Watch::of on a client with no block: smart_protect::blocked answers None.
\* The atomic is read first, and a count of zero is taken as no block at all;
\* otherwise an entry that has ended is removed on the way.
BeginUnblocked(r, k) ==
    /\ req[r] = Idle
    /\ served[k[1]]
    /\ blockCount = 0 \/ ~BlockedAt(k, now)
    /\ req' = [req EXCEPT ![r] = [step |-> "inspecting", key |-> k]]
    /\ IF blockCount # 0 /\ blocks[k] # 0
       THEN /\ blocks' = [blocks EXCEPT ![k] = 0]
            /\ blockCount' = Cardinality(Held(blocks'))
       ELSE UNCHANGED <<blocks, blockCount>>
    /\ UNCHANGED <<now, numbers, events, switched, served, forgetting, log>>

\* The rules let the request through, or what refused it is not an offence.
Pass(r) ==
    /\ req[r].step = "inspecting"
    /\ req' = [req EXCEPT ![r] = Idle]
    /\ UNCHANGED <<now, numbers, events, blocks, blockCount, switched, served,
                   forgetting, log>>

\* offence(): the clock and the numbers are read before the lock is asked for.
Refuse(r) ==
    /\ req[r].step = "inspecting"
    /\ req' = [req EXCEPT ![r] = [step |-> "refused", key |-> req[r].key,
                                  stamp |-> now, numbers |-> numbers]]
    /\ UNCHANGED <<now, numbers, events, blocks, blockCount, switched, served,
                   forgetting, log>>

\* offence_at under the lock, on a client another request got blocked: it is
\* not counted.
OffenceWhileBlocked(r) ==
    /\ req[r].step = "refused"
    /\ BlockedAt(req[r].key, req[r].stamp)
    /\ req' = [req EXCEPT ![r] = Idle]
    /\ UNCHANGED <<now, numbers, events, blocks, blockCount, switched, served,
                   forgetting, log>>

\* Who is dropped to make room starts over.
StillCounted(ev) == [k \in Key |-> IF ev[k] = <<>> THEN <<>> ELSE log[k]]

\* offence_at counting a refusal that does not complete the count.
OffenceCounted(r) ==
    /\ req[r].step = "refused"
    /\ LET k == req[r].key
           t == req[r].stamp
           n == req[r].numbers
       IN /\ ~BlockedAt(k, t)
          /\ Len(log[k]) < MaxLog
          /\ \E ev \in RoomFor(events, k, t, n.window) :
               \E times \in Record(ev[k], t, n.window, n.refusals) :
                 /\ Len(times) < n.refusals
                 /\ events' = [ev EXCEPT ![k] = times]
                 /\ log' = [StillCounted(ev) EXCEPT ![k] =
                              Append(@, [stamp |-> t, at |-> now, numbers |-> n])]
    /\ req' = [req EXCEPT ![r] = Idle]
    /\ UNCHANGED <<now, numbers, blocks, blockCount, switched, served, forgetting>>

\* offence_at on the refusal that completes the count: the count is forgotten
\* and the block inserted, for the length the numbers read earlier give.
OffenceBlocks(r) ==
    /\ req[r].step = "refused"
    /\ LET k == req[r].key
           t == req[r].stamp
           n == req[r].numbers
       IN /\ ~BlockedAt(k, t)
          /\ \E ev \in RoomFor(events, k, t, n.window) :
               \E times \in Record(ev[k], t, n.window, n.refusals) :
                 /\ Len(times) >= n.refusals
                 /\ events' = [ev EXCEPT ![k] = <<>>]
                 /\ log' = [StillCounted(ev) EXCEPT ![k] = <<>>]
          /\ \E b \in BlocksWithRoom(blocks, t) :
               blocks' = [b EXCEPT ![k] = t + n.block]
          /\ blockCount' = Cardinality(Held(blocks'))
    /\ req' = [req EXCEPT ![r] = Idle]
    /\ UNCHANGED <<now, numbers, switched, served, forgetting>>

-----------------------------------------------------------------------------
(* The administrator, and the site table. *)

\* set_numbers, which stores the three atomics one after the other: a request
\* may read one of them new and the others old.
StoreNumber ==
    /\ \/ \E v \in Refusals : numbers' = [numbers EXCEPT !.refusals = v]
       \/ \E v \in Windows : numbers' = [numbers EXCEPT !.window = v]
       \/ \E v \in Lengths : numbers' = [numbers EXCEPT !.block = v]
    /\ UNCHANGED <<now, events, blocks, blockCount, switched, served,
                   forgetting, req, log>>

\* smart_protect::list, which the Smart Protect page calls.
ListBlocks ==
    /\ blocks' = [k \in Key |-> IF blocks[k] > now THEN blocks[k] ELSE 0]
    /\ blockCount' = Cardinality(Held(blocks'))
    /\ UNCHANGED <<now, numbers, events, switched, served, forgetting, req, log>>

\* smart_protect::unblock.  The block may have ended, or never been.
Unblock(k) ==
    /\ blocks' = [blocks EXCEPT ![k] = 0]
    /\ events' = [events EXCEPT ![k] = <<>>]
    /\ blockCount' = Cardinality(Held(blocks'))
    /\ log' = [log EXCEPT ![k] = <<>>]
    /\ UNCHANGED <<now, numbers, switched, served, forgetting, req>>

\* The policy's WAF tab saved with Smart Protect on, or off (or the policy
\* Off): the row is written, and forget_policy is called after that.
SwitchOn(p) ==
    /\ switched' = [switched EXCEPT ![p] = TRUE]
    /\ UNCHANGED <<now, numbers, events, blocks, blockCount, served,
                   forgetting, req, log>>

SwitchOff(p) ==
    /\ switched' = [switched EXCEPT ![p] = FALSE]
    /\ forgetting' = forgetting \cup {p}
    /\ UNCHANGED <<now, numbers, events, blocks, blockCount, served, req, log>>

\* smart_protect::forget_policy.
ForgetPolicy(p) ==
    /\ p \in forgetting
    /\ forgetting' = forgetting \ {p}
    /\ blocks' = [k \in Key |-> IF k[1] = p THEN 0 ELSE blocks[k]]
    /\ events' = [k \in Key |-> IF k[1] = p THEN <<>> ELSE events[k]]
    /\ blockCount' = Cardinality(Held(blocks'))
    /\ log' = [k \in Key |-> IF k[1] = p THEN <<>> ELSE log[k]]
    /\ UNCHANGED <<now, numbers, switched, served, req>>

\* The proxy notices that the configuration moved and reads the sites again.
ReloadSites ==
    /\ served # switched
    /\ served' = switched
    /\ UNCHANGED <<now, numbers, events, blocks, blockCount, switched,
                   forgetting, req, log>>

-----------------------------------------------------------------------------

RequestStep(r) ==
    \/ \E k \in Key : BeginUnblocked(r, k)
    \/ Pass(r)
    \/ Refuse(r)
    \/ OffenceWhileBlocked(r)
    \/ OffenceCounted(r)
    \/ OffenceBlocks(r)

AdminStep ==
    \/ StoreNumber
    \/ ListBlocks
    \/ \E k \in Key : Unblock(k)
    \/ \E p \in Policies : SwitchOn(p) \/ SwitchOff(p) \/ ForgetPolicy(p)

Next ==
    \/ Tick
    \/ \E r \in Requests : RequestStep(r)
    \/ AdminStep
    \/ ReloadSites

Spec == Init /\ [][Next]_vars

-----------------------------------------------------------------------------
(* What it promises. *)

Live(k) == blocks[k] > now

\* The count the request path reads without the lock is the number of blocks
\* held whenever the lock is free.  A count of zero while a block is held
\* would switch that block off without a trace (blocked() returns at once).
CountMatches == blockCount = Cardinality(Held(blocks))

\* Neither table outgrows its cap, however many clients are refused and in
\* whatever order (MAX_COUNTED and MAX_BLOCKS).
WithinCaps ==
    /\ Cardinality(Held(blocks)) <= MaxBlocks
    /\ Cardinality(Tracked(events)) <= MaxCounted

\* While a block is in force nothing is counted towards the next one, not
\* even a refusal of a request that started, or read the clock, before it:
\* the count starts again from nothing after the block (offence_at).
QuietWhileBlocked == \A k \in Key : Live(k) => events[k] = <<>>

\* A block in force ends when it said it would: no later refusal moves its
\* end.  It goes early only when an administrator lifts it or switches the
\* policy off, or, with the table full, as the block that ends soonest.
BlockIsFixed ==
    [][\A k \in Key :
         Live(k) /\ blocks'[k] # blocks[k] =>
            /\ blocks'[k] = 0
            /\ \/ Unblock(k)
               \/ ForgetPolicy(k[1])
               \/ /\ Cardinality(Held(blocks)) >= MaxBlocks
                  /\ \A j \in Key : Live(j) => blocks[k] <= blocks[j]]_vars

\* A block is made only by the refusal that completes the count: the
\* refusals - 1 counted last against the same key since it last started over
\* (a block, an unblock, a switched-off policy) and this one all reached the
\* counter less than a window before this one's clock reading.
BlockIsEarned ==
    [][\A k \in Key :
         blocks'[k] > blocks[k] =>
            \E r \in Requests :
               /\ req[r].step = "refused"
               /\ req[r].key = k
               /\ LET n == req[r].numbers
                      earlier == Len(log[k]) - (n.refusals - 1)
                  IN /\ earlier >= 0
                     /\ \A i \in earlier + 1 .. Len(log[k]) :
                          req[r].stamp - log[k][i].at < n.window]_vars

\* No client is left unblocked with the full count of refusals inside one
\* window, unless it was dropped to make room or an administrator changed the
\* numbers in between: the refusals counted since it last started over, all
\* of them under the numbers in force, are fewer than it takes.
NoneOverTheCount ==
    \A k \in Key :
       (\A i \in DOMAIN log[k] : log[k][i].numbers = numbers) =>
          Cardinality({i \in DOMAIN log[k] : now - log[k][i].stamp < numbers.window})
             < numbers.refusals

\* forget_policy is for "when Smart Protect is switched off on it or the
\* policy is deleted, so blocks do not outlive the decision": a policy saved
\* as off, once it has been forgotten, holds no block until it is on again.
NoBlockOutlivesSwitchOff ==
    \A k \in Key : ~switched[k[1]] /\ k[1] \notin forgetting => blocks[k] = 0

=============================================================================
