------------------------------ MODULE RateLimit ------------------------------
(* The count behind a site's limit: an estimate over a sliding window made     *)
(* from two fixed ones, kept per client in one shard of the table.  Operators  *)
(* only; Edge reads the clock and takes the shard's lock, in two steps.        *)
(*                                                                             *)
(* Time is in ticks, several to a second, so that rounding a wait up to whole  *)
(* seconds shows.  A shard holds MaxPerShard clients.                          *)
EXTENDS Integers, FiniteSetsExt, Functions

CONSTANTS
    Second,       \* ticks to a second
    MaxPerShard   \* clients a shard counts

ASSUME RateLimitAssumption ==
    Second \in Nat \ {0} /\ MaxPerShard \in Nat \ {0}

\* Tally::default: no window is 0, so the first request starts it afresh.
Fresh == [window |-> 0, slot |-> 0, current |-> 0, previous |-> 0, last |-> 0]

\* Wrong on purpose: a window nothing was sent in is not noticed to have passed.
advance_KeepsOld(t, now, window) ==
    LET slot == now \div window
    IN CASE t.window # window -> [Fresh EXCEPT !.window = window, !.slot = slot]
         [] t.window = window /\ slot > t.slot ->
                [t EXCEPT !.previous = t.current, !.current = 0, !.slot = slot]
         [] OTHER -> t

\* Tally::advance.  A reading of the clock older than the tally's slot, one
\* taken before another request's and counted after it, moves nothing.
advance(t, now, window) ==
    LET slot == now \div window
    IN CASE t.window # window -> [Fresh EXCEPT !.window = window, !.slot = slot]
         [] t.window = window /\ slot = t.slot + 1 ->
                [t EXCEPT !.previous = t.current, !.current = 0, !.slot = slot]
         [] t.window = window /\ slot > t.slot + 1 ->
                [t EXCEPT !.previous = 0, !.current = 0, !.slot = slot]
         [] OTHER -> t

\* Tally::scaled: the estimate, times the window.
scaled(t, now) == t.previous * (t.window - (now % t.window)) + t.current * t.window

\* Tally::record, on the tally as it is left and the count it returns.
record(t, now, window) ==
    LET moved == advance(t, now, window)
    IN [moved EXCEPT !.current = @ + 1, !.last = now]

CountOf(t, now) == [scaled |-> scaled(t, now), window |-> t.window, tally |-> t, at |-> now]

\* wait_ms: the ticks until one more request fits, if nothing else is sent.
wait_ms(t, now, limit) ==
    LET w == t.window
        into == now % w
        room == Max({limit - 1, 0})
        Fits(count, rest) ==
            {r \in Max({0, w - ((room - rest) * w) \div count}) .. w - 1 :
                count * (w - r) <= (room - rest) * w}
        first_fit(count, rest) ==
            CASE rest > room -> -1
              [] rest <= room /\ count = 0 -> 0
              [] OTHER -> IF Fits(count, rest) = {} THEN -1 ELSE Min(Fits(count, rest))
        here == first_fit(t.previous, t.current)
        next == first_fit(t.current, 0)
    IN IF here >= 0 THEN Max({here - into, 0})
       ELSE (w - into) + IF next >= 0 THEN next ELSE w

\* Count::retry_after, in seconds rounded up.
retry_after(count, limit) ==
    Max({(wait_ms(count.tally, count.at, limit) + Second - 1) \div Second, 1})

\* make_room: what two windows have passed since goes, and if that is not
\* enough the half that was heard of longest ago.
make_room(tallies, now) ==
    LET live == {u \in DOMAIN tallies : now - tallies[u].last < 2 * tallies[u].window}
        seen == {tallies[u].last : u \in live}
        Older(x) == Cardinality({u \in live : tallies[u].last < x})
        Upto(x) == Cardinality({u \in live : tallies[u].last <= x})
        half == Cardinality(live) \div 2
        cutoff == CHOOSE x \in seen : Older(x) <= half /\ half < Upto(x)
    IN Restrict(tallies,
         IF Cardinality(live) < MaxPerShard THEN live
         ELSE {u \in live : tallies[u].last > cutoff})

\* count_at, under the lock of the shard.
count_at(tallies, unit, now, window) ==
    LET kept == IF unit \notin DOMAIN tallies /\ Cardinality(DOMAIN tallies) >= MaxPerShard
                THEN make_room(tallies, now) ELSE tallies
        old == IF unit \in DOMAIN kept THEN kept[unit] ELSE Fresh
    IN [u \in DOMAIN kept \cup {unit} |->
           IF u = unit THEN record(old, now, window) ELSE kept[u]]
=============================================================================
