------------------------------ MODULE Upstream ------------------------------
(***************************************************************************)
(* A site with several backends: which one a request is sent to, what is   *)
(* remembered of the ones that fail (upstream.rs), and when a request may  *)
(* be sent to another (forward, send_upstream and stream_back in           *)
(* proxy/mod.rs).                                                          *)
(*                                                                         *)
(* Requests are answered at once and share the rotation and the health;    *)
(* between sending and hearing back anything may happen.  The backends are *)
(* the environment: one that is "ok" answers, one that is "down" accepts   *)
(* no connection, one that is "sick" answers 5xx or breaks off, having     *)
(* carried the request out or not.                                         *)
(***************************************************************************)
EXTENDS Integers, Sequences, FiniteSets, Functions, FiniteSetsExt

CONSTANTS
    Slots,               \* requests being answered at once
    Pool,                \* the site's backends, in the order of its rows
    Weight,              \* their shares of the rotation
    Turns,               \* where the rotation's counter wraps (2^64 in the code)
    FailuresBeforeOut,   \* FAILURES_BEFORE_OUT
    ConsecutiveMax,      \* where the count of failures saturates (2^32 - 1)
    OutFor,              \* OUT_FOR, in ticks
    Attempts,            \* ATTEMPTS
    Affinity,            \* the site's session affinity
    Methods,             \* of "repeatable", "once" and "upgrade"
    Bodies,              \* of TRUE (held whole) and FALSE (still arriving)
    Conditions,          \* of "ok", "down" and "sick"
    MaxChanges           \* bound on the changes of a backend's condition

Backends == Range(Pool)

ASSUME PoolAssumption ==
    /\ Pool \in Seq(Backends) /\ Pool # <<>> /\ IsInjective(Pool)
    /\ Weight \in [Backends -> Nat \ {0}]

ASSUME BoundsAssumption ==
    /\ FailuresBeforeOut \in Nat \ {0} /\ ConsecutiveMax \in Nat
    /\ FailuresBeforeOut <= ConsecutiveMax
    /\ Turns \in Nat \ {0} /\ OutFor \in Nat \ {0} /\ Attempts \in Nat \ {0}
    /\ Affinity \in BOOLEAN /\ Bodies \subseteq BOOLEAN /\ MaxChanges \in Nat
    /\ Methods \subseteq {"repeatable", "once", "upgrade"}
    /\ Conditions \subseteq {"ok", "down", "sick"} /\ "ok" \in Conditions

VARIABLES
    consecutive, \* HEALTH: failures since the last success
    left,        \* HEALTH: how long a backend is still out, 0 when it is in
    turn,        \* TURN: where the site's rotation has got to
    request,     \* the requests being answered
    condition,   \* the backends themselves
    changes,     \* how often one of them has changed
    witness      \* what the properties remember: see Witness

upstreamVars == <<consecutive, left, turn, request, condition, changes, witness>>

NoBackend == "none"
Free == [step |-> "idle"]

Pins == IF Affinity THEN Backends \cup {NoBackend} ELSE {NoBackend}

\* A request: its method, whether its body is held whole, the backend its
\* cookie names, the one it is sent to, the ones that failed it, whether every
\* backend was out when the first was chosen, and what came of it.
RequestRecord ==
    [step : {"sent", "back", "again", "told"}, method : Methods, whole : Bodies,
     pin : Pins, at : Backends, tried : SUBSET Backends, allOut : BOOLEAN,
     outcome : {"none", "answer", "5xx", "connect", "lost", "client",
                "unreachable", "all down", "upgrade failed"},
     cookie : Pins]

\* Per request: the backends that have carried it out, and how often; the ones
\* a connection was made to; the ones that were well all along; whether its
\* pin was in rotation when it came; and whether it is a try at a backend
\* whose time out is up.  Per backend: whether anything was ever wrong with it,
\* and how many turns of this round of the rotation it got.
Witness ==
    [carried : [Slots -> [Backends -> Nat]], reached : [Slots -> SUBSET Backends],
     well : [Slots -> SUBSET Backends], pinIn : [Slots -> BOOLEAN],
     halfOpen : [Slots -> BOOLEAN],
     faulty : SUBSET Backends, given : [Backends -> Nat]]

\* Every variable holds a value of its shape, and a backend is out only when
\* it has failed often enough.
UpstreamTypeOK ==
    /\ consecutive \in [Backends -> 0 .. ConsecutiveMax]
    /\ left \in [Backends -> 0 .. OutFor]
    /\ \A b \in Backends : left[b] > 0 => consecutive[b] >= FailuresBeforeOut
    /\ turn \in 0 .. Turns - 1
    /\ request \in [Slots -> {Free} \cup RequestRecord]
    /\ condition \in [Backends -> Conditions]
    /\ changes \in 0 .. MaxChanges
    /\ witness \in Witness

UpstreamInit ==
    /\ consecutive = [b \in Backends |-> 0]
    /\ left = [b \in Backends |-> 0]
    /\ turn = 0
    /\ request = [r \in Slots |-> Free]
    /\ condition \in [Backends -> Conditions]
    /\ changes = 0
    /\ witness = [carried |-> [r \in Slots |-> [b \in Backends |-> 0]],
                  reached |-> [r \in Slots |-> {}],
                  well |-> [r \in Slots |-> {}],
                  pinIn |-> [r \in Slots |-> FALSE],
                  halfOpen |-> [r \in Slots |-> FALSE],
                  faulty |-> {b \in Backends : condition[b] # "ok"},
                  given |-> [b \in Backends |-> 0]]

-----------------------------------------------------------------------------
(* Health.                                                                   *)

\* As if only a success let a backend in again.
TakingRequests_Closed(b) == consecutive[b] < FailuresBeforeOut

TakingRequests(b) == left[b] = 0

Least(a, b) == IF a <= b THEN a ELSE b

\* A request failed in a way that is the backend's fault.
Failed(b) ==
    LET count == Least(consecutive[b] + 1, ConsecutiveMax)
    IN  /\ consecutive' = [consecutive EXCEPT ![b] = count]
        /\ left' = [left EXCEPT ![b] = IF count >= FailuresBeforeOut THEN OutFor ELSE @]

\* Anything remembered against it goes.
Succeeded(b) ==
    /\ consecutive' = [consecutive EXCEPT ![b] = 0]
    /\ left' = [left EXCEPT ![b] = 0]

TimePasses ==
    /\ \E b \in Backends : left[b] > 0
    /\ left' = [b \in Backends |-> IF left[b] > 0 THEN left[b] - 1 ELSE 0]
    /\ UNCHANGED <<consecutive, turn, request, condition, changes, witness>>

-----------------------------------------------------------------------------
(* The rotation.                                                             *)

Row(b) == CHOOSE i \in DOMAIN Pool : Pool[i] = b

Shares(pool) == MapThenSumSet(LAMBDA b : Weight[b], pool)

\* The slice of the rotation that is b's: the pool is gone through in the order of
\* its rows.
Slice(pool, b) ==
    LET before == Shares({x \in pool : Row(x) < Row(b)})
    IN  before .. before + Weight[b] - 1

\* Round robin over `pool`: a pool of one takes no turn, and otherwise it is the
\* backend whose slice the turn falls in.
PickFrom(pool, b) ==
    /\ b \in pool
    /\ IF pool = {b}
       THEN UNCHANGED turn
       ELSE /\ turn % Shares(pool) \in Slice(pool, b)
            /\ turn' = (turn + 1) % Turns

\* What is left of the pool, and what of that is in rotation.
Untried(tried) == Backends \ tried
InRotation(pool) == {b \in pool : TakingRequests(b)}
AllOut(pool) == InRotation(pool) = {}

\* b is chosen among the untried ones: one in rotation, or any when all are out.
ChooseExcept(tried, b) ==
    LET pool == Untried(tried)
    IN  PickFrom(IF AllOut(pool) THEN pool ELSE InRotation(pool), b)

\* The turns of a round, counted anew when the next one begins, while no
\* backend ever failed.
Given(b) ==
    LET given == IF turn % Shares(Backends) = 0
                 THEN [x \in Backends |-> IF x = b THEN 1 ELSE 0]
                 ELSE [witness.given EXCEPT ![b] = @ + 1]
    IN  IF turn' = turn \/ witness.faulty # {} THEN witness.given ELSE given

-----------------------------------------------------------------------------
(* A request.                                                                *)

\* As if one failure lost a backend its pinned visitors.
Followed_WhileFaultless(pin) == pin \in Backends /\ consecutive[pin] = 0

\* A pin is followed while the backend it names takes requests.
Followed(pin) == pin \in Backends /\ TakingRequests(pin)

\* forward: a backend is chosen, the pinned one while it takes requests, and
\* the request is sent to it.
Forward(r, method, whole, pin, b) ==
    LET pinned == Followed(pin)
    IN  /\ request[r].step \in {"idle", "told"}
        /\ method = "upgrade" => whole
        /\ IF pinned THEN b = pin /\ UNCHANGED turn
                     ELSE ChooseExcept({}, b)
        /\ request' = [request EXCEPT ![r] =
               [step |-> "sent", method |-> method, whole |-> whole, pin |-> pin, at |-> b,
                tried |-> {}, allOut |-> ~pinned /\ AllOut(Backends),
                outcome |-> "none", cookie |-> NoBackend]]
        /\ witness' = [witness EXCEPT
               !.carried[r] = [x \in Backends |-> 0],
               !.reached[r] = {},
               !.well[r] = {x \in Backends : condition[x] = "ok"},
               !.pinIn[r] = pin \in Backends /\ left[pin] = 0,
               !.halfOpen[r] = consecutive[b] >= FailuresBeforeOut /\ TakingRequests(b),
               !.given = Given(b)]
        /\ UNCHANGED <<consecutive, left, condition, changes>>

\* What a backend in this condition makes of a request, and how often it
\* carries it out.
Reactions(c) ==
    CASE c = "ok" -> {<<"answer", 1>>}
      [] c = "down" -> {<<"connect", 0>>}
      [] c = "sick" -> {<<"5xx", 0>>, <<"5xx", 1>>, <<"lost", 0>>, <<"lost", 1>>}

\* The backend answers, or the connection fails.
Answer(r) ==
    LET b == request[r].at IN
    /\ request[r].step = "sent"
    /\ \E reaction \in Reactions(condition[b]) :
           /\ request' = [request EXCEPT ![r].step = "back", ![r].outcome = reaction[1]]
           /\ witness' = [witness EXCEPT
                  !.carried[r][b] = @ + reaction[2],
                  !.reached[r] = @ \cup IF reaction[1] = "connect" THEN {} ELSE {b}]
    /\ UNCHANGED <<consecutive, left, turn, condition, changes>>

\* The client stops sending its body, or goes altogether: the request is
\* dropped where it waits.
ClientStops(r) ==
    /\ request[r].step = "sent" /\ ~request[r].whole
    /\ condition[request[r].at] # "down"
    /\ request' = [request EXCEPT ![r].step = "back", ![r].outcome = "client"]
    /\ witness' = [witness EXCEPT !.reached[r] = @ \cup {request[r].at}]
    /\ UNCHANGED <<consecutive, left, turn, condition, changes>>

ClientLeaves(r) ==
    /\ request[r].step = "sent"
    /\ request' = [request EXCEPT ![r] = Free]
    /\ witness' = [witness EXCEPT !.carried[r] = [b \in Backends |-> 0], !.reached[r] = {},
                                  !.well[r] = {}, !.pinIn[r] = FALSE, !.halfOpen[r] = FALSE]
    /\ UNCHANGED <<consecutive, left, turn, condition, changes>>

Tell(r, answer) == request' = [request EXCEPT ![r].step = "told", ![r].outcome = answer]

\* stream_back: a 5xx counts against the backend, anything else for it, and
\* the client is pinned to the one that served it.
StreamBack(r) ==
    LET b == request[r].at IN
    /\ request[r].step = "back" /\ request[r].method # "upgrade"
    /\ request[r].outcome \in {"answer", "5xx"}
    /\ IF request[r].outcome = "5xx" THEN Failed(b) ELSE Succeeded(b)
    /\ request' = [request EXCEPT ![r].step = "told",
                       ![r].cookie = IF Affinity /\ request[r].pin # b THEN b ELSE NoBackend]
    /\ UNCHANGED <<turn, condition, changes, witness>>

\* As if it were the backend's fault.
ClientGaveUp_Counted(r) ==
    /\ request[r].step = "back" /\ request[r].outcome = "client"
    /\ Tell(r, "client")
    /\ Failed(request[r].at)
    /\ UNCHANGED <<turn, condition, changes, witness>>

\* The client's fault: told so, and not counted.
ClientGaveUp(r) ==
    /\ request[r].step = "back" /\ request[r].outcome = "client"
    /\ Tell(r, "client")
    /\ UNCHANGED <<consecutive, left, turn, condition, changes, witness>>

\* forward_upgrade: one backend, whatever comes of it, and nothing remembered.
Upgraded(r) ==
    /\ request[r].step = "back" /\ request[r].method = "upgrade"
    /\ Tell(r, IF request[r].outcome \in {"answer", "5xx"} THEN request[r].outcome
               ELSE "upgrade failed")
    /\ UNCHANGED <<consecutive, left, turn, condition, changes, witness>>

\* As if a request that got no answer had not arrived.
MaySendAgain_Anything(q) == q.outcome \in {"connect", "lost"}

MaySendAgain(q) == q.outcome = "connect" \/ q.method = "repeatable"

\* As if the attempts were one fewer.
Again_OneShort(q, tried) == q.whole /\ MaySendAgain(q) /\ Cardinality(tried) + 1 < Attempts

\* Whether a request that failed may be sent to another backend: its body is
\* whole, it cannot be carried out twice, and there are attempts left.
Again(q, tried) == q.whole /\ MaySendAgain(q) /\ Cardinality(tried) < Attempts

GiveUp(q) == IF q.allOut \/ Cardinality(q.tried) > 1 THEN "all down" ELSE "unreachable"

\* The backend failed the request: it is counted, and the request is at its
\* end or goes on to another.
Unreachable(r) ==
    LET q == request[r]
        after == [q EXCEPT !.tried = @ \cup {q.at}]
    IN  /\ q.step = "back" /\ q.method # "upgrade" /\ q.outcome \in {"connect", "lost"}
        /\ Failed(q.at)
        /\ request' = [request EXCEPT ![r] =
               IF Again(q, after.tried) THEN [after EXCEPT !.step = "again"]
               ELSE [after EXCEPT !.step = "told", !.outcome = GiveUp(after)]]
        /\ UNCHANGED <<turn, condition, changes, witness>>

\* Another backend is chosen and asked, or there is none.
SendAgain(r, b) ==
    LET q == request[r] IN
    /\ q.step = "again"
    /\ ChooseExcept(q.tried, b)
    /\ request' = [request EXCEPT ![r].step = "sent", ![r].at = b, ![r].outcome = "none"]
    /\ witness' = [witness EXCEPT !.given = Given(b),
           !.halfOpen[r] = consecutive[b] >= FailuresBeforeOut /\ TakingRequests(b)]
    /\ UNCHANGED <<consecutive, left, condition, changes>>

NoneLeft(r) ==
    /\ request[r].step = "again" /\ Untried(request[r].tried) = {}
    /\ Tell(r, GiveUp(request[r]))
    /\ UNCHANGED <<consecutive, left, turn, condition, changes, witness>>

-----------------------------------------------------------------------------
\* A backend breaks, or comes back.
Change(b, c) ==
    /\ changes < MaxChanges
    /\ c # condition[b]
    /\ changes' = changes + 1
    /\ condition' = [condition EXCEPT ![b] = c]
    /\ witness' = [witness EXCEPT
           !.well = [r \in Slots |-> IF c = "ok" THEN @[r] ELSE @[r] \ {b}],
           !.faulty = IF c = "ok" THEN @ ELSE @ \cup {b}]
    /\ UNCHANGED <<consecutive, left, turn, request>>

Handle(r) ==
    \/ StreamBack(r)
    \/ ClientGaveUp(r)
    \/ Upgraded(r)
    \/ Unreachable(r)
    \/ \E b \in Backends : SendAgain(r, b)
    \/ NoneLeft(r)

UpstreamNext ==
    \/ TimePasses
    \/ \E b \in Backends, c \in Conditions : Change(b, c)
    \/ \E r \in Slots :
           \/ \E method \in Methods, whole \in Bodies, pin \in Pins, b \in Backends :
                  Forward(r, method, whole, pin, b)
           \/ Answer(r)
           \/ ClientStops(r)
           \/ ClientLeaves(r)
           \/ Handle(r)

UpstreamSpec == UpstreamInit /\ [][UpstreamNext]_upstreamVars

\* Time passes.  Nothing else is promised: a backend may sit on a request for
\* ever, and no visitor need ever come.
FairSpec == UpstreamSpec /\ WF_upstreamVars(TimePasses)

-----------------------------------------------------------------------------
(* Properties.                                                               *)

Ended(r) == request[r].step = "told"

CarriedBy(r) == {b \in Backends : witness.carried[r][b] > 0}

\* A request that HTTP does not let be repeated, or that cannot be, is never
\* carried out twice, and no backend is asked the same thing again
\* (may_send_again, send_upstream).
NeverTwice ==
    \A r \in Slots :
        /\ \A b \in Backends : witness.carried[r][b] <= 1
        /\ request[r] # Free /\ (request[r].method # "repeatable" \/ ~request[r].whole) =>
               \A b, c \in CarriedBy(r) : b = c

\* A request that may be repeated, or that never reached a backend, is not
\* turned away while a backend of a pool no larger than ATTEMPTS was well from
\* its first moment to its last ("one backend failing costs nothing").
ServedByTheWell ==
    \A r \in Slots :
        /\ Ended(r) /\ request[r].outcome \in {"unreachable", "all down"}
        /\ request[r].whole
        /\ request[r].method = "repeatable" \/ witness.reached[r] = {}
        /\ Cardinality(Backends) <= Attempts
        => witness.well[r] = {}

\* A backend that has always answered is never counted against, whatever
\* visitors do to their own uploads (send_upstream, client_gave_up).
NeverBlamedForAnother ==
    \A b \in Backends \ witness.faulty : consecutive[b] = 0 /\ left[b] = 0

\* A visitor pinned to a backend in rotation that stays well is answered by it
\* and keeps its cookie; any other is pinned to the backend that answered.
KeepsItsBackend ==
    \A r \in Slots :
        Ended(r) /\ Affinity /\ request[r].outcome \in {"answer", "5xx"}
            /\ request[r].method # "upgrade" =>
            /\ (witness.pinIn[r] /\ request[r].pin \in witness.well[r]) =>
                   request[r].at = request[r].pin
            /\ request[r].cookie =
                   IF request[r].at = request[r].pin THEN NoBackend ELSE request[r].at

\* While nothing fails and nobody is pinned, every round of the rotation gives
\* each backend its share, however many requests arrive together (pick_from).
EvenRounds ==
    turn % Shares(Backends) = 0 /\ witness.faulty = {} /\ turn # 0 =>
        \A b \in Backends : witness.given[b] = Weight[b]

\* A backend that stays well is back in the rotation in the end, whatever
\* failures of before are still to be heard of (taking_requests, failed).
ComesBack ==
    \A b \in Backends : <>[](condition[b] = "ok") => <>[]TakingRequests(b)

\* What src/docs/sites.md says: a backend whose time out is up is asked by one
\* request, to find out whether it is back.
OneLetThrough ==
    \A b \in Backends :
        Cardinality({r \in Slots : /\ request[r].step = "sent" /\ request[r].at = b
                                   /\ witness.halfOpen[r]}) <= 1

\* What src/docs/sites.md says: "all upstreams for this site are down" is said
\* when none of them answers.
AllDownMeansAll ==
    \A r \in Slots : Ended(r) /\ request[r].outcome = "all down" => witness.well[r] = {}
=============================================================================
