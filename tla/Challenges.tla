----------------------------- MODULE Challenges -----------------------------
(***************************************************************************)
(* The CAPTCHA challenges that wait for an answer and the clearances that  *)
(* answering one earns (challenge.rs, handle_verify in proxy/mod.rs).      *)
(*                                                                         *)
(* The store is under one lock, but issuing takes it twice: once to make   *)
(* room, and again, after the image is drawn, to put the challenge in.     *)
(* Several workers do so at once.  An image and its answer are abstracted  *)
(* to whether an answer is right, a clearance to its client and the time   *)
(* it has left, and the place a visitor was going is left out.             *)
(***************************************************************************)
EXTENDS Integers, FiniteSets, FiniteSetsExt

CONSTANTS
    Workers,             \* threads that answer requests
    Clients,             \* addresses
    MaxPending,          \* MAX_PENDING
    MaxPendingPerClient, \* MAX_PENDING_PER_CLIENT
    ChallengeTtl,        \* CHALLENGE_TTL, in ticks
    ClearanceTtl,        \* CLEARANCE_TTL_SECS, in ticks
    MaxIssued            \* bound on the challenges issued

ASSUME ChallengesAssumption ==
    /\ MaxPending \in Nat \ {0} /\ MaxPendingPerClient \in Nat \ {0}
    /\ ChallengeTtl \in Nat \ {0} /\ ClearanceTtl \in Nat /\ MaxIssued \in Nat
    /\ IsFiniteSet(Workers)

VARIABLES
    pending,   \* the store: the challenges that wait, by their number
    issued,    \* how many were issued, which numbers them
    worker,    \* what each worker does next
    clearance, \* the time left of the best clearance each client was given
    let,       \* whom a clearance has let through since time last passed
    judged,    \* how often an answer to each challenge was judged
    since      \* how long ago each client last gave a right answer

challengeVars == <<pending, issued, worker, clearance, let, judged, since>>

ChallengeIds == 1 .. MaxIssued
NoClearance == -1    \* none was given, or it has run out
Never == ClearanceTtl + 1
NoOne == [step |-> "idle"]

Pending == [client : Clients, left : 0 .. ChallengeTtl]

\* Every variable holds a value of its shape.
ChallengesTypeOK ==
    /\ issued \in 0 .. MaxIssued
    /\ DOMAIN pending \subseteq 1 .. issued
    /\ \A id \in DOMAIN pending : pending[id] \in Pending
    /\ worker \in [Workers -> {NoOne} \cup [step : {"issue", "draw"}, client : Clients]]
    /\ clearance \in [Clients -> NoClearance .. ClearanceTtl]
    /\ let \in SUBSET Clients
    /\ judged \in [ChallengeIds -> Nat]
    /\ since \in [Clients -> 0 .. Never]

ChallengesInit ==
    /\ pending = [id \in {} |-> 0]
    /\ issued = 0
    /\ worker = [w \in Workers |-> NoOne]
    /\ clearance = [c \in Clients |-> NoClearance]
    /\ let = {}
    /\ judged = [id \in ChallengeIds |-> 0]
    /\ since = [c \in Clients |-> Never]

-----------------------------------------------------------------------------

Keep(ids) == [id \in ids |-> pending[id]]
Expired(id) == pending[id].left = 0
Own(client) == {id \in DOMAIN pending : pending[id].client = client}

\* The store with nothing in it that has run out, if it is full; it still may be.
Retained == IF Cardinality(DOMAIN pending) >= MaxPending
            THEN {id \in DOMAIN pending : ~Expired(id)}
            ELSE DOMAIN pending

\* As if the oldest of everybody's made room.
Evicted_Anybodys(client) ==
    IF Retained = {} THEN {{}} ELSE {{Min(Retained)}}

\* What an address loses when it asks for one more than it may hold: its
\* oldest, down to one fewer than allowed.
Evicted(client) ==
    LET own == Own(client) \cap Retained
        over == Cardinality(own) - MaxPendingPerClient + 1
    IN  {ids \in kSubset(IF over < 0 THEN 0 ELSE over, own) :
             \A id \in ids, kept \in own \ ids : pending[id].left <= pending[kept].left}

\* A visitor is to be challenged (pipeline step 10), or to sign in.
Challenge(w, client) ==
    /\ worker[w] = NoOne
    /\ issued < MaxIssued
    /\ worker' = [worker EXCEPT ![w] = [step |-> "issue", client |-> client]]
    /\ UNCHANGED <<pending, issued, clearance, let, judged, since>>

\* issue, before the image is drawn: refused when the store is full, and
\* otherwise room is made among the address's own.
MakeRoom(w) ==
    LET client == worker[w].client IN
    /\ worker[w].step = "issue"
    /\ IF Cardinality(Retained) >= MaxPending
       THEN /\ pending' = Keep(Retained)
            /\ worker' = [worker EXCEPT ![w] = NoOne]
       ELSE /\ \E gone \in Evicted(client) : pending' = Keep(Retained \ gone)
            /\ worker' = [worker EXCEPT ![w].step = "draw"]
    /\ UNCHANGED <<issued, clearance, let, judged, since>>

\* issue, after: the challenge is put in, whatever the store has become.
PutIn(w) ==
    /\ worker[w].step = "draw"
    /\ issued < MaxIssued
    /\ issued' = issued + 1
    /\ pending' = [id \in DOMAIN pending \cup {issued'} |->
                      IF id = issued' THEN [client |-> worker[w].client, left |-> ChallengeTtl]
                      ELSE pending[id]]
    /\ worker' = [worker EXCEPT ![w] = NoOne]
    /\ UNCHANGED <<clearance, let, judged, since>>

\* As if only a right answer used a challenge up.
UsedUp_WhenRight(id, right) == IF right THEN {id} ELSE {}

\* What an answer uses up, right or wrong.
UsedUp(id, right) == {id}

\* verify: only the client it was issued to can answer a challenge, in time.
\* What is not right is followed by another challenge.
Submit(w, client, id, right) ==
    LET own == id \in Own(client)
        counts == own /\ ~Expired(id)
    IN  /\ worker[w] = NoOne
        /\ pending' = IF own THEN Keep(DOMAIN pending \ UsedUp(id, right)) ELSE pending
        /\ judged' = IF counts THEN [judged EXCEPT ![id] = @ + 1] ELSE judged
        /\ IF counts /\ right
           THEN /\ clearance' = [clearance EXCEPT ![client] = ClearanceTtl]
                /\ since' = [since EXCEPT ![client] = 0]
                /\ UNCHANGED worker
           ELSE /\ issued < MaxIssued
                /\ worker' = [worker EXCEPT ![w] = [step |-> "issue", client |-> client]]
                /\ UNCHANGED <<clearance, since>>
        /\ UNCHANGED <<issued, let>>

\* As if a clearance were good for whoever sends it.
Cleared_Anybody(client, holder) == clearance[holder] # NoClearance

\* check_clearance of a cookie that was given to `holder`: the signature is over
\* the address, so it is good for nobody else.
Cleared(client, holder) == client = holder /\ clearance[holder] # NoClearance

\* A request with a clearance skips the challenge.
Skip(client, holder) ==
    /\ Cleared(client, holder)
    /\ let' = let \cup {client}
    /\ UNCHANGED <<pending, issued, worker, clearance, judged, since>>

Later(left) == IF left > 0 THEN left - 1 ELSE 0

Tick ==
    /\ pending' = [id \in DOMAIN pending |-> [pending[id] EXCEPT !.left = Later(@)]]
    /\ clearance' = [c \in Clients |->
                        IF clearance[c] = NoClearance THEN NoClearance ELSE clearance[c] - 1]
    /\ since' = [c \in Clients |-> IF since[c] < Never THEN since[c] + 1 ELSE Never]
    /\ let' = {}
    /\ UNCHANGED <<issued, worker, judged>>

ChallengesNext ==
    \/ \E w \in Workers :
           \/ \E client \in Clients : Challenge(w, client)
           \/ MakeRoom(w)
           \/ PutIn(w)
           \/ \E client \in Clients, id \in 1 .. issued, right \in BOOLEAN :
                  Submit(w, client, id, right)
    \/ \E client, holder \in Clients : Skip(client, holder)
    \/ Tick

ChallengesSpec == ChallengesInit /\ [][ChallengesNext]_challengeVars

-----------------------------------------------------------------------------
(* Properties.                                                               *)

\* "One image, one attempt": no challenge is judged twice, however many answers
\* arrive at once (verify).
JudgedOnce == \A id \in ChallengeIds : judged[id] <= 1

\* A clearance lets through only an address that gave a right answer, within the
\* time a clearance lasts (make_clearance, check_clearance).
ClearanceIsEarned == \A c \in let : since[c] <= ClearanceTtl

\* The store and each address hold no more than they may, but for what the other
\* workers are drawing: the overshoot never adds up (issue).
CapsWithinWorkers ==
    LET others == Cardinality(Workers) - 1
    IN  /\ Cardinality(DOMAIN pending) <= MaxPending + others
        /\ \A c \in Clients : Cardinality(Own(c)) <= MaxPendingPerClient + others

\* A challenge that can still be answered is never lost to what another address
\* does (issue, verify): it goes when its own client answers it or asks for
\* more than it may hold.
LostToNobodyElse ==
    [][\A id \in DOMAIN pending :
           id \notin DOMAIN pending' /\ ~Expired(id) =>
               \/ judged'[id] = judged[id] + 1
               \/ \E w \in Workers : /\ worker[w].step = "issue" /\ worker'[w] # worker[w]
                                     /\ worker[w].client = pending[id].client]_challengeVars

\* What issue says of itself: one address holds at most MAX_PENDING_PER_CLIENT.
FiftyAtATime == \A c \in Clients : Cardinality(Own(c)) <= MaxPendingPerClient
=============================================================================
