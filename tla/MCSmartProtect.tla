--------------------------- MODULE MCSmartProtect ---------------------------
(* Small instances of what the proxy remembers of others: of clients it refused,  *)
(* in SmartProtect, and of backends that failed it, in Upstream.  A behaviour is   *)
(* one of the two at work.                                                         *)
(*                                                                                 *)
(* Clients: three of them, one request at a time and tables of two entries, so     *)
(* that both make room and choose whom to drop; or one client, two requests at     *)
(* once, and an administrator who changes every number while they run.             *)
(* Backends: three, the second with a double share, and one request at a time,     *)
(* of every kind.                                                                  *)
EXTENDS SmartProtect, Upstream, TLC

VARIABLE clients    \* whose requests to Smart Protect there are; none in the backends' part

MCThree == <<"a", "b", "c">>
MCHeavy == [b \in {"a", "b", "c"} |-> IF b = "b" THEN 2 ELSE 1]

UnitSymmetry == Permutations(Units) \cup Permutations(Requests)

MCInit ==
    /\ clients \in {{}, Units} \cup {{u} : u \in Units}
    /\ Init /\ (clients = Units => numbers.refusals = 2 /\ numbers.window = 2)
    /\ clients # Units => numbers.block = 3
    /\ UpstreamInit
    /\ IF clients = {} THEN numbers.refusals = 2 /\ numbers.window = 2
       ELSE \A b \in Backends : condition[b] = "ok"

Underway == {r \in Requests : req'[r] # Idle}

InScene ==
    IF clients = Units
    THEN /\ Cardinality(Underway) <= 1
         /\ \A k \in Key : Len(log'[k]) <= 1
         /\ numbers'.refusals = 2 /\ numbers'.window = 2
    ELSE /\ \A r \in Underway : req'[r].key[2] \in clients
         /\ numbers'.block = 3 /\ now' <= 2

MCNext ==
    \/ clients # {} /\ Next /\ InScene /\ UNCHANGED upstreamVars
    \/ clients = {} /\ UpstreamNext /\ UNCHANGED vars

MCSpec == MCInit /\ [][MCNext /\ UNCHANGED clients]_<<vars, upstreamVars, clients>>
=============================================================================
