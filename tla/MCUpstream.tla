---------------------------- MODULE MCUpstream -----------------------------
(* Small instances of Upstream for TLC.  Requests are interchangeable; the      *)
(* backends are not, the rotation goes through them in order.  What one request *)
(* at a time can meet is MCSmartProtect's.                                      *)
EXTENDS Upstream, TLC

MCTwo == <<"a", "b">>
MCThree == <<"a", "b", "c">>
MCOnes == [b \in Range(Pool) |-> 1]
MCHeavy == [b \in Range(Pool) |-> IF b = "b" THEN 2 ELSE 1]

Symmetry == Permutations(Slots)

\* Two requests at once that may be repeated; or one of any other kind, alone.
Repeatable(q) == q.method = "repeatable" /\ q.whole
Come == {r \in Slots : request'[r] # Free}
InScene == Cardinality(Come) <= 1 \/ \A r \in Come : Repeatable(request'[r])

MCSpec == UpstreamInit /\ [][UpstreamNext /\ InScene]_upstreamVars /\ WF_upstreamVars(TimePasses)
=============================================================================
