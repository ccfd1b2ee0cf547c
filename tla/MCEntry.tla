------------------------------- MODULE MCEntry -------------------------------
(* Small instances of who is let in: administrators with their accounts and        *)
(* sessions, and visitors with their challenges and clearances.  A behaviour is     *)
(* one of them at work.  Requests are interchangeable, and so are addresses and     *)
(* account ids, which nothing compares.                                             *)
EXTENDS Accounts, Challenges, TLC

VARIABLE part

partVars == <<vars, challengeVars, part>>

Symmetry == Permutations(Ids) \cup Permutations(AdminTasks) \cup Permutations(UserTasks)
            \cup Permutations(SetupTasks) \cup Permutations(Workers) \cup Permutations(Clients)

MCInit ==
    /\ part \in {"accounts", "challenges"}
    /\ Init /\ ChallengesInit

MCNext ==
    \/ part = "accounts" /\ Next /\ UNCHANGED challengeVars
    \/ part = "challenges" /\ ChallengesNext /\ UNCHANGED vars

MCSpec == MCInit /\ [][MCNext /\ UNCHANGED part]_partVars
=============================================================================
