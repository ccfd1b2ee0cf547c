------------------------------ MODULE Accounts ------------------------------
(***************************************************************************)
(* Who may sign in to the admin interface, and what their sessions are     *)
(* worth: the users table, the signed cookies that name a row of it, and   *)
(* the handlers of routes/accounts.rs, account.rs, login.rs and setup.rs.  *)
(*                                                                         *)
(* A handler is a task that runs its SQL statements one at a time, and     *)
(* none of them is in a transaction with another: whatever a handler has   *)
(* read may be out of date when it writes.  A sign-in checks a password    *)
(* for a quarter of a second between reading the row and minting a cookie. *)
(***************************************************************************)
EXTENDS Integers, FiniteSets

CONSTANTS
    Ids,         \* account ids, never given twice (AUTOINCREMENT)
    AdminTasks,  \* requests to /accounts in flight at once
    UserTasks,   \* sign-ins and own password changes in flight
    SetupTasks,  \* submissions of the first-run setup in flight
    Operations,  \* what administrators ask for, a subset of AllOperations
    MaxEpoch,    \* bound on session_epoch
    MaxPassword, \* bound on the passwords set on one account
    MaxCrashes   \* bound on the times the service dies

AllOperations == {"demote", "promote", "toggle", "delete", "reset", "signout", "create"}

ASSUME OperationsAssumption == Operations \subseteq AllOperations

ASSUME BoundsAssumption ==
    MaxEpoch \in Nat /\ MaxPassword \in Nat /\ MaxCrashes \in Nat

VARIABLES
    users,     \* the users table: a row, or None, per id
    used,      \* ids the table has ever given out
    cookies,   \* session cookies browsers hold
    task,      \* what each request in flight has read and does next
    crashes    \* times the service has died

vars == <<users, used, cookies, task, crashes>>

Tasks == AdminTasks \cup UserTasks \cup SetupTasks

None == [role |-> "none"]

\* A row of users.  The password is the number of times it was set.
Row == [role : {"admin", "viewer"}, enabled : BOOLEAN, epoch : Nat, password : Nat]

\* SessionData: the account and its epoch when the cookie was minted; the
\* password it was minted on is history.
Cookie == [user : Ids, epoch : Nat, password : Nat]

Idle == [step |-> "idle"]

Task ==
    {Idle}
    \cup [step : {"read"}, op : {"toggle", "signout"}, target : Ids]
    \cup [step : {"count", "is admin"}, op : {"demote", "toggle", "delete"}, target : Ids]
    \cup [step : {"write"}, op : AllOperations \ {"signout", "create"}, target : Ids]
    \cup [step : {"end"}, op : AllOperations \ {"delete", "create"}, target : Ids]
    \cup [step : {"insert"}, role : {"admin", "viewer"}]
    \cup [step : {"restore"}, target : Ids]
    \cup [step : {"own write", "own end"}, target : Ids]
    \cup [step : {"checking"}, cookie : Cookie]
    \cup [step : {"setup"}]

\* Every variable holds a value of its shape, and a row has an id given out.
TypeOK ==
    /\ users \in [Ids -> Row \cup {None}]
    /\ used \subseteq Ids
    /\ \A i \in Ids : users[i] # None => i \in used
    /\ cookies \subseteq Cookie
    /\ task \in [Tasks -> Task]
    /\ crashes \in 0 .. MaxCrashes

-----------------------------------------------------------------------------

Exists(i) == users[i] # None

EnabledAdmin(i) == Exists(i) /\ users[i].role = "admin" /\ users[i].enabled

\* authenticate(): the row is read on every request, and the cookie is as good
\* as the row says.  Its age is checked too: see Forget.
Accepted(c) ==
    /\ Exists(c.user)
    /\ users[c.user].enabled
    /\ c.epoch = users[c.user].epoch

\* The Admin extractor, which takes the role from the row.
SignedInAdmin(i) == EnabledAdmin(i) /\ \E c \in cookies : c.user = i /\ Accepted(c)

SignedIn(i) == \E c \in cookies : c.user = i /\ Accepted(c)

NewRow(role) == [role |-> role, enabled |-> TRUE, epoch |-> 0, password |-> 0]

\* other_enabled_admins, and wrong on purpose: suspended rows counted too.
OtherEnabledAdmins_CountsSuspended(i) == {j \in Ids \ {i} : Exists(j) /\ users[j].role = "admin"}
OtherEnabledAdmins(i) == {j \in Ids \ {i} : EnabledAdmin(j)}

Goto(t, next) == task' = [task EXCEPT ![t] = next]

At(t, step) == task[t].step = step

-----------------------------------------------------------------------------
(* A fresh installation. *)

Init ==
    /\ users = [i \in Ids |-> None]
    /\ used = {}
    /\ cookies = {}
    /\ task = [t \in Tasks |-> Idle]
    /\ crashes = 0

-----------------------------------------------------------------------------
(* First-run setup. *)

\* post_setup finds no account, and goes on to hash the password.
BeginSetup(t) ==
    /\ task[t] = Idle
    /\ \A i \in Ids : ~Exists(i)
    /\ Goto(t, [step |-> "setup"])
    /\ UNCHANGED <<users, used, cookies, crashes>>

\* The insert, which makes sure again that the table is empty.
FinishSetup(t) ==
    /\ At(t, "setup")
    /\ Goto(t, Idle)
    /\ IF \A i \in Ids : ~Exists(i)
       THEN \E i \in Ids \ used :
              /\ users' = [users EXCEPT ![i] = NewRow("admin")]
              /\ used' = used \cup {i}
       ELSE UNCHANGED <<users, used>>
    /\ UNCHANGED <<cookies, crashes>>

-----------------------------------------------------------------------------
(* Signing in and out. *)

\* verify_credentials reads the row once; the password typed is the one stored
\* then, and is about to be checked against it.
SignIn(t, i) ==
    /\ task[t] = Idle
    /\ Exists(i)
    /\ users[i].enabled
    /\ Goto(t, [step |-> "checking", cookie |->
                  [user |-> i, epoch |-> users[i].epoch, password |-> users[i].password]])
    /\ UNCHANGED <<users, used, cookies, crashes>>

\* The check is done and the cookie minted, from what was read before it.
Mint(t) ==
    /\ At(t, "checking")
    /\ cookies' = cookies \cup {task[t].cookie}
    /\ Goto(t, Idle)
    /\ UNCHANGED <<users, used, crashes>>

\* A browser signs out, or a cookie reaches the end of its eight hours.
Forget(c) ==
    /\ cookies' = cookies \ {c}
    /\ UNCHANGED <<users, used, task, crashes>>

-----------------------------------------------------------------------------
(* An account's own password (account.rs). *)

BeginOwnPassword(t, i) ==
    /\ task[t] = Idle
    /\ SignedIn(i)
    /\ users[i].password < MaxPassword
    /\ users[i].epoch < MaxEpoch
    /\ Goto(t, [step |-> "own write", target |-> i])
    /\ UNCHANGED <<users, used, cookies, crashes>>

\* The account is named by username, and may be gone: that is not noticed.
WriteOwnPassword(t) ==
    /\ At(t, "own write")
    /\ LET i == task[t].target
       IN /\ users' = IF Exists(i) THEN [users EXCEPT ![i].password = @ + 1] ELSE users
          /\ Goto(t, IF Exists(i) THEN [step |-> "own end", target |-> i] ELSE Idle)
    /\ UNCHANGED <<used, cookies, crashes>>

EndOwnSessions(t) ==
    /\ At(t, "own end")
    /\ LET i == task[t].target
       IN users' = IF Exists(i) THEN [users EXCEPT ![i].epoch = @ + 1] ELSE users
    /\ Goto(t, Idle)
    /\ UNCHANGED <<used, cookies, crashes>>

-----------------------------------------------------------------------------
(* An administrator's request (accounts.rs), statement by statement.          *)

\* The Admin extractor has let the request in: it is not asked again.
Begin(t, op, actor, target) ==
    /\ task[t] = Idle
    /\ op \in Operations
    /\ SignedInAdmin(actor)
    /\ op \in {"toggle", "delete"} => target # actor
    /\ target \in used
    /\ Exists(target) => users[target].epoch < MaxEpoch
    /\ Exists(target) /\ op = "reset" => users[target].password < MaxPassword
    /\ \E role \in {"admin", "viewer"} :
         Goto(t, CASE op \in {"toggle", "signout"} ->
                        [step |-> "read", op |-> op, target |-> target]
                   [] op \in {"demote", "delete"} ->
                        [step |-> "count", op |-> op, target |-> target]
                   [] op \in {"promote", "reset"} ->
                        [step |-> "write", op |-> op, target |-> target]
                   [] op = "create" -> [step |-> "insert", role |-> role])
    /\ UNCHANGED <<users, used, cookies, crashes>>

\* post_account_toggle looks whether to suspend or to restore, and
\* post_account_signout whether the account is there at all.
ReadTarget(t) ==
    /\ At(t, "read")
    /\ LET op == task[t].op
           target == task[t].target
       IN Goto(t, CASE ~Exists(target) -> Idle
                    [] Exists(target) /\ op = "signout" -> [task[t] EXCEPT !.step = "end"]
                    [] Exists(target) /\ op = "toggle" /\ users[target].enabled ->
                         [task[t] EXCEPT !.step = "count"]
                    [] Exists(target) /\ op = "toggle" /\ ~users[target].enabled ->
                         [step |-> "restore", target |-> target])
    /\ UNCHANGED <<users, used, cookies, crashes>>

\* would_orphan, first question: is there another enabled administrator?
CountAdmins(t) ==
    /\ At(t, "count")
    /\ LET safe == OtherEnabledAdmins(task[t].target) # {}
       IN Goto(t, [task[t] EXCEPT !.step = IF safe THEN "write" ELSE "is admin"])
    /\ UNCHANGED <<users, used, cookies, crashes>>

\* would_orphan, second question: if not, is this one?  Then it is refused.
AskIfAdmin(t) ==
    /\ At(t, "is admin")
    /\ Goto(t, IF EnabledAdmin(task[t].target) THEN Idle
               ELSE [task[t] EXCEPT !.step = "write"])
    /\ UNCHANGED <<users, used, cookies, crashes>>

\* What each operation does to the row it is about.
Changed(op, row) ==
    CASE op = "demote" -> [row EXCEPT !.role = "viewer"]
      [] op = "promote" -> [row EXCEPT !.role = "admin"]
      [] op = "toggle" -> [row EXCEPT !.enabled = FALSE]
      [] op = "reset" -> [row EXCEPT !.password = @ + 1]
      [] op = "delete" -> None

\* The statement the request is for.  A row that is gone ends every operation
\* but a suspension, whose rows are not counted.
Write(t) ==
    /\ At(t, "write")
    /\ LET op == task[t].op
           i == task[t].target
       IN /\ users' = IF Exists(i) THEN [users EXCEPT ![i] = Changed(op, @)] ELSE users
          /\ Goto(t, IF op = "delete" \/ (~Exists(i) /\ op # "toggle") THEN Idle
                     ELSE [task[t] EXCEPT !.step = "end"])
    /\ UNCHANGED <<used, cookies, crashes>>

\* end_all_sessions, and wrong on purpose: nothing is bumped for a reset.
EndSessions_NotAfterReset(t) ==
    /\ At(t, "end")
    /\ LET i == task[t].target
       IN users' = IF Exists(i) /\ task[t].op # "reset"
                   THEN [users EXCEPT ![i].epoch = @ + 1] ELSE users
    /\ Goto(t, Idle)
    /\ UNCHANGED <<used, cookies, crashes>>

EndSessions(t) ==
    /\ At(t, "end")
    /\ LET i == task[t].target
       IN users' = IF Exists(i) THEN [users EXCEPT ![i].epoch = @ + 1] ELSE users
    /\ Goto(t, Idle)
    /\ UNCHANGED <<used, cookies, crashes>>

\* The other half of post_account_toggle, which ends no session.
Restore(t) ==
    /\ At(t, "restore")
    /\ LET i == task[t].target
       IN users' = IF Exists(i) THEN [users EXCEPT ![i].enabled = TRUE] ELSE users
    /\ Goto(t, Idle)
    /\ UNCHANGED <<used, cookies, crashes>>

\* post_account_create.  Names are not modelled: the new one is not taken.
Insert(t) ==
    /\ At(t, "insert")
    /\ Goto(t, Idle)
    /\ \E i \in Ids \ used :
         /\ users' = [users EXCEPT ![i] = NewRow(task[t].role)]
         /\ used' = used \cup {i}
    /\ UNCHANGED <<cookies, crashes>>

-----------------------------------------------------------------------------

\* The service is stopped or dies: the requests in flight are gone, the table
\* and the browsers' cookies stay.
Crash ==
    /\ crashes < MaxCrashes
    /\ crashes' = crashes + 1
    /\ task' = [t \in Tasks |-> Idle]
    /\ UNCHANGED <<users, used, cookies>>

SetupStep(t) ==
    \/ BeginSetup(t)
    \/ FinishSetup(t)

UserStep(t) ==
    \/ \E i \in Ids : SignIn(t, i) \/ BeginOwnPassword(t, i)
    \/ Mint(t)
    \/ WriteOwnPassword(t)
    \/ EndOwnSessions(t)

AdminStep(t) ==
    \/ \E op \in AllOperations, actor, target \in Ids : Begin(t, op, actor, target)
    \/ ReadTarget(t)
    \/ CountAdmins(t)
    \/ AskIfAdmin(t)
    \/ Write(t)
    \/ EndSessions(t)
    \/ Restore(t)
    \/ Insert(t)

Next ==
    \/ \E t \in SetupTasks : SetupStep(t)
    \/ \E t \in UserTasks : UserStep(t)
    \/ \E t \in AdminTasks : AdminStep(t)
    \/ \E c \in cookies : Forget(c)
    \/ Crash

Spec == Init /\ [][Next]_vars

-----------------------------------------------------------------------------
(* Properties.                                                               *)

\* Once the installation is set up, somebody can administer it: no demotion,
\* suspension or deletion takes the last enabled administrator
\* (would_orphan, "Refuse an action that would remove the last enabled
\* administrator").  The check and the write are two statements.
AnAdminRemains == used # {} => \E i \in Ids : EnabledAdmin(i)

\* A handler stands between writing this account's password and ending the
\* sessions the old one opened.
EndingSessions(i) ==
    \E t \in Tasks :
        /\ task[t].step \in {"end", "own end"}
        /\ task[t].target = i

\* A cookie that is accepted was minted on the password the account has now
\* (post_account_password: "a session minted with the old password must not
\* stay valid, in whatever browser holds it"), a request that is about to end
\* the sessions aside.
OldSessionsEnd ==
    \A c \in cookies :
        Accepted(c) /\ ~EndingSessions(c.user) => c.password = users[c.user].password

\* They do as long as the service does not die between the two statements.
SessionFollowsPassword == crashes = 0 => OldSessionsEnd

\* A session that was ended never comes back: a cookie that is refused for its
\* epoch, or because its account is gone, is refused ever after (an id is never
\* given out twice).  One that is refused because the account is suspended may be
\* accepted again, if the service stops before the sessions are ended and the
\* account is restored.
RefusedForGood ==
    [][\A c \in cookies \cap cookies' :
         (~Exists(c.user) \/ c.epoch < users[c.user].epoch) => ~Accepted(c)']_vars

\* Setup makes the first account and no other, however many setups arrive
\* together: post_setup asks again in the statement that inserts.
SetupMakesTheFirstOnly ==
    [][(\E t \in SetupTasks : At(t, "setup") /\ task'[t] = Idle) /\ used # {}
         => used' = used]_vars
=============================================================================
