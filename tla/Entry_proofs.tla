---------------------------- MODULE Entry_proofs -----------------------------
(* Who gets in, proved for any number of accounts, requests in flight,        *)
(* workers, addresses and challenges. Of accounts and sessions: their types;  *)
(* that a session of an old password or of an ended epoch is not accepted;    *)
(* that an administrator remains when administrators' requests come one at a  *)
(* time, and with it that the setup page makes the first account only. Of     *)
(* challenges and clearances: their types, that no challenge is judged twice, *)
(* that a clearance was earned, that the store keeps to its caps but for what *)
(* other workers are drawing, and that nobody loses a challenge to another    *)
(* address.                                                                   *)
EXTENDS Accounts, Challenges, FiniteSetTheorems, TLAPS

-----------------------------------------------------------------------------
(* Accounts and sessions.                                                    *)

\* The records the handlers write are rows, and those they keep are tasks.
LEMMA RowsWritten ==
  /\ None \notin Row
  /\ \A role \in {"admin", "viewer"} : NewRow(role) \in Row
  /\ \A row \in Row : /\ [row EXCEPT !.epoch = row.epoch + 1] \in Row
                      /\ [row EXCEPT !.password = row.password + 1] \in Row
                      /\ [row EXCEPT !.enabled = TRUE] \in Row
                      /\ [row EXCEPT !.enabled = FALSE] \in Row
                      /\ [row EXCEPT !.role = "viewer"] \in Row
                      /\ [row EXCEPT !.role = "admin"] \in Row
<1>1. None \notin Row
  BY DEF Row, None
<1>2. \A role \in {"admin", "viewer"} : NewRow(role) \in Row
  BY DEF Row, NewRow
<1>3. ASSUME NEW row \in Row
      PROVE  /\ [row EXCEPT !.epoch = row.epoch + 1] \in Row
             /\ [row EXCEPT !.password = row.password + 1] \in Row
             /\ [row EXCEPT !.enabled = TRUE] \in Row
             /\ [row EXCEPT !.enabled = FALSE] \in Row
             /\ [row EXCEPT !.role = "viewer"] \in Row
             /\ [row EXCEPT !.role = "admin"] \in Row
  <2>1. /\ [row EXCEPT !.epoch = row.epoch + 1] \in Row
        /\ [row EXCEPT !.password = row.password + 1] \in Row
    BY <1>3 DEF Row
  <2>2. /\ [row EXCEPT !.role = "viewer"] \in Row
        /\ [row EXCEPT !.role = "admin"] \in Row
    BY <1>3 DEF Row
  <2>3. /\ [row EXCEPT !.enabled = TRUE] \in Row
        /\ [row EXCEPT !.enabled = FALSE] \in Row
    BY <1>3, Zenon DEF Row
  <2> QED
    BY <2>1, <2>2, <2>3
<1> QED
  BY <1>1, <1>2, <1>3

\* What a handler keeps between two statements (Task) can be written down.
LEMMA TasksWritten ==
  /\ Idle \in Task
  /\ [step |-> "setup"] \in Task
  /\ \A c \in Cookie : [step |-> "checking", cookie |-> c] \in Task
  /\ \A role \in {"admin", "viewer"} : [step |-> "insert", role |-> role] \in Task
  /\ \A i \in Ids : /\ [step |-> "own write", target |-> i] \in Task
                    /\ [step |-> "own end", target |-> i] \in Task
                    /\ [step |-> "restore", target |-> i] \in Task
                    /\ \A op \in {"toggle", "signout"} :
                         [step |-> "read", op |-> op, target |-> i] \in Task
                    /\ \A op \in {"demote", "delete"} :
                         [step |-> "count", op |-> op, target |-> i] \in Task
                    /\ \A op \in {"promote", "reset"} :
                         [step |-> "write", op |-> op, target |-> i] \in Task
BY DEF Task, Idle, AllOperations

\* All that changes of a request that moves on is the step it is at.
MovedTo(k, x) ==
    /\ [k EXCEPT !.step = x].step = x
    /\ [k EXCEPT !.step = x].op = k.op
    /\ [k EXCEPT !.step = x].target = k.target

\* A request in flight, by the step it is at: what it carries, and where it goes.
LEMMA TasksRead ==
  ASSUME NEW k \in Task
  PROVE  /\ k.step = "checking" => k.cookie \in Cookie
         /\ k.step = "insert" => k.role \in {"admin", "viewer"}
         /\ k.step \in {"own write", "own end", "restore"} => k.target \in Ids
         /\ k.step = "read" =>
              /\ k.target \in Ids /\ k.op \in {"toggle", "signout"}
              /\ k.op = "toggle" => [k EXCEPT !.step = "count"] \in Task
              /\ k.op = "signout" => [k EXCEPT !.step = "end"] \in Task
         /\ k.step \in {"count", "is admin"} =>
              /\ k.target \in Ids /\ k.op \in {"demote", "toggle", "delete"}
              /\ [k EXCEPT !.step = "write"] \in Task
              /\ [k EXCEPT !.step = "is admin"] \in Task
         /\ k.step = "write" =>
              /\ k.target \in Ids /\ k.op \in AllOperations \ {"signout", "create"}
              /\ k.op # "delete" => [k EXCEPT !.step = "end"] \in Task
         /\ k.step = "end" => k.target \in Ids /\ k.op \in AllOperations \ {"delete", "create"}
         /\ k.step \in {"read", "count", "is admin", "write"} => \A x : MovedTo(k, x)
<1> DEFINE Reads == [step : {"read"}, op : {"toggle", "signout"}, target : Ids]
           Counts == [step : {"count", "is admin"}, op : {"demote", "toggle", "delete"}, target : Ids]
           Writes == [step : {"write"}, op : AllOperations \ {"signout", "create"}, target : Ids]
           Ends == [step : {"end"}, op : AllOperations \ {"delete", "create"}, target : Ids]
           Inserts == [step : {"insert"}, role : {"admin", "viewer"}]
           Restores == [step : {"restore"}, target : Ids]
           Owns == [step : {"own write", "own end"}, target : Ids]
           Checks == [step : {"checking"}, cookie : Cookie]
           Setups == [step : {"setup"}]
<1>1. CASE k = Idle
  BY <1>1 DEF Idle
<1>2. CASE k \in Reads
  <2>1. k.op = "toggle" => [k EXCEPT !.step = "count"] \in Counts
    BY <1>2
  <2>2. k.op = "signout" => [k EXCEPT !.step = "end"] \in Ends
    BY <1>2 DEF AllOperations
  <2>3. \A x : MovedTo(k, x)
    BY <1>2 DEF MovedTo
  <2> QED
    BY <1>2, <2>1, <2>2, <2>3 DEF Task
<1>3. CASE k \in Counts
  <2>1. [k EXCEPT !.step = "is admin"] \in Counts
    BY <1>3
  <2>2. [k EXCEPT !.step = "write"] \in Writes
    BY <1>3 DEF AllOperations
  <2>3. \A x : MovedTo(k, x)
    BY <1>3 DEF MovedTo
  <2> QED
    BY <1>3, <2>1, <2>2, <2>3 DEF Task
<1>4. CASE k \in Writes
  <2>1. k.op # "delete" => [k EXCEPT !.step = "end"] \in Ends
    BY <1>4 DEF AllOperations
  <2>2. \A x : MovedTo(k, x)
    BY <1>4 DEF MovedTo
  <2> QED
    BY <1>4, <2>1, <2>2 DEF Task
<1>5. CASE k \in Ends
  BY <1>5
<1>6. CASE k \in Inserts
  BY <1>6
<1>7. CASE k \in Restores
  BY <1>7
<1>8. CASE k \in Owns
  BY <1>8
<1>9. CASE k \in Checks
  BY <1>9
<1>10. CASE k \in Setups
  BY <1>10
<1> QED
  BY <1>1, <1>2, <1>3, <1>4, <1>5, <1>6, <1>7, <1>8, <1>9, <1>10 DEF Task

\* What an operation leaves of the row it is about is a row, or nothing.
LEMMA ChangedRow ==
  ASSUME NEW op \in AllOperations \ {"signout", "create"}, NEW row \in Row
  PROVE  Changed(op, row) \in Row \cup {None}
<1>1. CASE op = "demote"
  BY <1>1, RowsWritten DEF Changed
<1>2. CASE op = "promote"
  BY <1>2, RowsWritten DEF Changed
<1>3. CASE op = "toggle"
  BY <1>3, RowsWritten DEF Changed
<1>4. CASE op = "reset"
  BY <1>4, RowsWritten DEF Changed
<1>5. CASE op = "delete"
  BY <1>5 DEF Changed
<1> QED
  BY <1>1, <1>2, <1>3, <1>4, <1>5 DEF AllOperations

\* Every table, cookie and request in flight keeps its shape, and an id that has
\* a row was given out: the types the handlers of routes/accounts.rs, account.rs,
\* login.rs and setup.rs write.
LEMMA TypeStep == TypeOK /\ [Next]_vars => TypeOK'
<1> SUFFICES ASSUME TypeOK, [Next]_vars PROVE TypeOK'
  OBVIOUS
<1>t. /\ users \in [Ids -> Row \cup {None}]
      /\ used \subseteq Ids
      /\ \A i \in Ids : users[i] # None => i \in used
      /\ cookies \subseteq Cookie
      /\ task \in [Tasks -> Task]
      /\ crashes \in 0 .. MaxCrashes
  BY DEF TypeOK
<1>g. ASSUME NEW t \in Tasks, NEW k \in Task, Goto(t, k) PROVE task' \in [Tasks -> Task]
  BY <1>t, <1>g DEF Goto
<1>u. ASSUME NEW i \in Ids, Exists(i), NEW row \in Row \cup {None},
             users' = [users EXCEPT ![i] = row]
      PROVE  /\ users' \in [Ids -> Row \cup {None}]
             /\ \A j \in Ids : users'[j] # None => j \in used
  BY <1>t, <1>u DEF Exists
<1>n. ASSUME NEW i \in Ids, NEW row \in Row, users' = [users EXCEPT ![i] = row],
             used' = used \cup {i}
      PROVE  /\ users' \in [Ids -> Row \cup {None}] /\ used' \subseteq Ids
             /\ \A j \in Ids : users'[j] # None => j \in used'
  BY <1>t, <1>n
<1>r. ASSUME NEW i \in Ids, Exists(i) PROVE users[i] \in Row
  BY <1>t, <1>r DEF Exists
<1>1. ASSUME NEW t \in SetupTasks, BeginSetup(t) PROVE TypeOK'
  BY <1>1, <1>t, <1>g, TasksWritten, TasksRead DEF BeginSetup, TypeOK, Tasks
<1>2. ASSUME NEW t \in SetupTasks, FinishSetup(t) PROVE TypeOK'
  <2>1. task' \in [Tasks -> Task]
    BY <1>2, <1>g, TasksWritten, TasksRead DEF FinishSetup, Tasks
  <2>2. CASE \A i \in Ids : ~Exists(i)
    BY <1>2, <2>1, <2>2, <1>t, <1>n, RowsWritten DEF FinishSetup, TypeOK
  <2>3. CASE ~(\A i \in Ids : ~Exists(i))
    BY <1>2, <2>1, <2>3, <1>t DEF FinishSetup, TypeOK
  <2> QED
    BY <2>2, <2>3
<1>3. ASSUME NEW t \in UserTasks, NEW i \in Ids, SignIn(t, i) PROVE TypeOK'
  <2>1. [user |-> i, epoch |-> users[i].epoch, password |-> users[i].password] \in Cookie
    BY <1>3, <1>r DEF SignIn, Row, Cookie
  <2>2. task' \in [Tasks -> Task]
    BY <1>3, <2>1, <1>g, TasksWritten, TasksRead DEF SignIn, Tasks
  <2> QED
    BY <1>3, <2>2, <1>t DEF SignIn, TypeOK
<1>4. ASSUME NEW t \in UserTasks, NEW i \in Ids, BeginOwnPassword(t, i) PROVE TypeOK'
  BY <1>4, <1>t, <1>g, TasksWritten, TasksRead DEF BeginOwnPassword, TypeOK, Tasks
<1>5. ASSUME NEW t \in UserTasks, Mint(t) PROVE TypeOK'
  <2>1. task' \in [Tasks -> Task]
    BY <1>5, <1>g, TasksWritten, TasksRead DEF Mint, Tasks
  <2>2. task[t].cookie \in Cookie
    BY <1>5, <1>t, TasksWritten, TasksRead DEF Mint, At, Tasks
  <2> QED
    BY <1>5, <2>1, <2>2, <1>t DEF Mint, TypeOK
<1>6. ASSUME NEW t \in UserTasks, WriteOwnPassword(t) PROVE TypeOK'
  <2> DEFINE i == task[t].target
  <2>1. i \in Ids
    BY <1>6, <1>t, TasksWritten, TasksRead DEF WriteOwnPassword, At, Tasks
  <2>2. task' \in [Tasks -> Task]
    BY <1>6, <2>1, <1>g, TasksWritten, TasksRead DEF WriteOwnPassword, Tasks
  <2>3. CASE Exists(i)
    <3>1. users' = [users EXCEPT ![i] = [users[i] EXCEPT !.password = users[i].password + 1]]
      BY <1>6, <2>3 DEF WriteOwnPassword
    <3> QED
      BY <1>6, <2>1, <2>2, <2>3, <3>1, <1>r, <1>u, <1>t, RowsWritten DEF WriteOwnPassword, TypeOK
  <2>4. CASE ~Exists(i)
    BY <1>6, <2>2, <2>4, <1>t DEF WriteOwnPassword, TypeOK
  <2> QED
    BY <2>3, <2>4
<1>b. ASSUME NEW t \in Tasks, task[t].target \in Ids, Goto(t, Idle),
             UNCHANGED <<used, cookies, crashes>>,
             users' = IF Exists(task[t].target)
                      THEN [users EXCEPT ![task[t].target].epoch = @ + 1] ELSE users
      PROVE  TypeOK'
  <2> DEFINE i == task[t].target
  <2>1. task' \in [Tasks -> Task]
    BY <1>b, <1>g, TasksWritten, TasksRead
  <2>2. CASE Exists(i)
    <3>1. users' = [users EXCEPT ![i] = [users[i] EXCEPT !.epoch = users[i].epoch + 1]]
      BY <1>b, <2>2
    <3> QED
      BY <1>b, <2>1, <2>2, <3>1, <1>r, <1>u, <1>t, RowsWritten DEF TypeOK
  <2>3. CASE ~Exists(i)
    BY <1>b, <2>1, <2>3, <1>t DEF TypeOK
  <2> QED
    BY <2>2, <2>3
<1>7. ASSUME NEW t \in UserTasks, EndOwnSessions(t) PROVE TypeOK'
  <2>1. task[t].target \in Ids
    BY <1>7, <1>t, TasksWritten, TasksRead DEF EndOwnSessions, At, Tasks
  <2> QED
    BY <1>7, <2>1, <1>b DEF EndOwnSessions, Tasks
<1>8. ASSUME NEW t \in AdminTasks, NEW op \in AllOperations, NEW actor \in Ids,
             NEW target \in Ids, Begin(t, op, actor, target)
      PROVE  TypeOK'
  <2>1. task' \in [Tasks -> Task]
    BY <1>8, <1>g, TasksWritten, TasksRead DEF Begin, AllOperations, Tasks
  <2> QED
    BY <1>8, <2>1, <1>t DEF Begin, TypeOK
<1>9. ASSUME NEW t \in AdminTasks, ReadTarget(t) PROVE TypeOK'
  <2>1. /\ task[t] \in Task /\ task[t].step = "read" /\ task[t].target \in Ids
        /\ task[t].op \in {"toggle", "signout"}
    BY <1>9, <1>t, TasksWritten, TasksRead DEF ReadTarget, At, Tasks
  <2>3. task' \in [Tasks -> Task]
    BY <1>9, <2>1, <1>g, TasksWritten, TasksRead DEF ReadTarget, AllOperations, Tasks
  <2> QED
    BY <1>9, <2>3, <1>t DEF ReadTarget, TypeOK
<1>10. ASSUME NEW t \in AdminTasks, CountAdmins(t) PROVE TypeOK'
  <2>1. task[t] \in Task /\ task[t].step = "count"
    BY <1>10, <1>t DEF CountAdmins, At, Tasks
  <2>2. task' \in [Tasks -> Task]
    BY <1>10, <2>1, <1>g, TasksWritten, TasksRead DEF CountAdmins, Tasks
  <2> QED
    BY <1>10, <2>2, <1>t DEF CountAdmins, TypeOK
<1>11. ASSUME NEW t \in AdminTasks, AskIfAdmin(t) PROVE TypeOK'
  <2>1. task[t] \in Task /\ task[t].step = "is admin"
    BY <1>11, <1>t DEF AskIfAdmin, At, Tasks
  <2>2. task' \in [Tasks -> Task]
    BY <1>11, <2>1, <1>g, TasksWritten, TasksRead DEF AskIfAdmin, Tasks
  <2> QED
    BY <1>11, <2>2, <1>t DEF AskIfAdmin, TypeOK
<1>12. ASSUME NEW t \in AdminTasks, Write(t) PROVE TypeOK'
  <2> DEFINE i == task[t].target
             op == task[t].op
  <2>1. task[t] \in Task /\ task[t].step = "write" /\ i \in Ids 
        /\ op \in AllOperations \ {"signout", "create"}
    BY <1>12, <1>t, TasksWritten, TasksRead DEF Write, At, Tasks
  <2>2. task' \in [Tasks -> Task]
    BY <1>12, <2>1, <1>g, TasksWritten, TasksRead DEF Write, Tasks
  <2>3. CASE Exists(i)
    <3>1. users' = [users EXCEPT ![i] = Changed(op, users[i])]
      BY <1>12, <2>3 DEF Write
    <3> QED
      BY <1>12, <2>1, <2>2, <2>3, <3>1, <1>r, <1>u, <1>t, ChangedRow DEF Write, TypeOK
  <2>4. CASE ~Exists(i)
    BY <1>12, <2>2, <2>4, <1>t DEF Write, TypeOK
  <2> QED
    BY <2>3, <2>4
<1>13. ASSUME NEW t \in AdminTasks, EndSessions(t) PROVE TypeOK'
  <2>1. task[t].target \in Ids
    BY <1>13, <1>t, TasksWritten, TasksRead DEF EndSessions, At, Tasks
  <2> QED
    BY <1>13, <2>1, <1>b DEF EndSessions, Tasks
<1>14. ASSUME NEW t \in AdminTasks, Restore(t) PROVE TypeOK'
  <2> DEFINE i == task[t].target
  <2>1. i \in Ids
    BY <1>14, <1>t, TasksWritten, TasksRead DEF Restore, At, Tasks
  <2>2. task' \in [Tasks -> Task]
    BY <1>14, <1>g, TasksWritten, TasksRead DEF Restore, Tasks
  <2>3. CASE Exists(i)
    <3>1. users' = [users EXCEPT ![i] = [users[i] EXCEPT !.enabled = TRUE]]
      BY <1>14, <2>3 DEF Restore
    <3> QED
      BY <1>14, <2>1, <2>2, <2>3, <3>1, <1>r, <1>u, <1>t, RowsWritten DEF Restore, TypeOK
  <2>4. CASE ~Exists(i)
    BY <1>14, <2>2, <2>4, <1>t DEF Restore, TypeOK
  <2> QED
    BY <2>3, <2>4
<1>15. ASSUME NEW t \in AdminTasks, Insert(t) PROVE TypeOK'
  <2>1. task' \in [Tasks -> Task] /\ task[t].role \in {"admin", "viewer"}
    BY <1>15, <1>t, <1>g, TasksWritten, TasksRead DEF Insert, At, Tasks
  <2>2. NewRow(task[t].role) \in Row
    BY <2>1, RowsWritten
  <2> QED
    BY <1>15, <2>1, <2>2, <1>n, <1>t DEF Insert, TypeOK
<1>16. ASSUME NEW c \in cookies, Forget(c) PROVE TypeOK'
  BY <1>16, <1>t DEF Forget, TypeOK
<1>17. CASE Crash
  <2>1. task' \in [Tasks -> Task]
    BY <1>17, TasksWritten DEF Crash
  <2>2. crashes' \in 0 .. MaxCrashes
    BY <1>17, <1>t, BoundsAssumption DEF Crash
  <2> QED
    BY <1>17, <2>1, <2>2, <1>t DEF Crash, TypeOK
<1>18. CASE UNCHANGED vars
  BY <1>18, <1>t DEF vars, TypeOK
<1> QED
  BY <1>1, <1>2, <1>3, <1>4, <1>5, <1>6, <1>7, <1>8, <1>9, <1>10, <1>11, <1>12, <1>13, <1>14,
     <1>15, <1>16, <1>17, <1>18 DEF Next, SetupStep, UserStep, AdminStep

\* TypeOK: the users table, the cookies and what each handler of accounts.rs, account.rs,
\* login.rs and setup.rs has read keep their shape, for any number of tasks and browsers.
THEOREM AccountsTypeCorrect == Spec => []TypeOK
<1>1. Init => TypeOK
  <2> SUFFICES ASSUME Init PROVE TypeOK
    OBVIOUS
  <2>1. users \in [Ids -> Row \cup {None}] /\ \A i \in Ids : users[i] = None
    BY DEF Init
  <2>2. task \in [Tasks -> Task]
    BY TasksWritten DEF Init
  <2>3. crashes \in 0 .. MaxCrashes
    BY BoundsAssumption DEF Init
  <2> QED
    BY <2>1, <2>2, <2>3 DEF Init, TypeOK
<1> QED
  BY <1>1, TypeStep, PTL DEF Spec

-----------------------------------------------------------------------------
(* What becomes of one account's row in one step. *)

\* Who is about to end the sessions of an account does so in a step that moves the
\* epoch of the row on, or the service dies.
Ended(i) == EndingSessions(i) => EndingSessions(i)' \/ crashes' > 0

\* A row is new under an id never given out, or it was there: then its epoch has
\* moved on, or it has not and a new password comes with somebody about to do it.
RowFollows(i) ==
    users'[i] # None =>
        \/ users[i] = None /\ i \notin used
        \/ users[i] # None /\ users'[i].epoch > users[i].epoch
        \/ /\ users[i] # None /\ users'[i].epoch = users[i].epoch
           /\ users'[i].password = users[i].password \/ EndingSessions(i)'
           /\ Ended(i)

\* A step of a task that was not ending sessions leaves who was.
LEMMA OthersGoOn ==
  ASSUME TypeOK, NEW t \in Tasks, NEW k, Goto(t, k), NEW i \in Ids,
         task[t].step \notin {"end", "own end"}
  PROVE  Ended(i)
BY DEF Ended, EndingSessions, Goto, TypeOK

\* The statements of the handlers, one at a time (routes/accounts.rs, account.rs).
LEMMA RowStep == TypeOK /\ [Next]_vars => \A i \in Ids : RowFollows(i)
<1> SUFFICES ASSUME TypeOK, [Next]_vars, NEW i \in Ids, users'[i] # None
             PROVE  RowFollows(i)
  BY DEF RowFollows
<1>t. /\ users \in [Ids -> Row \cup {None}] /\ used \subseteq Ids
      /\ task \in [Tasks -> Task] /\ task' \in [Tasks -> Task] /\ crashes \in Nat
  BY TypeStep, BoundsAssumption DEF TypeOK
<1>r. ASSUME NEW j \in Ids, users[j] # None PROVE users[j] \in Row /\ users[j].epoch \in Nat
  BY <1>t, <1>r DEF Row
<1>s. ASSUME users'[i] = users[i], Ended(i) PROVE RowFollows(i)
  BY <1>s, <1>r DEF RowFollows
<1>1. ASSUME NEW t \in SetupTasks, BeginSetup(t) PROVE RowFollows(i)
  <2>1. task[t].step = "idle" /\ \E k : Goto(t, k)
    BY <1>1 DEF BeginSetup, Idle
  <2>2. Ended(i)
    BY <2>1, OthersGoOn DEF Tasks
  <2> QED
    BY <1>1, <2>2, <1>s DEF BeginSetup
<1>2. ASSUME NEW t \in SetupTasks, FinishSetup(t) PROVE RowFollows(i)
  <2>1. Ended(i)
    BY <1>2, OthersGoOn, TasksWritten DEF FinishSetup, At, Tasks
  <2>2. CASE users'[i] = users[i]
    BY <2>1, <2>2, <1>s
  <2>3. CASE users'[i] # users[i]
    BY <1>2, <2>3, <1>t DEF FinishSetup, Exists, RowFollows
  <2> QED
    BY <2>2, <2>3
<1>3. ASSUME NEW t \in UserTasks, NEW j \in Ids, SignIn(t, j) PROVE RowFollows(i)
  <2>1. task[t].step = "idle" /\ \E k : Goto(t, k)
    BY <1>3 DEF SignIn, Idle
  <2>2. Ended(i)
    BY <2>1, OthersGoOn DEF Tasks
  <2> QED
    BY <1>3, <2>2, <1>s DEF SignIn
<1>4. ASSUME NEW t \in UserTasks, NEW j \in Ids, BeginOwnPassword(t, j) PROVE RowFollows(i)
  <2>1. task[t].step = "idle" /\ \E k : Goto(t, k)
    <3>0. task[t] = Idle
      BY <1>4, Zenon DEF BeginOwnPassword
    <3>1. task[t].step = "idle"
      BY <3>0 DEF Idle
    <3>2. \E k : Goto(t, k)
      BY <1>4, Zenon DEF BeginOwnPassword
    <3> QED
      BY <3>1, <3>2
  <2>2. Ended(i)
    BY <2>1, OthersGoOn DEF Tasks
  <2> QED
    BY <1>4, <2>2, <1>s DEF BeginOwnPassword
<1>5. ASSUME NEW t \in UserTasks, Mint(t) PROVE RowFollows(i)
  BY <1>5, <1>s, OthersGoOn, TasksWritten DEF Mint, At, Tasks
<1>6. ASSUME NEW t \in UserTasks, WriteOwnPassword(t) PROVE RowFollows(i)
  <2> DEFINE j == task[t].target
  <2>0. j \in Ids /\ task[t].step = "own write"
    BY <1>6, <1>t, TasksRead DEF WriteOwnPassword, At, Tasks
  <2>1. Ended(i)
    BY <1>6, <2>0, OthersGoOn, TasksWritten DEF WriteOwnPassword, Tasks
  <2>2. CASE i # j \/ ~Exists(j)
    BY <1>6, <2>0, <2>1, <2>2, <1>t, <1>s DEF WriteOwnPassword
  <2>3. CASE i = j /\ Exists(j)
    <3>1. users'[i] = [users[i] EXCEPT !.password = users[i].password + 1]
      BY <1>6, <2>0, <2>3, <1>t DEF WriteOwnPassword
    <3>2. EndingSessions(i)'
      BY <1>6, <2>0, <2>3, <1>t DEF WriteOwnPassword, EndingSessions, Goto, Tasks
    <3> QED
      BY <2>1, <2>3, <3>1, <3>2, <1>r DEF RowFollows, Exists, Row
  <2> QED
    BY <2>2, <2>3
<1>b. ASSUME NEW t \in Tasks, task[t].target \in Ids, task[t].step \in {"end", "own end"},
             Goto(t, Idle),
             users' = IF Exists(task[t].target)
                      THEN [users EXCEPT ![task[t].target].epoch = @ + 1] ELSE users
      PROVE  RowFollows(i)
  <2>1. CASE task[t].target = i /\ Exists(i)
    <3>1. users'[i] = [users[i] EXCEPT !.epoch = users[i].epoch + 1]
      BY <1>b, <2>1, <1>t
    <3> QED
      BY <2>1, <3>1, <1>r DEF RowFollows, Exists, Row
  <2>2. CASE task[t].target = i /\ ~Exists(i)
    BY <1>b, <2>2 DEF Exists
  <2>3. CASE task[t].target # i
    <3>1. users'[i] = users[i]
      BY <1>b, <2>3, <1>t
    <3>2. Ended(i)
      BY <1>b, <2>3, <1>t DEF Ended, EndingSessions, Goto
    <3> QED
      BY <3>1, <3>2, <1>s
  <2> QED
    BY <2>1, <2>2, <2>3
<1>7. ASSUME NEW t \in UserTasks, EndOwnSessions(t) PROVE RowFollows(i)
  <2>1. task[t].target \in Ids
    BY <1>7, <1>t, TasksRead DEF EndOwnSessions, At, Tasks
  <2> QED
    BY <1>7, <2>1, <1>b DEF EndOwnSessions, At, Tasks
<1>8. ASSUME NEW t \in AdminTasks, NEW op \in AllOperations, NEW actor \in Ids,
             NEW target \in Ids, Begin(t, op, actor, target)
      PROVE  RowFollows(i)
  <2>1. task[t].step = "idle" /\ \E k : Goto(t, k)
    BY <1>8 DEF Begin, Idle
  <2>2. Ended(i)
    BY <2>1, OthersGoOn DEF Tasks
  <2> QED
    BY <1>8, <2>2, <1>s DEF Begin
<1>9. ASSUME NEW t \in AdminTasks, ReadTarget(t) PROVE RowFollows(i)
  <2>1. \E k : Goto(t, k)
    BY <1>9, Zenon DEF ReadTarget
  <2>2. Ended(i)
    BY <1>9, <2>1, OthersGoOn DEF ReadTarget, At, Tasks
  <2> QED
    BY <1>9, <2>2, <1>s DEF ReadTarget
<1>10. ASSUME NEW t \in AdminTasks, CountAdmins(t) PROVE RowFollows(i)
  <2>1. \E k : Goto(t, k)
    BY <1>10, Zenon DEF CountAdmins
  <2>2. Ended(i)
    BY <1>10, <2>1, OthersGoOn DEF CountAdmins, At, Tasks
  <2> QED
    BY <1>10, <2>2, <1>s DEF CountAdmins
<1>11. ASSUME NEW t \in AdminTasks, AskIfAdmin(t) PROVE RowFollows(i)
  <2>1. \E k : Goto(t, k)
    BY <1>11, Zenon DEF AskIfAdmin
  <2>2. Ended(i)
    BY <1>11, <2>1, OthersGoOn DEF AskIfAdmin, At, Tasks
  <2> QED
    BY <1>11, <2>2, <1>s DEF AskIfAdmin
<1>12. ASSUME NEW t \in AdminTasks, Write(t) PROVE RowFollows(i)
  <2> DEFINE j == task[t].target
             op == task[t].op
  <2>0. /\ task[t] \in Task /\ task[t].step = "write" /\ j \in Ids
        /\ op \in AllOperations \ {"signout", "create"}
    BY <1>12, <1>t, TasksRead DEF Write, At, Tasks
  <2>1. Ended(i)
    <3>1. \E k : Goto(t, k)
      BY <1>12, Zenon DEF Write
    <3> QED
      BY <2>0, <3>1, OthersGoOn DEF Tasks
  <2>2. CASE i # j \/ ~Exists(j)
    BY <1>12, <2>0, <2>1, <2>2, <1>t, <1>s DEF Write
  <2>3. CASE i = j /\ Exists(j)
    <3>1. users'[i] = Changed(op, users[i]) /\ users[i] \in Row /\ users[i] # None
      BY <1>12, <2>0, <2>3, <1>t, <1>r DEF Write, Exists
    <3>2. CASE op = "reset"
      <4>1. users'[i] = [users[i] EXCEPT !.password = users[i].password + 1]
        BY <3>1, <3>2 DEF Changed
      <4>2. EndingSessions(i)'
        <5>1. Goto(t, [task[t] EXCEPT !.step = "end"])
          BY <1>12, <2>0, <2>3, <3>2 DEF Write
        <5>2. task'[t] = [task[t] EXCEPT !.step = "end"]
          BY <5>1, <1>t DEF Goto, Tasks
        <5>3. MovedTo(task[t], "end")
          BY <2>0, TasksRead
        <5>4. task'[t].step = "end" /\ task'[t].target = i
          BY <2>3, <5>2, <5>3 DEF MovedTo
        <5> QED
          BY <5>4 DEF EndingSessions, Tasks
      <4> QED
        BY <2>1, <3>1, <4>1, <4>2 DEF RowFollows, Row
    <3>3. CASE op \in {"demote", "promote"}
      <4>1. \E role \in {"admin", "viewer"} : users'[i] = [users[i] EXCEPT !.role = role]
        BY <3>1, <3>3 DEF Changed
      <4> QED
        BY <2>1, <3>1, <4>1 DEF RowFollows, Row
    <3>4. CASE op = "toggle"
      <4>1. users'[i] = [users[i] EXCEPT !.enabled = FALSE]
        BY <3>1, <3>4 DEF Changed
      <4> QED
        BY <2>1, <3>1, <4>1 DEF RowFollows, Row
    <3>5. CASE op = "delete"
      BY <3>1, <3>5 DEF Changed
    <3> QED
      BY <2>0, <3>2, <3>3, <3>4, <3>5 DEF AllOperations
  <2> QED
    BY <2>2, <2>3
<1>13. ASSUME NEW t \in AdminTasks, EndSessions(t) PROVE RowFollows(i)
  <2>1. task[t].target \in Ids
    BY <1>13, <1>t, TasksRead DEF EndSessions, At, Tasks
  <2> QED
    BY <1>13, <2>1, <1>b DEF EndSessions, At, Tasks
<1>14. ASSUME NEW t \in AdminTasks, Restore(t) PROVE RowFollows(i)
  <2> DEFINE j == task[t].target
  <2>0. j \in Ids /\ task[t].step = "restore"
    BY <1>14, <1>t, TasksRead DEF Restore, At, Tasks
  <2>1. Ended(i)
    BY <1>14, <2>0, OthersGoOn, TasksWritten DEF Restore, Tasks
  <2>2. CASE i # j \/ ~Exists(j)
    BY <1>14, <2>0, <2>1, <2>2, <1>t, <1>s DEF Restore
  <2>3. CASE i = j /\ Exists(j)
    <3>1. users'[i] = [users[i] EXCEPT !.enabled = TRUE]
      BY <1>14, <2>0, <2>3, <1>t DEF Restore
    <3> QED
      BY <2>1, <2>3, <3>1, <1>r DEF RowFollows, Exists, Row
  <2> QED
    BY <2>2, <2>3
<1>15. ASSUME NEW t \in AdminTasks, Insert(t) PROVE RowFollows(i)
  <2>1. Ended(i)
    BY <1>15, OthersGoOn, TasksWritten DEF Insert, At, Tasks
  <2>2. CASE users'[i] = users[i]
    BY <2>1, <2>2, <1>s
  <2>3. CASE users'[i] # users[i]
    <3>1. i \notin used
      BY <1>15, <2>3, <1>t DEF Insert
    <3> QED
      BY <3>1 DEF TypeOK, RowFollows
  <2> QED
    BY <2>2, <2>3
<1>16. ASSUME NEW c \in cookies, Forget(c) PROVE RowFollows(i)
  BY <1>16, <1>s DEF Forget, Ended, EndingSessions
<1>17. CASE Crash
  BY <1>17, <1>s, <1>t DEF Crash, Ended
<1>18. CASE UNCHANGED vars
  BY <1>18, <1>s DEF vars, Ended, EndingSessions
<1> QED
  BY <1>1, <1>2, <1>3, <1>4, <1>5, <1>6, <1>7, <1>8, <1>9, <1>10, <1>11, <1>12, <1>13, <1>14,
     <1>15, <1>16, <1>17, <1>18 DEF Next, SetupStep, UserStep, AdminStep

-----------------------------------------------------------------------------
(* What a session is worth. *)

\* A cookie some browser holds, or one a sign-in has read and is about to mint.
Held(c) == c \in cookies \/ \E t \in Tasks : At(t, "checking") /\ task[t].cookie = c

\* A cookie names an account that was there, never an epoch yet to come; one of the
\* row's own epoch was minted on its password, a request about to end it aside.
SessionInv ==
    \A c \in Cookie : Held(c) =>
        /\ c.user \in used
        /\ Exists(c.user) => c.epoch <= users[c.user].epoch
        /\ crashes = 0 /\ Exists(c.user) /\ c.epoch = users[c.user].epoch
             /\ ~EndingSessions(c.user) => c.password = users[c.user].password

\* What a browser holds next it held, or a sign-in has just read it off the row
\* (login.rs, verify_credentials); ids are only ever given out.
LEMMA HeldStep ==
  ASSUME TypeOK, [Next]_vars
  PROVE  /\ used \subseteq used' /\ (crashes' = 0 => crashes = 0)
         /\ \A c \in Cookie : Held(c)' =>
              \/ Held(c)
              \/ /\ UNCHANGED <<users, used, crashes>> /\ Exists(c.user)
                 /\ c.epoch = users[c.user].epoch /\ c.password = users[c.user].password
<1> USE DEF Held
<1>t. task \in [Tasks -> Task] /\ crashes \in Nat
  BY BoundsAssumption DEF TypeOK
<1>g. ASSUME NEW t \in Tasks, NEW k, k.step # "checking", Goto(t, k), cookies' \subseteq cookies
      PROVE  \A c \in Cookie : Held(c)' => Held(c)
  BY <1>g, <1>t DEF Goto, At
<1>e. Idle.step # "checking"
  BY DEF Idle
<1>1. ASSUME NEW t \in SetupTasks, SetupStep(t)
      PROVE  /\ used \subseteq used' /\ crashes' = crashes
             /\ \A c \in Cookie : Held(c)' => Held(c)
  BY <1>1, <1>g, <1>e DEF SetupStep, BeginSetup, FinishSetup, Tasks
<1>2. ASSUME NEW t \in UserTasks, NEW i \in Ids, SignIn(t, i), NEW c \in Cookie, Held(c)', ~Held(c)
      PROVE  /\ UNCHANGED <<users, used, crashes>> /\ Exists(c.user)
             /\ c.epoch = users[c.user].epoch /\ c.password = users[c.user].password
  <2>1. c = [user |-> i, epoch |-> users[i].epoch, password |-> users[i].password]
    BY <1>2, <1>t DEF SignIn, Goto, At, Tasks
  <2> QED
    BY <1>2, <2>1 DEF SignIn
<1>3. ASSUME NEW t \in UserTasks, NEW i \in Ids, BeginOwnPassword(t, i)
      PROVE  \A c \in Cookie : Held(c)' => Held(c)
  <2>1. Goto(t, [step |-> "own write", target |-> i]) /\ cookies' = cookies
    BY <1>3, Zenon DEF BeginOwnPassword
  <2> QED
    BY <2>1, <1>g DEF Tasks
<1>4. ASSUME NEW t \in UserTasks, Mint(t), NEW c \in Cookie, Held(c)'
      PROVE  Held(c)
  BY <1>4, <1>t, <1>e DEF Mint, Goto, At, Tasks
<1>5. ASSUME NEW t \in UserTasks, WriteOwnPassword(t) \/ EndOwnSessions(t)
      PROVE  \A c \in Cookie : Held(c)' => Held(c)
  <2>1. cookies' = cookies /\ \E k : k.step # "checking" /\ Goto(t, k)
    BY <1>5, <1>e DEF WriteOwnPassword, EndOwnSessions
  <2> QED
    BY <2>1, <1>g DEF Tasks
<1>6. ASSUME NEW t \in AdminTasks, AdminStep(t)
      PROVE  /\ used \subseteq used' /\ crashes' = crashes
             /\ \A c \in Cookie : Held(c)' => Held(c)
  <2>0. task[t] \in Task /\ t \in Tasks
    BY <1>t DEF Tasks
  <2>1. ASSUME NEW op \in AllOperations, NEW actor \in Ids, NEW target \in Ids,
               Begin(t, op, actor, target)
        PROVE  \E k : k.step # "checking" /\ Goto(t, k)
    BY <2>1 DEF Begin, AllOperations
  <2>2. ASSUME ReadTarget(t) PROVE \E k : k.step # "checking" /\ Goto(t, k)
    <3>1. task[t].step = "read" /\ task[t].op \in {"toggle", "signout"}
      BY <2>0, <2>2, TasksRead DEF ReadTarget, At
    <3>2. \A x : x # "checking" => [task[t] EXCEPT !.step = x].step # "checking"
      BY <2>0, <3>1, TasksRead DEF MovedTo
    <3> QED
      BY <2>2, <3>1, <3>2, <1>e DEF ReadTarget
  <2>3. ASSUME CountAdmins(t) PROVE \E k : k.step # "checking" /\ Goto(t, k)
    <3>1. \A x : x # "checking" => [task[t] EXCEPT !.step = x].step # "checking"
      BY <2>0, <2>3, TasksRead DEF CountAdmins, At, MovedTo
    <3> QED
      BY <2>3, <3>1 DEF CountAdmins
  <2>4. ASSUME AskIfAdmin(t) PROVE \E k : k.step # "checking" /\ Goto(t, k)
    <3>1. \A x : x # "checking" => [task[t] EXCEPT !.step = x].step # "checking"
      BY <2>0, <2>4, TasksRead DEF AskIfAdmin, At, MovedTo
    <3> QED
      BY <2>4, <3>1, <1>e DEF AskIfAdmin
  <2>5. ASSUME Write(t) PROVE \E k : k.step # "checking" /\ Goto(t, k)
    <3>0. task[t].step = "write"
      BY <2>5 DEF Write, At
    <3>1. \A x : x # "checking" => [task[t] EXCEPT !.step = x].step # "checking"
      BY <2>0, <3>0, TasksRead DEF MovedTo
    <3> QED
      BY <2>5, <3>1, <1>e DEF Write
  <2>6. ASSUME EndSessions(t) \/ Restore(t) \/ Insert(t) PROVE \E k : k.step # "checking" /\ Goto(t, k)
    BY <2>6, <1>e DEF EndSessions, Restore, Insert
  <2>7. \E k : k.step # "checking" /\ Goto(t, k)
    BY <1>6, <2>1, <2>2, <2>3, <2>4, <2>5, <2>6 DEF AdminStep
  <2>8. used \subseteq used' /\ UNCHANGED <<cookies, crashes>>
    BY <1>6, Zenon DEF AdminStep, Begin, ReadTarget, CountAdmins, AskIfAdmin, Write, EndSessions,
                Restore, Insert
  <2> QED
    BY <2>0, <2>7, <2>8, <1>g
<1>7. ASSUME NEW c \in cookies, Forget(c)
      PROVE  \A d \in Cookie : Held(d)' => Held(d)
  BY <1>7 DEF Forget, At
<1>8. CASE Crash
  BY <1>8, <1>t, <1>e DEF Crash, At
<1>9. CASE UNCHANGED vars
  BY <1>9 DEF vars, At
<1> QED
  BY <1>1, <1>2, <1>3, <1>4, <1>5, <1>6, <1>7, <1>8, <1>9
  DEF Next, UserStep, SignIn, BeginOwnPassword, Mint, WriteOwnPassword, EndOwnSessions, Forget

\* Each statement keeps SessionInv: a password is set before its sessions end, and
\* in between the handler that set it is still on its way (SessionsEnd in auth.rs).
LEMMA SessionStep == TypeOK /\ SessionInv /\ [Next]_vars => SessionInv'
<1> SUFFICES ASSUME TypeOK, SessionInv, [Next]_vars, NEW c \in Cookie, Held(c)'
             PROVE  /\ c.user \in used'
                    /\ Exists(c.user)' => c.epoch <= users'[c.user].epoch
                    /\ crashes' = 0 /\ Exists(c.user)' /\ c.epoch = users'[c.user].epoch
                         /\ ~EndingSessions(c.user)' => c.password = users'[c.user].password
  BY DEF SessionInv, Exists
<1> DEFINE i == c.user
<1>1. i \in Ids /\ c.epoch \in Nat
  BY DEF Cookie
<1>2. ASSUME NEW u, u \in [Ids -> Row \cup {None}], u[i] # None PROVE u[i].epoch \in Nat
  BY <1>1, <1>2 DEF Row
<1>3. /\ users \in [Ids -> Row \cup {None}] /\ users' \in [Ids -> Row \cup {None}]
      /\ Exists(i) => users[i].epoch \in Nat
      /\ Exists(i)' => users'[i].epoch \in Nat
  BY <1>2, TypeStep DEF TypeOK, Exists
<1>4. CASE /\ UNCHANGED <<users, used, crashes>> /\ Exists(i)
           /\ c.epoch = users[i].epoch /\ c.password = users[i].password
  BY <1>1, <1>3, <1>4 DEF TypeOK, Exists
<1>5. CASE Held(c)
  <2>1. /\ i \in used
        /\ Exists(i) => c.epoch <= users[i].epoch
        /\ crashes = 0 /\ Exists(i) /\ c.epoch = users[i].epoch
             /\ ~EndingSessions(i) => c.password = users[i].password
    BY <1>5 DEF SessionInv
  <2>2. used \subseteq used' /\ (crashes' = 0 => crashes = 0)
    BY HeldStep
  <2>3. RowFollows(i)
    BY <1>1, RowStep
  <2> QED
    BY <1>1, <1>3, <2>1, <2>2, <2>3 DEF RowFollows, Ended, Exists
<1> QED
  BY <1>4, <1>5, HeldStep

\* In every reachable state SessionInv holds: no cookie is ahead of its account's epoch,
\* and one at that epoch is of its present password or waits for it to end.
THEOREM SessionsKnown == Spec => [](TypeOK /\ SessionInv)
<1>1. Init => SessionInv
  BY DEF Init, SessionInv, Held, At, Idle
<1> QED
  BY <1>1, AccountsTypeCorrect, SessionStep, PTL DEF Spec

\* A cookie that is accepted was minted on the password the account has now, however
\* many requests write passwords and end sessions at once, as long as the service
\* does not die between the two (account.rs, post_account_password; accounts.rs,
\* post_account_reset): see SessionFollowsPassword.
THEOREM SessionsFollowPasswords == Spec => []SessionFollowsPassword
<1>1. TypeOK /\ SessionInv => SessionFollowsPassword
  BY DEF TypeOK, SessionInv, SessionFollowsPassword, OldSessionsEnd, Accepted, Held
<1> QED
  BY <1>1, SessionsKnown, PTL

\* A cookie that is refused for its epoch, or because its account is gone, is refused
\* ever after: epochs only grow and an id is never given out twice (db.rs,
\* AUTOINCREMENT).  Of one refused because its account is suspended nothing is said:
\* it is accepted again when the service stops before the sessions are ended and the
\* account is restored.
THEOREM RefusedForever == Spec => RefusedForGood
<1>1. ASSUME TypeOK, SessionInv, [Next]_vars, NEW c \in cookies \cap cookies',
             ~Exists(c.user) \/ c.epoch < users[c.user].epoch
      PROVE  ~Accepted(c)'
  <2> DEFINE i == c.user
  <2>1. c \in Cookie /\ i \in Ids /\ c.epoch \in Nat
    BY <1>1 DEF TypeOK, Cookie
  <2>2. i \in used
    BY <1>1, <2>1 DEF SessionInv, Held
  <2>3. RowFollows(i)
    BY <1>1, <2>1, RowStep
  <2>4. TypeOK'
    BY <1>1, TypeStep
  <2>5. /\ Exists(i) => users[i].epoch \in Nat
        /\ Exists(i)' => users'[i].epoch \in Nat
    <3>1. ASSUME NEW u, u \in [Ids -> Row \cup {None}], u[i] # None PROVE u[i].epoch \in Nat
      BY <2>1, <3>1 DEF Row
    <3> QED
      BY <1>1, <2>4, <3>1 DEF TypeOK, Exists
  <2> QED
    BY <1>1, <2>1, <2>2, <2>3, <2>5 DEF RowFollows, Accepted, Exists
<1>2. TypeOK /\ SessionInv /\ [Next]_vars =>
        [\A c \in cookies \cap cookies' :
           (~Exists(c.user) \/ c.epoch < users[c.user].epoch) => ~Accepted(c)']_vars
  BY <1>1
<1> QED
  BY <1>2, SessionsKnown, PTL DEF Spec, RefusedForGood

-----------------------------------------------------------------------------
(* That an administrator remains. *)

\* The sole administrator at work, when requests to /accounts come one at a time.
OneAdminAtATime == \A s, t \in AdminTasks : s = t

Takes(t) == At(t, "write") /\ task[t].op \in {"demote", "toggle", "delete"}

\* The steps of an administrator's request in flight.
AdminSteps == {"read", "count", "is admin", "write", "end", "restore", "insert"}

\* Nobody administers an installation that was never set up; what would_orphan found
\* still holds when the statement it allows is about to run.
AdminInv ==
    /\ AnAdminRemains
    /\ \A t \in AdminTasks :
         /\ task[t].step \in AdminSteps => used # {}
         /\ Takes(t) => OtherEnabledAdmins(task[t].target) # {}

\* A step of anybody but an administrator's request.
StepOfOthers ==
    \/ \E t \in SetupTasks : SetupStep(t)
    \/ \E t \in UserTasks : UserStep(t)
    \/ \E c \in cookies : Forget(c)
    \/ Crash
    \/ UNCHANGED vars

\* The statements that leave a row's role and its being enabled alone, or better off.
LEMMA AdminRow ==
  ASSUME NEW row \in Row, row.role = "admin", row.enabled
  PROVE  /\ LET new == [row EXCEPT !.epoch = row.epoch + 1] IN new.role = "admin" /\ new.enabled
         /\ LET new == [row EXCEPT !.password = row.password + 1] IN new.role = "admin" /\ new.enabled
         /\ LET new == [row EXCEPT !.enabled = TRUE] IN new.role = "admin" /\ new.enabled
         /\ LET new == [row EXCEPT !.role = "admin"] IN new.role = "admin" /\ new.enabled
BY DEF Row

\* No step but the statement of a demotion, a suspension or a deletion takes away an
\* enabled administrator, and each takes the one it is about (routes/accounts.rs).
LEMMA AdminsStay ==
  ASSUME TypeOK, NEW i \in Ids, EnabledAdmin(i),
         \/ StepOfOthers
         \/ \E t \in AdminTasks : AdminStep(t) /\ (Takes(t) => task[t].target # i)
  PROVE  EnabledAdmin(i)'
<1>t. /\ users \in [Ids -> Row \cup {None}] /\ used \subseteq Ids /\ i \in used
      /\ task \in [Tasks -> Task] /\ Exists(i)
      /\ users[i] \in Row /\ users[i].role = "admin" /\ users[i].enabled
  BY DEF TypeOK, EnabledAdmin, Exists
<1>k. ASSUME users'[i] = users[i] PROVE EnabledAdmin(i)'
  BY <1>k DEF EnabledAdmin, Exists
<1>r. ASSUME users'[i] \in Row, users'[i].role = "admin", users'[i].enabled
      PROVE  EnabledAdmin(i)'
  BY <1>r, RowsWritten DEF EnabledAdmin, Exists
<1>1. ASSUME NEW t \in SetupTasks, SetupStep(t) PROVE EnabledAdmin(i)'
  BY <1>1, <1>t, <1>k DEF SetupStep, BeginSetup, FinishSetup
<1>2. ASSUME NEW t \in UserTasks, UserStep(t) PROVE EnabledAdmin(i)'
  <2>1. CASE WriteOwnPassword(t)
    <3>1. \/ users'[i] = users[i]
          \/ users'[i] = [users[i] EXCEPT !.password = users[i].password + 1]
      BY <2>1, <1>t DEF WriteOwnPassword
    <3> QED
      BY <3>1, <1>t, <1>k, <1>r, AdminRow, RowsWritten
  <2>2. CASE EndOwnSessions(t)
    <3>1. \/ users'[i] = users[i]
          \/ users'[i] = [users[i] EXCEPT !.epoch = users[i].epoch + 1]
      BY <2>2, <1>t DEF EndOwnSessions
    <3> QED
      BY <3>1, <1>t, <1>k, <1>r, AdminRow, RowsWritten
  <2>3. CASE users' = users
    BY <2>3, <1>k
  <2> QED
    BY <1>2, <2>1, <2>2, <2>3, Zenon DEF UserStep, SignIn, BeginOwnPassword, Mint
<1>3. ASSUME NEW t \in AdminTasks, AdminStep(t), Takes(t) => task[t].target # i
      PROVE  EnabledAdmin(i)'
  <2>1. CASE Write(t)
    <3> DEFINE op == task[t].op
               j == task[t].target
    <3>1. task[t].step = "write" /\ j \in Ids /\ op \in AllOperations \ {"signout", "create"}
      BY <2>1, <1>t, TasksRead DEF Write, At, Tasks
    <3>2. CASE i # j
      BY <2>1, <3>2, <1>t, <1>k DEF Write
    <3>3. CASE i = j
      <4>1. op \in {"promote", "reset"}
        BY <1>3, <2>1, <3>1, <3>3 DEF Takes, At, AllOperations
      <4>2. users'[i] = Changed(op, users[i])
        BY <2>1, <3>1, <3>3, <1>t DEF Write
      <4>3. \/ users'[i] = [users[i] EXCEPT !.role = "admin"]
            \/ users'[i] = [users[i] EXCEPT !.password = users[i].password + 1]
        BY <4>1, <4>2 DEF Changed
      <4> QED
        BY <4>3, <1>t, <1>r, AdminRow, RowsWritten
    <3> QED
      BY <3>2, <3>3
  <2>2. CASE EndSessions(t)
    <3>1. \/ users'[i] = users[i]
          \/ users'[i] = [users[i] EXCEPT !.epoch = users[i].epoch + 1]
      BY <2>2, <1>t DEF EndSessions
    <3> QED
      BY <3>1, <1>t, <1>k, <1>r, AdminRow, RowsWritten
  <2>3. CASE Restore(t)
    <3>1. \/ users'[i] = users[i]
          \/ users'[i] = [users[i] EXCEPT !.enabled = TRUE]
      BY <2>3, <1>t DEF Restore
    <3> QED
      BY <3>1, <1>t, <1>k, <1>r, AdminRow, RowsWritten
  <2>4. CASE Insert(t)
    BY <2>4, <1>t, <1>k DEF Insert
  <2>5. CASE users' = users
    BY <2>5, <1>k
  <2> QED
    BY <1>3, <2>1, <2>2, <2>3, <2>4, <2>5, Zenon
    DEF AdminStep, Begin, ReadTarget, CountAdmins, AskIfAdmin
<1>4. CASE (\E c \in cookies : Forget(c)) \/ Crash \/ UNCHANGED vars
  BY <1>4, <1>k DEF Forget, Crash, vars
<1> QED
  BY <1>1, <1>2, <1>3, <1>4 DEF StepOfOthers

\* Steps of other handlers leave an administrator's request where it is.
LEMMA AtWork ==
  ASSUME TypeOK, NEW t \in AdminTasks,
         task'[t].step \in AdminSteps, StepOfOthers
  PROVE  task'[t] = task[t]
<1> USE DEF AdminSteps
<1>t. task \in [Tasks -> Task] /\ t \in Tasks
  BY DEF TypeOK, Tasks
<1>g. ASSUME NEW s, NEW k, Goto(s, k), k.step \notin AdminSteps
      PROVE  task'[t] = task[t]
  BY <1>g, <1>t DEF Goto
<1>e. Idle.step \notin AdminSteps
  BY DEF Idle
<1>1. ASSUME NEW s \in SetupTasks, SetupStep(s) PROVE task'[t] = task[t]
  BY <1>1, <1>e, <1>g DEF SetupStep, BeginSetup, FinishSetup
<1>2. ASSUME NEW s \in UserTasks, UserStep(s) PROVE task'[t] = task[t]
  <2>1. ASSUME NEW i \in Ids, SignIn(s, i) PROVE task'[t] = task[t]
    BY <2>1, <1>g DEF SignIn
  <2>2. ASSUME NEW i \in Ids, BeginOwnPassword(s, i) PROVE task'[t] = task[t]
    <3>1. Goto(s, [step |-> "own write", target |-> i])
      BY <2>2, Zenon DEF BeginOwnPassword
    <3> QED
      BY <3>1, <1>g
  <2>3. CASE Mint(s)
    BY <2>3, <1>e, <1>g DEF Mint
  <2>4. CASE WriteOwnPassword(s)
    BY <2>4, <1>e, <1>g DEF WriteOwnPassword
  <2>5. CASE EndOwnSessions(s)
    BY <2>5, <1>e, <1>g DEF EndOwnSessions
  <2> QED
    BY <1>2, <2>1, <2>2, <2>3, <2>4, <2>5 DEF UserStep
<1>3. CASE Crash
  BY <1>3, <1>t, <1>e DEF Crash
<1>4. CASE (\E c \in cookies : Forget(c)) \/ UNCHANGED vars
  BY <1>4 DEF Forget, vars
<1> QED
  BY <1>1, <1>2, <1>3, <1>4 DEF StepOfOthers

\* With one administrator at a time, who is left when a request counts is left when
\* it writes; a request that counts nobody else is refused, or is about somebody who
\* is not an enabled administrator.
LEMMA AdminInvStep == OneAdminAtATime /\ TypeOK /\ AdminInv /\ [Next]_vars => AdminInv'
<1> SUFFICES ASSUME OneAdminAtATime, TypeOK, AdminInv, [Next]_vars PROVE AdminInv'
  OBVIOUS
<1> USE DEF AdminSteps
<1>t. /\ task \in [Tasks -> Task] /\ used \subseteq Ids /\ AdminTasks \subseteq Tasks
      /\ users \in [Ids -> Row \cup {None}]
      /\ used # {} => \E i \in Ids : EnabledAdmin(i)
      /\ \A t \in AdminTasks : /\ task[t].step \in AdminSteps => used # {}
                               /\ Takes(t) => OtherEnabledAdmins(task[t].target) # {}
  BY DEF TypeOK, Tasks, AdminInv, AnAdminRemains
<1>e. Idle.step = "idle"
  BY DEF Idle
<1>1. CASE StepOfOthers
  <2>1. AnAdminRemains'
    <3>1. CASE used # {}
      BY <3>1, <1>1, <1>t, AdminsStay DEF AnAdminRemains
    <3>2. CASE used = {} /\ used' = used
      BY <3>2 DEF AnAdminRemains
    <3>3. ASSUME NEW t \in SetupTasks, FinishSetup(t), used' # used PROVE \E i \in Ids : EnabledAdmin(i)'
      <4>1. PICK i \in Ids : users' = [users EXCEPT ![i] = NewRow("admin")]
        BY <3>3 DEF FinishSetup
      <4>2. users'[i] = NewRow("admin")
        BY <4>1, <1>t
      <4>3. NewRow("admin") \in Row /\ NewRow("admin").role = "admin" /\ NewRow("admin").enabled
        BY DEF NewRow, Row
      <4> QED
        BY <4>2, <4>3, RowsWritten DEF EnabledAdmin, Exists
    <3>4. CASE \E t \in SetupTasks : FinishSetup(t) /\ used' # used
      BY <3>3, <3>4 DEF AnAdminRemains
    <3> QED
      BY <1>1, <3>1, <3>2, <3>4, Zenon DEF StepOfOthers, SetupStep, BeginSetup, UserStep, SignIn,
         BeginOwnPassword, Mint, WriteOwnPassword, EndOwnSessions, Forget, Crash, vars
  <2>2. used \subseteq used'
    BY HeldStep
  <2>3. ASSUME NEW t \in AdminTasks, task'[t].step \in AdminSteps
        PROVE  /\ used' # {}
               /\ Takes(t)' => OtherEnabledAdmins(task[t].target)' # {}
    <3>1. task'[t] = task[t]
      BY <1>1, <2>3, AtWork
    <3>2. used' # {}
      BY <3>1, <2>2, <2>3, <1>t
    <3>3. ASSUME Takes(t)' PROVE OtherEnabledAdmins(task[t].target)' # {}
      <4>1. Takes(t)
        BY <3>1, <3>3 DEF Takes, At
      <4>2. PICK j \in Ids \ {task[t].target} : EnabledAdmin(j)
        BY <4>1, <1>t DEF OtherEnabledAdmins
      <4>3. EnabledAdmin(j)'
        BY <1>1, <4>2, AdminsStay
      <4> QED
        BY <3>1, <4>2, <4>3 DEF OtherEnabledAdmins, EnabledAdmin, Exists
    <3> QED
      BY <3>2, <3>3
  <2> QED
    BY <2>1, <2>3 DEF AdminInv, Takes, At
<1>2. ASSUME NEW t \in AdminTasks, AdminStep(t),
             used # {},
             \E i \in Ids : EnabledAdmin(i)',
             Takes(t)' => OtherEnabledAdmins(task[t].target)' # {}
      PROVE  AdminInv'
  <2>1. \A s \in AdminTasks : s = t
    BY DEF OneAdminAtATime
  <2>2. used \subseteq used'
    BY HeldStep
  <2> QED
    BY <1>2, <2>1, <2>2 DEF AdminInv, AnAdminRemains
<1>3. ASSUME NEW t \in AdminTasks, AdminStep(t) PROVE AdminInv'
  <2>0. task[t] \in Task /\ t \in Tasks
    BY <1>t
  <2>s. ASSUME used # {}, ~Takes(t) PROVE \E i \in Ids : EnabledAdmin(i)'
    BY <1>3, <2>s, <1>t, AdminsStay
  <2>i. ASSUME used # {}, ~Takes(t), ~At(t, "write")' PROVE AdminInv'
    BY <1>3, <2>i, <2>s, <1>2 DEF Takes, At
  <2>g. ASSUME NEW k, Goto(t, k), k.step # "write" PROVE ~At(t, "write")'
    BY <2>g, <1>t DEF Goto, At
  <2>1. ASSUME NEW op \in AllOperations, NEW actor \in Ids, NEW target \in Ids,
               Begin(t, op, actor, target)
        PROVE  AdminInv'
    <3>1. used # {} /\ At(t, "idle")
      BY <2>1, <1>e DEF Begin, At
    <3>2. \E k : Goto(t, k) /\ (k.step = "write" => k.op \in {"promote", "reset"})
      BY <2>1 DEF Begin, AllOperations
    <3>3. ~Takes(t)'
      BY <3>2, <1>t DEF Goto, Takes, At
    <3> QED
      BY <1>3, <3>1, <3>3, <2>s, <1>2 DEF Takes, At
  <2>2. CASE ReadTarget(t)
    <3>1. task[t].step = "read" /\ task[t].op \in {"toggle", "signout"} /\ used # {}
      BY <2>0, <2>2, <1>t, TasksRead DEF ReadTarget, At
    <3>2. \A x : x # "write" => [task[t] EXCEPT !.step = x].step # "write"
      BY <2>0, <3>1, TasksRead DEF MovedTo
    <3>3. \E k : Goto(t, k) /\ k.step # "write"
      BY <2>2, <3>1, <3>2, <1>e DEF ReadTarget
    <3> QED
      BY <3>1, <3>3, <2>g, <2>i DEF Takes, At
  <2>3. CASE CountAdmins(t)
    <3> DEFINE i == task[t].target
    <3>1. task[t].step = "count" /\ used # {} /\ ~Takes(t)
      BY <2>0, <2>3, <1>t DEF CountAdmins, Takes, At
    <3>2. task'[t].target = i /\ users' = users
      <4>1. \E x : Goto(t, [task[t] EXCEPT !.step = x])
        BY <2>3, Zenon DEF CountAdmins
      <4>2. users' = users
        BY <2>3, Zenon DEF CountAdmins
      <4>3. \A x : [task[t] EXCEPT !.step = x].target = i
        BY <2>0, <3>1, TasksRead DEF MovedTo
      <4> QED
        BY <2>0, <4>1, <4>2, <4>3, <1>t DEF Goto
    <3>3. CASE OtherEnabledAdmins(i) # {}
      <4>1. OtherEnabledAdmins(task[t].target)' # {}
        BY <3>2, <3>3 DEF OtherEnabledAdmins, EnabledAdmin, Exists
      <4> QED
        BY <1>3, <3>1, <4>1, <2>s, <1>2
    <3>4. CASE OtherEnabledAdmins(i) = {}
      <4>1. Goto(t, [task[t] EXCEPT !.step = "is admin"])
        BY <2>3, <3>4 DEF CountAdmins
      <4>2. [task[t] EXCEPT !.step = "is admin"].step = "is admin"
        BY <2>0, <3>1, TasksRead DEF MovedTo
      <4> QED
        BY <3>1, <4>1, <4>2, <2>g, <2>i
    <3> QED
      BY <3>3, <3>4
  <2>4. CASE AskIfAdmin(t)
    <3> DEFINE i == task[t].target
    <3>1. task[t].step = "is admin" /\ used # {} /\ ~Takes(t)
      BY <2>0, <2>4, <1>t DEF AskIfAdmin, Takes, At
    <3>2. CASE EnabledAdmin(i)
      BY <2>4, <3>1, <3>2, <1>e, <2>g, <2>i DEF AskIfAdmin
    <3>3. CASE ~EnabledAdmin(i)
      <4>1. task'[t].target = i /\ users' = users
        BY <2>0, <2>4, <3>1, <3>3, <1>t, TasksRead DEF AskIfAdmin, Goto, MovedTo
      <4>2. OtherEnabledAdmins(task[t].target)' # {}
        BY <3>1, <3>3, <4>1, <1>t DEF OtherEnabledAdmins, EnabledAdmin, Exists
      <4> QED
        BY <1>3, <3>1, <4>2, <2>s, <1>2
    <3> QED
      BY <3>2, <3>3
  <2>5. CASE Write(t)
    <3>1. task[t].step = "write" /\ used # {}
      BY <2>5, <1>t DEF Write, At
    <3>2. \A x : x # "write" => [task[t] EXCEPT !.step = x].step # "write"
      BY <2>0, <3>1, TasksRead DEF MovedTo
    <3>3. ~At(t, "write")'
      BY <2>5, <3>2, <1>e, <2>g DEF Write
    <3>4. CASE Takes(t)
      <4>1. PICK j \in Ids \ {task[t].target} : EnabledAdmin(j)
        BY <3>4, <1>t DEF OtherEnabledAdmins
      <4>2. EnabledAdmin(j)'
        BY <1>3, <4>1, AdminsStay
      <4> QED
        BY <1>3, <3>1, <3>3, <4>2, <1>2 DEF Takes, At
    <3>5. CASE ~Takes(t)
      BY <3>1, <3>3, <3>5, <2>i
    <3> QED
      BY <3>4, <3>5
  <2>6. CASE EndSessions(t) \/ Restore(t)
    <3>1. task[t].step \in {"end", "restore"} /\ used # {} /\ ~Takes(t)
      BY <2>6, <1>t DEF EndSessions, Restore, Takes, At
    <3> QED
      BY <2>6, <3>1, <1>e, <2>g, <2>i DEF EndSessions, Restore
  <2>7. CASE Insert(t)
    <3>1. task[t].step = "insert" /\ used # {} /\ ~Takes(t)
      BY <2>7, <1>t DEF Insert, Takes, At
    <3> QED
      BY <2>7, <3>1, <1>e, <2>g, <2>i DEF Insert
  <2> QED
    BY <1>3, <2>1, <2>2, <2>3, <2>4, <2>5, <2>6, <2>7 DEF AdminStep
<1> QED
  BY <1>1, <1>3 DEF Next, StepOfOthers

\* With one administrator's request at a time, the check of would_orphan still holds
\* when the statement it protects is reached (AdminInv).
THEOREM AdminsKnown == OneAdminAtATime /\ Spec => [](TypeOK /\ AdminInv)
<1> SUFFICES ASSUME OneAdminAtATime PROVE Spec => [](TypeOK /\ AdminInv)
  OBVIOUS
<1>1. ASSUME Init PROVE AdminInv
  <2>1. \A t \in AdminTasks : task[t].step = "idle"
    BY <1>1 DEF Init, Idle, Tasks
  <2> QED
    BY <1>1, <2>1 DEF Init, AdminInv, AnAdminRemains, Takes, At, AdminSteps
<1>2. TypeOK /\ AdminInv /\ [Next]_vars => AdminInv'
  BY AdminInvStep
<1> QED
  BY <1>1, <1>2, AccountsTypeCorrect, PTL DEF Spec

\* As long as administrators' requests come one at a time, whatever sign-ins, password
\* changes, first-run setups and deaths of the service come between their statements,
\* an enabled administrator remains (routes/accounts.rs, would_orphan).
THEOREM AdminRemainsOneAtATime == OneAdminAtATime /\ Spec => []AnAdminRemains
<1>1. TypeOK /\ AdminInv => AnAdminRemains
  BY DEF AdminInv
<1> QED
  BY <1>1, AdminsKnown, PTL

\* With that, the setup page makes the first account and no other (setup.rs): there is
\* an account for its insert to find.
THEOREM SetupOnlyTheFirst == OneAdminAtATime /\ Spec => SetupMakesTheFirstOnly
<1>1. ASSUME TypeOK, AdminInv, [Next]_vars, used # {}, used' # used,
             NEW s \in SetupTasks, At(s, "setup"), task'[s] = Idle
      PROVE  FALSE
  <2>1. PICK i \in Ids : EnabledAdmin(i)
    BY <1>1 DEF AdminInv, AnAdminRemains
  <2>2. CASE \E t \in SetupTasks : FinishSetup(t)
    BY <1>1, <2>1, <2>2 DEF FinishSetup, EnabledAdmin
  <2>3. CASE \E t \in AdminTasks : Insert(t)
    BY <1>1, <2>3 DEF Insert, Goto, At, Idle, TypeOK, Tasks
  <2>4. ASSUME NEW t \in SetupTasks, BeginSetup(t) PROVE FALSE
    BY <1>1, <2>4 DEF BeginSetup
  <2>5. ASSUME NEW t \in UserTasks, UserStep(t) PROVE FALSE
    BY <1>1, <2>5, Zenon DEF UserStep, SignIn, BeginOwnPassword, Mint, WriteOwnPassword,
       EndOwnSessions
  <2>6. ASSUME NEW t \in AdminTasks, AdminStep(t), ~Insert(t) PROVE FALSE
    BY <1>1, <2>6, Zenon DEF AdminStep, Begin, ReadTarget, CountAdmins, AskIfAdmin, Write,
       EndSessions, Restore
  <2>7. CASE (\E c \in cookies : Forget(c)) \/ Crash \/ UNCHANGED vars
    BY <1>1, <2>7 DEF Forget, Crash, vars
  <2> QED
    BY <1>1, <2>2, <2>3, <2>4, <2>5, <2>6, <2>7, Zenon DEF Next, SetupStep
<1>2. TypeOK /\ AdminInv /\ [Next]_vars =>
        [(\E t \in SetupTasks : At(t, "setup") /\ task'[t] = Idle) /\ used # {}
           => used' = used]_vars
  BY <1>1
<1> QED
  BY <1>2, AdminsKnown, PTL DEF Spec, SetupMakesTheFirstOnly

-----------------------------------------------------------------------------
(* Challenges and clearances: the inductive invariant.                       *)

\* A challenge is judged once: never before it is issued, nor while it waits.
Unjudged ==
    \A id \in ChallengeIds :
        /\ judged[id] <= 1
        /\ id > issued \/ id \in DOMAIN pending => judged[id] = 0

\* A clearance has at most what is left of the time since it was earned.
Earned ==
    \A c \in Clients : clearance[c] # NoClearance => clearance[c] + since[c] <= ClearanceTtl

\* The workers between making room and putting in, and those of one address.
Drawing == {w \in Workers : worker[w].step = "draw"}
DrawingFor(c) == {w \in Drawing : worker[w].client = c}

\* Every worker that draws has found room: what waits and what is drawn exceed the
\* caps by no more than the workers who found the same room.
Room ==
    /\ Cardinality(DOMAIN pending) + Cardinality(Drawing) <= MaxPending + Cardinality(Workers) - 1
    /\ \A c \in Clients :
         Cardinality(Own(c)) + Cardinality(DrawingFor(c))
           <= MaxPendingPerClient + Cardinality(Workers) - 1

-----------------------------------------------------------------------------
(* Shapes.                                                                   *)

Step == {NoOne} \cup [step : {"issue", "draw"}, client : Clients]

\* What a task between the two lock sections of issue remembers.
LEMMA StepsRead ==
  ASSUME NEW k \in Step
  PROVE  /\ k.step \in {"idle", "issue", "draw"}
         /\ k.step \in {"issue", "draw"} => k.client \in Clients
         /\ k.step = "issue" => /\ [k EXCEPT !.step = "draw"] \in Step
                                /\ [k EXCEPT !.step = "draw"].step = "draw"
                                /\ [k EXCEPT !.step = "draw"].client = k.client
         /\ \A c \in Clients : [step |-> "issue", client |-> c] \in Step
         /\ NoOne \in Step /\ NoOne.step = "idle"
BY DEF Step, NoOne

\* The store with some of its challenges out of it.
LEMMA Kept ==
  ASSUME ChallengesTypeOK, NEW ids, ids \subseteq DOMAIN pending, pending' = Keep(ids)
  PROVE  /\ DOMAIN pending' = ids
         /\ \A id \in ids : pending'[id] = pending[id]
BY DEF Keep

\* Every store, worker and clearance keeps its shape (challenge.rs).
LEMMA ChallengesTypeStep == ChallengesTypeOK /\ [ChallengesNext]_challengeVars => ChallengesTypeOK'
<1> SUFFICES ASSUME ChallengesTypeOK, [ChallengesNext]_challengeVars PROVE ChallengesTypeOK'
  OBVIOUS
<1>t. /\ issued \in 0 .. MaxIssued /\ issued \in Nat
      /\ DOMAIN pending \subseteq 1 .. issued
      /\ \A id \in DOMAIN pending : pending[id] \in Pending
      /\ worker \in [Workers -> Step]
      /\ clearance \in [Clients -> NoClearance .. ClearanceTtl]
      /\ let \in SUBSET Clients
      /\ judged \in [ChallengeIds -> Nat]
      /\ since \in [Clients -> 0 .. Never]
  BY ChallengesAssumption DEF ChallengesTypeOK, Step
<1>k. ASSUME NEW ids, ids \subseteq DOMAIN pending, pending' = Keep(ids) \/ pending' = pending
      PROVE  /\ DOMAIN pending' \subseteq 1 .. issued
             /\ \A id \in DOMAIN pending' : pending'[id] \in Pending
  BY <1>t, <1>k, Kept
<1>r. Retained \subseteq DOMAIN pending
  BY DEF Retained
<1>w. ASSUME NEW w \in Workers, NEW k \in Step, worker' = [worker EXCEPT ![w] = k]
      PROVE  worker' \in [Workers -> Step]
  BY <1>t, <1>w
<1>1. ASSUME NEW w \in Workers, NEW client \in Clients, Challenge(w, client) PROVE ChallengesTypeOK'
  <2>1. worker' \in [Workers -> Step]
    BY <1>1, <1>w DEF Challenge, Step
  <2> QED
    BY <1>1, <2>1, <1>t DEF Challenge, ChallengesTypeOK, Step
<1>2. ASSUME NEW w \in Workers, MakeRoom(w) PROVE ChallengesTypeOK'
  <2>1. worker[w] \in Step /\ worker[w].step = "issue"
    BY <1>2, <1>t DEF MakeRoom
  <2>2. worker' \in [Workers -> Step]
    <3>1. \/ worker' = [worker EXCEPT ![w] = NoOne]
          \/ worker' = [worker EXCEPT ![w] = [worker[w] EXCEPT !.step = "draw"]]
      BY <1>2 DEF MakeRoom
    <3> QED
      BY <2>1, <3>1, <1>w, StepsRead
  <2>3. \E ids : ids \subseteq DOMAIN pending /\ pending' = Keep(ids)
    <3>1. CASE pending' = Keep(Retained)
      BY <1>r, <3>1
    <3>2. ASSUME NEW gone, pending' = Keep(Retained \ gone)
          PROVE  \E ids : ids \subseteq DOMAIN pending /\ pending' = Keep(ids)
      BY <1>r, <3>2
    <3> QED
      BY <1>2, <3>1, <3>2, Zenon DEF MakeRoom
  <2>4. UNCHANGED <<issued, clearance, let, judged, since>>
    BY <1>2 DEF MakeRoom
  <2> QED
    BY <2>2, <2>3, <2>4, <1>t, <1>k DEF ChallengesTypeOK, Step
<1>3. ASSUME NEW w \in Workers, PutIn(w) PROVE ChallengesTypeOK'
  <2>1. /\ worker[w] \in Step /\ worker[w].client \in Clients
        /\ issued' = issued + 1 /\ issued < MaxIssued
        /\ worker' = [worker EXCEPT ![w] = NoOne]
        /\ UNCHANGED <<clearance, let, judged, since>>
    BY <1>3, <1>t, StepsRead DEF PutIn
  <2>2. worker' \in [Workers -> Step]
    BY <2>1, <1>w, StepsRead
  <2>3. issued' \in 0 .. MaxIssued /\ 1 .. issued \subseteq 1 .. issued' /\ issued' \in 1 .. issued'
    BY <2>1, <1>t, ChallengesAssumption
  <2>4. [client |-> worker[w].client, left |-> ChallengeTtl] \in Pending
    BY <2>1, ChallengesAssumption DEF Pending
  <2>5. DOMAIN pending' = DOMAIN pending \cup {issued'}
    BY <1>3 DEF PutIn
  <2>6. \A id \in DOMAIN pending' : pending'[id] \in Pending
    BY <1>3, <2>4, <1>t DEF PutIn
  <2> QED
    BY <2>1, <2>2, <2>3, <2>5, <2>6, <1>t DEF ChallengesTypeOK, Step
<1>4. ASSUME NEW w \in Workers, NEW client \in Clients, NEW id \in 1 .. issued, NEW right \in BOOLEAN,
             Submit(w, client, id, right)
      PROVE  ChallengesTypeOK'
  <2>1. UNCHANGED <<issued, let>>
    BY <1>4 DEF Submit
  <2>2. pending' = pending \/ pending' = Keep(DOMAIN pending \ {id})
    BY <1>4 DEF Submit, UsedUp
  <2>3. judged' \in [ChallengeIds -> Nat]
    <3>1. judged' = judged \/ judged' = [judged EXCEPT ![id] = judged[id] + 1]
      BY <1>4 DEF Submit
    <3>2. id \in ChallengeIds
      BY <1>t, ChallengesAssumption DEF ChallengeIds
    <3> QED
      BY <3>1, <3>2, <1>t
  <2>4. clearance' \in [Clients -> NoClearance .. ClearanceTtl] /\ since' \in [Clients -> 0 .. Never]
    <3>1. \/ UNCHANGED <<clearance, since>>
          \/ /\ clearance' = [clearance EXCEPT ![client] = ClearanceTtl]
             /\ since' = [since EXCEPT ![client] = 0]
      BY <1>4 DEF Submit
    <3>2. ClearanceTtl \in NoClearance .. ClearanceTtl /\ 0 \in 0 .. Never
      BY ChallengesAssumption DEF NoClearance, Never
    <3>3. CASE UNCHANGED <<clearance, since>>
      BY <3>3, <1>t
    <3>4. CASE /\ clearance' = [clearance EXCEPT ![client] = ClearanceTtl]
               /\ since' = [since EXCEPT ![client] = 0]
      <4>1. clearance' \in [Clients -> NoClearance .. ClearanceTtl]
        BY <3>2, <3>4, <1>t, Zenon
      <4>2. since' \in [Clients -> 0 .. Never]
        BY <3>2, <3>4, <1>t, Zenon
      <4> QED
        BY <4>1, <4>2
    <3> QED
      BY <3>1, <3>3, <3>4
  <2>5. worker' \in [Workers -> Step]
    <3>1. worker' = worker \/ worker' = [worker EXCEPT ![w] = [step |-> "issue", client |-> client]]
      BY <1>4 DEF Submit
    <3> QED
      BY <3>1, <1>t, <1>w, StepsRead
  <2> QED
    BY <2>1, <2>2, <2>3, <2>4, <2>5, <1>t, <1>k DEF ChallengesTypeOK, Step
<1>5. ASSUME NEW client \in Clients, NEW holder \in Clients, Skip(client, holder) PROVE ChallengesTypeOK'
  BY <1>5, <1>t DEF Skip, ChallengesTypeOK, Step
<1>6. CASE Tick
  <2>1. \A l \in 0 .. ChallengeTtl : Later(l) \in 0 .. ChallengeTtl
    BY ChallengesAssumption DEF Later
  <2>2. \A q \in Pending : [q EXCEPT !.left = Later(q.left)] \in Pending
    BY <2>1 DEF Pending
  <2>3. /\ DOMAIN pending' = DOMAIN pending
        /\ \A id \in DOMAIN pending : pending'[id] = [pending[id] EXCEPT !.left = Later(pending[id].left)]
    BY <1>6 DEF Tick
  <2>4. clearance' \in [Clients -> NoClearance .. ClearanceTtl]
    <3>1. \A v \in NoClearance .. ClearanceTtl :
            (IF v = NoClearance THEN NoClearance ELSE v - 1) \in NoClearance .. ClearanceTtl
      BY ChallengesAssumption DEF NoClearance
    <3> QED
      BY <1>6, <3>1, <1>t DEF Tick
  <2>5. since' \in [Clients -> 0 .. Never]
    <3>1. \A v \in 0 .. Never : (IF v < Never THEN v + 1 ELSE Never) \in 0 .. Never
      BY ChallengesAssumption DEF Never
    <3> QED
      BY <1>6, <3>1, <1>t DEF Tick
  <2> QED
    BY <1>6, <2>2, <2>3, <2>4, <2>5, <1>t DEF Tick, ChallengesTypeOK, Step
<1>7. CASE UNCHANGED challengeVars
  BY <1>7, <1>t DEF challengeVars, ChallengesTypeOK, Step
<1> QED
  BY <1>1, <1>2, <1>3, <1>4, <1>5, <1>6, <1>7 DEF ChallengesNext

\* ChallengesTypeOK: the pending images, the clearances and the two sections of issue
\* (challenge.rs) keep their shape, for any clients, workers and caps.
THEOREM ChallengesTypeCorrect == ChallengesSpec => []ChallengesTypeOK
<1>1. ChallengesInit => ChallengesTypeOK
  <2> SUFFICES ASSUME ChallengesInit PROVE ChallengesTypeOK
    OBVIOUS
  <2>1. worker \in [Workers -> {NoOne} \cup [step : {"issue", "draw"}, client : Clients]]
    BY DEF ChallengesInit
  <2>2. clearance \in [Clients -> NoClearance .. ClearanceTtl] /\ since \in [Clients -> 0 .. Never]
    <3>1. NoClearance \in NoClearance .. ClearanceTtl /\ Never \in 0 .. Never
      BY ChallengesAssumption DEF NoClearance, Never
    <3> QED
      BY <3>1 DEF ChallengesInit
  <2>3. judged \in [ChallengeIds -> Nat]
    BY DEF ChallengesInit
  <2>4. DOMAIN pending = {}
    BY DEF ChallengesInit
  <2> QED
    BY <2>1, <2>2, <2>3, <2>4, ChallengesAssumption DEF ChallengesInit, ChallengesTypeOK
<1> QED
  BY <1>1, ChallengesTypeStep, PTL DEF ChallengesSpec

-----------------------------------------------------------------------------
(* One image, one attempt. *)

\* Each step of issue and handle_verify keeps Unjudged: an image is taken out of the
\* table before its answer is judged.
LEMMA UnjudgedStep ==
  ChallengesTypeOK /\ Unjudged /\ [ChallengesNext]_challengeVars => Unjudged'
<1> SUFFICES ASSUME ChallengesTypeOK, Unjudged, [ChallengesNext]_challengeVars,
                    NEW id \in ChallengeIds
             PROVE  /\ judged'[id] <= 1
                    /\ id > issued' \/ id \in DOMAIN pending' => judged'[id] = 0
  BY DEF Unjudged
<1>t. /\ judged \in [ChallengeIds -> Nat] /\ judged[id] <= 1 /\ issued \in Nat /\ id \in Nat
      /\ id > issued \/ id \in DOMAIN pending => judged[id] = 0
      /\ DOMAIN pending \subseteq 1 .. issued
  BY ChallengesAssumption DEF ChallengesTypeOK, Unjudged, ChallengeIds
<1>1. ASSUME judged' = judged, issued' = issued, DOMAIN pending' \subseteq DOMAIN pending
      PROVE  /\ judged'[id] <= 1
             /\ id > issued' \/ id \in DOMAIN pending' => judged'[id] = 0
  BY <1>1, <1>t
<1>2. ASSUME NEW w \in Workers, NEW client \in Clients, Challenge(w, client)
      PROVE  judged' = judged /\ issued' = issued /\ DOMAIN pending' \subseteq DOMAIN pending
  BY <1>2 DEF Challenge
<1>3. ASSUME NEW w \in Workers, MakeRoom(w)
      PROVE  judged' = judged /\ issued' = issued /\ DOMAIN pending' \subseteq DOMAIN pending
  <2>1. \A ids : ids \subseteq DOMAIN pending /\ pending' = Keep(ids) =>
                   DOMAIN pending' \subseteq DOMAIN pending
    BY Kept
  <2>2. Retained \subseteq DOMAIN pending
    BY DEF Retained
  <2> QED
    BY <1>3, <2>1, <2>2 DEF MakeRoom
<1>4. ASSUME NEW w \in Workers, PutIn(w)
      PROVE  /\ judged'[id] <= 1
             /\ id > issued' \/ id \in DOMAIN pending' => judged'[id] = 0
  <2>1. /\ issued' = issued + 1 /\ judged' = judged
        /\ DOMAIN pending' = DOMAIN pending \cup {issued'}
    BY <1>4 DEF PutIn
  <2> QED
    BY <2>1, <1>t
<1>5. ASSUME NEW w \in Workers, NEW client \in Clients, NEW answered \in 1 .. issued,
             NEW right \in BOOLEAN, Submit(w, client, answered, right)
      PROVE  /\ judged'[id] <= 1
             /\ id > issued' \/ id \in DOMAIN pending' => judged'[id] = 0
  <2>1. CASE answered \notin Own(client)
    BY <1>1, <1>5, <2>1, <1>t DEF Submit
  <2>2. CASE answered \in Own(client)
    <3>1. pending' = Keep(DOMAIN pending \ {answered}) /\ issued' = issued
      BY <1>5, <2>2 DEF Submit, UsedUp
    <3>2. DOMAIN pending' = DOMAIN pending \ {answered} /\ answered \in DOMAIN pending
      BY <2>2, <3>1, Kept DEF Own
    <3>3. judged' = judged \/ judged' = [judged EXCEPT ![answered] = judged[answered] + 1]
      BY <1>5 DEF Submit
    <3> QED
      BY <3>1, <3>2, <3>3, <1>t
  <2> QED
    BY <2>1, <2>2
<1>6. ASSUME NEW client \in Clients, NEW holder \in Clients, Skip(client, holder)
      PROVE  judged' = judged /\ issued' = issued /\ DOMAIN pending' \subseteq DOMAIN pending
  BY <1>6 DEF Skip
<1>7. CASE Tick
  <2>1. judged' = judged /\ issued' = issued /\ DOMAIN pending' \subseteq DOMAIN pending
    BY <1>7 DEF Tick
  <2> QED
    BY <2>1, <1>1
<1>8. CASE UNCHANGED challengeVars
  BY <1>1, <1>8 DEF challengeVars
<1> QED
  BY <1>1, <1>2, <1>3, <1>4, <1>5, <1>6, <1>7, <1>8 DEF ChallengesNext

\* However many answers to it arrive at once, a challenge is judged once: what is
\* judged is out of the store (challenge.rs, verify).
THEOREM NeverJudgedTwice == ChallengesSpec => []JudgedOnce
<1>1. ChallengesInit => Unjudged
  BY DEF ChallengesInit, Unjudged, ChallengeIds
<1>2. Unjudged => JudgedOnce
  BY DEF Unjudged, JudgedOnce
<1> QED
  BY <1>1, <1>2, UnjudgedStep, ChallengesTypeCorrect, PTL DEF ChallengesSpec

-----------------------------------------------------------------------------
(* Clearances. *)

\* Each step keeps Earned: a clearance begins when an answer is right (handle_verify)
\* and only runs down.
LEMMA EarnedStep ==
  /\ ChallengesTypeOK /\ Earned /\ ClearanceIsEarned /\ [ChallengesNext]_challengeVars
  => Earned' /\ ClearanceIsEarned'
<1> SUFFICES ASSUME ChallengesTypeOK, Earned, ClearanceIsEarned, [ChallengesNext]_challengeVars
             PROVE  Earned' /\ ClearanceIsEarned'
  OBVIOUS
<1>t. /\ clearance \in [Clients -> NoClearance .. ClearanceTtl]
      /\ since \in [Clients -> 0 .. Never] /\ let \in SUBSET Clients
      /\ \A c \in Clients : clearance[c] # NoClearance => clearance[c] + since[c] <= ClearanceTtl
      /\ \A c \in let : since[c] <= ClearanceTtl
  BY DEF ChallengesTypeOK, Earned, ClearanceIsEarned
<1>1. CASE UNCHANGED <<clearance, since, let>>
  BY <1>1, <1>t DEF Earned, ClearanceIsEarned
<1>2. ASSUME NEW w \in Workers, NEW client \in Clients, NEW id \in 1 .. issued,
             NEW right \in BOOLEAN, Submit(w, client, id, right)
      PROVE  Earned' /\ ClearanceIsEarned'
  <2>1. CASE UNCHANGED <<clearance, since>>
    BY <1>1, <1>2, <2>1 DEF Submit
  <2>2. CASE /\ clearance' = [clearance EXCEPT ![client] = ClearanceTtl]
             /\ since' = [since EXCEPT ![client] = 0]
    <3>1. let' = let
      BY <1>2 DEF Submit
    <3>2. ASSUME NEW c \in Clients, clearance'[c] # NoClearance
          PROVE  clearance'[c] + since'[c] <= ClearanceTtl
      BY <2>2, <3>2, <1>t, ChallengesAssumption
    <3>3. ASSUME NEW c \in let PROVE since'[c] <= ClearanceTtl
      BY <2>2, <3>3, <1>t, ChallengesAssumption
    <3> QED
      BY <3>1, <3>2, <3>3 DEF Earned, ClearanceIsEarned
  <2> QED
    BY <1>2, <2>1, <2>2 DEF Submit
<1>3. ASSUME NEW client \in Clients, NEW holder \in Clients, Skip(client, holder)
      PROVE  Earned' /\ ClearanceIsEarned'
  <2>1. /\ client = holder /\ clearance[client] # NoClearance /\ let' = let \cup {client}
        /\ clearance' = clearance /\ since' = since
    BY <1>3 DEF Skip, Cleared
  <2>2. since[client] <= ClearanceTtl
    <3>1. clearance[client] \in NoClearance .. ClearanceTtl /\ since[client] \in 0 .. Never
      BY <1>t
    <3>2. clearance[client] + since[client] <= ClearanceTtl
      BY <2>1, <1>t
    <3> QED
      BY <2>1, <3>1, <3>2, ChallengesAssumption DEF NoClearance, Never
  <2> QED
    BY <2>1, <2>2, <1>t DEF Earned, ClearanceIsEarned
<1>4. CASE Tick
  <2>1. ASSUME NEW c \in Clients, clearance'[c] # NoClearance
        PROVE  clearance'[c] + since'[c] <= ClearanceTtl
    <3>1. /\ clearance[c] # NoClearance /\ clearance'[c] = clearance[c] - 1
          /\ since'[c] = IF since[c] < Never THEN since[c] + 1 ELSE Never
      BY <1>4, <2>1 DEF Tick
    <3>2. clearance[c] \in NoClearance .. ClearanceTtl /\ since[c] \in 0 .. Never
      BY <1>t
    <3>3. clearance[c] + since[c] <= ClearanceTtl
      BY <3>1, <1>t
    <3> QED
      BY <3>1, <3>2, <3>3, ChallengesAssumption DEF NoClearance, Never
  <2>2. let' = {}
    BY <1>4 DEF Tick
  <2> QED
    BY <2>1, <2>2 DEF Earned, ClearanceIsEarned
<1> QED
  BY <1>1, <1>2, <1>3, <1>4, Zenon DEF ChallengesNext, Challenge, MakeRoom, PutIn, challengeVars

\* A clearance lets through only the address that earned it, within the time it lasts
\* (challenge.rs, make_clearance and check_clearance).
THEOREM EveryClearanceEarned == ChallengesSpec => []ClearanceIsEarned
<1>1. ChallengesInit => Earned /\ ClearanceIsEarned
  BY DEF ChallengesInit, Earned, ClearanceIsEarned
<1> QED
  BY <1>1, EarnedStep, ChallengesTypeCorrect, PTL DEF ChallengesSpec

-----------------------------------------------------------------------------
(* The caps. *)

\* Everything that is counted can be.
LEMMA Counted ==
  ASSUME ChallengesTypeOK
  PROVE  /\ IsFiniteSet(DOMAIN pending) /\ \A ids : ids \subseteq DOMAIN pending =>
                                                      IsFiniteSet(ids) /\ Cardinality(ids) \in Nat
         /\ \A ws : ws \subseteq Workers => /\ IsFiniteSet(ws) /\ Cardinality(ws) \in Nat
                                            /\ Cardinality(ws) <= Cardinality(Workers)
         /\ Cardinality(Workers) \in Nat
<1>1. IsFiniteSet(1 .. issued)
  BY FS_Interval, ChallengesAssumption DEF ChallengesTypeOK
<1>2. IsFiniteSet(DOMAIN pending)
  BY <1>1, FS_Subset DEF ChallengesTypeOK
<1>3. ASSUME NEW ids, ids \subseteq DOMAIN pending PROVE IsFiniteSet(ids) /\ Cardinality(ids) \in Nat
  BY <1>2, <1>3, FS_Subset, FS_CardinalityType
<1>4. ASSUME NEW ws, ws \subseteq Workers
      PROVE  /\ IsFiniteSet(ws) /\ Cardinality(ws) \in Nat
             /\ Cardinality(ws) <= Cardinality(Workers)
  BY <1>4, FS_Subset, FS_CardinalityType, ChallengesAssumption
<1>5. Cardinality(Workers) \in Nat
  BY FS_CardinalityType, ChallengesAssumption
<1> QED
  BY <1>2, <1>3, <1>4, <1>5

\* Of two sets of the same sort the smaller counts less.
LEMMA Fewer ==
  ASSUME NEW S, IsFiniteSet(S), NEW T, T \subseteq S
  PROVE  Cardinality(T) <= Cardinality(S) /\ Cardinality(T) \in Nat /\ Cardinality(S) \in Nat
BY FS_Subset, FS_CardinalityType

\* What an address is made to give up leaves it one short of its cap (challenge.rs,
\* issue).
LEMMA RoomIsMade ==
  ASSUME ChallengesTypeOK, NEW client \in Clients, NEW gone \in Evicted(client)
  PROVE  /\ gone \subseteq Own(client) \cap Retained
         /\ Cardinality((Own(client) \cap Retained) \ gone) <= MaxPendingPerClient - 1
<1> DEFINE own == Own(client) \cap Retained
           over == Cardinality(own) - MaxPendingPerClient + 1
           n == IF over < 0 THEN 0 ELSE over
<1>1. gone \in kSubset(n, own)
  BY DEF Evicted
<1>2. gone \subseteq own /\ Cardinality(gone) = n
  BY <1>1 DEF kSubset
<1>3. IsFiniteSet(own) /\ Cardinality(own) \in Nat
  BY Counted DEF Own
<1>4. Cardinality(own \ gone) = Cardinality(own) - Cardinality(own \cap gone)
  BY <1>3, FS_Difference
<1>5. own \cap gone = gone
  BY <1>2
<1>6. Cardinality(own \ gone) = Cardinality(own) - n
  BY <1>2, <1>4, <1>5
<1> QED
  BY <1>2, <1>3, <1>6, ChallengesAssumption

\* Each step keeps Room: there are no more images than the cap and the workers past the
\* check allow (make_room and the insertion after it).
LEMMA RoomStep == ChallengesTypeOK /\ Room /\ [ChallengesNext]_challengeVars => Room'
<1> SUFFICES ASSUME ChallengesTypeOK, Room, [ChallengesNext]_challengeVars PROVE Room'
  OBVIOUS
<1> DEFINE W == Cardinality(Workers)
<1>t. /\ worker \in [Workers -> Step]
      /\ ChallengesTypeOK' /\ W \in Nat
      /\ MaxPending \in Nat \ {0} /\ MaxPendingPerClient \in Nat \ {0}
  BY ChallengesTypeStep, ChallengesAssumption, Counted DEF ChallengesTypeOK, Step
\* Who draws fits among the workers, and what waits can be counted.
<1>d. /\ Drawing \subseteq Workers /\ Drawing' \subseteq Workers
      /\ \A c \in Clients : /\ DrawingFor(c) \subseteq Workers /\ DrawingFor(c)' \subseteq Workers
                            /\ Own(c) \subseteq DOMAIN pending /\ Own(c)' \subseteq DOMAIN pending'
  BY DEF Drawing, DrawingFor, Own
<1>f. /\ IsFiniteSet(DOMAIN pending) /\ IsFiniteSet(DOMAIN pending')
      /\ IsFiniteSet(Drawing) /\ IsFiniteSet(Drawing')
      /\ Cardinality(Drawing') \in Nat /\ Cardinality(Drawing') <= W
      /\ \A c \in Clients : /\ IsFiniteSet(Own(c)) /\ IsFiniteSet(Own(c)')
                            /\ IsFiniteSet(DrawingFor(c)) /\ IsFiniteSet(DrawingFor(c)')
                            /\ Cardinality(DrawingFor(c)') \in Nat /\ Cardinality(DrawingFor(c)') <= W
  <2>1. IsFiniteSet(DOMAIN pending') /\ \A ids : ids \subseteq DOMAIN pending' => IsFiniteSet(ids)
    <3>1. IsFiniteSet(1 .. issued')
      BY <1>t, FS_Interval, ChallengesAssumption DEF ChallengesTypeOK
    <3>2. DOMAIN pending' \subseteq 1 .. issued'
      BY <1>t DEF ChallengesTypeOK
    <3> QED
      BY <3>1, <3>2, FS_Subset
  <2> QED
    BY <2>1, <1>d, Counted
\* Nothing comes in and nobody starts drawing.
<1>s. ASSUME /\ DOMAIN pending' \subseteq DOMAIN pending /\ Drawing' \subseteq Drawing
             /\ \A c \in Clients : Own(c)' \subseteq Own(c) /\ DrawingFor(c)' \subseteq DrawingFor(c)
      PROVE  Room'
  <2>1. /\ Cardinality(DOMAIN pending') <= Cardinality(DOMAIN pending)
        /\ Cardinality(Drawing') <= Cardinality(Drawing)
        /\ Cardinality(DOMAIN pending') \in Nat /\ Cardinality(DOMAIN pending) \in Nat
        /\ Cardinality(Drawing') \in Nat /\ Cardinality(Drawing) \in Nat
    BY <1>s, <1>f, Fewer
  <2>2. ASSUME NEW c \in Clients
        PROVE  Cardinality(Own(c)') + Cardinality(DrawingFor(c)') <= MaxPendingPerClient + W - 1
    <3>1. /\ Cardinality(Own(c)') <= Cardinality(Own(c))
          /\ Cardinality(DrawingFor(c)') <= Cardinality(DrawingFor(c))
          /\ Cardinality(Own(c)') \in Nat /\ Cardinality(Own(c)) \in Nat
          /\ Cardinality(DrawingFor(c)') \in Nat /\ Cardinality(DrawingFor(c)) \in Nat
      BY <1>s, <1>f, Fewer
    <3>2. Cardinality(Own(c)) + Cardinality(DrawingFor(c)) <= MaxPendingPerClient + W - 1
      BY DEF Room
    <3> QED
      BY <1>t, <3>1, <3>2
  <2>3. Cardinality(DOMAIN pending) + Cardinality(Drawing) <= MaxPending + W - 1
    BY DEF Room
  <2>4. Cardinality(DOMAIN pending') + Cardinality(Drawing') <= MaxPending + W - 1
    BY <1>t, <2>1, <2>3
  <2> QED
    BY <2>2, <2>4 DEF Room
<1>k. ASSUME NEW ids, ids \subseteq DOMAIN pending, pending' = Keep(ids)
      PROVE  /\ DOMAIN pending' = ids
             /\ \A c \in Clients : Own(c)' = Own(c) \cap ids
  BY <1>k, Kept DEF Own
<1>i. ASSUME \/ UNCHANGED worker
             \/ \E w \in Workers, k \in Step : k.step # "draw" /\ worker' = [worker EXCEPT ![w] = k]
      PROVE  Drawing' \subseteq Drawing /\ \A c \in Clients : DrawingFor(c)' \subseteq DrawingFor(c)
  BY <1>i, <1>t DEF Drawing, DrawingFor
<1>n. NoOne \in Step /\ NoOne.step # "draw"
      /\ \A c \in Clients : [step |-> "issue", client |-> c] \in Step
  BY DEF Step, NoOne
<1>1. ASSUME NEW w \in Workers, NEW client \in Clients, Challenge(w, client) PROVE Room'
  <2>1. UNCHANGED pending /\ worker' = [worker EXCEPT ![w] = [step |-> "issue", client |-> client]]
    BY <1>1 DEF Challenge
  <2> QED
    BY <2>1, <1>n, <1>i, <1>s DEF Own
<1>2. ASSUME NEW w \in Workers, MakeRoom(w), Cardinality(Retained) >= MaxPending PROVE Room'
  <2>1. pending' = Keep(Retained) /\ worker' = [worker EXCEPT ![w] = NoOne]
    BY <1>2 DEF MakeRoom
  <2>2. Retained \subseteq DOMAIN pending
    BY DEF Retained
  <2> QED
    BY <2>1, <2>2, <1>n, <1>i, <1>k, <1>s
<1>3. ASSUME NEW w \in Workers, MakeRoom(w), ~(Cardinality(Retained) >= MaxPending) PROVE Room'
  <2> DEFINE client == worker[w].client
  <2>1. worker[w] \in Step /\ worker[w].step = "issue" /\ client \in Clients
    BY <1>3, <1>t, StepsRead DEF MakeRoom
  <2>2. PICK gone \in Evicted(client) : pending' = Keep(Retained \ gone)
    BY <1>3 DEF MakeRoom
  <2>3. worker' = [worker EXCEPT ![w] = [worker[w] EXCEPT !.step = "draw"]]
    BY <1>3 DEF MakeRoom
  <2>4. Retained \subseteq DOMAIN pending /\ Retained \ gone \subseteq DOMAIN pending
    BY DEF Retained
  <2>5. /\ DOMAIN pending' = Retained \ gone
        /\ \A c \in Clients : Own(c)' = Own(c) \cap (Retained \ gone)
    BY <2>2, <2>4, <1>k
  <2>6. Cardinality(DOMAIN pending') + Cardinality(Drawing') <= MaxPending + W - 1
    <3>1. /\ Cardinality(Retained \ gone) <= Cardinality(Retained)
          /\ Cardinality(Retained \ gone) \in Nat /\ Cardinality(Retained) \in Nat
      BY <2>4, Counted, Fewer
    <3> QED
      BY <1>3, <1>t, <1>f, <2>5, <3>1
  <2>7. ASSUME NEW c \in Clients
        PROVE  Cardinality(Own(c)') + Cardinality(DrawingFor(c)') <= MaxPendingPerClient + W - 1
    <3>1. CASE c = client
      <4>1. Own(c)' = (Own(c) \cap Retained) \ gone
        BY <2>5
      <4>2. Cardinality(Own(c)') <= MaxPendingPerClient - 1
        BY <2>1, <3>1, <4>1, RoomIsMade
      <4>3. Cardinality(Own(c)') \in Nat
        BY <1>f, FS_CardinalityType
      <4> QED
        BY <1>t, <1>f, <4>2, <4>3
    <3>2. CASE c # client
      <4>1. DrawingFor(c)' \subseteq DrawingFor(c)
        BY <1>t, <2>1, <2>3, <3>2, StepsRead DEF DrawingFor, Drawing
      <4>2. Own(c)' \subseteq Own(c)
        BY <2>5
      <4>3. /\ Cardinality(Own(c)') <= Cardinality(Own(c))
            /\ Cardinality(DrawingFor(c)') <= Cardinality(DrawingFor(c))
            /\ Cardinality(Own(c)') \in Nat /\ Cardinality(Own(c)) \in Nat
            /\ Cardinality(DrawingFor(c)') \in Nat /\ Cardinality(DrawingFor(c)) \in Nat
        BY <4>1, <4>2, <1>f, Fewer
      <4>4. Cardinality(Own(c)) + Cardinality(DrawingFor(c)) <= MaxPendingPerClient + W - 1
        BY DEF Room
      <4> QED
        BY <1>t, <4>3, <4>4
    <3> QED
      BY <3>1, <3>2
  <2> QED
    BY <2>6, <2>7 DEF Room
<1>4. ASSUME NEW w \in Workers, PutIn(w) PROVE Room'
  <2> DEFINE client == worker[w].client
             new == issued'
  <2>1. /\ worker[w] \in Step /\ worker[w].step = "draw" /\ client \in Clients
        /\ worker' = [worker EXCEPT ![w] = NoOne]
        /\ DOMAIN pending' = DOMAIN pending \cup {new} /\ new = issued + 1
    BY <1>4, <1>t, StepsRead DEF PutIn
  <2>2. new \notin DOMAIN pending
    BY <2>1, ChallengesAssumption DEF ChallengesTypeOK
  <2>3. pending'[new].client = client /\ \A id \in DOMAIN pending : pending'[id] = pending[id]
    BY <1>4, <2>1, <2>2 DEF PutIn
  <2>4. Drawing' = Drawing \ {w} /\ w \in Drawing
    BY <1>n, <1>t, <2>1 DEF Drawing
  <2>5. Cardinality(DOMAIN pending') + Cardinality(Drawing') <= MaxPending + W - 1
    <3>1. /\ Cardinality(DOMAIN pending') = Cardinality(DOMAIN pending) + 1
          /\ Cardinality(Drawing') = Cardinality(Drawing) - 1
      <4> HIDE DEF client, new
      <4>1. IsFiniteSet(DOMAIN pending) /\ IsFiniteSet(Drawing)
        BY <1>f
      <4>2. Cardinality(DOMAIN pending \cup {new}) = Cardinality(DOMAIN pending) + 1
        BY <2>2, <4>1, FS_AddElement
      <4>3. Cardinality(Drawing \ {w}) = Cardinality(Drawing) - 1
        BY <2>4, <4>1, FS_RemoveElement
      <4> QED
        BY <2>1, <2>4, <4>2, <4>3
    <3>2. Cardinality(DOMAIN pending) \in Nat /\ Cardinality(Drawing) \in Nat
      BY <1>f, FS_CardinalityType
    <3>3. Cardinality(DOMAIN pending) + Cardinality(Drawing) <= MaxPending + W - 1
      BY DEF Room
    <3> QED
      BY <1>t, <3>1, <3>2, <3>3
  <2>6. ASSUME NEW c \in Clients
        PROVE  Cardinality(Own(c)') + Cardinality(DrawingFor(c)') <= MaxPendingPerClient + W - 1
    <3>1. Cardinality(Own(c)) + Cardinality(DrawingFor(c)) <= MaxPendingPerClient + W - 1
      BY DEF Room
    <3>2. Cardinality(Own(c)) \in Nat /\ Cardinality(DrawingFor(c)) \in Nat
      BY <1>f, FS_CardinalityType
    <3>3. CASE c = client
      <4>1. Own(c)' = Own(c) \cup {new} /\ new \notin Own(c)
        <5> HIDE DEF client, new
        <5>1. \A id : id \in Own(c)' <=> id \in DOMAIN pending' /\ pending'[id].client = c
          BY DEF Own
        <5>2. \A id : id \in Own(c) <=> id \in DOMAIN pending /\ pending[id].client = c
          BY DEF Own
        <5>3. DOMAIN pending' = DOMAIN pending \cup {new}
          BY <2>1
        <5>4. \A id : id \in Own(c)' <=> id \in Own(c) \cup {new}
          BY <2>2, <2>3, <3>3, <5>1, <5>2, <5>3
        <5> QED
          BY <2>2, <5>2, <5>4
      <4>2. DrawingFor(c)' = DrawingFor(c) \ {w} /\ w \in DrawingFor(c)
        BY <1>t, <2>1, <2>4, <3>3 DEF DrawingFor
      <4>3. /\ Cardinality(Own(c)') = Cardinality(Own(c)) + 1
            /\ Cardinality(DrawingFor(c)') = Cardinality(DrawingFor(c)) - 1
        <5> HIDE DEF client, new
        <5>1. IsFiniteSet(Own(c)) /\ IsFiniteSet(DrawingFor(c))
          BY <1>f
        <5>2. Cardinality(Own(c) \cup {new}) = Cardinality(Own(c)) + 1
          BY <4>1, <5>1, FS_AddElement
        <5>3. Cardinality(DrawingFor(c) \ {w}) = Cardinality(DrawingFor(c)) - 1
          BY <4>2, <5>1, FS_RemoveElement
        <5> QED
          BY <4>1, <4>2, <5>2, <5>3
      <4>4. Cardinality(Own(c)') + Cardinality(DrawingFor(c)')
              = Cardinality(Own(c)) + Cardinality(DrawingFor(c))
        BY <3>2, <4>3
      <4> QED
        BY <3>1, <4>4
    <3>4. CASE c # client
      <4>1. Own(c)' = Own(c)
        BY <2>1, <2>2, <2>3, <3>4 DEF Own
      <4>2. DrawingFor(c)' \subseteq DrawingFor(c)
        BY <1>t, <2>1, <2>4, <3>4 DEF DrawingFor
      <4>3. /\ Cardinality(DrawingFor(c)') <= Cardinality(DrawingFor(c))
            /\ Cardinality(DrawingFor(c)') \in Nat
        BY <1>f, <4>2, Fewer
      <4> QED
        BY <1>t, <3>1, <3>2, <4>1, <4>3
    <3> QED
      BY <3>3, <3>4
  <2> QED
    BY <2>5, <2>6 DEF Room
<1>5. ASSUME NEW w \in Workers, NEW client \in Clients, NEW id \in 1 .. issued,
             NEW right \in BOOLEAN, Submit(w, client, id, right)
      PROVE  Room'
  <2>1. worker' = worker \/ worker' = [worker EXCEPT ![w] = [step |-> "issue", client |-> client]]
    BY <1>5 DEF Submit
  <2>2. UNCHANGED pending \/ pending' = Keep(DOMAIN pending \ {id})
    BY <1>5 DEF Submit, UsedUp
  <2>3. DOMAIN pending' \subseteq DOMAIN pending /\ \A c \in Clients : Own(c)' \subseteq Own(c)
    BY <2>2, <1>k DEF Own
  <2>4. Drawing' \subseteq Drawing /\ \A c \in Clients : DrawingFor(c)' \subseteq DrawingFor(c)
    BY <2>1, <1>n, <1>i
  <2> QED
    BY <2>3, <2>4, <1>s
<1>6. CASE Tick
  <2>1. worker' = worker /\ DOMAIN pending' = DOMAIN pending
        /\ \A id \in DOMAIN pending : pending'[id] = [pending[id] EXCEPT !.left = Later(pending[id].left)]
    BY <1>6 DEF Tick
  <2>2. \A q \in Pending : [q EXCEPT !.left = Later(q.left)].client = q.client
    BY DEF Pending
  <2>3. \A id \in DOMAIN pending : pending'[id].client = pending[id].client
    BY <2>1, <2>2 DEF ChallengesTypeOK
  <2> QED
    BY <2>1, <2>3, <1>i, <1>s DEF Own
<1>7. CASE UNCHANGED <<pending, worker>>
  BY <1>7, <1>i, <1>s DEF Own
<1> QED
  BY <1>1, <1>2, <1>3, <1>4, <1>5, <1>6, <1>7 DEF ChallengesNext, Skip, challengeVars

\* The store holds no more than its cap, and an address no more than its own, but for
\* what the other workers are drawing: the overshoot of issue, which makes room and
\* puts in under two locks, is bounded by the threads and never adds up.
THEOREM OvershootBounded == ChallengesSpec => []CapsWithinWorkers
<1>1. ChallengesInit => Room
  <2> SUFFICES ASSUME ChallengesInit PROVE Room
    OBVIOUS
  <2>1. DOMAIN pending = {} /\ Drawing = {}
    BY DEF ChallengesInit, Drawing, NoOne
  <2>2. \A c \in Clients : Own(c) = {} /\ DrawingFor(c) = {}
    BY <2>1 DEF Own, DrawingFor
  <2>3. Cardinality({}) = 0 /\ Cardinality(Workers) \in Nat
    BY FS_EmptySet, FS_CardinalityType, ChallengesAssumption
  <2>4. /\ Cardinality(DOMAIN pending) = 0 /\ Cardinality(Drawing) = 0
        /\ \A c \in Clients : Cardinality(Own(c)) = 0 /\ Cardinality(DrawingFor(c)) = 0
    BY <2>1, <2>2, <2>3, Zenon
  <2> QED
    BY <2>3, <2>4, ChallengesAssumption DEF Room
<1>2. ChallengesTypeOK /\ Room => CapsWithinWorkers
  <2> SUFFICES ASSUME ChallengesTypeOK, Room PROVE CapsWithinWorkers
    OBVIOUS
  <2>1. Cardinality(DOMAIN pending) \in Nat /\ Cardinality(Drawing) \in Nat
        /\ Cardinality(Workers) \in Nat
    BY Counted DEF Drawing
  <2>2. \A c \in Clients : Cardinality(Own(c)) \in Nat /\ Cardinality(DrawingFor(c)) \in Nat
    BY Counted DEF Own, DrawingFor, Drawing
  <2> QED
    BY <2>1, <2>2, ChallengesAssumption DEF Room, CapsWithinWorkers
<1> QED
  BY <1>1, <1>2, RoomStep, ChallengesTypeCorrect, PTL DEF ChallengesSpec

-----------------------------------------------------------------------------
(* Nobody else's. *)

\* A challenge that can still be answered goes when its client answers it or asks for
\* one more than it may hold: no other address drives it out (challenge.rs, issue).
THEOREM LostToItsOwn == ChallengesSpec => LostToNobodyElse
<1>1. ASSUME ChallengesTypeOK, [ChallengesNext]_challengeVars, NEW id \in DOMAIN pending,
             id \notin DOMAIN pending', ~Expired(id)
      PROVE  \/ judged'[id] = judged[id] + 1
             \/ \E w \in Workers : /\ worker[w].step = "issue" /\ worker'[w] # worker[w]
                                   /\ worker[w].client = pending[id].client
  <2>t. /\ worker \in [Workers -> Step] /\ judged \in [ChallengeIds -> Nat]
        /\ id \in ChallengeIds
    BY <1>1, ChallengesAssumption DEF ChallengesTypeOK, Step, ChallengeIds
  <2>1. ASSUME NEW w \in Workers, MakeRoom(w)
        PROVE  /\ worker[w].step = "issue" /\ worker'[w] # worker[w]
               /\ worker[w].client = pending[id].client
    <3>1. /\ worker[w] \in Step /\ worker[w].step = "issue" /\ worker[w].client \in Clients
      BY <2>1, <2>t, StepsRead DEF MakeRoom
    <3>2. id \in Retained /\ Retained \subseteq DOMAIN pending
      BY <1>1 DEF Retained
    <3>3. ~(pending' = Keep(Retained))
      BY <1>1, <3>2, Kept
    <3>4. PICK gone \in Evicted(worker[w].client) : pending' = Keep(Retained \ gone)
      BY <2>1, <3>3 DEF MakeRoom
    <3>5. DOMAIN pending' = Retained \ gone
      BY <3>4 DEF Keep
    <3>g. id \in gone
      BY <1>1, <3>2, <3>5
    <3>6. gone \subseteq Own(worker[w].client)
      BY <1>1, <3>1, RoomIsMade
    <3>7. worker'[w].step = "draw"
      <4>1. worker' = [worker EXCEPT ![w] = [worker[w] EXCEPT !.step = "draw"]]
        BY <2>1, <3>3 DEF MakeRoom
      <4> QED
        BY <3>1, <4>1, <2>t, StepsRead
    <3> QED
      BY <3>1, <3>g, <3>6, <3>7 DEF Own
  <2>2. ASSUME NEW w \in Workers, NEW client \in Clients, NEW answered \in 1 .. issued,
               NEW right \in BOOLEAN, Submit(w, client, answered, right)
        PROVE  judged'[id] = judged[id] + 1
    <3>1. answered \in Own(client) /\ pending' = Keep(DOMAIN pending \ {answered})
      BY <1>1, <2>2 DEF Submit, UsedUp
    <3>a. DOMAIN pending' = DOMAIN pending \ {answered}
      BY <3>1 DEF Keep
    <3>2. answered = id
      BY <1>1, <3>a
    <3>3. judged' = [judged EXCEPT ![id] = judged[id] + 1]
      BY <1>1, <2>2, <3>1, <3>2 DEF Submit
    <3> QED
      BY <2>t, <3>3
  <2>3. CASE DOMAIN pending \subseteq DOMAIN pending'
    BY <1>1, <2>3
  <2>4. ASSUME NEW w \in Workers, PutIn(w) PROVE DOMAIN pending \subseteq DOMAIN pending'
    BY <2>4 DEF PutIn
  <2>5. Tick => DOMAIN pending \subseteq DOMAIN pending'
    BY DEF Tick
  <2> QED
    BY <1>1, <2>1, <2>2, <2>3, <2>4, <2>5 DEF ChallengesNext, Challenge, Skip, challengeVars
<1>2. ChallengesTypeOK /\ [ChallengesNext]_challengeVars =>
        [\A id \in DOMAIN pending :
           id \notin DOMAIN pending' /\ ~Expired(id) =>
               \/ judged'[id] = judged[id] + 1
               \/ \E w \in Workers : /\ worker[w].step = "issue" /\ worker'[w] # worker[w]
                                     /\ worker[w].client = pending[id].client]_challengeVars
  BY <1>1
<1> QED
  BY <1>2, ChallengesTypeCorrect, PTL DEF ChallengesSpec, LostToNobodyElse

==============================================================================
