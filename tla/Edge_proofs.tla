----------------------------- MODULE Edge_proofs ------------------------------
(* The proxy in front of a site, proved for any number of requests under way, *)
(* of connections, of visits and of changes saved in between: every row a     *)
(* request hands over is accounted for; an address holds the places of its    *)
(* open connections; a request is let through as somebody only when the       *)
(* account says so; passwords are guessed no faster than the throttle allows; *)
(* a client is over its limit only for requests it sent; and a policy that    *)
(* only watches says of a request what it would have done.                    *)
EXTENDS Edge, SequenceTheorems, FiniteSetTheorems, TLAPS

-----------------------------------------------------------------------------
(* Rows.                                                                      *)

\* Numbers that go up, none of them above n.
UpTo(s, n) ==
    /\ \A i, j \in DOMAIN s : i < j => s[i] < s[j]
    /\ \A i \in DOMAIN s : s[i] \in 1 .. n

\* What the queue, the writer and the table hold, one after the other.
Kept == written \o batch \o queue

TrafficInv ==
    /\ made \in Nat /\ dropped \in Nat
    /\ queue \in Seq(Nat) /\ batch \in Seq(Nat) /\ written \in Seq(Nat)
    /\ made = Len(Kept) + dropped /\ UpTo(Kept, made)

\* A row handed over is numbered after those before it.
LEMMA OneMore ==
  ASSUME NEW s \in Seq(Nat), NEW n \in Nat, UpTo(s, n)
  PROVE  UpTo(Append(s, n + 1), n + 1) /\ UpTo(s, n + 1)
<1>1. PICK len \in Nat : len = Len(s)
  OBVIOUS
<1>d. DOMAIN s = 1 .. len
  BY <1>1
<1>2. /\ \A i, j \in 1 .. len : i < j => s[i] < s[j]
      /\ \A i \in 1 .. len : s[i] \in 1 .. n
  BY <1>d DEF UpTo
<1> DEFINE t == Append(s, n + 1)
<1>3. /\ DOMAIN t = 1 .. len + 1 /\ t[len + 1] = n + 1
      /\ \A i \in 1 .. len : t[i] = s[i]
  BY <1>1
<1> HIDE DEF t
<1>4. \A i \in 1 .. len + 1 : t[i] \in 1 .. n + 1
  BY <1>2, <1>3
<1>5. ASSUME NEW i \in 1 .. len + 1, NEW j \in 1 .. len + 1, i < j PROVE t[i] < t[j]
  <2>1. i \in 1 .. len /\ t[i] = s[i] /\ s[i] \in 1 .. n
    BY <1>2, <1>3, <1>5
  <2>2. CASE j = len + 1
    BY <2>1, <2>2, <1>3
  <2>3. CASE j # len + 1
    BY <2>1, <2>3, <1>2, <1>3, <1>5
  <2> QED
    BY <2>2, <2>3
<1>6. UpTo(t, n + 1)
  BY <1>3, <1>4, <1>5 DEF UpTo
<1>7. UpTo(s, n + 1)
  BY <1>d, <1>2 DEF UpTo
<1> QED
  BY <1>6, <1>7 DEF t

\* Three sequences in a row, place by place.
LEMMA InARow ==
  ASSUME NEW a \in Seq(Nat), NEW b \in Seq(Nat), NEW c \in Seq(Nat)
  PROVE  LET s == a \o b \o c
         IN  /\ s \in Seq(Nat)
             /\ Len(s) = Len(a) + Len(b) + Len(c)
             /\ \A i \in 1 .. Len(a) : s[i] = a[i]
             /\ \A i \in 1 .. Len(b) : s[Len(a) + i] = b[i]
             /\ \A i \in 1 .. Len(c) : s[Len(a) + Len(b) + i] = c[i]
OBVIOUS

\* A batch that is not written is a gap: what is before and after it goes up still.
LEMMA BatchGone ==
  ASSUME NEW a \in Seq(Nat), NEW b \in Seq(Nat), NEW c \in Seq(Nat), NEW n \in Nat,
         UpTo(a \o b \o c, n)
  PROVE  UpTo(a \o <<>> \o c, n)
<1> DEFINE s == a \o b \o c
           t == a \o <<>> \o c
<1>1. PICK x \in Nat, y \in Nat, z \in Nat : x = Len(a) /\ y = Len(b) /\ z = Len(c)
  OBVIOUS
<1>2. /\ DOMAIN s = 1 .. x + y + z
      /\ \A i \in 1 .. x : s[i] = a[i]
      /\ \A i \in 1 .. z : s[x + y + i] = c[i]
  BY <1>1, InARow
<1>3. /\ DOMAIN t = 1 .. x + z
      /\ \A i \in 1 .. x : t[i] = a[i]
      /\ \A i \in 1 .. z : t[x + i] = c[i]
  <2>1. <<>> \in Seq(Nat) /\ Len(<<>>) = 0
    OBVIOUS
  <2>2. /\ t \in Seq(Nat)
        /\ Len(t) = Len(a) + 0 + Len(c)
        /\ \A i \in 1 .. Len(a) : t[i] = a[i]
        /\ \A i \in 1 .. Len(c) : t[Len(a) + 0 + i] = c[i]
    BY <2>1, InARow
  <2> HIDE DEF t
  <2> QED
    BY <2>2, <1>1
<1>4. /\ \A i, j \in 1 .. x + y + z : i < j => s[i] < s[j]
      /\ \A i \in 1 .. x + y + z : s[i] \in 1 .. n
  BY <1>2 DEF UpTo
<1> HIDE DEF s, t
<1>5. \A i \in 1 .. x + z : t[i] = s[IF i <= x THEN i ELSE i + y]
  <2> TAKE i \in 1 .. x + z
  <2>1. CASE i <= x
    BY <2>1, <1>2, <1>3
  <2>2. CASE ~(i <= x)
    <3>1. i - x \in 1 .. z /\ x + (i - x) = i /\ x + y + (i - x) = i + y
      BY <2>2
    <3>2. t[x + (i - x)] = c[i - x] /\ s[x + y + (i - x)] = c[i - x]
      BY <3>1, <1>2, <1>3
    <3> QED
      BY <2>2, <3>1, <3>2
  <2> QED
    BY <2>1, <2>2
<1>6. ASSUME NEW i \in 1 .. x + z
      PROVE  (IF i <= x THEN i ELSE i + y) \in 1 .. x + y + z
  OBVIOUS
<1>7. \A i \in 1 .. x + z : t[i] \in 1 .. n
  BY <1>4, <1>5, <1>6
<1>8. ASSUME NEW i \in 1 .. x + z, NEW j \in 1 .. x + z, i < j PROVE t[i] < t[j]
  <2>1. (IF i <= x THEN i ELSE i + y) < (IF j <= x THEN j ELSE j + y)
    BY <1>8
  <2> QED
    BY <2>1, <1>4, <1>5, <1>6
<1>9. UpTo(t, n)
  BY <1>3, <1>7, <1>8 DEF UpTo
<1> QED
  BY <1>9 DEF t

\* What is written, the batch and the queue, in a row.
InAll(a, b, c) == a \o b \o c

\* A row that joins the queue joins the row of them all.
LEMMA QueueGrows ==
  ASSUME NEW S, NEW a \in Seq(S), NEW b \in Seq(S), NEW c \in Seq(S), NEW x \in S
  PROVE  InAll(a, b, Append(c, x)) = Append(InAll(a, b, c), x)
<1>1. /\ a \o b \in Seq(S) /\ a \o b \o c \in Seq(S) /\ <<x>> \in Seq(S)
  OBVIOUS
<1>2. /\ Append(c, x) = c \o <<x>>
      /\ Append(a \o b \o c, x) = a \o b \o c \o <<x>>
  BY <1>1, AppendIsConcat
<1>3. ((a \o b) \o c) \o <<x>> = (a \o b) \o (c \o <<x>>)
  BY <1>1, ConcatAssociative
<1>4. a \o b \o Append(c, x) = Append(a \o b \o c, x)
  BY <1>2, <1>3
<1> QED
  BY <1>4 DEF InAll

\* recv_many moves the front of the queue into the batch, and loses nothing.
LEMMA BatchTaken ==
  ASSUME NEW S, NEW a \in Seq(S), NEW q \in Seq(S), NEW n \in 1 .. Len(q)
  PROVE  /\ SubSeq(q, 1, n) \in Seq(S) /\ SubSeq(q, n + 1, Len(q)) \in Seq(S)
         /\ a \o SubSeq(q, 1, n) \o SubSeq(q, n + 1, Len(q)) = a \o <<>> \o q
<1>1. SubSeq(q, 1, n) \in Seq(S) /\ SubSeq(q, n + 1, Len(q)) \in Seq(S)
  OBVIOUS
<1>2. SubSeq(q, 1, n) \o SubSeq(q, n + 1, Len(q)) = q
  <2>1. /\ 1 \in 1 .. Len(q) + 1 /\ n \in 1 - 1 .. Len(q) /\ Len(q) \in n .. Len(q)
    OBVIOUS
  <2>2. SubSeq(q, 1, n) \o SubSeq(q, n + 1, Len(q)) = SubSeq(q, 1, Len(q))
    BY <2>1, ConcatAdjacentSubSeq
  <2> QED
    BY <2>2, SubSeqFull
<1> DEFINE u == SubSeq(q, 1, n)
           v == SubSeq(q, n + 1, Len(q))
<1> HIDE DEF u, v
<1>3. u \in Seq(S) /\ v \in Seq(S) /\ u \o v = q
  BY <1>1, <1>2 DEF u, v
<1>4. a \o u \o v = a \o (u \o v)
  <2>1. ASSUME NEW x \in Seq(S), NEW y \in Seq(S) PROVE (a \o x) \o y = a \o (x \o y)
    OBVIOUS
  <2> QED
    BY <1>3, <2>1, Zenon
<1>5. a \o <<>> = a
  BY ConcatEmptySeq
<1> QED
  BY <1>1, <1>3, <1>4, <1>5 DEF u, v

\* What happens to the rows in a step: nothing, one more, a batch taken or put away.
LEMMA RowsMove ==
  [Next]_vars => UNCHANGED traffic \/ record_row \/ TakeBatch \/ InsertRows
<1> SUFFICES ASSUME [Next]_vars PROVE UNCHANGED traffic \/ record_row \/ TakeBatch \/ InsertRows
  OBVIOUS
<1>1. ASSUME NEW r \in Reqs,
             Lists(r) \/ Count(r) \/ Body(r) \/ Countries(r) \/ Rules(r) \/ Checked(r) \/ Forward(r)
      PROVE  UNCHANGED traffic \/ record_row
  BY <1>1 DEF Lists, Count, Body, Countries, Rules, Checked, Forward, EndsWithRow, EndsUnrecorded
<1>2. ASSUME NEW r \in Reqs, Answer(r)
      PROVE  UNCHANGED traffic \/ record_row
  BY <1>2 DEF Answer, Gate, SignIn, Basic, EndsWithRow
<1>3. ASSUME Connections \/ Visits \/ Save \/ AdminPages \/ Tick
      PROVE  UNCHANGED traffic
  BY <1>3 DEF Connections, Accept, FirstBytes, OpenedAsHttp2, NothingSent, Ended, Close, Visits,
              TurnedAway, Take, Save, AdminPages, Around, Tick
<1>4. CASE Requests
  <2>1. PICK r \in Reqs : \/ Lists(r) \/ Count(r) \/ Body(r) \/ Countries(r) \/ Rules(r)
                          \/ Answer(r) \/ Checked(r) \/ Forward(r)
    <3>1. Hurried \subseteq Reqs
      BY DEF Hurried
    <3> QED
      BY <1>4, <3>1 DEF Requests
  <2> QED
    BY <2>1, <1>1, <1>2
<1>5. CASE Others
  BY <1>3, <1>5 DEF Others
<1>6. CASE UNCHANGED vars
  BY <1>6 DEF vars
<1> QED
  BY <1>4, <1>5, <1>6 DEF Next

\* Whatever a step does to the rows, what is kept goes up, and is all but what was
\* dropped.
LEMMA TrafficStep == TrafficInv /\ [Next]_vars => TrafficInv'
<1> SUFFICES ASSUME TrafficInv, [Next]_vars PROVE TrafficInv'
  OBVIOUS
<1>t. /\ made \in Nat /\ dropped \in Nat
      /\ queue \in Seq(Nat) /\ batch \in Seq(Nat) /\ written \in Seq(Nat)
      /\ made = Len(written \o batch \o queue) + dropped
      /\ UpTo(written \o batch \o queue, made)
  BY DEF TrafficInv, Kept
<1>l. written \o batch \o queue \in Seq(Nat)
  BY <1>t
<1>1. CASE UNCHANGED traffic
  BY <1>1 DEF traffic, TrafficInv, Kept
<1>2. CASE record_row
  <2>1. made' = made + 1 /\ batch' = batch /\ written' = written
    BY <1>2 DEF record_row
  <2> DEFINE all == written \o batch \o queue
  <2>2. UpTo(Append(all, made + 1), made + 1) /\ UpTo(all, made + 1)
    BY <1>t, <1>l, OneMore
  <2>3. CASE Len(queue) < QueueSize
    <3>1. queue' = Append(queue, made + 1) /\ dropped' = dropped
      BY <1>2, <2>3 DEF record_row
    <3>2. made + 1 \in Nat
      BY <1>t
    <3>3. written \o batch \o Append(queue, made + 1) = Append(all, made + 1)
      <4>1. written \in Seq(Nat) /\ batch \in Seq(Nat) /\ queue \in Seq(Nat) /\ made + 1 \in Nat
        BY <1>t, <3>2
      <4>2. InAll(written, batch, Append(queue, made + 1))
                = Append(InAll(written, batch, queue), made + 1)
        BY ONLY <4>1, QueueGrows
      <4> QED
        BY ONLY <4>2, Zenon DEF InAll
    <3> HIDE DEF all
    <3>4. Len(Append(all, made + 1)) = Len(all) + 1
      BY <1>l DEF all
    <3>5. Len(all) \in Nat /\ dropped \in Nat /\ made = Len(all) + dropped
      BY <1>t, <1>l DEF all
    <3>6. queue' \in Seq(Nat)
      BY <1>t, <3>1, <3>2
    <3>7. Kept' = Append(all, made + 1)
      BY <2>1, <3>1, <3>3 DEF Kept
    <3>8. made' \in Nat /\ dropped' \in Nat /\ batch' \in Seq(Nat) /\ written' \in Seq(Nat)
      BY <1>t, <2>1, <3>1
    <3>9. made' = Len(Kept') + dropped'
      BY <2>1, <3>1, <3>4, <3>5, <3>7
    <3>10. UpTo(Kept', made')
      BY <2>1, <2>2, <3>7
    <3> QED
      BY <3>6, <3>8, <3>9, <3>10 DEF TrafficInv
  <2>4. CASE ~(Len(queue) < QueueSize)
    <3>1. queue' = queue /\ dropped' = dropped + 1
      BY <1>2, <2>4 DEF record_row
    <3>2. Len(all) \in Nat
      BY <1>l
    <3> QED
      BY <1>t, <2>1, <2>2, <3>1, <3>2 DEF TrafficInv, Kept
  <2> QED
    BY <2>3, <2>4
<1>3. CASE TakeBatch
  <2>1. /\ batch = <<>> /\ queue # <<>>
        /\ made' = made /\ dropped' = dropped /\ written' = written
    BY <1>3 DEF TakeBatch
  <2>2. PICK n : n = Min({Len(queue), BatchSize})
    OBVIOUS
  <2>3. batch' = SubSeq(queue, 1, n) /\ queue' = SubSeq(queue, n + 1, Len(queue))
    BY <1>3, <2>2 DEF TakeBatch
  <2>4. n \in 1 .. Len(queue)
    <3>1. Len(queue) \in Nat \ {0} /\ BatchSize \in Nat \ {0}
      BY <1>t, <2>1, EdgeAssumption
    <3>2. n \in {Len(queue), BatchSize} /\ n <= Len(queue)
      BY <2>2, <3>1 DEF Min
    <3> QED
      BY <3>1, <3>2
  <2>5. /\ batch' \in Seq(Nat) /\ queue' \in Seq(Nat)
        /\ written \o batch' \o queue' = written \o batch \o queue
    BY <1>t, <2>1, <2>3, <2>4, BatchTaken
  <2> QED
    BY <1>t, <2>1, <2>5 DEF TrafficInv, Kept
<1>4. CASE InsertRows
  <2>1. batch' = <<>> /\ queue' = queue /\ made' = made
    BY <1>4 DEF InsertRows
  <2>2. CASE written' = written \o batch /\ dropped' = dropped
    <3>1. written' \in Seq(Nat)
      BY <1>t, <2>2
    <3>2. written' \o <<>> \o queue = written \o batch \o queue
      <4>1. written' \o <<>> = written'
        BY <3>1, ConcatEmptySeq
      <4> QED
        BY <4>1, <2>2
    <3>3. <<>> \in Seq(Nat)
      OBVIOUS
    <3> QED
      BY <1>t, <2>1, <2>2, <3>1, <3>2, <3>3 DEF TrafficInv, Kept
  <2>3. CASE written' = written /\ dropped' = dropped + Len(batch)
    <3>1. UpTo(written \o <<>> \o queue, made)
      BY <1>t, BatchGone
    <3>2. /\ Len(written \o batch \o queue) = Len(written) + Len(batch) + Len(queue)
          /\ Len(written \o <<>> \o queue) = Len(written) + Len(queue)
      BY <1>t
    <3>3. /\ Len(written) \in Nat /\ Len(batch) \in Nat /\ Len(queue) \in Nat
          /\ <<>> \in Seq(Nat)
      BY <1>t
    <3>4. made = Len(written \o <<>> \o queue) + dropped' /\ dropped' \in Nat
      BY <1>t, <2>3, <3>2, <3>3
    <3> QED
      BY <1>t, <2>1, <2>3, <3>1, <3>3, <3>4 DEF TrafficInv, Kept
  <2> QED
    BY <1>4, <2>2, <2>3 DEF InsertRows
<1> QED
  BY <1>1, <1>2, <1>3, <1>4, RowsMove

\* A row handed over is in the table, with the writer, waiting or counted as
\* dropped, and none is there twice or out of turn (modules/traffic.rs): a full
\* queue and a failed batch lose rows, and say how many.
THEOREM EveryRowAccounted == Spec => []RowsAccounted
<1>1. Init => TrafficInv
  <2> SUFFICES ASSUME Init PROVE TrafficInv
    OBVIOUS
  <2>1. /\ queue = <<>> /\ batch = <<>> /\ written = <<>> /\ made = 0 /\ dropped = 0
        /\ <<>> \in Seq(Nat)
    BY DEF Init
  <2>2. Kept = <<>>
    BY <2>1 DEF Kept
  <2> QED
    BY <2>1, <2>2 DEF TrafficInv, UpTo
<1>2. TrafficInv => RowsAccounted
  BY DEF TrafficInv, RowsAccounted, UpTo, Kept
<1> QED
  BY <1>1, <1>2, TrafficStep, PTL DEF Spec

-----------------------------------------------------------------------------
(* Places.                                                                    *)

\* The connections that took a place of an address, and the places it has.
OpenOf(p) == {c \in Conns : conns[c].at # "idle" /\ conns[c].place = p}
Has_(p) == IF p \in DOMAIN held THEN held[p] ELSE 0

\* A connection that is open came from an address and took a place of it or none.
ConnOK(c) ==
    conns[c] # Idle =>
        /\ conns[c].at \in {"opened", "reading"}
        /\ conns[c] \in [at : {conns[c].at}, peer : {conns[c].peer}, since : {conns[c].since},
                         place : {conns[c].place}]
        /\ conns[c].peer # Nobody /\ conns[c].place \in {Nobody, conns[c].peer}

PlacesInv ==
    /\ conns = [c \in Conns |-> conns[c]] /\ \A c \in Conns : ConnOK(c)
    /\ \A p \in DOMAIN held : p # Nobody
    /\ scene \in DOMAIN Scenes
    /\ \A p : p # Nobody => Has_(p) = Cardinality(OpenOf(p)) /\ Has_(p) <= MaxPlaces

\* An address's open connections are finitely many.
LEMMA OpenFinite ==
  ASSUME NEW p
  PROVE  IsFiniteSet(OpenOf(p)) /\ Cardinality(OpenOf(p)) \in Nat
<1>1. OpenOf(p) \subseteq Conns
  BY DEF OpenOf
<1> QED
  BY <1>1, EdgeAssumption, FS_Subset, FS_CardinalityType

\* What a connection becomes: nothing else is one that is idle.
LEMMA Opened ==
  ASSUME NEW peer, NEW since, NEW place
  PROVE  LET s == [at |-> "opened", peer |-> peer, since |-> since, place |-> place]
         IN  s # Idle /\ s.at = "opened" /\ s.peer = peer /\ s.place = place
               /\ s \in [at : {s.at}, peer : {s.peer}, since : {s.since}, place : {s.place}]
<1> DEFINE s == [at |-> "opened", peer |-> peer, since |-> since, place |-> place]
<1>1. s.at = "opened" /\ s.peer = peer /\ s.place = place /\ s.since = since
  OBVIOUS
<1>2. s # Idle
  <2>1. Idle.at = "idle"
    BY DEF Idle
  <2> QED
    BY <1>1, <2>1
<1> QED
  BY <1>1, <1>2

\* First bytes: the connection is where it was, with the place it has.
LEMMA Reading ==
  ASSUME NEW a, NEW b, NEW d, NEW s \in [at : {"opened"}, peer : {a}, since : {b}, place : {d}]
  PROVE  LET t == [s EXCEPT !.at = "reading"]
         IN  t # Idle /\ t.at = "reading" /\ t.peer = a /\ t.place = d
               /\ t \in [at : {t.at}, peer : {t.peer}, since : {t.since}, place : {t.place}]
<1> DEFINE t == [s EXCEPT !.at = "reading"]
<1>1. t.at = "reading" /\ t.peer = a /\ t.place = d /\ t.since = b
  OBVIOUS
<1>2. t # Idle
  <2>1. Idle.at = "idle"
    BY DEF Idle
  <2> QED
    BY <1>1, <2>1
<1>3. t \in [at : {"reading"}, peer : {a}, since : {b}, place : {d}]
  OBVIOUS
<1> QED
  BY <1>1, <1>2, <1>3

\* Only a connection's own steps touch the places.
LEMMA PlacesMove ==
  [Next]_vars =>
    /\ scene' = scene
    /\ \/ UNCHANGED places
       \/ \E c \in Conns, peer \in Here.peers : Accept(c, peer)
       \/ \E c \in Conns : FirstBytes(c) \/ (conns[c].at # "idle" /\ Close(c))
<1> SUFFICES ASSUME [Next]_vars
             PROVE  /\ scene' = scene
                    /\ \/ UNCHANGED places
                       \/ \E c \in Conns, peer \in Here.peers : Accept(c, peer)
                       \/ \E c \in Conns : FirstBytes(c) \/ (conns[c].at # "idle" /\ Close(c))
  OBVIOUS
<1>1. ASSUME NEW r \in Reqs, Lists(r) \/ Count(r) \/ Body(r) \/ Countries(r) \/ Rules(r)
      PROVE  scene' = scene /\ UNCHANGED places
  BY <1>1 DEF Lists, Count, Body, Countries, Rules, Quiet
<1>2. ASSUME NEW r \in Reqs, Answer(r) \/ Checked(r) \/ Forward(r)
      PROVE  scene' = scene /\ UNCHANGED places
  BY <1>2 DEF Answer, Checked, Forward, Quiet
<1>3. ASSUME Visits \/ TakeBatch \/ InsertRows \/ Save \/ AdminPages \/ Tick
      PROVE  scene' = scene /\ UNCHANGED places
  BY <1>3 DEF Visits, TurnedAway, Take, TakeBatch, InsertRows, Save, AdminPages, Around, Tick, Quiet
<1>4. ASSUME NEW c \in Conns, Close(c)
      PROVE  scene' = scene
  BY <1>4 DEF Close
<1>5. ASSUME NEW c \in Conns, OpenedAsHttp2(c) \/ NothingSent(c) \/ Ended(c)
      PROVE  conns[c].at # "idle" /\ Close(c)
  BY <1>5 DEF OpenedAsHttp2, NothingSent, Ended
<1>6. ASSUME NEW c \in Conns, FirstBytes(c)
      PROVE  scene' = scene
  BY <1>6 DEF FirstBytes
<1>7. ASSUME NEW c \in Conns, NEW peer \in Here.peers, Accept(c, peer)
      PROVE  scene' = scene
  BY <1>7 DEF Accept
<1>8. CASE Requests
  <2>1. PICK r \in Reqs : \/ Lists(r) \/ Count(r) \/ Body(r) \/ Countries(r) \/ Rules(r)
                          \/ Answer(r) \/ Checked(r) \/ Forward(r)
    <3>1. Hurried \subseteq Reqs
      BY DEF Hurried
    <3> QED
      BY <1>8, <3>1 DEF Requests
  <2> QED
    BY <2>1, <1>1, <1>2
<1>9. CASE Connections
  BY <1>9, <1>4, <1>5, <1>6, <1>7 DEF Connections
<1>10. CASE Others /\ ~Connections
  BY <1>3, <1>10 DEF Others
<1>11. CASE UNCHANGED vars
  BY <1>11 DEF vars
<1> QED
  BY <1>8, <1>9, <1>10, <1>11 DEF Next

\* One connection is now x: an address has it among its open ones if x says so.
LEMMA OneMoved ==
  ASSUME NEW c \in Conns, NEW x, conns = [d \in Conns |-> conns[d]],
         conns' = [conns EXCEPT ![c] = x], NEW p
  PROVE  OpenOf(p)' = IF x.at # "idle" /\ x.place = p THEN OpenOf(p) \cup {c} ELSE OpenOf(p) \ {c}
<1>1. conns'[c] = x /\ \A d \in Conns : d # c => conns'[d] = conns[d]
  OBVIOUS
<1>2. /\ \A d \in Conns : d \in OpenOf(p) <=> conns[d].at # "idle" /\ conns[d].place = p
      /\ \A d \in Conns : d \in OpenOf(p)' <=> conns'[d].at # "idle" /\ conns'[d].place = p
      /\ OpenOf(p) \subseteq Conns /\ OpenOf(p)' \subseteq Conns
  BY DEF OpenOf
<1> QED
  BY <1>1, <1>2

\* A connection that comes takes a place of its address, or none; the address had
\* one left.
LEMMA AcceptPlaces ==
  ASSUME PlacesInv, NEW c \in Conns, NEW peer \in Here.peers, Accept(c, peer), scene' = scene
  PROVE  PlacesInv'
<1>i. /\ conns = [d \in Conns |-> conns[d]] /\ \A d \in Conns : ConnOK(d)
      /\ \A p \in DOMAIN held : p # Nobody
      /\ scene \in DOMAIN Scenes
      /\ \A p : p # Nobody => Has_(p) = Cardinality(OpenOf(p)) /\ Has_(p) <= MaxPlaces
  BY DEF PlacesInv
<1>p. peer # Nobody
  BY <1>i, ScenesAssumption DEF Here
<1> DEFINE has == IF peer \in DOMAIN held THEN held[peer] ELSE 0
<1>1. CASE UNCHANGED places
  BY <1>1 DEF PlacesInv, places, ConnOK, Has_, OpenOf
<1>2. CASE ~UNCHANGED places
  <2> DEFINE place == IF ~trusts(peer) THEN peer ELSE Nobody
             x == [at |-> "opened", peer |-> peer, since |-> clock, place |-> place]
  <2>1. /\ conns[c].at = "idle" /\ ~(~trusts(peer) /\ has >= MaxPlaces)
        /\ conns' = [conns EXCEPT ![c] = x]
        /\ held' = IF ~trusts(peer)
                   THEN [p \in DOMAIN held \cup {peer} |-> IF p = peer THEN has + 1 ELSE held[p]]
                   ELSE held
    BY <1>2 DEF Accept
  <2>2. /\ x # Idle /\ x.at = "opened" /\ x.peer = peer /\ x.place = place
        /\ x \in [at : {x.at}, peer : {x.peer}, since : {x.since}, place : {x.place}]
    BY Opened
  <2>3. place \in {Nobody, peer}
    OBVIOUS
  <2>4. has = Has_(peer)
    BY DEF Has_
  <2> HIDE DEF x
  <2>5. /\ conns'[c] = x /\ conns' = [d \in Conns |-> conns'[d]]
        /\ \A d \in Conns : d # c => conns'[d] = conns[d]
    BY <1>i, <2>1
  <2>6. \A d \in Conns : ConnOK(d)'
    <3> TAKE d \in Conns
    <3>1. CASE d = c
      BY <1>p, <2>2, <2>3, <2>5, <3>1 DEF ConnOK
    <3>2. CASE d # c
      BY <1>i, <2>5, <3>2 DEF ConnOK
    <3> QED
      BY <3>1, <3>2
  <2>7. \A p \in DOMAIN held' : p # Nobody
    BY <1>i, <1>p, <2>1
  <2>8. ASSUME NEW p, p # Nobody
        PROVE  Has_(p)' = Cardinality(OpenOf(p)') /\ Has_(p)' <= MaxPlaces
    <3>1. OpenOf(p)' = IF place = p THEN OpenOf(p) \cup {c} ELSE OpenOf(p) \ {c}
      BY <1>i, <2>1, <2>2, OneMoved
    <3>2. c \notin OpenOf(p) /\ IsFiniteSet(OpenOf(p)) /\ Cardinality(OpenOf(p)) \in Nat
      BY <2>1, OpenFinite DEF OpenOf
    <3>3. Has_(p) = Cardinality(OpenOf(p)) /\ Has_(p) <= MaxPlaces
      BY <1>i, <2>8
    <3>4. CASE place = p
      <4>1. p = peer /\ ~trusts(peer)
        BY <2>8, <3>4
      <4>2. Has_(p)' = Has_(p) + 1
        BY <2>1, <2>4, <4>1 DEF Has_
      <4>3. Cardinality(OpenOf(p)') = Cardinality(OpenOf(p)) + 1
        <5> DEFINE open == OpenOf(p)
        <5>1. OpenOf(p)' = open \cup {c} /\ c \notin open /\ IsFiniteSet(open)
          BY <3>1, <3>2, <3>4
        <5> HIDE DEF open
        <5>2. Cardinality(open \cup {c}) = Cardinality(open) + 1
          BY <5>1, FS_AddElement
        <5> QED
          BY <5>1, <5>2 DEF open
      <4>4. ~(Has_(p) >= MaxPlaces) /\ MaxPlaces \in Nat /\ Has_(p) \in Nat
        BY <2>1, <2>4, <3>2, <3>3, <4>1, EdgeAssumption
      <4> QED
        BY <3>3, <4>2, <4>3, <4>4
    <3>5. CASE place # p
      <4>1. Has_(p)' = Has_(p)
        <5>1. ~trusts(peer) => p # peer
          BY <3>5
        <5> QED
          BY <2>1, <5>1 DEF Has_
      <4>2. OpenOf(p)' = OpenOf(p)
        BY <3>1, <3>2, <3>5
      <4> QED
        BY <3>3, <4>1, <4>2
    <3> QED
      BY <3>4, <3>5
  <2>9. scene' \in DOMAIN Scenes
    BY <1>i
  <2> QED
    BY <2>5, <2>6, <2>7, <2>8, <2>9 DEF PlacesInv
<1> QED
  BY <1>1, <1>2

\* A connection that ends gives back the place it took, whoever is trusted now.
LEMMA ClosePlaces ==
  ASSUME PlacesInv, NEW c \in Conns, conns[c].at # "idle", Close(c), scene' = scene
  PROVE  PlacesInv'
<1>i. /\ conns = [d \in Conns |-> conns[d]] /\ \A d \in Conns : ConnOK(d)
      /\ \A p \in DOMAIN held : p # Nobody
      /\ scene \in DOMAIN Scenes
      /\ \A p : p # Nobody => Has_(p) = Cardinality(OpenOf(p)) /\ Has_(p) <= MaxPlaces
  BY DEF PlacesInv
<1> DEFINE place == conns[c].place
<1>1. conns' = [conns EXCEPT ![c] = Idle] /\ GiveBack(place)
  BY DEF Close
<1>2. Idle.at = "idle"
  BY DEF Idle
<1>3. /\ conns' = [d \in Conns |-> conns'[d]] /\ conns'[c] = Idle
      /\ \A d \in Conns : d # c => conns'[d] = conns[d]
  BY <1>i, <1>1
<1>4. \A d \in Conns : ConnOK(d)'
  <2> TAKE d \in Conns
  <2>1. CASE d = c
    BY <1>3, <2>1 DEF ConnOK, Idle
  <2>2. CASE d # c
    BY <1>i, <1>3, <2>2 DEF ConnOK
  <2> QED
    BY <2>1, <2>2
<1> HIDE DEF place
<1>5. /\ place = Nobody => held' = held
      /\ place # Nobody /\ place \notin DOMAIN held => held' = held
      /\ place # Nobody /\ place \in DOMAIN held /\ held[place] <= 1
           => held' = [p \in DOMAIN held \ {place} |-> held[p]]
      /\ place # Nobody /\ place \in DOMAIN held /\ ~(held[place] <= 1)
           => held' = [held EXCEPT ![place] = held[place] - 1]
  BY <1>1 DEF GiveBack, Restrict
<1>6. \A p \in DOMAIN held' : p # Nobody
  BY <1>i, <1>5
<1>7. ASSUME NEW p, p # Nobody
      PROVE  Has_(p)' = Cardinality(OpenOf(p)') /\ Has_(p)' <= MaxPlaces
  <2>1. OpenOf(p)' = OpenOf(p) \ {c}
    BY <1>i, <1>1, <1>2, OneMoved
  <2>2. IsFiniteSet(OpenOf(p)) /\ Cardinality(OpenOf(p)) \in Nat
    BY OpenFinite
  <2>3. Has_(p) = Cardinality(OpenOf(p)) /\ Has_(p) <= MaxPlaces
    BY <1>i, <1>7
  <2>4. c \in OpenOf(p) <=> p = place
    BY DEF OpenOf, place
  <2>5. CASE p = place
    <3> DEFINE open == OpenOf(p)
    <3>1. OpenOf(p)' = open \ {c} /\ c \in open /\ IsFiniteSet(open)
      BY <2>1, <2>2, <2>4, <2>5
    <3>2. Cardinality(open) # 0 /\ Cardinality(open \ {c}) = Cardinality(open) - 1
      <4> HIDE DEF open
      <4> QED
        BY <3>1, FS_RemoveElement, FS_EmptySet
    <3>3. Has_(p) \in Nat \ {0} /\ MaxPlaces \in Nat
      BY <2>2, <2>3, <3>2, EdgeAssumption
    <3>4. p \in DOMAIN held /\ Has_(p) = held[p]
      BY <3>3 DEF Has_
    <3>5. Has_(p)' = Has_(p) - 1
      <4>1. CASE held[p] <= 1
        <5>1. p \notin DOMAIN held'
          BY <1>5, <1>7, <2>5, <3>4, <4>1
        <5>2. Has_(p)' = 0 /\ Has_(p) = 1
          BY <3>3, <3>4, <4>1, <5>1 DEF Has_
        <5> QED
          BY <5>2
      <4>2. CASE ~(held[p] <= 1)
        BY <1>5, <1>7, <2>5, <3>4, <4>2 DEF Has_
      <4> QED
        BY <4>1, <4>2
    <3> QED
      BY <2>3, <3>1, <3>2, <3>3, <3>5
  <2>6. CASE p # place
    <3>1. OpenOf(p)' = OpenOf(p)
      BY <2>1, <2>4, <2>6
    <3>2. Has_(p)' = Has_(p)
      BY <1>5, <2>6 DEF Has_
    <3> QED
      BY <2>3, <3>1, <3>2
  <2> QED
    BY <2>5, <2>6
<1> QED
  BY <1>i, <1>3, <1>4, <1>6, <1>7 DEF PlacesInv

\* First bytes leave a connection the place it has.
LEMMA ReadingPlaces ==
  ASSUME PlacesInv, NEW c \in Conns, FirstBytes(c), scene' = scene
  PROVE  PlacesInv'
<1>i. /\ conns = [d \in Conns |-> conns[d]] /\ \A d \in Conns : ConnOK(d)
      /\ \A p \in DOMAIN held : p # Nobody
      /\ scene \in DOMAIN Scenes
      /\ \A p : p # Nobody => Has_(p) = Cardinality(OpenOf(p)) /\ Has_(p) <= MaxPlaces
  BY DEF PlacesInv
<1> DEFINE x == [conns[c] EXCEPT !.at = "reading"]
<1>1. conns[c].at = "opened" /\ conns' = [conns EXCEPT ![c] = x] /\ held' = held
  BY DEF FirstBytes
<1>2. conns[c] # Idle
  BY <1>1 DEF Idle
<1>3. /\ conns[c] \in [at : {"opened"}, peer : {conns[c].peer}, since : {conns[c].since},
                       place : {conns[c].place}]
      /\ conns[c].peer # Nobody /\ conns[c].place \in {Nobody, conns[c].peer}
  BY <1>i, <1>1, <1>2 DEF ConnOK
<1>4. /\ x # Idle /\ x.at = "reading" /\ x.peer = conns[c].peer /\ x.place = conns[c].place
      /\ x \in [at : {x.at}, peer : {x.peer}, since : {x.since}, place : {x.place}]
  BY <1>3, Reading
<1> HIDE DEF x
<1>5. /\ conns' = [d \in Conns |-> conns'[d]] /\ conns'[c] = x
      /\ \A d \in Conns : d # c => conns'[d] = conns[d]
  BY <1>i, <1>1
<1>6. \A d \in Conns : ConnOK(d)'
  <2> TAKE d \in Conns
  <2>1. CASE d = c
    BY <1>3, <1>4, <1>5, <2>1 DEF ConnOK
  <2>2. CASE d # c
    BY <1>i, <1>5, <2>2 DEF ConnOK
  <2> QED
    BY <2>1, <2>2
<1>7. \A p : OpenOf(p)' = OpenOf(p) /\ Has_(p)' = Has_(p)
  BY <1>1, <1>4, <1>5 DEF OpenOf, Has_
<1> QED
  BY <1>i, <1>1, <1>5, <1>6, <1>7 DEF PlacesInv

\* An address holds as many places as it has open connections that took one, and
\* never more than it may (slow_clients.rs): the place given back is the one that
\* was taken, whoever is made a trusted proxy in between.
THEOREM PlacesGivenBack == Spec => []PlacesHeld
<1>1. Init => PlacesInv
  <2> SUFFICES ASSUME Init PROVE PlacesInv
    OBVIOUS
  <2>1. conns = [c \in Conns |-> Idle] /\ held = <<>> /\ scene \in DOMAIN Scenes
    BY DEF Init
  <2>2. Idle.at = "idle" /\ DOMAIN held = {}
    BY <2>1 DEF Idle
  <2>3. \A p : OpenOf(p) = {} /\ Has_(p) = 0
    BY <2>1, <2>2 DEF OpenOf, Has_
  <2>4. Cardinality({}) = 0 /\ 0 <= MaxPlaces
    BY FS_EmptySet, EdgeAssumption
  <2> QED
    BY <2>1, <2>2, <2>3, <2>4 DEF PlacesInv, ConnOK
<1>2. PlacesInv /\ [Next]_vars => PlacesInv'
  <2> SUFFICES ASSUME PlacesInv, [Next]_vars PROVE PlacesInv'
    OBVIOUS
  <2>1. scene' = scene
    BY PlacesMove
  <2>2. CASE UNCHANGED places
    BY <2>1, <2>2 DEF PlacesInv, places, ConnOK, Has_, OpenOf
  <2> QED
    BY <2>1, <2>2, PlacesMove, AcceptPlaces, ClosePlaces, ReadingPlaces
<1>3. PlacesInv => PlacesHeld
  <2> SUFFICES ASSUME PlacesInv,
                      NEW p \in DOMAIN held \cup {conns[c].peer : c \in {c \in Conns : conns[c].at # "idle"}}
               PROVE  Has_(p) = Cardinality(OpenOf(p)) /\ Has_(p) <= MaxPlaces
    BY DEF PlacesHeld, Has_, OpenOf
  <2>1. p # Nobody
    <3>1. CASE p \in DOMAIN held
      BY <3>1 DEF PlacesInv
    <3>2. CASE p \notin DOMAIN held
      <4>1. PICK c \in Conns : conns[c].at # "idle" /\ p = conns[c].peer
        BY <3>2
      <4> QED
        BY <4>1 DEF PlacesInv, ConnOK, Idle
    <3> QED
      BY <3>1, <3>2
  <2> QED
    BY <2>1 DEF PlacesInv
<1> QED
  BY <1>1, <1>2, <1>3, PTL DEF Spec

-----------------------------------------------------------------------------
(* Sessions.                                                                  *)

\* The realms a request may go by: the stored one, and what each read when it came.
Busy == {r \in Reqs : reqs[r].at # "idle"}
Snaps == {reqs[r].site.realm : r \in Busy}
Realms == {realm} \cup Snaps

\* An account is known by the password it had at an epoch, in whatever reading of
\* the realm, and no epoch is ahead of the account's; unless its name was deleted and
\* added again, when epochs begin anew and say nothing.
Fits(R, u, epoch, password) ==
    R.local /\ Has(R, u) /\ R.users[u].epoch = epoch => R.users[u].password = password
Past(u, epoch) ==
    realm.local => u \in gone \/ (Has(realm, u) /\ epoch <= realm.users[u].epoch)
Proved(u, epoch, password) ==
    /\ password # "" /\ epoch \in Nat /\ Past(u, epoch)
    /\ u \notin again => \A R \in Realms : Fits(R, u, epoch, password)

RealmOK ==
    /\ realm \in [local : BOOLEAN, epoch : Nat, session : {realm.session}, idle : {realm.idle},
                  users : {realm.users}]
    /\ realm.users = [u \in DOMAIN realm.users |-> realm.users[u]]
    /\ \A u \in DOMAIN realm.users :
          /\ u \notin gone \/ u \in again
          /\ realm.users[u] \in [password : Passwords, enabled : BOOLEAN, epoch : Nat]
    /\ ~realm.local => DOMAIN realm.users = {}
    /\ page = [a \in Admins |-> page[a]] /\ \A a \in Admins : page[a] # NoOne => realm.local

ReadingsOK ==
    \A R \in Realms :
        /\ R.local = realm.local /\ R.epoch \in Nat /\ R.epoch <= realm.epoch
        /\ R.local => \A u \in DOMAIN R.users : Proved(u, R.users[u].epoch, R.users[u].password)

\* What a realm holds against a cookie for good.
Dead(R, c) ==
    \/ c.epoch # R.epoch
    \/ R.local /\ ~(Has(R, c.subject) /\ R.users[c.subject].enabled
                      /\ R.users[c.subject].epoch = c.user_epoch)

Over(R, c) == Dead(R, c) \/ c.subject \in again

CookieOK(c) ==
    /\ DOMAIN c = {"proved", "first", "ended", "subject", "issued", "seen", "epoch", "user_epoch"}
    /\ c.subject # NoOne /\ c.issued = c.first
    /\ c.epoch \in Nat /\ c.epoch <= realm.epoch
    /\ Proved(c.subject, c.user_epoch, c.proved)
    /\ c.ended \in BOOLEAN /\ (c.ended => Over(realm, c))

\* What SessionFollowsAccount says of a request that is on its way to the backend.
Named(q) ==
    IF ~q.site.auth.asks THEN q.named = NoOne
    ELSE IF q.named = NoOne
    THEN \A path \in q.visit.readings : ~needs_sign_in(q.site.auth, {path})
    ELSE /\ q.site.realm.local => Has(q.site.realm, q.named) /\ q.site.realm.users[q.named].enabled
         /\ q.named \notin again =>
              /\ q.site.realm.local => check_password(q.site.realm, q.named, q.proved)
              /\ q.by = "session" => ~q.cookie.ended
         /\ q.by = "session" => q.moment < q.cookie.first + q.site.realm.session

\* What a request has from the start.
Came == {"at", "visit", "cookie", "client", "https", "site"}

\* A request's cookie is one that was minted, or was ended since; one that was ended
\* before is dead for the realm the request read.
CameOK(q) ==
    /\ Came \subseteq DOMAIN q /\ q.visit \in Here.visits
    /\ q.cookie # NoOne => /\ CookieOK(q.cookie) /\ (q.cookie \in cookies \/ Over(realm, q.cookie))
                           /\ q.cookie.ended => Over(q.site.realm, q.cookie)

\* A session it goes by was honoured on the realm it read.
Honoured(q) ==
    /\ {"session", "moment"} \subseteq DOMAIN q
    /\ q.session # NoOne => /\ q.session = q.cookie
                            /\ honours(q.site.realm, q.cookie, q.moment)

\* A password is checked of somebody, where the site asks.
Asked(q) ==
    /\ {"name", "password", "by"} \subseteq DOMAIN q
    /\ q.name # NoOne /\ q.by \in {"form", "basic"} /\ q.site.auth.asks

RequestOK(q) ==
    /\ CameOK(q)
    /\ q.at \in {"countries", "rules", "judged"} => Honoured(q)
    /\ q.at = "checking" => Asked(q)
    /\ q.at = "forward" => Named(q)

SessionInv ==
    /\ scene \in DOMAIN Scenes /\ RealmOK /\ ReadingsOK
    /\ \A c \in cookies : CookieOK(c)
    /\ \A m \in basic : Proved(m.key.name, m.user_epoch, m.key.password)
    /\ reqs = [r \in Reqs |-> reqs[r]] /\ \A r \in Busy : RequestOK(reqs[r])

\* A request that goes on, knowing more; it keeps what it came with.
Onward(q, more, at) == [Knowing(q, more) EXCEPT !.at = at]
Further(more) == DOMAIN more \cap Came = {}
HasCome(q) == Came \subseteq DOMAIN q

LEMMA OnwardDomain ==
  ASSUME NEW q, NEW more, NEW at
  PROVE  DOMAIN Onward(q, more, at) = DOMAIN q \cup DOMAIN more
BY DEF Onward, Knowing

LEMMA Knows ==
  ASSUME NEW q, NEW more, NEW at, Further(more), NEW f \in DOMAIN more
  PROVE  Onward(q, more, at)[f] = more[f]
BY DEF Onward, Knowing, Came, Further

LEMMA Knew ==
  ASSUME NEW q, NEW more, NEW at, NEW f \in DOMAIN q, f \notin DOMAIN more, f # "at"
  PROVE  Onward(q, more, at)[f] = q[f]
BY DEF Onward, Knowing

LEMMA GoneOn ==
  ASSUME NEW q, NEW more, NEW at, HasCome(q), Further(more), NEW t, t = Onward(q, more, at)
  PROVE  /\ HasCome(t) /\ t.at = at /\ t.visit = q.visit /\ t.cookie = q.cookie
         /\ t.client = q.client /\ t.https = q.https /\ t.site = q.site
<1>1. t["at"] = at
  BY DEF HasCome, Came, Onward, Knowing
<1>2. HasCome(t)
  BY ONLY HasCome(q), t = Onward(q, more, at) DEF HasCome, Onward, Knowing
<1>3. ASSUME NEW f \in Came \ {"at"}
      PROVE  t[f] = q[f]
  BY <1>3, Knew DEF HasCome, Further
<1>4. /\ t["visit"] = q["visit"] /\ t["cookie"] = q["cookie"] /\ t["client"] = q["client"]
      /\ t["https"] = q["https"] /\ t["site"] = q["site"]
  BY <1>3 DEF Came
<1> QED
  BY <1>1, <1>2, <1>4

\* A request takes a step, and no administrator: what was so of the realm, of
\* cookies and of credentials is so still.
LEMMA RequestMoved ==
  ASSUME SessionInv, NEW r \in Reqs, NEW x, reqs' = [reqs EXCEPT ![r] = x],
         UNCHANGED <<realm, gone, again, page, scene>>,
         cookies \subseteq cookies', \A c \in cookies' \ cookies : CookieOK(c),
         \A m \in basic' : Proved(m.key.name, m.user_epoch, m.key.password),
         x.at # "idle" => x.site.realm \in Realms /\ RequestOK(x)
  PROVE  SessionInv'
<1>i. /\ scene' \in DOMAIN Scenes /\ RealmOK /\ ReadingsOK /\ \A c \in cookies : CookieOK(c)
      /\ reqs = [q \in Reqs |-> reqs[q]] /\ \A q \in Busy : RequestOK(reqs[q])
  BY DEF SessionInv
<1>1. /\ reqs' = [q \in Reqs |-> reqs'[q]] /\ reqs'[r] = x
      /\ \A q \in Reqs : q # r => reqs'[q] = reqs[q]
  BY <1>i
<1>2. \A q \in Busy' : (q = r /\ x.at # "idle") \/ (q \in Busy /\ q # r /\ reqs'[q] = reqs[q])
  BY <1>1 DEF Busy
<1>3. Realms' \subseteq Realms
  BY <1>1, <1>2 DEF Realms, Snaps
<1>4. \A u, e, p : Proved(u, e, p) => Proved(u, e, p)'
  BY <1>3 DEF Proved, Past
<1>5. \A c : CookieOK(c) => CookieOK(c)'
  BY <1>4 DEF CookieOK, Over
<1>6. \A q : RequestOK(q) => RequestOK(q)'
  BY <1>5 DEF RequestOK, CameOK, Named, Over, Here
<1>7. \A q \in Busy' : RequestOK(reqs[q])'
  BY <1>i, <1>1, <1>2, <1>6
<1>8. RealmOK'
  BY <1>i DEF RealmOK
<1>9. ReadingsOK'
  BY <1>i, <1>3, <1>4 DEF ReadingsOK
<1>10. \A c \in cookies' : CookieOK(c)'
  BY <1>i, <1>5
<1>11. \A m \in basic' : Proved(m.key.name, m.user_epoch, m.key.password)'
  BY <1>4
<1> QED
  BY <1>i, <1>1, <1>7, <1>8, <1>9, <1>10, <1>11 DEF SessionInv

\* What an administrator can make of a realm: accounts come, go, and change with their
\* epochs; and of a name that comes again it is known that it has.
Later ==
    /\ realm' \in [local : {realm.local}, epoch : Nat, session : {realm'.session},
                   idle : {realm'.idle}, users : {realm'.users}]
    /\ realm'.epoch >= realm.epoch /\ gone \subseteq gone' /\ again \subseteq again'
    /\ realm'.users = [u \in DOMAIN realm'.users |-> realm'.users[u]]
    /\ ~realm.local => DOMAIN realm'.users = {}
    /\ \A u \in DOMAIN realm.users : u \in gone' \/ u \in DOMAIN realm'.users
    /\ \A u \in DOMAIN realm'.users :
          /\ u \notin gone' \/ u \in again'
          /\ realm'.users[u] \in [password : Passwords, enabled : BOOLEAN, epoch : Nat]
          /\ u \in DOMAIN realm.users =>
                \/ realm'.users[u] = realm.users[u]
                \/ realm'.users[u].epoch > realm.users[u].epoch

\* A password proved at an epoch stays the one of that epoch.
LEMMA StillProved ==
  ASSUME RealmOK, ReadingsOK, reqs' = reqs, Later
  PROVE  \A u, e, p : Proved(u, e, p) => Proved(u, e, p)'
<1> SUFFICES ASSUME NEW u, NEW e, NEW p, Proved(u, e, p) PROVE Proved(u, e, p)'
  OBVIOUS
<1>1. Snaps' = Snaps
  BY DEF Snaps, Busy
<1>2. /\ p # "" /\ e \in Nat /\ (realm.local => u \in gone \/ (Has(realm, u) /\ e <= realm.users[u].epoch))
      /\ u \notin again => \A R \in Realms : Fits(R, u, e, p)
  BY DEF Proved, Past
<1>3. /\ realm'.local = realm.local /\ gone \subseteq gone' /\ again \subseteq again'
      /\ \A v \in DOMAIN realm.users : v \in gone' \/ v \in DOMAIN realm'.users
      /\ \A v \in DOMAIN realm'.users :
            /\ v \notin gone' \/ v \in again'
            /\ realm'.users[v].epoch \in Nat
            /\ v \in DOMAIN realm.users =>
                  \/ realm'.users[v] = realm.users[v]
                  \/ realm'.users[v].epoch > realm.users[v].epoch
  BY DEF Later
<1>4. \A v \in DOMAIN realm.users : realm.users[v].epoch \in Nat
  BY DEF RealmOK
<1>u. /\ u \in DOMAIN realm.users => u \in gone' \/ u \in DOMAIN realm'.users
      /\ u \in DOMAIN realm'.users =>
            /\ u \notin gone' \/ u \in again'
            /\ realm'.users[u].epoch \in Nat
            /\ u \in DOMAIN realm.users =>
                  /\ realm.users[u].epoch \in Nat
                  /\ \/ realm'.users[u] = realm.users[u]
                     \/ realm'.users[u].epoch > realm.users[u].epoch
  BY <1>3, <1>4
<1>e. ASSUME realm.local, u \notin gone, u \in DOMAIN realm'.users
      PROVE  /\ u \in DOMAIN realm.users /\ e <= realm.users[u].epoch
             /\ e <= realm'.users[u].epoch
             /\ realm'.users[u].epoch = e => realm'.users[u] = realm.users[u]
  <2>2. u \in DOMAIN realm.users /\ e <= realm.users[u].epoch
    BY <1>2, <1>e DEF Has
  <2>3. CASE realm'.users[u] = realm.users[u]
    BY <2>2, <2>3
  <2>4. CASE realm'.users[u].epoch > realm.users[u].epoch
    <3> DEFINE a == realm.users[u].epoch
               b == realm'.users[u].epoch
    <3>1. a \in Nat /\ b \in Nat /\ e \in Nat /\ e <= a /\ b > a
      BY <1>2, <1>e, <1>u, <2>2, <2>4
    <3> HIDE DEF a, b
    <3>2. e <= b /\ b # e
      BY <3>1
    <3> QED
      BY <2>2, <3>2 DEF a, b
  <2> QED
    BY <1>e, <1>u, <2>2, <2>3, <2>4
<1>5. Past(u, e)'
  <2> SUFFICES ASSUME realm'.local, u \notin gone
               PROVE  u \in gone' \/ (Has(realm', u) /\ e <= realm'.users[u].epoch)
    BY <1>3 DEF Past
  <2>1. CASE u \in DOMAIN realm'.users
    BY <1>3, <1>e, <2>1 DEF Has
  <2>2. CASE u \notin DOMAIN realm'.users
    BY <1>2, <1>3, <1>u, <2>2 DEF Has
  <2> QED
    BY <2>1, <2>2
<1>6. ASSUME u \notin again'
      PROVE  Fits(realm', u, e, p)
  <2> SUFFICES ASSUME realm.local, u \in DOMAIN realm'.users, realm'.users[u].epoch = e
               PROVE  realm'.users[u].password = p
    BY <1>3 DEF Fits, Has
  <2>0. u \notin gone /\ u \notin again
    BY <1>3, <1>6
  <2>1. u \in DOMAIN realm.users /\ realm'.users[u] = realm.users[u]
    BY <1>e, <2>0
  <2>3. Fits(realm, u, e, p)
    BY <1>2, <2>0 DEF Realms
  <2> QED
    BY <2>1, <2>3 DEF Fits, Has
<1>7. u \notin again' => \A R \in Realms' : Fits(R, u, e, p)
  BY <1>1, <1>2, <1>3, <1>6 DEF Realms
<1> QED
  BY <1>2, <1>5, <1>7 DEF Proved

\* What an account holds once an administrator has changed it is proved of it too:
\* its epoch is one nobody has read before.
LEMMA NewlyProved ==
  ASSUME RealmOK, ReadingsOK, reqs' = reqs, Later, realm.local, NEW u \in DOMAIN realm'.users,
         NEW e, NEW p, e = realm'.users[u].epoch, p = realm'.users[u].password
  PROVE  Proved(u, e, p)'
<1>1. Snaps' = Snaps
  BY DEF Snaps, Busy
<1>2. /\ u \notin again' => u \notin gone
      /\ e \in Nat /\ p \in Passwords
      /\ u \in DOMAIN realm.users => realm'.users[u] = realm.users[u] \/ e > realm.users[u].epoch
  BY DEF Later
<1>3. \A R \in Realms : R.local => \A v \in DOMAIN R.users : Proved(v, R.users[v].epoch, R.users[v].password)
  BY DEF ReadingsOK
<1>4. CASE u \in DOMAIN realm.users /\ realm'.users[u] = realm.users[u]
  <2>1. Proved(u, e, p)
    BY <1>3, <1>4 DEF Realms
  <2> QED
    BY <2>1, StillProved
<1>5. CASE ~(u \in DOMAIN realm.users /\ realm'.users[u] = realm.users[u])
  <2>1. ASSUME u \notin again', NEW R \in Snaps, R.local, u \in DOMAIN R.users
        PROVE  u \in DOMAIN realm.users /\ R.users[u].epoch \in Nat
                 /\ R.users[u].epoch <= realm.users[u].epoch
    <3>1. Proved(u, R.users[u].epoch, R.users[u].password)
      BY <1>3, <2>1 DEF Realms
    <3>2. u \notin gone
      BY <1>2, <2>1
    <3> QED
      BY <3>1, <3>2 DEF Proved, Past, Has
  <2>2. ASSUME u \notin again', NEW R \in Snaps, R.local, u \in DOMAIN R.users
        PROVE  R.users[u].epoch # e
    <3> DEFINE a == R.users[u].epoch
               b == realm.users[u].epoch
    <3>1. a \in Nat /\ a <= b /\ e > b /\ b \in Nat /\ e \in Nat
      BY <1>2, <1>5, <2>1, <2>2 DEF RealmOK
    <3> HIDE DEF a, b
    <3>2. a # e
      BY <3>1
    <3> QED
      BY <3>2 DEF a
  <2>3. u \notin again' => \A R \in Snaps : Fits(R, u, e, p)
    BY <2>2 DEF Fits, Has
  <2>4. Fits(realm', u, e, p)
    BY DEF Fits
  <2>5. Past(u, e)'
    BY <1>2 DEF Past, Has
  <2>6. p # ""
    BY <1>2, GatewayAssumption
  <2>7. u \notin again' => \A R \in Realms' : Fits(R, u, e, p)
    BY <1>1, <2>3, <2>4 DEF Realms
  <2> QED
    BY <1>2, <2>5, <2>6, <2>7 DEF Proved
<1> QED
  BY <1>4, <1>5

\* What has been ended stays so: epochs do not come back, unless the name does.
LEMMA StayDead ==
  ASSUME RealmOK, Later, NEW c, CookieOK(c), Over(realm, c)
  PROVE  Over(realm, c)'
<1> SUFFICES ASSUME Dead(realm, c), c.subject \notin again' PROVE Dead(realm', c)
  BY DEF Over, Later
<1>1. /\ realm'.local = realm.local /\ realm.epoch \in Nat /\ realm'.epoch \in Nat
      /\ realm'.epoch >= realm.epoch
  BY DEF Later, RealmOK
<1>2. /\ c.epoch \in Nat /\ c.epoch <= realm.epoch /\ c.user_epoch \in Nat
      /\ Past(c.subject, c.user_epoch)
  BY DEF CookieOK, Proved
<1>3. CASE c.epoch # realm.epoch
  <2>1. c.epoch # realm'.epoch
    BY <1>1, <1>2, <1>3
  <2> QED
    BY <2>1 DEF Dead
<1>4. CASE /\ realm.local
           /\ ~(Has(realm, c.subject) /\ realm.users[c.subject].enabled
                  /\ realm.users[c.subject].epoch = c.user_epoch)
  <2> DEFINE u == c.subject
  <2>1. SUFFICES ASSUME u \in DOMAIN realm'.users, realm'.users[u].enabled,
                        realm'.users[u].epoch = c.user_epoch
                 PROVE  FALSE
    BY <1>1, <1>4 DEF Dead, Has
  <2>2. /\ u \notin gone
        /\ u \in DOMAIN realm.users => \/ realm'.users[u] = realm.users[u]
                                       \/ realm'.users[u].epoch > realm.users[u].epoch
    BY <2>1 DEF Later
  <2>3. u \in DOMAIN realm.users /\ c.user_epoch <= realm.users[u].epoch
    BY <1>2, <1>4, <2>2 DEF Past, Has
  <2>4. CASE realm'.users[u] = realm.users[u]
    BY <1>4, <2>1, <2>3, <2>4 DEF Has
  <2>5. CASE realm'.users[u].epoch > realm.users[u].epoch
    <3> DEFINE a == realm.users[u].epoch
               b == realm'.users[u].epoch
               d == c.user_epoch
    <3>1. a \in Nat /\ b > a /\ b = d /\ d <= a /\ d \in Nat
      BY <1>2, <2>1, <2>3, <2>5 DEF RealmOK
    <3> HIDE DEF a, b, d
    <3> QED
      BY <3>1
  <2> QED
    BY <2>2, <2>3, <2>4, <2>5
<1> QED
  BY <1>3, <1>4 DEF Dead

\* A cookie that is said to be ended is otherwise the one it was.
LEMMA SaidEnded ==
  ASSUME NEW c, DOMAIN c = {"proved", "first", "ended", "subject", "issued", "seen", "epoch", "user_epoch"}
  PROVE  LET d == [c EXCEPT !.ended = TRUE]
         IN  /\ DOMAIN d = DOMAIN c /\ d.ended = TRUE
             /\ d.subject = c.subject /\ d.issued = c.issued /\ d.first = c.first
             /\ d.epoch = c.epoch /\ d.user_epoch = c.user_epoch /\ d.proved = c.proved
<1> DEFINE d == [c EXCEPT !.ended = TRUE]
<1>1. DOMAIN d = DOMAIN c /\ d["ended"] = TRUE
  OBVIOUS
<1>2. \A x \in DOMAIN c : x # "ended" => d[x] = c[x]
  OBVIOUS
<1> HIDE DEF d
<1>3. /\ d["subject"] = c["subject"] /\ d["issued"] = c["issued"] /\ d["first"] = c["first"]
      /\ d["epoch"] = c["epoch"] /\ d["user_epoch"] = c["user_epoch"] /\ d["proved"] = c["proved"]
  BY <1>2
<1> QED
  BY <1>1, <1>3 DEF d

\* An administrator takes a step: what the pages promise of the cookies holds, when
\* the realm that is stored holds it against those they name.
LEMMA AdminMoved ==
  ASSUME SessionInv, Later, UNCHANGED <<reqs, basic, scene>>,
         page' = [a \in Admins |-> page'[a]], \A a \in Admins : page'[a] # NoOne => realm.local,
         NEW names, \A c : CookieOK(c) /\ c.subject \in names => Over(realm, c)',
         cookies' = cookies \/ Ends(names)
  PROVE  SessionInv'
<1>i. /\ scene' \in DOMAIN Scenes /\ RealmOK /\ ReadingsOK /\ \A c \in cookies : CookieOK(c)
      /\ \A m \in basic : Proved(m.key.name, m.user_epoch, m.key.password)
      /\ reqs = [q \in Reqs |-> reqs[q]] /\ \A q \in Busy : RequestOK(reqs[q])
  BY DEF SessionInv
<1>1. Snaps' = Snaps /\ Busy' = Busy
  BY DEF Snaps, Busy
<1>2. \A u, e, p : Proved(u, e, p) => Proved(u, e, p)'
  BY <1>i, StillProved
<1>3. RealmOK'
  <2>1. realm.local \in BOOLEAN
    BY <1>i DEF RealmOK
  <2>2. /\ realm' \in [local : {realm.local}, epoch : Nat, session : {realm'.session},
                       idle : {realm'.idle}, users : {realm'.users}]
        /\ realm'.users = [u \in DOMAIN realm'.users |-> realm'.users[u]]
        /\ \A u \in DOMAIN realm'.users :
              /\ u \notin gone' \/ u \in again'
              /\ realm'.users[u] \in [password : Passwords, enabled : BOOLEAN, epoch : Nat]
        /\ ~realm.local => DOMAIN realm'.users = {}
    BY DEF Later
  <2>3. realm'.local = realm.local
    BY <2>2
  <2>4. realm' \in [local : BOOLEAN, epoch : Nat, session : {realm'.session},
                    idle : {realm'.idle}, users : {realm'.users}]
    BY <2>1, <2>2
  <2> QED
    BY <2>2, <2>3, <2>4 DEF RealmOK
<1>4. ReadingsOK'
  <2> SUFFICES ASSUME NEW R \in Realms'
               PROVE  /\ R.local = realm'.local /\ R.epoch \in Nat /\ R.epoch <= realm'.epoch
                      /\ R.local => \A u \in DOMAIN R.users :
                                       Proved(u, R.users[u].epoch, R.users[u].password)'
    BY DEF ReadingsOK
  <2>r. realm'.local = realm.local /\ realm'.epoch \in Nat /\ realm'.epoch >= realm.epoch
    BY DEF Later
  <2>1. CASE R \in Snaps
    <3>1. /\ R.local = realm.local /\ R.epoch \in Nat /\ R.epoch <= realm.epoch
          /\ R.local => \A u \in DOMAIN R.users : Proved(u, R.users[u].epoch, R.users[u].password)
      BY <1>i, <2>1 DEF ReadingsOK, Realms
    <3>2. realm.epoch \in Nat
      BY <1>i DEF RealmOK
    <3>3. R.epoch <= realm'.epoch
      BY <2>r, <3>1, <3>2
    <3> QED
      BY <1>2, <2>r, <3>1, <3>3
  <2>2. CASE R = realm'
    <3>1. ASSUME R.local, NEW u \in DOMAIN R.users,
                 NEW e, NEW p, e = R.users[u].epoch, p = R.users[u].password
          PROVE  Proved(u, e, p)'
      BY <1>i, <2>2, <2>r, <3>1, NewlyProved
    <3> QED
      BY <2>2, <2>r, <3>1
  <2> QED
    BY <1>1, <2>1, <2>2 DEF Realms
<1>5. \A c : CookieOK(c) => CookieOK(c)'
  <2> SUFFICES ASSUME NEW c, CookieOK(c) PROVE CookieOK(c)'
    OBVIOUS
  <2>1. c.ended => Over(realm, c)'
    BY <1>i, StayDead DEF CookieOK
  <2>2. c.epoch <= realm'.epoch
    BY <1>i DEF CookieOK, Later, RealmOK
  <2> QED
    BY <1>2, <2>1, <2>2 DEF CookieOK
<1>6. \A c \in cookies' : CookieOK(c)'
  <2>1. CASE cookies' = cookies
    BY <1>i, <1>5, <2>1
  <2>2. CASE Ends(names)
    <3> SUFFICES ASSUME NEW d \in cookies' PROVE CookieOK(d)'
      OBVIOUS
    <3>1. PICK c \in cookies : d = IF c.subject \in names THEN [c EXCEPT !.ended = TRUE] ELSE c
      BY <2>2 DEF Ends
    <3>2. CookieOK(c) /\ CookieOK(c)'
      BY <1>i, <1>5
    <3>3. CASE c.subject \notin names
      BY <3>1, <3>2, <3>3
    <3>4. CASE c.subject \in names
      <4>1. Over(realm, c)'
        BY <3>2, <3>4
      <4>2. DOMAIN c = {"proved", "first", "ended", "subject", "issued", "seen", "epoch", "user_epoch"}
        BY <3>2 DEF CookieOK
      <4>3. /\ DOMAIN d = DOMAIN c /\ d.ended = TRUE
            /\ d.subject = c.subject /\ d.issued = c.issued /\ d.first = c.first
            /\ d.epoch = c.epoch /\ d.user_epoch = c.user_epoch /\ d.proved = c.proved
        BY <3>1, <3>4, <4>2, SaidEnded
      <4>4. Over(realm, d)'
        BY <4>1, <4>3 DEF Over, Dead
      <4> QED
        BY <3>2, <4>3, <4>4 DEF CookieOK
    <3> QED
      BY <3>3, <3>4
  <2> QED
    BY <2>1, <2>2
<1>7. \A q \in Busy' : RequestOK(reqs[q])'
  <2> SUFFICES ASSUME NEW r \in Busy PROVE RequestOK(reqs[r])'
    BY <1>1
  <2>0. PICK q, c : q = reqs[r] /\ q = reqs'[r] /\ c = q.cookie
    OBVIOUS
  <2>1. RequestOK(q)
    BY <1>i, <2>0
  <2>2. c # NoOne => /\ CookieOK(c) /\ (c \in cookies \/ Over(realm, c))
                     /\ c.ended => Over(q.site.realm, c)
    BY <2>0, <2>1 DEF RequestOK, CameOK
  <2>3. c # NoOne => CookieOK(c)' /\ (c \in cookies' \/ Over(realm, c)')
    <3> SUFFICES ASSUME c # NoOne PROVE CookieOK(c)' /\ (c \in cookies' \/ Over(realm, c)')
      OBVIOUS
    <3>1. CookieOK(c)'
      BY <1>5, <2>2
    <3>2. CASE Over(realm, c)
      BY <1>i, <2>2, <3>1, <3>2, StayDead
    <3>3. CASE c \in cookies /\ c.subject \in names
      BY <2>2, <3>1, <3>3
    <3>4. CASE c \in cookies /\ c.subject \notin names
      BY <3>1, <3>4 DEF Ends
    <3> QED
      BY <2>2, <3>1, <3>2, <3>3, <3>4
  <2>a. again \subseteq again'
    BY DEF Later
  <2>5. /\ c # NoOne /\ c.ended => Over(q.site.realm, c)'
        /\ Named(q) => Named(q)'
    BY <2>2, <2>a DEF Over, Dead, Named
  <2>4. RequestOK(q)'
    BY <2>0, <2>1, <2>2, <2>3, <2>5 DEF RequestOK, CameOK, Here
  <2> QED
    BY <2>0, <2>4
<1>8. \A m \in basic' : Proved(m.key.name, m.user_epoch, m.key.password)'
  BY <1>i, <1>2
<1>9. reqs' = [q \in Reqs |-> reqs'[q]]
  BY <1>i
<1> QED
  BY <1>i, <1>3, <1>4, <1>6, <1>7, <1>8, <1>9 DEF SessionInv

\* An account changes with its epoch, or goes, and the rest of the realm stays.
LEMMA AccountChanged ==
  ASSUME SessionInv, NEW u \in DOMAIN realm.users, NEW names, names \subseteq {u},
         UNCHANGED <<reqs, basic, scene>>,
         page' = [a \in Admins |-> page'[a]], \A a \in Admins : page'[a] # NoOne => realm.local,
         cookies' = cookies \/ Ends(names),
         realm' \in [local : {realm.local}, epoch : {realm.epoch}, session : {realm.session},
                     idle : {realm.idle}, users : {realm'.users}],
         realm'.users = [v \in DOMAIN realm'.users |-> realm'.users[v]],
         \A v \in DOMAIN realm.users : v # u =>
             v \in DOMAIN realm'.users /\ realm'.users[v] = realm.users[v],
         DOMAIN realm'.users \subseteq DOMAIN realm.users,
         u \in DOMAIN realm'.users =>
             /\ realm'.users[u] \in [password : Passwords, enabled : BOOLEAN, epoch : Nat]
             /\ realm'.users[u].epoch > realm.users[u].epoch,
         gone' = IF u \in DOMAIN realm'.users THEN gone ELSE gone \cup {u},
         again' = again
  PROVE  SessionInv'
<1>i. RealmOK
  BY DEF SessionInv
<1>1. /\ realm.local /\ realm.epoch \in Nat
      /\ \A v \in DOMAIN realm.users :
            /\ v \notin gone \/ v \in again
            /\ realm.users[v] \in [password : Passwords, enabled : BOOLEAN, epoch : Nat]
  BY <1>i DEF RealmOK
<1>2. realm'.local = realm.local /\ realm'.epoch = realm.epoch
  OBVIOUS
<1>3. Later
  <2>1. realm' \in [local : {realm.local}, epoch : Nat, session : {realm'.session},
                    idle : {realm'.idle}, users : {realm'.users}]
    BY <1>1
  <2>2. realm'.epoch >= realm.epoch /\ gone \subseteq gone' /\ again \subseteq again'
    BY <1>1, <1>2
  <2>3. \A v \in DOMAIN realm.users : v \in gone' \/ v \in DOMAIN realm'.users
    OBVIOUS
  <2>4. \A v \in DOMAIN realm'.users :
          /\ v \notin gone' \/ v \in again'
          /\ realm'.users[v] \in [password : Passwords, enabled : BOOLEAN, epoch : Nat]
          /\ v \in DOMAIN realm.users =>
                \/ realm'.users[v] = realm.users[v]
                \/ realm'.users[v].epoch > realm.users[v].epoch
    BY <1>1
  <2> QED
    BY <1>1, <2>1, <2>2, <2>3, <2>4 DEF Later
<1>4. ASSUME NEW c, CookieOK(c), c.subject \in names
      PROVE  Over(realm, c)'
  <2> SUFFICES ASSUME u \notin again PROVE Dead(realm', c)
    BY <1>4 DEF Over
  <2>1. c.subject = u /\ c.user_epoch \in Nat /\ c.user_epoch <= realm.users[u].epoch
    BY <1>1, <1>4 DEF CookieOK, Proved, Past, Has
  <2>2. SUFFICES ASSUME u \in DOMAIN realm'.users, realm'.users[u].epoch = c.user_epoch
                 PROVE  FALSE
    BY <1>1, <1>2, <2>1 DEF Dead, Has
  <2> DEFINE a == realm.users[u].epoch
             b == realm'.users[u].epoch
             d == c.user_epoch
  <2>3. a \in Nat /\ b > a /\ b = d /\ d <= a /\ d \in Nat
    BY <1>1, <2>1, <2>2
  <2> HIDE DEF a, b, d
  <2> QED
    BY <2>3
<1> QED
  BY <1>3, <1>4, AdminMoved

\* S is R with another password, or another switch, in one of its rows, and its epoch
\* moved on.
RealmIs(R) ==
    /\ R \in [local : BOOLEAN, epoch : Nat, session : {R.session}, idle : {R.idle}, users : {R.users}]
    /\ R.users = [v \in DOMAIN R.users |-> R.users[v]]
    /\ \A v \in DOMAIN R.users : R.users[v] \in [password : Passwords, enabled : BOOLEAN, epoch : Nat]
RowPut(R, S, u, password, enabled) ==
    /\ S \in [local : {R.local}, epoch : {R.epoch}, session : {R.session}, idle : {R.idle}, users : {S.users}]
    /\ S.users = [v \in DOMAIN R.users |-> S.users[v]]
    /\ S.users[u] \in [password : {password}, enabled : {enabled}, epoch : {R.users[u].epoch + 1}]
    /\ \A v \in DOMAIN R.users : v # u => S.users[v] = R.users[v]

\* post_account_password.
LEMMA PasswordPut ==
  ASSUME NEW R, RealmIs(R), NEW u \in DOMAIN R.users, NEW w,
         NEW S, S = [R EXCEPT !.users[u].password = w, !.users[u].epoch = @ + 1]
  PROVE  RowPut(R, S, u, w, R.users[u].enabled)
<1>1. S \in [local : {R.local}, epoch : {R.epoch}, session : {R.session}, idle : {R.idle}, users : {S.users}]
  BY DEF RealmIs
<1>2. PICK f : f = [R.users EXCEPT ![u].password = w]
  OBVIOUS
<1>3. S.users = [f EXCEPT ![u].epoch = @ + 1]
  BY <1>2 DEF RealmIs
<1>4. /\ R.users = [v \in DOMAIN R.users |-> R.users[v]] /\ u \in DOMAIN R.users
      /\ R.users[u] \in [password : Passwords, enabled : BOOLEAN, epoch : Nat]
  BY DEF RealmIs
<1>5. /\ f = [v \in DOMAIN R.users |-> f[v]]
      /\ f[u] \in [password : {w}, enabled : {R.users[u].enabled}, epoch : {R.users[u].epoch}]
      /\ \A v \in DOMAIN R.users : v # u => f[v] = R.users[v]
  BY ONLY <1>2, <1>4
<1>6. /\ S.users = [v \in DOMAIN R.users |-> S.users[v]]
      /\ S.users[u] \in [password : {w}, enabled : {R.users[u].enabled}, epoch : {R.users[u].epoch + 1}]
      /\ \A v \in DOMAIN R.users : v # u => S.users[v] = R.users[v]
  BY ONLY <1>3, <1>4, <1>5
<1> QED
  BY <1>1, <1>6 DEF RowPut

\* post_account_toggle.
LEMMA SwitchPut ==
  ASSUME NEW R, RealmIs(R), NEW u \in DOMAIN R.users, NEW on,
         NEW S, S = [R EXCEPT !.users[u].enabled = on, !.users[u].epoch = @ + 1]
  PROVE  RowPut(R, S, u, R.users[u].password, on)
<1>1. S \in [local : {R.local}, epoch : {R.epoch}, session : {R.session}, idle : {R.idle}, users : {S.users}]
  BY DEF RealmIs
<1>2. PICK f : f = [R.users EXCEPT ![u].enabled = on]
  OBVIOUS
<1>3. S.users = [f EXCEPT ![u].epoch = @ + 1]
  BY <1>2 DEF RealmIs
<1>4. /\ R.users = [v \in DOMAIN R.users |-> R.users[v]] /\ u \in DOMAIN R.users
      /\ R.users[u] \in [password : Passwords, enabled : BOOLEAN, epoch : Nat]
  BY DEF RealmIs
<1>5. /\ f = [v \in DOMAIN R.users |-> f[v]]
      /\ f[u] \in [password : {R.users[u].password}, enabled : {on}, epoch : {R.users[u].epoch}]
      /\ \A v \in DOMAIN R.users : v # u => f[v] = R.users[v]
  BY ONLY <1>2, <1>4
<1>6. /\ S.users = [v \in DOMAIN R.users |-> S.users[v]]
      /\ S.users[u] \in [password : {R.users[u].password}, enabled : {on}, epoch : {R.users[u].epoch + 1}]
      /\ \A v \in DOMAIN R.users : v # u => S.users[v] = R.users[v]
  BY ONLY <1>3, <1>4, <1>5
<1> QED
  BY <1>1, <1>6 DEF RowPut

\* Whatever an administrator does to the realm, a session follows it.
LEMMA AdminStep ==
  ASSUME SessionInv, AdminPages
  PROVE  SessionInv'
<1>i. /\ RealmOK /\ reqs = [q \in Reqs |-> reqs[q]]
  BY DEF SessionInv
<1>1. /\ realm \in [local : BOOLEAN, epoch : Nat, session : {realm.session}, idle : {realm.idle},
                    users : {realm.users}]
      /\ realm.users = [u \in DOMAIN realm.users |-> realm.users[u]]
      /\ \A u \in DOMAIN realm.users :
            /\ u \notin gone \/ u \in again
            /\ realm.users[u] \in [password : Passwords, enabled : BOOLEAN, epoch : Nat]
      /\ ~realm.local => DOMAIN realm.users = {}
      /\ page = [a \in Admins |-> page[a]] /\ \A a \in Admins : page[a] # NoOne => realm.local
  BY <1>i DEF RealmOK
<1>2. UNCHANGED <<reqs, scene>>
  BY DEF AdminPages, Around
<1>3. ASSUME NEW s, NEW i, RealmUpdate(s, i)
      PROVE  SessionInv'
  <2>1. /\ realm' = [realm EXCEPT !.session = s, !.idle = i]
        /\ UNCHANGED <<basic, page, cookies, gone, again>>
    BY <1>3 DEF RealmUpdate, Stored, deletions
  <2>2. realm' \in [local : {realm.local}, epoch : {realm.epoch}, session : {s}, idle : {i},
                    users : {realm.users}]
    BY <1>1, <2>1
  <2>3. realm.epoch \in Nat /\ realm'.epoch = realm.epoch /\ realm'.users = realm.users
        /\ realm'.session = s /\ realm'.idle = i
    BY <1>1, <2>2
  <2>4. realm' \in [local : {realm.local}, epoch : Nat, session : {realm'.session},
                    idle : {realm'.idle}, users : {realm'.users}]
    BY <2>2, <2>3
  <2>5. Later
    BY <1>1, <2>1, <2>3, <2>4 DEF Later
  <2>6. PICK names : names = {}
    OBVIOUS
  <2> QED
    BY <1>1, <1>2, <2>1, <2>5, <2>6, AdminMoved
<1>4. CASE RealmSignOut
  <2>1. /\ realm' = [realm EXCEPT !.epoch = @ + 1] /\ Ends(Users)
        /\ UNCHANGED <<basic, page, gone, again>>
    BY <1>4 DEF RealmSignOut, Stored, deletions
  <2>2. realm' \in [local : {realm.local}, epoch : {realm.epoch + 1}, session : {realm.session},
                    idle : {realm.idle}, users : {realm.users}]
    BY <1>1, <2>1
  <2>3. /\ realm.epoch \in Nat /\ realm'.epoch = realm.epoch + 1 /\ realm'.users = realm.users
        /\ realm'.session = realm.session /\ realm'.idle = realm.idle
    BY <1>1, <2>2
  <2>4. realm' \in [local : {realm.local}, epoch : Nat, session : {realm'.session},
                    idle : {realm'.idle}, users : {realm'.users}]
    BY <2>2, <2>3
  <2>5. Later
    BY <1>1, <2>1, <2>3, <2>4 DEF Later
  <2>6. ASSUME NEW c, CookieOK(c)
        PROVE  Dead(realm', c)
    <3>1. c.epoch \in Nat /\ c.epoch <= realm.epoch
      BY <2>6 DEF CookieOK
    <3>2. c.epoch # realm'.epoch
      BY <2>3, <3>1
    <3> QED
      BY <3>2 DEF Dead
  <2>7. \A c : CookieOK(c) /\ c.subject \in Users => Over(realm, c)'
    BY <2>6 DEF Over
  <2> QED
    BY <1>1, <1>2, <2>1, <2>5, <2>7, AdminMoved
<1>5. ASSUME NEW u, NEW w \in Passwords, AccountAdd(u, w)
      PROVE  SessionInv'
  <2> DEFINE users == [v \in DOMAIN realm.users \cup {u} |-> IF v = u THEN Account(w) ELSE realm.users[v]]
  <2>1. /\ realm.local /\ u \notin DOMAIN realm.users
        /\ realm' = [realm EXCEPT !.users = users]
        /\ again' = again \cup ({u} \cap gone)
        /\ UNCHANGED <<basic, page, cookies, gone>>
    BY <1>5 DEF AccountAdd, Stored, Has
  <2>u. /\ DOMAIN users = DOMAIN realm.users \cup {u} /\ users[u] = Account(w)
        /\ \A v \in DOMAIN realm.users : users[v] = realm.users[v]
        /\ users = [v \in DOMAIN users |-> users[v]]
    BY <2>1
  <2> HIDE DEF users
  <2>2. realm' \in [local : {realm.local}, epoch : {realm.epoch}, session : {realm.session},
                    idle : {realm.idle}, users : {users}]
    BY <1>1, <2>1
  <2>3. /\ realm.epoch \in Nat /\ realm'.epoch = realm.epoch /\ realm'.users = users
        /\ realm'.session = realm.session /\ realm'.idle = realm.idle
    BY <1>1, <2>2
  <2>4. realm' \in [local : {realm.local}, epoch : Nat, session : {realm'.session},
                    idle : {realm'.idle}, users : {realm'.users}]
    BY <2>2, <2>3
  <2>a. Account(w) \in [password : Passwords, enabled : BOOLEAN, epoch : Nat]
    BY DEF Account
  <2>5. \A v \in DOMAIN realm'.users :
          /\ v \notin gone' \/ v \in again'
          /\ realm'.users[v] \in [password : Passwords, enabled : BOOLEAN, epoch : Nat]
          /\ v \in DOMAIN realm.users => realm'.users[v] = realm.users[v]
    BY <1>1, <2>1, <2>3, <2>a, <2>u
  <2>b. /\ realm'.users = [v \in DOMAIN realm'.users |-> realm'.users[v]]
        /\ \A v \in DOMAIN realm.users : v \in DOMAIN realm'.users
        /\ realm'.epoch >= realm.epoch /\ gone \subseteq gone' /\ again \subseteq again'
    BY <2>1, <2>3, <2>u
  <2>6. Later
    BY <2>1, <2>4, <2>5, <2>b DEF Later
  <2>7. PICK names : names = {}
    OBVIOUS
  <2> QED
    BY <1>1, <1>2, <2>1, <2>6, <2>7, AdminMoved
<1>6. ASSUME NEW u, NEW w \in Passwords, AccountPassword(u, w)
      PROVE  SessionInv'
  <2>1. /\ u \in DOMAIN realm.users
        /\ realm' = [realm EXCEPT !.users[u].password = w, !.users[u].epoch = @ + 1]
        /\ UNCHANGED <<basic, page, gone, again>> /\ Ends({u})
    BY <1>6 DEF AccountPassword, Stored, Has, deletions
  <2>2. /\ realm' \in [local : {realm.local}, epoch : {realm.epoch}, session : {realm.session},
                       idle : {realm.idle}, users : {realm'.users}]
        /\ realm'.users = [v \in DOMAIN realm.users |-> realm'.users[v]]
        /\ realm'.users[u] \in [password : {w}, enabled : {realm.users[u].enabled},
                                epoch : {realm.users[u].epoch + 1}]
        /\ \A v \in DOMAIN realm.users : v # u => realm'.users[v] = realm.users[v]
    <3>1. RealmIs(realm) /\ u \in DOMAIN realm.users
      BY <1>1, <2>1 DEF RealmIs
    <3>2. RowPut(realm, realm', u, w, realm.users[u].enabled)
      BY ONLY <2>1, <3>1, PasswordPut
    <3> QED
      BY ONLY <3>2 DEF RowPut
  <2>3. realm.users[u].epoch \in Nat /\ realm.users[u].enabled \in BOOLEAN
    BY <1>1, <2>1
  <2>4. /\ realm'.users[u] \in [password : Passwords, enabled : BOOLEAN, epoch : Nat]
        /\ realm'.users[u].epoch > realm.users[u].epoch
    BY <2>2, <2>3
  <2>5. DOMAIN realm'.users = DOMAIN realm.users
    BY <2>2
  <2> QED
    BY <1>1, <1>2, <2>1, <2>2, <2>4, <2>5, AccountChanged
<1>7. ASSUME NEW u, AccountDelete(u)
      PROVE  SessionInv'
  <2> DEFINE users == Restrict(realm.users, DOMAIN realm.users \ {u})
  <2>1. /\ u \in DOMAIN realm.users
        /\ realm' = [realm EXCEPT !.users = users] /\ gone' = gone \cup {u}
        /\ UNCHANGED <<basic, page, again>> /\ Ends({u})
    BY <1>7 DEF AccountDelete, Stored, Has
  <2>u. /\ DOMAIN users = DOMAIN realm.users \ {u}
        /\ \A v \in DOMAIN realm.users \ {u} : users[v] = realm.users[v]
        /\ users = [v \in DOMAIN users |-> users[v]]
    BY DEF Restrict
  <2> HIDE DEF users
  <2>2. realm' \in [local : {realm.local}, epoch : {realm.epoch}, session : {realm.session},
                    idle : {realm.idle}, users : {users}]
    BY <1>1, <2>1
  <2>3. realm'.users = users
    BY <2>2
  <2>4. realm' \in [local : {realm.local}, epoch : {realm.epoch}, session : {realm.session},
                    idle : {realm.idle}, users : {realm'.users}]
    BY <2>2, <2>3
  <2> QED
    BY <1>1, <1>2, <2>1, <2>3, <2>4, <2>u, AccountChanged
<1>8. ASSUME NEW a \in Admins, NEW u, ToggleRead(a, u)
      PROVE  SessionInv'
  <2>1. /\ u \in DOMAIN realm.users
        /\ page' = [page EXCEPT ![a] = [name |-> u, enabled |-> realm.users[u].enabled]]
        /\ UNCHANGED <<realm, basic, cookies, gone, again>>
    BY <1>8 DEF ToggleRead, Has, deletions
  <2>2. realm.local
    BY <1>1, <2>1
  <2>3. page' = [b \in Admins |-> page'[b]]
    BY <1>1, <2>1
  <2>4. Later
    BY <1>1, <2>1 DEF Later
  <2>5. PICK names : names = {}
    OBVIOUS
  <2> QED
    BY <1>2, <2>1, <2>2, <2>3, <2>4, <2>5, AdminMoved
<1>9. ASSUME NEW a \in Admins, ToggleWrite(a)
      PROVE  SessionInv'
  <2>1. PICK u : u = page[a].name
    OBVIOUS
  <2>2. /\ page[a] # NoOne /\ page' = [page EXCEPT ![a] = NoOne] /\ UNCHANGED <<basic, gone, again>>
        /\ cookies' = cookies \/ Ends({u})
    BY <1>9, <2>1 DEF ToggleWrite, deletions
  <2>3. /\ page' = [b \in Admins |-> page'[b]] /\ realm.local
    BY <1>1, <2>2
  <2>4. CASE u \in DOMAIN realm.users
    <3>1. realm' = [realm EXCEPT !.users[u].enabled = ~page[a].enabled, !.users[u].epoch = @ + 1]
      BY <1>9, <2>1, <2>4 DEF ToggleWrite, Has
    <3>2. PICK on \in BOOLEAN : on = ~page[a].enabled
      OBVIOUS
    <3>3. /\ realm' \in [local : {realm.local}, epoch : {realm.epoch}, session : {realm.session},
                         idle : {realm.idle}, users : {realm'.users}]
          /\ realm'.users = [v \in DOMAIN realm.users |-> realm'.users[v]]
          /\ realm'.users[u] \in [password : {realm.users[u].password}, enabled : {on},
                                  epoch : {realm.users[u].epoch + 1}]
          /\ \A v \in DOMAIN realm.users : v # u => realm'.users[v] = realm.users[v]
      <4>1. RealmIs(realm) /\ u \in DOMAIN realm.users
        BY <1>1, <2>4 DEF RealmIs
      <4>2. RowPut(realm, realm', u, realm.users[u].password, on)
        BY ONLY <3>1, <3>2, <4>1, SwitchPut
      <4> QED
        BY ONLY <4>2 DEF RowPut
    <3>4. realm.users[u].epoch \in Nat /\ realm.users[u].password \in Passwords
      BY <1>1, <2>4
    <3>5. /\ realm'.users[u] \in [password : Passwords, enabled : BOOLEAN, epoch : Nat]
          /\ realm'.users[u].epoch > realm.users[u].epoch
      BY <3>3, <3>4
    <3>6. DOMAIN realm'.users = DOMAIN realm.users
      BY <3>3
    <3>7. /\ realm'.users = [v \in DOMAIN realm'.users |-> realm'.users[v]]
          /\ \A v \in DOMAIN realm.users : v # u =>
                v \in DOMAIN realm'.users /\ realm'.users[v] = realm.users[v]
          /\ gone' = IF u \in DOMAIN realm'.users THEN gone ELSE gone \cup {u}
      BY <2>2, <2>4, <3>3, <3>6
    <3>8. \A b \in Admins : page'[b] # NoOne => realm.local
      BY <2>3
    <3>9. realm' \in [local : {realm.local}, epoch : {realm.epoch}, session : {realm.session},
                      idle : {realm.idle}, users : {realm'.users}]
      BY <3>3
    <3>10. PICK names : names = {u}
      OBVIOUS
    <3> QED
      BY <1>2, <2>2, <2>3, <2>4, <3>5, <3>6, <3>7, <3>8, <3>9, <3>10, AccountChanged
  <2>5. CASE u \notin DOMAIN realm.users
    <3>1. realm' = realm
      BY <1>9, <2>1, <2>5 DEF ToggleWrite, Has
    <3>2. Later
      BY <1>1, <2>2, <3>1 DEF Later
    <3>3. \A c : c.subject \in {u} => Over(realm, c)'
      BY <2>3, <2>5, <3>1 DEF Over, Dead, Has
    <3> QED
      BY <1>2, <2>2, <2>3, <3>2, <3>3, AdminMoved
  <2> QED
    BY <2>4, <2>5
<1> QED
  BY <1>3, <1>4, <1>5, <1>6, <1>7, <1>8, <1>9 DEF AdminPages

\* A request ends.
LEMMA RequestEnded ==
  ASSUME SessionInv, NEW r \in Reqs, Moves(r, Idle), UNCHANGED <<realm, gone, again, page, scene>>,
         cookies \subseteq cookies', \A c \in cookies' \ cookies : CookieOK(c),
         \A m \in basic' : Proved(m.key.name, m.user_epoch, m.key.password)
  PROVE  SessionInv'
<1>1. PICK x : x = Idle /\ reqs' = [reqs EXCEPT ![r] = x]
  BY DEF Moves
<1>2. x.at = "idle"
  BY <1>1 DEF Idle
<1> QED
  BY <1>1, <1>2, RequestMoved

\* A request goes on: it has come as it came, and the rest is what it knows now.
LEMMA RequestWentOn ==
  ASSUME SessionInv, NEW r \in Busy, NEW at, NEW more, Further(more),
         NEW q, q = reqs[r], NEW x, x = Onward(q, more, at),
         GoesOn(r, q, at, more), UNCHANGED <<realm, gone, again, page, scene>>,
         cookies \subseteq cookies', \A c \in cookies' \ cookies : CookieOK(c),
         \A m \in basic' : Proved(m.key.name, m.user_epoch, m.key.password),
         at \in {"countries", "rules", "judged"} => Honoured(x),
         at = "checking" => Asked(x), at = "forward" => Named(x)
  PROVE  SessionInv'
<1>1. RequestOK(q) /\ r \in Reqs
  BY DEF SessionInv, Busy
<1>2. CameOK(q)
  BY <1>1 DEF RequestOK
<1>3. HasCome(q)
  BY <1>2 DEF CameOK, HasCome
<1>4. /\ HasCome(x) /\ x.at = at /\ x.visit = q.visit /\ x.cookie = q.cookie /\ x.site = q.site
  <2>1. Further(more) /\ x = Onward(q, more, at)
    OBVIOUS
  <2> QED
    BY ONLY <1>3, <2>1, GoneOn
<1>5. CameOK(x)
  BY <1>2, <1>4 DEF CameOK, HasCome
<1>6. RequestOK(x)
  BY <1>4, <1>5 DEF RequestOK
<1>7. x.site.realm \in Realms
  BY <1>4 DEF Realms, Snaps
<1>8. reqs' = [reqs EXCEPT ![r] = x]
  BY DEF GoesOn, Moves, Onward
<1> QED
  BY <1>1, <1>6, <1>7, <1>8, RequestMoved

\* The steps before the gateway, and the last: a session is what Body finds, once.
LEMMA OtherSteps ==
  ASSUME SessionInv, NEW r \in Reqs, scene' = scene,
         Lists(r) \/ Count(r) \/ Body(r) \/ Countries(r) \/ Rules(r) \/ Forward(r)
  PROVE  SessionInv'
<1>1. /\ UNCHANGED <<realm, gone, again, page, scene, cookies, basic>>
      /\ \A m \in basic : Proved(m.key.name, m.user_epoch, m.key.password)
  BY DEF Lists, Count, Body, Countries, Rules, Forward, gatewayVars, deletions, SessionInv
<1>2. PICK q : q = reqs[r]
  OBVIOUS
<1>3. CASE Moves(r, Idle)
  BY <1>1, <1>3, RequestEnded
<1>b. r \in Busy /\ RequestOK(q)
  BY <1>2 DEF Lists, Count, Body, Countries, Rules, Forward, Busy, SessionInv
<1>c. HasCome(q)
  BY <1>b DEF RequestOK, CameOK, HasCome
<1>4. CASE Lists(r) /\ ~Moves(r, Idle)
  <2>1. PICK at, more : /\ at \in {"body", "count"} /\ GoesOn(r, q, at, more)
                        /\ DOMAIN more = {"listed", "watched", "reading", "count", "policy"}
    BY <1>2, <1>4 DEF Lists, EndsWithRow
  <2>2. Further(more)
    BY <2>1 DEF Came, Further
  <2> QED
    BY <1>1, <1>2, <1>b, <2>1, <2>2, RequestWentOn
<1>5. CASE Count(r) /\ ~Moves(r, Idle)
  <2>1. PICK at, more : at = "body" /\ GoesOn(r, q, at, more) /\ DOMAIN more = {"count"}
    <3>1. PICK count : \/ EndsWithRow(r)
                       \/ GoesOn(r, reqs[r], "body", [count |-> count])
      BY <1>5 DEF Count
    <3>2. PICK more : more = [count |-> count]
      OBVIOUS
    <3>3. DOMAIN more = {"count"}
      BY <3>2
    <3> QED
      BY <1>2, <1>5, <3>1, <3>2, <3>3 DEF EndsWithRow
  <2>2. Further(more)
    BY <2>1 DEF Came, Further
  <2> QED
    BY <1>1, <1>2, <1>b, <2>1, <2>2, RequestWentOn
<1>6. CASE Body(r) /\ ~Moves(r, Idle)
  <2>1. PICK session, cleared :
           /\ session # NoOne => session = q.cookie /\ honours(q.site.realm, q.cookie, clock)
           /\ GoesOn(r, q, "countries", [session |-> session, cleared |-> cleared, moment |-> clock])
    BY <1>2, <1>6 DEF Body, EndsWithRow, EndsUnrecorded
  <2>2. PICK more, at : /\ more = [session |-> session, cleared |-> cleared, moment |-> clock]
                        /\ at = "countries"
    OBVIOUS
  <2>3. /\ DOMAIN more = {"session", "cleared", "moment"}
        /\ more["session"] = session /\ more["moment"] = clock
    BY <2>2
  <2>4. Further(more)
    BY <2>3 DEF Came, Further
  <2>5. PICK x : x = Onward(q, more, at)
    OBVIOUS
  <2>6. x.cookie = q.cookie /\ x.site = q.site
    BY ONLY <1>c, <2>4, <2>5, GoneOn
  <2>d. DOMAIN x = DOMAIN q \cup DOMAIN more
    BY <2>5, OnwardDomain
  <2>7. x["session"] = session /\ x["moment"] = clock
    <3>1. "session" \in DOMAIN more /\ "moment" \in DOMAIN more
      BY <2>3
    <3>2. x["session"] = more["session"] /\ x["moment"] = more["moment"]
      BY ONLY <2>4, <2>5, <3>1, Knows
    <3> QED
      BY <2>3, <3>2
  <2>8. Honoured(x)
    BY <2>1, <2>3, <2>6, <2>7, <2>d DEF Honoured
  <2>9. GoesOn(r, q, at, more)
    BY <2>1, <2>2
  <2> QED
    BY <1>1, <1>2, <1>b, <2>2, <2>4, <2>5, <2>8, <2>9, RequestWentOn
<1>7. CASE Countries(r) \/ Rules(r)
  <2>1. PICK at, more : /\ at \in {"rules", "judged"} /\ GoesOn(r, q, at, more)
                        /\ DOMAIN more \in {{"geo", "one"}, {"verdict", "one"}}
    BY <1>2, <1>7 DEF Countries, Rules
  <2>2. Further(more) /\ {"session", "moment"} \cap DOMAIN more = {}
    BY <2>1 DEF Came, Further
  <2>3. Honoured(q)
    BY <1>2, <1>7, <1>b DEF Countries, Rules, RequestOK
  <2>4. PICK x : x = Onward(q, more, at)
    OBVIOUS
  <2>5. x.cookie = q.cookie /\ x.site = q.site
    BY ONLY <1>c, <2>2, <2>4, GoneOn
  <2>d. DOMAIN x = DOMAIN q \cup DOMAIN more
    BY <2>4, OnwardDomain
  <2>6. x["session"] = q["session"] /\ x["moment"] = q["moment"]
    <3>1. /\ "session" \in DOMAIN q /\ "moment" \in DOMAIN q
          /\ "session" \notin DOMAIN more /\ "moment" \notin DOMAIN more
      BY <2>2, <2>3 DEF Honoured
    <3> QED
      BY ONLY <2>4, <3>1, Knew
  <2>7. Honoured(x)
    BY <2>3, <2>5, <2>6, <2>d DEF Honoured
  <2> QED
    BY <1>1, <1>2, <1>b, <2>1, <2>2, <2>4, <2>7, RequestWentOn
<1>8. CASE Forward(r)
  BY <1>3, <1>8 DEF Forward, EndsWithRow
<1> QED
  BY <1>3, <1>4, <1>5, <1>6, <1>7, <1>8

\* A request comes: with the realm as it is stored, and a cookie or none.
LEMMA TakeStep ==
  ASSUME SessionInv, NEW r \in Reqs, NEW v \in Here.visits, scene' = scene, Take(r, v)
  PROVE  SessionInv'
<1>1. PICK c \in {NoOne} \cup cookies :
         Moves(r, [at |-> "lists", visit |-> v, cookie |-> c,
                   client |-> resolve(v.peer, v.hops), https |-> client_used_https(v),
                   site |-> [mode |-> conf.policy.mode, smart |-> conf.policy.smart,
                             limit |-> conf.limit, auth |-> conf.auth, realm |-> realm]])
  BY DEF Take
<1>2. PICK client, https, mode, smart, limit, auth :
         Moves(r, [at |-> "lists", visit |-> v, cookie |-> c, client |-> client, https |-> https,
                   site |-> [mode |-> mode, smart |-> smart, limit |-> limit, auth |-> auth,
                             realm |-> realm]])
  BY <1>1
<1>3. PICK x : x = [at |-> "lists", visit |-> v, cookie |-> c, client |-> client, https |-> https,
                   site |-> [mode |-> mode, smart |-> smart, limit |-> limit, auth |-> auth,
                             realm |-> realm]]
  OBVIOUS
<1>4. /\ DOMAIN x = Came /\ x.at = "lists" /\ x.visit = v /\ x.cookie = c /\ x.site.realm = realm
  BY <1>3 DEF Came
<1>5. c # NoOne => CookieOK(c) /\ c \in cookies /\ (c.ended => Over(realm, c))
  BY DEF SessionInv, CookieOK
<1>6. RequestOK(x)
  BY <1>4, <1>5 DEF RequestOK, CameOK
<1>7. reqs' = [reqs EXCEPT ![r] = x]
  BY <1>2, <1>3 DEF Moves
<1>8. /\ UNCHANGED <<realm, gone, again, page, scene, cookies, basic>>
      /\ \A m \in basic : Proved(m.key.name, m.user_epoch, m.key.password)
      /\ x.site.realm \in Realms
  BY <1>4 DEF Take, gatewayVars, deletions, SessionInv, Realms
<1> QED
  BY <1>4, <1>6, <1>7, <1>8, RequestMoved

\* What a cookie carries, and what it was minted for.
LEMMA CookieMinted ==
  ASSUME NEW R, NEW name, NEW user_epoch, NEW issued, NEW now,
         NEW proved, NEW first, NEW ended, NEW c,
         c = Knowing(mint(R, name, user_epoch, issued, now),
                     [proved |-> proved, first |-> first, ended |-> ended])
  PROVE  /\ DOMAIN c = {"proved", "first", "ended", "subject", "issued", "seen", "epoch", "user_epoch"}
         /\ c.subject = name /\ c.issued = issued /\ c.epoch = R.epoch /\ c.user_epoch = user_epoch
         /\ c.proved = proved /\ c.first = first /\ c.ended = ended
<1>1. PICK m, k : /\ m = mint(R, name, user_epoch, issued, now)
                  /\ k = [proved |-> proved, first |-> first, ended |-> ended]
  OBVIOUS
<1>2. /\ DOMAIN m = {"subject", "issued", "seen", "epoch", "user_epoch"}
      /\ m["subject"] = name /\ m["issued"] = issued /\ m["epoch"] = R.epoch
      /\ m["user_epoch"] = user_epoch
  BY <1>1 DEF mint
<1>3. /\ DOMAIN k = {"proved", "first", "ended"}
      /\ k["proved"] = proved /\ k["first"] = first /\ k["ended"] = ended
  BY <1>1
<1>4. c = Knowing(m, k)
  BY <1>1
<1>5. /\ DOMAIN c = DOMAIN m \cup DOMAIN k
      /\ c["subject"] = m["subject"] /\ c["issued"] = m["issued"] /\ c["epoch"] = m["epoch"]
      /\ c["user_epoch"] = m["user_epoch"] /\ c["proved"] = k["proved"]
      /\ c["first"] = k["first"] /\ c["ended"] = k["ended"]
  BY ONLY <1>2, <1>3, <1>4 DEF Knowing
<1> QED
  BY <1>2, <1>3, <1>5

\* A session that was honoured is somebody's whose account is there and enabled; and
\* of one whose name did not come again, on the password the account has.
LEMMA SessionNamed ==
  ASSUME SessionInv, NEW q, CameOK(q), Honoured(q), q.site.realm \in Realms, q.session # NoOne
  PROVE  /\ CookieOK(q.cookie) /\ q.session = q.cookie /\ q.cookie.subject # NoOne
         /\ q.cookie.epoch = q.site.realm.epoch
         /\ q.site.realm.local => /\ Has(q.site.realm, q.cookie.subject)
                                  /\ q.site.realm.users[q.cookie.subject].enabled
         /\ q.cookie.subject \notin again =>
              /\ q.site.realm.local => check_password(q.site.realm, q.cookie.subject, q.cookie.proved)
              /\ ~q.cookie.ended
         /\ q.moment < q.cookie.first + q.site.realm.session
<1>1. PICK c, R : c = q.cookie /\ R = q.site.realm
  OBVIOUS
<1>2. /\ q.session = c /\ c # NoOne /\ honours(R, c, q.moment) /\ R \in Realms
  BY <1>1 DEF Honoured
<1>3. CookieOK(c) /\ (c.ended => Over(R, c))
  BY <1>1, <1>2 DEF CameOK
<1>4. /\ c.epoch = R.epoch
      /\ R.local => Has(R, c.subject) /\ R.users[c.subject].enabled
                      /\ R.users[c.subject].epoch = c.user_epoch
      /\ q.moment < c.issued + R.session
  BY <1>2 DEF honours
<1>5. c.subject \notin again => ~c.ended
  BY <1>3, <1>4 DEF Over, Dead
<1>6. c.subject \notin again /\ R.local => check_password(R, c.subject, c.proved)
  BY <1>2, <1>3, <1>4 DEF CookieOK, Proved, Fits, check_password
<1>7. c.issued = c.first /\ c.subject # NoOne
  BY <1>3 DEF CookieOK
<1> QED
  BY <1>1, <1>2, <1>3, <1>4, <1>5, <1>6, <1>7

\* A session renewed is the one it was: ended, if that was ended meanwhile.
LEMMA Renewed ==
  ASSUME SessionInv, NEW q, CameOK(q), Honoured(q), q.site.realm \in Realms, q.session # NoOne,
         NEW d, NEW now,
         d = Knowing(mint(q.site.realm, q.session.subject, q.session.user_epoch,
                          q.session.issued, now),
                     [proved |-> q.session.proved, first |-> q.session.first,
                      ended |-> q.session \notin cookies])
  PROVE  CookieOK(d)
<1>1. PICK c, R : c = q.cookie /\ R = q.site.realm
  OBVIOUS
<1>2. CookieOK(c) /\ q.session = c /\ c.epoch = R.epoch
  BY <1>1, SessionNamed
<1>3. c \in cookies \/ Over(realm, c)
  BY <1>1, <1>2 DEF CameOK, Honoured
<1>4. PICK ended : ended = (c \notin cookies)
  OBVIOUS
<1>5. d = Knowing(mint(R, c.subject, c.user_epoch, c.issued, now),
                  [proved |-> c.proved, first |-> c.first, ended |-> ended])
  BY <1>1, <1>2, <1>4
<1>6. /\ DOMAIN d = {"proved", "first", "ended", "subject", "issued", "seen", "epoch", "user_epoch"}
      /\ d.subject = c.subject /\ d.issued = c.issued /\ d.epoch = R.epoch
      /\ d.user_epoch = c.user_epoch /\ d.proved = c.proved /\ d.first = c.first /\ d.ended = ended
  BY ONLY <1>5, CookieMinted
<1>7. ended \in BOOLEAN /\ (ended => Over(realm, c))
  BY <1>3, <1>4
<1>8. Over(realm, c) => Over(realm, d)
  BY <1>2, <1>6 DEF Over, Dead
<1> QED
  BY <1>2, <1>6, <1>7, <1>8 DEF CookieOK

\* A password that was found right is the account's, in whatever reading of it.
LEMMA RightIsProved ==
  ASSUME SessionInv, NEW R \in Realms, NEW name, NEW password, password # "",
         R.local => check_password(R, name, password)
  PROVE  Proved(name, EpochOf(R, name), password)
<1>r. ReadingsOK
  BY DEF SessionInv
<1>1. CASE R.local
  <2>1. name \in DOMAIN R.users /\ R.users[name].password = password
    BY <1>1 DEF check_password, Has
  <2>2. Proved(name, R.users[name].epoch, R.users[name].password)
    BY <1>1, <1>r, <2>1 DEF ReadingsOK
  <2> QED
    BY <1>1, <2>1, <2>2 DEF EpochOf
<1>2. CASE ~R.local
  <2>1. ~realm.local /\ \A S \in Realms : ~S.local
    BY <1>2, <1>r DEF ReadingsOK
  <2>2. EpochOf(R, name) = 0
    BY <1>2 DEF EpochOf
  <2>3. \A u, e, p : p # "" /\ e \in Nat => Proved(u, e, p)
    BY <2>1 DEF Proved, Past, Fits
  <2>4. 0 \in Nat
    OBVIOUS
  <2> QED
    BY <2>2, <2>3, <2>4
<1> QED
  BY <1>1, <1>2

\* A sign-in's cookie: if the account is no longer what the sign-in found it, what it
\* carries is dead already.
LEMMA SignedIn ==
  ASSUME SessionInv, NEW R \in Realms, NEW name, NEW password, password # "", name # NoOne,
         R.local => check_password(R, name, password), NEW now, NEW d,
         NEW stands \in BOOLEAN,
         stands = (realm.epoch = R.epoch /\ (R.local => check_password(realm, name, password))),
         d = Knowing(mint(R, name, EpochOf(R, name), now, now),
                     [proved |-> password, first |-> now, ended |-> ~stands])
  PROVE  CookieOK(d)
<1>1. PICK e, ended : e = EpochOf(R, name) /\ ended = ~stands
  OBVIOUS
<1>2. d = Knowing(mint(R, name, e, now, now), [proved |-> password, first |-> now, ended |-> ended])
  BY <1>1
<1>3. /\ DOMAIN d = {"proved", "first", "ended", "subject", "issued", "seen", "epoch", "user_epoch"}
      /\ d.subject = name /\ d.issued = now /\ d.epoch = R.epoch
      /\ d.user_epoch = e /\ d.proved = password /\ d.first = now /\ d.ended = ended
  BY ONLY <1>2, CookieMinted
<1>4. Proved(name, e, password)
  BY <1>1, RightIsProved
<1>5. R.epoch \in Nat /\ R.epoch <= realm.epoch /\ R.local = realm.local
  BY DEF SessionInv, ReadingsOK
<1>6. ASSUME ~stands
      PROVE  Over(realm, d)
  <2>1. CASE realm.epoch # R.epoch
    BY <1>3, <2>1 DEF Over, Dead
  <2>2. CASE realm.epoch = R.epoch /\ name \notin again
    <3>1. R.local /\ ~check_password(realm, name, password)
      BY <1>6, <2>2
    <3>2. ~(Has(realm, name) /\ realm.users[name].password = password /\ realm.users[name].enabled)
      BY <3>1 DEF check_password
    <3>3. Fits(realm, name, e, password)
      BY <1>4, <2>2 DEF Proved, Realms
    <3>4. ~(Has(realm, name) /\ realm.users[name].enabled /\ realm.users[name].epoch = e)
      BY <1>5, <3>1, <3>2, <3>3 DEF Fits
    <3> QED
      BY <1>3, <1>5, <3>1, <3>4 DEF Over, Dead
  <2> QED
    BY <1>3, <2>1, <2>2 DEF Over
<1> QED
  BY <1>1, <1>3, <1>4, <1>5, <1>6 DEF CookieOK

\* What is remembered of a password is so of the account as the request read it.
LEMMA RememberedIsRight ==
  ASSUME SessionInv, NEW R \in Realms, NEW name, NEW password, NEW now,
         remembers(R, name, password, now)
  PROVE  /\ R.local => Has(R, name) /\ R.users[name].enabled
         /\ name \notin again /\ R.local => check_password(R, name, password)
<1>1. PICK m \in basic : /\ m.key = Key(R, name, password)
                         /\ R.local => /\ Has(R, name) /\ R.users[name].enabled
                                       /\ R.users[name].epoch = m.user_epoch
  BY DEF remembers
<1>2. m.key.name = name /\ m.key.password = password
  BY <1>1 DEF Key
<1>3. Proved(name, m.user_epoch, password)
  BY <1>1, <1>2 DEF SessionInv
<1> QED
  BY <1>1, <1>3 DEF Proved, Fits, check_password

\* A request let through, under a name or none.
LEMMA LetThrough ==
  ASSUME NEW q, HasCome(q), NEW name, NEW by, NEW proved, NEW more, NEW x,
         more = [named |-> name, by |-> by, proved |-> proved], x = Onward(q, more, "forward")
  PROVE  /\ Further(more) /\ x.site = q.site /\ x.visit = q.visit /\ x.cookie = q.cookie
         /\ x.named = name /\ x.by = by /\ x.proved = proved
         /\ "moment" \in DOMAIN q => x.moment = q.moment
<1>1. /\ DOMAIN more = {"named", "by", "proved"}
      /\ more["named"] = name /\ more["by"] = by /\ more["proved"] = proved
  OBVIOUS
<1>2. Further(more)
  BY <1>1 DEF Further, Came
<1>3. x.site = q.site /\ x.visit = q.visit /\ x.cookie = q.cookie
  BY ONLY <1>2, GoneOn, HasCome(q), x = Onward(q, more, "forward")
<1>4. x["named"] = more["named"] /\ x["by"] = more["by"] /\ x["proved"] = more["proved"]
  BY <1>1, <1>2, Knows
<1>5. "moment" \in DOMAIN q => x["moment"] = q["moment"]
  BY <1>1, Knew
<1> QED
  BY <1>1, <1>2, <1>3, <1>4, <1>5

\* A request may be let through under a name, when the account says so.
LEMMA PassesThrough ==
  ASSUME SessionInv, NEW r \in Busy, NEW q, q = reqs[r], NEW name, NEW by, NEW proved,
         Through(r, q, name, by, proved), UNCHANGED <<realm, gone, again, page, scene>>,
         cookies \subseteq cookies', \A c \in cookies' \ cookies : CookieOK(c),
         \A m \in basic' : Proved(m.key.name, m.user_epoch, m.key.password),
         IF ~q.site.auth.asks THEN name = NoOne
         ELSE IF name = NoOne
         THEN \A path \in q.visit.readings : ~needs_sign_in(q.site.auth, {path})
         ELSE /\ q.site.realm.local => Has(q.site.realm, name) /\ q.site.realm.users[name].enabled
              /\ name \notin again =>
                   /\ q.site.realm.local => check_password(q.site.realm, name, proved)
                   /\ by = "session" => ~q.cookie.ended
              /\ by = "session" => /\ "moment" \in DOMAIN q
                                   /\ q.moment < q.cookie.first + q.site.realm.session
  PROVE  SessionInv'
<1>1. HasCome(q)
  BY DEF SessionInv, RequestOK, CameOK, HasCome
<1>2. PICK more, x : /\ more = [named |-> name, by |-> by, proved |-> proved]
                     /\ x = Onward(q, more, "forward")
  OBVIOUS
<1>3. /\ Further(more) /\ x.site = q.site /\ x.visit = q.visit /\ x.cookie = q.cookie
      /\ x.named = name /\ x.by = by /\ x.proved = proved
      /\ "moment" \in DOMAIN q => x.moment = q.moment
  BY ONLY <1>1, <1>2, LetThrough
<1>4. Named(x)
  BY <1>3 DEF Named
<1>5. PICK at : at = "forward" /\ GoesOn(r, q, at, more) /\ x = Onward(q, more, at)
  BY <1>2 DEF Through
<1>6. /\ at \in {"countries", "rules", "judged"} => Honoured(x)
      /\ at = "checking" => Asked(x)
      /\ at = "forward" => Named(x)
  BY ONLY <1>4, <1>5
<1>7. /\ UNCHANGED <<realm, gone, again, page, scene>>
      /\ cookies \subseteq cookies' /\ \A c \in cookies' \ cookies : CookieOK(c)
      /\ \A m \in basic' : Proved(m.key.name, m.user_epoch, m.key.password)
      /\ Further(more)
  BY <1>3
<1> QED
  BY ONLY SessionInv, r \in Busy, q = reqs[r], <1>5, <1>6, <1>7, RequestWentOn

\* A password is looked at, for the form or for Basic.
LEMMA LookedAt ==
  ASSUME SessionInv, NEW r \in Busy, NEW q, q = reqs[r], NEW name, NEW password, NEW by,
         Asks(r, q, name, password, by), UNCHANGED <<realm, gone, again, page, scene>>,
         cookies' = cookies, basic' \subseteq basic,
         name # NoOne, by \in {"form", "basic"}, q.site.auth.asks
  PROVE  SessionInv'
<1>1. HasCome(q)
  BY DEF SessionInv, RequestOK, CameOK, HasCome
<1>2. PICK more, at, x : /\ more = [name |-> name, password |-> password, by |-> by, asked |-> clock]
                         /\ at = "checking" /\ x = Onward(q, more, at)
  OBVIOUS
<1>3. /\ DOMAIN more = {"name", "password", "by", "asked"}
      /\ more["name"] = name /\ more["by"] = by
  BY <1>2
<1>4. Further(more)
  BY <1>3 DEF Further, Came
<1>5. x.site = q.site
  BY ONLY <1>1, <1>2, <1>4, GoneOn
<1>6. "name" \in DOMAIN more /\ "by" \in DOMAIN more
  BY <1>3
<1>7. x["name"] = more["name"] /\ x["by"] = more["by"]
  BY ONLY <1>2, <1>4, <1>6, Knows
<1>8. DOMAIN x = DOMAIN q \cup DOMAIN more
  BY <1>2, OnwardDomain
<1>9. Asked(x)
  BY <1>3, <1>5, <1>7, <1>8 DEF Asked
<1>10. GoesOn(r, q, at, more)
  BY <1>2 DEF Asks
<1>11. \A m \in basic' : Proved(m.key.name, m.user_epoch, m.key.password)
  BY DEF SessionInv
<1>12. /\ at \in {"countries", "rules", "judged"} => Honoured(x)
       /\ at = "checking" => Asked(x)
       /\ at = "forward" => Named(x)
  BY ONLY <1>2, <1>9
<1>13. /\ UNCHANGED <<realm, gone, again, page, scene>>
       /\ cookies \subseteq cookies' /\ \A c \in cookies' \ cookies : CookieOK(c)
       /\ x = Onward(q, more, at)
  BY <1>2
<1> QED
  BY ONLY SessionInv, r \in Busy, q = reqs[r], <1>4, <1>10, <1>11, <1>12, <1>13, RequestWentOn

\* At the gateway.
LEMMA GateStep ==
  ASSUME SessionInv, NEW r \in Busy, NEW q, q = reqs[r], Honoured(q), q.site.auth.asks,
         Gate(r, q), UNCHANGED <<realm, gone, again, page, scene>>
  PROVE  SessionInv'
<1>1. /\ CameOK(q) /\ q.site.realm \in Realms /\ r \in Reqs
      /\ \A m \in basic : Proved(m.key.name, m.user_epoch, m.key.password)
  BY DEF SessionInv, RequestOK, Realms, Snaps, Busy
<1>2. q.visit.name # NoOne
  BY <1>1, ScenesAssumption DEF CameOK, Here, SessionInv
<1>3. CASE EndsWithRow(r) /\ UNCHANGED <<basic, cookies>>
  BY <1>1, <1>3, RequestEnded DEF EndsWithRow
<1>4. CASE SignIn(r, q) /\ ~EndsWithRow(r)
  <2>1. /\ Asks(r, q, q.visit.name, q.visit.password, "form")
        /\ UNCHANGED <<basic, cookies>>
    BY <1>4 DEF SignIn
  <2> QED
    BY <1>2, <2>1, LookedAt
<1>5. ASSUME q.session # NoOne,
             Through(r, q, q.session.subject, "session", q.session.proved),
             UNCHANGED basic,
             IF due(q.session, q.moment)
             THEN Minted(mint(q.site.realm, q.session.subject, q.session.user_epoch,
                              q.session.issued, clock),
                         q.session.proved, q.session.first, q.session \notin cookies)
             ELSE UNCHANGED cookies
      PROVE  SessionInv'
  <2>1. /\ q.session = q.cookie /\ q.cookie.subject # NoOne
        /\ q.site.realm.local => /\ Has(q.site.realm, q.cookie.subject)
                                 /\ q.site.realm.users[q.cookie.subject].enabled
        /\ q.cookie.subject \notin again =>
             /\ q.site.realm.local => check_password(q.site.realm, q.cookie.subject, q.cookie.proved)
             /\ ~q.cookie.ended
        /\ q.moment < q.cookie.first + q.site.realm.session
    BY <1>1, <1>5, SessionNamed
  <2>2. cookies \subseteq cookies' /\ \A c \in cookies' \ cookies : CookieOK(c)
    <3>1. PICK d : d = Knowing(mint(q.site.realm, q.session.subject, q.session.user_epoch,
                                    q.session.issued, clock),
                               [proved |-> q.session.proved, first |-> q.session.first,
                                ended |-> q.session \notin cookies])
      OBVIOUS
    <3>2. cookies' = cookies \/ cookies' = cookies \cup {d}
      BY <1>5, <3>1 DEF Minted
    <3>3. CookieOK(d)
      BY <1>1, <1>5, <3>1, Renewed
    <3> QED
      BY <3>2, <3>3
  <2>3. PICK name, proved : name = q.session.subject /\ proved = q.session.proved
    OBVIOUS
  <2>4. /\ Through(r, q, name, "session", proved) /\ name # NoOne
        /\ q.site.realm.local => Has(q.site.realm, name) /\ q.site.realm.users[name].enabled
        /\ name \notin again =>
             /\ q.site.realm.local => check_password(q.site.realm, name, proved)
             /\ ~q.cookie.ended
        /\ "moment" \in DOMAIN q
    BY <1>5, <2>1, <2>3 DEF Honoured
  <2>5. \A m \in basic' : Proved(m.key.name, m.user_epoch, m.key.password)
    BY <1>1, <1>5
  <2> QED
    BY <2>1, <2>2, <2>4, <2>5, PassesThrough
<1>6. ASSUME ~needs_sign_in(q.site.auth, q.visit.readings), Through(r, q, NoOne, "nobody", NoOne),
             UNCHANGED <<basic, cookies>>
      PROVE  SessionInv'
  <2>1. \A path \in q.visit.readings : ~needs_sign_in(q.site.auth, {path})
    BY <1>6 DEF needs_sign_in
  <2>2. PICK name, by : name = NoOne /\ by = "nobody"
    OBVIOUS
  <2> QED
    BY <1>1, <1>6, <2>1, <2>2, PassesThrough
<1>7. CASE Basic(r, q) /\ UNCHANGED cookies /\ ~EndsWithRow(r)
  <2>1. PICK name, password : name = q.visit.name /\ password = q.visit.password
    OBVIOUS
  <2>2. CASE remembers(q.site.realm, name, password, clock)
    <3>1. Through(r, q, name, "basic", password) /\ UNCHANGED basic
      BY <1>7, <2>1, <2>2 DEF Basic
    <3>2. /\ q.site.realm.local => Has(q.site.realm, name) /\ q.site.realm.users[name].enabled
          /\ name \notin again /\ q.site.realm.local => check_password(q.site.realm, name, password)
      BY <1>1, <2>2, RememberedIsRight
    <3>3. PICK by : by = "basic"
      OBVIOUS
    <3> QED
      BY <1>1, <1>2, <1>7, <2>1, <3>1, <3>2, <3>3, PassesThrough
  <2>3. CASE ~remembers(q.site.realm, name, password, clock)
    <3>1. /\ Asks(r, q, name, password, "basic")
          /\ basic' = Forgotten(q.site.realm, name, password)
      BY <1>7, <2>1, <2>3 DEF Basic
    <3>2. basic' \subseteq basic
      BY <3>1 DEF Forgotten
    <3> QED
      BY <1>2, <1>7, <2>1, <3>1, <3>2, LookedAt
  <2> QED
    BY <2>2, <2>3
<1>8. \/ EndsWithRow(r) /\ UNCHANGED <<basic, cookies>>
      \/ SignIn(r, q)
      \/ /\ q.session # NoOne /\ Through(r, q, q.session.subject, "session", q.session.proved)
         /\ UNCHANGED basic
         /\ IF due(q.session, q.moment)
            THEN Minted(mint(q.site.realm, q.session.subject, q.session.user_epoch,
                             q.session.issued, clock),
                        q.session.proved, q.session.first, q.session \notin cookies)
            ELSE UNCHANGED cookies
      \/ /\ ~needs_sign_in(q.site.auth, q.visit.readings) /\ Through(r, q, NoOne, "nobody", NoOne)
         /\ UNCHANGED <<basic, cookies>>
      \/ Basic(r, q) /\ UNCHANGED cookies
  BY DEF Gate
<1>9. SignIn(r, q) /\ EndsWithRow(r) => UNCHANGED <<basic, cookies>>
  BY DEF SignIn
<1>10. CASE Basic(r, q) /\ UNCHANGED cookies /\ EndsWithRow(r)
  <2>1. UNCHANGED basic \/ basic' = Forgotten(q.site.realm, q.visit.name, q.visit.password)
    BY <1>10 DEF Basic
  <2>2. basic' \subseteq basic
    BY <2>1 DEF Forgotten
  <2>3. \A m \in basic' : Proved(m.key.name, m.user_epoch, m.key.password)
    BY <1>1, <2>2
  <2> QED
    BY <1>1, <1>10, <2>3, RequestEnded DEF EndsWithRow
<1> QED
  BY <1>3, <1>4, <1>5, <1>6, <1>7, <1>8, <1>9, <1>10

\* The verdict is acted on.
LEMMA AnswerStep ==
  ASSUME SessionInv, NEW r \in Reqs, Answer(r), scene' = scene
  PROVE  SessionInv'
<1>1. PICK q : q = reqs[r]
  OBVIOUS
<1>2. /\ r \in Busy /\ q.at = "judged" /\ UNCHANGED <<realm, gone, again, page, scene>>
      /\ \A m \in basic : Proved(m.key.name, m.user_epoch, m.key.password)
  BY <1>1 DEF Answer, deletions, Busy, SessionInv
<1>3. Honoured(q)
  BY <1>1, <1>2 DEF SessionInv, RequestOK
<1>4. CASE EndsWithRow(r) /\ UNCHANGED <<basic, cookies>>
  BY <1>2, <1>4, RequestEnded DEF EndsWithRow
<1>5. CASE q.site.auth.asks /\ Gate(r, q)
  BY <1>1, <1>2, <1>3, <1>5, GateStep
<1>6. CASE ~q.site.auth.asks /\ Through(r, q, NoOne, "nobody", NoOne) /\ UNCHANGED <<basic, cookies>>
  <2>1. PICK name, by : name = NoOne /\ by = "nobody"
    OBVIOUS
  <2>2. Through(r, q, name, by, name)
    BY <1>6, <2>1
  <2> QED
    BY <1>1, <1>2, <1>6, <2>1, <2>2, PassesThrough
<1>7. \/ EndsWithRow(r) /\ UNCHANGED <<basic, cookies>>
      \/ q.site.auth.asks /\ Gate(r, q)
      \/ ~q.site.auth.asks /\ Through(r, q, NoOne, "nobody", NoOne) /\ UNCHANGED <<basic, cookies>>
  BY <1>1 DEF Answer
<1> QED
  BY <1>4, <1>5, <1>6, <1>7

\* A password has been checked: on the accounts as the request read them.
LEMMA CheckedStep ==
  ASSUME SessionInv, NEW r \in Reqs, Checked(r), scene' = scene
  PROVE  SessionInv'
<1>1. PICK q : q = reqs[r]
  OBVIOUS
<1>2. /\ r \in Busy /\ q.at = "checking" /\ UNCHANGED <<realm, gone, again, page, scene>>
      /\ \A m \in basic : Proved(m.key.name, m.user_epoch, m.key.password)
  BY <1>1 DEF Checked, deletions, Busy, SessionInv
<1>3. Asked(q)
  BY <1>1, <1>2 DEF SessionInv, RequestOK
<1>4. PICK home, name, password : /\ home = q.site.realm
                                  /\ name = q.name /\ password = q.password
  OBVIOUS
<1>5. PICK stands : stands = (/\ realm.epoch = home.epoch
                              /\ home.local => check_password(realm, name, password))
  OBVIOUS
<1>6. home \in Realms /\ name # NoOne /\ stands \in BOOLEAN
  BY <1>1, <1>2, <1>3, <1>4, <1>5 DEF Realms, Snaps, Asked
<1>7. CASE EndsWithRow(r) /\ UNCHANGED <<basic, cookies>>
  BY <1>2, <1>7, RequestEnded DEF EndsWithRow
<1>8. ASSUME password # "", home.local => check_password(home, name, password),
             Minted(mint(home, name, EpochOf(home, name), clock, clock), password, clock, ~stands),
             EndsWithRow(r), UNCHANGED basic
      PROVE  SessionInv'
  <2>1. PICK d : d = Knowing(mint(home, name, EpochOf(home, name), clock, clock),
                             [proved |-> password, first |-> clock, ended |-> ~stands])
    OBVIOUS
  <2>2. cookies' = cookies \cup {d}
    BY <1>8, <2>1 DEF Minted
  <2>3. CookieOK(d)
    <3>1. stands = (realm.epoch = home.epoch /\ (home.local => check_password(realm, name, password)))
      BY <1>5
    <3> QED
      BY ONLY SessionInv, <1>6, <1>8, <2>1, <3>1, SignedIn
  <2> QED
    BY <1>2, <1>8, <2>2, <2>3, RequestEnded DEF EndsWithRow
<1>9. ASSUME password # "", home.local => check_password(home, name, password),
             basic' = Remember(home, name, password, q.asked),
             Through(r, q, name, "basic", password), UNCHANGED cookies
      PROVE  SessionInv'
  <2>1. PICK m : m = [key |-> Key(home, name, password), user_epoch |-> EpochOf(home, name),
                      until |-> q.asked + Remembered]
    OBVIOUS
  <2>2. \A n \in basic' : n \in basic \/ n = m
    BY <1>9, <2>1 DEF Remember, Forgotten
  <2>3. m.key.name = name /\ m.key.password = password /\ m.user_epoch = EpochOf(home, name)
    BY <2>1 DEF Key
  <2>4. Proved(name, EpochOf(home, name), password)
    BY <1>6, <1>9, RightIsProved
  <2>5. \A n \in basic' : Proved(n.key.name, n.user_epoch, n.key.password)
    BY <1>2, <2>2, <2>3, <2>4
  <2>6. PICK by : by = "basic"
    OBVIOUS
  <2>7. /\ Through(r, q, name, by, password) /\ q.site.auth.asks
        /\ home.local => Has(home, name) /\ home.users[name].enabled
    BY <1>3, <1>9, <2>6 DEF Asked, check_password
  <2> QED
    BY <1>1, <1>2, <1>4, <1>6, <1>9, <2>5, <2>6, <2>7, PassesThrough
<1>10. \/ EndsWithRow(r) /\ UNCHANGED <<basic, cookies>>
       \/ /\ password # "" /\ (home.local => check_password(home, name, password))
          /\ \/ /\ Minted(mint(home, name, EpochOf(home, name), clock, clock), password, clock, ~stands)
                /\ EndsWithRow(r) /\ UNCHANGED basic
             \/ /\ basic' = Remember(home, name, password, q.asked)
                /\ Through(r, q, name, "basic", password) /\ UNCHANGED cookies
  <2>1. PICK right : right = (IF home.local THEN check_password(home, name, password)
                              ELSE password # "" /\ ldap_ask(Here.cfg, directory, password))
    OBVIOUS
  <2>2. right => password # "" /\ (home.local => check_password(home, name, password))
    BY <2>1 DEF check_password
  <2>3. PICK good \in {right, right /\ home.local} :
          IF ~good
          THEN EndsWithRow(r) /\ UNCHANGED <<basic, cookies>>
          ELSE \/ /\ Minted(mint(home, name, EpochOf(home, name), clock, clock), password, clock, ~stands)
                  /\ EndsWithRow(r) /\ UNCHANGED basic
               \/ /\ basic' = Remember(home, name, password, q.asked)
                  /\ Through(r, q, name, "basic", password) /\ UNCHANGED cookies
    BY <1>1, <1>4, <1>5, <2>1 DEF Checked
  <2>4. good => right
    BY <2>3
  <2>5. CASE ~good
    BY <2>3, <2>5
  <2>6. CASE good
    BY <2>2, <2>3, <2>4, <2>6
  <2> QED
    BY <2>5, <2>6
<1> QED
  BY <1>7, <1>8, <1>9, <1>10

\* What neither a request nor an administrator does leaves all of this alone.
LEMMA SessionsAlone ==
  ASSUME SessionInv, UNCHANGED <<reqs, gatewayVars, scene>>
  PROVE  SessionInv'
<1>1. UNCHANGED <<reqs, realm, basic, cookies, page, gone, again, scene>>
  BY DEF gatewayVars, deletions
<1>2. Busy' = Busy /\ Realms' = Realms
  BY <1>1 DEF Busy, Realms, Snaps
<1>3. \A u, e, p : Proved(u, e, p)' = Proved(u, e, p)
  BY <1>1, <1>2 DEF Proved, Past
<1>4. \A c : CookieOK(c)' = CookieOK(c)
  BY <1>1, <1>3 DEF CookieOK, Over
<1>5. \A q : RequestOK(q)' = RequestOK(q)
  BY <1>1, <1>4 DEF RequestOK, CameOK, Named, Over, Here
<1>6. RealmOK' = RealmOK
  BY <1>1 DEF RealmOK
<1>7. ReadingsOK' = ReadingsOK
  BY <1>1, <1>2, <1>3 DEF ReadingsOK
<1>8. \A r \in Busy' : RequestOK(reqs[r])'
  BY <1>1, <1>2, <1>5 DEF SessionInv
<1> QED
  BY <1>1, <1>3, <1>4, <1>6, <1>7, <1>8 DEF SessionInv

LEMMA SessionStep == SessionInv /\ [Next]_vars => SessionInv'
<1> SUFFICES ASSUME SessionInv, [Next]_vars PROVE SessionInv'
  OBVIOUS
<1>1. scene' = scene
  BY PlacesMove
<1>2. CASE vars' = vars
  BY <1>2, SessionsAlone DEF vars
<1>3. CASE Requests
  <2>1. PICK r \in Reqs : \/ Lists(r) \/ Count(r) \/ Body(r) \/ Countries(r) \/ Rules(r) \/ Forward(r)
                          \/ Answer(r) \/ Checked(r)
    BY <1>3 DEF Requests, Hurried
  <2> QED
    BY <1>1, <2>1, OtherSteps, AnswerStep, CheckedStep
<1>4. CASE Connections
  BY <1>1, <1>4, SessionsAlone
     DEF Connections, Accept, FirstBytes, OpenedAsHttp2, NothingSent, Ended, Close
<1>5. CASE Visits
  <2>1. PICK v \in Here.visits : TurnedAway(v) \/ \E r \in Reqs : Take(r, v)
    BY <1>5 DEF Visits
  <2>2. CASE TurnedAway(v)
    BY <1>1, <2>2, SessionsAlone DEF TurnedAway
  <2> QED
    BY <1>1, <2>1, <2>2, TakeStep
<1>6. CASE TakeBatch \/ InsertRows \/ Save \/ Tick
  BY <1>1, <1>6, SessionsAlone DEF TakeBatch, InsertRows, Save, Tick
<1>7. CASE AdminPages
  BY <1>1, <1>7, AdminStep
<1> QED
  BY <1>2, <1>3, <1>4, <1>5, <1>6, <1>7 DEF Next, Others

LEMMA SessionInit == Init => SessionInv
<1> SUFFICES ASSUME Init PROVE SessionInv
  OBVIOUS
<1>1. scene \in DOMAIN Scenes /\ Here.password \in Passwords /\ Here.accounts \subseteq Users
  BY ScenesAssumption DEF Init, Here
<1>2. Here.local \in BOOLEAN /\ (~Here.local => Here.accounts = {})
  BY ScenesAssumption DEF Init, Here
<1>3. PICK account, users : account = Account(Here.password) /\ users = [u \in Here.accounts |-> account]
  OBVIOUS
<1>4. /\ realm = [local |-> Here.local, epoch |-> 0, session |-> Here.session, idle |-> Here.idle,
                  users |-> users]
      /\ basic = {} /\ cookies = {} /\ gone = {} /\ again = {} /\ page = [a \in Admins |-> NoOne]
      /\ reqs = [r \in Reqs |-> Idle]
  BY <1>3 DEF Init, GatewayInit
<1>5. /\ account \in [password : Passwords, enabled : BOOLEAN, epoch : Nat]
      /\ account.epoch = 0 /\ account.password # ""
  BY <1>1, <1>3, GatewayAssumption DEF Account
<1>6. /\ realm.local = Here.local /\ realm.epoch = 0 /\ realm.session = Here.session
      /\ realm.idle = Here.idle /\ realm.users = users
  BY <1>4
<1>7. Busy = {} /\ Realms = {realm}
  BY <1>4 DEF Busy, Realms, Snaps, Idle
<1>8. RealmOK
  <2>1. realm \in [local : BOOLEAN, epoch : Nat, session : {Here.session}, idle : {Here.idle}, users : {users}]
    BY <1>2, <1>4
  <2>2. users = [u \in DOMAIN users |-> users[u]] /\ DOMAIN users = Here.accounts
        /\ \A u \in DOMAIN users : users[u] = account
    BY <1>3
  <2>3. page = [a \in Admins |-> page[a]] /\ \A a \in Admins : page[a] = NoOne
    BY <1>4
  <2> QED
    BY <1>2, <1>4, <1>5, <1>6, <2>1, <2>2, <2>3 DEF RealmOK
<1>9. ReadingsOK
  <2>1. DOMAIN users = Here.accounts /\ \A u \in DOMAIN users : users[u] = account
    BY <1>3
  <2>2. ASSUME NEW u \in DOMAIN realm.users
        PROVE  Proved(u, realm.users[u].epoch, realm.users[u].password)
    <3>1. realm.users[u] = account
      BY <1>6, <2>1
    <3>2. Past(u, account.epoch)
      <4>1. account.epoch = 0 /\ realm.users[u].epoch = 0
        BY <1>5, <3>1
      <4>2. account.epoch <= realm.users[u].epoch
        BY ONLY <4>1
      <4> QED
        BY <2>2, <4>2 DEF Past, Has
    <3>3. \A R \in Realms : Fits(R, u, account.epoch, account.password)
      BY <1>7, <3>1 DEF Fits
    <3> QED
      BY <1>5, <3>1, <3>2, <3>3 DEF Proved
  <2> QED
    BY <1>6, <1>7, <2>2 DEF ReadingsOK
<1>10. reqs = [r \in Reqs |-> reqs[r]]
  BY <1>4
<1> QED
  BY <1>1, <1>4, <1>7, <1>8, <1>9, <1>10 DEF SessionInv

\* Whoever a request reaches the backend as has an account that is there and enabled,
\* as the request read it, and comes by no session past its lifetime; and under a name
\* that was not deleted and added again, had the password the request stands on, and
\* comes by no session that was ended (gateway.rs:308): however many accounts,
\* administrators, requests and passwords there are.  A name that was added again is
\* left out because there the code does otherwise, see SignedOutEverywhere.
THEOREM SessionsFollowAccounts == Spec => []SessionFollowsAccount
<1>1. SessionInv => SessionFollowsAccount
  <2> SUFFICES ASSUME SessionInv, NEW r \in Reqs, reqs[r].at = "forward" PROVE Named(reqs[r])
    BY DEF SessionFollowsAccount, Named
  <2> QED
    BY DEF SessionInv, Busy, RequestOK
<1> QED
  BY <1>1, SessionInit, SessionStep, PTL DEF Spec

-----------------------------------------------------------------------------
(* Guesses.                                                                   *)

\* The times kept of an address are the last of all its wrong answers since the
\* last right one, and those left out are expired, or as many are kept as may be.
Ordered(all, t) ==
    /\ \A i, j \in DOMAIN all : i <= j => all[i] <= all[j]
    /\ \A i \in DOMAIN all : all[i] <= t
TheLast(kept, all) ==
    /\ Len(kept) <= Len(all)
    /\ \A i \in DOMAIN kept : kept[i] = all[Len(all) - Len(kept) + i]
LeftOut(kept, all, t) ==
    Len(kept) = MaxFailures \/ \A i \in 1 .. Len(all) - Len(kept) : t - all[i] >= Window
Follows(kept, all, t) ==
    /\ all \in Seq(Nat) /\ kept \in Seq(Nat)
    /\ Ordered(all, t) /\ TheLast(kept, all) /\ LeftOut(kept, all, t)
    /\ Len(kept) <= MaxFailures

Checking(a) == {r \in Reqs : reqs[r].at = "checking" /\ reqs[r].client = a}

\* An address has no more wrong answers in the window, with those still being
\* checked, than the throttle allows and one for each of the other requests.
Room(kept, all, t, checking) ==
    /\ Follows(kept, all, t)
    /\ Cardinality(InWindow(all, t)) + Cardinality(checking) <= MaxFailures + Cardinality(Reqs) - 1

GuessInv ==
    /\ clock \in Nat
    /\ failures = [addresses |-> failures.addresses, names |-> failures.names]
    /\ DOMAIN failures.addresses = DOMAIN guesses
    /\ \A a \in DOMAIN guesses : Room(failures.addresses[a], guesses[a], clock, Checking(a))

LEMMA Limits == Window \in Nat \ {0} /\ MaxFailures \in Nat \ {0}
BY GatewayAssumption

\* A set of the first numbers is those up to its size.
LEMMA FirstNumbers ==
  ASSUME NEW n \in Nat, NEW S \in SUBSET (1 .. n), \A j \in S : 1 .. j \subseteq S
  PROVE  Cardinality(S) \in 0 .. n /\ S = 1 .. Cardinality(S)
<1>1. IsFiniteSet(S) /\ Cardinality(S) <= n /\ Cardinality(S) \in Nat
  <2>1. IsFiniteSet(1 .. n) /\ Cardinality(1 .. n) = n
    BY FS_Interval
  <2>2. IsFiniteSet(S) /\ Cardinality(S) <= Cardinality(1 .. n)
    BY <2>1, FS_Subset
  <2> QED
    BY <2>1, <2>2, FS_CardinalityType
<1>2. PICK c \in Nat : c = Cardinality(S)
  BY <1>1
<1>3. \A j \in S : j <= c
  <2> TAKE j \in S
  <2>1. j \in Nat /\ j >= 1 /\ 1 .. j \in SUBSET S
    OBVIOUS
  <2>2. Cardinality(1 .. j) <= Cardinality(S)
    BY <1>1, <2>1, FS_Subset
  <2>3. Cardinality(1 .. j) = j
    BY <2>1, FS_Interval
  <2> QED
    BY <1>2, <2>1, <2>2, <2>3
<1>4. S \in SUBSET (1 .. c)
  BY <1>3
<1>5. IsFiniteSet(1 .. c) /\ Cardinality(1 .. c) = c
  BY <1>2, FS_Interval
<1>6. S = 1 .. c
  BY <1>2, <1>4, <1>5, FS_Subset
<1> QED
  BY <1>1, <1>2, <1>6

\* What is in the window of some times is finite.
LEMMA WindowFinite ==
  ASSUME NEW s \in Seq(Nat), NEW t
  PROVE  IsFiniteSet(InWindow(s, t)) /\ Cardinality(InWindow(s, t)) \in Nat
<1>1. IsFiniteSet(1 .. Len(s)) /\ InWindow(s, t) \in SUBSET (1 .. Len(s))
  BY FS_Interval DEF InWindow
<1> QED
  BY <1>1, FS_Subset, FS_CardinalityType

\* As time goes by, no more is in the window.
LEMMA WindowShrinks ==
  ASSUME NEW s \in Seq(Nat), NEW t \in Nat, NEW u \in Nat, t <= u
  PROVE  Cardinality(InWindow(s, u)) <= Cardinality(InWindow(s, t))
<1>1. InWindow(s, u) \in SUBSET InWindow(s, t)
  <2> SUFFICES ASSUME NEW i \in DOMAIN s, u - s[i] < Window PROVE t - s[i] < Window
    BY DEF InWindow
  <2>1. s[i] \in Nat
    OBVIOUS
  <2> QED
    BY <2>1, Limits
<1> QED
  BY <1>1, WindowFinite, FS_Subset

\* One more wrong answer is one more in the window.
LEMMA WindowGrows ==
  ASSUME NEW s \in Seq(Nat), NEW t \in Nat
  PROVE  Cardinality(InWindow(Append(s, t), t)) = Cardinality(InWindow(s, t)) + 1
<1>1. PICK n \in Nat : n = Len(s) + 1
  OBVIOUS
<1>2. PICK all : all = Append(s, t)
  OBVIOUS
<1>3. DOMAIN all = 1 .. n /\ DOMAIN s = 1 .. n - 1 /\ all[n] = t /\ \A i \in 1 .. n - 1 : all[i] = s[i]
  BY <1>1, <1>2
<1>4. InWindow(all, t) = InWindow(s, t) \cup {n} /\ n \notin InWindow(s, t)
  <2>1. t - t < Window
    BY Limits
  <2>2. \A i : i \in InWindow(all, t) <=> i \in 1 .. n /\ t - all[i] < Window
    BY <1>3 DEF InWindow
  <2>3. \A i : i \in InWindow(s, t) <=> i \in 1 .. n - 1 /\ t - s[i] < Window
    BY <1>3 DEF InWindow
  <2>4. /\ n \in 1 .. n /\ n \notin 1 .. n - 1 /\ 1 .. n - 1 \subseteq 1 .. n
        /\ \A i \in 1 .. n : i = n \/ i \in 1 .. n - 1
    BY <1>1
  <2> QED
    BY <1>3, <2>1, <2>2, <2>3, <2>4
<1> QED
  BY <1>2, <1>4, WindowFinite, FS_AddElement

\* What Follows says, in numbers: all n, the last m of them kept, d left out.
LEMMA InNumbers ==
  ASSUME NEW t \in Nat, NEW kept, NEW all, Follows(kept, all, t)
  PROVE  \E n, m, d \in Nat :
           /\ n = Len(all) /\ m = Len(kept) /\ n = d + m /\ m <= MaxFailures
           /\ DOMAIN all = 1 .. n /\ DOMAIN kept = 1 .. m
           /\ \A i \in 1 .. n : all[i] \in Nat /\ all[i] <= t
           /\ \A i, j \in 1 .. n : i <= j => all[i] <= all[j]
           /\ \A i \in 1 .. m : d + i \in 1 .. n /\ kept[i] = all[d + i]
           /\ m = MaxFailures \/ \A i \in 1 .. d : t - all[i] >= Window
<1>s. all \in Seq(Nat) /\ kept \in Seq(Nat)
  BY DEF Follows
<1>1. PICK n \in Nat, m \in Nat : n = Len(all) /\ m = Len(kept) /\ m <= n
  BY <1>s DEF Follows, TheLast
<1>2. PICK d \in Nat : d = n - m
  <2>1. n - m \in Nat
    BY <1>1
  <2> QED
    BY <2>1
<1>3. n = d + m
  BY <1>1, <1>2
<1>4. DOMAIN all = 1 .. n /\ DOMAIN kept = 1 .. m
  BY <1>s, <1>1
<1>5. \A i \in 1 .. n : all[i] \in Nat
  BY <1>s, <1>4
<1>6. Ordered(all, t) /\ TheLast(kept, all) /\ LeftOut(kept, all, t) /\ m <= MaxFailures
  BY <1>1 DEF Follows
<1>7. \A i, j \in 1 .. n : i <= j => all[i] <= all[j]
  BY <1>4, <1>6 DEF Ordered
<1>8. \A i \in 1 .. n : all[i] <= t
  BY <1>4, <1>6 DEF Ordered
<1>9. \A i \in 1 .. m : d + i \in 1 .. n
  BY <1>1, <1>3
<1>10. \A i \in 1 .. m : kept[i] = all[d + i]
  BY <1>1, <1>2, <1>4, <1>6 DEF TheLast
<1>11. m = MaxFailures \/ \A i \in 1 .. d : t - all[i] >= Window
  BY <1>1, <1>2, <1>6 DEF LeftOut
<1> QED
  BY <1>1, <1>3, <1>4, <1>5, <1>6, <1>7, <1>8, <1>9, <1>10, <1>11

\* Where fewer are kept in the window than may be, all of the window is kept.
LEMMA AllIsKept ==
  ASSUME NEW t \in Nat, NEW kept, NEW all, Follows(kept, all, t),
         Cardinality(InWindow(kept, t)) < MaxFailures
  PROVE  Cardinality(InWindow(all, t)) <= Cardinality(InWindow(kept, t))
<1>s. all \in Seq(Nat) /\ kept \in Seq(Nat)
  BY DEF Follows
<1>1. PICK n \in Nat, m \in Nat, d \in Nat :
         /\ n = Len(all) /\ m = Len(kept) /\ n = d + m /\ m <= MaxFailures
         /\ DOMAIN all = 1 .. n /\ DOMAIN kept = 1 .. m
         /\ \A i \in 1 .. n : all[i] \in Nat /\ all[i] <= t
         /\ \A i, j \in 1 .. n : i <= j => all[i] <= all[j]
         /\ \A i \in 1 .. m : d + i \in 1 .. n /\ kept[i] = all[d + i]
         /\ m = MaxFailures \/ \A i \in 1 .. d : t - all[i] >= Window
  BY InNumbers
<1>2. \A i \in 1 .. d : t - all[i] >= Window
  <2>1. CASE m # MaxFailures
    BY <1>1, <2>1
  <2>2. CASE m = MaxFailures
    <3>1. PICK k \in 1 .. m : t - kept[k] >= Window
      <4> SUFFICES ASSUME \A k \in 1 .. m : ~(t - kept[k] >= Window) PROVE FALSE
        OBVIOUS
      <4>1. \A k \in 1 .. m : kept[k] \in Nat
        BY <1>1
      <4>2. InWindow(kept, t) = 1 .. m
        BY <1>1, <4>1, Limits DEF InWindow
      <4>3. Cardinality(1 .. m) = m
        BY FS_Interval
      <4> QED
        BY <2>2, <4>2, <4>3, Limits
    <3>2. PICK e \in 1 .. n : e > d /\ t - all[e] >= Window
      <4>1. d + k \in 1 .. n /\ d + k > d /\ t - all[d + k] >= Window
        BY <1>1, <3>1
      <4> QED
        BY <4>1
    <3> TAKE i \in 1 .. d
    <3>3. i \in 1 .. n /\ i <= e
      BY <1>1, <3>2
    <3>4. all[i] <= all[e] /\ all[i] \in Nat /\ all[e] \in Nat
      BY <1>1, <3>3
    <3> QED
      BY <3>2, <3>4, Limits
  <2> QED
    BY <2>1, <2>2
<1>3. PICK f : f = [j \in InWindow(all, t) |-> j - d]
  OBVIOUS
<1>4. f \in Injection(InWindow(all, t), InWindow(kept, t))
  <2>1. ASSUME NEW j \in InWindow(all, t)
        PROVE  j \in Nat /\ j - d \in InWindow(kept, t)
    <3>1. j \in 1 .. n /\ t - all[j] < Window /\ all[j] \in Nat
      BY <1>1 DEF InWindow
    <3>2. j \notin 1 .. d
      BY <1>2, <3>1, Limits
    <3>3. j - d \in 1 .. m /\ d + (j - d) = j
      BY <1>1, <3>1, <3>2
    <3>4. kept[j - d] = all[j]
      BY <1>1, <3>3
    <3> QED
      BY <1>1, <3>1, <3>3, <3>4 DEF InWindow
  <2>2. f \in [InWindow(all, t) -> InWindow(kept, t)]
    BY <1>3, <2>1
  <2>3. \A i, j \in InWindow(all, t) : f[i] = f[j] => i = j
    BY <1>3, <2>1
  <2> QED
    BY <2>2, <2>3 DEF Injection, IsInjective
<1> QED
  BY <1>s, <1>4, WindowFinite, FS_Injection

\* The throttle keeps of one more wrong answer what it kept of the rest.
LEMMA StillFollows ==
  ASSUME NEW t \in Nat, NEW kept, NEW all, Follows(kept, all, t)
  PROVE  Follows(AsKept(kept, t, MaxFailures), Append(all, t), t)
<1>s. all \in Seq(Nat) /\ kept \in Seq(Nat)
  BY DEF Follows
<1>1. PICK n \in Nat, m \in Nat, d \in Nat :
         /\ n = Len(all) /\ m = Len(kept) /\ n = d + m /\ m <= MaxFailures
         /\ DOMAIN all = 1 .. n /\ DOMAIN kept = 1 .. m
         /\ \A i \in 1 .. n : all[i] \in Nat /\ all[i] <= t
         /\ \A i, j \in 1 .. n : i <= j => all[i] <= all[j]
         /\ \A i \in 1 .. m : d + i \in 1 .. n /\ kept[i] = all[d + i]
         /\ m = MaxFailures \/ \A i \in 1 .. d : t - all[i] >= Window
  BY InNumbers
<1>2. PICK expired : expired = {i \in DOMAIN kept : \A j \in 1 .. i : t - kept[j] >= Window}
  OBVIOUS
<1>3. PICK e \in 0 .. m : e = Cardinality(expired) /\ expired = 1 .. e
  <2>1. expired \in SUBSET (1 .. m)
    BY <1>1, <1>2
  <2>2. \A j \in expired : 1 .. j \subseteq expired
    BY <1>1, <1>2
  <2> QED
    BY <2>1, <2>2, FirstNumbers
<1>4. \A i \in 1 .. d + e : e > 0 => t - all[i] >= Window
  <2> SUFFICES ASSUME NEW i \in 1 .. d + e, e > 0 PROVE t - all[i] >= Window
    OBVIOUS
  <2>1. e \in expired /\ e \in 1 .. m
    <3>1. e \in 1 .. e /\ e \in 1 .. m
      BY <1>3
    <3> QED
      BY <1>3, <3>1
  <2>2. e \in 1 .. e /\ t - kept[e] >= Window
    BY <1>2, <2>1
  <2>3. PICK l \in 1 .. n : l = d + e /\ kept[e] = all[l]
    BY <1>1, <2>1
  <2>4. i \in 1 .. n /\ i <= l
    BY <1>1, <2>3
  <2>5. all[i] <= all[l] /\ all[i] \in Nat /\ all[l] \in Nat
    BY <1>1, <2>4
  <2> QED
    BY <2>2, <2>3, <2>5, Limits
<1>n. n \in Nat /\ m \in Nat /\ d \in Nat /\ n = d + m /\ e \in 0 .. m
  BY <1>1, <1>3
<1>5. PICK more : more = Append(all, t)
  OBVIOUS
<1>6. /\ more \in Seq(Nat) /\ Len(more) = n + 1 /\ DOMAIN more = 1 .. n + 1
      /\ more[n + 1] = t /\ \A i \in 1 .. n : more[i] = all[i]
  BY <1>s, <1>1, <1>5
<1>7. Ordered(more, t)
  <2>1. ASSUME NEW i \in 1 .. n + 1
        PROVE  more[i] \in Nat /\ more[i] <= t
    <3>1. i = n + 1 \/ i \in 1 .. n
      BY <1>n
    <3> QED
      BY <1>1, <1>6, <3>1
  <2>2. ASSUME NEW i \in 1 .. n + 1, NEW j \in 1 .. n + 1, i <= j
        PROVE  more[i] <= more[j]
    <3>1. CASE j = n + 1
      BY <1>6, <2>1, <3>1
    <3>2. CASE j # n + 1
      <4>1. i \in 1 .. n /\ j \in 1 .. n
        BY <1>n, <2>2, <3>2
      <4>2. more[i] = all[i] /\ more[j] = all[j] /\ all[i] <= all[j]
        BY <1>1, <1>6, <2>2, <4>1
      <4> QED
        BY <4>2
    <3> QED
      BY <3>1, <3>2
  <2> QED
    BY <1>6, <2>1, <2>2 DEF Ordered
<1>8. PICK live : live = Append(SubSeq(kept, e + 1, m), t)
  OBVIOUS
<1>9. /\ live \in Seq(Nat) /\ Len(live) = m - e + 1 /\ DOMAIN live = 1 .. m - e + 1
      /\ live[m - e + 1] = t /\ \A i \in 1 .. m - e : live[i] = kept[e + i]
  <2>1. PICK rest : rest = SubSeq(kept, e + 1, m)
    OBVIOUS
  <2>2. \A i \in e + 1 .. m : kept[i] \in Nat
    BY <1>s, <1>1, <1>3
  <2>3. /\ rest \in Seq(Nat) /\ Len(rest) = IF e + 1 <= m THEN m - (e + 1) + 1 ELSE 0
        /\ \A i \in 1 .. m - (e + 1) + 1 : rest[i] = kept[e + 1 + i - 1]
    BY <2>1, <2>2, SubSeqProperties
  <2>4. Len(rest) = m - e /\ \A i \in 1 .. m - e : rest[i] = kept[e + i]
    <3>1. m - (e + 1) + 1 = m - e /\ m - e \in Nat
      BY <1>1, <1>3
    <3>2. Len(rest) = m - e
      BY <2>3, <3>1
    <3>3. \A i \in 1 .. m - e : e + 1 + i - 1 = e + i
      BY <1>3
    <3> QED
      BY <2>3, <3>1, <3>2, <3>3
  <2>5. live = Append(rest, t)
    BY <1>8, <2>1
  <2>6. PICK l \in Nat : l = m - e /\ l + 1 = m - e + 1
    <3>1. m - e \in Nat
      BY <1>n
    <3> QED
      BY <3>1
  <2>7. rest \in Seq(Nat) /\ Len(rest) = l /\ \A i \in 1 .. l : rest[i] = kept[e + i]
    BY <2>3, <2>4, <2>6
  <2>8. /\ live \in Seq(Nat) /\ Len(live) = l + 1 /\ DOMAIN live = 1 .. l + 1
        /\ live[l + 1] = t /\ \A i \in 1 .. l : live[i] = kept[e + i]
    BY ONLY <2>5, <2>7, <2>6, t \in Nat
  <2> QED
    BY ONLY <2>6, <2>8
<1>10. TheLast(live, more)
  <2>1. (n + 1) - (m - e + 1) = d + e
    BY <1>1, <1>3
  <2>2. ASSUME NEW i \in 1 .. m - e + 1
        PROVE  live[i] = more[d + e + i]
    <3>1. CASE i = m - e + 1
      <4>1. d + e + i = n + 1
        BY ONLY <1>n, <3>1
      <4> QED
        BY <1>6, <1>9, <3>1, <4>1
    <3>2. CASE i # m - e + 1
      <4>1. i \in 1 .. m - e /\ e + i \in 1 .. m
        BY ONLY <1>n, <3>2, i \in 1 .. m - e + 1
      <4>2. d + (e + i) = d + e + i /\ d + e + i \in 1 .. n
        BY ONLY <1>n, <4>1
      <4>3. kept[e + i] = all[d + (e + i)]
        BY <1>1, <4>1
      <4> QED
        BY <1>6, <1>9, <4>1, <4>2, <4>3
    <3> QED
      BY <3>1, <3>2
  <2>3. m - e + 1 <= n + 1
    BY <1>1, <1>3
  <2> QED
    BY <1>6, <1>9, <2>1, <2>2, <2>3 DEF TheLast
<1>11. CASE Len(live) <= MaxFailures
  <2>1. AsKept(kept, t, MaxFailures) = live
    <3>1. ~(Len(live) > MaxFailures)
      BY <1>9, <1>11, Limits
    <3> QED
      BY <1>1, <1>2, <1>3, <1>8, <3>1 DEF AsKept
  <2>2. LeftOut(live, more, t)
    <3>1. (n + 1) - (m - e + 1) = d + e
      BY <1>1, <1>3
    <3>2. \A i \in 1 .. d + e : t - all[i] >= Window
      <4>1. CASE e > 0
        BY <1>4, <4>1
      <4>2. CASE e = 0
        <5>1. m # MaxFailures /\ d + e = d
          BY <1>9, <1>11, <4>2, Limits
        <5> QED
          BY <1>1, <5>1
      <4> QED
        BY <1>3, <4>1, <4>2
    <3>3. \A i \in 1 .. d + e : i \in 1 .. n
      BY <1>1, <1>3
    <3> QED
      BY <1>6, <1>9, <3>1, <3>2, <3>3 DEF LeftOut
  <2> QED
    BY <1>5, <1>6, <1>7, <1>9, <1>10, <1>11, <2>1, <2>2 DEF Follows
<1>12. CASE ~(Len(live) <= MaxFailures)
  <2>1. e = 0 /\ m = MaxFailures /\ Len(live) = m + 1 /\ Len(live) > MaxFailures
    <3>1. /\ Len(live) = m - e + 1 /\ m \in Nat /\ e \in 0 .. m /\ MaxFailures \in Nat
          /\ m <= MaxFailures /\ ~(m - e + 1 <= MaxFailures)
      BY <1>9, <1>12, <1>1, <1>n, Limits
    <3> QED
      BY ONLY <3>1
  <2>2. PICK last1 : last1 = Tail(live)
    OBVIOUS
  <2>3. /\ last1 \in Seq(Nat) /\ Len(last1) = m /\ DOMAIN last1 = 1 .. m
        /\ \A i \in 1 .. m : last1[i] = live[i + 1]
    <3>1. live # <<>>
      BY <1>9, <2>1
    <3> QED
      BY <1>9, <2>1, <2>2, <3>1, HeadTailProperties
  <2>4. AsKept(kept, t, MaxFailures) = last1
    BY <1>1, <1>2, <1>3, <1>8, <2>1, <2>2 DEF AsKept
  <2>5. TheLast(last1, more)
    <3>1. \A i \in 1 .. m : /\ i + 1 \in DOMAIN live
                            /\ Len(more) - Len(live) + (i + 1) = Len(more) - Len(last1) + i
      BY <1>6, <1>9, <2>1, <2>3
    <3>2. Len(last1) <= Len(more)
      BY <1>1, <1>6, <2>3
    <3> QED
      BY <1>10, <2>3, <3>1, <3>2 DEF TheLast
  <2>6. LeftOut(last1, more, t) /\ Len(last1) <= MaxFailures
    BY <2>1, <2>3, Limits DEF LeftOut
  <2> QED
    BY <1>5, <1>6, <1>7, <2>3, <2>4, <2>5, <2>6 DEF Follows
<1> QED
  BY <1>11, <1>12

\* Later, the times kept follow the guesses as before.
LEMMA FollowsLater ==
  ASSUME NEW t \in Nat, NEW u \in Nat, t <= u, NEW kept, NEW all, Follows(kept, all, t)
  PROVE  Follows(kept, all, u)
<1>1. \A i \in DOMAIN all : all[i] \in Nat
  BY DEF Follows
<1>2. Ordered(all, u)
  BY <1>1 DEF Follows, Ordered
<1>3. \A i \in 1 .. Len(all) - Len(kept) : i \in DOMAIN all
  <2>1. all \in Seq(Nat) /\ kept \in Seq(Nat)
    BY DEF Follows
  <2>2. PICK n \in Nat, m \in Nat : n = Len(all) /\ m = Len(kept) /\ DOMAIN all = 1 .. n
    BY <2>1
  <2> QED
    BY <2>2
<1>4. LeftOut(kept, all, u)
  BY <1>1, <1>3, Limits DEF Follows, LeftOut
<1> QED
  BY <1>2, <1>4 DEF Follows

\* No more requests have a password checked than there are.
LEMMA CheckingFew ==
  /\ Cardinality(Reqs) \in Nat \ {0}
  /\ \A a : IsFiniteSet(Checking(a)) /\ Cardinality(Checking(a)) \in Nat
                /\ Cardinality(Checking(a)) <= Cardinality(Reqs)
<1>1. IsFiniteSet(Reqs) /\ Reqs # {}
  BY EdgeAssumption
<1>2. Cardinality(Reqs) \in Nat \ {0}
  BY <1>1, FS_CardinalityType, FS_EmptySet
<1>3. \A a : Checking(a) \in SUBSET Reqs
  BY DEF Checking
<1>4. \A a : IsFiniteSet(Checking(a)) /\ Cardinality(Checking(a)) <= Cardinality(Reqs)
  BY <1>1, <1>3, FS_Subset
<1> QED
  BY <1>2, <1>4, FS_CardinalityType

\* Time goes by and checks end.
LEMMA RoomLater ==
  ASSUME NEW t \in Nat, NEW u \in Nat, t <= u, NEW kept, NEW all, NEW C, NEW D \in SUBSET C,
         IsFiniteSet(C), Room(kept, all, t, C)
  PROVE  Room(kept, all, u, D)
<1>1. Cardinality(D) <= Cardinality(C) /\ Cardinality(C) \in Nat /\ Cardinality(D) \in Nat
  BY FS_Subset, FS_CardinalityType
<1>2. all \in Seq(Nat)
  BY DEF Room, Follows
<1>3. /\ Cardinality(InWindow(all, u)) <= Cardinality(InWindow(all, t))
      /\ Cardinality(InWindow(all, u)) \in Nat /\ Cardinality(InWindow(all, t)) \in Nat
  BY <1>2, WindowShrinks, WindowFinite
<1>4. Follows(kept, all, u)
  BY FollowsLater DEF Room
<1>5. Cardinality(InWindow(all, t)) + Cardinality(C) <= MaxFailures + Cardinality(Reqs) - 1
  BY DEF Room
<1>6. Cardinality(InWindow(all, u)) + Cardinality(D) <= MaxFailures + Cardinality(Reqs) - 1
  BY <1>1, <1>3, <1>5, Limits, CheckingFew
<1> QED
  BY <1>4, <1>6 DEF Room

\* An address that is not held back has room for every request.
LEMMA RoomForAll ==
  ASSUME NEW t \in Nat, NEW kept, NEW all, Follows(kept, all, t),
         Cardinality(InWindow(kept, t)) < MaxFailures, NEW C \in SUBSET Reqs
  PROVE  Room(kept, all, t, C)
<1>1. all \in Seq(Nat) /\ kept \in Seq(Nat)
  BY DEF Follows
<1>2. Cardinality(InWindow(all, t)) <= Cardinality(InWindow(kept, t))
  BY AllIsKept
<1>3. Cardinality(InWindow(all, t)) \in Nat /\ Cardinality(InWindow(kept, t)) \in Nat
  BY <1>1, WindowFinite
<1>4. Cardinality(C) <= Cardinality(Reqs) /\ Cardinality(C) \in Nat /\ Cardinality(Reqs) \in Nat
  BY EdgeAssumption, FS_Subset, FS_CardinalityType
<1>5. Cardinality(InWindow(all, t)) + Cardinality(C) <= MaxFailures + Cardinality(Reqs) - 1
  BY <1>2, <1>3, <1>4, Limits
<1> QED
  BY <1>5 DEF Room

\* A check that ends in a wrong answer is one less and one more.
LEMMA RoomForOne ==
  ASSUME NEW t \in Nat, NEW kept, NEW all, NEW C, NEW r \in C, IsFiniteSet(C),
         Room(kept, all, t, C), NEW D \in SUBSET (C \ {r})
  PROVE  Room(AsKept(kept, t, MaxFailures), Append(all, t), t, D)
<1>1. all \in Seq(Nat)
  BY DEF Room, Follows
<1>2. Cardinality(InWindow(Append(all, t), t)) = Cardinality(InWindow(all, t)) + 1
  BY <1>1, WindowGrows
<1>3. /\ Cardinality(D) <= Cardinality(C) - 1 /\ Cardinality(C) \in Nat /\ Cardinality(D) \in Nat
      /\ Cardinality(InWindow(all, t)) \in Nat
  <2>1. IsFiniteSet(C \ {r}) /\ Cardinality(C \ {r}) = Cardinality(C) - 1
    BY FS_RemoveElement
  <2> QED
    BY <1>1, <2>1, FS_Subset, FS_CardinalityType, WindowFinite
<1>4. Follows(AsKept(kept, t, MaxFailures), Append(all, t), t)
  BY StillFollows DEF Room
<1>5. Cardinality(InWindow(all, t)) + Cardinality(C) <= MaxFailures + Cardinality(Reqs) - 1
  BY DEF Room
<1>6. Cardinality(InWindow(Append(all, t), t)) + Cardinality(D) <= MaxFailures + Cardinality(Reqs) - 1
  BY <1>2, <1>3, <1>5, Limits, CheckingFew
<1> QED
  BY <1>4, <1>6 DEF Room

\* The first wrong answer of an address since a right one.
LEMMA RoomForTheFirst ==
  ASSUME NEW t \in Nat, NEW C \in SUBSET Reqs
  PROVE  Room(<<>>, <<>>, t, C)
<1>1. Follows(<<>>, <<>>, t)
  BY Limits DEF Follows, Ordered, TheLast, LeftOut
<1>2. InWindow(<<>>, t) = {}
  BY DEF InWindow
<1>3. Cardinality(InWindow(<<>>, t)) < MaxFailures
  BY <1>2, FS_EmptySet, Limits
<1> QED
  BY <1>1, <1>3, RoomForAll

\* Time goes by, and requests that had a password checked end or go on.
LEMMA ChecksEnd ==
  ASSUME GuessInv, UNCHANGED <<guesses, failures>>, clock' \in Nat, clock <= clock',
         \A a : Checking(a)' \subseteq Checking(a)
  PROVE  GuessInv'
<1>1. PICK t \in Nat, u \in Nat : t = clock /\ u = clock' /\ t <= u
  BY DEF GuessInv
<1>2. ASSUME NEW a \in DOMAIN guesses
      PROVE  Room(failures.addresses[a], guesses[a], u, Checking(a)')
  <2>1. PICK C, D : C = Checking(a) /\ D = Checking(a)' /\ D \in SUBSET C
    OBVIOUS
  <2>2. Room(failures.addresses[a], guesses[a], t, C) /\ IsFiniteSet(C)
    BY <1>1, <2>1, CheckingFew DEF GuessInv
  <2>3. Room(failures.addresses[a], guesses[a], u, D)
    BY ONLY <1>1, <2>1, <2>2, RoomLater
  <2> QED
    BY <2>1, <2>3
<1> QED
  BY <1>1, <1>2 DEF GuessInv

\* A check begins, for an address that is not held back.
LEMMA CheckBegins ==
  ASSUME GuessInv, UNCHANGED <<guesses, failures, clock>>, NEW c,
         \A a : a # c => Checking(a)' \subseteq Checking(a),
         c \in DOMAIN guesses => Cardinality(InWindow(failures.addresses[c], clock)) < MaxFailures
  PROVE  GuessInv'
<1>1. PICK t \in Nat : t = clock
  BY DEF GuessInv
<1>2. ASSUME NEW a \in DOMAIN guesses
      PROVE  Room(failures.addresses[a], guesses[a], t, Checking(a)')
  <2>1. PICK C, D : C = Checking(a) /\ D = Checking(a)' /\ D \in SUBSET Reqs
    BY DEF Checking
  <2>2. Room(failures.addresses[a], guesses[a], t, C) /\ IsFiniteSet(C)
    BY <1>1, <2>1, CheckingFew DEF GuessInv
  <2>3. CASE a # c
    <3>1. D \in SUBSET C /\ t <= t
      BY <2>1, <2>3
    <3> QED
      BY ONLY <1>1, <2>1, <2>2, <3>1, RoomLater
  <2>4. CASE a = c
    <3>1. Cardinality(InWindow(failures.addresses[a], t)) < MaxFailures
      BY <1>1, <1>2, <2>4
    <3> QED
      BY <2>1, <2>2, <3>1, RoomForAll DEF Room
  <2> QED
    BY <2>3, <2>4
<1> QED
  BY <1>1, <1>2 DEF GuessInv

\* A right password: what was counted of the address is forgotten.
LEMMA RightAnswer ==
  ASSUME GuessInv, NEW c, Forgiven(c), clock' = clock,
         \A a : Checking(a)' \subseteq Checking(a)
  PROVE  GuessInv'
<1>1. PICK t \in Nat : t = clock
  BY DEF GuessInv
<1>2. PICK kept, all : /\ kept = Restrict(failures.addresses, DOMAIN failures.addresses \ {c})
                       /\ all = Restrict(guesses, DOMAIN guesses \ {c})
  OBVIOUS
<1>3. /\ failures' = [addresses |-> kept, names |-> failures.names] /\ guesses' = all
      /\ DOMAIN kept = DOMAIN all
      /\ \A a \in DOMAIN all : /\ a \in DOMAIN guesses
                               /\ kept[a] = failures.addresses[a] /\ all[a] = guesses[a]
  BY <1>2 DEF Forgiven, note_success, GuessInv, Restrict
<1>4. ASSUME NEW a \in DOMAIN all
      PROVE  Room(kept[a], all[a], t, Checking(a)')
  <2>1. PICK C, D : C = Checking(a) /\ D = Checking(a)' /\ D \in SUBSET C
    OBVIOUS
  <2>2. Room(failures.addresses[a], guesses[a], t, C) /\ IsFiniteSet(C) /\ t <= t
    BY <1>1, <1>3, <1>4, <2>1, CheckingFew DEF GuessInv
  <2>3. Room(failures.addresses[a], guesses[a], t, D)
    BY ONLY <1>1, <2>1, <2>2, RoomLater
  <2> QED
    BY <1>3, <1>4, <2>1, <2>3
<1> QED
  BY <1>1, <1>3, <1>4 DEF GuessInv

\* A wrong one: it is counted, and is no longer being checked.
LEMMA WrongAnswer ==
  ASSUME GuessInv, NEW c, NEW r \in Checking(c), NEW name, note_failure(name, c, clock),
         guesses' = OneMoreTime(guesses, c),
         clock' = clock, \A a : Checking(a)' \subseteq Checking(a), r \notin Checking(c)'
  PROVE  GuessInv'
<1>1. PICK t \in Nat : t = clock
  BY DEF GuessInv
<1>2. PICK kept, names, all : /\ kept = Noted(failures.addresses, c, t, MaxFailures)
                              /\ names = Noted(failures.names, name, t, MaxPerName)
                              /\ all = guesses'
  OBVIOUS
<1>3. /\ failures' = [addresses |-> kept, names |-> names] /\ guesses' = all
      /\ DOMAIN kept = DOMAIN guesses \cup {c} /\ DOMAIN all = DOMAIN guesses \cup {c}
      /\ kept[c] = AsKept(Times(failures.addresses, c), t, MaxFailures)
      /\ all[c] = Append(Times(guesses, c), t)
      /\ \A a \in DOMAIN guesses : a # c => kept[a] = failures.addresses[a] /\ all[a] = guesses[a]
  BY <1>1, <1>2 DEF note_failure, GuessInv, Noted, OneMoreTime
<1>4. ASSUME NEW a \in DOMAIN guesses, a # c
      PROVE  Room(kept[a], all[a], t, Checking(a)')
  <2>1. PICK C, D : C = Checking(a) /\ D = Checking(a)' /\ D \in SUBSET C
    OBVIOUS
  <2>2. Room(failures.addresses[a], guesses[a], t, C) /\ IsFiniteSet(C) /\ t <= t
    BY <1>1, <2>1, CheckingFew DEF GuessInv
  <2>3. Room(failures.addresses[a], guesses[a], t, D)
    BY ONLY <1>1, <2>1, <2>2, RoomLater
  <2> QED
    BY <1>3, <1>4, <2>1, <2>3
<1>5. Room(kept[c], all[c], t, Checking(c)')
  <2>0. PICK C, D : C = Checking(c) /\ D = Checking(c)'
    OBVIOUS
  <2>1. /\ C = Checking(c) /\ D = Checking(c)' /\ D \in SUBSET (C \ {r})
        /\ C \in SUBSET Reqs /\ IsFiniteSet(C)
    <3>1. D \subseteq C /\ r \notin D
      BY <2>0
    <3>2. C \subseteq Reqs
      BY <2>0 DEF Checking
    <3> QED
      BY <2>0, <3>1, <3>2, CheckingFew
  <2>2. PICK k, l : k = Times(failures.addresses, c) /\ l = Times(guesses, c)
    OBVIOUS
  <2>3. Room(k, l, t, C)
    <3>1. CASE c \in DOMAIN guesses
      BY <1>1, <2>1, <2>2, <3>1 DEF GuessInv, Times
    <3>2. CASE c \notin DOMAIN guesses
      <4>1. k = <<>> /\ l = <<>>
        BY <2>2, <3>2 DEF GuessInv, Times
      <4> QED
        BY <2>1, <4>1, RoomForTheFirst
    <3> QED
      BY <3>1, <3>2
  <2>4. r \in C
    BY <2>1
  <2>5. Room(AsKept(k, t, MaxFailures), Append(l, t), t, D)
    BY ONLY <1>1, <2>1, <2>3, <2>4, RoomForOne
  <2> QED
    BY <1>3, <2>1, <2>2, <2>5
<1>6. \A a \in DOMAIN all : Room(kept[a], all[a], t, Checking(a)')
  BY <1>3, <1>4, <1>5
<1> QED
  BY <1>1, <1>3, <1>6 DEF GuessInv

\* One request is now x: an address has it under its checks only if x is one.
LEMMA OneChecked ==
  ASSUME SessionInv, NEW r \in Reqs, NEW x, reqs' = [reqs EXCEPT ![r] = x], NEW a,
         x.at # "checking" \/ x.client # a
  PROVE  Checking(a)' \subseteq Checking(a) \ {r}
<1>1. reqs = [s \in Reqs |-> reqs[s]]
  BY DEF SessionInv
<1>2. reqs'[r] = x /\ \A s \in Reqs : s # r => reqs'[s] = reqs[s]
  BY <1>1
<1> SUFFICES ASSUME NEW s \in Checking(a)' PROVE s \in Checking(a) \ {r}
  OBVIOUS
<1>3. s \in Reqs /\ reqs'[s].at = "checking" /\ reqs'[s].client = a
  BY DEF Checking
<1>4. s # r
  BY <1>2, <1>3
<1> QED
  BY <1>2, <1>3, <1>4 DEF Checking

\* A request that ends, or goes on to anything else, has no password checked.
LEMMA ChecksNothing ==
  ASSUME SessionInv, NEW r \in Reqs,
         \/ Moves(r, Idle)
         \/ r \in Busy /\ \E at, more : at # "checking" /\ GoesOn(r, reqs[r], at, more)
  PROVE  \A a : Checking(a)' \subseteq Checking(a) \ {r}
<1>1. PICK x : reqs' = [reqs EXCEPT ![r] = x] /\ x.at # "checking"
  <2>1. CASE Moves(r, Idle)
    <3>1. PICK x : x = Idle /\ reqs' = [reqs EXCEPT ![r] = x]
      BY <2>1 DEF Moves
    <3>2. x.at = "idle"
      BY <3>1 DEF Idle
    <3> QED
      BY <3>1, <3>2
  <2>2. CASE r \in Busy /\ \E at, more : at # "checking" /\ GoesOn(r, reqs[r], at, more)
    <3>1. PICK at, more : at # "checking" /\ GoesOn(r, reqs[r], at, more)
      BY <2>2
    <3>2. PICK x : x = Onward(reqs[r], more, at)
      OBVIOUS
    <3>3. reqs' = [reqs EXCEPT ![r] = x]
      BY <3>1, <3>2 DEF GoesOn, Moves, Onward
    <3>4. "at" \in DOMAIN reqs[r]
      BY <2>2 DEF SessionInv, RequestOK, CameOK, Came
    <3>5. x["at"] = at
      BY <3>2, <3>4 DEF Onward, Knowing
    <3> QED
      BY <3>1, <3>3, <3>5
  <2> QED
    BY <2>1, <2>2
<1> QED
  BY <1>1, OneChecked

\* A password is looked at only for an address that is not held back.
LEMMA AsksGuess ==
  ASSUME SessionInv, GuessInv, NEW r \in Busy, NEW name, NEW password, NEW by,
         Asks(r, reqs[r], name, password, by), ~throttled(name, reqs[r].client, clock),
         UNCHANGED <<guesses, failures, clock>>
  PROVE  GuessInv'
<1>1. PICK q, c : q = reqs[r] /\ c = q.client
  OBVIOUS
<1>2. r \in Reqs /\ HasCome(q)
  BY <1>1 DEF SessionInv, RequestOK, CameOK, HasCome, Busy
<1>3. PICK more, at, x : /\ more = [name |-> name, password |-> password, by |-> by, asked |-> clock]
                         /\ at = "checking" /\ x = Onward(q, more, at)
  OBVIOUS
<1>4. Further(more)
  <2>1. DOMAIN more = {"name", "password", "by", "asked"}
    BY <1>3
  <2> QED
    BY <2>1 DEF Further, Came
<1>5. x.client = c
  BY ONLY <1>1, <1>2, <1>3, <1>4, GoneOn
<1>6. reqs' = [reqs EXCEPT ![r] = x]
  BY <1>1, <1>3 DEF Asks, GoesOn, Moves, Onward
<1>7. \A a : a # c => Checking(a)' \subseteq Checking(a)
  BY <1>2, <1>5, <1>6, OneChecked
<1>8. c \in DOMAIN guesses => Cardinality(InWindow(failures.addresses[c], clock)) < MaxFailures
  <2> SUFFICES ASSUME c \in DOMAIN guesses
               PROVE  Cardinality(InWindow(failures.addresses[c], clock)) < MaxFailures
    OBVIOUS
  <2>1. ~(Cardinality(InWindow(failures.addresses[c], clock)) >= MaxFailures)
    BY <1>1 DEF throttled, Counted, Times, GuessInv
  <2>2. failures.addresses[c] \in Seq(Nat)
    BY DEF GuessInv, Room, Follows
  <2>3. Cardinality(InWindow(failures.addresses[c], clock)) \in Nat
    BY <2>2, WindowFinite
  <2> QED
    BY <2>1, <2>3, Limits
<1> QED
  BY <1>7, <1>8, CheckBegins

\* A step that leaves what is counted alone, and no check begins.
LEMMA NothingAsked ==
  ASSUME SessionInv, GuessInv, NEW r \in Reqs, UNCHANGED <<guesses, failures, clock>>,
         \/ Moves(r, Idle)
         \/ r \in Busy /\ \E at, more : at # "checking" /\ GoesOn(r, reqs[r], at, more)
  PROVE  GuessInv'
<1>1. \A a : Checking(a)' \subseteq Checking(a)
  BY ChecksNothing
<1>2. clock' \in Nat /\ clock <= clock'
  BY DEF GuessInv
<1> QED
  BY <1>1, <1>2, ChecksEnd

\* The steps before the gateway, and the last.
LEMMA OthersGuess ==
  ASSUME SessionInv, GuessInv, NEW r \in Reqs,
         Lists(r) \/ Count(r) \/ Body(r) \/ Countries(r) \/ Rules(r) \/ Forward(r)
  PROVE  GuessInv'
<1>1. UNCHANGED <<guesses, failures, clock>>
  BY DEF Lists, Count, Body, Countries, Rules, Forward, Quiet, gatewayVars
<1>2. r \in Busy
  BY DEF Lists, Count, Body, Countries, Rules, Forward, Busy
<1>3. \/ Moves(r, Idle)
      \/ \E at, more : at # "checking" /\ GoesOn(r, reqs[r], at, more)
  <2>1. CASE Lists(r)
    <3>1. \/ Moves(r, Idle)
          \/ \E at \in {"body", "count"} : \E more : GoesOn(r, reqs[r], at, more)
      BY <2>1 DEF Lists, EndsWithRow
    <3> QED
      BY <3>1
  <2>2. CASE Count(r)
    <3>1. PICK count : \/ EndsWithRow(r)
                       \/ GoesOn(r, reqs[r], "body", [count |-> count])
      BY <2>2 DEF Count
    <3> QED
      BY <3>1 DEF EndsWithRow
  <2>3. CASE Body(r)
    <3>1. \/ Moves(r, Idle)
          \/ \E more : GoesOn(r, reqs[r], "countries", more)
      BY <2>3 DEF Body, EndsWithRow, EndsUnrecorded
    <3> QED
      BY <3>1
  <2>4. CASE Countries(r)
    <3>1. \E more : GoesOn(r, reqs[r], "rules", more)
      BY <2>4 DEF Countries
    <3> QED
      BY <3>1
  <2>5. CASE Rules(r)
    <3>1. \E more : GoesOn(r, reqs[r], "judged", more)
      BY <2>5 DEF Rules
    <3> QED
      BY <3>1
  <2>6. CASE Forward(r)
    BY <2>6 DEF Forward, EndsWithRow
  <2> QED
    BY <2>1, <2>2, <2>3, <2>4, <2>5, <2>6
<1> QED
  BY <1>1, <1>2, <1>3, NothingAsked

\* A request let through, with what was counted as before.
LEMMA ThroughGuess ==
  ASSUME SessionInv, GuessInv, NEW r \in Busy, NEW name, NEW by, NEW proved,
         Through(r, reqs[r], name, by, proved), clock' = clock,
         UNCHANGED <<guesses, failures>> \/ \E c : Forgiven(c)
  PROVE  GuessInv'
<1>1. PICK at, more : at = "forward" /\ GoesOn(r, reqs[r], at, more)
  BY DEF Through
<1>2. r \in Reqs
  BY DEF Busy
<1>3. CASE UNCHANGED <<guesses, failures>>
  BY <1>1, <1>2, <1>3, NothingAsked
<1>4. CASE \E c : Forgiven(c)
  <2>1. \A a : Checking(a)' \subseteq Checking(a)
    BY <1>1, <1>2, ChecksNothing
  <2> QED
    BY <1>4, <2>1, RightAnswer
<1> QED
  BY <1>3, <1>4

LEMMA AnswerGuess ==
  ASSUME SessionInv, GuessInv, NEW r \in Reqs, Answer(r)
  PROVE  GuessInv'
<1>1. PICK q : q = reqs[r]
  OBVIOUS
<1>2. r \in Busy /\ clock' = clock
  BY DEF Answer, Busy, Quiet
<1>3. CASE EndsWithRow(r) /\ UNCHANGED <<failures, guesses>>
  BY <1>2, <1>3, NothingAsked DEF EndsWithRow
<1>4. ASSUME NEW name, NEW by, NEW proved, Through(r, q, name, by, proved),
             UNCHANGED <<failures, guesses>>
      PROVE  GuessInv'
  BY <1>1, <1>2, <1>4, ThroughGuess
<1>5. CASE SignIn(r, q)
  <2>1. CASE SignInRefused(q)
    BY <1>3, <1>5, <2>1 DEF SignIn
  <2>2. CASE ~SignInRefused(q)
    BY <1>1, <1>2, <1>5, <2>2, AsksGuess DEF SignIn, SignInRefused
  <2> QED
    BY <2>1, <2>2
<1>6. CASE Basic(r, q)
  <2>1. CASE throttled(q.visit.name, q.client, clock)
    BY <1>3, <1>6, <2>1 DEF Basic
  <2>2. CASE ~throttled(q.visit.name, q.client, clock)
    <3>1. CASE remembers(q.site.realm, q.visit.name, q.visit.password, clock)
      <4>1. /\ Through(r, q, q.visit.name, "basic", q.visit.password)
            /\ Forgiven(q.client)
        BY <1>6, <2>2, <3>1 DEF Basic
      <4> QED
        BY <1>1, <1>2, <4>1, ThroughGuess
    <3>2. CASE ~remembers(q.site.realm, q.visit.name, q.visit.password, clock)
      <4>1. /\ Asks(r, q, q.visit.name, q.visit.password, "basic")
            /\ UNCHANGED <<failures, guesses>>
        BY <1>6, <2>2, <3>2 DEF Basic
      <4> QED
        BY <1>1, <1>2, <2>2, <4>1, AsksGuess
    <3> QED
      BY <3>1, <3>2
  <2> QED
    BY <2>1, <2>2
<1>7. CASE q.site.auth.asks /\ Gate(r, q)
  <2>1. \/ EndsWithRow(r) /\ UNCHANGED <<failures, guesses>>
        \/ SignIn(r, q)
        \/ Basic(r, q)
        \/ /\ Through(r, q, q.session.subject, "session", q.session.proved)
           /\ UNCHANGED <<failures, guesses>>
        \/ Through(r, q, NoOne, "nobody", NoOne) /\ UNCHANGED <<failures, guesses>>
    BY <1>7 DEF Gate
  <2> QED
    BY <1>3, <1>4, <1>5, <1>6, <2>1
<1>8. \/ EndsWithRow(r) /\ UNCHANGED <<failures, guesses>>
      \/ q.site.auth.asks /\ Gate(r, q)
      \/ Through(r, q, NoOne, "nobody", NoOne) /\ UNCHANGED <<failures, guesses>>
  BY <1>1 DEF Answer
<1> QED
  BY <1>3, <1>4, <1>7, <1>8

LEMMA CheckedGuess ==
  ASSUME SessionInv, GuessInv, NEW r \in Reqs, Checked(r)
  PROVE  GuessInv'
<1>1. PICK q, c : q = reqs[r] /\ c = q.client
  OBVIOUS
<1>2. r \in Busy /\ clock' = clock /\ r \in Checking(c)
  BY <1>1 DEF Checked, Busy, Quiet, Checking
<1>3. ASSUME note_failure(q.name, c, clock), EndsWithRow(r),
             guesses' = OneMoreTime(guesses, c)
      PROVE  GuessInv'
  <2>1. \A a : Checking(a)' \subseteq Checking(a) \ {r}
    BY <1>3, ChecksNothing DEF EndsWithRow
  <2> QED
    BY <1>2, <1>3, <2>1, WrongAnswer
<1>4. CASE Forgiven(c) /\ EndsWithRow(r)
  <2>1. \A a : Checking(a)' \subseteq Checking(a)
    BY <1>4, ChecksNothing DEF EndsWithRow
  <2> QED
    BY <1>2, <1>4, <2>1, RightAnswer
<1>5. CASE Forgiven(c) /\ Through(r, q, q.name, "basic", q.password)
  BY <1>1, <1>2, <1>5, ThroughGuess
<1>6. \/ /\ note_failure(q.name, c, clock) /\ EndsWithRow(r)
         /\ guesses' = OneMoreTime(guesses, c)
      \/ Forgiven(c) /\ EndsWithRow(r)
      \/ Forgiven(c) /\ Through(r, q, q.name, "basic", q.password)
  BY <1>1 DEF Checked
<1> QED
  BY <1>3, <1>4, <1>5, <1>6

\* What neither a request nor an answer does leaves what is counted alone.
LEMMA NobodyAsked ==
  ASSUME GuessInv, UNCHANGED <<reqs, guesses, failures>>, clock' \in {clock, clock + 1}
  PROVE  GuessInv'
<1>1. \A a : Checking(a)' = Checking(a)
  BY DEF Checking
<1>2. clock' \in Nat /\ clock <= clock'
  BY DEF GuessInv
<1> QED
  BY <1>1, <1>2, ChecksEnd

LEMMA GuessStep == SessionInv /\ GuessInv /\ [Next]_vars => GuessInv'
<1> SUFFICES ASSUME SessionInv, GuessInv, [Next]_vars PROVE GuessInv'
  OBVIOUS
<1>1. CASE vars' = vars
  BY <1>1, NobodyAsked DEF vars, gatewayVars
<1>2. CASE Requests
  <2>1. PICK r \in Reqs : \/ Lists(r) \/ Count(r) \/ Body(r) \/ Countries(r) \/ Rules(r) \/ Forward(r)
                          \/ Answer(r) \/ Checked(r)
    BY <1>2 DEF Requests, Hurried
  <2> QED
    BY <2>1, OthersGuess, AnswerGuess, CheckedGuess
<1>3. CASE Connections
  BY <1>3, NobodyAsked
     DEF Connections, Accept, FirstBytes, OpenedAsHttp2, NothingSent, Ended, Close, gatewayVars
<1>4. CASE Visits
  <2>1. PICK v \in Here.visits : TurnedAway(v) \/ \E r \in Reqs : Take(r, v)
    BY <1>4 DEF Visits
  <2>2. CASE TurnedAway(v)
    BY <2>2, NobodyAsked DEF TurnedAway, gatewayVars, Quiet
  <2>3. ASSUME NEW r \in Reqs, Take(r, v) PROVE GuessInv'
    <3>1. PICK client, https, c, site :
             Moves(r, [at |-> "lists", visit |-> v, cookie |-> c, client |-> client,
                       https |-> https, site |-> site])
      BY <2>3 DEF Take
    <3>2. PICK x : x = [at |-> "lists", visit |-> v, cookie |-> c, client |-> client,
                        https |-> https, site |-> site]
      OBVIOUS
    <3>3. reqs' = [reqs EXCEPT ![r] = x] /\ x.at = "lists"
      BY <3>1, <3>2 DEF Moves
    <3>4. \A a : Checking(a)' \subseteq Checking(a)
      BY <3>3, OneChecked
    <3>5. UNCHANGED <<guesses, failures, clock>>
      BY <2>3 DEF Take, Quiet, gatewayVars
    <3>6. clock' \in Nat /\ clock <= clock'
      BY <3>5 DEF GuessInv
    <3> QED
      BY <3>4, <3>5, <3>6, ChecksEnd
  <2> QED
    BY <2>1, <2>2, <2>3
<1>5. CASE TakeBatch \/ InsertRows \/ Save \/ Tick
  BY <1>5, NobodyAsked DEF TakeBatch, InsertRows, Save, Tick, gatewayVars
<1>6. CASE AdminPages
  <2>1. UNCHANGED failures
    BY <1>6 DEF AdminPages, RealmUpdate, RealmSignOut, AccountAdd, AccountPassword, AccountDelete,
                ToggleRead, ToggleWrite, Stored
  <2> QED
    BY <1>6, <2>1, NobodyAsked DEF AdminPages, Around
<1> QED
  BY <1>1, <1>2, <1>3, <1>4, <1>5, <1>6 DEF Next, Others

\* Passwords are checked no faster than the throttle allows (gateway.rs:745): within
\* a window an address gets MaxFailures wrong answers and one for each other request
\* whose check was under way before they were counted, however many requests there
\* are, and the times the counter keeps are enough to know it.
THEOREM GuessesAreBounded == Spec => []GuessesBounded
<1>1. Init => GuessInv
  BY DEF Init, GatewayInit, GuessInv
<1>2. GuessInv => GuessesBounded
  <2> SUFFICES ASSUME GuessInv, NEW a \in DOMAIN guesses
               PROVE  Cardinality(InWindow(guesses[a], clock)) <= MaxFailures + Cardinality(Reqs) - 1
    BY DEF GuessesBounded
  <2>1. Room(failures.addresses[a], guesses[a], clock, Checking(a))
    BY DEF GuessInv
  <2>2. /\ Cardinality(InWindow(guesses[a], clock)) \in Nat
        /\ Cardinality(InWindow(guesses[a], clock)) + Cardinality(Checking(a))
             <= MaxFailures + Cardinality(Reqs) - 1
    BY <2>1, WindowFinite DEF Room, Follows
  <2> QED
    BY <2>2, CheckingFew, Limits
<1> QED
  BY <1>1, <1>2, SessionInit, SessionStep, GuessStep, PTL DEF Spec

-----------------------------------------------------------------------------
(* The limit.                                                                 *)

\* The requests counted from a moment on.
Since(times, from) == {i \in DOMAIN times : times[i] >= from}
After(times, x) == {i \in DOMAIN times : times[i] > x}
Whole(limit) == limit # Nobody => limit.window \in Nat \ {0} /\ limit.requests \in Nat

\* What a tally counts was counted since its window began, or the one before it.
TallyOK(t, times, now) ==
    /\ t \in [window : Nat \ {0}, slot : Nat, current : Nat, previous : Nat, last : Nat]
    /\ t.slot * t.window <= now
    /\ t.current <= Cardinality(Since(times, t.slot * t.window))
    /\ t.previous + t.current <= Cardinality(Since(times, t.slot * t.window - t.window))

\* A request waits to be counted with a reading that is of now, or older.
LimitOK(q, now) ==
    /\ Whole(q.site.limit)
    /\ q.at = "count" => /\ q.site.limit # Nobody /\ "reading" \in DOMAIN q
                         /\ q.reading \in Nat /\ q.reading <= now

CountInv ==
    /\ clock \in Nat /\ Whole(conf.limit) /\ OverIsEarned
    /\ \A u \in DOMAIN counted : counted[u] \in Seq(Nat)
    /\ \A u \in DOMAIN tallies : u \in DOMAIN counted /\ TallyOK(tallies[u], counted[u], clock)
    /\ \A r \in Busy : LimitOK(reqs[r], clock)

\* The window a reading is in.
LEMMA Slots ==
  ASSUME NEW now \in Nat, NEW w \in Nat \ {0}
  PROVE  /\ now \div w \in Nat /\ (now \div w) * w <= now
         /\ now < (now \div w) * w + w
         /\ now % w \in 0 .. w - 1
OBVIOUS

\* Windows follow one another.
LEMMA LaterSlot ==
  ASSUME NEW w \in Nat \ {0}, NEW s \in Nat, NEW z \in Nat
  PROVE  /\ s * w \in Nat /\ (s + 1) * w - w = s * w
         /\ s <= z => s * w <= z * w
OBVIOUS

\* An estimate over the limit is of more requests than the limit.
LEMMA MoreThanTheLimit ==
  ASSUME NEW p \in Nat, NEW c \in Nat, NEW l \in Nat, NEW w \in Nat \ {0}, NEW i \in 0 .. w - 1,
         p * (w - i) + c * w > l * w
  PROVE  p + c > l
<1>1. p * (w - i) <= p * w
  OBVIOUS
<1>2. (p + c) * w = p * w + c * w
  OBVIOUS
<1>3. PICK x \in Nat, y \in Nat, v \in Nat : x = (p + c) * w /\ y = l * w /\ v = p * (w - i) + c * w
  OBVIOUS
<1>4. x > y
  BY <1>1, <1>2, <1>3
<1>5. p + c <= l => (p + c) * w <= l * w
  OBVIOUS
<1> QED
  BY <1>3, <1>4, <1>5

\* Of the times, those since a moment are finitely many; the longer ago, the more.
LEMMA SinceFinite ==
  ASSUME NEW s \in Seq(Nat), NEW x
  PROVE  IsFiniteSet(Since(s, x)) /\ Cardinality(Since(s, x)) \in Nat
<1>1. IsFiniteSet(1 .. Len(s)) /\ Since(s, x) \in SUBSET (1 .. Len(s))
  BY FS_Interval DEF Since
<1> QED
  BY <1>1, FS_Subset, FS_CardinalityType

LEMMA SinceGrows ==
  ASSUME NEW s \in Seq(Nat), NEW t \in Nat, NEW x \in Int, x <= t
  PROVE  Cardinality(Since(Append(s, t), x)) = Cardinality(Since(s, x)) + 1
<1>1. PICK n \in Nat : n = Len(s) + 1
  OBVIOUS
<1>2. PICK all : all = Append(s, t)
  OBVIOUS
<1>3. DOMAIN all = 1 .. n /\ DOMAIN s = 1 .. n - 1 /\ all[n] = t /\ \A i \in 1 .. n - 1 : all[i] = s[i]
  BY <1>1, <1>2
<1>4. Since(all, x) = Since(s, x) \cup {n} /\ n \notin Since(s, x)
  <2>1. t >= x
    OBVIOUS
  <2>2. \A i : i \in Since(all, x) <=> i \in 1 .. n /\ all[i] >= x
    BY <1>3 DEF Since
  <2>3. \A i : i \in Since(s, x) <=> i \in 1 .. n - 1 /\ s[i] >= x
    BY <1>3 DEF Since
  <2>4. /\ n \in 1 .. n /\ n \notin 1 .. n - 1 /\ 1 .. n - 1 \subseteq 1 .. n
        /\ \A i \in 1 .. n : i = n \/ i \in 1 .. n - 1
    BY <1>1
  <2> QED
    BY <1>3, <2>1, <2>2, <2>3, <2>4
<1> QED
  BY <1>2, <1>4, SinceFinite, FS_AddElement

\* One more request counted, at a reading that may be older than the clock.
LEMMA RecordIsSound ==
  ASSUME NEW now \in Nat, NEW clk \in Nat, now <= clk, NEW w \in Nat \ {0},
         NEW times \in Seq(Nat), NEW old, old = Fresh \/ TallyOK(old, times, clk),
         NEW t, t = record(old, now, w)
  PROVE  TallyOK(t, Append(times, clk), clk) /\ t.window = w /\ now \div w <= t.slot
<1>1. PICK slot \in Nat : slot = now \div w /\ slot * w <= now
  BY Slots
<1>o. old \in [window : Nat, slot : Nat, current : Nat, previous : Nat, last : Nat]
  BY DEF Fresh, TallyOK
<1>2. PICK m : m = advance(old, now, w)
  OBVIOUS
<1>3. /\ m \in [window : {w}, slot : Nat, current : Nat, previous : Nat, last : Nat]
      /\ slot <= m.slot
      /\ \/ m.current = 0 /\ m.previous = 0 /\ m.slot = slot
         \/ /\ m.current = 0 /\ m.previous = old.current /\ m.slot = old.slot + 1
            /\ m.slot = slot /\ old.window = w
         \/ m.current = old.current /\ m.previous = old.previous /\ m.slot = old.slot /\ old.window = w
  <2>1. CASE old.window # w
    <3>1. m = [Fresh EXCEPT !.window = w, !.slot = slot]
      BY <1>1, <1>2, <2>1 DEF advance
    <3>2. m = [window |-> w, slot |-> slot, current |-> 0, previous |-> 0, last |-> 0]
      BY ONLY <3>1 DEF Fresh
    <3>3. m \in [window : {w}, slot : Nat, current : Nat, previous : Nat, last : Nat]
      BY ONLY <3>2, slot \in Nat
    <3>4. m.current = 0 /\ m.previous = 0 /\ m.slot = slot
      BY ONLY <3>2
    <3>5. slot <= m.slot
      BY ONLY <3>4, slot \in Nat
    <3> QED
      BY ONLY <3>3, <3>4, <3>5
  <2>2. CASE old.window = w /\ slot = old.slot + 1
    <3>1. m = [old EXCEPT !.previous = old.current, !.current = 0, !.slot = slot]
      BY <1>1, <1>2, <2>2 DEF advance
    <3>2. m \in [window : {w}, slot : Nat, current : Nat, previous : Nat, last : Nat]
      BY ONLY <1>o, <2>2, <3>1, slot \in Nat
    <3>3. m.current = 0 /\ m.previous = old.current /\ m.slot = slot
      BY ONLY <1>o, <3>1
    <3>4. slot <= m.slot /\ m.slot = old.slot + 1
      BY ONLY <2>2, <3>3, slot \in Nat
    <3> QED
      BY ONLY <2>2, <3>2, <3>3, <3>4
  <2>3. CASE old.window = w /\ slot > old.slot + 1
    <3>1. m = [old EXCEPT !.previous = 0, !.current = 0, !.slot = slot]
      BY <1>1, <1>2, <1>o, <2>3 DEF advance
    <3>2. m \in [window : {w}, slot : Nat, current : Nat, previous : Nat, last : Nat]
      BY ONLY <1>o, <2>3, <3>1, slot \in Nat
    <3>3. m.current = 0 /\ m.previous = 0 /\ m.slot = slot
      BY ONLY <1>o, <3>1
    <3>4. slot <= m.slot
      BY ONLY <3>3, slot \in Nat
    <3> QED
      BY ONLY <3>2, <3>3, <3>4
  <2>4. CASE old.window = w /\ slot <= old.slot
    <3>1. m = old
      BY <1>1, <1>2, <1>o, <2>4 DEF advance
    <3> QED
      BY <1>o, <2>4, <3>1
  <2> QED
    BY <1>1, <1>o, <2>1, <2>2, <2>3, <2>4
<1>4. t = [m EXCEPT !.current = @ + 1, !.last = now]
  BY <1>2 DEF record
<1>5. /\ t \in [window : {w}, slot : Nat, current : Nat, previous : Nat, last : Nat]
      /\ t.window = w /\ t.slot = m.slot /\ t.current = m.current + 1 /\ t.previous = m.previous
  <2>1. m \in [window : {w}, slot : Nat, current : Nat, previous : Nat, last : Nat]
    BY <1>3
  <2>2. t \in [window : {w}, slot : Nat, current : Nat, previous : Nat, last : Nat]
    <3>1. m.current + 1 \in Nat
      BY ONLY <2>1
    <3>2. t = [m EXCEPT !.current = m.current + 1, !.last = now]
      BY ONLY <1>4, <2>1
    <3>3. PICK n \in Nat : n = m.current + 1
      BY ONLY <3>1
    <3>4. t = [m EXCEPT !.current = n, !.last = now]
      BY ONLY <3>2, <3>3
    <3> QED
      BY ONLY <2>1, <3>4, now \in Nat
  <2>3. t.slot = m.slot /\ t.current = m.current + 1 /\ t.previous = m.previous
    BY ONLY <1>4, <2>1
  <2> QED
    BY ONLY <2>2, <2>3
<1>6. PICK a \in Nat : a = t.slot * w /\ a - w \in Int /\ a - w <= a
  BY <1>5, LaterSlot
<1>7. PICK here, before, all : /\ here = Cardinality(Since(times, a))
                               /\ before = Cardinality(Since(times, a - w))
                               /\ all = Append(times, clk)
  OBVIOUS
<1>8. here \in Nat /\ before \in Nat
  BY <1>7, SinceFinite
<1>9. /\ a <= clk /\ m.current <= here /\ m.previous + m.current <= before
  <2>1. CASE m.current = 0 /\ m.previous = 0 /\ m.slot = slot
    BY <1>1, <1>5, <1>6, <1>8, <2>1
  <2>2. CASE /\ m.current = 0 /\ m.previous = old.current /\ m.slot = old.slot + 1
             /\ m.slot = slot /\ old.window = w
    <3>1. old # Fresh
      BY <2>2 DEF Fresh
    <3>2. old.current <= Cardinality(Since(times, old.slot * w))
      BY <2>2, <3>1 DEF TallyOK
    <3>3. old.slot * w = a - w
      <4>1. PICK z \in Nat : z = old.slot /\ a = (z + 1) * w
        BY <1>5, <1>6, <1>o, <2>2
      <4> QED
        BY <4>1, LaterSlot
    <3>4. a <= clk
      <4>1. a = slot * w /\ slot * w <= now
        BY <1>1, <1>5, <1>6, <2>2
      <4>2. a <= now
        BY ONLY <4>1
      <4> QED
        BY ONLY <4>2, a \in Nat, now \in Nat, clk \in Nat, now <= clk
    <3> QED
      BY <1>7, <1>8, <1>o, <2>2, <3>2, <3>3, <3>4
  <2>3. CASE m.current = old.current /\ m.previous = old.previous /\ m.slot = old.slot /\ old.window = w
    <3>1. old # Fresh
      BY <2>3 DEF Fresh
    <3>2. /\ old.slot * w <= clk
          /\ old.current <= Cardinality(Since(times, old.slot * w))
          /\ old.previous + old.current <= Cardinality(Since(times, old.slot * w - w))
      BY <2>3, <3>1 DEF TallyOK
    <3>3. old.slot * w = a
      BY <1>5, <1>6, <2>3
    <3> QED
      BY <1>7, <2>3, <3>2, <3>3
  <2> QED
    BY <1>3, <2>1, <2>2, <2>3
<1>10. /\ Cardinality(Since(all, a)) = here + 1
       /\ Cardinality(Since(all, a - w)) = before + 1
  <2>1. a \in Int /\ a <= clk /\ a - w \in Int /\ a - w <= clk
    BY <1>6, <1>9
  <2> QED
    BY <1>7, <2>1, SinceGrows
<1>11. t.current <= here + 1 /\ t.previous + t.current <= before + 1
  BY <1>3, <1>5, <1>8, <1>9
<1>12. t \in [window : Nat \ {0}, slot : Nat, current : Nat, previous : Nat, last : Nat]
  BY <1>5
<1> QED
  BY <1>1, <1>3, <1>5, <1>6, <1>7, <1>9, <1>10, <1>11, <1>12 DEF TallyOK

\* What the tally estimates is over the limit only if so many were counted.
LEMMA EstimateIsEarned ==
  ASSUME NEW now \in Nat, NEW clk \in Nat, NEW w \in Nat \ {0}, NEW l \in Nat,
         NEW times \in Seq(Nat), NEW t, TallyOK(t, times, clk), t.window = w, now \div w <= t.slot,
         over(CountOf(t, now), l)
  PROVE  Cardinality(After(times, now - 2 * w)) > l
<1>1. PICK p \in Nat, c \in Nat, z \in Nat :
         p = t.previous /\ c = t.current /\ z = t.slot
  BY DEF TallyOK
<1>2. PICK i : i = now % w
  OBVIOUS
<1>3. i \in 0 .. w - 1
  BY <1>2, Slots
<1>4. p * (w - i) + c * w > l * w
  BY <1>1, <1>2 DEF over, CountOf, scaled
<1>5. p + c > l
  BY <1>3, <1>4, MoreThanTheLimit
<1>6. PICK a \in Nat : a = z * w
  BY LaterSlot
<1>7. now < a + w
  <2>1. PICK s \in Nat : s = now \div w /\ s <= z /\ now < s * w + w
    BY <1>1, Slots
  <2>2. PICK b \in Nat : b = s * w /\ b <= a
    BY <1>6, <2>1, LaterSlot
  <2> QED
    BY <2>1, <2>2
<1>8. PICK x \in Int, y \in Int : x = a - w /\ y = now - 2 * w /\ y < x
  BY <1>7
<1>9. PICK S, T : S = Since(times, x) /\ T = After(times, y)
  OBVIOUS
<1>10. \A j \in DOMAIN times : times[j] \in Nat
  OBVIOUS
<1>11. S \in SUBSET T
  BY <1>8, <1>9, <1>10 DEF Since, After
<1>12. IsFiniteSet(T)
  <2>1. IsFiniteSet(1 .. Len(times))
    BY FS_Interval
  <2>2. DOMAIN times = 1 .. Len(times)
    OBVIOUS
  <2>3. T \in SUBSET (1 .. Len(times))
    BY <1>9, <2>2 DEF After
  <2> QED
    BY <2>1, <2>3, FS_Subset
<1>13. Cardinality(S) <= Cardinality(T) /\ Cardinality(T) \in Nat /\ Cardinality(S) \in Nat
  BY <1>11, <1>12, FS_Subset, FS_CardinalityType
<1>14. p + c <= Cardinality(S)
  BY <1>1, <1>6, <1>8, <1>9 DEF TallyOK
<1>15. Cardinality(T) > l
  BY <1>5, <1>13, <1>14
<1> QED
  BY <1>8, <1>9, <1>15

\* Room is made by forgetting tallies, and changes none.
LEMMA RoomMade ==
  ASSUME NEW T, NEW now
  PROVE  /\ DOMAIN make_room(T, now) \subseteq DOMAIN T
         /\ \A u \in DOMAIN make_room(T, now) : make_room(T, now)[u] = T[u]
<1>1. PICK S : S \subseteq DOMAIN T /\ make_room(T, now) = Restrict(T, S)
  BY DEF make_room
<1> QED
  BY <1>1 DEF Restrict

\* A request is counted in the tally of its client, and no other tally changes.
LEMMA CountedAt ==
  ASSUME CountInv, NEW u, NEW w \in Nat \ {0}, NEW now \in Nat, now <= clock,
         NEW after, after = count_at(tallies, u, now, w), NEW times, times = OneMoreTime(counted, u)
  PROVE  /\ \A v \in DOMAIN times : times[v] \in Seq(Nat)
         /\ \A v \in DOMAIN after : v \in DOMAIN times /\ TallyOK(after[v], times[v], clock)
         /\ u \in DOMAIN after /\ after[u].window = w /\ now \div w <= after[u].slot
<1>1. PICK kept : /\ kept \in {make_room(tallies, now), tallies}
                  /\ after = [v \in DOMAIN kept \cup {u} |->
                                IF v = u THEN record(IF u \in DOMAIN kept THEN kept[u] ELSE Fresh, now, w)
                                ELSE kept[v]]
  BY DEF count_at
<1>2. DOMAIN kept \subseteq DOMAIN tallies /\ \A v \in DOMAIN kept : kept[v] = tallies[v]
  BY <1>1, RoomMade
<1>3. PICK old, seen : /\ old = IF u \in DOMAIN kept THEN kept[u] ELSE Fresh
                       /\ seen = Times(counted, u)
  OBVIOUS
<1>4. clock \in Nat /\ seen \in Seq(Nat) /\ (old = Fresh \/ TallyOK(old, seen, clock))
  BY <1>2, <1>3 DEF CountInv, Times
<1>5. PICK t, all : t = record(old, now, w) /\ all = Append(seen, clock)
  OBVIOUS
<1>6. TallyOK(t, all, clock) /\ t.window = w /\ now \div w <= t.slot
  <2>1. now \in Nat /\ now <= clock /\ w \in Nat \ {0}
    OBVIOUS
  <2> QED
    BY ONLY <1>4, <1>5, <2>1, RecordIsSound
<1>7. DOMAIN after = DOMAIN kept \cup {u} /\ after[u] = t /\ \A v \in DOMAIN kept : v # u => after[v] = kept[v]
  BY <1>1, <1>3, <1>5
<1>8. DOMAIN times = DOMAIN counted \cup {u} /\ times[u] = all
      /\ \A v \in DOMAIN counted : v # u => times[v] = counted[v]
  BY <1>3, <1>5 DEF OneMoreTime
<1>9. all \in Seq(Nat)
  BY ONLY <1>4, <1>5
<1>10. \A v \in DOMAIN times : times[v] \in Seq(Nat)
  BY <1>8, <1>9 DEF CountInv
<1>11. ASSUME NEW v \in DOMAIN after
       PROVE  v \in DOMAIN times /\ TallyOK(after[v], times[v], clock)
  <2>1. CASE v = u
    BY <1>6, <1>7, <1>8, <2>1
  <2>2. CASE v # u
    <3>1. v \in DOMAIN tallies /\ after[v] = tallies[v]
      BY <1>2, <1>7, <1>11, <2>2
    <3>2. v \in DOMAIN counted /\ TallyOK(tallies[v], counted[v], clock)
      BY <3>1 DEF CountInv
    <3> QED
      BY <1>8, <2>2, <3>1, <3>2
  <2> QED
    BY <2>1, <2>2
<1> QED
  BY <1>6, <1>7, <1>10, <1>11

\* What time passes changes nothing of.
LEMMA LimitsLater ==
  ASSUME NEW now \in Nat, NEW later \in Nat, now <= later
  PROVE  /\ \A q : LimitOK(q, now) => LimitOK(q, later)
         /\ \A t, times : TallyOK(t, times, now) => TallyOK(t, times, later)
<1>1. \A n \in Nat : n <= now => n <= later
  OBVIOUS
<1>2. \A q : LimitOK(q, now) => LimitOK(q, later)
  BY <1>1 DEF LimitOK
<1>3. ASSUME NEW t, NEW times, TallyOK(t, times, now)
      PROVE  TallyOK(t, times, later)
  <2>1. t.slot * t.window \in Nat
    BY <1>3, LaterSlot DEF TallyOK
  <2> QED
    BY <1>1, <1>3, <2>1 DEF TallyOK
<1> QED
  BY <1>2, <1>3

\* A request that ends, or goes on; it waits to be counted with the reading of now.
LEMMA LimitsMove ==
  ASSUME SessionInv, CountInv, NEW r \in Reqs,
         \/ Moves(r, Idle)
         \/ /\ r \in Busy
            /\ \E at, more : /\ GoesOn(r, reqs[r], at, more) /\ Further(more)
                             /\ at = "count" => /\ reqs[r].site.limit # Nobody
                                                /\ "reading" \in DOMAIN more /\ more.reading = clock
  PROVE  \A p \in Busy' : LimitOK(reqs'[p], clock)
<1>1. PICK x : /\ reqs' = [reqs EXCEPT ![r] = x]
               /\ x.at # "idle" => LimitOK(x, clock)
  <2>1. CASE Moves(r, Idle)
    <3>1. PICK x : x = Idle /\ reqs' = [reqs EXCEPT ![r] = x]
      BY <2>1 DEF Moves
    <3>2. x.at = "idle"
      BY <3>1 DEF Idle
    <3> QED
      BY <3>1, <3>2
  <2>2. ASSUME r \in Busy, NEW at, NEW more, GoesOn(r, reqs[r], at, more), Further(more),
               at = "count" => /\ reqs[r].site.limit # Nobody
                               /\ "reading" \in DOMAIN more /\ more.reading = clock
        PROVE  \E x : reqs' = [reqs EXCEPT ![r] = x] /\ (x.at # "idle" => LimitOK(x, clock))
    <3>1. PICK q, x : q = reqs[r] /\ x = Onward(q, more, at)
      OBVIOUS
    <3>2. reqs' = [reqs EXCEPT ![r] = x]
      BY <2>2, <3>1 DEF GoesOn, Moves, Onward
    <3>3. HasCome(q) /\ LimitOK(q, clock) /\ clock \in Nat
      BY <2>2, <3>1 DEF SessionInv, RequestOK, CameOK, HasCome, CountInv
    <3>4. x.at = at /\ x.site = q.site
      BY ONLY <2>2, <3>1, <3>3, GoneOn
    <3>5. at = "count" => "reading" \in DOMAIN x /\ x["reading"] = clock
      <4>1. Further(more) /\ DOMAIN x = DOMAIN q \cup DOMAIN more
        BY <2>2, <3>1, OnwardDomain
      <4>2. "reading" \in DOMAIN more => x["reading"] = more["reading"]
        BY ONLY <3>1, <4>1, Knows
      <4> QED
        BY <2>2, <4>1, <4>2
    <3>6. LimitOK(x, clock)
      BY <2>2, <3>1, <3>3, <3>4, <3>5 DEF LimitOK
    <3> QED
      BY <3>2, <3>6
  <2> QED
    BY <2>1, <2>2
<1>2. reqs = [p \in Reqs |-> reqs[p]]
  BY DEF SessionInv
<1>3. reqs'[r] = x /\ \A p \in Reqs : p # r => reqs'[p] = reqs[p]
  BY <1>1, <1>2
<1> QED
  BY <1>1, <1>3 DEF Busy, CountInv

\* A step that counts nothing.
LEMMA NothingCounted ==
  ASSUME CountInv, UNCHANGED limits, clock' \in Nat, clock <= clock', Whole(conf.limit)',
         \A p \in Busy' : LimitOK(reqs'[p], clock')
  PROVE  CountInv'
<1>1. clock \in Nat /\ UNCHANGED <<tallies, counted, last>>
  BY DEF CountInv, limits
<1>2. OverIsEarned'
  BY <1>1 DEF CountInv, OverIsEarned
<1>3. \A u \in DOMAIN tallies : u \in DOMAIN counted /\ TallyOK(tallies[u], counted[u], clock')
  BY <1>1, LimitsLater DEF CountInv
<1> QED
  BY <1>1, <1>2, <1>3 DEF CountInv

\* A request is counted, and what is reckoned of it is so.
LEMMA CountLimits ==
  ASSUME SessionInv, CountInv, NEW r \in Reqs, Count(r)
  PROVE  CountInv'
<1>1. PICK q, u : q = reqs[r] /\ u = q.client
  OBVIOUS
<1>2. r \in Busy /\ q.at = "count"
  BY <1>1 DEF Count, Busy
<1>3. clock \in Nat /\ UNCHANGED <<clock, conf>> /\ LimitOK(q, clock)
  BY <1>1, <1>2 DEF CountInv, Count, Quiet
<1>4. PICK now, limit, w, l : now = q.reading /\ limit = q.site.limit /\ w = limit.window /\ l = limit.requests
  OBVIOUS
<1>5. now \in Nat /\ now <= clock /\ w \in Nat \ {0} /\ l \in Nat
  BY <1>2, <1>3, <1>4 DEF LimitOK, Whole
<1>6. PICK after, count : after = count_at(tallies, u, now, w) /\ count = CountOf(after[u], now)
  OBVIOUS
<1>7. /\ tallies' = after /\ counted' = OneMoreTime(counted, u) /\ Reckon(u, q, count)
      /\ \/ EndsWithRow(r)
         \/ GoesOn(r, q, "body", [count |-> count])
  BY <1>1, <1>4, <1>6 DEF Count
<1>8. PICK times : times = OneMoreTime(counted, u)
  OBVIOUS
<1>9. /\ \A v \in DOMAIN times : times[v] \in Seq(Nat)
      /\ \A v \in DOMAIN after : v \in DOMAIN times /\ TallyOK(after[v], times[v], clock)
      /\ u \in DOMAIN after /\ after[u].window = w /\ now \div w <= after[u].slot
  <2>1. /\ CountInv
        /\ w \in Nat \ {0} /\ now \in Nat /\ now <= clock
        /\ after = count_at(tallies, u, now, w) /\ times = OneMoreTime(counted, u)
    BY <1>5, <1>6, <1>8
  <2> QED
    BY ONLY <2>1, CountedAt
<1>10. OverIsEarned'
  <2>1. PICK seen : seen = times[u]
    OBVIOUS
  <2>2. /\ last'.over = over(count, l) /\ last'.limit = l
        /\ last'.earned = Cardinality(After(seen, now - 2 * w))
    BY <1>4, <1>7, <1>8, <2>1 DEF Reckon, After
  <2>3. PICK t : t = after[u]
    OBVIOUS
  <2>4. /\ now \in Nat /\ clock \in Nat /\ w \in Nat \ {0} /\ l \in Nat
        /\ seen \in Seq(Nat) /\ TallyOK(t, seen, clock) /\ t.window = w /\ now \div w <= t.slot
        /\ count = CountOf(t, now)
    BY <1>3, <1>5, <1>6, <1>9, <2>1, <2>3
  <2>5. ASSUME over(CountOf(t, now), l) PROVE Cardinality(After(seen, now - 2 * w)) > l
    BY ONLY <2>4, <2>5, EstimateIsEarned
  <2> QED
    BY <2>2, <2>4, <2>5 DEF OverIsEarned
<1>11. \A p \in Busy' : LimitOK(reqs'[p], clock)
  <2>1. \/ Moves(r, Idle)
        \/ /\ r \in Busy
           /\ \E at, more : /\ GoesOn(r, reqs[r], at, more) /\ Further(more)
                            /\ at = "count" => /\ reqs[r].site.limit # Nobody
                                               /\ "reading" \in DOMAIN more /\ more.reading = clock
    <3>1. PICK at, more : at = "body" /\ more = [count |-> count]
      OBVIOUS
    <3>2. DOMAIN more = {"count"} /\ at # "count"
      BY <3>1
    <3>3. Further(more)
      BY <3>2 DEF Further, Came
    <3> QED
      BY <1>1, <1>2, <1>7, <3>1, <3>2, <3>3 DEF EndsWithRow
  <2> QED
    BY <2>1, LimitsMove
<1> QED
  BY <1>3, <1>7, <1>8, <1>9, <1>10, <1>11 DEF CountInv

\* A request that has its verdict, or its password checked, ends or goes on to one
\* of the two steps that are left.
LEMMA Answered ==
  ASSUME NEW r \in Reqs, Answer(r) \/ Checked(r)
  PROVE  \/ Moves(r, Idle)
         \/ \E at, more : /\ GoesOn(r, reqs[r], at, more) /\ Further(more)
                          /\ at \in {"checking", "forward"}
<1>1. ASSUME NEW name, NEW by, NEW proved, Through(r, reqs[r], name, by, proved)
      PROVE  \E at, more : GoesOn(r, reqs[r], at, more) /\ Further(more) /\ at \in {"checking", "forward"}
  <2>1. PICK more : more = [named |-> name, by |-> by, proved |-> proved]
    OBVIOUS
  <2>2. DOMAIN more = {"named", "by", "proved"}
    BY <2>1
  <2>3. Further(more)
    BY <2>2 DEF Further, Came
  <2> QED
    BY <1>1, <2>1, <2>3 DEF Through
<1>2. ASSUME NEW name, NEW password, NEW by, Asks(r, reqs[r], name, password, by)
      PROVE  \E at, more : GoesOn(r, reqs[r], at, more) /\ Further(more) /\ at \in {"checking", "forward"}
  <2>1. PICK more : more = [name |-> name, password |-> password, by |-> by, asked |-> clock]
    OBVIOUS
  <2>2. DOMAIN more = {"name", "password", "by", "asked"}
    BY <2>1
  <2>3. Further(more)
    BY <2>2 DEF Further, Came
  <2> QED
    BY <1>2, <2>1, <2>3 DEF Asks
<1>3. CASE Answer(r)
  <2>1. \/ Moves(r, Idle)
        \/ \E name, by, proved : Through(r, reqs[r], name, by, proved)
        \/ Gate(r, reqs[r])
    BY <1>3 DEF Answer, EndsWithRow
  <2>2. CASE Gate(r, reqs[r])
    <3>1. \/ Moves(r, Idle)
          \/ \E name, by, proved : Through(r, reqs[r], name, by, proved)
          \/ SignIn(r, reqs[r]) \/ Basic(r, reqs[r])
      BY <2>2 DEF Gate, EndsWithRow
    <3>2. CASE SignIn(r, reqs[r]) \/ Basic(r, reqs[r])
      <4>1. \/ Moves(r, Idle)
            \/ \E name, by, proved : Through(r, reqs[r], name, by, proved)
            \/ \E name, password, by : Asks(r, reqs[r], name, password, by)
        BY <3>2 DEF SignIn, Basic, EndsWithRow
      <4> QED
        BY <1>1, <1>2, <4>1
    <3> QED
      BY <1>1, <3>1, <3>2
  <2> QED
    BY <1>1, <2>1, <2>2
<1>4. CASE Checked(r)
  <2>1. \/ Moves(r, Idle)
        \/ \E name, by, proved : Through(r, reqs[r], name, by, proved)
    BY <1>4 DEF Checked, EndsWithRow
  <2> QED
    BY <1>1, <2>1
<1> QED
  BY <1>3, <1>4

\* The steps of a request that count nothing: one waits to be counted only where a
\* limit is, with the reading just made.
LEMMA RequestLimits ==
  ASSUME SessionInv, CountInv, NEW r \in Reqs,
         \/ Lists(r) \/ Body(r) \/ Countries(r) \/ Rules(r)
         \/ Answer(r) \/ Checked(r) \/ Forward(r)
  PROVE  CountInv'
<1>1. clock \in Nat /\ UNCHANGED <<limits, clock, conf>> /\ Whole(conf.limit)
  BY DEF Lists, Body, Countries, Rules, Answer, Checked, Forward, Quiet, CountInv
<1>2. r \in Busy
  BY DEF Lists, Body, Countries, Rules, Answer, Checked, Forward, Busy
<1>3. \/ Moves(r, Idle)
      \/ \E at, more : /\ GoesOn(r, reqs[r], at, more) /\ Further(more)
                       /\ at = "count" => /\ reqs[r].site.limit # Nobody
                                          /\ "reading" \in DOMAIN more /\ more.reading = clock
  <2>1. CASE Lists(r)
    <3>1. PICK q, at, listed, watched, policy :
             /\ q = reqs[r]
             /\ \/ EndsWithRow(r)
                \/ /\ GoesOn(r, q, at, [listed |-> listed, watched |-> watched, reading |-> clock,
                                        count |-> Nobody, policy |-> policy])
                   /\ at = "count" => q.site.limit # Nobody
      <4>1. PICK apart, listed, watched, policy :
               \/ EndsWithRow(r)
               \/ GoesOn(r, reqs[r], IF apart \/ reqs[r].site.limit = Nobody THEN "body" ELSE "count",
                         [listed |-> listed, watched |-> watched, reading |-> clock,
                          count |-> Nobody, policy |-> policy])
        BY <2>1 DEF Lists
      <4>2. PICK q, at : /\ q = reqs[r]
                         /\ at = IF apart \/ reqs[r].site.limit = Nobody THEN "body" ELSE "count"
        OBVIOUS
      <4>3. \/ EndsWithRow(r)
            \/ GoesOn(r, q, at, [listed |-> listed, watched |-> watched, reading |-> clock,
                                 count |-> Nobody, policy |-> policy])
        BY ONLY <4>1, <4>2
      <4>4. at = "count" => q.site.limit # Nobody
        BY ONLY <4>2
      <4> QED
        BY ONLY <4>2, <4>3, <4>4
    <3>m. Moves(r, Idle) \/ ~EndsWithRow(r)
      BY DEF EndsWithRow
    <3>2. PICK more : more = [listed |-> listed, watched |-> watched, reading |-> clock,
                              count |-> Nobody, policy |-> policy]
      OBVIOUS
    <3>3. DOMAIN more = {"listed", "watched", "reading", "count", "policy"} /\ more.reading = clock
      BY <3>2
    <3>4. Further(more)
      BY <3>3 DEF Further, Came
    <3> QED
      BY <3>1, <3>m, <3>2, <3>3, <3>4
  <2>2. CASE Body(r)
    <3>1. PICK session, cleared :
             \/ Moves(r, Idle)
             \/ GoesOn(r, reqs[r], "countries",
                       [session |-> session, cleared |-> cleared, moment |-> clock])
      BY <2>2 DEF Body, EndsWithRow, EndsUnrecorded
    <3>2. PICK more : more = [session |-> session, cleared |-> cleared, moment |-> clock]
      OBVIOUS
    <3>3. DOMAIN more = {"session", "cleared", "moment"}
      BY <3>2
    <3>4. Further(more)
      BY <3>3 DEF Further, Came
    <3> QED
      BY <3>1, <3>2, <3>4
  <2>3. CASE Countries(r) \/ Rules(r)
    <3>1. PICK at, more : /\ at \in {"rules", "judged"} /\ GoesOn(r, reqs[r], at, more)
                          /\ DOMAIN more \in {{"geo", "one"}, {"verdict", "one"}}
      BY <2>3 DEF Countries, Rules
    <3>2. Further(more) /\ at # "count"
      BY <3>1 DEF Further, Came
    <3> QED
      BY <3>1, <3>2
  <2>4. CASE Forward(r)
    BY <2>4 DEF Forward, EndsWithRow
  <2>5. CASE Answer(r) \/ Checked(r)
    BY <2>5, Answered
  <2> QED
    BY <2>1, <2>2, <2>3, <2>4, <2>5
<1>4. \A p \in Busy' : LimitOK(reqs'[p], clock)
  BY <1>2, <1>3, LimitsMove
<1>5. clock' \in Nat /\ clock <= clock' /\ Whole(conf.limit)' /\ \A p \in Busy' : LimitOK(reqs'[p], clock')
  BY <1>1, <1>4
<1> QED
  BY <1>1, <1>5, NothingCounted

\* A request comes with the limit its site has.
LEMMA TakeLimits ==
  ASSUME SessionInv, CountInv, NEW r \in Reqs, NEW v, Take(r, v)
  PROVE  CountInv'
<1>1. PICK c, client, https, mode, smart, auth :
         Moves(r, [at |-> "lists", visit |-> v, cookie |-> c, client |-> client, https |-> https,
                   site |-> [mode |-> mode, smart |-> smart, limit |-> conf.limit, auth |-> auth,
                             realm |-> realm]])
  BY DEF Take
<1>2. PICK x : x = [at |-> "lists", visit |-> v, cookie |-> c, client |-> client, https |-> https,
                   site |-> [mode |-> mode, smart |-> smart, limit |-> conf.limit, auth |-> auth,
                             realm |-> realm]]
  OBVIOUS
<1>3. reqs' = [reqs EXCEPT ![r] = x] /\ x.at = "lists" /\ x.site.limit = conf.limit
  BY <1>1, <1>2 DEF Moves
<1>4. clock \in Nat /\ UNCHANGED <<limits, clock, conf>> /\ Whole(conf.limit)
  BY DEF Take, Quiet, CountInv
<1>5. reqs = [p \in Reqs |-> reqs[p]]
  BY DEF SessionInv
<1>6. LimitOK(x, clock)
  BY <1>3, <1>4 DEF LimitOK
<1>7. \A p \in Busy' : LimitOK(reqs'[p], clock)
  BY <1>3, <1>5, <1>6 DEF Busy, CountInv
<1>8. clock' \in Nat /\ clock <= clock' /\ Whole(conf.limit)' /\ \A p \in Busy' : LimitOK(reqs'[p], clock')
  BY <1>4, <1>7
<1> QED
  BY <1>4, <1>8, NothingCounted

\* What is saved is a limit that may be.
LEMMA SavedWhole ==
  ASSUME SessionInv, Save
  PROVE  Whole(conf.limit)'
<1>1. conf' \in Here.saves /\ scene \in DOMAIN Scenes
  BY DEF Save, SessionInv
<1> QED
  BY <1>1, ScenesAssumption DEF Here, Whole

\* What no request does leaves what is counted alone.
LEMMA LimitsAlone ==
  ASSUME CountInv, UNCHANGED <<reqs, limits>>, clock' \in {clock, clock + 1}, Whole(conf.limit)'
  PROVE  CountInv'
<1>1. clock \in Nat /\ clock' \in Nat /\ clock <= clock'
  BY DEF CountInv
<1>2. \A p \in Busy' : LimitOK(reqs'[p], clock')
  BY <1>1, LimitsLater DEF Busy, CountInv
<1> QED
  BY <1>1, <1>2, NothingCounted

LEMMA CountStep == SessionInv /\ CountInv /\ [Next]_vars => CountInv'
<1> SUFFICES ASSUME SessionInv, CountInv, [Next]_vars PROVE CountInv'
  OBVIOUS
<1>c. Whole(conf.limit)
  BY DEF CountInv
<1>1. CASE vars' = vars
  BY <1>c, <1>1, LimitsAlone DEF vars
<1>2. CASE Requests
  <2>1. PICK r \in Reqs : \/ Lists(r) \/ Body(r) \/ Countries(r) \/ Rules(r) \/ Forward(r)
                          \/ Answer(r) \/ Checked(r) \/ Count(r)
    BY <1>2 DEF Requests, Hurried
  <2> QED
    BY <2>1, CountLimits, RequestLimits
<1>3. CASE Connections
  BY <1>c, <1>3, LimitsAlone
     DEF Connections, Accept, FirstBytes, OpenedAsHttp2, NothingSent, Ended, Close
<1>4. CASE Visits
  <2>1. PICK v \in Here.visits : TurnedAway(v) \/ \E r \in Reqs : Take(r, v)
    BY <1>4 DEF Visits
  <2>2. CASE TurnedAway(v)
    BY <1>c, <2>2, LimitsAlone DEF TurnedAway, Quiet
  <2> QED
    BY <2>1, <2>2, TakeLimits
<1>5. CASE TakeBatch \/ InsertRows \/ Tick
  BY <1>c, <1>5, LimitsAlone DEF TakeBatch, InsertRows, Tick
<1>6. CASE Save
  <2>1. UNCHANGED <<reqs, limits, clock>>
    BY <1>6 DEF Save
  <2> QED
    BY <1>6, <2>1, SavedWhole, LimitsAlone
<1>7. CASE AdminPages
  BY <1>c, <1>7, LimitsAlone DEF AdminPages, Around
<1> QED
  BY <1>1, <1>2, <1>3, <1>4, <1>5, <1>6, <1>7 DEF Next, Others

\* Nobody is refused for requests that were not sent (rate_limit.rs:11): whatever
\* the estimate makes of the window before, whenever a clock was read and however
\* long after it the count was, and however often room was made in the shard, a
\* client over its limit sent more within the last two windows than the limit allows.
THEOREM OverOnlyIfSent == Spec => []OverIsEarned
<1>1. Init => CountInv
  <2> SUFFICES ASSUME Init PROVE CountInv
    OBVIOUS
  <2>1. /\ clock = 0 /\ tallies = <<>> /\ counted = <<>> /\ reqs = [r \in Reqs |-> Idle]
        /\ ~last.over /\ conf \in Here.confs /\ scene \in DOMAIN Scenes
    BY DEF Init
  <2>2. Whole(conf.limit)
    BY <2>1, ScenesAssumption DEF Here, Whole
  <2>3. Busy = {}
    BY <2>1 DEF Busy, Idle
  <2> QED
    BY <2>1, <2>2, <2>3 DEF CountInv, OverIsEarned
<1>2. CountInv => OverIsEarned
  BY DEF CountInv
<1> QED
  BY <1>1, <1>2, SessionInit, SessionStep, CountStep, PTL DEF Spec

-----------------------------------------------------------------------------
(* Trials.                                                                    *)

\* What the code reads of a policy's row, and the words a finding is told in.
Columns == {"mode", "geo", "rules", "exclusions", "threshold", "challenge_threshold"}
Words == {Nobody, "Observed", "WouldChallenge", "WouldBlock"}

\* The verdict of the policy a request noted when it looked at the lists.
ByCountry(q) == geo_inspect(q.policy.mode, q.policy.geo, q.visit.country)
ByPolicy(q) ==
    judge(q.site, q.visit, q.listed, q.watched, q.count, q.cleared, ByCountry(q),
          waf_inspect(q.policy, Knowing(q.visit, [client |-> q.client])))

Looked(q) == q.at \in {"count", "body", "countries", "rules", "judged"}

\* What a request knows at each step: whom it looked up, and, where its reads fell
\* on one policy, that policy's verdict.  An allowed address is never blocked.
TrialOK(q) ==
    /\ {"mode", "limit"} \subseteq DOMAIN q.site
    /\ Looked(q) =>
          /\ {"listed", "watched", "count", "policy"} \subseteq DOMAIN q
          /\ Columns \subseteq DOMAIN q.policy
          /\ q.listed = "Allowed" => ~q.watched
    /\ q.at \in {"countries", "rules", "judged"} => "cleared" \in DOMAIN q
    /\ q.at = "rules" =>
          /\ {"geo", "one"} \subseteq DOMAIN q
          /\ q.one => q.policy.mode = q.site.mode /\ q.geo = ByCountry(q)
    /\ q.at = "judged" =>
          /\ {"verdict", "one"} \subseteq DOMAIN q
          /\ q.one => q.policy.mode = q.site.mode /\ q.verdict = ByPolicy(q)

TrialInv ==
    /\ Columns \subseteq DOMAIN conf.policy
    /\ \A r \in Busy : TrialOK(reqs[r])

LEMMA WordsDiffer ==
  /\ Nobody \notin {"On", "Off", "DetectionOnly", "Observed", "WouldChallenge", "WouldBlock", "Allowed",
                    "Blocked", "PublishedBlock", "PublishedChallenge", "Refuse", "Challenge"}
  /\ Rank(Nobody) = 0 /\ Rank("Observed") = 1 /\ Rank("WouldChallenge") = 2 /\ Rank("WouldBlock") = 3
BY VerdictsAssumption DEF Rank

\* The stronger of two findings is one of them, and none is stronger than itself.
LEMMA Stronger ==
  ASSUME NEW a \in Words, NEW b \in Words
  PROVE  /\ stronger(a, b) \in {a, b} /\ stronger(Nobody, b) = b /\ stronger(a, Nobody) = a
         /\ stronger("WouldBlock", b) = "WouldBlock" /\ stronger(a, "WouldBlock") = "WouldBlock"
BY WordsDiffer DEF stronger, Words

\* A rule's decision: what is enforced of it, or only said.
LEMMA Decided ==
  ASSUME NEW level, NEW f, "detection" \in DOMAIN f
  PROVE  /\ decide("DetectionOnly", level, f).is = "Alert"
         /\ decide("DetectionOnly", level, f).findings.detection
              = IF level = "Block" THEN "WouldBlock" ELSE "WouldChallenge"
         /\ decide("On", level, f).is = IF level = "Block" THEN "Drop" ELSE "Challenge"
BY DEF decide

LEMMA HasDetection ==
  ASSUME NEW runs, NEW score
  PROVE  /\ "detection" \in DOMAIN Found(runs, score)
         /\ [Found(runs, score) EXCEPT !.detection = "Observed"].detection = "Observed"
BY DEF Found, Clear

\* Two verdicts of one policy on one request, watching and enforcing: what one says
\* would be done is what the other does.
Agree(watches, enforces) ==
    /\ watches.is \in {"Pass", "Alert"} /\ watches.findings.detection \in Words
    /\ \/ enforces.is = "Drop" /\ watches.findings.detection = "WouldBlock"
       \/ enforces.is = "Challenge" /\ watches.findings.detection = "WouldChallenge"
       \/ /\ enforces.is \in {"Pass", "Alert"}
          /\ watches.findings.detection \in {Nobody, "Observed"}

LEMMA RulesAgree ==
  ASSUME NEW p, NEW o, NEW v, p.mode = "DetectionOnly", o.mode = "On", o.rules = p.rules,
         o.exclusions = p.exclusions, o.threshold = p.threshold,
         o.challenge_threshold = p.challenge_threshold
  PROVE  Agree(waf_inspect(p, v), waf_inspect(o, v))
<1>1. PICK runs : runs = Running(p.rules, p.exclusions, v)
  OBVIOUS
<1>2. PICK total : total = Sum(Those(runs, "score"))
  OBVIOUS
<1>3. PICK f, g, h : /\ f = Found(UpToTheFirst(runs), p.threshold) /\ g = Found(runs, total)
                     /\ h = [is |-> "Alert", findings |-> [Found(runs, total) EXCEPT !.detection = "Observed"]]
  OBVIOUS
<1>4. /\ "detection" \in DOMAIN f /\ "detection" \in DOMAIN g
      /\ h.is = "Alert" /\ h.findings.detection = "Observed"
  BY <1>3, HasDetection
<1>5. Agree(Pass, Pass) /\ Agree(h, h)
  BY <1>4 DEF Agree, Pass, Clear, Words
<1>6. /\ Agree(decide("DetectionOnly", "Block", f), decide("On", "Block", f))
      /\ Agree(decide("DetectionOnly", "Block", g), decide("On", "Block", g))
      /\ Agree(decide("DetectionOnly", "Challenge", g), decide("On", "Challenge", g))
  BY <1>4, Decided DEF Agree, Words
<1>7. CASE p.rules = <<>>
  <2>1. waf_inspect(p, v) = Pass /\ waf_inspect(o, v) = Pass
    BY <1>7 DEF waf_inspect
  <2> QED
    BY <1>5, <2>1
<1>8. CASE p.rules # <<>>
  <2>1. waf_inspect(p, v) =
          IF Those(runs, "block") # <<>> THEN decide("DetectionOnly", "Block", f)
          ELSE IF total >= p.threshold THEN decide("DetectionOnly", "Block", g)
          ELSE IF \/ Those(runs, "challenge") # <<>>
                  \/ p.challenge_threshold > 0 /\ total >= p.challenge_threshold
          THEN decide("DetectionOnly", "Challenge", g)
          ELSE IF runs = <<>> THEN Pass ELSE h
    BY <1>1, <1>2, <1>3, <1>8, WordsDiffer DEF waf_inspect
  <2>2. waf_inspect(o, v) =
          IF Those(runs, "block") # <<>> THEN decide("On", "Block", f)
          ELSE IF total >= p.threshold THEN decide("On", "Block", g)
          ELSE IF \/ Those(runs, "challenge") # <<>>
                  \/ p.challenge_threshold > 0 /\ total >= p.challenge_threshold
          THEN decide("On", "Challenge", g)
          ELSE IF runs = <<>> THEN Pass ELSE h
    BY <1>1, <1>2, <1>3, <1>8, WordsDiffer DEF waf_inspect
  <2> QED
    BY <1>5, <1>6, <2>1, <2>2
<1> QED
  BY <1>7, <1>8

LEMMA CountriesAgree ==
  ASSUME NEW geo, NEW country
  PROVE  /\ Agree(geo_inspect("DetectionOnly", geo, country), geo_inspect("On", geo, country))
         /\ geo_inspect("On", geo, country).is # "Challenge"
<1>1. PICK alert : alert = [is |-> "Alert", findings |-> [Clear EXCEPT !.detection = "WouldBlock"]]
  OBVIOUS
<1>2. alert.is = "Alert" /\ alert.findings.detection = "WouldBlock"
  BY <1>1 DEF Clear
<1>3. PICK drop : drop = [is |-> "Drop", findings |-> Clear]
  OBVIOUS
<1>4. Agree(Pass, Pass) /\ Agree(alert, drop) /\ Pass.is # "Challenge" /\ drop.is # "Challenge"
  BY <1>2, <1>3 DEF Agree, Pass, Clear, Words
<1>5. CASE country = Nobody \/ ~refused_by(geo, country)
  <2>1. geo_inspect("DetectionOnly", geo, country) = Pass /\ geo_inspect("On", geo, country) = Pass
    BY <1>5, WordsDiffer DEF geo_inspect
  <2> QED
    BY <1>4, <2>1
<1>6. CASE ~(country = Nobody \/ ~refused_by(geo, country))
  <2>1. geo_inspect("DetectionOnly", geo, country) = alert /\ geo_inspect("On", geo, country) = drop
    BY <1>1, <1>3, <1>6, WordsDiffer DEF geo_inspect
  <2> QED
    BY <1>4, <2>1
<1> QED
  BY <1>5, <1>6

\* The first of the two that refuses or challenges decides; where neither does, the
\* stronger of what they found is recorded.
LEMMA BothWatch ==
  ASSUME NEW g, NEW w, g.is \in {"Pass", "Alert"}, w.is \in {"Pass", "Alert"},
         g.findings.detection \in Words, w.findings.detection \in Words
  PROVE  /\ pipeline(g, w).is = "Allow"
         /\ pipeline(g, w).findings.detection = stronger(g.findings.detection, w.findings.detection)
         /\ {"is", "findings"} \subseteq DOMAIN pipeline(g, w)
         /\ "detection" \in DOMAIN pipeline(g, w).findings
<1>1. PICK found : found = merge(merge(Clear, g.findings), w.findings)
  OBVIOUS
<1>2. pipeline(g, w) = [is |-> "Allow", findings |-> found]
  BY <1>1 DEF pipeline
<1>3. stronger(Nobody, g.findings.detection) = g.findings.detection
  BY Stronger DEF Words
<1>4. "detection" \in DOMAIN found
      /\ found.detection = stronger(g.findings.detection, w.findings.detection)
  BY <1>1, <1>3 DEF merge, Clear
<1> QED
  BY <1>2, <1>4

LEMMA OneEnforces ==
  ASSUME NEW g, NEW w
  PROVE  /\ g.is = "Drop" => pipeline(g, w).is = "Block"
         /\ g.is \in {"Pass", "Alert"} /\ w.is = "Drop" => pipeline(g, w).is = "Block"
         /\ g.is \in {"Pass", "Alert"} /\ w.is = "Challenge" => pipeline(g, w).is = "Challenge"
         /\ g.is \in {"Pass", "Alert"} /\ w.is \in {"Pass", "Alert"} => pipeline(g, w).is = "Allow"
BY DEF pipeline

\* What judge makes of a request under a policy that watches: it is let through, and
\* the strongest of what everything would have done is recorded.
LEMMA JudgedWatching ==
  ASSUME NEW site, NEW v, NEW listed, NEW watched, NEW count, NEW cleared, NEW g, NEW w,
         NEW said, said = IF listed = "Allowed" THEN [is |-> "Allow", findings |-> Clear]
                          ELSE pipeline(g, w),
         site.mode = "DetectionOnly", said.is = "Allow",
         {"is", "findings"} \subseteq DOMAIN said, "detection" \in DOMAIN said.findings,
         NEW verdict, verdict = judge(site, v, listed, watched, count, cleared, g, w)
  PROVE  /\ verdict.is = "Allow"
         /\ verdict.findings.detection =
              stronger(stronger(stronger(said.findings.detection, list_verdict(listed)),
                                IF watched THEN "WouldBlock" ELSE Nobody),
                       would(site.limit, count, v.page_load, cleared))
<1>1. PICK d : d = stronger(stronger(stronger(said.findings.detection, list_verdict(listed)),
                                     IF watched THEN "WouldBlock" ELSE Nobody),
                            would(site.limit, count, v.page_load, cleared))
  OBVIOUS
<1>2. verdict = [said EXCEPT !.findings.detection = d]
  BY <1>1 DEF judge
<1>3. verdict.is = said.is /\ verdict.findings.detection = d
  BY <1>2
<1> QED
  BY <1>1, <1>3

\* And under one that enforces, with no limit and nobody blocked.
Enforcing(site, v, listed, g, w) == judge(site, v, listed, FALSE, Nobody, FALSE, g, w)

LEMMA JudgedEnforcing ==
  ASSUME NEW site, NEW v, NEW listed, NEW g, NEW w, site.mode = "On", site.limit = Nobody,
         NEW said, said = pipeline(g, w).is,
         NEW verdict, verdict = Enforcing(site, v, listed, g, w)
  PROVE  /\ listed = "Allowed" => verdict.is = "Allow"
         /\ said = "Allow" /\ listed = "PublishedChallenge" => verdict.is = "Challenge"
         /\ listed # "Allowed" /\ ~(said = "Allow" /\ listed = "PublishedChallenge")
              => verdict.is = said
<1>1. PICK all : all = IF listed = "Allowed" THEN [is |-> "Allow", findings |-> Clear]
                        ELSE pipeline(g, w)
  OBVIOUS
<1>2. PICK asked : asked = IF all.is = "Allow" /\ listed = "PublishedChallenge"
                           THEN [all EXCEPT !.is = "Challenge"] ELSE all
  OBVIOUS
<1>3. "is" \in DOMAIN all
  BY <1>1 DEF pipeline
<1>4. asked.is = IF all.is = "Allow" /\ listed = "PublishedChallenge" THEN "Challenge" ELSE all.is
  BY <1>2, <1>3
<1>5. verdict.is = asked.is
  <2>1. CASE asked.is # "Allow"
    BY <1>1, <1>2, <2>1 DEF judge, Enforcing
  <2>2. CASE asked.is = "Allow"
    <3>1. PICK d : verdict = [asked EXCEPT !.findings.detection = d]
      BY <1>1, <1>2, <2>2 DEF judge, Enforcing
    <3>2. "is" \in DOMAIN asked
      BY <1>2, <1>3
    <3> QED
      BY <3>1, <3>2
  <2> QED
    BY <2>1, <2>2
<1> QED
  BY <1>1, <1>4, <1>5

\* What the limit of a site would have done is what it does once it enforces.
LEMMA LimitAgrees ==
  ASSUME NEW q
  PROVE  /\ would(q.site.limit, q.count, q.visit.page_load, FALSE) = Enforced(q)
         /\ Enforced(q) \in {Nobody, "WouldChallenge", "WouldBlock"}
<1>1. PICK limit, count, load : limit = q.site.limit /\ count = q.count /\ load = q.visit.page_load
  OBVIOUS
<1>2. PICK d : d = decision(limit, count, load, FALSE)
  OBVIOUS
<1>3. count = Nobody => d = Nobody
  BY <1>2 DEF decision
<1>4. d \in {Nobody, "Refuse", "Challenge"}
  BY <1>2 DEF decision
<1>5. CASE limit = Nobody \/ count = Nobody \/ ~limit.watching
  <2>1. Enforced(q) = Nobody
    BY <1>1, <1>5 DEF Enforced
  <2>2. would(limit, count, load, FALSE) = Nobody
    <3>1. CASE limit = Nobody \/ ~limit.watching
      BY <3>1 DEF would
    <3>2. CASE limit # Nobody /\ limit.watching /\ count = Nobody
      BY <1>2, <1>3, <3>2, WordsDiffer DEF would
    <3> QED
      BY <1>5, <3>1, <3>2
  <2> QED
    BY <1>1, <2>1, <2>2
<1>6. CASE ~(limit = Nobody \/ count = Nobody \/ ~limit.watching)
  BY <1>1, <1>2, <1>4, <1>6 DEF would, Enforced
<1> QED
  BY <1>5, <1>6

\* On a request whose reads fell on one policy that watches, and for a visitor who
\* has answered no challenge, the row tells what the same policy would have done.
LEMMA TrialTold ==
  ASSUME NEW q, TrialOK(q), q.at = "judged", q.one, q.site.mode = "DetectionOnly", ~q.cleared
  PROVE  /\ q.verdict.is = "Allow"
         /\ LET d == q.verdict.findings.detection
            IN (IF d = "Observed" THEN Nobody ELSE d) = stronger(SwitchedOn(q), Enforced(q))
<1>1. /\ {"mode", "limit"} \subseteq DOMAIN q.site /\ Columns \subseteq DOMAIN q.policy
      /\ q.listed = "Allowed" => ~q.watched
      /\ q.policy.mode = "DetectionOnly" /\ q.verdict = ByPolicy(q)
  BY DEF TrialOK, Looked
<1>2. PICK p, o, v, site :
         /\ p = q.policy /\ o = [q.policy EXCEPT !.mode = "On"]
         /\ v = Knowing(q.visit, [client |-> q.client])
         /\ site = [q.site EXCEPT !.mode = "On", !.limit = Nobody]
  OBVIOUS
<1>3. /\ p.mode = "DetectionOnly" /\ o.mode = "On" /\ o.rules = p.rules /\ o.geo = p.geo
      /\ o.exclusions = p.exclusions /\ o.threshold = p.threshold
      /\ o.challenge_threshold = p.challenge_threshold
  BY <1>1, <1>2 DEF Columns
<1>4. site.mode = "On" /\ site.limit = Nobody
  BY <1>1, <1>2
<1>5. PICK g, w, gg, ww :
         /\ g = geo_inspect("DetectionOnly", p.geo, q.visit.country) /\ w = waf_inspect(p, v)
         /\ gg = geo_inspect("On", p.geo, q.visit.country) /\ ww = waf_inspect(o, v)
  OBVIOUS
<1>6. Agree(g, gg) /\ Agree(w, ww) /\ gg.is # "Challenge"
  BY <1>3, <1>5, RulesAgree, CountriesAgree
<1>7. PICK said : said = IF q.listed = "Allowed" THEN [is |-> "Allow", findings |-> Clear]
                         ELSE pipeline(g, w)
  OBVIOUS
<1>8. /\ said.is = "Allow" /\ {"is", "findings"} \subseteq DOMAIN said
      /\ "detection" \in DOMAIN said.findings
      /\ said.findings.detection = IF q.listed = "Allowed" THEN Nobody
                                   ELSE stronger(g.findings.detection, w.findings.detection)
  <2>1. CASE q.listed = "Allowed"
    BY <1>7, <2>1 DEF Clear
  <2>2. CASE q.listed # "Allowed"
    BY <1>6, <1>7, <2>2, BothWatch DEF Agree
  <2> QED
    BY <2>1, <2>2
<1>9. PICK verdict : /\ verdict = judge(q.site, q.visit, q.listed, q.watched, q.count, q.cleared, g, w)
  OBVIOUS
<1>10. q.verdict = verdict
  BY <1>1, <1>2, <1>5, <1>9 DEF ByPolicy, ByCountry
<1>11. PICK wouldbe : wouldbe = would(q.site.limit, q.count, q.visit.page_load, q.cleared)
  OBVIOUS
<1>12. wouldbe = Enforced(q) /\ Enforced(q) \in {Nobody, "WouldChallenge", "WouldBlock"}
  <2>1. would(q.site.limit, q.count, q.visit.page_load, q.cleared)
          = would(q.site.limit, q.count, q.visit.page_load, FALSE)
    BY DEF would, decision
  <2> QED
    BY <1>11, <2>1, LimitAgrees
<1>13. PICK dets : dets = IF q.watched THEN "WouldBlock" ELSE Nobody
  OBVIOUS
<1>14. /\ verdict.is = "Allow"
       /\ verdict.findings.detection =
            stronger(stronger(stronger(said.findings.detection, list_verdict(q.listed)), dets), wouldbe)
  BY <1>7, <1>8, <1>9, <1>11, <1>13, JudgedWatching
<1>15. PICK enforced : enforced = Enforcing(site, q.visit, q.listed, gg, ww)
  OBVIOUS
<1>16. PICK is : is = pipeline(gg, ww).is
  OBVIOUS
<1>e. /\ q.listed = "Allowed" => enforced.is = "Allow"
      /\ is = "Allow" /\ q.listed = "PublishedChallenge" => enforced.is = "Challenge"
      /\ q.listed # "Allowed" /\ ~(is = "Allow" /\ q.listed = "PublishedChallenge")
           => enforced.is = is
  <2>1. /\ site.mode = "On" /\ site.limit = Nobody /\ is = pipeline(gg, ww).is
        /\ enforced = Enforcing(site, q.visit, q.listed, gg, ww)
    BY <1>2, <1>4, <1>15, <1>16
  <2> QED
    BY ONLY <2>1, JudgedEnforcing
<1>17. SwitchedOn(q) = IF list_verdict(q.listed) = "WouldBlock" \/ q.watched THEN "WouldBlock"
                       ELSE Refuses(enforced)
  BY <1>2, <1>3, <1>5, <1>15 DEF SwitchedOn, Enforcing
<1>18. PICK lists : lists = list_verdict(q.listed)
  OBVIOUS
<1>19. /\ lists \in {Nobody, "WouldChallenge", "WouldBlock"}
       /\ q.listed = "Allowed" => lists = Nobody
       /\ lists = "WouldChallenge" <=> q.listed = "PublishedChallenge"
  BY <1>18, WordsDiffer DEF list_verdict
<1>20. PICK a, b, e : a = g.findings.detection /\ b = w.findings.detection /\ e = Enforced(q)
  OBVIOUS
<1>21. a \in Words /\ b \in Words /\ e \in {Nobody, "WouldChallenge", "WouldBlock"}
  BY <1>6, <1>12, <1>20 DEF Agree
<1>22. PICK d, on : d = verdict.findings.detection /\ on = SwitchedOn(q)
  OBVIOUS
<1>23. CASE q.listed = "Allowed"
  <2>1. lists = Nobody /\ dets = Nobody /\ said.findings.detection = Nobody /\ enforced.is = "Allow"
    BY <1>1, <1>8, <1>13, <1>e, <1>19, <1>23
  <2>2. stronger(Nobody, Nobody) = Nobody /\ stronger(Nobody, e) = e
    BY <1>21, Stronger DEF Words
  <2>3. d = e
    BY <1>12, <1>14, <1>18, <1>20, <1>22, <2>1, <2>2
  <2>4. on = Nobody
    BY <1>1, <1>17, <1>18, <1>22, <1>23, <2>1, WordsDiffer DEF Refuses
  <2> QED
    BY <1>10, <1>14, <1>20, <1>21, <1>22, <2>2, <2>3, <2>4, WordsDiffer
<1>24. CASE q.listed # "Allowed"
  <2>1. d = stronger(stronger(stronger(stronger(a, b), lists), dets), e)
    BY <1>8, <1>12, <1>14, <1>18, <1>20, <1>22, <1>24
  <2>2. CASE lists = "WouldBlock" \/ q.watched
    <3>1. on = "WouldBlock" /\ (lists = "WouldBlock" \/ dets = "WouldBlock")
      BY <1>13, <1>17, <1>18, <1>22, <2>2
    <3>2. d = "WouldBlock" /\ stronger(on, e) = "WouldBlock"
      BY ONLY <1>13, <1>19, <1>21, <2>1, <3>1, WordsDiffer DEF stronger, Words
    <3> QED
      BY <1>10, <1>14, <1>20, <1>22, <3>2
  <2>3. CASE ~(lists = "WouldBlock" \/ q.watched)
    <3>1. on = Refuses(enforced) /\ dets = Nobody
      BY <1>13, <1>17, <1>18, <1>22, <2>3
    <3>2. enforced.is = IF gg.is = "Drop" \/ ww.is = "Drop" THEN "Block"
                        ELSE IF ww.is = "Challenge" \/ lists = "WouldChallenge" THEN "Challenge"
                        ELSE "Allow"
      BY <1>6, <1>16, <1>e, <1>19, <1>24, OneEnforces DEF Agree
    <3>3. on = IF gg.is = "Drop" \/ ww.is = "Drop" THEN "WouldBlock"
               ELSE IF ww.is = "Challenge" \/ lists = "WouldChallenge" THEN "WouldChallenge"
               ELSE Nobody
      BY <3>1, <3>2 DEF Refuses
    <3>4. /\ gg.is = "Drop" <=> a = "WouldBlock"
          /\ ww.is = "Drop" <=> b = "WouldBlock"
          /\ ww.is = "Challenge" <=> b = "WouldChallenge"
          /\ a # "WouldChallenge"
      BY <1>6, <1>20, WordsDiffer DEF Agree
    <3>5. on = IF a = "WouldBlock" \/ b = "WouldBlock" THEN "WouldBlock"
               ELSE IF b = "WouldChallenge" \/ lists = "WouldChallenge" THEN "WouldChallenge"
               ELSE Nobody
      BY ONLY <3>3, <3>4
    <3>6. lists \in {Nobody, "WouldChallenge"}
      BY <1>18, <1>19, <2>3
    <3>7. PICK c : c = stronger(stronger(a, b), lists)
      OBVIOUS
    <3>8. c \in Words /\ on = IF c = "Observed" THEN Nobody ELSE c
      BY ONLY <1>21, <3>4, <3>5, <3>6, <3>7, WordsDiffer DEF stronger, Words
    <3>9. d = stronger(c, e)
      BY <2>1, <3>1, <3>7, <3>8, Stronger DEF Words
    <3>10. (IF d = "Observed" THEN Nobody ELSE d) = stronger(on, e)
      BY ONLY <1>21, <3>8, <3>9, WordsDiffer DEF stronger, Words
    <3> QED
      BY <1>10, <1>14, <1>20, <1>22, <3>10
  <2> QED
    BY <2>2, <2>3
<1> QED
  BY <1>23, <1>24

\* A request goes on: what it looked up stays as it was.
Spares(more) == DOMAIN more \cap {"listed", "watched", "policy"} = {}

StaysKnown(q, more, x) ==
    /\ x.visit = q.visit /\ x.client = q.client /\ x.site = q.site
    /\ {"listed", "watched", "count", "policy"} \subseteq DOMAIN x
    /\ x.listed = q.listed /\ x.watched = q.watched /\ x.policy = q.policy
    /\ {"mode", "limit"} \subseteq DOMAIN x.site /\ Columns \subseteq DOMAIN x.policy
    /\ x.listed = "Allowed" => ~x.watched
    /\ "count" \notin DOMAIN more => x.count = q.count
    /\ "cleared" \in DOMAIN q \ DOMAIN more => x.cleared = q.cleared
    /\ DOMAIN q \cup DOMAIN more = DOMAIN x

LEMMA StillKnown ==
  ASSUME NEW q, NEW more, NEW at, HasCome(q), Further(more), NEW x, x = Onward(q, more, at),
         TrialOK(q), Looked(q), Spares(more)
  PROVE  x.at = at /\ StaysKnown(q, more, x)
<1>1. /\ {"mode", "limit"} \subseteq DOMAIN q.site
      /\ {"listed", "watched", "count", "policy"} \subseteq DOMAIN q
      /\ Columns \subseteq DOMAIN q.policy
      /\ q.listed = "Allowed" => ~q.watched
  BY DEF TrialOK, Looked
<1>2. DOMAIN x = DOMAIN q \cup DOMAIN more
  BY OnwardDomain
<1>3. x.at = at /\ x.visit = q.visit /\ x.client = q.client /\ x.site = q.site
  BY GoneOn
<1>4. ASSUME NEW f \in DOMAIN q, f \notin DOMAIN more, f # "at"
      PROVE  x[f] = q[f]
  BY <1>4, Knew
<1>5. x["listed"] = q["listed"] /\ x["watched"] = q["watched"] /\ x["policy"] = q["policy"]
  BY <1>1, <1>4 DEF Spares
<1>6. /\ "count" \notin DOMAIN more => x["count"] = q["count"]
      /\ "cleared" \in DOMAIN q \ DOMAIN more => x["cleared"] = q["cleared"]
  BY <1>1, <1>4
<1>7. x.listed = "Allowed" => ~x.watched
  BY ONLY <1>1, <1>5
<1>8. /\ "count" \notin DOMAIN more => x.count = q.count
      /\ "cleared" \in DOMAIN q \ DOMAIN more => x.cleared = q.cleared
  BY ONLY <1>6
<1>9. /\ {"listed", "watched", "count", "policy"} \subseteq DOMAIN x
      /\ x.listed = q.listed /\ x.watched = q.watched /\ x.policy = q.policy
      /\ {"mode", "limit"} \subseteq DOMAIN x.site /\ Columns \subseteq DOMAIN x.policy
  BY ONLY <1>1, <1>2, <1>3, <1>5
<1> QED
  BY ONLY <1>2, <1>3, <1>7, <1>8, <1>9 DEF StaysKnown

\* A request moves, and the rest stays.
LEMMA TrialMoved ==
  ASSUME SessionInv, TrialInv, NEW r \in Reqs, NEW x, reqs' = [reqs EXCEPT ![r] = x],
         UNCHANGED conf, x.at # "idle" => TrialOK(x)
  PROVE  TrialInv'
<1>1. reqs = [p \in Reqs |-> reqs[p]]
  BY DEF SessionInv
<1>2. /\ reqs'[r] = x /\ \A p \in Reqs : p # r => reqs'[p] = reqs[p]
  BY <1>1
<1>3. \A p \in Reqs : reqs[p].at # "idle" => TrialOK(reqs[p])
  BY DEF TrialInv, Busy
<1>4. \A p \in Reqs : reqs'[p].at # "idle" => TrialOK(reqs'[p])
  BY <1>2, <1>3
<1>5. Columns \subseteq DOMAIN conf'.policy
  BY DEF TrialInv
<1> QED
  BY <1>4, <1>5 DEF TrialInv, Busy

LEMMA TrialWentOn ==
  ASSUME SessionInv, TrialInv, NEW r \in Reqs, NEW at, NEW more,
         NEW q, q = reqs[r], NEW x, x = Onward(q, more, at), GoesOn(r, q, at, more),
         UNCHANGED conf, TrialOK(x)
  PROVE  TrialInv'
<1>1. reqs' = [reqs EXCEPT ![r] = x]
  BY DEF GoesOn, Moves, Onward
<1> QED
  BY <1>1, TrialMoved

LEMMA TrialEnded ==
  ASSUME SessionInv, TrialInv, NEW r \in Reqs, Moves(r, Idle), UNCHANGED conf
  PROVE  TrialInv'
<1>1. PICK x : x = Idle /\ reqs' = [reqs EXCEPT ![r] = x]
  BY DEF Moves
<1>2. x.at = "idle"
  BY <1>1 DEF Idle
<1> QED
  BY <1>1, <1>2, TrialMoved

\* The lists: an allowed address is not blocked, and the policy is noted as it is.
LEMMA TrialLists ==
  ASSUME SessionInv, TrialInv, NEW r \in Busy, Lists(r)
  PROVE  TrialInv'
<1>1. PICK q : q = reqs[r] /\ HasCome(q) /\ TrialOK(q) /\ UNCHANGED conf /\ r \in Reqs
  BY DEF Lists, Quiet, SessionInv, RequestOK, CameOK, HasCome, TrialInv, Busy
<1>2. PICK listed, watched, apart :
         /\ listed = "Allowed" => ~watched
         /\ \/ Moves(r, Idle)
            \/ GoesOn(r, q, IF apart \/ q.site.limit = Nobody THEN "body" ELSE "count",
                      [listed |-> listed, watched |-> watched, reading |-> clock, count |-> Nobody,
                       policy |-> conf.policy])
  BY <1>1 DEF Lists, EndsWithRow
<1>3. CASE Moves(r, Idle)
  BY <1>1, <1>3, TrialEnded
<1>4. CASE ~Moves(r, Idle)
  <2>1. PICK at, more : /\ at = IF apart \/ q.site.limit = Nobody THEN "body" ELSE "count"
                        /\ more = [listed |-> listed, watched |-> watched, reading |-> clock,
                                   count |-> Nobody, policy |-> conf.policy]
    OBVIOUS
  <2>2. GoesOn(r, q, at, more) /\ at \in {"body", "count"}
    BY <1>2, <1>4, <2>1
  <2>3. /\ DOMAIN more = {"listed", "watched", "reading", "count", "policy"}
        /\ more["listed"] = listed /\ more["watched"] = watched /\ more["policy"] = conf.policy
    BY <2>1
  <2>4. Further(more)
    BY <2>3 DEF Further, Came
  <2>5. PICK x : x = Onward(q, more, at)
    OBVIOUS
  <2>6. x.at = at /\ x.site = q.site /\ DOMAIN x = DOMAIN q \cup DOMAIN more
    <3>1. HasCome(q)
      BY <1>1
    <3>2. x.at = at /\ x.site = q.site
      BY ONLY <2>4, <2>5, <3>1, GoneOn
    <3> QED
      BY <2>5, <3>2, OnwardDomain
  <2>7. \A f \in DOMAIN more : x[f] = more[f]
    BY ONLY <2>4, <2>5, Knows
  <2>8. x["listed"] = listed /\ x["watched"] = watched /\ x["policy"] = conf.policy
    BY <2>3, <2>7
  <2>9. TrialOK(x)
    BY <1>1, <1>2, <2>2, <2>3, <2>6, <2>8 DEF TrialOK, TrialInv
  <2> QED
    BY <1>1, <2>2, <2>5, <2>9, TrialWentOn
<1> QED
  BY <1>3, <1>4

LEMMA TrialCount ==
  ASSUME SessionInv, TrialInv, NEW r \in Busy, Count(r)
  PROVE  TrialInv'
<1>1. PICK q : /\ q = reqs[r] /\ HasCome(q) /\ TrialOK(q) /\ UNCHANGED conf /\ r \in Reqs
               /\ q.at = "count"
  BY DEF Count, Quiet, SessionInv, RequestOK, CameOK, HasCome, TrialInv, Busy
<1>2. PICK count : Moves(r, Idle) \/ GoesOn(r, reqs[r], "body", [count |-> count])
  BY DEF Count, EndsWithRow
<1>3. CASE Moves(r, Idle)
  BY <1>1, <1>3, TrialEnded
<1>4. CASE ~Moves(r, Idle)
  <2>1. PICK at, more : at = "body" /\ more = [count |-> count]
    OBVIOUS
  <2>2. GoesOn(r, q, at, more) /\ DOMAIN more = {"count"}
    BY <1>1, <1>2, <1>4, <2>1
  <2>3. Further(more) /\ Spares(more)
    BY <2>2 DEF Further, Came, Spares
  <2>4. PICK x : x = Onward(q, more, at)
    OBVIOUS
  <2>5. /\ x.at = at /\ {"listed", "watched", "count", "policy"} \subseteq DOMAIN x
        /\ {"mode", "limit"} \subseteq DOMAIN x.site /\ Columns \subseteq DOMAIN x.policy
        /\ x.listed = "Allowed" => ~x.watched
    <3>1. HasCome(q) /\ TrialOK(q) /\ Looked(q)
      BY <1>1 DEF Looked
    <3>2. x.at = at /\ StaysKnown(q, more, x)
      BY ONLY <2>3, <2>4, <3>1, StillKnown
    <3> QED
      BY <3>2 DEF StaysKnown
  <2>6. TrialOK(x)
    BY <2>1, <2>5 DEF TrialOK
  <2> QED
    BY <1>1, <2>2, <2>4, <2>6, TrialWentOn
<1> QED
  BY <1>3, <1>4

LEMMA TrialBody ==
  ASSUME SessionInv, TrialInv, NEW r \in Busy, Body(r)
  PROVE  TrialInv'
<1>1. PICK q : /\ q = reqs[r] /\ HasCome(q) /\ TrialOK(q) /\ UNCHANGED conf /\ r \in Reqs
               /\ q.at = "body"
  BY DEF Body, Quiet, SessionInv, RequestOK, CameOK, HasCome, TrialInv, Busy
<1>2. PICK session, cleared :
         \/ Moves(r, Idle)
         \/ GoesOn(r, reqs[r], "countries", [session |-> session, cleared |-> cleared, moment |-> clock])
  BY DEF Body, EndsWithRow, EndsUnrecorded
<1>3. CASE Moves(r, Idle)
  BY <1>1, <1>3, TrialEnded
<1>4. CASE ~Moves(r, Idle)
  <2>1. PICK at, more : /\ at = "countries"
                        /\ more = [session |-> session, cleared |-> cleared, moment |-> clock]
    OBVIOUS
  <2>2. GoesOn(r, q, at, more) /\ DOMAIN more = {"session", "cleared", "moment"}
    BY <1>1, <1>2, <1>4, <2>1
  <2>3. Further(more) /\ Spares(more)
    BY <2>2 DEF Further, Came, Spares
  <2>4. PICK x : x = Onward(q, more, at)
    OBVIOUS
  <2>5. /\ x.at = at /\ {"listed", "watched", "count", "policy"} \subseteq DOMAIN x
        /\ {"mode", "limit"} \subseteq DOMAIN x.site /\ Columns \subseteq DOMAIN x.policy
        /\ x.listed = "Allowed" => ~x.watched
        /\ DOMAIN q \cup DOMAIN more = DOMAIN x
    <3>1. HasCome(q) /\ TrialOK(q) /\ Looked(q)
      BY <1>1 DEF Looked
    <3>2. x.at = at /\ StaysKnown(q, more, x)
      BY ONLY <2>3, <2>4, <3>1, StillKnown
    <3> QED
      BY <3>2 DEF StaysKnown
  <2>6. TrialOK(x)
    BY <2>1, <2>2, <2>5 DEF TrialOK
  <2> QED
    BY <1>1, <2>2, <2>4, <2>6, TrialWentOn
<1> QED
  BY <1>3, <1>4

\* The country rules: on the policy that was noted, and of its mode, where the reads
\* fell on one.
LEMMA TrialCountries ==
  ASSUME SessionInv, TrialInv, NEW r \in Busy, Countries(r)
  PROVE  TrialInv'
<1>1. PICK q : /\ q = reqs[r] /\ HasCome(q) /\ TrialOK(q) /\ UNCHANGED conf /\ r \in Reqs
               /\ q.at = "countries"
  BY DEF Countries, Quiet, SessionInv, RequestOK, CameOK, HasCome, TrialInv, Busy
<1>2. PICK at, more, geo, p, mode :
         /\ at = "rules" /\ GoesOn(r, q, at, more) /\ p = conf.policy /\ mode = q.site.mode
         /\ geo = geo_inspect(p.mode, p.geo, q.visit.country)
         /\ more = [geo |-> geo, one |-> p = q.policy /\ p.mode = mode]
  BY <1>1 DEF Countries
<1>3. /\ DOMAIN more = {"geo", "one"} /\ more["geo"] = geo
      /\ more["one"] = (p = q.policy /\ p.mode = mode)
  BY <1>2
<1>4. Further(more) /\ Spares(more)
  BY <1>3 DEF Further, Came, Spares
<1>5. PICK x : x = Onward(q, more, at)
  OBVIOUS
<1>6. x.at = at /\ StaysKnown(q, more, x)
  <2>1. HasCome(q) /\ TrialOK(q) /\ Looked(q)
    BY <1>1 DEF Looked
  <2> QED
    BY ONLY <1>4, <1>5, <2>1, StillKnown
<1>7. x["geo"] = geo /\ x["one"] = (p = q.policy /\ p.mode = mode)
  <2>1. \A f \in DOMAIN more : x[f] = more[f]
    BY ONLY <1>4, <1>5, Knows
  <2> QED
    BY ONLY <1>3, <2>1
<1>8. "cleared" \in DOMAIN q
  BY <1>1 DEF TrialOK
<1>9. ASSUME x.one PROVE x.policy.mode = x.site.mode /\ x.geo = ByCountry(x)
  <2>1. p = q.policy /\ p.mode = mode
    BY ONLY <1>7, <1>9
  <2> QED
    BY <1>2, <1>6, <1>7, <2>1 DEF StaysKnown, ByCountry
<1>10. TrialOK(x)
  BY <1>2, <1>3, <1>6, <1>8, <1>9 DEF TrialOK, StaysKnown
<1> QED
  BY <1>1, <1>2, <1>5, <1>10, TrialWentOn

\* The rules, and the verdict of both.
LEMMA TrialRules ==
  ASSUME SessionInv, TrialInv, NEW r \in Busy, Rules(r)
  PROVE  TrialInv'
<1>1. PICK q : /\ q = reqs[r] /\ HasCome(q) /\ TrialOK(q) /\ UNCHANGED conf /\ r \in Reqs
               /\ q.at = "rules"
  BY DEF Rules, Quiet, SessionInv, RequestOK, CameOK, HasCome, TrialInv, Busy
<1>2. PICK at, more, verdict, p :
         /\ at = "judged" /\ GoesOn(r, q, at, more) /\ p = conf.policy
         /\ verdict = judge(q.site, q.visit, q.listed, q.watched, q.count, q.cleared, q.geo,
                            waf_inspect(p, Knowing(q.visit, [client |-> q.client])))
         /\ more = [verdict |-> verdict, one |-> q.one /\ p = q.policy]
  BY <1>1 DEF Rules
<1>3. /\ DOMAIN more = {"verdict", "one"} /\ more["verdict"] = verdict
      /\ more["one"] = (q.one /\ p = q.policy)
  BY <1>2
<1>4. Further(more) /\ Spares(more)
  BY <1>3 DEF Further, Came, Spares
<1>5. PICK x : x = Onward(q, more, at)
  OBVIOUS
<1>6. x.at = at /\ StaysKnown(q, more, x)
  <2>1. HasCome(q) /\ TrialOK(q) /\ Looked(q)
    BY <1>1 DEF Looked
  <2> QED
    BY ONLY <1>4, <1>5, <2>1, StillKnown
<1>7. x["verdict"] = verdict /\ x["one"] = (q.one /\ p = q.policy)
  <2>1. \A f \in DOMAIN more : x[f] = more[f]
    BY ONLY <1>4, <1>5, Knows
  <2> QED
    BY ONLY <1>3, <2>1
<1>8. /\ "cleared" \in DOMAIN q
      /\ q.one => q.policy.mode = q.site.mode /\ q.geo = ByCountry(q)
  BY <1>1 DEF TrialOK
<1>9. ASSUME x.one PROVE x.policy.mode = x.site.mode /\ x.verdict = ByPolicy(x)
  <2>1. p = q.policy /\ q.one
    BY ONLY <1>7, <1>9
  <2>2. q.policy.mode = q.site.mode /\ q.geo = ByCountry(q)
    BY <1>8, <2>1
  <2>3. /\ x.visit = q.visit /\ x.client = q.client /\ x.site = q.site /\ x.listed = q.listed
        /\ x.watched = q.watched /\ x.policy = q.policy /\ x.count = q.count /\ x.cleared = q.cleared
    BY <1>3, <1>6, <1>8 DEF StaysKnown
  <2> QED
    BY <1>2, <1>7, <2>1, <2>2, <2>3 DEF ByCountry, ByPolicy
<1>10. TrialOK(x)
  BY <1>2, <1>3, <1>6, <1>8, <1>9 DEF TrialOK, StaysKnown
<1> QED
  BY <1>1, <1>2, <1>5, <1>10, TrialWentOn

\* The steps after the verdict keep only what the site asks.
LEMMA TrialAnswered ==
  ASSUME SessionInv, TrialInv, NEW r \in Busy, Answer(r) \/ Checked(r) \/ Forward(r)
  PROVE  TrialInv'
<1>1. PICK q : q = reqs[r] /\ HasCome(q) /\ TrialOK(q) /\ UNCHANGED conf /\ r \in Reqs
  BY DEF Answer, Checked, Forward, Quiet, SessionInv, RequestOK, CameOK, HasCome, TrialInv, Busy
<1>2. CASE Moves(r, Idle)
  BY <1>1, <1>2, TrialEnded
<1>3. CASE ~Moves(r, Idle)
  <2>1. PICK at, more : /\ GoesOn(r, q, at, more) /\ Further(more)
                        /\ at \in {"checking", "forward"}
    <3>1. Answer(r) \/ Checked(r)
      BY <1>3 DEF Forward, EndsWithRow
    <3> QED
      BY <1>1, <1>3, <3>1, Answered
  <2>2. PICK x : x = Onward(q, more, at)
    OBVIOUS
  <2>3. x.at = at /\ x.site = q.site
    <3>1. HasCome(q)
      BY <1>1
    <3> QED
      BY ONLY <2>1, <2>2, <3>1, GoneOn
  <2>4. TrialOK(x)
    BY <1>1, <2>1, <2>3 DEF TrialOK, Looked
  <2> QED
    BY <1>1, <2>1, <2>2, <2>4, TrialWentOn
<1> QED
  BY <1>2, <1>3

\* A request comes with the mode and the limit of its site.
LEMMA TrialTake ==
  ASSUME SessionInv, TrialInv, NEW r \in Reqs, NEW v, Take(r, v)
  PROVE  TrialInv'
<1>1. PICK c, client, https, site :
         /\ Moves(r, [at |-> "lists", visit |-> v, cookie |-> c, client |-> client, https |-> https,
                      site |-> site])
         /\ site = [mode |-> conf.policy.mode, smart |-> conf.policy.smart, limit |-> conf.limit,
                    auth |-> conf.auth, realm |-> realm]
  BY DEF Take
<1>2. PICK x : x = [at |-> "lists", visit |-> v, cookie |-> c, client |-> client, https |-> https,
                    site |-> site]
  OBVIOUS
<1>3. DOMAIN site = {"mode", "smart", "limit", "auth", "realm"}
  BY <1>1
<1>4. reqs' = [reqs EXCEPT ![r] = x] /\ x.at = "lists" /\ x.site = site
  BY <1>1, <1>2 DEF Moves
<1>5. TrialOK(x)
  BY <1>3, <1>4 DEF TrialOK, Looked
<1>6. UNCHANGED conf
  BY DEF Take, Quiet
<1> QED
  BY <1>4, <1>5, <1>6, TrialMoved

\* What is saved is a policy with its columns.
LEMMA TrialAlone ==
  ASSUME SessionInv, TrialInv, UNCHANGED reqs, conf' = conf \/ Save
  PROVE  TrialInv'
<1>1. Columns \subseteq DOMAIN conf'.policy
  <2>1. CASE conf' = conf
    BY <2>1 DEF TrialInv
  <2>2. CASE Save
    <3>1. conf' \in Here.saves /\ scene \in DOMAIN Scenes
      BY <2>2 DEF Save, SessionInv
    <3> QED
      BY <3>1, ScenesAssumption DEF Here, Columns
  <2> QED
    BY <2>1, <2>2
<1> QED
  BY <1>1 DEF TrialInv, Busy

LEMMA TrialStep == SessionInv /\ TrialInv /\ [Next]_vars => TrialInv'
<1> SUFFICES ASSUME SessionInv, TrialInv, [Next]_vars PROVE TrialInv'
  OBVIOUS
<1>1. CASE vars' = vars
  BY <1>1, TrialAlone DEF vars
<1>2. CASE Requests
  <2>1. PICK r \in Reqs : \/ Lists(r) \/ Body(r) \/ Countries(r) \/ Rules(r) \/ Forward(r)
                          \/ Answer(r) \/ Checked(r) \/ Count(r)
    BY <1>2 DEF Requests, Hurried
  <2>2. r \in Busy
    BY <2>1 DEF Lists, Body, Countries, Rules, Answer, Checked, Forward, Count, Busy
  <2> QED
    BY <2>1, <2>2, TrialLists, TrialCount, TrialBody, TrialCountries, TrialRules, TrialAnswered
<1>3. CASE Connections
  BY <1>3, TrialAlone DEF Connections, Accept, FirstBytes, OpenedAsHttp2, NothingSent, Ended, Close
<1>4. CASE Visits
  <2>1. PICK v \in Here.visits : TurnedAway(v) \/ \E r \in Reqs : Take(r, v)
    BY <1>4 DEF Visits
  <2>2. CASE TurnedAway(v)
    BY <2>2, TrialAlone DEF TurnedAway, Quiet
  <2> QED
    BY <2>1, <2>2, TrialTake
<1>5. CASE TakeBatch \/ InsertRows \/ Tick \/ Save
  BY <1>5, TrialAlone DEF TakeBatch, InsertRows, Tick, Save
<1>6. CASE AdminPages
  BY <1>6, TrialAlone DEF AdminPages, Around
<1> QED
  BY <1>1, <1>2, <1>3, <1>4, <1>5, <1>6 DEF Next, Others

\* A policy that only watches says of a request what it would have done, "the entire
\* point of running a policy in that mode" (modules/waf.rs:1113): whatever its lists,
\* its countries, its rules, their scores and the limit of the site are, and
\* whatever is saved between the reads of a request that did fall on one policy.
THEOREM TrialsTellTheTruth == Spec => []TrialTellsTheTruth
<1>1. Init => TrialInv
  <2> SUFFICES ASSUME Init PROVE TrialInv
    OBVIOUS
  <2>1. reqs = [r \in Reqs |-> Idle] /\ conf \in Here.confs /\ scene \in DOMAIN Scenes
    BY DEF Init
  <2>2. Columns \subseteq DOMAIN conf.policy
    BY <2>1, ScenesAssumption DEF Here, Columns
  <2>3. Busy = {}
    BY <2>1 DEF Busy, Idle
  <2> QED
    BY <2>2, <2>3 DEF TrialInv
<1>2. TrialInv => TrialTellsTheTruth
  <2> SUFFICES ASSUME TrialInv, NEW r \in Reqs, NEW q, q = reqs[r], q.at = "judged", q.one,
                      q.site.mode = "DetectionOnly", ~q.cleared
               PROVE  /\ q.verdict.is = "Allow"
                      /\ LET d == q.verdict.findings.detection
                         IN (IF d = "Observed" THEN Nobody ELSE d) = stronger(SwitchedOn(q), Enforced(q))
    BY DEF TrialTellsTheTruth
  <2>1. TrialOK(q)
    BY DEF TrialInv, Busy
  <2> QED
    BY <2>1, TrialTold
<1> QED
  BY <1>1, <1>2, SessionInit, SessionStep, TrialStep, PTL DEF Spec

=============================================================================
