---------------------------- MODULE Hosting_proofs ----------------------------
(* What keeps a site reachable, proved for any number of certificates, sites,  *)
(* pages open and forms: an authority that asks is answered, an upload is kept *)
(* and the map of certificates is what is stored (acme.rs, tls.rs,             *)
(* routes/certs.rs); a save changes a pool in place, and the proxy is told of  *)
(* every port an enabled site names (routes/sites.rs, proxy/mod.rs).           *)
EXTENDS Sites, Certificates, SequenceTheorems, TLAPS

-----------------------------------------------------------------------------
(* Certificates: the invariant.                                               *)

CertRow ==
    [serial : Nat, by : {"hand", "order"}, covers : SUBSET Names, near : BOOLEAN,
     failures : Nat, wait : Nat]

\* Rows by name, and the map by hostname.
CertRows == UNION {[S -> CertRow] : S \in SUBSET Names}
CertMaps == UNION {[S -> Nat] : S \in SUBSET Names}

Ordering ==
    [at : {"order", "store"}, name : Names, covers : SUBSET Names, todo : SUBSET Names,
     ready : SUBSET Names, next : Names \cup {None}]
Beginning == [at : {"account"}, name : Names, covers : SUBSET Names]
Putting == [at : {"put"}, name : Names, map : CertMaps, passed : BOOLEAN]
Naming == [at : {"reload", "renewed", "failed", "delete"}, name : Names]
Doing == {AtRest} \cup Ordering \cup Beginning \cup Putting \cup Naming

\* The shape of the rows, of the map and of what each process has read.
CertificatesTypeOK ==
    /\ kept \in CertRows
    /\ assigned \in [Names -> Names \cup {None}]
    /\ presented \in CertMaps
    /\ doing \in [Procs -> Doing]
    /\ sweep \in [rows : CertRows, since : Nat]
    /\ serial \in Nat
    /\ overtaken \in BOOLEAN

\* A site is assigned a certificate that is stored (a foreign key).
AssignedThere == \A h \in Names : assigned[h] # None => assigned[h] \in DOMAIN kept

\* What the authority has been told is ready, and what it is about to be told, is
\* published; what is published is of an order, which covers it.
Published ==
    /\ \A p \in Procs : doing[p].at = "order" =>
          /\ \A h \in doing[p].ready : <<p, h>> \in tokens
          /\ doing[p].next # None => <<p, doing[p].next>> \in tokens
          /\ doing[p].todo \subseteq doing[p].covers
    /\ \A t \in tokens :
          /\ t \in Procs \X Names
          /\ doing[t[1]].at = "order" /\ t[2] \in doing[t[1]].covers

\* The sweep works on rows it has read; one of them that is an upload by now was
\* uploaded after.
SweepInv ==
    /\ sweep.since <= serial
    /\ ~Rests(Renewer) => doing[Renewer].name \in DOMAIN sweep.rows
    /\ \A n \in DOMAIN kept : kept[n].by = "hand" => kept[n].covers = {}
    /\ \A n \in DOMAIN kept \cap DOMAIN sweep.rows :
          kept[n].by = "hand" => kept[n].serial > sweep.since

\* Somebody has still to read what is stored, or has and is about to put it.
WillPut(p) ==
    \/ doing[p].at = "reload"
    \/ doing[p].at = "put" /\ doing[p].map = Stored

\* The map is what is stored, or will be, or was put by one that another passed.
\* One that nobody has passed since it read is up to date, or is not the last.
MapInv ==
    /\ overtaken \/ presented = Stored \/ \E p \in Procs : WillPut(p)
    /\ \A p \in Procs :
          doing[p].at = "put" /\ ~doing[p].passed =>
              doing[p].map = Stored \/ \E q \in Procs \ {p} : WillPut(q)

CertificatesInv ==
    CertificatesTypeOK /\ AssignedThere /\ Published /\ SweepInv /\ MapInv

-----------------------------------------------------------------------------
(* Rows and tables.                                                           *)

\* What a table of certificates is, taken apart and put together.
LEMMA RowsRead ==
  ASSUME NEW k
  PROVE  k \in CertRows <=>
           /\ DOMAIN k \subseteq Names
           /\ k \in [DOMAIN k -> CertRow]
BY DEF CertRows

\* The same of a map.
LEMMA MapsRead ==
  ASSUME NEW k
  PROVE  k \in CertMaps <=>
           /\ DOMAIN k \subseteq Names
           /\ k \in [DOMAIN k -> Nat]
BY DEF CertMaps

\* A row put in is there, and every other is as it was.
LEMMA PutIn ==
  ASSUME NEW k \in CertRows, NEW n \in Names, NEW row \in CertRow
  PROVE  /\ With(k, n, row) \in CertRows
         /\ DOMAIN With(k, n, row) = DOMAIN k \cup {n}
         /\ With(k, n, row)[n] = row
         /\ \A m \in DOMAIN k \ {n} : With(k, n, row)[m] = k[m]
BY RowsRead DEF With

\* Rows taken out leave the others as they were.
LEMMA TakenOut ==
  ASSUME NEW k \in CertRows, NEW S \in SUBSET DOMAIN k
  PROVE  /\ Restrict(k, S) \in CertRows
         /\ DOMAIN Restrict(k, S) = S
         /\ \A m \in S : Restrict(k, S)[m] = k[m]
<1>1. DOMAIN k \subseteq Names /\ k \in [DOMAIN k -> CertRow]
  BY RowsRead
<1>2. /\ DOMAIN Restrict(k, S) = S
      /\ \A m \in S : Restrict(k, S)[m] = k[m]
      /\ Restrict(k, S) \in [S -> CertRow]
  BY <1>1 DEF Restrict
<1> QED
  BY <1>1, <1>2, RowsRead

\* A row stored over another keeps what was noted of its failures.
LEMMA RowOver ==
  ASSUME NEW row \in CertRow, NEW f \in Nat, NEW w \in Nat
  PROVE  LET e == [row EXCEPT !.failures = f, !.wait = w]
         IN  e \in CertRow /\ e.serial = row.serial /\ e.by = row.by /\ e.covers = row.covers
BY DEF CertRow

\* The columns of a row that say nothing of what it is for.
LEMMA RowsNoted ==
  ASSUME NEW row \in CertRow, NEW b \in BOOLEAN
  PROVE  LET e == [row EXCEPT !.near = b]
         IN  e \in CertRow /\ e.serial = row.serial /\ e.by = row.by /\ e.covers = row.covers
BY DEF CertRow

\* A row as an order or an upload stores it.
LEMMA RowMade ==
  ASSUME NEW s \in Nat, NEW by \in {"hand", "order"}, NEW c \in SUBSET Names
  PROVE  LET r == Row(s, by, c)
         IN  r \in CertRow /\ r.serial = s /\ r.by = by /\ r.covers = c
BY DEF Row, CertRow

-----------------------------------------------------------------------------
(* The map.                                                                   *)

\* What tls::reload reads of a name is a certificate that is stored.
LEMMA ReloadReads ==
  ASSUME NEW s, NEW usable, NEW hosts
  PROVE  LET m == reload(s, usable, hosts)
         IN  /\ DOMAIN m \subseteq hosts
             /\ m = [h \in DOMAIN m |-> m[h]]
             /\ \A h \in DOMAIN m : m[h] \in usable
<1>1. \A h : RowsFor(s, usable, h) \subseteq {i \in DOMAIN s : Presents(s, usable, i)}
  BY DEF RowsFor
<1>2. \A h : RowsFor(s, usable, h) # {} =>
              (CHOOSE i \in RowsFor(s, usable, h) : TRUE) \in RowsFor(s, usable, h)
  OBVIOUS
<1>3. \A h : RowsFor(s, usable, h) # {} =>
              s[CHOOSE i \in RowsFor(s, usable, h) : TRUE].cert \in usable
  BY <1>1, <1>2 DEF Presents
<1> QED
  BY <1>3 DEF reload

\* It is a number for some of the names.
LEMMA StoredIsMap ==
  ASSUME CertificatesTypeOK
  PROVE  Stored \in CertMaps
<1> DEFINE m == reload(Sites, DOMAIN kept, Names)
<1>1. /\ DOMAIN m \subseteq Names
      /\ \A h \in DOMAIN m : m[h] \in DOMAIN kept
  BY ReloadReads
<1> HIDE DEF m
<1>2. \A h \in DOMAIN m : kept[m[h]].serial \in Nat
  BY <1>1, RowsRead DEF CertificatesTypeOK, CertRow
<1>3. Stored = [n \in DOMAIN m |-> kept[m[n]].serial]
  BY DEF Stored, m
<1> QED
  BY <1>1, <1>2, <1>3, MapsRead

\* It goes by the assignments and the serial numbers of the rows, and by nothing
\* else of them.
LEMMA StoredSame ==
  ASSUME assigned' = assigned, DOMAIN kept' = DOMAIN kept,
         \A n \in DOMAIN kept : kept'[n].serial = kept[n].serial
  PROVE  Stored' = Stored
<1> DEFINE m == reload(Sites, DOMAIN kept, Names)
<1>1. \A h \in DOMAIN m : m[h] \in DOMAIN kept
  BY ReloadReads
<1>2. Sites' = Sites
  BY DEF Sites
<1>3. m' = m
  BY <1>2
<1>4. Stored = [n \in DOMAIN m |-> kept[m[n]].serial]
  BY DEF Stored
<1>5. Stored' = [n \in DOMAIN m |-> kept'[m[n]].serial]
  BY <1>3 DEF Stored
<1> HIDE DEF m
<1> QED
  BY <1>1, <1>4, <1>5

-----------------------------------------------------------------------------
(* What a process is doing.                                                   *)

\* A process's record, by where it is.
LEMMA DoingRead ==
  ASSUME NEW d \in Doing
  PROVE  /\ d.at = "rest" => d = AtRest
         /\ d.at \in {"order", "store"} => d \in Ordering
         /\ d.at = "account" => d \in Beginning
         /\ d.at = "put" => d \in Putting
         /\ d.at \in {"reload", "renewed", "failed", "delete"} => d \in Naming
         /\ d.at # "rest" => d.name \in Names
<1>1. CASE d = AtRest
  BY <1>1 DEF AtRest
<1>2. CASE d \in Ordering
  BY <1>2 DEF Ordering
<1>3. CASE d \in Beginning
  BY <1>3 DEF Beginning
<1>4. CASE d \in Putting
  BY <1>4 DEF Putting
<1>5. CASE d \in Naming
  BY <1>5 DEF Naming
<1> QED
  BY <1>1, <1>2, <1>3, <1>4, <1>5 DEF Doing

\* The records a process is given.
LEMMA DoingMade ==
  ASSUME NEW n \in Names
  PROVE  /\ AtRest \in Doing /\ AtRest.at = "rest"
         /\ \A a \in {"reload", "renewed", "failed", "delete"} :
              [at |-> a, name |-> n] \in Naming
         /\ \A c \in SUBSET Names : Begin(n, c) \in Beginning
         /\ \A m \in CertMaps, b \in BOOLEAN :
              [at |-> "put", name |-> n, map |-> m, passed |-> b] \in Putting
<1>1. \A c \in SUBSET Names : Begin(n, c) \in Beginning
  BY DEF Begin, Beginning
<1>2. AtRest \in Doing /\ AtRest.at = "rest"
  BY DEF AtRest, Doing
<1>3. \A m \in CertMaps, b \in BOOLEAN :
              [at |-> "put", name |-> n, map |-> m, passed |-> b] \in Putting
  BY DEF Putting
<1> QED
  BY <1>1, <1>2, <1>3 DEF Naming

-----------------------------------------------------------------------------
(* What a step leaves alone.                                                  *)

\* The answers stand while no order ends and one that begins promises none.
LEMMA PublishedKept ==
  ASSUME Published, tokens' = tokens,
         \A q \in Procs :
            \/ doing'[q] = doing[q]
            \/ /\ doing[q].at # "order"
               /\ doing'[q].at = "order" =>
                    /\ doing'[q].ready = {} /\ doing'[q].next = None
                    /\ doing'[q].todo \subseteq doing'[q].covers
  PROVE  Published'
BY DEF Published

\* An order that ends takes its answers with it.
LEMMA PublishedEnds ==
  ASSUME Published, NEW p \in Procs, tokens' = Withdrawn(p), doing'[p].at # "order",
         \A q \in Procs \ {p} : doing'[q] = doing[q]
  PROVE  Published'
<1>1. \A q \in Procs : \A h : q # p /\ <<q, h>> \in tokens => <<q, h>> \in tokens'
  BY DEF Withdrawn
<1>2. ASSUME NEW q \in Procs, doing'[q].at = "order"
      PROVE  /\ \A h \in doing'[q].ready : <<q, h>> \in tokens'
             /\ doing'[q].next # None => <<q, doing'[q].next>> \in tokens'
             /\ doing'[q].todo \subseteq doing'[q].covers
  BY <1>1, <1>2 DEF Published
<1>3. ASSUME NEW t \in tokens'
      PROVE  /\ t \in Procs \X Names
             /\ doing'[t[1]].at = "order" /\ t[2] \in doing'[t[1]].covers
  <2>1. t \in tokens /\ t[1] # p
    BY DEF Withdrawn
  <2> QED
    BY <2>1 DEF Published
<1> QED
  BY <1>2, <1>3 DEF Published

\* The sweep's rows are as good as they were while no certificate is uploaded
\* and the task goes on with the one it has or rests.
LEMMA SweepKept ==
  ASSUME SweepInv, sweep' = sweep, serial' = serial, DOMAIN kept' \subseteq DOMAIN kept,
         \A n \in DOMAIN kept' :
            /\ kept'[n].serial = kept[n].serial /\ kept'[n].by = kept[n].by
            /\ kept'[n].covers = kept[n].covers,
         \/ doing'[Renewer].at = "rest"
         \/ doing[Renewer].at # "rest" /\ doing'[Renewer].name = doing[Renewer].name
  PROVE  SweepInv'
BY DEF SweepInv, Rests

\* The map is as good as it was while the rows stay and no reload moves.
LEMMA MapKept ==
  ASSUME MapInv, Stored' = Stored, presented' = presented, overtaken' = overtaken,
         \A q \in Procs :
            \/ doing'[q] = doing[q]
            \/ doing[q].at \notin {"reload", "put"} /\ doing'[q].at # "put"
  PROVE  MapInv'
<1>1. \A q \in Procs : WillPut(q) => WillPut(q)'
  BY DEF WillPut
<1>2. overtaken' \/ presented' = Stored' \/ \E q \in Procs : WillPut(q)'
  BY <1>1 DEF MapInv
<1>3. ASSUME NEW q \in Procs, doing'[q].at = "put", ~doing'[q].passed
      PROVE  doing'[q].map = Stored' \/ \E r \in Procs \ {q} : WillPut(r)'
  BY <1>1, <1>3 DEF MapInv
<1> QED
  BY <1>2, <1>3 DEF MapInv

\* What changes the rows or the assignments goes on to a reload.
LEMMA MapComes ==
  ASSUME NEW p \in Procs, doing'[p].at = "reload"
  PROVE  MapInv'
<1>1. WillPut(p)'
  BY DEF WillPut
<1> QED
  BY <1>1 DEF MapInv

-----------------------------------------------------------------------------
(* The map is read and put.                                                   *)

\* A reload reads what is stored, and is one of those about to put it.
LEMMA MapReadKeeps ==
  ASSUME CertificatesInv, NEW p \in Procs, MapRead(p)
  PROVE  CertificatesInv'
<1> DEFINE d == [at |-> "put", name |-> doing[p].name, map |-> Stored, passed |-> FALSE]
<1>1. doing[p] \in Doing /\ doing[p].at = "reload" /\ doing[p].name \in Names
  BY DoingRead DEF CertificatesInv, CertificatesTypeOK, MapRead
<1>2. d \in Doing /\ d.at = "put" /\ d.name = doing[p].name /\ d.map = Stored /\ d.passed = FALSE
  BY <1>1, StoredIsMap, DoingMade DEF CertificatesInv, Doing
<1>3. /\ doing' = [doing EXCEPT ![p] = d]
      /\ UNCHANGED <<kept, assigned, tokens, presented, sweep, serial, overtaken>>
  BY DEF MapRead, tables
<1> HIDE DEF d
<1>4. doing' \in [Procs -> Doing] /\ doing'[p] = d /\ \A q \in Procs \ {p} : doing'[q] = doing[q]
  BY <1>2, <1>3 DEF CertificatesInv, CertificatesTypeOK
<1>5. Stored' = Stored
  BY <1>3, StoredSame
<1>6. CertificatesTypeOK' /\ AssignedThere'
  BY <1>3, <1>4 DEF CertificatesInv, CertificatesTypeOK, AssignedThere
<1>7. Published'
  BY <1>1, <1>2, <1>3, <1>4, PublishedKept DEF CertificatesInv
<1>8. SweepInv'
  BY <1>1, <1>2, <1>3, <1>4, SweepKept DEF CertificatesInv
<1>9. MapInv'
  <2>1. \A q \in Procs : WillPut(q) => WillPut(q)'
    BY <1>2, <1>4, <1>5 DEF WillPut
  <2>2. overtaken' \/ presented' = Stored' \/ \E q \in Procs : WillPut(q)'
    BY <1>3, <1>5, <2>1 DEF CertificatesInv, MapInv
  <2>3. ASSUME NEW q \in Procs, doing'[q].at = "put", ~doing'[q].passed
        PROVE  doing'[q].map = Stored' \/ \E r \in Procs \ {q} : WillPut(r)'
    BY <1>2, <1>4, <1>5, <2>1, <2>3 DEF CertificatesInv, MapInv
  <2> QED
    BY <2>2, <2>3 DEF MapInv
<1> QED
  BY <1>6, <1>7, <1>8, <1>9 DEF CertificatesInv

\* A reload that nobody passed puts what is stored, or what is stored is still to
\* be put by another; each other one under way is passed by this.
LEMMA MapPutKeeps ==
  ASSUME CertificatesInv, NEW p \in Procs, MapPut(p)
  PROVE  CertificatesInv'
<1> DEFINE d == IF p = Renewer THEN [at |-> "renewed", name |-> doing[p].name] ELSE AtRest
<1>1. /\ doing \in [Procs -> Doing]
      /\ doing[p].at = "put" /\ doing[p].name \in Names
      /\ doing[p] \in Putting
  BY DoingRead DEF CertificatesInv, CertificatesTypeOK, MapPut
<1>2. /\ d \in Doing /\ d.at \in {"renewed", "rest"}
      /\ p = Renewer => d.name = doing[p].name
  BY <1>1, DoingMade DEF Doing, AtRest
<1>3. /\ presented' = doing[p].map /\ overtaken' = doing[p].passed
      /\ doing' = [q \in Procs |-> IF q = p THEN d
                     ELSE IF doing[q].at = "put" THEN [doing[q] EXCEPT !.passed = TRUE]
                     ELSE doing[q]]
      /\ UNCHANGED <<kept, assigned, tokens, sweep, serial>>
  BY DEF MapPut, tables
<1> HIDE DEF d
<1>4. ASSUME NEW q \in Procs, q # p
      PROVE  /\ doing'[q] \in Doing
             /\ doing'[q].at = doing[q].at
             /\ doing[q].at # "put" => doing'[q] = doing[q]
             /\ doing[q].at = "put" => /\ doing'[q].map = doing[q].map /\ doing'[q].passed = TRUE
                                       /\ doing'[q].name = doing[q].name
  <2>1. CASE doing[q].at = "put"
    <3>1. doing[q] \in Putting /\ doing'[q] = [doing[q] EXCEPT !.passed = TRUE]
      BY <1>1, <1>3, <1>4, <2>1, DoingRead
    <3>2. doing'[q] \in Putting /\ doing'[q].at = doing[q].at /\ doing'[q].map = doing[q].map
          /\ doing'[q].passed = TRUE /\ doing'[q].name = doing[q].name
      BY <3>1 DEF Putting
    <3> QED
      BY <2>1, <3>2 DEF Doing
  <2>2. CASE doing[q].at # "put"
    BY <1>1, <1>3, <1>4, <2>2
  <2> QED
    BY <2>1, <2>2
<1>5. doing'[p] = d /\ doing' \in [Procs -> Doing]
  <2>1. \A q \in Procs : doing'[q] \in Doing
    BY <1>2, <1>3, <1>4
  <2> QED
    BY <1>3, <2>1
<1>6. Stored' = Stored
  BY <1>3, StoredSame
<1>7. CertificatesTypeOK' /\ AssignedThere'
  <2>1. presented' \in CertMaps /\ overtaken' \in BOOLEAN
    BY <1>1, <1>3 DEF Putting
  <2> QED
    BY <1>3, <1>5, <2>1 DEF CertificatesInv, CertificatesTypeOK, AssignedThere
<1>8. Published'
  <2>1. ASSUME NEW q \in Procs
        PROVE  doing'[q] = doing[q] \/ (doing[q].at # "order" /\ doing'[q].at # "order")
    <3>1. CASE q = p
      BY <1>1, <1>2, <1>5, <3>1
    <3>2. CASE q # p
      <4>1. doing[q].at = "put" => doing[q].at # "order" /\ doing'[q].at # "order"
        BY <1>4, <3>2
      <4>2. doing[q].at # "put" => doing'[q] = doing[q]
        BY <1>4, <3>2
      <4> QED
        BY <4>1, <4>2
    <3> QED
      BY <3>1, <3>2
  <2> QED
    BY <1>3, <2>1, PublishedKept DEF CertificatesInv
<1>9. SweepInv'
  <2>1. \/ doing'[Renewer].at = "rest"
        \/ doing[Renewer].at # "rest" /\ doing'[Renewer].name = doing[Renewer].name
    <3>1. CASE p = Renewer
      BY <1>1, <1>2, <1>5, <3>1
    <3>2. CASE p # Renewer
      <4>1. Renewer \in Procs
        BY DEF Procs
      <4> QED
        BY <1>4, <3>2, <4>1
    <3> QED
      BY <3>1, <3>2
  <2> QED
    BY <1>3, <2>1, SweepKept DEF CertificatesInv
<1>10. MapInv'
  <2>1. \A q \in Procs \ {p} : WillPut(q) => WillPut(q)'
    BY <1>4, <1>6 DEF WillPut
  <2>2. overtaken' \/ presented' = Stored' \/ \E q \in Procs : WillPut(q)'
    BY <1>1, <1>3, <1>6, <2>1 DEF CertificatesInv, MapInv
  <2>3. \A q \in Procs : doing'[q].at = "put" => doing'[q].passed
    BY <1>2, <1>4, <1>5
  <2> QED
    BY <2>2, <2>3 DEF MapInv
<1> QED
  BY <1>7, <1>8, <1>9, <1>10 DEF CertificatesInv

-----------------------------------------------------------------------------
(* An order.                                                                  *)

\* An order begins with no answer promised.
LEMMA AccountKeeps ==
  ASSUME CertificatesInv, NEW p \in Procs, account(p)
  PROVE  CertificatesInv'
<1> DEFINE d == [at |-> "order", name |-> doing[p].name, covers |-> doing[p].covers,
                 todo |-> doing[p].covers, ready |-> {}, next |-> None]
<1>1. doing[p] \in Beginning /\ doing[p].at = "account"
  BY DoingRead DEF CertificatesInv, CertificatesTypeOK, account
<1>2. d \in Ordering
  BY <1>1 DEF Ordering, Beginning
<1>3. /\ d \in Doing /\ d.at = "order" /\ d.name = doing[p].name /\ d.ready = {}
      /\ d.next = None /\ d.todo \subseteq d.covers
  BY <1>2 DEF Doing
<1>4. /\ doing' = [doing EXCEPT ![p] = d]
      /\ UNCHANGED <<kept, assigned, tokens, presented, sweep, serial, overtaken>>
  BY DEF account
<1> HIDE DEF d
<1>5. doing' \in [Procs -> Doing] /\ doing'[p] = d /\ \A q \in Procs \ {p} : doing'[q] = doing[q]
  BY <1>3, <1>4 DEF CertificatesInv, CertificatesTypeOK
<1>6. CertificatesTypeOK' /\ AssignedThere'
  BY <1>4, <1>5 DEF CertificatesInv, CertificatesTypeOK, AssignedThere
<1>7. Published'
  BY <1>1, <1>3, <1>4, <1>5, PublishedKept DEF CertificatesInv
<1>8. SweepInv'
  BY <1>1, <1>3, <1>4, <1>5, SweepKept DEF CertificatesInv
<1>9. MapInv'
  BY <1>1, <1>3, <1>4, <1>5, StoredSame, MapKept DEF CertificatesInv
<1> QED
  BY <1>6, <1>7, <1>8, <1>9 DEF CertificatesInv

\* An order that goes on is the same order, and only what it has done changes.
LEMMA OrderGoesOn ==
  ASSUME CertificatesInv, NEW p \in Procs, doing[p].at = "order", NEW d \in Ordering,
         d.at = "order", d.name = doing[p].name, d.covers = doing[p].covers,
         d.todo \subseteq doing[p].todo,
         doing' = [doing EXCEPT ![p] = d], tokens \subseteq tokens',
         \A h \in d.ready : <<p, h>> \in tokens',
         d.next # None => <<p, d.next>> \in tokens',
         \A t \in tokens' \ tokens : \E h \in doing[p].todo : t = <<p, h>>,
         UNCHANGED <<kept, assigned, presented, sweep, serial, overtaken>>
  PROVE  CertificatesInv'
<1>1. doing[p] \in Ordering
  BY DoingRead DEF CertificatesInv, CertificatesTypeOK
<1>2. doing' \in [Procs -> Doing] /\ doing'[p] = d /\ \A q \in Procs \ {p} : doing'[q] = doing[q]
  BY DEF CertificatesInv, CertificatesTypeOK, Doing
<1>3. CertificatesTypeOK' /\ AssignedThere'
  BY <1>2 DEF CertificatesInv, CertificatesTypeOK, AssignedThere
<1>4. Published'
  <2>1. ASSUME NEW q \in Procs, doing'[q].at = "order"
        PROVE  /\ \A h \in doing'[q].ready : <<q, h>> \in tokens'
               /\ doing'[q].next # None => <<q, doing'[q].next>> \in tokens'
               /\ doing'[q].todo \subseteq doing'[q].covers
    BY <1>2, <2>1 DEF CertificatesInv, Published
  <2>2. ASSUME NEW t \in tokens'
        PROVE  /\ t \in Procs \X Names
               /\ doing'[t[1]].at = "order" /\ t[2] \in doing'[t[1]].covers
    <3>1. CASE t \in tokens
      BY <1>2, <3>1 DEF CertificatesInv, Published
    <3>2. CASE t \notin tokens
      <4>1. PICK h \in doing[p].todo : t = <<p, h>>
        BY <3>2
      <4>2. h \in Names /\ h \in doing[p].covers
        BY <1>1 DEF Ordering, CertificatesInv, Published
      <4> QED
        BY <1>2, <4>1, <4>2
    <3> QED
      BY <3>1, <3>2
  <2> QED
    BY <2>1, <2>2 DEF Published
<1>5. SweepInv'
  BY <1>2, SweepKept DEF CertificatesInv
<1>6. MapInv'
  BY <1>2, StoredSame, MapKept DEF CertificatesInv
<1> QED
  BY <1>3, <1>4, <1>5, <1>6 DEF CertificatesInv

\* One name less to answer for.
LEMMA StillValidKeeps ==
  ASSUME CertificatesInv, NEW p \in Procs, StillValid(p)
  PROVE  CertificatesInv'
<1>1. PICK h \in doing[p].todo : doing' = [doing EXCEPT ![p].todo = @ \ {h}]
  BY DEF StillValid
<1> DEFINE d == [doing[p] EXCEPT !.todo = @ \ {h}]
<1>2. doing[p] \in Ordering /\ doing[p].at = "order" /\ doing[p].next = None
  BY DoingRead DEF CertificatesInv, CertificatesTypeOK, StillValid
<1>3. /\ d \in Ordering /\ d.at = "order" /\ d.name = doing[p].name /\ d.covers = doing[p].covers
      /\ d.todo \subseteq doing[p].todo /\ d.ready = doing[p].ready /\ d.next = None
  BY <1>2 DEF Ordering
<1>4. /\ doing' = [doing EXCEPT ![p] = d]
      /\ UNCHANGED <<kept, assigned, tokens, presented, sweep, serial, overtaken>>
  BY <1>1 DEF StillValid, tables, CertificatesInv, CertificatesTypeOK
<1>5. \A k \in d.ready : <<p, k>> \in tokens
  BY <1>2, <1>3 DEF CertificatesInv, Published
<1> HIDE DEF d
<1> QED
  BY <1>2, <1>3, <1>4, <1>5, OrderGoesOn

\* An answer is published before the authority hears of it.
LEMMA PublishKeeps ==
  ASSUME CertificatesInv, NEW p \in Procs, Publish(p)
  PROVE  CertificatesInv'
<1>1. PICK h \in doing[p].todo :
         tokens' = tokens \cup {<<p, h>>} /\ doing' = [doing EXCEPT ![p].next = h]
  BY DEF Publish
<1> DEFINE d == [doing[p] EXCEPT !.next = h]
<1>2. doing[p] \in Ordering /\ doing[p].at = "order"
  BY DoingRead DEF CertificatesInv, CertificatesTypeOK, Publish
<1>3. /\ d \in Ordering /\ d.at = "order" /\ d.name = doing[p].name /\ d.covers = doing[p].covers
      /\ d.todo \subseteq doing[p].todo /\ d.ready = doing[p].ready /\ d.next = h
  BY <1>2 DEF Ordering
<1>4. /\ doing' = [doing EXCEPT ![p] = d]
      /\ UNCHANGED <<kept, assigned, presented, sweep, serial, overtaken>>
  BY <1>1 DEF Publish, tables, CertificatesInv, CertificatesTypeOK
<1>5. \A k \in d.ready : <<p, k>> \in tokens
  BY <1>2, <1>3 DEF CertificatesInv, Published
<1> HIDE DEF d
<1> QED
  BY <1>1, <1>2, <1>3, <1>4, <1>5, OrderGoesOn

\* The authority hears of an answer that is there.
LEMMA SetReadyKeeps ==
  ASSUME CertificatesInv, NEW p \in Procs, SetReady(p)
  PROVE  CertificatesInv'
<1> DEFINE h == doing[p].next
           d == [doing[p] EXCEPT !.next = None, !.todo = @ \ {h}, !.ready = @ \cup {h}]
<1>1. doing[p] \in Ordering /\ doing[p].at = "order" /\ h # None
  BY DoingRead DEF CertificatesInv, CertificatesTypeOK, SetReady
<1>2. h \in Names /\ <<p, h>> \in tokens
  BY <1>1 DEF Ordering, CertificatesInv, Published
<1>3. /\ d \in Ordering /\ d.at = "order" /\ d.name = doing[p].name /\ d.covers = doing[p].covers
      /\ d.todo \subseteq doing[p].todo /\ d.ready = doing[p].ready \cup {h} /\ d.next = None
  BY <1>1, <1>2 DEF Ordering
<1>4. /\ doing' = [doing EXCEPT ![p] = d]
      /\ UNCHANGED <<kept, assigned, tokens, presented, sweep, serial, overtaken>>
  BY DEF SetReady, tables, CertificatesInv, CertificatesTypeOK
<1>5. \A k \in d.ready : <<p, k>> \in tokens
  BY <1>1, <1>2, <1>3 DEF CertificatesInv, Published
<1> HIDE DEF d
<1> QED
  BY <1>1, <1>3, <1>4, <1>5, OrderGoesOn

\* An order over, whichever way.
LEMMA OrderEnds ==
  ASSUME CertificatesInv, NEW p \in Procs, doing[p].at \in {"account", "order"}, NEW d \in Doing,
         d.at \notin {"order", "reload", "put"},
         (d.at = "rest" /\ p # Renewer) \/ d.name = doing[p].name,
         doing' = [doing EXCEPT ![p] = d], tokens' = Withdrawn(p),
         UNCHANGED <<kept, assigned, presented, sweep, serial, overtaken>>
  PROVE  CertificatesInv'
<1>1. doing' \in [Procs -> Doing] /\ doing'[p] = d /\ \A q \in Procs \ {p} : doing'[q] = doing[q]
  BY DEF CertificatesInv, CertificatesTypeOK
<1>2. CertificatesTypeOK' /\ AssignedThere'
  BY <1>1 DEF CertificatesInv, CertificatesTypeOK, AssignedThere
<1>3. Published'
  BY <1>1, PublishedEnds DEF CertificatesInv
<1>4. SweepInv'
  <2>1. \/ doing'[Renewer].at = "rest"
        \/ doing[Renewer].at # "rest" /\ doing'[Renewer].name = doing[Renewer].name
        \/ doing'[Renewer] = doing[Renewer]
    BY <1>1 DEF Procs
  <2> QED
    BY <1>1, <2>1, SweepKept DEF CertificatesInv
<1>5. MapInv'
  BY <1>1, StoredSame, MapKept DEF CertificatesInv
<1> QED
  BY <1>2, <1>3, <1>4, <1>5 DEF CertificatesInv

\* The order is issued and its answers withdrawn.
LEMMA IssueKeeps ==
  ASSUME CertificatesInv, NEW p \in Procs, Issue(p)
  PROVE  CertificatesInv'
<1> DEFINE d == [doing[p] EXCEPT !.at = "store"]
<1>1. doing[p] \in Ordering /\ doing[p].at = "order"
  BY DoingRead DEF CertificatesInv, CertificatesTypeOK, Issue
<1>2. d \in Ordering /\ d.at = "store" /\ d.name = doing[p].name
  BY <1>1 DEF Ordering
<1>3. /\ doing' = [doing EXCEPT ![p] = d] /\ tokens' = Withdrawn(p)
      /\ UNCHANGED <<kept, assigned, presented, sweep, serial, overtaken>>
  BY DEF Issue, On, tables, CertificatesInv, CertificatesTypeOK
<1> HIDE DEF d
<1> QED
  BY <1>1, <1>2, <1>3, OrderEnds DEF Doing

\* The order fails and its answers are withdrawn.
LEMMA OrderFailsKeeps ==
  ASSUME CertificatesInv, NEW p \in Procs, OrderFails(p)
  PROVE  CertificatesInv'
<1> DEFINE d == IF p = Renewer THEN [at |-> "failed", name |-> doing[p].name] ELSE AtRest
<1>1. doing[p].name \in Names /\ doing[p].at \in {"account", "order"}
  BY DoingRead DEF CertificatesInv, CertificatesTypeOK, OrderFails
<1>2. /\ d \in Doing /\ d.at \in {"failed", "rest"}
      /\ (d.at = "rest" /\ p # Renewer) \/ d.name = doing[p].name
  BY <1>1, DoingMade DEF Doing
<1>3. /\ doing' = [doing EXCEPT ![p] = d] /\ tokens' = Withdrawn(p)
      /\ UNCHANGED <<kept, assigned, presented, sweep, serial, overtaken>>
  BY DEF OrderFails, tables
<1> HIDE DEF d
<1> QED
  BY <1>1, <1>2, <1>3, OrderEnds

-----------------------------------------------------------------------------
(* Rows stored, taken out and noted.                                          *)

\* A row stored by an order or an upload goes on to a reload.
LEMMA RowStored ==
  ASSUME CertificatesInv, NEW p \in Procs, NEW n \in Names, NEW row \in CertRow,
         row.serial = serial + 1, row.by = "hand" => row.covers = {},
         kept' = With(kept, n, row), serial' = serial + 1,
         doing' = [doing EXCEPT ![p] = [at |-> "reload", name |-> n]],
         doing[p].at # "order",
         p = Renewer => doing[p].at # "rest" /\ doing[p].name = n,
         UNCHANGED <<assigned, tokens, presented, sweep, overtaken>>
  PROVE  CertificatesInv'
<1>1. [at |-> "reload", name |-> n] \in Doing
  BY DoingMade DEF Doing
<1>2. /\ doing' \in [Procs -> Doing] /\ doing'[p] = [at |-> "reload", name |-> n]
      /\ \A q \in Procs \ {p} : doing'[q] = doing[q]
  BY <1>1 DEF CertificatesInv, CertificatesTypeOK
<1>3. /\ kept' \in CertRows /\ DOMAIN kept' = DOMAIN kept \cup {n} /\ kept'[n] = row
      /\ \A m \in DOMAIN kept \ {n} : kept'[m] = kept[m]
  <2>1. kept \in CertRows
    BY DEF CertificatesInv, CertificatesTypeOK
  <2> QED
    BY <2>1, PutIn
<1>4. serial \in Nat /\ sweep.since \in Nat
  BY DEF CertificatesInv, CertificatesTypeOK
<1>5. CertificatesTypeOK' /\ AssignedThere'
  BY <1>2, <1>3, <1>4 DEF CertificatesInv, CertificatesTypeOK, AssignedThere
<1>6. Published'
  BY <1>2, PublishedKept DEF CertificatesInv
<1>7. SweepInv'
  <2>1. sweep'.since <= serial' /\ serial + 1 > sweep.since
    BY <1>4 DEF CertificatesInv, SweepInv
  <2>2. doing'[Renewer].at # "rest" => doing'[Renewer].name \in DOMAIN sweep'.rows
    BY <1>2 DEF CertificatesInv, SweepInv, Rests, Procs
  <2>3. \A m \in DOMAIN kept' : kept'[m].by = "hand" => kept'[m].covers = {}
    BY <1>3 DEF CertificatesInv, SweepInv
  <2>4. \A m \in DOMAIN kept' \cap DOMAIN sweep'.rows :
           kept'[m].by = "hand" => kept'[m].serial > sweep'.since
    BY <1>3, <2>1 DEF CertificatesInv, SweepInv
  <2> QED
    BY <2>1, <2>2, <2>3, <2>4 DEF SweepInv, Rests
<1>8. MapInv'
  BY <1>2, MapComes
<1> QED
  BY <1>5, <1>6, <1>7, <1>8 DEF CertificatesInv

\* What an order stores is not an upload.
LEMMA StoreKeeps ==
  ASSUME CertificatesInv, NEW p \in Procs, Store(p)
  PROVE  CertificatesInv'
<1> DEFINE n == doing[p].name
           new == Row(serial + 1, "order", doing[p].covers)
           row == IF n \in DOMAIN kept
                  THEN [new EXCEPT !.failures = kept[n].failures, !.wait = kept[n].wait]
                  ELSE new
<1>1. doing[p] \in Ordering /\ doing[p].at = "store"
  BY DoingRead DEF CertificatesInv, CertificatesTypeOK, Store
<1>2. n \in Names /\ doing[p].covers \in SUBSET Names /\ serial + 1 \in Nat
  BY <1>1 DEF Ordering, CertificatesInv, CertificatesTypeOK
<1>3. n \in DOMAIN kept => kept[n].failures \in Nat /\ kept[n].wait \in Nat
  BY RowsRead DEF CertRow, CertificatesInv, CertificatesTypeOK
<1>4. row \in CertRow /\ row.serial = serial + 1 /\ row.by = "order"
  <2>1. new \in CertRow /\ new.serial = serial + 1 /\ new.by = "order"
    BY <1>2, RowMade
  <2> HIDE DEF new
  <2>2. CASE n \in DOMAIN kept
    <3> DEFINE f == kept[n].failures
               w == kept[n].wait
               e == [new EXCEPT !.failures = f, !.wait = w]
    <3>1. f \in Nat /\ w \in Nat
      BY <1>3, <2>2
    <3> HIDE DEF f, w
    <3>2. e \in CertRow /\ e.serial = new.serial /\ e.by = new.by /\ e.covers = new.covers
      BY <2>1, <3>1, RowOver
    <3>3. row = e
      BY <2>2 DEF f, w
    <3> QED
      BY <2>1, <3>2, <3>3
  <2>3. CASE n \notin DOMAIN kept
    BY <2>1, <2>3
  <2> QED
    BY <2>2, <2>3
<1>5. /\ kept' = With(kept, n, row) /\ serial' = serial + 1
      /\ doing' = [doing EXCEPT ![p] = [at |-> "reload", name |-> n]]
      /\ UNCHANGED <<assigned, tokens, presented, sweep, overtaken>>
  BY DEF Store, Put
<1> HIDE DEF n, row
<1> QED
  BY <1>1, <1>2, <1>4, <1>5, RowStored DEF n

\* What is uploaded has a serial above the one the sweep began at.
LEMMA CertCreateKeeps ==
  ASSUME CertificatesInv, NEW p \in Pages, NEW n \in Names, post_cert_create(p, n)
  PROVE  CertificatesInv'
<1> DEFINE new == Row(serial + 1, "hand", {})
           row == IF n \in DOMAIN kept
                  THEN [new EXCEPT !.failures = kept[n].failures, !.wait = kept[n].wait]
                  ELSE new
<1>1. p \in Procs /\ p # Renewer /\ doing[p].at = "rest"
  BY CertificatesAssumption DEF Procs, post_cert_create, Opens, Rests
<1>2. serial + 1 \in Nat
  BY DEF CertificatesInv, CertificatesTypeOK
<1>3. n \in DOMAIN kept => kept[n].failures \in Nat /\ kept[n].wait \in Nat
  BY RowsRead DEF CertRow, CertificatesInv, CertificatesTypeOK
<1>4. row \in CertRow /\ row.serial = serial + 1 /\ row.covers = {}
  <2>1. new \in CertRow /\ new.serial = serial + 1 /\ new.covers = {}
    BY <1>2, RowMade
  <2> HIDE DEF new
  <2>2. CASE n \in DOMAIN kept
    <3> DEFINE f == kept[n].failures
               w == kept[n].wait
               e == [new EXCEPT !.failures = f, !.wait = w]
    <3>1. f \in Nat /\ w \in Nat
      BY <1>3, <2>2
    <3> HIDE DEF f, w
    <3>2. e \in CertRow /\ e.serial = new.serial /\ e.by = new.by /\ e.covers = new.covers
      BY <2>1, <3>1, RowOver
    <3>3. row = e
      BY <2>2 DEF f, w
    <3> QED
      BY <2>1, <3>2, <3>3
  <2>3. CASE n \notin DOMAIN kept
    BY <2>1, <2>3
  <2> QED
    BY <2>2, <2>3
<1>5. /\ kept' = With(kept, n, row) /\ serial' = serial + 1
      /\ doing' = [doing EXCEPT ![p] = [at |-> "reload", name |-> n]]
      /\ UNCHANGED <<assigned, tokens, presented, sweep, overtaken>>
  BY DEF post_cert_create, Put
<1> HIDE DEF row
<1> QED
  BY <1>1, <1>4, <1>5, RowStored

\* Taking out what is not there changes nothing, and sites lose only what goes.
LEMMA CertDeleteKeeps ==
  ASSUME CertificatesInv, NEW p \in Procs, post_cert_delete(p)
  PROVE  CertificatesInv'
<1> DEFINE n == doing[p].name
           d == IF n \in DOMAIN kept THEN [at |-> "reload", name |-> n] ELSE AtRest
<1>1. doing[p] \in Naming /\ doing[p].at = "delete" /\ n \in Names
  BY DoingRead DEF CertificatesInv, CertificatesTypeOK, post_cert_delete
<1>2. d \in Doing /\ d.at \in {"reload", "rest"} /\ (d.at = "reload" => d.name = n)
  BY <1>1, DoingMade DEF Doing
<1>3. doing' = [doing EXCEPT ![p] = d]
  <2>1. [doing[p] EXCEPT !.at = "reload"] = [at |-> "reload", name |-> n]
    BY <1>1 DEF Naming
  <2> QED
    BY <2>1 DEF post_cert_delete, On, Done, CertificatesInv, CertificatesTypeOK
<1>4. /\ kept' = Restrict(kept, DOMAIN kept \ {n})
      /\ assigned' = [h \in Names |-> IF assigned[h] = n THEN None ELSE assigned[h]]
      /\ UNCHANGED <<tokens, presented, sweep, serial, overtaken>>
  BY DEF post_cert_delete, Without
<1>5. /\ kept' \in CertRows /\ DOMAIN kept' = DOMAIN kept \ {n}
      /\ \A m \in DOMAIN kept \ {n} : kept'[m] = kept[m]
  BY <1>4, TakenOut DEF CertificatesInv, CertificatesTypeOK
<1>6. d.at = "reload" <=> n \in DOMAIN kept
  BY DEF AtRest
<1> HIDE DEF n, d
<1>7. doing' \in [Procs -> Doing] /\ doing'[p] = d /\ \A q \in Procs \ {p} : doing'[q] = doing[q]
  BY <1>2, <1>3 DEF CertificatesInv, CertificatesTypeOK
<1>8. assigned' \in [Names -> Names \cup {None}]
  BY <1>4 DEF CertificatesInv, CertificatesTypeOK
<1>9. CertificatesTypeOK'
  BY <1>4, <1>5, <1>7, <1>8 DEF CertificatesInv, CertificatesTypeOK
<1>10. AssignedThere'
  BY <1>4, <1>5 DEF CertificatesInv, AssignedThere
<1>11. Published'
  BY <1>1, <1>2, <1>4, <1>7, PublishedKept DEF CertificatesInv
<1>12. SweepInv'
  <2>1. p = Renewer => doing[Renewer].at # "rest" /\ doing[Renewer].name = n
    BY <1>1 DEF n
  <2>2. \/ doing'[Renewer].at = "rest"
        \/ doing[Renewer].at # "rest" /\ doing'[Renewer].name = doing[Renewer].name
        \/ doing'[Renewer] = doing[Renewer]
    BY <1>2, <1>7, <2>1 DEF Procs
  <2> QED
    BY <1>4, <1>5, <2>2, SweepKept DEF CertificatesInv
<1>13. MapInv'
  <2>1. CASE n \in DOMAIN kept
    BY <1>6, <1>7, <2>1, MapComes
  <2>2. CASE n \notin DOMAIN kept
    <3>1. DOMAIN kept' = DOMAIN kept /\ \A m \in DOMAIN kept : kept'[m] = kept[m]
      BY <1>5, <2>2
    <3>2. \A h \in Names : assigned'[h] = assigned[h]
      BY <1>1, <1>4, <2>2, CertificatesAssumption DEF CertificatesInv, AssignedThere
    <3>3. assigned' = assigned
      BY <1>8, <3>2 DEF CertificatesInv, CertificatesTypeOK
    <3>4. Stored' = Stored
      BY <3>1, <3>3, StoredSame
    <3>5. d.at = "rest"
      BY <1>2, <1>6, <2>2
    <3> QED
      BY <1>1, <1>4, <1>7, <3>4, <3>5, MapKept DEF CertificatesInv
  <2> QED
    BY <2>1, <2>2
<1> QED
  BY <1>9, <1>10, <1>11, <1>12, <1>13 DEF CertificatesInv

\* A site is assigned a certificate that is stored.
LEMMA AssignKeeps ==
  ASSUME CertificatesInv, NEW p \in Pages, NEW h \in Names, NEW n \in Names, Assign(p, h, n)
  PROVE  CertificatesInv'
<1>1. p \in Procs /\ p # Renewer /\ doing[p].at = "rest" /\ n \in DOMAIN kept
  BY CertificatesAssumption DEF Procs, Assign, Opens, Rests
<1>2. [at |-> "reload", name |-> n] \in Doing
  BY DoingMade DEF Doing
<1>3. /\ doing' = [doing EXCEPT ![p] = [at |-> "reload", name |-> n]]
      /\ assigned' = [assigned EXCEPT ![h] = n]
      /\ UNCHANGED <<kept, tokens, presented, sweep, serial, overtaken>>
  BY DEF Assign
<1>4. /\ doing' \in [Procs -> Doing] /\ doing'[p] = [at |-> "reload", name |-> n]
      /\ \A q \in Procs \ {p} : doing'[q] = doing[q]
  BY <1>1, <1>2, <1>3 DEF CertificatesInv, CertificatesTypeOK
<1>5. CertificatesTypeOK' /\ AssignedThere'
  BY <1>1, <1>3, <1>4 DEF CertificatesInv, CertificatesTypeOK, AssignedThere
<1>6. Published'
  BY <1>1, <1>3, <1>4, PublishedKept DEF CertificatesInv
<1>7. doing'[Renewer] = doing[Renewer]
  BY <1>1, <1>4 DEF Procs
<1>8. SweepInv'
  BY <1>3, <1>7, SweepKept DEF CertificatesInv
<1>9. MapInv'
  BY <1>1, <1>4, MapComes
<1> QED
  BY <1>5, <1>6, <1>8, <1>9 DEF CertificatesInv

-----------------------------------------------------------------------------
(* What begins, what is noted, and a restart.                                 *)

\* A process at rest that begins something, the renewal task a row of its sweep.
LEMMA Starts ==
  ASSUME CertificatesInv, NEW p \in Procs, doing[p].at = "rest", NEW d \in Doing,
         d.at \in {"account", "delete"}, p = Renewer => d.name \in DOMAIN sweep.rows,
         doing' = [doing EXCEPT ![p] = d],
         UNCHANGED <<kept, assigned, tokens, presented, sweep, serial, overtaken>>
  PROVE  CertificatesInv'
<1>1. doing' \in [Procs -> Doing] /\ doing'[p] = d /\ \A q \in Procs \ {p} : doing'[q] = doing[q]
  BY DEF CertificatesInv, CertificatesTypeOK
<1>2. CertificatesTypeOK' /\ AssignedThere'
  BY <1>1 DEF CertificatesInv, CertificatesTypeOK, AssignedThere
<1>3. Published'
  BY <1>1, PublishedKept DEF CertificatesInv
<1>4. doing'[Renewer].at # "rest" => doing'[Renewer].name \in DOMAIN sweep'.rows
  BY <1>1 DEF Procs, CertificatesInv, SweepInv, Rests
<1>5. SweepInv'
  BY <1>4 DEF CertificatesInv, SweepInv, Rests
<1>6. MapInv'
  BY <1>1, StoredSame, MapKept DEF CertificatesInv
<1> QED
  BY <1>2, <1>3, <1>5, <1>6 DEF CertificatesInv

\* A page's order begins.
LEMMA CertAcmeKeeps ==
  ASSUME CertificatesInv, NEW p \in Pages, NEW n \in Names, post_cert_acme(p, n)
  PROVE  CertificatesInv'
<1>1. p \in Procs /\ p # Renewer /\ doing[p].at = "rest"
  BY CertificatesAssumption DEF Procs, post_cert_acme, Opens, Rests
<1>2. Begin(n, {n}) \in Doing /\ Begin(n, {n}).at = "account"
  BY DoingMade DEF Doing, Begin
<1>3. /\ doing' = [doing EXCEPT ![p] = Begin(n, {n})]
      /\ UNCHANGED <<kept, assigned, tokens, presented, sweep, serial, overtaken>>
  BY DEF post_cert_acme, tables
<1> QED
  BY <1>1, <1>2, <1>3, Starts

\* A deletion begins.
LEMMA DeleteCheckKeeps ==
  ASSUME CertificatesInv, NEW p \in Pages, NEW n \in Names, DeleteCheck(p, n)
  PROVE  CertificatesInv'
<1>1. p \in Procs /\ p # Renewer /\ doing[p].at = "rest"
  BY CertificatesAssumption DEF Procs, DeleteCheck, Opens, Rests
<1>2. [at |-> "delete", name |-> n] \in Doing
  BY DoingMade DEF Doing
<1>3. /\ doing' = [doing EXCEPT ![p] = [at |-> "delete", name |-> n]]
      /\ UNCHANGED <<kept, assigned, tokens, presented, sweep, serial, overtaken>>
  BY DEF DeleteCheck, tables
<1> QED
  BY <1>1, <1>2, <1>3, Starts

\* Attempts, dates and hours noted on the rows, and a row of the sweep done with.
LEMMA Noted ==
  ASSUME CertificatesInv, kept' \in CertRows, DOMAIN kept' = DOMAIN kept,
         \A n \in DOMAIN kept :
            /\ kept'[n].serial = kept[n].serial /\ kept'[n].by = kept[n].by
            /\ kept'[n].covers = kept[n].covers,
         \/ UNCHANGED <<doing, sweep>>
         \/ /\ doing[Renewer].at \notin {"order", "reload", "put"}
            /\ doing' = [doing EXCEPT ![Renewer] = AtRest]
            /\ \E n : sweep' = [sweep EXCEPT !.rows = Restrict(@, DOMAIN @ \ {n})],
         UNCHANGED <<assigned, tokens, presented, serial, overtaken>>
  PROVE  CertificatesInv'
<1>1. Renewer \in Procs
  BY DEF Procs
<1>2. Stored' = Stored
  BY StoredSame
<1>3. AssignedThere'
  BY DEF CertificatesInv, AssignedThere
<1>4. CASE UNCHANGED <<doing, sweep>>
  <2>1. CertificatesTypeOK'
    BY <1>4 DEF CertificatesInv, CertificatesTypeOK
  <2>2. Published'
    BY <1>4, PublishedKept DEF CertificatesInv
  <2>3. SweepInv'
    BY <1>4 DEF CertificatesInv, SweepInv, Rests
  <2>4. MapInv'
    BY <1>2, <1>4, MapKept DEF CertificatesInv
  <2> QED
    BY <1>3, <2>1, <2>2, <2>3, <2>4 DEF CertificatesInv
<1>5. ASSUME doing[Renewer].at \notin {"order", "reload", "put"},
             doing' = [doing EXCEPT ![Renewer] = AtRest],
             NEW n, sweep' = [sweep EXCEPT !.rows = Restrict(@, DOMAIN @ \ {n})]
      PROVE  CertificatesInv'
  <2>1. /\ doing' \in [Procs -> Doing] /\ doing'[Renewer] = AtRest /\ AtRest.at = "rest"
        /\ \A q \in Procs \ {Renewer} : doing'[q] = doing[q]
    BY <1>1, <1>5 DEF CertificatesInv, CertificatesTypeOK, Doing, AtRest
  <2>2. sweep.rows \in CertRows /\ sweep.since \in Nat
    BY DEF CertificatesInv, CertificatesTypeOK
  <2>3. Restrict(sweep.rows, DOMAIN sweep.rows \ {n}) \in CertRows
    BY <2>2, TakenOut
  <2>4. DOMAIN Restrict(sweep.rows, DOMAIN sweep.rows \ {n}) \subseteq DOMAIN sweep.rows
    BY DEF Restrict
  <2>5. /\ sweep' \in [rows : CertRows, since : Nat] /\ sweep'.since = sweep.since
        /\ DOMAIN sweep'.rows \subseteq DOMAIN sweep.rows
    BY <1>5, <2>2, <2>3, <2>4 DEF CertificatesInv, CertificatesTypeOK
  <2>6. CertificatesTypeOK'
    BY <2>1, <2>5 DEF CertificatesInv, CertificatesTypeOK
  <2>7. Published'
    BY <1>5, <2>1, PublishedKept DEF CertificatesInv
  <2>8. SweepInv'
    BY <2>1, <2>5 DEF CertificatesInv, SweepInv, Rests
  <2>9. MapInv'
    BY <1>2, <1>5, <2>1, MapKept DEF CertificatesInv
  <2> QED
    BY <1>3, <2>6, <2>7, <2>8, <2>9 DEF CertificatesInv
<1> QED
  BY <1>4, <1>5

\* A sweep reads the rows an order stored, and none that was uploaded.
LEMMA RenewDueKeeps ==
  ASSUME CertificatesInv, renew_due
  PROVE  CertificatesInv'
<1> DEFINE S == {n \in DOMAIN kept : kept[n].covers # {}}
<1>1. /\ Rests(Renewer)
      /\ sweep' = [rows |-> Restrict(kept, S), since |-> serial]
      /\ UNCHANGED <<kept, assigned, tokens, presented, doing, serial, overtaken>>
  BY DEF renew_due, tables
<1>2. kept \in CertRows /\ serial \in Nat /\ S \subseteq DOMAIN kept
  BY DEF CertificatesInv, CertificatesTypeOK
<1>3. Restrict(kept, S) \in CertRows /\ DOMAIN Restrict(kept, S) = S
  BY <1>2, TakenOut
<1>4. \A n \in S : kept[n].by # "hand"
  BY DEF CertificatesInv, SweepInv
<1> HIDE DEF S
<1>5. /\ sweep' \in [rows : CertRows, since : Nat]
      /\ DOMAIN sweep'.rows = S /\ sweep'.since = serial
  BY <1>1, <1>2, <1>3
<1>6. CertificatesTypeOK' /\ AssignedThere'
  BY <1>1, <1>5 DEF CertificatesInv, CertificatesTypeOK, AssignedThere
<1>7. Published'
  BY <1>1, PublishedKept DEF CertificatesInv
<1>8. SweepInv'
  <2>1. sweep'.since <= serial'
    BY <1>1, <1>2, <1>5
  <2> QED
    BY <1>1, <1>4, <1>5, <2>1 DEF CertificatesInv, SweepInv, Rests
<1>9. MapInv'
  BY <1>1, StoredSame, MapKept DEF CertificatesInv
<1> QED
  BY <1>6, <1>7, <1>8, <1>9 DEF CertificatesInv

\* The task orders for a row it has read, or is done with it.
LEMMA NextRowKeeps ==
  ASSUME CertificatesInv, NEW n \in Names, NextRow(n)
  PROVE  CertificatesInv'
<1>1. /\ Renewer \in Procs /\ doing[Renewer].at = "rest" /\ n \in DOMAIN sweep.rows
      /\ UNCHANGED <<kept, assigned, tokens, presented, serial, overtaken>>
  BY DEF Procs, NextRow, Rests, tables
<1>2. sweep.rows[n].covers \in SUBSET Names
  BY <1>1, RowsRead DEF CertRow, CertificatesInv, CertificatesTypeOK
<1>3. CASE is_due(sweep.rows[n])
  <2> DEFINE d == Begin(n, sweep.rows[n].covers)
  <2>1. d \in Doing /\ d.at = "account" /\ d.name = n
    BY <1>2, DoingMade DEF Doing, Begin
  <2>2. doing' = [doing EXCEPT ![Renewer] = d] /\ UNCHANGED sweep
    BY <1>3 DEF NextRow
  <2> HIDE DEF d
  <2> QED
    BY <1>1, <2>1, <2>2, Starts
<1>4. CASE ~is_due(sweep.rows[n])
  <2>1. doing[Renewer] = AtRest
    BY <1>1, DoingRead DEF CertificatesInv, CertificatesTypeOK
  <2>2. doing' = [doing EXCEPT ![Renewer] = AtRest]
    BY <1>1, <1>4, <2>1 DEF NextRow, CertificatesInv, CertificatesTypeOK
  <2>3. sweep' = [sweep EXCEPT !.rows = Restrict(@, DOMAIN @ \ {n})]
    BY <1>4 DEF NextRow
  <2>4. kept' \in CertRows
    BY <1>1 DEF CertificatesInv, CertificatesTypeOK
  <2> QED
    BY <1>1, <2>2, <2>3, <2>4, Noted
<1> QED
  BY <1>3, <1>4

\* The record of an attempt changes nothing of what the row is for.
LEMMA RecordedKeeps ==
  ASSUME CertificatesInv, NEW f \in Nat, NEW w \in Nat, NEW n,
         doing[Renewer].at \in {"renewed", "failed"}, Recorded(n, f, w),
         UNCHANGED <<assigned, tokens, presented, serial, overtaken>>
  PROVE  CertificatesInv'
<1>1. kept \in CertRows /\ kept \in [DOMAIN kept -> CertRow] /\ DOMAIN kept \subseteq Names
  BY RowsRead DEF CertificatesInv, CertificatesTypeOK
<1>2. /\ doing' = [doing EXCEPT ![Renewer] = AtRest]
      /\ sweep' = [sweep EXCEPT !.rows = Restrict(@, DOMAIN @ \ {n})]
  BY DEF Recorded, Done
<1>3. /\ kept' \in CertRows /\ DOMAIN kept' = DOMAIN kept
      /\ \A m \in DOMAIN kept :
            /\ kept'[m].serial = kept[m].serial /\ kept'[m].by = kept[m].by
            /\ kept'[m].covers = kept[m].covers
  <2>1. CASE n \in DOMAIN kept
    <3> DEFINE e == [kept[n] EXCEPT !.failures = f, !.wait = w]
    <3>1. kept' = [kept EXCEPT ![n] = e]
      BY <2>1, <1>1 DEF Recorded
    <3>2. /\ e \in CertRow /\ e.serial = kept[n].serial /\ e.by = kept[n].by
          /\ e.covers = kept[n].covers
      BY <1>1, <2>1 DEF CertRow
    <3> HIDE DEF e
    <3>3. kept' \in [DOMAIN kept -> CertRow]
      BY <1>1, <3>1, <3>2
    <3> QED
      BY <1>1, <3>1, <3>2, <3>3, RowsRead
  <2>2. CASE n \notin DOMAIN kept
    BY <1>1, <2>2 DEF Recorded
  <2> QED
    BY <2>1, <2>2
<1> QED
  BY <1>2, <1>3, Noted

\* A renewal that worked clears the record of failures.
LEMMA RenewedKeeps ==
  ASSUME CertificatesInv, Renewed
  PROVE  CertificatesInv'
<1>1. /\ doing[Renewer].at = "renewed" /\ Recorded(doing[Renewer].name, 0, 0)
      /\ UNCHANGED <<assigned, tokens, presented, serial, overtaken>>
  BY DEF Renewed
<1> QED
  BY <1>1, RecordedKeeps

\* One that did not adds to it.
LEMMA RenewalFailedKeeps ==
  ASSUME CertificatesInv, RenewalFailed
  PROVE  CertificatesInv'
<1> DEFINE n == doing[Renewer].name
           f == sweep.rows[n].failures + 1
<1>1. /\ doing[Renewer].at = "failed" /\ Recorded(n, f, backoff(f))
      /\ UNCHANGED <<assigned, tokens, presented, serial, overtaken>>
  BY DEF RenewalFailed
<1>2. n \in DOMAIN sweep.rows
  BY <1>1 DEF CertificatesInv, SweepInv, Rests
<1>3. sweep.rows[n] \in CertRow
  BY <1>2, RowsRead DEF CertificatesInv, CertificatesTypeOK
<1>4. f \in Nat
  BY <1>3 DEF CertRow
<1>5. backoff(f) \in Nat
  BY <1>4 DEF backoff
<1> QED
  BY <1>1, <1>4, <1>5, RecordedKeeps

\* An hour passes for every row that waits.
LEMMA HourKeeps ==
  ASSUME CertificatesInv, Hour
  PROVE  CertificatesInv'
<1>1. kept \in CertRows /\ kept \in [DOMAIN kept -> CertRow] /\ DOMAIN kept \subseteq Names
  BY RowsRead DEF CertificatesInv, CertificatesTypeOK
<1>2. /\ kept' = [n \in DOMAIN kept |-> [kept[n] EXCEPT !.wait = IF @ = 0 THEN 0 ELSE @ - 1]]
      /\ UNCHANGED <<assigned, tokens, presented, doing, sweep, serial, overtaken>>
  BY DEF Hour
<1>3. ASSUME NEW n \in DOMAIN kept
      PROVE  /\ kept'[n] \in CertRow /\ kept'[n].serial = kept[n].serial
             /\ kept'[n].by = kept[n].by /\ kept'[n].covers = kept[n].covers
  <2> DEFINE w == IF kept[n].wait = 0 THEN 0 ELSE kept[n].wait - 1
  <2>1. kept[n] \in CertRow /\ w \in Nat
    BY <1>1 DEF CertRow
  <2>2. kept'[n] = [kept[n] EXCEPT !.wait = w]
    BY <1>2
  <2> HIDE DEF w
  <2> QED
    BY <2>1, <2>2 DEF CertRow
<1>4. kept' \in CertRows /\ DOMAIN kept' = DOMAIN kept
  <2>1. DOMAIN kept' = DOMAIN kept /\ kept' \in [DOMAIN kept -> CertRow]
    BY <1>2, <1>3
  <2> QED
    BY <1>1, <2>1, RowsRead
<1> QED
  BY <1>2, <1>3, <1>4, Noted

\* A certificate comes within its thirty days.
LEMMA AgeKeeps ==
  ASSUME CertificatesInv, NEW n \in Names, Age(n)
  PROVE  CertificatesInv'
<1> DEFINE e == [kept[n] EXCEPT !.near = TRUE]
<1>1. kept \in CertRows /\ kept \in [DOMAIN kept -> CertRow] /\ DOMAIN kept \subseteq Names
  BY RowsRead DEF CertificatesInv, CertificatesTypeOK
<1>2. /\ n \in DOMAIN kept /\ kept' = [kept EXCEPT ![n] = e]
      /\ UNCHANGED <<assigned, tokens, presented, doing, sweep, serial, overtaken>>
  BY <1>1 DEF Age, memory
<1>3. /\ e \in CertRow /\ e.serial = kept[n].serial /\ e.by = kept[n].by
      /\ e.covers = kept[n].covers
  BY <1>1, <1>2, RowsNoted
<1> HIDE DEF e
<1>4. DOMAIN kept' = DOMAIN kept /\ kept' \in [DOMAIN kept -> CertRow]
  BY <1>1, <1>2, <1>3
<1>5. kept' \in CertRows
  BY <1>1, <1>4, RowsRead
<1> QED
  BY <1>2, <1>3, <1>4, <1>5, Noted

\* Nothing else of what the invariant speaks of changes.
LEMMA AloneKeeps ==
  ASSUME CertificatesInv,
         UNCHANGED <<kept, assigned, tokens, presented, doing, sweep, serial, overtaken>>
  PROVE  CertificatesInv'
<1>1. kept' \in CertRows
  BY DEF CertificatesInv, CertificatesTypeOK
<1> QED
  BY <1>1, Noted

\* A table with no rows.
LEMMA NoRows ==
  /\ <<>> \in CertRows /\ <<>> \in CertMaps
  /\ DOMAIN <<>> = {}
  /\ \A f : DOMAIN f = {} /\ f = [x \in DOMAIN f |-> f[x]] => f = <<>>
<1>1. <<>> = [i \in 1..0 |-> i] /\ 1..0 = {}
  OBVIOUS
<1>2. <<>> \in [{} -> CertRow] /\ <<>> \in [{} -> Nat] /\ DOMAIN <<>> = {}
  BY <1>1
<1>3. \A f : DOMAIN f = {} /\ f = [x \in DOMAIN f |-> f[x]] => f = <<>>
  BY <1>1
<1> QED
  BY <1>2, <1>3, RowsRead, MapsRead

\* At a start the map is built anew and nothing is under way.
LEMMA ComesUpKeeps ==
  ASSUME CertificatesInv, ComesUp
  PROVE  CertificatesInv'
<1>1. /\ doing' = [p \in Procs |-> AtRest] /\ tokens' = {} /\ presented' = Stored
      /\ sweep' = [sweep EXCEPT !.rows = <<>>] /\ overtaken' = FALSE
      /\ UNCHANGED <<kept, assigned, serial>>
  BY DEF ComesUp, tables
<1>2. Stored \in CertMaps /\ AtRest \in Doing /\ AtRest.at = "rest"
  BY StoredIsMap DEF CertificatesInv, Doing, AtRest
<1>3. \A p \in Procs : doing'[p] = AtRest
  BY <1>1
<1>4. /\ sweep' \in [rows : CertRows, since : Nat]
      /\ DOMAIN sweep'.rows = {} /\ sweep'.since = sweep.since
  <2>1. sweep \in [rows : CertRows, since : Nat]
    BY DEF CertificatesInv, CertificatesTypeOK
  <2>2. sweep' = [rows |-> <<>>, since |-> sweep.since]
    BY <1>1, <2>1
  <2> QED
    BY <2>1, <2>2, NoRows
<1>5. CertificatesTypeOK' /\ AssignedThere'
  BY <1>1, <1>2, <1>4 DEF CertificatesInv, CertificatesTypeOK, AssignedThere
<1>6. Published'
  BY <1>1, <1>2, <1>3 DEF Published
<1>7. SweepInv'
  BY <1>1, <1>2, <1>3, <1>4 DEF CertificatesInv, SweepInv, Rests, Procs
<1>8. MapInv'
  BY <1>1, <1>2, <1>3, StoredSame DEF MapInv
<1> QED
  BY <1>5, <1>6, <1>7, <1>8 DEF CertificatesInv

-----------------------------------------------------------------------------
(* Certificates: the theorems.                                                *)

\* At first no site is assigned a certificate, so none is presented.
LEMMA CertificatesStart == CertificatesInit => CertificatesInv
<1> SUFFICES ASSUME CertificatesInit
             PROVE  CertificatesInv
  OBVIOUS
<1> DEFINE by(n) == IF n \in ByHand THEN "hand" ELSE "order"
           covers(n) == IF n \in ByHand THEN {} ELSE {n}
<1>1. /\ kept = [n \in ByHand \cup Issued |-> Row(0, by(n), covers(n))]
      /\ assigned = [n \in Names |-> None]
      /\ tokens = {} /\ presented = <<>> /\ doing = [p \in Procs |-> AtRest]
      /\ sweep = [rows |-> <<>>, since |-> 0] /\ serial = 0 /\ overtaken = FALSE
  BY DEF CertificatesInit
<1>2. \A n \in ByHand \cup Issued :
         /\ Row(0, by(n), covers(n)) \in CertRow
         /\ Row(0, by(n), covers(n)).by = "hand" => Row(0, by(n), covers(n)).covers = {}
  <2>1. \A n \in ByHand \cup Issued : by(n) \in {"hand", "order"} /\ covers(n) \in SUBSET Names
    BY CertificatesAssumption
  <2>2. \A n \in ByHand \cup Issued : by(n) = "hand" => covers(n) = {}
    OBVIOUS
  <2> HIDE DEF by, covers
  <2> QED
    BY <2>1, <2>2, RowMade
<1> HIDE DEF by, covers
<1>3. /\ DOMAIN kept \subseteq Names /\ kept \in [DOMAIN kept -> CertRow]
      /\ \A n \in DOMAIN kept : kept[n].by = "hand" => kept[n].covers = {}
  BY <1>1, <1>2, CertificatesAssumption
<1>4. \A p \in Procs : doing[p] = AtRest /\ AtRest.at = "rest"
  BY <1>1 DEF AtRest
<1>5. sweep.rows = <<>> /\ sweep.since = 0 /\ sweep \in [rows : CertRows, since : Nat]
  BY <1>1, NoRows
<1>6. CertificatesTypeOK
  <2>1. kept \in CertRows
    BY <1>3, RowsRead
  <2>2. doing \in [Procs -> Doing]
    BY <1>1 DEF Doing
  <2> QED
    BY <1>1, <1>5, <2>1, <2>2, NoRows DEF CertificatesTypeOK
<1>7. AssignedThere
  BY <1>1 DEF AssignedThere
<1>8. Published
  BY <1>1, <1>4 DEF Published
<1>9. SweepInv
  <2>1. sweep.since <= serial
    BY <1>1, <1>5
  <2>2. Rests(Renewer)
    BY <1>4 DEF Rests, Procs
  <2>3. DOMAIN sweep.rows = {}
    BY <1>5, NoRows
  <2> QED
    BY <1>3, <2>1, <2>2, <2>3 DEF SweepInv
<1>10. Stored = <<>>
  <2> DEFINE m == reload(Sites, DOMAIN kept, Names)
  <2>1. \A h \in Names : Sites[h].cert = None
    BY <1>1 DEF Sites
  <2>2. DOMAIN Sites = Names
    BY DEF Sites
  <2>3. \A h : RowsFor(Sites, DOMAIN kept, h) = {}
    BY <1>3, <2>1, <2>2, CertificatesAssumption DEF RowsFor, Presents
  <2>4. DOMAIN m = {}
    BY <2>3 DEF reload
  <2>5. Stored = [n \in DOMAIN m |-> kept[m[n]].serial]
    BY DEF Stored
  <2> HIDE DEF m
  <2>6. DOMAIN Stored = {} /\ Stored = [x \in DOMAIN Stored |-> Stored[x]]
    BY <2>4, <2>5
  <2> QED
    BY <2>6, NoRows
<1>11. MapInv
  BY <1>1, <1>4, <1>10 DEF MapInv
<1> QED
  BY <1>6, <1>7, <1>8, <1>9, <1>11 DEF CertificatesInv

\* Every step keeps the invariant.
LEMMA CertificatesStep == CertificatesInv /\ [CertificatesNext]_certificateVars => CertificatesInv'
<1> SUFFICES ASSUME CertificatesInv, [CertificatesNext]_certificateVars
             PROVE  CertificatesInv'
  OBVIOUS
<1>1. ASSUME NEW p \in Procs, Works(p)
      PROVE  CertificatesInv'
  BY <1>1, MapReadKeeps, MapPutKeeps, AccountKeeps, StillValidKeeps, PublishKeeps, SetReadyKeeps,
     IssueKeeps, StoreKeeps, CertDeleteKeeps DEF Works
<1>2. ASSUME NEW p \in Procs, OrderFails(p)
      PROVE  CertificatesInv'
  BY <1>2, OrderFailsKeeps
<1>3. CASE Sweeps
  BY <1>3, RenewDueKeeps, NextRowKeeps, RenewedKeeps, RenewalFailedKeeps DEF Sweeps
<1>4. CASE Hour
  BY <1>4, HourKeeps
<1>5. ASSUME NEW n \in Names, Age(n)
      PROVE  CertificatesInv'
  BY <1>5, AgeKeeps
<1>6. ASSUME NEW p \in Pages, NEW n \in Names,
             \/ post_cert_acme(p, n) \/ post_cert_create(p, n) \/ DeleteCheck(p, n)
             \/ \E h \in Names : Assign(p, h, n)
      PROVE  CertificatesInv'
  BY <1>6, CertAcmeKeeps, CertCreateKeeps, DeleteCheckKeeps, AssignKeeps
<1>7. ASSUME NEW p \in Pages, set_config(p)
      PROVE  CertificatesInv'
  BY <1>7, AloneKeeps DEF set_config, memory
<1>8. CASE ComesUp
  BY <1>8, ComesUpKeeps
<1>9. CASE UNCHANGED certificateVars
  BY <1>9, AloneKeeps DEF certificateVars, tables, memory
<1> QED
  BY <1>1, <1>2, <1>3, <1>4, <1>5, <1>6, <1>7, <1>8, <1>9 DEF CertificatesNext

\* Every state of the certificates' tables, orders, sweeps and map is one of the
\* invariant's: what is published is of an order under way, what the sweep works
\* on it has read, and the map is what is stored or somebody will put it so.
THEOREM CertificatesKnown == CertificatesSpec => []CertificatesInv
<1> QED
  BY CertificatesStart, CertificatesStep, PTL DEF CertificatesSpec

\* An authority that was told an answer is ready finds it until the order ends, and
\* no answer outlives its order, however many orders run at once (acme.rs:254).
THEOREM AnswersAreThere == CertificatesSpec => []AskedIsAnswered
<1>1. CertificatesInv => AskedIsAnswered
  BY DEF CertificatesInv, Published, AskedIsAnswered
<1> QED
  BY <1>1, CertificatesKnown, PTL

\* Once pages and sweep are at rest, a map that was not put out of turn is the one
\* a reload would build now (tls.rs:273).
THEOREM MapIsWhatIsStored == CertificatesSpec => []PresentsWhatIsStored
<1>1. CertificatesInv => PresentsWhatIsStored
  BY DEF CertificatesInv, MapInv, WillPut, PresentsWhatIsStored, Rests
<1> QED
  BY <1>1, CertificatesKnown, PTL

\* A sweep stores its order over an upload only if the upload came after the sweep
\* had read its rows (certs.rs:148).
THEOREM SweepsSpareUploads == CertificatesSpec => UploadIsKept
<1>1. CertificatesInv /\ [CertificatesNext]_certificateVars =>
        [\A n \in DOMAIN kept :
            (kept[n].by = "hand" /\ doing[Renewer].at = "store" /\ doing'[Renewer].at = "reload"
               /\ doing[Renewer].name = n) => kept[n].serial > sweep.since]_certificateVars
  BY DEF CertificatesInv, SweepInv, Rests
<1> QED
  BY <1>1, CertificatesKnown, PTL DEF CertificatesSpec, UploadIsKept

-----------------------------------------------------------------------------
(* Sites: the invariant.                                                      *)

\* The columns of a row of `sites`.
SiteRow(s) ==
    s = [name |-> s.name, host |-> s.host, names |-> s.names, listen |-> s.listen,
         tls |-> s.tls, extra |-> s.extra, cert |-> s.cert, tls_redirect |-> s.tls_redirect,
         enabled |-> s.enabled, acme_enabled |-> s.acme_enabled]

\* A save holds the ports its form names, and has added no backend before it has
\* read the pool.
SaveJob(j) ==
    /\ j = [at |-> j.at, form |-> j.form, site |-> j.site, new |-> j.new, ports |-> j.ports,
            before |-> j.before, added |-> j.added, alone |-> j.alone, map |-> j.map]
    /\ j.at \in {"insert", "update", "pool", "pool_rows", "ports", "aliases", "sign_in", "announce",
                 "reload", "put", "order", "assign"}
    /\ j.form.pool # {}
    /\ j.ports = PortsNamed(RowOf(j.form)) \cup ExtrasOf(j.form)
    /\ j.at \in {"insert", "update", "pool"} => j.added = {}

SwitchJob(j) ==
    /\ j = [at |-> j.at, form |-> j.form, site |-> j.site, new |-> j.new, to |-> j.to,
            ports |-> j.ports, map |-> j.map]
    /\ j.form = None /\ ~j.new
    /\ j.at \in {"switch", "toggle_ports", "announce", "reload", "put"}

OrderJob(j) ==
    /\ j = [at |-> j.at, form |-> j.form, site |-> j.site, new |-> j.new]
    /\ ~j.new
    /\ j.at \in {"order", "assign"}

\* What a request is doing, for a site whose id has been given out.
JobKnown(j, n) ==
    \/ j = Idle
    \/ /\ SaveJob(j) \/ SwitchJob(j) \/ OrderJob(j)
       /\ j.site \in Nat /\ j.site < n

\* The tables of the sites, and each request.
TablesInv ==
    /\ next = [site |-> next.site, row |-> next.row] /\ next.site \in Nat \ {0}
    /\ DOMAIN pool = DOMAIN sites
    /\ \A i \in DOMAIN sites : i \in Nat /\ i < next.site /\ SiteRow(sites[i])
    /\ DOMAIN job = Admins
    /\ \A a \in Admins : JobKnown(job[a], next.site)

\* A save that is alone at a pool finds what it read and lists where it was, what
\* it has added there, and has taken nothing out while it has still to add.
PoolHeld(j, now) ==
    /\ \A u \in DOMAIN j.before \cap j.form.pool : u \in DOMAIN now /\ now[u] = j.before[u]
    /\ j.added \subseteq DOMAIN now \cap j.form.pool
    /\ (\E u \in j.form.pool : u \notin DOMAIN j.before \cup j.added) =>
          DOMAIN j.before \subseteq DOMAIN now

PoolInv ==
    \A a \in Admins : (job[a].at = "pool_rows" /\ job[a].alone) =>
        /\ \A b \in Admins \ {a} : job[b].at = "pool_rows" => job[b].site # job[a].site
        /\ job[a].site \in DOMAIN sites => PoolHeld(job[a], pool[job[a].site])

\* A request on its way to announcing the ports it holds.
Tells(j) ==
    \/ j.at \in {"pool", "pool_rows", "ports", "aliases", "toggle_ports", "announce"}
    \/ j.at = "sign_in" /\ j.new

\* One that will replace the extra ports of its site, or add them to its own.
SeesExtras(j) == j.at \in {"pool", "pool_rows", "ports", "toggle_ports"}

\* The proxy has been told of a port of a site, or a request will tell it.
Told(i, r) ==
    \/ r \in bound \cup queue
    \/ \E a \in Admins : Tells(job[a]) /\ job[a].site = i /\ r \in job[a].ports

Excused(s, r) == r.tls /\ (s.acme_enabled \/ s.cert = None)

\* Of an enabled site, the ports of its row are told; so are its extra ones, or a
\* request has still to see to them.  One about to switch a site on holds the
\* ports of its row as far as nobody else tells of them.
SitePorts(i) ==
    /\ sites[i].enabled =>
          /\ \A r \in PrimaryPorts(sites[i]) : Told(i, r) \/ Excused(sites[i], r)
          /\ \A r \in sites[i].extra :
                \/ Told(i, r) \/ Excused(sites[i], r)
                \/ \E a \in Admins : SeesExtras(job[a]) /\ job[a].site = i
    /\ \A a \in Admins : (job[a].at = "switch" /\ job[a].to /\ job[a].site = i) =>
          \A r \in PrimaryPorts(sites[i]) : Told(i, r) \/ r \in job[a].ports

PortsInv == \A i \in DOMAIN sites \ broken : SitePorts(i)

SitesInv == TablesInv /\ PoolInv /\ PortsInv

-----------------------------------------------------------------------------
(* What a request is doing.                                                   *)

\* Where a save may be after a statement of its own; it comes to "pool_rows" by reading.
Onward == {"pool", "ports", "aliases", "sign_in", "announce", "reload", "put", "order", "assign"}

\* A save goes on to its next statement.
LEMMA SaveMoves ==
  ASSUME NEW j, SaveJob(j), NEW x \in Onward,
         x = "pool" => j.at \in {"insert", "update"}
  PROVE  LET e == [j EXCEPT !.at = x]
         IN  /\ SaveJob(e) /\ e.at = x /\ e.form = j.form /\ e.site = j.site /\ e.new = j.new
             /\ e.ports = j.ports
<1> DEFINE e == [j EXCEPT !.at = x]
<1>1. j = [at |-> j.at, form |-> j.form, site |-> j.site, new |-> j.new, ports |-> j.ports,
           before |-> j.before, added |-> j.added, alone |-> j.alone, map |-> j.map]
  BY DEF SaveJob
<1>2. e = [at |-> x, form |-> j.form, site |-> j.site, new |-> j.new, ports |-> j.ports,
           before |-> j.before, added |-> j.added, alone |-> j.alone, map |-> j.map]
  BY <1>1
<1> HIDE DEF e
<1>3. /\ e.at = x /\ e.form = j.form /\ e.site = j.site /\ e.new = j.new /\ e.ports = j.ports
      /\ e.before = j.before /\ e.added = j.added /\ e.alone = j.alone /\ e.map = j.map
  BY <1>2
<1>4. SaveJob(e)
  BY <1>2, <1>3 DEF SaveJob, Onward
<1> QED
  BY <1>3, <1>4 DEF e

\* So does a switch.
LEMMA SwitchMoves ==
  ASSUME NEW j, SwitchJob(j), NEW x \in {"toggle_ports", "announce", "reload", "put"}
  PROVE  LET e == [j EXCEPT !.at = x]
         IN  /\ SwitchJob(e) /\ e.at = x /\ e.form = j.form /\ e.site = j.site /\ e.new = j.new
             /\ e.ports = j.ports
<1> DEFINE e == [j EXCEPT !.at = x]
<1>1. j = [at |-> j.at, form |-> j.form, site |-> j.site, new |-> j.new, to |-> j.to,
           ports |-> j.ports, map |-> j.map]
  BY DEF SwitchJob
<1>2. e = [at |-> x, form |-> j.form, site |-> j.site, new |-> j.new, to |-> j.to,
           ports |-> j.ports, map |-> j.map]
  BY <1>1
<1> HIDE DEF e
<1>3. /\ e.at = x /\ e.form = j.form /\ e.site = j.site /\ e.new = j.new /\ e.ports = j.ports
      /\ e.to = j.to /\ e.map = j.map
  BY <1>2
<1>4. SwitchJob(e)
  BY <1>2, <1>3 DEF SwitchJob
<1> QED
  BY <1>3, <1>4 DEF e

\* So does an order.
LEMMA OrderMoves ==
  ASSUME NEW j, OrderJob(j)
  PROVE  LET e == [j EXCEPT !.at = "assign"]
         IN  OrderJob(e) /\ e.at = "assign" /\ e.site = j.site
<1> DEFINE e == [j EXCEPT !.at = "assign"]
<1>1. j = [at |-> j.at, form |-> j.form, site |-> j.site, new |-> j.new]
  BY DEF OrderJob
<1>2. e = [at |-> "assign", form |-> j.form, site |-> j.site, new |-> j.new]
  BY <1>1
<1> HIDE DEF e
<1>3. e.at = "assign" /\ e.form = j.form /\ e.site = j.site /\ e.new = j.new
  BY <1>2
<1>4. OrderJob(e)
  BY <1>2, <1>3 DEF OrderJob
<1> QED
  BY <1>3, <1>4 DEF e

\* A request that reads or takes up a new map.
LEMMA MapNoted ==
  ASSUME NEW j, SaveJob(j) \/ SwitchJob(j), j.at = "reload", NEW m
  PROVE  LET e == [j EXCEPT !.at = "put", !.map = m]
         IN  (SaveJob(e) \/ SwitchJob(e)) /\ e.at = "put" /\ e.site = j.site
<1> DEFINE e == [j EXCEPT !.at = "put", !.map = m]
           f == [j EXCEPT !.at = "put"]
<1>1. e = [f EXCEPT !.map = m]
  OBVIOUS
<1>2. (SaveJob(f) \/ SwitchJob(f)) /\ f.at = "put" /\ f.site = j.site
  <2> DEFINE x == "put"
  <2>1. /\ x \in Onward /\ x \in {"toggle_ports", "announce", "reload", "put"}
        /\ x # "pool" /\ x = "put"
    BY DEF Onward
  <2> HIDE DEF x
  <2>2. f = [j EXCEPT !.at = x]
    BY <2>1
  <2>3. CASE SaveJob(j)
    BY <2>1, <2>2, <2>3, SaveMoves
  <2>4. CASE SwitchJob(j)
    BY <2>1, <2>2, <2>4, SwitchMoves
  <2> QED
    BY <2>3, <2>4
<1> HIDE DEF f, e
<1>3. CASE SaveJob(f)
  <2>1. f = [at |-> f.at, form |-> f.form, site |-> f.site, new |-> f.new, ports |-> f.ports,
             before |-> f.before, added |-> f.added, alone |-> f.alone, map |-> f.map]
    BY <1>3 DEF SaveJob
  <2>2. e = [at |-> f.at, form |-> f.form, site |-> f.site, new |-> f.new, ports |-> f.ports,
             before |-> f.before, added |-> f.added, alone |-> f.alone, map |-> m]
    BY <1>1, <2>1
  <2>3. /\ e.at = f.at /\ e.form = f.form /\ e.site = f.site /\ e.new = f.new
        /\ e.ports = f.ports /\ e.before = f.before /\ e.added = f.added
        /\ e.alone = f.alone /\ e.map = m
    BY <2>2
  <2>4. SaveJob(e)
    BY <1>3, <2>2, <2>3 DEF SaveJob
  <2> QED
    BY <1>2, <2>3, <2>4 DEF e
<1>4. CASE SwitchJob(f)
  <2>1. f = [at |-> f.at, form |-> f.form, site |-> f.site, new |-> f.new, to |-> f.to,
             ports |-> f.ports, map |-> f.map]
    BY <1>4 DEF SwitchJob
  <2>2. e = [at |-> f.at, form |-> f.form, site |-> f.site, new |-> f.new, to |-> f.to,
             ports |-> f.ports, map |-> m]
    BY <1>1, <2>1
  <2>3. /\ e.at = f.at /\ e.form = f.form /\ e.site = f.site /\ e.new = f.new
        /\ e.to = f.to /\ e.ports = f.ports /\ e.map = m
    BY <2>2
  <2>4. SwitchJob(e)
    BY <1>4, <2>2, <2>3 DEF SwitchJob
  <2> QED
    BY <1>2, <2>3, <2>4 DEF e
<1> QED
  BY <1>2, <1>3, <1>4

\* At most places only one kind of request can be.
LEMMA JobRead ==
  ASSUME NEW j, NEW n, JobKnown(j, n)
  PROVE  /\ j.at = "rest" => j = Idle
         /\ j.at # "rest" => j.site \in Nat /\ j.site < n
         /\ j.at \in {"insert", "update", "pool", "pool_rows", "ports", "aliases", "sign_in"} =>
              SaveJob(j)
         /\ j.at \in {"switch", "toggle_ports"} => SwitchJob(j)
         /\ j.at \in {"announce", "reload", "put"} => SaveJob(j) \/ SwitchJob(j)
         /\ j.at \in {"order", "assign"} => SaveJob(j) \/ OrderJob(j)
<1>1. CASE j = Idle
  BY <1>1 DEF Idle
<1>2. ASSUME SaveJob(j) \/ SwitchJob(j) \/ OrderJob(j), j.site \in Nat, j.site < n
      PROVE  /\ j.at # "rest"
             /\ j.at \in {"insert", "update", "pool", "pool_rows", "ports", "aliases", "sign_in"} =>
                  SaveJob(j)
             /\ j.at \in {"switch", "toggle_ports"} => SwitchJob(j)
             /\ j.at \in {"announce", "reload", "put"} => SaveJob(j) \/ SwitchJob(j)
             /\ j.at \in {"order", "assign"} => SaveJob(j) \/ OrderJob(j)
  BY <1>2 DEF SaveJob, SwitchJob, OrderJob
<1> QED
  BY <1>1, <1>2 DEF JobKnown

\* Ids given out stay given out.
LEMMA JobStays ==
  ASSUME NEW j, NEW n \in Nat, NEW m \in Nat, n <= m, JobKnown(j, n)
  PROVE  JobKnown(j, m)
BY DEF JobKnown

-----------------------------------------------------------------------------
(* What a step leaves alone.                                                  *)

\* The ports of a row are those of two columns.
LEMMA PrimaryRead ==
  ASSUME NEW s, NEW t, s.listen = t.listen, s.tls = t.tls
  PROVE  PrimaryPorts(s) = PrimaryPorts(t)
BY DEF PrimaryPorts

\* The pools are held as they were while they stay, no request comes to one, and
\* no site appears that a request is at.
LEMMA PoolKept ==
  ASSUME PoolInv,
         \A b \in Admins : job'[b] = job[b] \/ job'[b].at # "pool_rows",
         \A i \in DOMAIN sites' :
            \/ i \in DOMAIN sites /\ pool'[i] = pool[i]
            \/ \A b \in Admins : job[b].at = "pool_rows" => job[b].site # i
  PROVE  PoolInv'
<1> SUFFICES ASSUME NEW a \in Admins, job'[a].at = "pool_rows", job'[a].alone
             PROVE  /\ \A b \in Admins \ {a} :
                         job'[b].at = "pool_rows" => job'[b].site # job'[a].site
                    /\ job'[a].site \in DOMAIN sites' => PoolHeld(job'[a], pool'[job'[a].site])
  BY DEF PoolInv, PoolHeld
<1>1. job'[a] = job[a]
  OBVIOUS
<1>2. /\ \A b \in Admins \ {a} : job[b].at = "pool_rows" => job[b].site # job[a].site
      /\ job[a].site \in DOMAIN sites => PoolHeld(job[a], pool[job[a].site])
  BY <1>1 DEF PoolInv
<1>3. \A b \in Admins \ {a} : job'[b].at = "pool_rows" => job'[b].site # job'[a].site
  BY <1>1, <1>2
<1>4. job[a].site \in DOMAIN sites' =>
        job[a].site \in DOMAIN sites /\ pool'[job[a].site] = pool[job[a].site]
  BY <1>1
<1> QED
  BY <1>1, <1>2, <1>3, <1>4

\* The rows stay what they were as far as their ports go, and then the pools too.
PortsStay ==
    /\ DOMAIN sites' \subseteq DOMAIN sites
    /\ \A i \in DOMAIN sites' :
        /\ SiteRow(sites'[i])
        /\ sites'[i].listen = sites[i].listen /\ sites'[i].tls = sites[i].tls
        /\ sites'[i].extra = sites[i].extra /\ sites'[i].enabled = sites[i].enabled
        /\ \A r : Excused(sites[i], r) => Excused(sites'[i], r)

RowsStay ==
    /\ PortsStay /\ DOMAIN pool' = DOMAIN sites'
    /\ \A i \in DOMAIN sites' : pool'[i] = pool[i]

\* A port told of stays so while each request that is to tell of it does, or goes on
\* to.
LEMMA ToldKept ==
  ASSUME NEW i, bound \cup queue \subseteq bound' \cup queue',
         \A b \in Admins :
            \/ job'[b] = job[b]
            \/ (Tells(job[b]) /\ job[b].site = i) =>
                 \/ job[b].ports \subseteq bound' \cup queue'
                 \/ /\ Tells(job'[b]) /\ job'[b].site = i
                    /\ job[b].ports \subseteq job'[b].ports
  PROVE  \A r : Told(i, r) => Told(i, r)'
<1> SUFFICES ASSUME NEW r, Told(i, r)
             PROVE  Told(i, r)'
  OBVIOUS
<1>1. CASE r \in bound \cup queue
  BY <1>1 DEF Told
<1>2. ASSUME NEW b \in Admins, Tells(job[b]), job[b].site = i, r \in job[b].ports
      PROVE  Told(i, r)'
  <2>1. CASE job'[b] = job[b]
    BY <1>2, <2>1 DEF Told
  <2>2. CASE job'[b] # job[b]
    BY <1>2, <2>2 DEF Told
  <2> QED
    BY <2>1, <2>2
<1> QED
  BY <1>1, <1>2 DEF Told

\* The ports of a site are told of while its row stays so and each request that is
\* to tell of one tells of it or goes on to.
LEMMA SiteKept ==
  ASSUME NEW i, SitePorts(i), bound \cup queue \subseteq bound' \cup queue',
         sites'[i].listen = sites[i].listen, sites'[i].tls = sites[i].tls,
         sites'[i].extra = sites[i].extra, sites'[i].enabled = sites[i].enabled,
         \A r : Excused(sites[i], r) => Excused(sites'[i], r),
         \A b \in Admins :
            \/ job'[b] = job[b]
            \/ /\ (Tells(job[b]) /\ job[b].site = i) =>
                    \/ job[b].ports \subseteq bound' \cup queue'
                    \/ /\ Tells(job'[b]) /\ job'[b].site = i
                       /\ job[b].ports \subseteq job'[b].ports
               /\ (SeesExtras(job[b]) /\ job[b].site = i) =>
                    SeesExtras(job'[b]) /\ job'[b].site = i
               /\ (job'[b].at = "switch" /\ job'[b].site = i) =>
                    PrimaryPorts(sites[i]) \subseteq job'[b].ports
  PROVE  SitePorts(i)'
<1>1. PrimaryPorts(sites'[i]) = PrimaryPorts(sites[i])
  BY PrimaryRead
<1>2. \A r : Told(i, r) => Told(i, r)'
  BY ToldKept
<1>3. (\E a \in Admins : SeesExtras(job[a]) /\ job[a].site = i) =>
         \E a \in Admins : SeesExtras(job'[a]) /\ job'[a].site = i
  OBVIOUS
<1>4. ASSUME sites'[i].enabled
      PROVE  /\ \A r \in PrimaryPorts(sites'[i]) : Told(i, r)' \/ Excused(sites'[i], r)
             /\ \A r \in sites'[i].extra :
                      \/ Told(i, r)' \/ Excused(sites'[i], r)
                      \/ \E a \in Admins : SeesExtras(job'[a]) /\ job'[a].site = i
  <2>1. sites[i].enabled
    BY <1>4
  <2>2. /\ \A r \in PrimaryPorts(sites[i]) : Told(i, r) \/ Excused(sites[i], r)
        /\ \A r \in sites[i].extra :
              \/ Told(i, r) \/ Excused(sites[i], r)
              \/ \E a \in Admins : SeesExtras(job[a]) /\ job[a].site = i
    BY <2>1 DEF SitePorts
  <2> QED
    BY <1>1, <1>2, <1>3, <2>2
<1>5. ASSUME NEW a \in Admins, job'[a].at = "switch", job'[a].to, job'[a].site = i,
             NEW r \in PrimaryPorts(sites'[i])
      PROVE  Told(i, r)' \/ r \in job'[a].ports
  <2>1. CASE job'[a] = job[a]
    BY <1>1, <1>2, <1>5, <2>1 DEF SitePorts
  <2>2. CASE job'[a] # job[a]
    BY <1>1, <1>5, <2>2
  <2> QED
    BY <2>1, <2>2
<1> QED
  BY <1>4, <1>5 DEF SitePorts, Told

\* So for every site that no request breaks.
LEMMA PortsKept ==
  ASSUME PortsInv, PortsStay,
         broken \subseteq broken', bound \cup queue \subseteq bound' \cup queue',
         \A b \in Admins :
            \/ job'[b] = job[b]
            \/ /\ Tells(job[b]) =>
                    \/ job[b].site \in broken'
                    \/ job[b].ports \subseteq bound' \cup queue'
                    \/ /\ Tells(job'[b]) /\ job'[b].site = job[b].site
                       /\ job[b].ports \subseteq job'[b].ports
               /\ SeesExtras(job[b]) =>
                    \/ job[b].site \in broken' \/ job[b].site \notin DOMAIN sites'
                    \/ SeesExtras(job'[b]) /\ job'[b].site = job[b].site
               /\ (job'[b].at = "switch" /\ job'[b].site \in DOMAIN sites) =>
                    PrimaryPorts(sites[job'[b].site]) \subseteq job'[b].ports
  PROVE  PortsInv'
<1>1. ASSUME NEW i \in DOMAIN sites', i \notin broken'
      PROVE  SitePorts(i)'
  <2>1. i \in DOMAIN sites /\ SitePorts(i)
    BY <1>1 DEF PortsInv, PortsStay
  <2>2. /\ sites'[i].listen = sites[i].listen /\ sites'[i].tls = sites[i].tls
        /\ sites'[i].extra = sites[i].extra /\ sites'[i].enabled = sites[i].enabled
        /\ \A r : Excused(sites[i], r) => Excused(sites'[i], r)
    BY DEF PortsStay
  <2>3. \A b \in Admins :
            \/ job'[b] = job[b]
            \/ /\ (Tells(job[b]) /\ job[b].site = i) =>
                    \/ job[b].ports \subseteq bound' \cup queue'
                    \/ /\ Tells(job'[b]) /\ job'[b].site = i
                       /\ job[b].ports \subseteq job'[b].ports
               /\ (SeesExtras(job[b]) /\ job[b].site = i) =>
                    SeesExtras(job'[b]) /\ job'[b].site = i
               /\ (job'[b].at = "switch" /\ job'[b].site = i) =>
                    PrimaryPorts(sites[i]) \subseteq job'[b].ports
    BY <1>1, <2>1
  <2> QED
    BY <2>1, <2>2, <2>3, SiteKept
<1> QED
  BY <1>1 DEF PortsInv, SitePorts, Told

\* So is everything else of them, while no request comes to a pool.
LEMMA RequestMoves ==
  ASSUME SitesInv,
         next' = next, DOMAIN job' = Admins,
         RowsStay,
         broken \subseteq broken', bound \cup queue \subseteq bound' \cup queue',
         \A b \in Admins :
            \/ job'[b] = job[b]
            \/ /\ JobKnown(job'[b], next.site) /\ job'[b].at # "pool_rows"
               /\ Tells(job[b]) =>
                    \/ job[b].site \in broken'
                    \/ job[b].ports \subseteq bound' \cup queue'
                    \/ /\ Tells(job'[b]) /\ job'[b].site = job[b].site
                       /\ job[b].ports \subseteq job'[b].ports
               /\ SeesExtras(job[b]) =>
                    \/ job[b].site \in broken' \/ job[b].site \notin DOMAIN sites'
                    \/ SeesExtras(job'[b]) /\ job'[b].site = job[b].site
               /\ (job'[b].at = "switch" /\ job'[b].site \in DOMAIN sites) =>
                    PrimaryPorts(sites[job'[b].site]) \subseteq job'[b].ports
  PROVE  SitesInv'
<1>1. TablesInv'
  <2>1. \A b \in Admins : JobKnown(job'[b], next.site)
    BY DEF SitesInv, TablesInv
  <2> QED
    BY <2>1 DEF SitesInv, TablesInv, RowsStay, PortsStay
<1>2. PoolInv'
  BY PoolKept DEF SitesInv, RowsStay, PortsStay
<1>3. PortsInv'
  BY PortsKept DEF SitesInv, RowsStay, PortsStay
<1> QED
  BY <1>1, <1>2, <1>3 DEF SitesInv

\* Nothing at all changes in them.
LEMMA RowsWhole ==
  ASSUME TablesInv, UNCHANGED <<sites, pool>>
  PROVE  RowsStay
BY DEF TablesInv, RowsStay, PortsStay, Excused

\* One request moves.
LEMMA OneMoves ==
  ASSUME SitesInv, NEW a \in Admins, NEW j, job' = [job EXCEPT ![a] = j],
         JobKnown(j, next.site), j.at # "pool_rows",
         RowsStay, next' = next,
         broken \subseteq broken', bound \cup queue \subseteq bound' \cup queue',
         Tells(job[a]) =>
            \/ job[a].site \in broken'
            \/ job[a].ports \subseteq bound' \cup queue'
            \/ Tells(j) /\ j.site = job[a].site /\ job[a].ports \subseteq j.ports,
         SeesExtras(job[a]) =>
            \/ job[a].site \in broken' \/ job[a].site \notin DOMAIN sites'
            \/ SeesExtras(j) /\ j.site = job[a].site,
         (j.at = "switch" /\ j.site \in DOMAIN sites) =>
            PrimaryPorts(sites[j.site]) \subseteq j.ports
  PROVE  SitesInv'
<1>1. DOMAIN job = Admins
  BY DEF SitesInv, TablesInv
<1>2. DOMAIN job' = Admins /\ job'[a] = j /\ \A b \in Admins \ {a} : job'[b] = job[b]
  BY <1>1
<1> QED
  BY <1>2, RequestMoves

\* No request moves.
LEMMA NoneMoves ==
  ASSUME SitesInv, UNCHANGED <<job, next, broken>>, RowsStay,
         bound \cup queue \subseteq bound' \cup queue'
  PROVE  SitesInv'
<1>1. DOMAIN job' = Admins
  BY DEF SitesInv, TablesInv
<1> QED
  BY <1>1, RequestMoves

\* A request ends that has nothing more to tell of, or that breaks its site.
LEMMA RequestEnds ==
  ASSUME SitesInv, NEW a \in Admins, Ends(a), RowsStay, UNCHANGED <<next, queue, bound>>,
         broken \subseteq broken',
         job[a].site \in broken' \/ (~Tells(job[a]) /\ ~SeesExtras(job[a]))
  PROVE  SitesInv'
<1>1. job' = [job EXCEPT ![a] = Idle]
  BY DEF Ends
<1>2. JobKnown(Idle, next.site) /\ Idle.at = "rest"
  BY DEF JobKnown, Idle
<1> QED
  BY <1>1, <1>2, OneMoves

\* A statement that cannot be carried out breaks the site of its save, and no other.
LEMMA FailsKeeps ==
  ASSUME SitesInv, NEW a \in Admins, Fails(a)
  PROVE  SitesInv'
<1>1. /\ broken' = broken \cup {job[a].site} /\ Ends(a)
      /\ UNCHANGED <<sites, pool, next, queue, bound>>
  BY DEF Fails, Rows, Proxy
<1>2. RowsStay
  BY <1>1, RowsWhole DEF SitesInv
<1> QED
  BY <1>1, <1>2, RequestEnds

\* A save goes on to its next statement.
LEMMA SaveGoesOn ==
  ASSUME SitesInv, NEW a \in Admins, SaveJob(job[a]),
         NEW x \in {"ports", "aliases", "sign_in", "announce", "reload", "order", "assign"},
         Goes(a, x), RowsStay, UNCHANGED <<next, broken>>,
         bound \cup queue \subseteq bound' \cup queue',
         Tells(job[a]) =>
            \/ job[a].ports \subseteq bound' \cup queue'
            \/ x \in {"ports", "aliases", "announce"} \/ (x = "sign_in" /\ job[a].new),
         SeesExtras(job[a]) => x = "ports" \/ job[a].site \notin DOMAIN sites'
  PROVE  SitesInv'
<1> DEFINE e == [job[a] EXCEPT !.at = x]
<1>1. /\ SaveJob(e) /\ e.at = x /\ e.site = job[a].site /\ e.new = job[a].new
      /\ e.ports = job[a].ports
  <2> DEFINE j == job[a]
  <2>1. SaveJob(j) /\ x \in Onward /\ x # "pool"
    BY DEF Onward
  <2> HIDE DEF j
  <2>2. LET g == [j EXCEPT !.at = x]
        IN  /\ SaveJob(g) /\ g.at = x /\ g.form = j.form /\ g.site = j.site /\ g.new = j.new
            /\ g.ports = j.ports
    BY <2>1, SaveMoves
  <2> QED
    BY <2>2 DEF j
<1>2. job' = [job EXCEPT ![a] = e]
  BY DEF Goes, SitesInv, TablesInv
<1>3. job[a].site \in Nat /\ job[a].site < next.site
  <2>1. JobKnown(job[a], next.site) /\ job[a].at # "rest"
    BY DEF SitesInv, TablesInv, SaveJob
  <2> QED
    BY <2>1, JobRead
<1> HIDE DEF e
<1>4. JobKnown(e, next.site)
  BY <1>1, <1>3 DEF JobKnown
<1>5. /\ Tells(job[a]) =>
            \/ job[a].ports \subseteq bound' \cup queue'
            \/ Tells(e) /\ e.site = job[a].site /\ job[a].ports \subseteq e.ports
      /\ SeesExtras(job[a]) =>
            job[a].site \notin DOMAIN sites' \/ (SeesExtras(e) /\ e.site = job[a].site)
  BY <1>1 DEF Tells, SeesExtras
<1>6. e.at # "pool_rows" /\ e.at # "switch"
  BY <1>1
<1> QED
  BY <1>2, <1>4, <1>5, <1>6, OneMoves

-----------------------------------------------------------------------------
(* What a statement does to a row.                                            *)

\* Names written to a row: the others stay.
LEMMA NamesWritten ==
  ASSUME NEW s, SiteRow(s), NEW v
  PROVE  LET e == [s EXCEPT !.names = v]
         IN  /\ SiteRow(e) /\ e.listen = s.listen /\ e.tls = s.tls /\ e.extra = s.extra
             /\ e.enabled = s.enabled /\ e.cert = s.cert /\ e.acme_enabled = s.acme_enabled
<1> DEFINE e == [s EXCEPT !.names = v]
<1>1. s = [name |-> s.name, host |-> s.host, names |-> s.names, listen |-> s.listen,
           tls |-> s.tls, extra |-> s.extra, cert |-> s.cert, tls_redirect |-> s.tls_redirect,
           enabled |-> s.enabled, acme_enabled |-> s.acme_enabled]
  BY DEF SiteRow
<1>2. e = [name |-> s.name, host |-> s.host, names |-> v, listen |-> s.listen,
           tls |-> s.tls, extra |-> s.extra, cert |-> s.cert, tls_redirect |-> s.tls_redirect,
           enabled |-> s.enabled, acme_enabled |-> s.acme_enabled]
  BY <1>1
<1> HIDE DEF e
<1>3. /\ SiteRow(e) /\ e.listen = s.listen /\ e.tls = s.tls /\ e.extra = s.extra
      /\ e.enabled = s.enabled /\ e.cert = s.cert /\ e.acme_enabled = s.acme_enabled
  BY <1>2 DEF SiteRow
<1> QED
  BY <1>3 DEF e

\* So with extra ports.
LEMMA ExtraWritten ==
  ASSUME NEW s, SiteRow(s), NEW v
  PROVE  LET e == [s EXCEPT !.extra = v]
         IN  /\ SiteRow(e) /\ e.listen = s.listen /\ e.tls = s.tls /\ e.extra = v
             /\ e.enabled = s.enabled /\ e.cert = s.cert /\ e.acme_enabled = s.acme_enabled
<1> DEFINE e == [s EXCEPT !.extra = v]
<1>1. s = [name |-> s.name, host |-> s.host, names |-> s.names, listen |-> s.listen,
           tls |-> s.tls, extra |-> s.extra, cert |-> s.cert, tls_redirect |-> s.tls_redirect,
           enabled |-> s.enabled, acme_enabled |-> s.acme_enabled]
  BY DEF SiteRow
<1>2. e = [name |-> s.name, host |-> s.host, names |-> s.names, listen |-> s.listen,
           tls |-> s.tls, extra |-> v, cert |-> s.cert, tls_redirect |-> s.tls_redirect,
           enabled |-> s.enabled, acme_enabled |-> s.acme_enabled]
  BY <1>1
<1> HIDE DEF e
<1>3. /\ SiteRow(e) /\ e.listen = s.listen /\ e.tls = s.tls /\ e.extra = v
      /\ e.enabled = s.enabled /\ e.cert = s.cert /\ e.acme_enabled = s.acme_enabled
  BY <1>2 DEF SiteRow
<1> QED
  BY <1>3 DEF e

\* So with the switch.
LEMMA SwitchWritten ==
  ASSUME NEW s, SiteRow(s), NEW v
  PROVE  LET e == [s EXCEPT !.enabled = v]
         IN  /\ SiteRow(e) /\ e.listen = s.listen /\ e.tls = s.tls /\ e.extra = s.extra
             /\ e.enabled = v /\ e.cert = s.cert /\ e.acme_enabled = s.acme_enabled
<1> DEFINE e == [s EXCEPT !.enabled = v]
<1>1. s = [name |-> s.name, host |-> s.host, names |-> s.names, listen |-> s.listen,
           tls |-> s.tls, extra |-> s.extra, cert |-> s.cert, tls_redirect |-> s.tls_redirect,
           enabled |-> s.enabled, acme_enabled |-> s.acme_enabled]
  BY DEF SiteRow
<1>2. e = [name |-> s.name, host |-> s.host, names |-> s.names, listen |-> s.listen,
           tls |-> s.tls, extra |-> s.extra, cert |-> s.cert, tls_redirect |-> s.tls_redirect,
           enabled |-> v, acme_enabled |-> s.acme_enabled]
  BY <1>1
<1> HIDE DEF e
<1>3. /\ SiteRow(e) /\ e.listen = s.listen /\ e.tls = s.tls /\ e.extra = s.extra
      /\ e.enabled = v /\ e.cert = s.cert /\ e.acme_enabled = s.acme_enabled
  BY <1>2 DEF SiteRow
<1> QED
  BY <1>3 DEF e

\* A certificate assigned to a site excuses its HTTPS ports.
LEMMA CertWritten ==
  ASSUME NEW s, SiteRow(s), NEW c
  PROVE  LET e == [s EXCEPT !.cert = c, !.acme_enabled = TRUE]
         IN  /\ SiteRow(e) /\ e.listen = s.listen /\ e.tls = s.tls /\ e.extra = s.extra
             /\ e.enabled = s.enabled /\ e.acme_enabled = TRUE
<1> DEFINE f == [s EXCEPT !.cert = c]
           e == [s EXCEPT !.cert = c, !.acme_enabled = TRUE]
<1>1. e = [f EXCEPT !.acme_enabled = TRUE]
  OBVIOUS
<1>2. s = [name |-> s.name, host |-> s.host, names |-> s.names, listen |-> s.listen,
           tls |-> s.tls, extra |-> s.extra, cert |-> s.cert, tls_redirect |-> s.tls_redirect,
           enabled |-> s.enabled, acme_enabled |-> s.acme_enabled]
  BY DEF SiteRow
<1>3. f = [name |-> s.name, host |-> s.host, names |-> s.names, listen |-> s.listen,
           tls |-> s.tls, extra |-> s.extra, cert |-> c, tls_redirect |-> s.tls_redirect,
           enabled |-> s.enabled, acme_enabled |-> s.acme_enabled]
  BY <1>2
<1> HIDE DEF f, e
<1>4. e = [name |-> s.name, host |-> s.host, names |-> s.names, listen |-> s.listen,
           tls |-> s.tls, extra |-> s.extra, cert |-> c, tls_redirect |-> s.tls_redirect,
           enabled |-> s.enabled, acme_enabled |-> TRUE]
  BY <1>1, <1>3
<1>5. /\ SiteRow(e) /\ e.listen = s.listen /\ e.tls = s.tls /\ e.extra = s.extra
      /\ e.enabled = s.enabled /\ e.acme_enabled = TRUE
  BY <1>4 DEF SiteRow
<1> QED
  BY <1>5 DEF e

\* A new row.
LEMMA RowRead ==
  ASSUME NEW f
  PROVE  SiteRow(RowOf(f)) /\ RowOf(f).extra = {} /\ PortsNamed(RowOf(f)) = PrimaryPorts(RowOf(f))
<1>1. SiteRow(RowOf(f)) /\ RowOf(f).extra = {}
  BY DEF SiteRow, RowOf
<1> QED
  BY <1>1 DEF PortsNamed

-----------------------------------------------------------------------------
(* The statements that change no port.                                        *)

\* A form that passes its checks begins a save.
LEMMA SaveBegins ==
  ASSUME SitesInv, NEW a \in Admins, job[a].at = "rest", NEW f, FormReads(f), NEW i \in Nat,
         i < next.site, NEW x \in {"insert", "update"}, NEW n \in BOOLEAN,
         job' = [job EXCEPT ![a] =
            [at |-> x, form |-> f, site |-> i, new |-> n,
             ports |-> PortsNamed(RowOf(f)) \cup ExtrasOf(f),
             before |-> <<>>, added |-> {}, alone |-> TRUE, map |-> <<>>]],
         UNCHANGED <<sites, pool, next, broken, queue, bound>>
  PROVE  SitesInv'
<1> DEFINE j == [at |-> x, form |-> f, site |-> i, new |-> n,
                 ports |-> PortsNamed(RowOf(f)) \cup ExtrasOf(f),
                 before |-> <<>>, added |-> {}, alone |-> TRUE, map |-> <<>>]
<1>1. SaveJob(j) /\ j.site = i /\ j.at = x
  BY DEF SaveJob, FormReads, parse_upstreams
<1>2. RowsStay
  BY RowsWhole DEF SitesInv
<1>3. ~Tells(job[a]) /\ ~SeesExtras(job[a])
  BY DEF Tells, SeesExtras
<1> HIDE DEF j
<1>4. JobKnown(j, next.site)
  BY <1>1 DEF JobKnown
<1>5. job' = [job EXCEPT ![a] = j]
  BY DEF j
<1> QED
  BY <1>1, <1>2, <1>3, <1>4, <1>5, OneMoves

\* A form for a new site holds the ports it names.
LEMMA CheckCreateKeeps ==
  ASSUME SitesInv, NEW a \in Admins, NEW f, CheckCreate(a, f)
  PROVE  SitesInv'
<1>1. 0 \in Nat /\ 0 < next.site
  BY DEF SitesInv, TablesInv
<1>2. /\ job[a].at = "rest" /\ FormReads(f)
      /\ job' = [job EXCEPT ![a] =
            [at |-> "insert", form |-> f, site |-> 0, new |-> TRUE,
             ports |-> PortsNamed(RowOf(f)) \cup ExtrasOf(f),
             before |-> <<>>, added |-> {}, alone |-> TRUE, map |-> <<>>]]
      /\ UNCHANGED <<sites, pool, next, broken, queue, bound>>
  BY DEF CheckCreate, Rows, Proxy
<1> QED
  BY <1>1, <1>2, SaveBegins

\* So does one for a site that is there.
LEMMA CheckUpdateKeeps ==
  ASSUME SitesInv, NEW a \in Admins, NEW f, CheckUpdate(a, f)
  PROVE  SitesInv'
<1>1. PICK i \in DOMAIN sites :
         job' = [job EXCEPT ![a] =
            [at |-> "update", form |-> f, site |-> i, new |-> FALSE,
             ports |-> PortsNamed(RowOf(f)) \cup ExtrasOf(f),
             before |-> <<>>, added |-> {}, alone |-> TRUE, map |-> <<>>]]
  BY DEF CheckUpdate
<1>2. i \in Nat /\ i < next.site
  BY DEF SitesInv, TablesInv
<1>3. /\ job[a].at = "rest" /\ FormReads(f)
      /\ UNCHANGED <<sites, pool, next, broken, queue, bound>>
  BY DEF CheckUpdate, Rows, Proxy
<1> QED
  BY <1>1, <1>2, <1>3, SaveBegins

\* A row refused, or an order that came to nothing, leaves no port to tell of.
LEMMA RefusedKeeps ==
  ASSUME SitesInv, NEW a \in Admins, job[a].at \in {"insert", "update", "order"}, Refused(a)
  PROVE  SitesInv'
<1>1. Ends(a) /\ UNCHANGED <<sites, pool, next, queue, bound, broken>>
  BY DEF Refused, Rows, Proxy
<1>2. RowsStay
  BY <1>1, RowsWhole DEF SitesInv
<1>3. ~Tells(job[a]) /\ ~SeesExtras(job[a])
  BY DEF Tells, SeesExtras
<1> QED
  BY <1>1, <1>2, <1>3, RequestEnds

\* A pool that is done leaves the extra ports to come.
LEMMA PoolDoneKeeps ==
  ASSUME SitesInv, NEW a \in Admins, PoolDone(a)
  PROVE  SitesInv'
<1>1. /\ job[a].at = "pool_rows" /\ Goes(a, "ports")
      /\ UNCHANGED <<sites, pool, next, queue, bound, broken>>
  BY DEF PoolDone, Rows, Proxy
<1>2. RowsStay
  BY <1>1, RowsWhole DEF SitesInv
<1>3. SaveJob(job[a])
  BY <1>1, JobRead DEF SitesInv, TablesInv
<1> QED
  BY <1>1, <1>2, <1>3, SaveGoesOn

\* The names of a site are none of its ports.
LEMMA SaveAliasesKeeps ==
  ASSUME SitesInv, NEW a \in Admins, save_aliases(a)
  PROVE  SitesInv'
<1> DEFINE i == job[a].site
           f == job[a].form
           ok == IF i \in DOMAIN sites
                 THEN \A k \in DOMAIN sites \ {i} : f.aliases \cap sites[k].names = {}
                 ELSE f.aliases = {}
<1>1. job[a].at = "aliases" /\ SaveJob(job[a])
  BY JobRead DEF save_aliases, SitesInv, TablesInv
<1>2. CASE ok
  <2>1. /\ sites' = IF i \in DOMAIN sites THEN [sites EXCEPT ![i].names = f.aliases] ELSE sites
        /\ Goes(a, IF job[a].new THEN "sign_in" ELSE "announce")
        /\ UNCHANGED <<pool, next, queue, bound, broken>>
    BY <1>2 DEF save_aliases, Proxy
  <2>2. RowsStay
    <3>1. CASE i \in DOMAIN sites
      <4> DEFINE e == [sites[i] EXCEPT !.names = f.aliases]
      <4>1. sites' = [sites EXCEPT ![i] = e]
        BY <2>1, <3>1
      <4>2. /\ SiteRow(e) /\ e.listen = sites[i].listen /\ e.tls = sites[i].tls
            /\ e.extra = sites[i].extra /\ e.enabled = sites[i].enabled
            /\ e.cert = sites[i].cert /\ e.acme_enabled = sites[i].acme_enabled
        <5>1. SiteRow(sites[i])
          BY <3>1 DEF SitesInv, TablesInv
        <5> QED
          BY <5>1, NamesWritten
      <4> HIDE DEF e, i
      <4>3. \A r : Excused(sites[i], r) => Excused(e, r)
        BY <4>2 DEF Excused
      <4> QED
        BY <2>1, <3>1, <4>1, <4>2, <4>3 DEF RowsStay, PortsStay, SitesInv, TablesInv
    <3>2. CASE i \notin DOMAIN sites
      BY <2>1, <3>2, RowsWhole DEF SitesInv
    <3> QED
      BY <3>1, <3>2
  <2>3. CASE job[a].new
    <3>1. Goes(a, "sign_in")
      BY <2>1, <2>3
    <3> QED
      BY <1>1, <2>1, <2>2, <2>3, <3>1, SaveGoesOn DEF SeesExtras
  <2>4. CASE ~job[a].new
    <3>1. Goes(a, "announce")
      BY <2>1, <2>4
    <3> QED
      BY <1>1, <2>1, <2>2, <3>1, SaveGoesOn DEF SeesExtras
  <2> QED
    BY <2>3, <2>4
<1>3. CASE ~ok
  <2>1. Fails(a)
    BY <1>3 DEF save_aliases
  <2> QED
    BY <2>1, FailsKeeps
<1> QED
  BY <1>2, <1>3

\* The sign-in comes before the announcement of a new site, and after that of an old one.
LEMMA SaveSignInKeeps ==
  ASSUME SitesInv, NEW a \in Admins, save_sign_in(a)
  PROVE  SitesInv'
<1>1. job[a].at = "sign_in" /\ SaveJob(job[a])
  BY JobRead DEF save_sign_in, SitesInv, TablesInv
<1>2. CASE job[a].site \in DOMAIN sites \/ job[a].form.realm \notin auth_realms
  <2>1. /\ IF job[a].new THEN Goes(a, "announce") ELSE Ends(a)
        /\ UNCHANGED <<sites, pool, next, queue, bound, broken>>
    BY <1>2 DEF save_sign_in, Proxy
  <2>2. RowsStay
    BY <2>1, RowsWhole DEF SitesInv
  <2>3. CASE job[a].new
    BY <1>1, <2>1, <2>2, <2>3, SaveGoesOn DEF SeesExtras
  <2>4. CASE ~job[a].new
    <3>1. ~Tells(job[a]) /\ ~SeesExtras(job[a])
      BY <1>1, <2>4 DEF Tells, SeesExtras
    <3> QED
      BY <2>1, <2>2, <2>4, <3>1, RequestEnds
  <2> QED
    BY <2>3, <2>4
<1>3. CASE ~(job[a].site \in DOMAIN sites \/ job[a].form.realm \notin auth_realms)
  <2>1. Fails(a)
    BY <1>3 DEF save_sign_in
  <2> QED
    BY <2>1, FailsKeeps
<1> QED
  BY <1>2, <1>3

\* Announced, a port is told of.
LEMMA AnnounceKeeps ==
  ASSUME SitesInv, NEW a \in Admins, announce_site(a)
  PROVE  SitesInv'
<1>1. /\ job[a].at = "announce" /\ Goes(a, "reload") /\ queue' = queue \cup job[a].ports
      /\ UNCHANGED <<sites, pool, next, bound, broken>>
  BY DEF announce_site, Rows
<1>2. RowsStay
  BY <1>1, RowsWhole DEF SitesInv
<1>3. JobKnown(job[a], next.site) /\ (SaveJob(job[a]) \/ SwitchJob(job[a]))
  BY <1>1, JobRead DEF SitesInv, TablesInv
<1>4. CASE SaveJob(job[a])
  BY <1>1, <1>2, <1>4, SaveGoesOn DEF SeesExtras
<1>5. CASE SwitchJob(job[a])
  <2> DEFINE e == [job[a] EXCEPT !.at = "reload"]
  <2>1. SwitchJob(e) /\ e.at = "reload" /\ e.site = job[a].site
    BY <1>5, SwitchMoves
  <2>2. job' = [job EXCEPT ![a] = e]
    BY <1>1 DEF Goes, SitesInv, TablesInv
  <2>3. job[a].site \in Nat /\ job[a].site < next.site
    BY <1>1, <1>3, JobRead
  <2> HIDE DEF e
  <2>4. JobKnown(e, next.site)
    BY <2>1, <2>3 DEF JobKnown
  <2>5. ~SeesExtras(job[a])
    BY <1>1 DEF SeesExtras
  <2> QED
    BY <1>1, <1>2, <2>1, <2>2, <2>4, <2>5, OneMoves
<1> QED
  BY <1>3, <1>4, <1>5

\* By the time the map is read the ports have been announced.
LEMMA ReloadReadKeeps ==
  ASSUME SitesInv, NEW a \in Admins, ReloadRead(a)
  PROVE  SitesInv'
<1> DEFINE m == reload(sites, certs, Hosts)
           e == [job[a] EXCEPT !.at = "put", !.map = m]
<1>1. job[a].at = "reload" /\ UNCHANGED <<sites, pool, next, bound, queue, broken>>
  BY DEF ReloadRead, Rows, Proxy
<1>2. RowsStay
  BY <1>1, RowsWhole DEF SitesInv
<1>3. JobKnown(job[a], next.site) /\ (SaveJob(job[a]) \/ SwitchJob(job[a]))
  BY <1>1, JobRead DEF SitesInv, TablesInv
<1>4. job[a].site \in Nat /\ job[a].site < next.site
  BY <1>1, <1>3, JobRead
<1>5. job' = [job EXCEPT ![a] = e]
  BY DEF ReloadRead, SitesInv, TablesInv
<1> HIDE DEF m
<1>6. (SaveJob(e) \/ SwitchJob(e)) /\ e.at = "put" /\ e.site = job[a].site
  BY <1>1, <1>3, MapNoted
<1> HIDE DEF e
<1>7. JobKnown(e, next.site)
  BY <1>4, <1>6 DEF JobKnown
<1>8. ~Tells(job[a]) /\ ~SeesExtras(job[a])
  BY <1>1 DEF Tells, SeesExtras
<1> QED
  BY <1>1, <1>2, <1>5, <1>6, <1>7, <1>8, OneMoves

\* So they have when it is taken up.
LEMMA ReloadPutKeeps ==
  ASSUME SitesInv, NEW a \in Admins, ReloadPut(a)
  PROVE  SitesInv'
<1>1. /\ job[a].at = "put" /\ UNCHANGED <<sites, pool, next, bound, queue, broken>>
      /\ IF AfterReload(a) = "rest" THEN Ends(a) ELSE Goes(a, AfterReload(a))
  BY DEF ReloadPut, Rows, Proxy
<1>2. RowsStay
  BY <1>1, RowsWhole DEF SitesInv
<1>3. ~Tells(job[a]) /\ ~SeesExtras(job[a])
  BY <1>1 DEF Tells, SeesExtras
<1>4. SaveJob(job[a]) \/ SwitchJob(job[a])
  BY <1>1, JobRead DEF SitesInv, TablesInv
<1>5. CASE AfterReload(a) = "rest"
  BY <1>1, <1>2, <1>3, <1>5, RequestEnds
<1>6. CASE AfterReload(a) # "rest"
  <2>1. AfterReload(a) \in {"sign_in", "order"} /\ SaveJob(job[a])
    BY <1>4, <1>6 DEF AfterReload, SwitchJob
  <2>2. Goes(a, AfterReload(a))
    BY <1>1, <1>6
  <2> QED
    BY <1>1, <1>2, <1>3, <2>1, <2>2, SaveGoesOn
<1> QED
  BY <1>5, <1>6

\* An order's certificate is stored and the map rebuilt, or it came to nothing.
LEMMA NewSiteCertKeeps ==
  ASSUME SitesInv, NEW a \in Admins, request_cert_for_new_site(a)
  PROVE  SitesInv'
<1>1. job[a].at = "order"
  BY DEF request_cert_for_new_site
<1>2. CASE Refused(a)
  BY <1>1, <1>2, RefusedKeeps
<1>3. CASE ~Refused(a)
  <2>1. Goes(a, "assign") /\ UNCHANGED <<sites, pool, next, bound, queue, broken>>
    BY <1>3 DEF request_cert_for_new_site, Rows, Proxy
  <2>2. RowsStay
    BY <2>1, RowsWhole DEF SitesInv
  <2>3. ~Tells(job[a]) /\ ~SeesExtras(job[a])
    BY <1>1 DEF Tells, SeesExtras
  <2>4. JobKnown(job[a], next.site) /\ (SaveJob(job[a]) \/ OrderJob(job[a]))
    BY <1>1, JobRead DEF SitesInv, TablesInv
  <2>5. CASE SaveJob(job[a])
    BY <2>1, <2>2, <2>3, <2>5, SaveGoesOn
  <2>6. CASE OrderJob(job[a])
    <3> DEFINE e == [job[a] EXCEPT !.at = "assign"]
    <3>1. OrderJob(e) /\ e.at = "assign" /\ e.site = job[a].site
      BY <2>6, OrderMoves
    <3>2. job' = [job EXCEPT ![a] = e]
      BY <2>1 DEF Goes, SitesInv, TablesInv
    <3>3. job[a].site \in Nat /\ job[a].site < next.site
      BY <1>1, <2>4, JobRead
    <3> HIDE DEF e
    <3>4. JobKnown(e, next.site)
      BY <3>1, <3>3 DEF JobKnown
    <3> QED
      BY <2>1, <2>2, <2>3, <3>1, <3>2, <3>4, OneMoves
  <2> QED
    BY <2>4, <2>5, <2>6
<1> QED
  BY <1>2, <1>3

\* The button for a certificate holds no port.
LEMMA SiteAcmeKeeps ==
  ASSUME SitesInv, NEW a \in Admins, NEW i, post_site_acme(a, i)
  PROVE  SitesInv'
<1> DEFINE j == [at |-> "order", form |-> [host |-> sites[i].host], site |-> i, new |-> FALSE]
<1>1. /\ job[a].at = "rest" /\ i \in DOMAIN sites /\ job' = [job EXCEPT ![a] = j]
      /\ UNCHANGED <<sites, pool, next, bound, queue, broken>>
  BY DEF post_site_acme, Rows, Proxy
<1>2. RowsStay
  BY <1>1, RowsWhole DEF SitesInv
<1>3. OrderJob(j) /\ j.at = "order" /\ j.site = i
  BY DEF OrderJob
<1>4. i \in Nat /\ i < next.site
  BY <1>1 DEF SitesInv, TablesInv
<1> HIDE DEF j
<1>5. JobKnown(j, next.site)
  BY <1>3, <1>4 DEF JobKnown
<1>6. ~Tells(job[a]) /\ ~SeesExtras(job[a])
  BY <1>1 DEF Tells, SeesExtras
<1> QED
  BY <1>1, <1>2, <1>3, <1>5, <1>6, OneMoves

\* The HTTPS ports of a site whose certificate is its page's are excused.
LEMMA AssignCertificateKeeps ==
  ASSUME SitesInv, NEW a \in Admins, AssignCertificate(a)
  PROVE  SitesInv'
<1> DEFINE i == job[a].site
           c == job[a].form.host
<1>1. /\ job[a].at = "assign" /\ Ends(a)
      /\ sites' = IF i \in DOMAIN sites /\ c \in certs
                  THEN [sites EXCEPT ![i].cert = c, ![i].acme_enabled = TRUE] ELSE sites
      /\ UNCHANGED <<pool, next, bound, queue, broken>>
  BY DEF AssignCertificate, Proxy
<1>2. ~Tells(job[a]) /\ ~SeesExtras(job[a])
  BY <1>1 DEF Tells, SeesExtras
<1>3. RowsStay
  <2>1. CASE i \in DOMAIN sites /\ c \in certs
    <3> DEFINE e == [sites[i] EXCEPT !.cert = c, !.acme_enabled = TRUE]
    <3>1. sites' = [sites EXCEPT ![i] = e]
      BY <1>1, <2>1
    <3>2. SiteRow(sites[i])
      BY <2>1 DEF SitesInv, TablesInv
    <3>3. /\ SiteRow(e) /\ e.listen = sites[i].listen /\ e.tls = sites[i].tls
          /\ e.extra = sites[i].extra /\ e.enabled = sites[i].enabled /\ e.acme_enabled = TRUE
      <4> DEFINE s == sites[i]
      <4>1. SiteRow(s)
        BY <3>2
      <4> HIDE DEF s, c
      <4>2. LET g == [s EXCEPT !.cert = c, !.acme_enabled = TRUE]
            IN  /\ SiteRow(g) /\ g.listen = s.listen /\ g.tls = s.tls /\ g.extra = s.extra
                /\ g.enabled = s.enabled /\ g.acme_enabled = TRUE
        BY <4>1, CertWritten
      <4> QED
        BY <4>2 DEF s
    <3> HIDE DEF e, i
    <3>4. \A r : Excused(sites[i], r) => Excused(e, r)
      BY <3>3 DEF Excused
    <3>5. \A k \in DOMAIN sites \ {i} : sites'[k] = sites[k]
      BY <3>1
    <3>6. sites'[i] = e /\ DOMAIN sites' = DOMAIN sites
      BY <2>1, <3>1
    <3>7. ASSUME NEW k \in DOMAIN sites'
          PROVE  /\ pool'[k] = pool[k] /\ SiteRow(sites'[k])
                 /\ sites'[k].listen = sites[k].listen /\ sites'[k].tls = sites[k].tls
                 /\ sites'[k].extra = sites[k].extra /\ sites'[k].enabled = sites[k].enabled
                 /\ \A r : Excused(sites[k], r) => Excused(sites'[k], r)
      <4>1. CASE k = i
        BY <1>1, <3>3, <3>4, <3>6, <4>1
      <4>2. CASE k # i
        BY <1>1, <3>5, <3>6, <4>2 DEF SitesInv, TablesInv
      <4> QED
        BY <4>1, <4>2
    <3> QED
      BY <1>1, <3>6, <3>7 DEF RowsStay, PortsStay, SitesInv, TablesInv
  <2>2. CASE ~(i \in DOMAIN sites /\ c \in certs)
    BY <1>1, <2>2, RowsWhole DEF SitesInv
  <2> QED
    BY <2>1, <2>2
<1> QED
  BY <1>1, <1>2, <1>3, RequestEnds

\* One about to switch a site holds the ports of its row.
LEMMA ToggleReadKeeps ==
  ASSUME SitesInv, NEW a \in Admins, NEW i, ToggleRead(a, i)
  PROVE  SitesInv'
<1> DEFINE j == [at |-> "switch", form |-> None, site |-> i, new |-> FALSE, to |-> ~sites[i].enabled,
                 ports |-> PrimaryPorts(sites[i]), map |-> <<>>]
<1>1. /\ job[a].at = "rest" /\ i \in DOMAIN sites /\ job' = [job EXCEPT ![a] = j]
      /\ UNCHANGED <<sites, pool, next, bound, queue, broken>>
  BY DEF ToggleRead, Rows, Proxy
<1>2. RowsStay
  BY <1>1, RowsWhole DEF SitesInv
<1>3. SwitchJob(j) /\ j.at = "switch" /\ j.site = i /\ j.ports = PrimaryPorts(sites[i])
  BY DEF SwitchJob
<1>4. i \in Nat /\ i < next.site
  BY <1>1 DEF SitesInv, TablesInv
<1> HIDE DEF j
<1>5. JobKnown(j, next.site)
  BY <1>3, <1>4 DEF JobKnown
<1>6. ~Tells(job[a]) /\ ~SeesExtras(job[a])
  BY <1>1 DEF Tells, SeesExtras
<1> QED
  BY <1>1, <1>2, <1>3, <1>5, <1>6, OneMoves

\* A site deleted takes its pool with it; the others stay as they are.
LEMMA SiteDeleteKeeps ==
  ASSUME SitesInv, NEW i, post_site_delete(i)
  PROVE  SitesInv'
<1> DEFINE left == DOMAIN sites \ {i}
<1>1. /\ sites' = Restrict(sites, left) /\ pool' = Restrict(pool, left)
      /\ UNCHANGED <<job, next, bound, queue, broken>>
  BY DEF post_site_delete, Proxy
<1>2. /\ DOMAIN sites' = left /\ DOMAIN pool' = left
      /\ \A k \in left : sites'[k] = sites[k] /\ pool'[k] = pool[k]
  BY <1>1 DEF Restrict
<1>3. RowsStay
  BY <1>2 DEF RowsStay, PortsStay, SitesInv, TablesInv, Excused
<1> QED
  BY <1>1, <1>3, NoneMoves

\* No row names a realm that goes.
LEMMA DeleteRealmKeeps ==
  ASSUME SitesInv, NEW r, DeleteRealm(r)
  PROVE  SitesInv'
<1>1. UNCHANGED <<sites, pool, job, next, bound, queue, broken>>
  BY DEF DeleteRealm, Rows, Proxy
<1>2. RowsStay
  BY <1>1, RowsWhole DEF SitesInv
<1> QED
  BY <1>1, <1>2, NoneMoves

\* What is taken up is the proxy's.
LEMMA TakeUpKeeps ==
  ASSUME SitesInv, TakeUpPort
  PROVE  SitesInv'
<1>1. /\ UNCHANGED <<sites, pool, job, next, broken>>
      /\ bound \cup queue \subseteq bound' \cup queue'
  BY DEF TakeUpPort, Rows
<1>2. RowsStay
  BY <1>1, RowsWhole DEF SitesInv
<1> QED
  BY <1>1, <1>2, NoneMoves

-----------------------------------------------------------------------------
(* The pool.                                                                  *)

\* A pool read now is held as it was read, and who shares it is not alone.
LEMMA ReadPoolKeeps ==
  ASSUME SitesInv, NEW a \in Admins, ReadPool(a)
  PROVE  SitesInv'
<1> DEFINE i == job[a].site
           others == {b \in Admins \ {a} : job[b].at = "pool_rows" /\ job[b].site = i}
           f == [job[a] EXCEPT !.at = "pool_rows", !.before = PoolRow(i), !.alone = others = {}]
<1>1. /\ job[a].at = "pool"
      /\ job' = [b \in Admins |-> IF b = a THEN f
                                  ELSE IF b \in others THEN [job[b] EXCEPT !.alone = FALSE]
                                  ELSE job[b]]
      /\ UNCHANGED <<sites, pool, next, bound, queue, broken>>
  BY DEF ReadPool, Rows, Proxy
<1>2. SaveJob(job[a]) /\ job[a].added = {} /\ i \in Nat /\ i < next.site
  <2>1. JobKnown(job[a], next.site)
    BY DEF SitesInv, TablesInv
  <2>2. SaveJob(job[a]) /\ i \in Nat /\ i < next.site
    BY <1>1, <2>1, JobRead
  <2> QED
    BY <1>1, <2>2 DEF SaveJob
<1>3. /\ SaveJob(f) /\ f.at = "pool_rows" /\ f.site = i /\ f.new = job[a].new
      /\ f.ports = job[a].ports /\ f.before = PoolRow(i) /\ f.added = {} /\ f.form = job[a].form
      /\ f.alone = (others = {})
  <2> DEFINE p == PoolRow(i)
             o == others = {}
             g == [job[a] EXCEPT !.at = "pool_rows", !.before = p, !.alone = o]
  <2> HIDE DEF p, o
  <2>1. job[a] = [at |-> job[a].at, form |-> job[a].form, site |-> job[a].site,
                  new |-> job[a].new, ports |-> job[a].ports, before |-> job[a].before,
                  added |-> job[a].added, alone |-> job[a].alone, map |-> job[a].map]
    BY <1>2 DEF SaveJob
  <2>2. g \in [at : {"pool_rows"}, form : {job[a].form}, site : {job[a].site},
               new : {job[a].new}, ports : {job[a].ports}, before : {p},
               added : {job[a].added}, alone : {o}, map : {job[a].map}]
    BY <2>1
  <2> HIDE DEF g
  <2>3. /\ g = [at |-> g.at, form |-> g.form, site |-> g.site, new |-> g.new, ports |-> g.ports,
                before |-> g.before, added |-> g.added, alone |-> g.alone, map |-> g.map]
        /\ g.at = "pool_rows" /\ g.site = i /\ g.new = job[a].new
        /\ g.ports = job[a].ports /\ g.before = p /\ g.added = job[a].added
        /\ g.form = job[a].form /\ g.alone = o
    BY <2>2
  <2>4. SaveJob(g)
    BY <1>2, <2>3 DEF SaveJob
  <2>5. g = f
    BY DEF g, p, o
  <2> QED
    BY <1>2, <2>3, <2>4, <2>5 DEF p, o
<1> HIDE DEF f
<1>4. ASSUME NEW b \in others
      PROVE  /\ SaveJob(job'[b]) /\ job'[b].at = "pool_rows" /\ job'[b].site = job[b].site
             /\ job'[b].ports = job[b].ports /\ ~job'[b].alone /\ b # a
  <2>1. b \in Admins /\ b # a /\ job[b].at = "pool_rows" /\ JobKnown(job[b], next.site)
    BY DEF SitesInv, TablesInv
  <2>2. SaveJob(job[b])
    BY <2>1, JobRead
  <2>3. job[b] = [at |-> job[b].at, form |-> job[b].form, site |-> job[b].site,
                  new |-> job[b].new, ports |-> job[b].ports, before |-> job[b].before,
                  added |-> job[b].added, alone |-> job[b].alone, map |-> job[b].map]
    BY <2>2 DEF SaveJob
  <2> DEFINE g == [job[b] EXCEPT !.alone = FALSE]
  <2>4. g \in [at : {job[b].at}, form : {job[b].form}, site : {job[b].site},
               new : {job[b].new}, ports : {job[b].ports}, before : {job[b].before},
               added : {job[b].added}, alone : {FALSE}, map : {job[b].map}]
    BY <2>3
  <2> HIDE DEF g
  <2>5. /\ g.at = job[b].at /\ g.form = job[b].form /\ g.site = job[b].site
        /\ g.new = job[b].new /\ g.ports = job[b].ports /\ g.before = job[b].before
        /\ g.added = job[b].added /\ g.alone = FALSE /\ g.map = job[b].map
    BY <2>4
  <2>6. SaveJob(g)
    <3>1. g = [at |-> g.at, form |-> g.form, site |-> g.site, new |-> g.new, ports |-> g.ports,
               before |-> g.before, added |-> g.added, alone |-> g.alone, map |-> g.map]
      BY <2>4
    <3> QED
      BY <2>2, <2>5, <3>1 DEF SaveJob
  <2>7. job'[b] = g
    BY <1>1, <2>1 DEF g
  <2> QED
    BY <2>1, <2>5, <2>6, <2>7
<1>5. /\ DOMAIN job' = Admins /\ job'[a] = f
      /\ \A b \in Admins : b # a /\ b \notin others => job'[b] = job[b]
  BY <1>1
<1>6. TablesInv'
  <2>1. ASSUME NEW b \in Admins
        PROVE  JobKnown(job'[b], next.site)
    <3>1. CASE b = a
      BY <1>2, <1>3, <1>5, <3>1 DEF JobKnown
    <3>2. CASE b \in others
      <4>1. job[b].site = i
        BY <3>2
      <4> QED
        BY <1>2, <1>4, <3>2, <4>1 DEF JobKnown
    <3>3. CASE b # a /\ b \notin others
      BY <1>5, <3>3 DEF SitesInv, TablesInv
    <3> QED
      BY <3>1, <3>2, <3>3
  <2> QED
    BY <1>1, <1>5, <2>1 DEF SitesInv, TablesInv
<1>7. PoolInv'
  <2> SUFFICES ASSUME NEW b \in Admins, job'[b].at = "pool_rows", job'[b].alone
               PROVE  /\ \A c \in Admins \ {b} :
                           job'[c].at = "pool_rows" => job'[c].site # job'[b].site
                      /\ job'[b].site \in DOMAIN sites' => PoolHeld(job'[b], pool'[job'[b].site])
    BY DEF PoolInv, PoolHeld
  <2>1. \A c \in Admins \ {a} : job'[c].at = "pool_rows" /\ job'[c].site = i => c \in others
    BY <1>4, <1>5
  <2>2. CASE b = a
    <3>1. others = {}
      BY <1>3, <1>5, <2>2
    <3>2. i \in DOMAIN sites => PoolRow(i) = pool[i]
      BY DEF PoolRow, SitesInv, TablesInv
    <3>3. i \in DOMAIN sites => PoolHeld(f, pool[i])
      BY <1>3, <3>2 DEF PoolHeld
    <3> QED
      BY <1>1, <1>3, <1>5, <2>1, <2>2, <3>1, <3>3
  <2>3. CASE b # a
    <3>1. b \notin others /\ job'[b] = job[b]
      BY <1>4, <1>5, <2>3
    <3>2. /\ \A c \in Admins \ {b} : job[c].at = "pool_rows" => job[c].site # job[b].site
          /\ job[b].site \in DOMAIN sites => PoolHeld(job[b], pool[job[b].site])
      BY <3>1 DEF SitesInv, PoolInv
    <3>3. job[b].site # i
      BY <2>3, <3>1
    <3>4. \A c \in Admins \ {b} : job'[c].at = "pool_rows" => job'[c].site # job'[b].site
      BY <1>3, <1>4, <1>5, <3>1, <3>2, <3>3
    <3> QED
      BY <1>1, <3>1, <3>2, <3>4
  <2> QED
    BY <2>2, <2>3
<1>8. PortsInv'
  <2>1. PortsStay
    BY <1>1, RowsWhole DEF SitesInv, RowsStay
  <2>2. /\ Tells(f) /\ SeesExtras(f) /\ f.at # "switch"
        /\ \A b \in others : Tells(job'[b]) /\ SeesExtras(job'[b]) /\ job'[b].at # "switch"
    BY <1>3, <1>4 DEF Tells, SeesExtras
  <2> HIDE DEF others, i
  <2>3. ASSUME NEW b \in Admins
        PROVE  \/ job'[b] = job[b]
               \/ /\ Tells(job'[b]) /\ job'[b].site = job[b].site
                  /\ job'[b].ports = job[b].ports
                  /\ SeesExtras(job'[b]) /\ job'[b].at # "switch"
    <3>1. CASE b = a
      BY <1>3, <1>5, <2>2, <3>1 DEF i
    <3>2. CASE b \in others
      BY <1>4, <2>2, <3>2
    <3>3. CASE b # a /\ b \notin others
      BY <1>5, <3>3
    <3> QED
      BY <3>1, <3>2, <3>3
  <2> QED
    BY <1>1, <2>1, <2>3, PortsKept DEF SitesInv
<1> QED
  BY <1>6, <1>7, <1>8 DEF SitesInv

\* A backend added is listed, and is there.
LEMMA PoolAdds ==
  ASSUME NEW j, NEW now, PoolHeld(j, now), NEW u \in j.form.pool, u \notin DOMAIN now, NEW v,
         NEW e, e.before = j.before, e.form = j.form, e.added = j.added \cup {u}
  PROVE  PoolHeld(e, With(now, u, v))
<1>1. /\ DOMAIN With(now, u, v) = DOMAIN now \cup {u}
      /\ \A w \in DOMAIN now : With(now, u, v)[w] = now[w]
  BY DEF With
<1> QED
  BY <1>1 DEF PoolHeld

\* One that is not listed goes only when nothing is left to add.
LEMMA PoolDrops ==
  ASSUME NEW j, NEW now, PoolHeld(j, now), NEW u, u \notin j.form.pool,
         j.form.pool \subseteq DOMAIN j.before \cup j.added
  PROVE  PoolHeld(j, Restrict(now, DOMAIN now \ {u}))
<1>1. /\ DOMAIN Restrict(now, DOMAIN now \ {u}) = DOMAIN now \ {u}
      /\ \A w \in DOMAIN now \ {u} : Restrict(now, DOMAIN now \ {u})[w] = now[w]
  BY DEF Restrict
<1> QED
  BY <1>1 DEF PoolHeld

\* A save adds a backend it lists and did not find, in a row of its own.
LEMMA AddBackendKeeps ==
  ASSUME SitesInv, NEW a \in Admins, AddBackend(a)
  PROVE  SitesInv'
<1> DEFINE i == job[a].site
<1>1. job[a].at = "pool_rows" /\ SaveJob(job[a])
  BY JobRead DEF AddBackend, SitesInv, TablesInv
<1>2. PICK u \in ToAdd(a) :
         IF i \in DOMAIN sites /\ u \notin DOMAIN PoolRow(i)
         THEN /\ pool' = [pool EXCEPT ![i] = With(@, u, next.row)]
              /\ next' = [next EXCEPT !.row = @ + 1]
              /\ job' = [job EXCEPT ![a].added = @ \cup {u}]
              /\ UNCHANGED <<sites, site_auth, auth_realms, certs, Proxy, sni, broken, saves, stops>>
         ELSE Fails(a)
  BY DEF AddBackend
<1>3. CASE ~(i \in DOMAIN sites /\ u \notin DOMAIN PoolRow(i))
  <2>1. Fails(a)
    BY <1>2, <1>3
  <2> QED
    BY <2>1, FailsKeeps
<1>4. CASE i \in DOMAIN sites /\ u \notin DOMAIN PoolRow(i)
  <2>1. u \in job[a].form.pool /\ i \in DOMAIN pool /\ PoolRow(i) = pool[i]
    BY <1>4 DEF ToAdd, PoolRow, SitesInv, TablesInv
  <2> DEFINE e == [job[a] EXCEPT !.added = job[a].added \cup {u}]
             p == With(pool[i], u, next.row)
  <2>2. /\ job' = [job EXCEPT ![a] = e] /\ pool' = [pool EXCEPT ![i] = p]
        /\ next' = [next EXCEPT !.row = next.row + 1]
        /\ UNCHANGED <<sites, queue, bound, broken>>
    BY <1>2, <1>4, <2>1 DEF Proxy, SitesInv, TablesInv
  <2>3. /\ SaveJob(e) /\ e.at = "pool_rows" /\ e.site = i /\ e.form = job[a].form
        /\ e.ports = job[a].ports /\ e.before = job[a].before /\ e.alone = job[a].alone
        /\ e.added = job[a].added \cup {u}
    <3>1. job[a] = [at |-> job[a].at, form |-> job[a].form, site |-> job[a].site,
                    new |-> job[a].new, ports |-> job[a].ports, before |-> job[a].before,
                    added |-> job[a].added, alone |-> job[a].alone, map |-> job[a].map]
      BY <1>1 DEF SaveJob
    <3> DEFINE d == job[a].added \cup {u}
               g == [job[a] EXCEPT !.added = d]
    <3> HIDE DEF d
    <3>2. g = [at |-> job[a].at, form |-> job[a].form, site |-> job[a].site,
               new |-> job[a].new, ports |-> job[a].ports, before |-> job[a].before,
               added |-> d, alone |-> job[a].alone, map |-> job[a].map]
      BY <3>1
    <3> HIDE DEF g
    <3>3. /\ g.at = job[a].at /\ g.form = job[a].form /\ g.site = job[a].site
          /\ g.new = job[a].new /\ g.ports = job[a].ports /\ g.before = job[a].before
          /\ g.added = d /\ g.alone = job[a].alone /\ g.map = job[a].map
      BY <3>2
    <3>4. SaveJob(g)
      BY <1>1, <3>2, <3>3 DEF SaveJob
    <3>5. g = e
      BY DEF g, d
    <3> QED
      BY <1>1, <3>3, <3>4, <3>5 DEF d
  <2> HIDE DEF e, p
  <2>4. /\ next' = [site |-> next'.site, row |-> next'.row] /\ next'.site = next.site
    BY <2>2 DEF SitesInv, TablesInv
  <2>5. /\ DOMAIN job' = Admins /\ job'[a] = e /\ \A b \in Admins \ {a} : job'[b] = job[b]
        /\ DOMAIN pool' = DOMAIN pool /\ pool'[i] = p
        /\ \A k \in DOMAIN pool \ {i} : pool'[k] = pool[k]
    BY <2>1, <2>2 DEF SitesInv, TablesInv
  <2>6. JobKnown(e, next.site)
    <3>1. JobKnown(job[a], next.site)
      BY DEF SitesInv, TablesInv
    <3>2. i \in Nat /\ i < next.site
      BY <1>1, <3>1, JobRead
    <3> QED
      BY <2>3, <3>2 DEF JobKnown
  <2>7. TablesInv'
    BY <2>2, <2>4, <2>5, <2>6 DEF SitesInv, TablesInv
  <2>8. PoolInv'
    <3> SUFFICES ASSUME NEW b \in Admins, job'[b].at = "pool_rows", job'[b].alone
                 PROVE  /\ \A c \in Admins \ {b} :
                             job'[c].at = "pool_rows" => job'[c].site # job'[b].site
                        /\ job'[b].site \in DOMAIN sites' => PoolHeld(job'[b], pool'[job'[b].site])
      BY DEF PoolInv, PoolHeld
    <3>1. /\ job[b].at = "pool_rows" /\ job[b].alone /\ job'[b].site = job[b].site
          /\ \A c \in Admins : job'[c].at = job[c].at /\ job'[c].site = job[c].site
      BY <1>1, <2>3, <2>5
    <3>2. /\ \A c \in Admins \ {b} : job[c].at = "pool_rows" => job[c].site # job[b].site
          /\ job[b].site \in DOMAIN sites => PoolHeld(job[b], pool[job[b].site])
      BY <3>1 DEF SitesInv, PoolInv
    <3>3. CASE b = a
      <4>1. PoolHeld(job[a], pool[i])
        BY <1>4, <3>2, <3>3
      <4>2. PoolHeld(e, p)
        BY <1>4, <2>1, <2>3, <4>1, PoolAdds DEF p
      <4> QED
        BY <2>3, <2>5, <3>1, <3>2, <3>3, <4>2
    <3>4. CASE b # a
      <4>1. job[b].site # i
        BY <1>1, <3>2, <3>4
      <4> QED
        BY <2>2, <2>5, <3>1, <3>2, <3>4, <4>1 DEF SitesInv, TablesInv
    <3> QED
      BY <3>3, <3>4
  <2>9. PortsInv'
    <3>1. PortsStay
      BY <2>2 DEF PortsStay, SitesInv, TablesInv, Excused
    <3>2. Tells(e) /\ SeesExtras(e) /\ e.at # "switch"
      BY <2>3 DEF Tells, SeesExtras
    <3> QED
      BY <2>2, <2>3, <2>5, <3>1, <3>2, PortsKept DEF SitesInv
  <2> QED
    BY <2>7, <2>8, <2>9 DEF SitesInv
<1> QED
  BY <1>3, <1>4

\* It removes one it does not list, after it has added all.
LEMMA DropBackendKeeps ==
  ASSUME SitesInv, NEW a \in Admins, DropBackend(a)
  PROVE  SitesInv'
<1> DEFINE i == job[a].site
<1>1. job[a].at = "pool_rows" /\ ToAdd(a) = {}
  BY DEF DropBackend
<1>2. PICK u \in ToDrop(a) : pool' = [pool EXCEPT ![i] = Restrict(@, DOMAIN @ \ {u})]
  BY DEF DropBackend
<1>3. UNCHANGED <<sites, job, next, queue, bound, broken>>
  BY DEF DropBackend, Proxy
<1>4. /\ DOMAIN pool' = DOMAIN pool
      /\ i \in DOMAIN pool => pool'[i] = Restrict(pool[i], DOMAIN pool[i] \ {u})
      /\ \A k \in DOMAIN pool \ {i} : pool'[k] = pool[k]
  BY <1>2
<1>5. TablesInv'
  BY <1>3, <1>4 DEF SitesInv, TablesInv
<1>6. PoolInv'
  <2> SUFFICES ASSUME NEW b \in Admins, job[b].at = "pool_rows", job[b].alone
               PROVE  /\ \A c \in Admins \ {b} :
                           job[c].at = "pool_rows" => job[c].site # job[b].site
                      /\ job[b].site \in DOMAIN sites => PoolHeld(job[b], pool'[job[b].site])
    BY <1>3 DEF PoolInv, PoolHeld
  <2>1. /\ \A c \in Admins \ {b} : job[c].at = "pool_rows" => job[c].site # job[b].site
        /\ job[b].site \in DOMAIN sites => PoolHeld(job[b], pool[job[b].site])
    BY DEF SitesInv, PoolInv
  <2>2. CASE b = a
    <3>1. u \notin job[a].form.pool /\ job[a].form.pool \subseteq DOMAIN job[a].before \cup job[a].added
      BY <1>1 DEF ToAdd, ToDrop
    <3> QED
      BY <1>4, <2>1, <2>2, <3>1, PoolDrops DEF SitesInv, TablesInv
  <2>3. CASE b # a
    <3>1. job[b].site # i
      BY <1>1, <2>1, <2>3
    <3> QED
      BY <1>4, <2>1, <3>1 DEF SitesInv, TablesInv
  <2> QED
    BY <2>2, <2>3
<1>7. PortsInv'
  <2>1. PortsStay
    BY <1>3 DEF PortsStay, SitesInv, TablesInv, Excused
  <2> QED
    BY <1>3, <2>1, PortsKept DEF SitesInv
<1> QED
  BY <1>5, <1>6, <1>7 DEF SitesInv

-----------------------------------------------------------------------------
(* The statements that change ports.                                          *)

\* A save that goes on, and where it is then.
LEMMA SaveAt ==
  ASSUME SitesInv, NEW a \in Admins, SaveJob(job[a]),
         NEW x \in {"pool", "ports", "aliases", "sign_in", "announce", "reload", "order", "assign"},
         Goes(a, x),
         x = "pool" => job[a].at \in {"insert", "update"}
  PROVE  /\ DOMAIN job' = Admins /\ \A b \in Admins \ {a} : job'[b] = job[b]
         /\ SaveJob(job'[a]) /\ job'[a].at = x /\ job'[a].form = job[a].form
         /\ job'[a].site = job[a].site /\ job'[a].ports = job[a].ports
         /\ JobKnown(job'[a], next.site)
<1> DEFINE e == [job[a] EXCEPT !.at = x]
<1>1. /\ SaveJob(e) /\ e.at = x /\ e.form = job[a].form /\ e.site = job[a].site
      /\ e.ports = job[a].ports
  <2>1. x \in Onward
    BY DEF Onward
  <2>2. x = "pool" => job[a].at \in {"insert", "update"}
    OBVIOUS
  <2> DEFINE j == job[a]
  <2>3. SaveJob(j) /\ (x = "pool" => j.at \in {"insert", "update"})
    BY <2>2
  <2> HIDE DEF j
  <2>4. LET g == [j EXCEPT !.at = x]
        IN  /\ SaveJob(g) /\ g.at = x /\ g.form = j.form /\ g.site = j.site /\ g.new = j.new
            /\ g.ports = j.ports
    BY <2>1, <2>3, SaveMoves
  <2> QED
    BY <2>4 DEF j
<1>2. job[a].site \in Nat /\ job[a].site < next.site
  <2>1. JobKnown(job[a], next.site) /\ job[a].at # "rest"
    BY DEF SitesInv, TablesInv, SaveJob
  <2> QED
    BY <2>1, JobRead
<1>3. job' = [job EXCEPT ![a] = e] /\ DOMAIN job = Admins
  BY DEF Goes, SitesInv, TablesInv
<1> HIDE DEF e
<1>4. JobKnown(e, next.site)
  BY <1>1, <1>2 DEF JobKnown
<1> QED
  BY <1>1, <1>3, <1>4

\* A new row names the ports of the form that made it.
LEMMA InsertSiteKeeps ==
  ASSUME SitesInv, NEW a \in Admins, InsertSite(a)
  PROVE  SitesInv'
<1> DEFINE n == next.site
           f == job[a].form
<1>1. job[a].at = "insert" /\ SaveJob(job[a])
  BY JobRead DEF InsertSite, SitesInv, TablesInv
<1>2. CASE ~RowFits(f, 0)
  <2>1. Refused(a)
    BY <1>2 DEF InsertSite
  <2> QED
    BY <1>1, <2>1, RefusedKeeps
<1>3. CASE RowFits(f, 0)
  <2> DEFINE d == [job[a] EXCEPT !.at = "pool"]
             e == [d EXCEPT !.site = n]
  <2>1. /\ sites' = With(sites, n, RowOf(f)) /\ pool' = With(pool, n, <<>>)
        /\ next' = [next EXCEPT !.site = n + 1]
        /\ job' = [job EXCEPT ![a].at = "pool", ![a].site = n]
        /\ UNCHANGED <<queue, bound, broken>>
    BY <1>3 DEF InsertSite, Proxy, SitesInv, TablesInv
  <2>2. job' = [job EXCEPT ![a] = e]
    BY <2>1 DEF SitesInv, TablesInv
  <2>3. /\ SaveJob(d) /\ d.at = "pool" /\ d.form = f /\ d.ports = job[a].ports
    <3> DEFINE j == job[a]
               x == "pool"
    <3>1. SaveJob(j) /\ x \in Onward /\ j.at \in {"insert", "update"} /\ x = "pool"
      BY <1>1 DEF Onward
    <3> HIDE DEF j, x
    <3>2. LET g == [j EXCEPT !.at = x]
          IN  /\ SaveJob(g) /\ g.at = x /\ g.form = j.form /\ g.site = j.site /\ g.new = j.new
              /\ g.ports = j.ports
      BY <3>1, SaveMoves
    <3> QED
      BY <3>1, <3>2 DEF j, x
  <2> HIDE DEF d
  <2>4. /\ SaveJob(e) /\ e.at = "pool" /\ e.form = f /\ e.ports = job[a].ports /\ e.site = n
    <3>1. d = [at |-> d.at, form |-> d.form, site |-> d.site, new |-> d.new, ports |-> d.ports,
               before |-> d.before, added |-> d.added, alone |-> d.alone, map |-> d.map]
      BY <2>3 DEF SaveJob
    <3> HIDE DEF n
    <3>2. e = [at |-> d.at, form |-> d.form, site |-> n, new |-> d.new, ports |-> d.ports,
               before |-> d.before, added |-> d.added, alone |-> d.alone, map |-> d.map]
      BY <3>1
    <3> HIDE DEF e
    <3>3. /\ e.at = d.at /\ e.form = d.form /\ e.site = n /\ e.new = d.new
          /\ e.ports = d.ports /\ e.before = d.before
          /\ e.added = d.added /\ e.alone = d.alone /\ e.map = d.map
      BY <3>2
    <3>4. SaveJob(e)
      BY <2>3, <3>2, <3>3 DEF SaveJob
    <3> QED
      BY <2>3, <3>3, <3>4
  <2> HIDE DEF e
  <2>5. /\ next' = [site |-> next'.site, row |-> next'.row] /\ next'.site = n + 1
        /\ n \in Nat /\ n + 1 \in Nat \ {0} /\ n <= n + 1 /\ n < n + 1
    BY <2>1 DEF SitesInv, TablesInv
  <2>6. /\ DOMAIN job' = Admins /\ job'[a] = e /\ \A b \in Admins \ {a} : job'[b] = job[b]
    BY <2>2 DEF SitesInv, TablesInv
  <2>7. /\ n \notin DOMAIN sites
        /\ DOMAIN sites' = DOMAIN sites \cup {n} /\ DOMAIN pool' = DOMAIN sites \cup {n}
        /\ sites'[n] = RowOf(f)
        /\ \A k \in DOMAIN sites : sites'[k] = sites[k] /\ pool'[k] = pool[k]
    <3>1. n \notin DOMAIN sites /\ DOMAIN pool = DOMAIN sites
      BY DEF SitesInv, TablesInv
    <3> QED
      BY <2>1, <3>1 DEF With
  <2>8. \A b \in Admins \ {a} : job'[b].at # "rest" => job'[b].site \in Nat /\ job'[b].site < n
    <3>1. \A b \in Admins : JobKnown(job[b], n)
      BY DEF SitesInv, TablesInv
    <3> QED
      BY <2>6, <3>1, JobRead
  <2>9. TablesInv'
    <3>1. \A b \in Admins : JobKnown(job[b], n)
      BY DEF SitesInv, TablesInv
    <3> HIDE DEF n
    <3>2. \A b \in Admins : JobKnown(job[b], n + 1)
      BY <2>5, <3>1, JobStays
    <3>3. JobKnown(e, n + 1)
      BY <2>4, <2>5 DEF JobKnown
    <3>4. \A b \in Admins : JobKnown(job'[b], n + 1)
      BY <2>6, <3>2, <3>3
    <3>5. \A k \in DOMAIN sites' : k \in Nat /\ k < n + 1 /\ SiteRow(sites'[k])
      <4>1. \A k \in DOMAIN sites : k \in Nat /\ k < n /\ SiteRow(sites[k])
        BY DEF SitesInv, TablesInv, n
      <4> QED
        BY <2>5, <2>7, <4>1, RowRead
    <3> QED
      BY <2>5, <2>6, <2>7, <3>4, <3>5 DEF TablesInv
  <2>10. PoolInv'
    <3>1. \A b \in Admins : job[b].at = "pool_rows" => job[b].site # n
      <4>1. \A b \in Admins : JobKnown(job[b], n)
        BY DEF SitesInv, TablesInv
      <4> QED
        BY <2>5, <4>1, JobRead
    <3>2. \A b \in Admins : job'[b] = job[b] \/ job'[b].at # "pool_rows"
      BY <2>4, <2>6
    <3> HIDE DEF n
    <3>3. \A k \in DOMAIN sites' :
            \/ k \in DOMAIN sites /\ pool'[k] = pool[k]
            \/ \A b \in Admins : job[b].at = "pool_rows" => job[b].site # k
      BY <2>7, <3>1
    <3> QED
      BY <3>2, <3>3, PoolKept DEF SitesInv
  <2>11. ASSUME NEW k \in DOMAIN sites', k \notin broken'
         PROVE  SitePorts(k)'
    <3>1. CASE k = n
      <4>1. PrimaryPorts(sites'[k]) \subseteq job'[a].ports /\ sites'[k].extra = {}
        BY <1>1, <2>4, <2>6, <2>7, <3>1, RowRead DEF SaveJob
      <4>2. \A r \in PrimaryPorts(sites'[k]) : Told(k, r)'
        BY <2>4, <2>6, <3>1, <4>1 DEF Told, Tells
      <4> QED
        BY <4>1, <4>2 DEF SitePorts, Told
    <3>2. CASE k # n
      <4>1. k \in DOMAIN sites /\ k \notin broken /\ sites'[k] = sites[k]
        BY <2>1, <2>7, <2>11, <3>2
      <4>2. SitePorts(k)
        BY <4>1 DEF SitesInv, PortsInv
      <4>3. ~Tells(job[a]) /\ ~SeesExtras(job[a]) /\ e.at # "switch"
        BY <1>1, <2>4 DEF Tells, SeesExtras
      <4>4. \A r : Excused(sites[k], r) => Excused(sites'[k], r)
        BY <4>1
      <4> QED
        BY <2>1, <2>6, <4>1, <4>2, <4>3, <4>4, SiteKept
    <3> QED
      BY <3>1, <3>2
  <2>12. PortsInv'
    BY <2>11 DEF PortsInv, SitePorts, Told
  <2> QED
    BY <2>9, <2>10, <2>12 DEF SitesInv
<1> QED
  BY <1>2, <1>3

\* A save stores the row of its form, and is then on its way to telling of its ports.
LEMMA UpdateSiteKeeps ==
  ASSUME SitesInv, NEW a \in Admins, UpdateSite(a)
  PROVE  SitesInv'
<1> DEFINE i == job[a].site
           f == job[a].form
<1>1. job[a].at = "update" /\ SaveJob(job[a]) /\ ~Tells(job[a]) /\ ~SeesExtras(job[a])
  BY JobRead DEF UpdateSite, SitesInv, TablesInv, Tells, SeesExtras
<1>2. CASE ~(i \notin DOMAIN sites \/ RowFits(f, i))
  <2>1. Refused(a)
    BY <1>2 DEF UpdateSite
  <2> QED
    BY <1>1, <2>1, RefusedKeeps
<1>3. CASE i \notin DOMAIN sites \/ RowFits(f, i)
  <2> DEFINE x == "pool"
  <2>1. x \in {"pool", "ports", "aliases", "sign_in", "announce", "reload", "order", "assign"}
    OBVIOUS
  <2>2. Goes(a, x) /\ UNCHANGED <<pool, next, queue, bound, broken>>
    BY <1>3 DEF UpdateSite, Proxy
  <2>3. /\ DOMAIN job' = Admins /\ \A b \in Admins \ {a} : job'[b] = job[b]
        /\ SaveJob(job'[a]) /\ job'[a].at = x /\ job'[a].form = f
        /\ job'[a].site = i /\ job'[a].ports = job[a].ports
        /\ JobKnown(job'[a], next.site)
    <3> HIDE DEF x
    <3>1. job[a].at \in {"insert", "update"}
      BY <1>1
    <3> QED
      BY <1>1, <2>1, <2>2, <3>1, SaveAt
  <2>4. CASE i \notin DOMAIN sites
    <3>1. sites' = sites
      BY <1>3, <2>4 DEF UpdateSite
    <3>2. RowsStay
      BY <2>2, <3>1, RowsWhole DEF SitesInv
    <3>3. \A b \in Admins : job'[b] = job[b] \/ b = a
      BY <2>3
    <3>4. JobKnown(job'[a], next.site) /\ job'[a].at # "pool_rows" /\ job'[a].at # "switch"
      BY <2>3
    <3> QED
      BY <1>1, <2>2, <2>3, <3>2, <3>3, <3>4, RequestMoves
  <2>5. CASE i \in DOMAIN sites
    <3> DEFINE w == [sites[i] EXCEPT !.host = f.host, !.listen = split_ports(f.http),
                                     !.tls = split_ports(f.https), !.cert = f.cert,
                                     !.tls_redirect = f.redirect]
    <3>1. sites' = [sites EXCEPT ![i] = w]
      <4>1. sites' = [sites EXCEPT ![i].host = f.host, ![i].listen = split_ports(f.http),
                                   ![i].tls = split_ports(f.https), ![i].cert = f.cert,
                                   ![i].tls_redirect = f.redirect]
        BY <1>3, <2>5 DEF UpdateSite
      <4> QED
        BY <2>5, <4>1
    <3>2. /\ SiteRow(w) /\ w.listen = RowOf(f).listen /\ w.tls = RowOf(f).tls
          /\ w.extra = sites[i].extra /\ w.enabled = sites[i].enabled
      <4>1. SiteRow(sites[i])
        BY <2>5 DEF SitesInv, TablesInv
      <4>2. RowOf(f).listen = split_ports(f.http) /\ RowOf(f).tls = split_ports(f.https)
        BY DEF RowOf
      <4> DEFINE s == sites[i]
                 h == f.host
                 l == split_ports(f.http)
                 t == split_ports(f.https)
                 c == f.cert
                 r == f.redirect
                 e == [s EXCEPT !.host = h, !.listen = l, !.tls = t, !.cert = c, !.tls_redirect = r]
      <4> HIDE DEF s, h, l, t, c, r
      <4>3. SiteRow(s)
        BY <4>1 DEF s
      <4>4. SiteRow(e) /\ e.listen = l /\ e.tls = t /\ e.extra = s.extra /\ e.enabled = s.enabled
        <5>1. s = [name |-> s.name, host |-> s.host, names |-> s.names, listen |-> s.listen,
                   tls |-> s.tls, extra |-> s.extra, cert |-> s.cert,
                   tls_redirect |-> s.tls_redirect, enabled |-> s.enabled,
                   acme_enabled |-> s.acme_enabled]
          BY <4>3 DEF SiteRow
        <5>2. e \in [name : {s.name}, host : {h}, names : {s.names}, listen : {l}, tls : {t},
                     extra : {s.extra}, cert : {c}, tls_redirect : {r}, enabled : {s.enabled},
                     acme_enabled : {s.acme_enabled}]
          BY <5>1
        <5> HIDE DEF e
        <5> QED
          BY <5>2 DEF SiteRow
      <4>5. e = w
        BY DEF s, h, l, t, c, r
      <4> QED
        BY <4>2, <4>4, <4>5 DEF s, l, t
    <3> HIDE DEF w
    <3>3. /\ DOMAIN sites' = DOMAIN sites /\ sites'[i] = w
          /\ \A k \in DOMAIN sites \ {i} : sites'[k] = sites[k]
      BY <2>5, <3>1
    <3>4. TablesInv'
      <4>1. \A b \in Admins : JobKnown(job'[b], next.site)
        BY <2>3 DEF SitesInv, TablesInv
      <4>2. \A k \in DOMAIN sites' : k \in Nat /\ k < next.site /\ SiteRow(sites'[k])
        BY <2>5, <3>2, <3>3 DEF SitesInv, TablesInv
      <4> QED
        BY <2>2, <2>3, <3>3, <4>1, <4>2 DEF SitesInv, TablesInv
    <3>5. PoolInv'
      <4>1. \A b \in Admins : job'[b] = job[b] \/ job'[b].at # "pool_rows"
        BY <2>3
      <4>2. \A k \in DOMAIN sites' : k \in DOMAIN sites /\ pool'[k] = pool[k]
        BY <2>2, <3>3
      <4> QED
        BY <4>1, <4>2, PoolKept DEF SitesInv
    <3>6. ASSUME NEW k \in DOMAIN sites', k \notin broken'
          PROVE  SitePorts(k)'
      <4>1. CASE k = i
        <5>1. PrimaryPorts(sites'[k]) \subseteq job'[a].ports
          BY <1>1, <2>3, <3>2, <3>3, <4>1, PrimaryRead, RowRead DEF SaveJob
        <5>2. Tells(job'[a]) /\ SeesExtras(job'[a]) /\ job'[a].site = k
          BY <2>3, <4>1 DEF Tells, SeesExtras
        <5>3. \A r \in PrimaryPorts(sites'[k]) : Told(k, r)'
          BY <5>1, <5>2 DEF Told
        <5> QED
          BY <5>2, <5>3 DEF SitePorts, Told
      <4>2. CASE k # i
        <5>1. k \in DOMAIN sites /\ k \notin broken /\ sites'[k] = sites[k]
          BY <2>2, <3>3, <3>6, <4>2
        <5>2. SitePorts(k)
          BY <5>1 DEF SitesInv, PortsInv
        <5>3. \A r : Excused(sites[k], r) => Excused(sites'[k], r)
          BY <5>1
        <5>4. \A b \in Admins : job'[b] = job[b] \/ (b = a /\ job'[b].at # "switch")
          BY <2>3
        <5> QED
          BY <1>1, <2>2, <5>1, <5>2, <5>3, <5>4, SiteKept
      <4> QED
        BY <4>1, <4>2
    <3>7. PortsInv'
      BY <3>6 DEF PortsInv, SitePorts, Told
    <3> QED
      BY <3>4, <3>5, <3>7 DEF SitesInv
  <2> QED
    BY <2>4, <2>5
<1> QED
  BY <1>2, <1>3

\* The rows of extra ports are replaced by those of the form, which the save holds.
LEMMA SaveExtraPortsKeeps ==
  ASSUME SitesInv, NEW a \in Admins, save_extra_ports(a)
  PROVE  SitesInv'
<1> DEFINE i == job[a].site
           v == ExtrasOf(job[a].form)
           x == "aliases"
<1>1. job[a].at = "ports" /\ SaveJob(job[a]) /\ Tells(job[a])
  BY JobRead DEF save_extra_ports, SitesInv, TablesInv, Tells
<1>2. CASE i \notin DOMAIN sites /\ v # {}
  <2>1. Fails(a)
    BY <1>2 DEF save_extra_ports
  <2> QED
    BY <2>1, FailsKeeps
<1>3. CASE i \in DOMAIN sites \/ v = {}
  <2>1. /\ Goes(a, x) /\ UNCHANGED <<pool, next, queue, bound, broken>>
        /\ x \in {"ports", "aliases", "sign_in", "announce", "reload", "order", "assign"}
        /\ x \in {"pool", "ports", "aliases", "sign_in", "announce", "reload", "order", "assign"}
        /\ x # "pool" /\ x = "aliases"
    BY <1>3 DEF save_extra_ports, Proxy, Rows
  <2> HIDE DEF x
  <2>2. CASE i \notin DOMAIN sites
    <3>1. sites' = sites
      BY <1>3, <2>2 DEF save_extra_ports, Rows
    <3>2. RowsStay
      BY <2>1, <3>1, RowsWhole DEF SitesInv
    <3> QED
      BY <1>1, <2>1, <2>2, <3>1, <3>2, SaveGoesOn
  <2>3. CASE i \in DOMAIN sites
    <3>1. /\ DOMAIN job' = Admins /\ \A b \in Admins \ {a} : job'[b] = job[b]
          /\ SaveJob(job'[a]) /\ job'[a].at = x /\ job'[a].form = job[a].form
          /\ job'[a].site = i /\ job'[a].ports = job[a].ports
          /\ JobKnown(job'[a], next.site)
      BY <1>1, <2>1, SaveAt
    <3> DEFINE w == [sites[i] EXCEPT !.extra = v]
    <3>2. sites' = [sites EXCEPT ![i] = w]
      BY <2>3 DEF save_extra_ports
    <3>3. /\ SiteRow(w) /\ w.listen = sites[i].listen /\ w.tls = sites[i].tls
          /\ w.extra = v /\ w.enabled = sites[i].enabled
          /\ w.cert = sites[i].cert /\ w.acme_enabled = sites[i].acme_enabled
      <4> DEFINE s == sites[i]
      <4>1. SiteRow(s)
        BY <2>3 DEF SitesInv, TablesInv
      <4> HIDE DEF s, v
      <4>2. LET e == [s EXCEPT !.extra = v]
            IN  /\ SiteRow(e) /\ e.listen = s.listen /\ e.tls = s.tls /\ e.extra = v
                /\ e.enabled = s.enabled /\ e.cert = s.cert /\ e.acme_enabled = s.acme_enabled
        BY <4>1, ExtraWritten
      <4> QED
        BY <4>2 DEF s
    <3> HIDE DEF w
    <3>4. /\ DOMAIN sites' = DOMAIN sites /\ sites'[i] = w
          /\ \A k \in DOMAIN sites \ {i} : sites'[k] = sites[k]
      BY <2>3, <3>2
    <3>5. TablesInv'
      <4>1. \A b \in Admins : JobKnown(job'[b], next.site)
        BY <3>1 DEF SitesInv, TablesInv
      <4>2. \A k \in DOMAIN sites' : k \in Nat /\ k < next.site /\ SiteRow(sites'[k])
        BY <2>3, <3>3, <3>4 DEF SitesInv, TablesInv
      <4> QED
        BY <2>1, <3>1, <3>4, <4>1, <4>2 DEF SitesInv, TablesInv
    <3>6. PoolInv'
      <4>1. \A b \in Admins : job'[b] = job[b] \/ job'[b].at # "pool_rows"
        BY <2>1, <3>1
      <4>2. \A k \in DOMAIN sites' : k \in DOMAIN sites /\ pool'[k] = pool[k]
        BY <2>1, <3>4
      <4> QED
        BY <4>1, <4>2, PoolKept DEF SitesInv
    <3>7. Tells(job'[a]) /\ job'[a].at # "switch"
      BY <2>1, <3>1 DEF Tells
    <3>8. ASSUME NEW k \in DOMAIN sites', k \notin broken'
          PROVE  SitePorts(k)'
      <4>1. k \in DOMAIN sites /\ k \notin broken /\ SitePorts(k)
        BY <2>1, <3>4, <3>8 DEF SitesInv, PortsInv
      <4>2. CASE k = i
        <5>1. \A r : Told(k, r) => Told(k, r)'
          BY <2>1, <3>1, <3>7, ToldKept
        <5>2. PrimaryPorts(sites'[k]) = PrimaryPorts(sites[k])
          BY <3>3, <3>4, <4>2, PrimaryRead
        <5>3. /\ sites'[k].enabled = sites[k].enabled
              /\ \A r : Excused(sites[k], r) => Excused(sites'[k], r)
          BY <3>3, <3>4, <4>2 DEF Excused
        <5>4. \A r \in sites'[k].extra : Told(k, r)'
          BY <1>1, <3>1, <3>3, <3>4, <3>7, <4>2 DEF Told, SaveJob
        <5>5. ASSUME sites'[k].enabled
              PROVE  \A r \in PrimaryPorts(sites'[k]) : Told(k, r)' \/ Excused(sites'[k], r)
          BY <4>1, <5>1, <5>2, <5>3, <5>5 DEF SitePorts
        <5>6. ASSUME NEW b \in Admins, job'[b].at = "switch", job'[b].to, job'[b].site = k,
                     NEW r \in PrimaryPorts(sites'[k])
              PROVE  Told(k, r)' \/ r \in job'[b].ports
          <6>1. job'[b] = job[b]
            BY <3>1, <3>7, <5>6
          <6> QED
            BY <4>1, <5>1, <5>2, <5>6, <6>1 DEF SitePorts
        <5> QED
          BY <5>4, <5>5, <5>6 DEF SitePorts, Told
      <4>3. CASE k # i
        <5>1. sites'[k] = sites[k]
          BY <3>4, <4>1, <4>3
        <5>2. \A r : Excused(sites[k], r) => Excused(sites'[k], r)
          BY <5>1
        <5>3. \A b \in Admins : job'[b] = job[b] \/ (b = a /\ job'[b].at # "switch")
          BY <3>1, <3>7
        <5> QED
          BY <2>1, <4>1, <4>3, <5>1, <5>2, <5>3, SiteKept
      <4> QED
        BY <4>2, <4>3
    <3>9. PortsInv'
      BY <3>8 DEF PortsInv, SitePorts, Told
    <3> QED
      BY <3>5, <3>6, <3>9 DEF SitesInv
  <2> QED
    BY <2>2, <2>3
<1> QED
  BY <1>2, <1>3

\* A switch that goes on, and where it is then.
LEMMA SwitchAt ==
  ASSUME SitesInv, NEW a \in Admins, SwitchJob(job[a]),
         NEW x \in {"toggle_ports", "announce", "reload", "put"}, Goes(a, x)
  PROVE  /\ DOMAIN job' = Admins /\ \A b \in Admins \ {a} : job'[b] = job[b]
         /\ SwitchJob(job'[a]) /\ job'[a].at = x /\ job'[a].site = job[a].site
         /\ job'[a].ports = job[a].ports /\ JobKnown(job'[a], next.site)
<1> DEFINE e == [job[a] EXCEPT !.at = x]
<1>1. /\ SwitchJob(e) /\ e.at = x /\ e.site = job[a].site /\ e.ports = job[a].ports
  <2> DEFINE j == job[a]
  <2>1. SwitchJob(j)
    OBVIOUS
  <2> HIDE DEF j
  <2>2. LET g == [j EXCEPT !.at = x]
        IN  /\ SwitchJob(g) /\ g.at = x /\ g.form = j.form /\ g.site = j.site /\ g.new = j.new
            /\ g.ports = j.ports
    BY <2>1, SwitchMoves
  <2> QED
    BY <2>2 DEF j
<1>2. job[a].site \in Nat /\ job[a].site < next.site
  <2>1. JobKnown(job[a], next.site) /\ job[a].at # "rest"
    BY DEF SitesInv, TablesInv, SwitchJob
  <2> QED
    BY <2>1, JobRead
<1>3. job' = [job EXCEPT ![a] = e] /\ DOMAIN job = Admins
  BY DEF Goes, SitesInv, TablesInv
<1> HIDE DEF e
<1>4. JobKnown(e, next.site)
  BY <1>1, <1>2 DEF JobKnown
<1> QED
  BY <1>1, <1>3, <1>4

\* A site is switched on by a request that then tells of the ports it read, and has
\* still to read the extra ones; of one switched off none has to answer.
LEMMA ToggleWriteKeeps ==
  ASSUME SitesInv, NEW a \in Admins, ToggleWrite(a)
  PROVE  SitesInv'
<1> DEFINE i == job[a].site
           v == job[a].to
           x == IF v THEN "toggle_ports" ELSE "reload"
<1>1. /\ job[a].at = "switch" /\ SwitchJob(job[a]) /\ ~Tells(job[a]) /\ ~SeesExtras(job[a])
  BY JobRead DEF ToggleWrite, SitesInv, TablesInv, Tells, SeesExtras
<1>2. /\ Goes(a, x) /\ UNCHANGED <<pool, next, queue, bound, broken>>
      /\ x \in {"toggle_ports", "announce", "reload", "put"}
      /\ x # "pool_rows" /\ x # "switch" /\ (v => x = "toggle_ports")
  BY DEF ToggleWrite, Proxy
<1> HIDE DEF x
<1>3. /\ DOMAIN job' = Admins /\ \A b \in Admins \ {a} : job'[b] = job[b]
      /\ SwitchJob(job'[a]) /\ job'[a].at = x /\ job'[a].site = job[a].site
      /\ job'[a].ports = job[a].ports /\ JobKnown(job'[a], next.site)
  BY <1>1, <1>2, SwitchAt
<1>4. CASE i \notin DOMAIN sites
  <2>1. sites' = sites
    BY <1>4 DEF ToggleWrite
  <2>2. RowsStay
    BY <1>2, <2>1, RowsWhole DEF SitesInv
  <2>3. \A b \in Admins : job'[b] = job[b] \/ b = a
    BY <1>3
  <2>4. JobKnown(job'[a], next.site) /\ job'[a].at # "pool_rows" /\ job'[a].at # "switch"
    BY <1>2, <1>3
  <2> QED
    BY <1>1, <1>2, <1>3, <2>2, <2>3, <2>4, RequestMoves
<1>5. CASE i \in DOMAIN sites
  <2> DEFINE w == [sites[i] EXCEPT !.enabled = v]
  <2>1. sites' = [sites EXCEPT ![i] = w]
    BY <1>5 DEF ToggleWrite
  <2>2. /\ SiteRow(w) /\ w.listen = sites[i].listen /\ w.tls = sites[i].tls
        /\ w.extra = sites[i].extra /\ w.enabled = v
        /\ w.cert = sites[i].cert /\ w.acme_enabled = sites[i].acme_enabled
    <3> DEFINE s == sites[i]
    <3>1. SiteRow(s)
      BY <1>5 DEF SitesInv, TablesInv
    <3> HIDE DEF s, v
    <3>2. LET e == [s EXCEPT !.enabled = v]
          IN  /\ SiteRow(e) /\ e.listen = s.listen /\ e.tls = s.tls /\ e.extra = s.extra
              /\ e.enabled = v /\ e.cert = s.cert /\ e.acme_enabled = s.acme_enabled
      BY <3>1, SwitchWritten
    <3> QED
      BY <3>2 DEF s
  <2> HIDE DEF w
  <2>3. /\ DOMAIN sites' = DOMAIN sites /\ sites'[i] = w
        /\ \A k \in DOMAIN sites \ {i} : sites'[k] = sites[k]
    BY <1>5, <2>1
  <2>4. TablesInv'
    <3>1. \A b \in Admins : JobKnown(job'[b], next.site)
      BY <1>3 DEF SitesInv, TablesInv
    <3>2. \A k \in DOMAIN sites' : k \in Nat /\ k < next.site /\ SiteRow(sites'[k])
      BY <1>5, <2>2, <2>3 DEF SitesInv, TablesInv
    <3> QED
      BY <1>2, <1>3, <2>3, <3>1, <3>2 DEF SitesInv, TablesInv
  <2>5. PoolInv'
    <3>1. \A b \in Admins : job'[b] = job[b] \/ job'[b].at # "pool_rows"
      BY <1>2, <1>3
    <3>2. \A k \in DOMAIN sites' : k \in DOMAIN sites /\ pool'[k] = pool[k]
      BY <1>2, <2>3
    <3> QED
      BY <3>1, <3>2, PoolKept DEF SitesInv
  <2>6. ASSUME NEW k \in DOMAIN sites', k \notin broken'
        PROVE  SitePorts(k)'
    <3>1. k \in DOMAIN sites /\ k \notin broken /\ SitePorts(k)
      BY <1>2, <2>3, <2>6 DEF SitesInv, PortsInv
    <3>2. CASE k = i
      <4>1. \A r : Told(k, r) => Told(k, r)'
        BY <1>1, <1>2, <1>3, ToldKept
      <4>2. PrimaryPorts(sites'[k]) = PrimaryPorts(sites[k])
        BY <2>2, <2>3, <3>2, PrimaryRead
      <4>3. ASSUME sites'[k].enabled
            PROVE  /\ Tells(job'[a]) /\ SeesExtras(job'[a]) /\ job'[a].site = k
                   /\ \A r \in PrimaryPorts(sites'[k]) : Told(k, r)'
        <5>1. v
          BY <2>2, <2>3, <3>2, <4>3
        <5>2. Tells(job'[a]) /\ SeesExtras(job'[a]) /\ job'[a].site = k
          BY <1>2, <1>3, <3>2, <5>1 DEF Tells, SeesExtras
        <5>3. \A r \in PrimaryPorts(sites[k]) : Told(k, r) \/ r \in job[a].ports
          BY <1>1, <3>1, <3>2, <5>1 DEF SitePorts
        <5>4. \A r \in job[a].ports : Told(k, r)'
          BY <1>3, <5>2 DEF Told
        <5> QED
          BY <4>1, <4>2, <5>2, <5>3, <5>4
      <4>4. ASSUME NEW b \in Admins, job'[b].at = "switch", job'[b].to, job'[b].site = k,
                   NEW r \in PrimaryPorts(sites'[k])
            PROVE  Told(k, r)' \/ r \in job'[b].ports
        <5>1. job'[b] = job[b]
          BY <1>2, <1>3, <4>4
        <5> QED
          BY <3>1, <4>1, <4>2, <4>4, <5>1 DEF SitePorts
      <4> QED
        BY <4>3, <4>4 DEF SitePorts, Told
    <3>3. CASE k # i
      <4>1. sites'[k] = sites[k]
        BY <2>3, <3>1, <3>3
      <4>2. \A r : Excused(sites[k], r) => Excused(sites'[k], r)
        BY <4>1
      <4>3. \A b \in Admins : job'[b] = job[b] \/ (b = a /\ job'[b].at # "switch")
        BY <1>2, <1>3
      <4> QED
        BY <1>1, <1>2, <3>1, <4>1, <4>2, <4>3, SiteKept
    <3> QED
      BY <3>2, <3>3
  <2>7. PortsInv'
    BY <2>6 DEF PortsInv, SitePorts, Told
  <2> QED
    BY <2>4, <2>5, <2>7 DEF SitesInv
<1> QED
  BY <1>4, <1>5

\* A request that switches a site on takes the extra ports of its row with those it
\* is to tell of.
LEMMA TogglePortsKeeps ==
  ASSUME SitesInv, NEW a \in Admins, TogglePorts(a)
  PROVE  SitesInv'
<1> DEFINE i == job[a].site
           v == job[a].ports \cup IF i \in DOMAIN sites THEN sites[i].extra ELSE {}
           d == [job[a] EXCEPT !.at = "announce"]
           e == [d EXCEPT !.ports = v]
<1>1. job[a].at = "toggle_ports" /\ SwitchJob(job[a])
  BY JobRead DEF TogglePorts, SitesInv, TablesInv
<1>2. /\ job' = [job EXCEPT ![a] = e] /\ DOMAIN job = Admins
      /\ UNCHANGED <<sites, pool, next, queue, bound, broken>>
  <2>1. /\ job' = [job EXCEPT ![a].at = "announce", ![a].ports = v]
        /\ UNCHANGED <<sites, pool, next, queue, bound, broken>>
    BY DEF TogglePorts, Proxy, Rows
  <2>2. DOMAIN job = Admins
    BY DEF SitesInv, TablesInv
  <2> HIDE DEF v
  <2> QED
    BY <2>1, <2>2
<1>3. SwitchJob(e) /\ e.at = "announce" /\ e.site = i /\ e.ports = v
  <2> HIDE DEF v
  <2>1. job[a] = [at |-> job[a].at, form |-> job[a].form, site |-> job[a].site,
                  new |-> job[a].new, to |-> job[a].to, ports |-> job[a].ports,
                  map |-> job[a].map]
    BY <1>1 DEF SwitchJob
  <2>2. e \in [at : {"announce"}, form : {job[a].form}, site : {job[a].site},
               new : {job[a].new}, to : {job[a].to}, ports : {v}, map : {job[a].map}]
    BY <2>1
  <2> HIDE DEF e
  <2> QED
    BY <1>1, <2>2 DEF SwitchJob
<1> HIDE DEF d, e
<1>4. JobKnown(e, next.site)
  <2>1. JobKnown(job[a], next.site)
    BY DEF SitesInv, TablesInv
  <2>2. i \in Nat /\ i < next.site
    BY <1>1, <2>1, JobRead
  <2> QED
    BY <1>3, <2>2 DEF JobKnown
<1>5. /\ DOMAIN job' = Admins /\ job'[a] = e /\ \A b \in Admins \ {a} : job'[b] = job[b]
  BY <1>2
<1>6. TablesInv'
  <2>1. \A b \in Admins : JobKnown(job'[b], next.site)
    BY <1>4, <1>5 DEF SitesInv, TablesInv
  <2> QED
    BY <1>2, <1>5, <2>1 DEF SitesInv, TablesInv
<1>7. PoolInv'
  <2>1. \A b \in Admins : job'[b] = job[b] \/ job'[b].at # "pool_rows"
    BY <1>3, <1>5
  <2> QED
    BY <1>2, <2>1, PoolKept DEF SitesInv
<1>8. Tells(job'[a]) /\ job'[a].at # "switch" /\ job'[a].site = i /\ job[a].ports \subseteq job'[a].ports
  BY <1>3, <1>5 DEF Tells
<1>9. ASSUME NEW k \in DOMAIN sites', k \notin broken'
      PROVE  SitePorts(k)'
  <2>1. k \in DOMAIN sites /\ SitePorts(k) /\ sites'[k] = sites[k]
    BY <1>2, <1>9 DEF SitesInv, PortsInv
  <2>2. CASE k = i
    <3>1. \A r : Told(k, r) => Told(k, r)'
      BY <1>2, <1>5, <1>8, ToldKept
    <3>2. \A r \in sites'[k].extra : Told(k, r)'
      BY <1>3, <1>5, <1>8, <2>1, <2>2 DEF Told
    <3>3. ASSUME sites'[k].enabled
          PROVE  \A r \in PrimaryPorts(sites'[k]) : Told(k, r)' \/ Excused(sites'[k], r)
      BY <2>1, <3>1, <3>3 DEF SitePorts
    <3>4. ASSUME NEW b \in Admins, job'[b].at = "switch", job'[b].to, job'[b].site = k,
                 NEW r \in PrimaryPorts(sites'[k])
          PROVE  Told(k, r)' \/ r \in job'[b].ports
      <4>1. job'[b] = job[b]
        BY <1>5, <1>8, <3>4
      <4> QED
        BY <2>1, <3>1, <3>4, <4>1 DEF SitePorts
    <3> QED
      BY <3>2, <3>3, <3>4 DEF SitePorts, Told
  <2>3. CASE k # i
    <3>1. \A r : Excused(sites[k], r) => Excused(sites'[k], r)
      BY <2>1
    <3>2. \A b \in Admins : job'[b] = job[b] \/ (b = a /\ job'[b].at # "switch")
      BY <1>5, <1>8
    <3> QED
      BY <1>2, <2>1, <2>3, <3>1, <3>2, SiteKept
  <2> QED
    BY <2>2, <2>3
<1>10. PortsInv'
  BY <1>9 DEF PortsInv, SitePorts, Told
<1> QED
  BY <1>6, <1>7, <1>10 DEF SitesInv

\* A restart ends every request, and binds the ports of the enabled sites but the
\* HTTPS ones that no certificate is for.
LEMMA RestartKeeps ==
  ASSUME SitesInv, Restart
  PROVE  SitesInv'
<1>1. /\ DOMAIN job' = Admins /\ \A b \in Admins : job'[b] = Idle
      /\ get_listen_ports \subseteq bound'
      /\ UNCHANGED <<sites, pool, next, broken>>
  BY DEF Restart, Rows
<1>2. Idle.at = "rest" /\ JobKnown(Idle, next.site)
  BY DEF Idle, JobKnown
<1>3. TablesInv'
  BY <1>1, <1>2 DEF SitesInv, TablesInv
<1>4. PoolInv'
  BY <1>1, <1>2 DEF PoolInv
<1>5. ASSUME NEW i \in DOMAIN sites, sites[i].enabled, NEW r \in PortsNamed(sites[i])
      PROVE  r \in bound' \/ Excused(sites[i], r)
  <2>1. r \in UNION {PortsNamed(sites[k]) : k \in {j \in DOMAIN sites : sites[j].enabled}}
    BY <1>5
  <2>2. CASE r.tls /\ sites[i].cert = None
    BY <2>2 DEF Excused
  <2>3. CASE ~(r.tls /\ sites[i].cert = None)
    <3>1. r.tls => \E k \in DOMAIN sites :
                      sites[k].enabled /\ r \in PortsNamed(sites[k]) /\ sites[k].cert # None
      BY <1>5, <2>3
    <3>2. r \in get_listen_ports
      BY <2>1, <3>1 DEF get_listen_ports
    <3> QED
      BY <1>1, <3>2
  <2> QED
    BY <2>2, <2>3
<1>6. ASSUME NEW i \in DOMAIN sites
      PROVE  SitePorts(i)'
  <2>1. sites[i].enabled => \A r \in PortsNamed(sites[i]) : r \in bound' \/ Excused(sites[i], r)
    BY <1>5
  <2> QED
    BY <1>1, <1>2, <2>1 DEF SitePorts, Told, PortsNamed, Excused
<1>7. PortsInv'
  BY <1>1, <1>6 DEF PortsInv, SitePorts, Told
<1> QED
  BY <1>3, <1>4, <1>7 DEF SitesInv

-----------------------------------------------------------------------------
(* The theorems about sites.                                                  *)

\* Before the first site there is nothing to hold.
LEMMA SitesStart == Init => SitesInv
<1> SUFFICES ASSUME Init PROVE SitesInv
  OBVIOUS
<1>1. /\ DOMAIN sites = {} /\ DOMAIN pool = {}
      /\ DOMAIN job = Admins /\ \A b \in Admins : job[b] = Idle
      /\ next = [site |-> 1, row |-> 1]
  BY NoRows DEF Init
<1>2. Idle.at = "rest" /\ JobKnown(Idle, next.site)
  BY DEF Idle, JobKnown
<1>3. TablesInv
  BY <1>1, <1>2 DEF TablesInv
<1>4. PoolInv
  BY <1>1, <1>2 DEF PoolInv
<1>5. PortsInv
  BY <1>1 DEF PortsInv
<1> QED
  BY <1>3, <1>4, <1>5 DEF SitesInv

\* Every step of the pages, the proxy and a restart keeps the invariant.
LEMMA SitesStep == SitesInv /\ [Next]_vars => SitesInv'
<1> SUFFICES ASSUME SitesInv, [Next]_vars PROVE SitesInv'
  OBVIOUS
<1>1. ASSUME NEW a \in Admins, NEW f \in Forms, CheckCreate(a, f) \/ CheckUpdate(a, f)
      PROVE  SitesInv'
  BY <1>1, CheckCreateKeeps, CheckUpdateKeeps
<1>2. ASSUME NEW a \in Admins, NEW i \in SiteIds, post_site_acme(a, i) \/ ToggleRead(a, i)
      PROVE  SitesInv'
  BY <1>2, SiteAcmeKeeps, ToggleReadKeeps
<1>3. ASSUME NEW a \in Admins, Save(a)
      PROVE  SitesInv'
  <2>1. CASE InsertSite(a)
    BY <2>1, InsertSiteKeeps
  <2>2. CASE UpdateSite(a)
    BY <2>2, UpdateSiteKeeps
  <2>3. CASE ReadPool(a)
    BY <2>3, ReadPoolKeeps
  <2>4. CASE AddBackend(a)
    BY <2>4, AddBackendKeeps
  <2>5. CASE DropBackend(a)
    BY <2>5, DropBackendKeeps
  <2>6. CASE PoolDone(a)
    BY <2>6, PoolDoneKeeps
  <2>7. CASE save_extra_ports(a)
    BY <2>7, SaveExtraPortsKeeps
  <2>8. CASE save_aliases(a)
    BY <2>8, SaveAliasesKeeps
  <2>9. CASE save_sign_in(a)
    BY <2>9, SaveSignInKeeps
  <2>10. CASE announce_site(a)
    BY <2>10, AnnounceKeeps
  <2>11. CASE ReloadRead(a)
    BY <2>11, ReloadReadKeeps
  <2>12. CASE ReloadPut(a)
    BY <2>12, ReloadPutKeeps
  <2>13. CASE request_cert_for_new_site(a)
    BY <2>13, NewSiteCertKeeps
  <2>14. CASE AssignCertificate(a)
    BY <2>14, AssignCertificateKeeps
  <2>15. CASE ToggleWrite(a)
    BY <2>15, ToggleWriteKeeps
  <2>16. CASE TogglePorts(a)
    BY <2>16, TogglePortsKeeps
  <2> QED
    BY <1>3, <2>1, <2>2, <2>3, <2>4, <2>5, <2>6, <2>7, <2>8, <2>9, <2>10, <2>11, <2>12, <2>13,
       <2>14, <2>15, <2>16 DEF Save
<1>4. ASSUME NEW i \in SiteIds, post_site_delete(i)
      PROVE  SitesInv'
  BY <1>4, SiteDeleteKeeps
<1>5. ASSUME NEW r \in Realms, DeleteRealm(r)
      PROVE  SitesInv'
  BY <1>5, DeleteRealmKeeps
<1>6. CASE TakeUpPort
  BY <1>6, TakeUpKeeps
<1>7. CASE Restart
  BY <1>7, RestartKeeps
<1>8. CASE UNCHANGED vars
  <2>1. UNCHANGED <<sites, pool, job, next, queue, bound, broken>>
    BY <1>8 DEF vars
  <2>2. RowsStay
    BY <2>1, RowsWhole DEF SitesInv
  <2> QED
    BY <2>1, <2>2, NoneMoves
<1> QED
  BY <1>1, <1>2, <1>3, <1>4, <1>5, <1>6, <1>7, <1>8 DEF Next

\* The tables, the pools and the ports are always as the invariant says, however the
\* statements of the saves, switches and deletions interleave (routes/sites.rs).
THEOREM SitesKnown == Spec => []SitesInv
  BY SitesStart, SitesStep, PTL DEF Spec

\* A save changes a pool in place: a backend that stays listed keeps its row, and the
\* pool is never without one meanwhile (apply_pool, sites.rs:1196).
THEOREM PoolsChangeInPlace == Spec => []PoolChangesInPlace
<1>1. SitesInv => PoolChangesInPlace
  <2> SUFFICES ASSUME SitesInv, NEW a \in Admins, job[a].at = "pool_rows", job[a].alone,
                      job[a].site \in DOMAIN sites
               PROVE  LET now == pool[job[a].site]  was == job[a].before
                      IN  /\ \A u \in DOMAIN was \cap job[a].form.pool :
                               u \in DOMAIN now /\ now[u] = was[u]
                          /\ DOMAIN was # {} => DOMAIN now # {}
    BY DEF PoolChangesInPlace
  <2>1. PoolHeld(job[a], pool[job[a].site])
    BY DEF SitesInv, PoolInv
  <2>2. job[a].form.pool # {}
    BY JobRead DEF SitesInv, TablesInv, SaveJob
  <2> QED
    BY <2>1, <2>2 DEF PoolHeld
<1> QED
  BY <1>1, SitesKnown, PTL

\* A port of an enabled site answers without a restart: once the requests are done,
\* the proxy has been told of each (announce_site, sites.rs:1522).
THEOREM PortsAnswer == Spec => []SavedPortsAnswer
<1>1. SitesInv => SavedPortsAnswer
  <2> SUFFICES ASSUME SitesInv, \A a \in Admins : job[a].at = "rest",
                      NEW i \in DOMAIN sites, sites[i].enabled, i \notin broken,
                      NEW r \in PortsNamed(sites[i])
               PROVE  \/ r \in bound \cup queue
                      \/ r.tls /\ (sites[i].acme_enabled \/ sites[i].cert = None)
    BY DEF SavedPortsAnswer
  <2>1. \A a \in Admins : ~Tells(job[a]) /\ ~SeesExtras(job[a])
    BY DEF Tells, SeesExtras
  <2>2. SitePorts(i)
    BY DEF SitesInv, PortsInv
  <2> QED
    BY <2>1, <2>2 DEF SitePorts, Told, Excused, PortsNamed
<1> QED
  BY <1>1, SitesKnown, PTL
=============================================================================
