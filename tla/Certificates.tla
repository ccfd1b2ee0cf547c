----------------------------- MODULE Certificates ----------------------------
(* Certificates: uploaded on their page, requested from Let's Encrypt on it or *)
(* by a site, renewed by an hourly sweep, and presented from a map in memory.  *)
(*                                                                             *)
(* Nothing but the rows outlives the service: the tokens an order has          *)
(* published, the map and the sweep's place in its rows are memory.  An order  *)
(* takes minutes; what it stores at the end is an upsert by name, whatever the *)
(* row has become meanwhile.  Time is counted in hours.  One certificate per   *)
(* name; its dates are only whether it is inside the thirty days.              *)
EXTENDS SiteTables, Sequences, FiniteSetsExt, Functions

CONSTANTS
    Names,        \* certificates, by name; each also the hostname of a site
    ByHand,       \* those stored by hand before
    Issued,       \* those stored by an order before
    Managed,      \* the certificate of the management interface
    Pages,        \* administrators with a page open
    Renewer,      \* the renewal task
    MaxActs,      \* bound: pages' requests
    MaxRefusals,  \* bound: orders the authority refuses
    MaxAges,      \* bound: certificates coming within their thirty days
    MaxKills      \* bound: restarts of the service

ASSUME CertificatesAssumption ==
    /\ ByHand \subseteq Names /\ Issued \subseteq Names /\ ByHand \cap Issued = {}
    /\ Renewer \notin Pages
    /\ None \notin Names
    /\ {MaxActs, MaxRefusals, MaxAges, MaxKills} \subseteq Nat

VARIABLES
    kept,        \* the stored rows, by name
    assigned,    \* for each site, its certificate's name or None
    accounts,    \* rows of acme_accounts: whether each holds an account's key
    tokens,      \* the challenge answers published, with the order they are of
    presented,   \* the map handshakes are answered from: hostname to serial
    doing,       \* what each process is doing
    sweep,       \* the rows the sweep has left, as it read them
    hour,        \* the sweep's hour is over
    serial,      \* counts the certificates stored
    overtaken,   \* the map was last put by a reload that another one passed
    settings, registered,   \* contacts set, and accounts registered, so far
    acts, refusals, ages, kills

tables == <<kept, assigned, accounts>>
memory == <<tokens, presented, doing, sweep, hour>>
counts == <<acts, refusals, ages, kills>>
certificateVars == <<tables, memory, serial, overtaken, settings, registered, counts>>

Procs == Pages \cup {Renewer}
AtRest == [at |-> "rest"]
Row(s, by, covers) ==
    [serial |-> s, by |-> by, covers |-> covers, near |-> FALSE, failures |-> 0, wait |-> 0]

CertificatesInit ==
    /\ kept = [n \in ByHand \cup Issued |->
                   Row(0, IF n \in ByHand THEN "hand" ELSE "order",
                       IF n \in ByHand THEN {} ELSE {n})]
    /\ assigned = [n \in Names |-> None]
    /\ accounts = <<FALSE>> /\ settings = 1 /\ registered = 0   \* a contact has been set
    /\ tokens = {} /\ presented = <<>> /\ hour = TRUE
    /\ doing = [p \in Procs |-> AtRest]
    /\ sweep = [rows |-> <<>>, since |-> 0]
    /\ serial = 0 /\ overtaken = FALSE
    /\ acts = 0 /\ refusals = 0 /\ ages = 0 /\ kills = 0

-----------------------------------------------------------------------------
(* The map. *)

Sites == [n \in Names |->
             [host |-> n, names |-> {}, tls |-> 443, tls_redirect |-> FALSE,
              cert |-> assigned[n], enabled |-> TRUE]]

\* What a reload reads: for each name, the certificate stored now.
Stored == LET m == reload(Sites, DOMAIN kept, Names)
          IN  [n \in DOMAIN m |-> kept[m[n]].serial]

On(p, to) == doing' = [doing EXCEPT ![p].at = to]
Done(p) == doing' = [doing EXCEPT ![p] = AtRest]
Rests(p) == doing[p].at = "rest"

\* A reading that fails leaves the map as it was until the next; such a failure
\* of the database is left out.
MapRead(p) ==
    /\ doing[p].at = "reload"
    /\ doing' = [doing EXCEPT ![p] =
          [at |-> "put", name |-> doing[p].name, map |-> Stored, passed |-> FALSE]]
    /\ UNCHANGED <<tables, tokens, presented, sweep, hour, serial, overtaken, settings, registered, counts>>

MapPut(p) ==
    /\ doing[p].at = "put"
    /\ presented' = doing[p].map
    /\ overtaken' = doing[p].passed
    /\ doing' = [q \in Procs |->
          IF q = p THEN IF p = Renewer THEN [at |-> "renewed", name |-> doing[p].name] ELSE AtRest
          ELSE IF doing[q].at = "put" THEN [doing[q] EXCEPT !.passed = TRUE] ELSE doing[q]]
    /\ UNCHANGED <<tables, tokens, sweep, hour, serial, settings, registered, counts>>

-----------------------------------------------------------------------------
(* An order: issue and issue_and_store. *)

Begin(name, covers) == [at |-> "account", name |-> name, covers |-> covers]

\* The first row's account is used when its key is there; otherwise one is
\* registered and stored in a row of its own.
account(p) ==
    /\ doing[p].at = "account"
    /\ doing' = [doing EXCEPT ![p] =
          [at |-> "order", name |-> doing[p].name, covers |-> doing[p].covers,
           todo |-> doing[p].covers, ready |-> {}, next |-> None]]
    /\ IF accounts[1]
       THEN UNCHANGED <<accounts, registered>>
       ELSE /\ accounts' = Append(accounts, TRUE)
            /\ registered' = registered + 1
    /\ UNCHANGED <<kept, assigned, tokens, presented, sweep, hour, serial, overtaken, settings, counts>>

\* An authorization still valid from an earlier order needs no challenge.
StillValid(p) ==
    /\ doing[p].at = "order" /\ doing[p].next = None
    /\ \E h \in doing[p].todo : doing' = [doing EXCEPT ![p].todo = @ \ {h}]
    /\ UNCHANGED <<tables, tokens, presented, sweep, hour, serial, overtaken, settings, registered, counts>>

\* Wrong on purpose: the authority is told before the answer is there.
Publish_Late(p) ==
    /\ doing[p].at = "order" /\ doing[p].next = None
    /\ \E h \in doing[p].todo :
         doing' = [doing EXCEPT ![p].next = h, ![p].ready = @ \cup {h}]
    /\ UNCHANGED <<tables, tokens, presented, sweep, hour, serial, overtaken, settings, registered, counts>>

\* The answer is published, and only then is the authority told to ask.
Publish(p) ==
    /\ doing[p].at = "order" /\ doing[p].next = None
    /\ \E h \in doing[p].todo :
         /\ tokens' = tokens \cup {<<p, h>>}
         /\ doing' = [doing EXCEPT ![p].next = h]
    /\ UNCHANGED <<tables, presented, sweep, hour, serial, overtaken, settings, registered, counts>>

SetReady(p) ==
    /\ doing[p].at = "order" /\ doing[p].next # None
    /\ doing' = [doing EXCEPT ![p].next = None, ![p].todo = @ \ {doing[p].next},
                          ![p].ready = @ \cup {doing[p].next}]
    /\ UNCHANGED <<tables, tokens, presented, sweep, hour, serial, overtaken, settings, registered, counts>>

\* Dropping the guards of an order withdraws its tokens, however it ends.
Withdrawn(p) == {t \in tokens : t[1] # p}

\* The authority asks for each answer it was promised, and issues.
Issue(p) ==
    /\ doing[p].at = "order" /\ doing[p].todo = {} /\ doing[p].next = None
    /\ \A h \in doing[p].ready : <<p, h>> \in tokens
    /\ tokens' = Withdrawn(p)
    /\ On(p, "store")
    /\ UNCHANGED <<tables, presented, sweep, hour, serial, overtaken, settings, registered, counts>>

\* Refused, unreachable, or two minutes gone; or already the registration was.
OrderFails(p) ==
    /\ doing[p].at \in {"account", "order"} /\ refusals < MaxRefusals
    /\ refusals' = refusals + 1
    /\ tokens' = Withdrawn(p)
    /\ doing' = [doing EXCEPT ![p] =
          IF p = Renewer THEN [at |-> "failed", name |-> doing[p].name] ELSE AtRest]
    /\ UNCHANGED <<tables, presented, sweep, hour, serial, overtaken, settings, registered, acts, ages, kills>>

Put(n, row) == kept' = With(kept, n, row)

\* Wrong on purpose: the map is not rebuilt.
Store_Quiet(p) ==
    LET n == doing[p].name
    IN  /\ doing[p].at = "store"
        /\ serial' = serial + 1
        /\ Put(n, Row(serial + 1, "order", doing[p].covers))
        /\ doing' = [doing EXCEPT ![p] = IF p = Renewer THEN [at |-> "renewed", name |-> n] ELSE AtRest]
        /\ UNCHANGED <<assigned, accounts, tokens, presented, sweep, hour, overtaken, settings, registered,
                       counts>>

\* INSERT ... ON CONFLICT(name) DO UPDATE: the record of failed attempts stays.
Store(p) ==
    LET n == doing[p].name
        new == Row(serial + 1, "order", doing[p].covers)
    IN  /\ doing[p].at = "store"
        /\ serial' = serial + 1
        /\ Put(n, IF n \in DOMAIN kept
                  THEN [new EXCEPT !.failures = kept[n].failures, !.wait = kept[n].wait]
                  ELSE new)
        /\ doing' = [doing EXCEPT ![p] = [at |-> "reload", name |-> n]]
        /\ UNCHANGED <<assigned, accounts, tokens, presented, sweep, hour, overtaken, settings, registered,
                       counts>>

-----------------------------------------------------------------------------
(* The renewal sweep. *)

backoff(failures) ==
    CASE failures <= 1 -> 1 [] failures = 2 -> 2 [] failures = 3 -> 4
      [] failures = 4 -> 8 [] failures = 5 -> 12 [] OTHER -> 24

\* Wrong on purpose: a certificate that failed once is not tried again.
is_due_Once(row) == row.failures = 0 /\ row.near

\* Inside its backoff a certificate is not tried, however near its end.
is_due(row) == row.wait = 0 /\ row.near

\* The rows are read once, at the start: those an order stored.
renew_due ==
    /\ Rests(Renewer) /\ hour
    /\ hour' = FALSE
    /\ sweep' = [rows |-> Restrict(kept, {n \in DOMAIN kept : kept[n].covers # {}}),
                 since |-> serial]
    /\ UNCHANGED <<tables, tokens, presented, doing, serial, overtaken, settings, registered, counts>>

NextRow(n) ==
    /\ Rests(Renewer) /\ n \in DOMAIN sweep.rows
    /\ IF is_due(sweep.rows[n])
       THEN /\ doing' = [doing EXCEPT ![Renewer] = Begin(n, sweep.rows[n].covers)]
            /\ UNCHANGED sweep
       ELSE /\ sweep' = [sweep EXCEPT !.rows = Restrict(@, DOMAIN @ \ {n})]
            /\ UNCHANGED doing
    /\ UNCHANGED <<tables, tokens, presented, hour, serial, overtaken, settings, registered, counts>>

Recorded(n, f, w) ==
    /\ kept' = IF n \in DOMAIN kept THEN [kept EXCEPT ![n].failures = f, ![n].wait = w] ELSE kept
    /\ sweep' = [sweep EXCEPT !.rows = Restrict(@, DOMAIN @ \ {n})]
    /\ Done(Renewer)

Renewed ==
    /\ doing[Renewer].at = "renewed"
    /\ Recorded(doing[Renewer].name, 0, 0)
    /\ UNCHANGED <<assigned, accounts, tokens, presented, hour, serial, overtaken, settings, registered,
                   counts>>

\* One more than the failures the sweep read.
RenewalFailed ==
    /\ doing[Renewer].at = "failed"
    /\ LET n == doing[Renewer].name  f == sweep.rows[n].failures + 1
       IN  Recorded(n, f, backoff(f))
    /\ UNCHANGED <<assigned, accounts, tokens, presented, hour, serial, overtaken, settings, registered,
                   counts>>

\* The task sleeps an hour after a sweep.
Hour ==
    /\ Rests(Renewer) /\ ~hour /\ sweep.rows = <<>>
    /\ hour' = TRUE
    /\ kept' = [n \in DOMAIN kept |-> [kept[n] EXCEPT !.wait = IF @ = 0 THEN 0 ELSE @ - 1]]
    /\ UNCHANGED <<assigned, accounts, tokens, presented, doing, sweep, serial, overtaken, settings,
                   registered, counts>>

Age(n) ==
    /\ ages < MaxAges /\ ages' = ages + 1
    /\ n \in DOMAIN kept
    /\ kept' = [kept EXCEPT ![n].near = TRUE]
    /\ UNCHANGED <<assigned, accounts, memory, serial, overtaken, settings, registered, acts,
                   refusals, kills>>

-----------------------------------------------------------------------------
(* The pages. *)

Opens(p) == Rests(p) /\ acts < MaxActs /\ acts' = acts + 1

\* Every name asked for goes into one certificate.
post_cert_acme(p, n) ==
    /\ Opens(p)
    /\ doing' = [doing EXCEPT ![p] = Begin(n, {n})]
    /\ UNCHANGED <<tables, tokens, presented, sweep, hour, serial, overtaken, settings, registered,
                   refusals, ages, kills>>

\* Wrong on purpose: the upload leaves the names the row is renewed for.
post_cert_create_Renewed(p, n) ==
    /\ Opens(p)
    /\ serial' = serial + 1
    /\ Put(n, [Row(serial + 1, "hand", IF n \in DOMAIN kept THEN kept[n].covers ELSE {})
                  EXCEPT !.near = n \in DOMAIN kept /\ kept[n].near])
    /\ doing' = [doing EXCEPT ![p] = [at |-> "reload", name |-> n]]
    /\ UNCHANGED <<assigned, accounts, tokens, presented, sweep, hour, overtaken, settings, registered,
                   refusals, ages, kills>>

\* An upload in place of the row: the names to renew for are cleared with it.
post_cert_create(p, n) ==
    /\ Opens(p)
    /\ serial' = serial + 1
    /\ Put(n, IF n \in DOMAIN kept
              THEN [Row(serial + 1, "hand", {}) EXCEPT !.failures = kept[n].failures,
                                                       !.wait = kept[n].wait]
              ELSE Row(serial + 1, "hand", {}))
    /\ doing' = [doing EXCEPT ![p] = [at |-> "reload", name |-> n]]
    /\ UNCHANGED <<assigned, accounts, tokens, presented, sweep, hour, overtaken, settings, registered,
                   refusals, ages, kills>>

\* Not the interface's own, and none a site is assigned.
DeleteCheck(p, n) ==
    /\ Opens(p)
    /\ n # Managed /\ \A h \in Names : assigned[h] # n
    /\ doing' = [doing EXCEPT ![p] = [at |-> "delete", name |-> n]]
    /\ UNCHANGED <<tables, tokens, presented, sweep, hour, serial, overtaken, settings, registered,
                   refusals, ages, kills>>

\* A site assigned it meanwhile loses it: ON DELETE SET NULL.
Without(n) ==
    /\ kept' = Restrict(kept, DOMAIN kept \ {n})
    /\ assigned' = [h \in Names |-> IF assigned[h] = n THEN None ELSE assigned[h]]

post_cert_delete(p) ==
    LET n == doing[p].name
    IN  /\ doing[p].at = "delete"
        /\ Without(n)
        /\ IF n \in DOMAIN kept THEN On(p, "reload") ELSE Done(p)
        /\ UNCHANGED <<accounts, tokens, presented, sweep, hour, serial, overtaken, settings, registered,
                       counts>>

\* A save of a site's form that chooses a certificate (Sites models the form).
Assign(p, h, n) ==
    /\ Opens(p)
    /\ n \in DOMAIN kept /\ assigned' = [assigned EXCEPT ![h] = n]
    /\ doing' = [doing EXCEPT ![p] = [at |-> "reload", name |-> n]]
    /\ UNCHANGED <<kept, accounts, tokens, presented, sweep, hour, serial, overtaken, settings,
                   registered, refusals, ages, kills>>

\* A contact or a directory changed clears the first row's key.
set_config(p) ==
    /\ Opens(p)
    /\ accounts' = [accounts EXCEPT ![1] = FALSE]
    /\ settings' = settings + 1
    /\ UNCHANGED <<kept, assigned, memory, serial, overtaken, registered, refusals, ages, kills>>

\* The sweep runs again at once; what was published is gone.
ComesUp ==
    /\ kills < MaxKills /\ kills' = kills + 1
    /\ doing' = [p \in Procs |-> AtRest]
    /\ tokens' = {} /\ presented' = Stored /\ overtaken' = FALSE
    /\ sweep' = [sweep EXCEPT !.rows = <<>>] /\ hour' = TRUE
    /\ UNCHANGED <<tables, serial, settings, registered, acts, refusals, ages>>

-----------------------------------------------------------------------------
Works(p) ==
    \/ MapRead(p) \/ MapPut(p)
    \/ account(p) \/ StillValid(p) \/ Publish(p) \/ SetReady(p) \/ Issue(p) \/ Store(p)
    \/ post_cert_delete(p)

Sweeps == renew_due \/ (\E n \in Names : NextRow(n)) \/ Renewed \/ RenewalFailed

CertificatesNext ==
    \/ \E p \in Procs : Works(p) \/ OrderFails(p)
    \/ Sweeps \/ Hour
    \/ \E n \in Names : Age(n)
    \/ \E p \in Pages :
        \/ \E n \in Names :
            \/ post_cert_acme(p, n) \/ post_cert_create(p, n) \/ DeleteCheck(p, n)
            \/ \E h \in Names : Assign(p, h, n)
        \/ set_config(p)
    \/ ComesUp

CertificatesSpec == CertificatesInit /\ [][CertificatesNext]_certificateVars

\* The renewal task and the requests it makes go on, and the hours pass.  An
\* authority that refuses only so often is MaxRefusals.
FairSpec ==
    /\ CertificatesSpec
    /\ WF_certificateVars(Works(Renewer)) /\ WF_certificateVars(Sweeps) /\ WF_certificateVars(Hour)

-----------------------------------------------------------------------------
(* Properties. *)

\* A certificate uploaded over one Let's Encrypt renews is not overwritten by a
\* sweep that began after the upload (certs.rs:148 "leaving the column set would
\* have the renewal task overwrite the upload a few weeks later").  An upload
\* while the order is under way is overwritten; that is the order's minutes.
UploadIsKept ==
    [][\A n \in DOMAIN kept :
          (kept[n].by = "hand" /\ doing[Renewer].at = "store" /\ doing'[Renewer].at = "reload"
             /\ doing[Renewer].name = n) => kept[n].serial > sweep.since]_certificateVars

\* The authority may ask from the moment it is told to until the order ends,
\* and finds the answer all that time (acme.rs:254 "Published before telling the
\* CA it is ready, never after"); no answer outlives its order.
AskedIsAnswered ==
    /\ \A p \in Procs : doing[p].at = "order" =>
          \A h \in doing[p].ready : <<p, h>> \in tokens
    /\ \A t \in tokens : doing[t[1]].at = "order" /\ t[2] \in doing[t[1]].covers

\* What a handshake is answered with is what is stored: once the pages and the
\* sweep are at rest the map is the one a reload would build now, unless the
\* reload that put it was passed by another (tls.rs:273 "Called at startup and
\* after any change to a site or a certificate").
PresentsWhatIsStored ==
    ((\A p \in Procs : Rests(p)) /\ ~overtaken) => presented = Stored

\* A certificate near its end does not stay so: it is renewed, replaced or
\* deleted, whatever failed, waited or restarted on the way.
DueIsRenewed ==
    \A n \in Names :
        (n \in DOMAIN kept /\ kept[n].near /\ kept[n].by = "order")
            ~> (n \notin DOMAIN kept \/ ~kept[n].near \/ kept[n].by = "hand")

\* An account is registered once for each contact or directory set (acme.rs:145
\* "The credentials are stored rather than the account being re-registered each
\* time").
RegisteredOnce == registered <= settings
=============================================================================
