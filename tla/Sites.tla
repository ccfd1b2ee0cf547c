-------------------------------- MODULE Sites --------------------------------
(* The pages that create, change, switch and delete a site, the listeners they *)
(* announce its ports to, and the certificate map they rebuild.                *)
(*                                                                             *)
(* A save is one check of the form and then a statement per table, each on its *)
(* own connection: `sites`, `upstreams` (one statement per backend),           *)
(* `site_ports`, `site_aliases`, the rate limit, `site_auth`.  Nothing holds   *)
(* them together, so two saves interleave statement by statement, a statement  *)
(* that fails leaves the ones before it, and the service may stop in between.  *)
(*                                                                             *)
(* A form refused by its checks changes nothing: it is a stuttering step.      *)
(* Weights, headers, limits and the other columns that no statement branches   *)
(* on are left out; a rejected value of one is `Bad`.                          *)
EXTENDS SiteTables, Sequences, SequencesExt, Functions

CONSTANTS
    Bad,          \* a field's text that does not read as what the field holds
    Hosts,        \* hostnames
    Realms,       \* sign-in realms there may be
    GuiPorts,     \* the ports of the management interface
    MaxPort,      \* the largest port number
    AcmePort,     \* the port Let's Encrypt asks on, bound for everybody
    Forms,        \* the forms an administrator may send
    Uploaded,     \* certificates stored before
    Admins,       \* administrators with a page open
    MaxSites,     \* bound: sites ever created
    MaxSaves,     \* bound: forms ever sent
    MaxStops      \* bound: restarts of the service

ASSUME SitesAssumption ==
    /\ MaxSites \in Nat /\ MaxSaves \in Nat /\ MaxStops \in Nat
    /\ GuiPorts \subseteq 1..MaxPort /\ AcmePort \in 1..MaxPort /\ Uploaded \subseteq Hosts

VARIABLES
    sites,     \* rows of sites, with the rows of site_ports and site_aliases
    pool,      \* rows of upstreams: for each site, its backends and their ids
    site_auth, \* for each site, the realm its visitors sign in to, or None
    auth_realms, \* realms there are
    certs,     \* certificates stored with a chain and a key, by name
    queue,     \* ports announced and not yet taken up by the proxy
    bound,     \* ports the proxy has taken up since it started
    listening, \* those whose socket it has
    sni,       \* the certificate map: hostname to certificate
    job,       \* what each administrator's request is doing
    next,      \* the next site id and the next backend id
    broken,    \* sites one of whose saves stopped at a failed statement
    saves, stops

vars == <<sites, pool, site_auth, auth_realms, certs, queue, bound, listening,
          sni, job, next, broken, saves, stops>>

SiteIds == 1..MaxSites
Idle == [at |-> "rest"]

-----------------------------------------------------------------------------
(* Reading the form. *)

parse_port_list(l) ==
    SelectSeq([k \in 1..Len(l) |-> IF l[k] \in ToSet(SubSeq(l, 1, k - 1)) THEN None ELSE l[k]],
              LAMBDA p : p # None)

PortsOf(f) == parse_port_list(f.http) \o parse_port_list(f.https)

\* Every entry a port, one for HTTP, none twice and none the interface's.
validated_ports(f) ==
    /\ ToSet(PortsOf(f)) \subseteq (1..MaxPort) \ GuiPorts
    /\ f.http # <<>>
    /\ IsInjective(PortsOf(f))

split_ports(l) == IF l = <<>> THEN None ELSE parse_port_list(l)[1]

ExtrasOf(f) ==
    LET rest(l, tls) == {[port |-> p, tls |-> tls] : p \in ToSet(l) \ {split_ports(l)}}
    IN  rest(f.http, FALSE) \cup rest(f.https, TRUE)

parse_aliases(f) == Bad \notin f.aliases /\ f.host \notin f.aliases

parse_upstreams(f) == Bad \notin f.pool /\ f.pool # {}

read_rate_limit(f) == f.rate # Bad

\* The paths, the headers and the realm's name, when a realm is chosen.
read_sign_in(f) == f.realm = None \/ f.header # Bad

FormReads(f) ==
    /\ f.host \in Hosts
    /\ parse_aliases(f) /\ validated_ports(f) /\ parse_upstreams(f)
    /\ read_sign_in(f) /\ read_rate_limit(f)

-----------------------------------------------------------------------------
(* Checking it against the tables. *)

NameIsFree(f) == \A i \in DOMAIN sites : sites[i].name # f.name /\ sites[i].host # f.host

alias_conflict(f, own) ==
    \E i \in DOMAIN sites \ {own} : f.aliases \cap NamesOf(sites[i]) # {}

\* An HTTPS port needs a certificate, unless one is asked for in the same step.
https_without_certificate(f, acme_now) ==
    f.https # <<>> /\ ~acme_now /\ f.cert \notin certs

RealmThere(f) == f.realm \in auth_realms \cup {None}

-----------------------------------------------------------------------------
Bind(p, t) == [port |-> p, tls |-> t]

\* The ports a row and its extra rows name.
PrimaryPorts(s) == {Bind(s.listen, FALSE)} \cup {Bind(p, TRUE) : p \in {s.tls} \ {None}}
PortsNamed(s) == PrimaryPorts(s) \cup s.extra

\* At startup a TLS port is bound only for a site that has a certificate.
get_listen_ports ==
    {r \in UNION {PortsNamed(sites[i]) : i \in {j \in DOMAIN sites : sites[j].enabled}} :
        r.tls => \E i \in DOMAIN sites :
                    sites[i].enabled /\ r \in PortsNamed(sites[i]) /\ sites[i].cert # None}

Opened(rs) ==      \* of these, those that get their socket: one per number
    {r \in rs : ~r.tls \/ Bind(r.port, FALSE) \notin rs}

Init ==
    /\ sites = <<>> /\ pool = <<>> /\ site_auth = <<>>
    /\ auth_realms = Realms
    /\ certs = Uploaded
    /\ queue = {} /\ bound = {Bind(AcmePort, FALSE)} /\ listening = bound
    /\ sni = <<>>
    /\ job = [a \in Admins |-> Idle]
    /\ next = [site |-> 1, row |-> 1]
    /\ broken = {} /\ saves = 0 /\ stops = 0

Proxy == <<queue, bound, listening>>
Rows  == <<sites, pool, site_auth>>

Goes(a, to) == job' = [job EXCEPT ![a].at = to]
Ends(a) == job' = [job EXCEPT ![a] = Idle]

\* A statement that cannot be carried out: the request ends, what it wrote stays.
Fails(a) ==
    /\ broken' = broken \cup {job[a].site}
    /\ Ends(a)
    /\ UNCHANGED <<Rows, auth_realms, certs, Proxy, sni, next, saves, stops>>

-----------------------------------------------------------------------------
(* Create and update, up to the row of `sites`. *)

RowOf(f) ==
    [name |-> f.name, host |-> f.host, names |-> {}, listen |-> split_ports(f.http),
     tls |-> split_ports(f.https), extra |-> {}, cert |-> f.cert,
     tls_redirect |-> f.redirect, enabled |-> TRUE, acme_enabled |-> FALSE]

\* The form is checked by a query for each thing; they are one step here.  That
\* what they found may be stale by the statements that follow is modelled, that it
\* may be by the next of the queries is not.
CheckCreate(a, f) ==
    /\ job[a].at = "rest" /\ saves < MaxSaves
    /\ FormReads(f)
    /\ NameIsFree(f) /\ ~alias_conflict(f, 0)
    /\ ~https_without_certificate(f, f.acme) /\ RealmThere(f)
    /\ job' = [job EXCEPT ![a] =
          [at |-> "insert", form |-> f, site |-> 0, new |-> TRUE,
           ports |-> PortsNamed(RowOf(f)) \cup ExtrasOf(f),
           before |-> <<>>, added |-> {}, alone |-> TRUE, map |-> <<>>]]
    /\ saves' = saves + 1
    /\ UNCHANGED <<Rows, auth_realms, certs, Proxy, sni, next, broken, stops>>

CheckUpdate(a, f) ==
    /\ job[a].at = "rest" /\ saves < MaxSaves
    /\ FormReads(f)
    /\ \E i \in DOMAIN sites :
        /\ sites[i].name = f.name
        /\ ~alias_conflict(f, i) /\ ~https_without_certificate(f, FALSE) /\ RealmThere(f)
        /\ job' = [job EXCEPT ![a] =
              [at |-> "update", form |-> f, site |-> i, new |-> FALSE,
               ports |-> PortsNamed(RowOf(f)) \cup ExtrasOf(f),
               before |-> <<>>, added |-> {}, alone |-> TRUE, map |-> <<>>]]
    /\ saves' = saves + 1
    /\ UNCHANGED <<Rows, auth_realms, certs, Proxy, sni, next, broken, stops>>

\* name and server_name are UNIQUE; cert_id refers to a row there is.
RowFits(f, own) ==
    /\ \A i \in DOMAIN sites \ {own} : sites[i].name # f.name /\ sites[i].host # f.host
    /\ f.cert \in certs \cup {None}

Refused(a) ==
    /\ Ends(a)
    /\ UNCHANGED <<Rows, auth_realms, certs, Proxy, sni, next, broken, saves, stops>>

InsertSite(a) ==
    /\ job[a].at = "insert"
    /\ IF RowFits(job[a].form, 0)
       THEN /\ next.site \in SiteIds
            /\ sites' = With(sites, next.site, RowOf(job[a].form))
            /\ pool' = With(pool, next.site, <<>>)
            /\ site_auth' = With(site_auth, next.site, None)
            /\ next' = [next EXCEPT !.site = @ + 1]
            /\ job' = [job EXCEPT ![a].at = "pool", ![a].site = next.site]
            /\ UNCHANGED <<auth_realms, certs, Proxy, sni, broken, saves, stops>>
       ELSE Refused(a)

\* WHERE name = ?: a site deleted meanwhile is no error.  The row is taken by its
\* id here; a site deleted and made again under its name between the check and this
\* statement would be changed by the code, and is not.
UpdateSite(a) ==
    LET f == job[a].form  i == job[a].site
    IN  /\ job[a].at = "update"
        /\ IF i \notin DOMAIN sites \/ RowFits(f, i)
           THEN /\ sites' = IF i \notin DOMAIN sites THEN sites
                            ELSE [sites EXCEPT ![i].host = f.host, ![i].listen = split_ports(f.http),
                                               ![i].tls = split_ports(f.https), ![i].cert = f.cert,
                                               ![i].tls_redirect = f.redirect]
                /\ Goes(a, "pool")
                /\ UNCHANGED <<pool, site_auth, auth_realms, certs, Proxy, sni, next, broken,
                               saves, stops>>
           ELSE Refused(a)

-----------------------------------------------------------------------------
(* apply_pool: read, add and keep, and only then remove. *)

PoolRow(i) == IF i \in DOMAIN pool THEN pool[i] ELSE <<>>

ReadPool(a) ==
    LET others == {b \in Admins \ {a} : job[b].at = "pool_rows" /\ job[b].site = job[a].site}
    IN  /\ job[a].at = "pool"
        /\ job' = [b \in Admins |->
              IF b = a THEN [job[a] EXCEPT !.at = "pool_rows", !.before = PoolRow(job[a].site),
                                           !.alone = others = {}]
              ELSE IF b \in others THEN [job[b] EXCEPT !.alone = FALSE] ELSE job[b]]
        /\ UNCHANGED <<Rows, auth_realms, certs, Proxy, sni, next, broken, saves, stops>>

\* Compared with what was read: a backend listed and read keeps its row.
ToAdd(a) == job[a].form.pool \ (DOMAIN job[a].before \cup job[a].added)
ToDrop(a) == {u \in DOMAIN job[a].before \ job[a].form.pool :
                 u \in DOMAIN PoolRow(job[a].site) /\ PoolRow(job[a].site)[u] = job[a].before[u]}

\* (site_id, url) is UNIQUE, and site_id refers to a row there is.
AddBackend(a) ==
    LET i == job[a].site
    IN  /\ job[a].at = "pool_rows"
        /\ \E u \in ToAdd(a) :
             IF i \in DOMAIN sites /\ u \notin DOMAIN PoolRow(i)
             THEN /\ pool' = [pool EXCEPT ![i] = With(@, u, next.row)]
                  /\ next' = [next EXCEPT !.row = @ + 1]
                  /\ job' = [job EXCEPT ![a].added = @ \cup {u}]
                  /\ UNCHANGED <<sites, site_auth, auth_realms, certs, Proxy, sni, broken,
                                 saves, stops>>
             ELSE Fails(a)

\* Wrong on purpose: the backends no longer listed go before the new ones come.
DropBackend_First(a) ==
    LET i == job[a].site
    IN  /\ job[a].at = "pool_rows"
        /\ \E u \in ToDrop(a) :
             pool' = [pool EXCEPT ![i] = Restrict(@, DOMAIN @ \ {u})]
        /\ UNCHANGED <<sites, site_auth, auth_realms, certs, Proxy, sni, job, next, broken,
                       saves, stops>>

DropBackend(a) ==
    LET i == job[a].site
    IN  /\ job[a].at = "pool_rows" /\ ToAdd(a) = {}
        /\ \E u \in ToDrop(a) :
             pool' = [pool EXCEPT ![i] = Restrict(@, DOMAIN @ \ {u})]
        /\ UNCHANGED <<sites, site_auth, auth_realms, certs, Proxy, sni, job, next, broken,
                       saves, stops>>

PoolDone(a) ==
    /\ job[a].at = "pool_rows" /\ ToAdd(a) = {} /\ ToDrop(a) = {}
    /\ Goes(a, "ports")
    /\ UNCHANGED <<Rows, auth_realms, certs, Proxy, sni, next, broken, saves, stops>>

-----------------------------------------------------------------------------
(* The other tables of a save. *)

\* Rewritten whole: the rows go, then the new ones are inserted, without a
\* transaction.  One step here: a stop or a failure between them, which leaves the
\* site without its other ports, is left out.
save_extra_ports(a) ==
    LET i == job[a].site
    IN  /\ job[a].at = "ports"
        /\ IF i \in DOMAIN sites
           THEN /\ sites' = [sites EXCEPT ![i].extra = ExtrasOf(job[a].form)]
                /\ Goes(a, "aliases")
                /\ UNCHANGED <<pool, site_auth, auth_realms, certs, Proxy, sni, next, broken,
                               saves, stops>>
           ELSE IF ExtrasOf(job[a].form) = {}
           THEN /\ Goes(a, "aliases")
                /\ UNCHANGED <<Rows, auth_realms, certs, Proxy, sni, next, broken, saves, stops>>
           ELSE Fails(a)

\* One transaction; an alias another site took meanwhile undoes it.
save_aliases(a) ==
    LET i == job[a].site  f == job[a].form
    IN  /\ job[a].at = "aliases"
        /\ IF IF i \in DOMAIN sites
              THEN \A j \in DOMAIN sites \ {i} : f.aliases \cap sites[j].names = {}
              ELSE f.aliases = {}
           THEN /\ sites' = IF i \in DOMAIN sites THEN [sites EXCEPT ![i].names = f.aliases]
                            ELSE sites
                /\ Goes(a, IF job[a].new THEN "sign_in" ELSE "announce")
                /\ UNCHANGED <<pool, site_auth, auth_realms, certs, Proxy, sni, next, broken,
                               saves, stops>>
           ELSE Fails(a)

\* The realm is looked up again; one that went meanwhile leaves what was stored.
save_sign_in(a) ==
    LET i == job[a].site  f == job[a].form
        after == IF job[a].new THEN Goes(a, "announce") ELSE Ends(a)
    IN  /\ job[a].at = "sign_in"
        /\ IF i \in DOMAIN sites \/ f.realm \notin auth_realms
           THEN /\ site_auth' = IF i \in DOMAIN sites /\ RealmThere(f)
                                THEN [site_auth EXCEPT ![i] = f.realm] ELSE site_auth
                /\ after
                /\ UNCHANGED <<sites, pool, auth_realms, certs, Proxy, sni, next, broken, saves,
                               stops>>
           ELSE Fails(a)

\* The ports the form gave, announced whether or not the site is on.
announce_site(a) ==
    /\ job[a].at = "announce"
    /\ queue' = queue \cup job[a].ports
    /\ Goes(a, "reload")
    /\ UNCHANGED <<Rows, auth_realms, certs, bound, listening, sni, next, broken, saves, stops>>

ReloadRead(a) ==
    /\ job[a].at = "reload"
    /\ job' = [job EXCEPT ![a].at = "put", ![a].map = reload(sites, certs, Hosts)]
    /\ UNCHANGED <<Rows, auth_realms, certs, Proxy, sni, next, broken, saves, stops>>

AfterReload(a) ==
    IF job[a].form = None THEN "rest"
    ELSE IF ~job[a].new THEN "sign_in"
    ELSE IF job[a].form.acme THEN "order" ELSE "rest"

ReloadPut(a) ==
    /\ job[a].at = "put"
    /\ sni' = job[a].map
    /\ IF AfterReload(a) = "rest" THEN Ends(a) ELSE Goes(a, AfterReload(a))
    /\ UNCHANGED <<Rows, auth_realms, certs, Proxy, next, broken, saves, stops>>

-----------------------------------------------------------------------------
(* A certificate from Let's Encrypt for a site: with its creation, or from its *)
(* page.  The order itself is modelled in Certificates; here it stores a       *)
(* certificate under the site's hostname, rebuilds the map, or fails.          *)

request_cert_for_new_site(a) ==
    /\ job[a].at = "order"
    /\ \/ Refused(a)               \* no contact set, or the order came to nothing
       \/ /\ certs' = certs \cup {job[a].form.host}
          /\ sni' = reload(sites, certs', Hosts)
          /\ Goes(a, "assign")
          /\ UNCHANGED <<Rows, auth_realms, Proxy, next, broken, saves, stops>>

post_site_acme(a, i) ==
    /\ job[a].at = "rest" /\ saves < MaxSaves
    /\ i \in DOMAIN sites
    /\ job' = [job EXCEPT ![a] =
          [at |-> "order", form |-> [host |-> sites[i].host], site |-> i, new |-> FALSE]]
    /\ saves' = saves + 1
    /\ UNCHANGED <<Rows, auth_realms, certs, Proxy, sni, next, broken, stops>>

\* UPDATE sites SET cert_id: the last statement of both.
AssignCertificate(a) ==
    LET i == job[a].site
    IN  /\ job[a].at = "assign"
        /\ sites' = IF i \in DOMAIN sites /\ job[a].form.host \in certs
                    THEN [sites EXCEPT ![i].cert = job[a].form.host, ![i].acme_enabled = TRUE]
                    ELSE sites
        /\ Ends(a)
        /\ UNCHANGED <<pool, site_auth, auth_realms, certs, Proxy, sni, next, broken, saves, stops>>

-----------------------------------------------------------------------------
(* Switching a site on or off, and deleting it. *)

ToggleRead(a, i) ==
    /\ job[a].at = "rest" /\ saves < MaxSaves
    /\ i \in DOMAIN sites
    /\ job' = [job EXCEPT ![a] =
          [at |-> "switch", form |-> None, site |-> i, new |-> FALSE, to |-> ~sites[i].enabled,
           ports |-> PrimaryPorts(sites[i]), map |-> <<>>]]
    /\ saves' = saves + 1
    /\ UNCHANGED <<Rows, auth_realms, certs, Proxy, sni, next, broken, stops>>

\* What was read is negated, whatever the row says by now.
ToggleWrite(a) ==
    LET i == job[a].site
    IN  /\ job[a].at = "switch"
        /\ sites' = IF i \in DOMAIN sites THEN [sites EXCEPT ![i].enabled = job[a].to] ELSE sites
        /\ Goes(a, IF job[a].to THEN "toggle_ports" ELSE "reload")
        /\ UNCHANGED <<pool, site_auth, auth_realms, certs, Proxy, sni, next, broken, saves, stops>>

\* Wrong on purpose: only the primary ports of the site are announced.
TogglePorts_Primary(a) ==
    /\ job[a].at = "toggle_ports"
    /\ Goes(a, "announce")
    /\ UNCHANGED <<Rows, auth_realms, certs, Proxy, sni, next, broken, saves, stops>>

\* Its primary ports as it was read, and its other ports as they are now.  A query
\* of these that fails, which the code takes for none, is left out.
TogglePorts(a) ==
    LET i == job[a].site
    IN  /\ job[a].at = "toggle_ports"
        /\ job' = [job EXCEPT ![a].at = "announce",
                              ![a].ports = @ \cup IF i \in DOMAIN sites THEN sites[i].extra ELSE {}]
        /\ UNCHANGED <<Rows, auth_realms, certs, Proxy, sni, next, broken, saves, stops>>

\* One statement; the backends, ports, aliases and sign-in go with the row.
post_site_delete(i) ==
    /\ saves < MaxSaves /\ saves' = saves + 1
    /\ i \in DOMAIN sites
    /\ LET left == DOMAIN sites \ {i}
       IN  /\ sites' = Restrict(sites, left) /\ pool' = Restrict(pool, left)
           /\ site_auth' = Restrict(site_auth, left)
    /\ UNCHANGED <<auth_realms, certs, Proxy, sni, job, next, broken, stops>>

\* A realm no site refers to may be deleted: the reference is ON DELETE RESTRICT.
DeleteRealm(r) ==
    /\ r \in auth_realms /\ \A i \in DOMAIN site_auth : site_auth[i] # r
    /\ auth_realms' = auth_realms \ {r}
    /\ UNCHANGED <<Rows, certs, Proxy, sni, job, next, broken, saves, stops>>

-----------------------------------------------------------------------------
(* The proxy's listeners, and a restart of the service. *)

\* A request seen before is ignored; a new one is bound, which fails while the
\* other protocol has the number.
TakeUpPort ==
    \E r \in queue :
        /\ queue' = queue \ {r}
        /\ bound' = bound \cup {r}
        /\ listening' = IF r \in bound \/ \E l \in listening : l.port = r.port
                        THEN listening ELSE listening \cup {r}
        /\ UNCHANGED <<Rows, auth_realms, certs, sni, job, next, broken, saves, stops>>

Restart ==
    /\ stops < MaxStops /\ stops' = stops + 1
    /\ job' = [a \in Admins |-> Idle]
    /\ queue' = {}
    /\ bound' = get_listen_ports \cup {Bind(AcmePort, FALSE)}
    /\ listening' = Opened(bound')
    /\ sni' = reload(sites, certs, Hosts)
    /\ UNCHANGED <<Rows, auth_realms, certs, next, broken, saves>>

Save(a) ==
    \/ InsertSite(a) \/ UpdateSite(a)
    \/ ReadPool(a) \/ AddBackend(a) \/ DropBackend(a) \/ PoolDone(a)
    \/ save_extra_ports(a) \/ save_aliases(a) \/ save_sign_in(a)
    \/ announce_site(a) \/ ReloadRead(a) \/ ReloadPut(a)
    \/ request_cert_for_new_site(a) \/ AssignCertificate(a)
    \/ ToggleWrite(a) \/ TogglePorts(a)

Next ==
    \/ \E a \in Admins :
        \/ \E f \in Forms : CheckCreate(a, f) \/ CheckUpdate(a, f)
        \/ \E i \in SiteIds : post_site_acme(a, i) \/ ToggleRead(a, i)
        \/ Save(a)
    \/ \E i \in SiteIds : post_site_delete(i)
    \/ \E r \in Realms : DeleteRealm(r)
    \/ TakeUpPort
    \/ Restart

Spec == Init /\ [][Next]_vars

-----------------------------------------------------------------------------
(* Properties. *)

TypeOK ==
    /\ DOMAIN sites \subseteq SiteIds /\ DOMAIN pool = DOMAIN sites
    /\ DOMAIN site_auth = DOMAIN sites
    /\ \A i \in DOMAIN sites :
        /\ sites[i].host \in Hosts /\ sites[i].names \subseteq Hosts
        /\ sites[i].cert \in certs \cup {None}
        /\ site_auth[i] \in auth_realms \cup {None}
    /\ DOMAIN sni \subseteq Hosts /\ Range(sni) \subseteq Hosts
    /\ listening \subseteq bound

\* A save changes a pool in place: a backend still listed keeps its row, and
\* with it the health seen of it and the visitors pinned to it, and a site that
\* had a backend has one at every moment of the save.  (sites.rs:1196 "one that
\* is still listed keeps its row".)  Two saves of one site at once are outside
\* it: each removes what it read and does not list.
PoolChangesInPlace ==
    \A a \in Admins :
        (job[a].at = "pool_rows" /\ job[a].alone /\ job[a].site \in DOMAIN sites) =>
            LET now == pool[job[a].site]  was == job[a].before
            IN  /\ \A u \in DOMAIN was \cap job[a].form.pool : u \in DOMAIN now /\ now[u] = was[u]
                /\ DOMAIN was # {} => DOMAIN now # {}

\* A port of an enabled site answers without a restart: once the requests are
\* done, the proxy has been told of every port an enabled site names, whatever
\* was switched, saved and restarted in between (sites.rs:1522 "a port added in
\* the GUI answers without a restart").  Not those of a site one of whose saves
\* stopped at a failed statement, nor the HTTPS ones of a site whose certificate
\* came from the button on its page.
SavedPortsAnswer ==
    (\A a \in Admins : job[a].at = "rest") =>
        \A i \in DOMAIN sites :
            (sites[i].enabled /\ i \notin broken) =>
                \A r \in PortsNamed(sites[i]) :
                    \/ r \in bound \cup queue
                    \/ r.tls /\ (sites[i].acme_enabled \/ sites[i].cert = None)

\* No two enabled sites claim one hostname (proxy/mod.rs:2558 "The forms refuse
\* that, so it is a tiebreak for a database edited by hand").
OneSitePerName ==
    \A h \in Hosts : Cardinality(Claimants(sites, h)) <= 1

\* A visitor sent on to HTTPS is answered there: the port is the proxy's, and
\* the handshake finds a certificate for the name (proxy/mod.rs:1173, "a redirect
\* to it would make the whole site unreachable"; tls.rs:273, the map is rebuilt
\* "after any change to a site or a certificate").
RedirectsWhereAnswered ==
    (\A a \in Admins : job[a].at = "rest") =>
        \A i \in DOMAIN sites :
            LET to == https_redirect(sites[i], certs)
            IN  (sites[i].enabled /\ i \notin broken /\ to # None) =>
                    /\ Bind(to, TRUE) \in bound \cup queue
                    /\ sites[i].host \in DOMAIN sni
=============================================================================
