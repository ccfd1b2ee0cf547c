------------------------------- MODULE Import -------------------------------
(* Exporting the configuration as a file, and importing one: the file is held  *)
(* for its preview, compared with what there is, applied section by section to *)
(* a copy of the database, and the copy is swapped in by a restart.  The swap  *)
(* itself, and what a stop in it leaves, are Restore's.                        *)
(*                                                                             *)
(* A configuration is a record of its sections, and a file is one of those an  *)
(* export writes: names instead of ids, a set instead of its rules, keys and   *)
(* accounts only when they were asked for.  What a value may be (a port, a     *)
(* pattern, an address) is left out, and so are the fields of a site and of a  *)
(* policy that nothing else refers to.                                         *)
EXTENDS Integers, FiniteSets

CONSTANTS
    None,
    Importers,   \* administrators importing: names of accounts
    Configs,     \* configurations there may be at first
    Docs,        \* files there are to import
    Sets,        \* rule sets of the channel
    RulesOf,     \* the numbers of each set
    Management,  \* the name of the management page's certificate
    MaxImports,  \* bound: imports begun
    MaxChanges   \* bound: changes of somebody else, and of the channel

Exported == {"exported"}   \* settings that travel; any other is this installation's own

VARIABLES
    live,       \* the configuration in the database
    offered,    \* the sets the channel offers
    candidate,  \* the file held for its preview, or None
    left,        \* what each importer has still to do: [at, sites]
    copy,       \* the copy each importer has open, or None
    path,       \* whose copy the working file is, or None
    waiting,     \* what the restart will swap in, or None
    last,       \* of each importer: the file, and the configuration copied (history)
    imports, changes

\* Where an importer is, and the sites of the file it has not yet written.
Idle == [at |-> "idle", sites |-> {}]
UnderWay(i) == left[i].at # "idle"

importVars == <<live, offered, candidate, left, copy, path, waiting, last, imports, changes>>

ImportInit ==
    /\ live \in Configs
    /\ offered = Sets
    /\ candidate = None
    /\ left = [i \in Importers |-> Idle] /\ copy = [i \in Importers |-> None] /\ path = None
    /\ waiting = None /\ last = [i \in Importers |-> None]
    /\ imports = 0 /\ changes = 0

-----------------------------------------------------------------------------
(* The file: export::build. *)

Empty == [x \in {} |-> None]
Over(f, g) == [x \in DOMAIN f \cup DOMAIN g |-> IF x \in DOMAIN f THEN f[x] ELSE g[x]]
Only(f, S) == [x \in DOMAIN f \cap S |-> f[x]]
Without(f, S) == [x \in DOMAIN f \ S |-> f[x]]
HeldRules(sets) == UNION {RulesOf[s] : s \in sets}

\* A configuration has its columns: a realm of accounts has no password of a
\* directory, and a directory no accounts; those who import have an account, and
\* the management page a certificate.
IsAccount(a) == a = [hash |-> a.hash, role |-> a.role, on |-> a.on]
IsRealm(r) ==
    /\ r = [kind |-> r.kind, password |-> r.password, users |-> r.users]
    /\ r.users = [u \in DOMAIN r.users |->
                     [hash |-> r.users[u].hash, on |-> r.users[u].on, epoch |-> r.users[u].epoch]]
    /\ IF r.kind = "local" THEN r.password = None ELSE r.users = Empty
IsConfig(c) ==
    /\ c = [settings |-> c.settings, policies |-> c.policies, certs |-> c.certs, realms |-> c.realms,
            sites |-> c.sites, accounts |-> c.accounts]
    /\ \A r \in DOMAIN c.realms : IsRealm(c.realms[r])
    /\ \A u \in DOMAIN c.accounts : IsAccount(c.accounts[u])
    /\ Importers \subseteq DOMAIN c.accounts /\ Management \in DOMAIN c.certs

\* So has a file.
IsFile(d) ==
    /\ \A p \in DOMAIN d.policies : d.policies[p].rules = [n \in DOMAIN d.policies[p].rules |-> d.policies[p].rules[n]]
    /\ \A r \in DOMAIN d.realms : d.realms[r].kind \in {"local", "ldap"}
    /\ d.sites = [s \in DOMAIN d.sites |->
                    [host |-> d.sites[s].host, aliases |-> d.sites[s].aliases, policy |-> d.sites[s].policy,
                     cert |-> d.sites[s].cert, realm |-> d.sites[s].realm]]
    /\ \A u \in DOMAIN d.accounts : IsAccount(d.accounts[u])

ASSUME ImportAssumption ==
    /\ \A c \in Configs : IsConfig(c)
    /\ \A d \in Docs : IsFile(d)
    /\ None \notin Importers

\* A set's rules travel as the set, with the numbers switched off; others in full.
PolicyDoc(p) ==
    [sets |-> p.sets,
     off |-> {n \in HeldRules(p.sets) \cap DOMAIN p.rules : ~p.rules[n]},
     rules |-> Without(p.rules, HeldRules(p.sets)),
     exclusions |-> p.exclusions]

\* The management page's certificate stays behind, unless a site serves with it.
Travels(config, c) == c # Management \/ \E s \in DOMAIN config.sites : config.sites[s].cert = c

\* Certificates always, their keys and the directories' passwords only when asked.
CertDocs(config, keys) ==
    [c \in {c \in DOMAIN config.certs : Travels(config, c)} |-> [pem |-> config.certs[c], key |-> keys]]

RealmDoc(realm, keys, accounts) ==
    [kind |-> realm.kind,
     password |-> IF keys THEN realm.password ELSE None,
     users |-> IF accounts
               THEN [u \in DOMAIN realm.users |-> [hash |-> realm.users[u].hash, on |-> realm.users[u].on]]
               ELSE Empty]

build(config, keys, accounts) ==
    [settings |-> Only(config.settings, Exported),
     policies |-> [p \in DOMAIN config.policies |-> PolicyDoc(config.policies[p])],
     certs |-> CertDocs(config, keys),
     realms |-> [r \in DOMAIN config.realms |-> RealmDoc(config.realms[r], keys, accounts)],
     sites |-> config.sites,
     accounts |-> IF accounts THEN config.accounts ELSE Empty]

-----------------------------------------------------------------------------
(* The plan: why a file cannot be applied, and what applying it would change.   *)

Names(site) == {site.host} \cup site.aliases

\* Certificates a site can serve with afterwards.
Usable(doc, db) ==
    {Management} \cup {c \in DOMAIN doc.certs : doc.certs[c].key \/ c \in DOMAIN db.certs}

\* check: every reason the file cannot be applied, by its section.
PoliciesRefused(doc) ==
    \E p \in DOMAIN doc.policies :
        \/ ~(doc.policies[p].sets \subseteq offered)
        \/ DOMAIN doc.policies[p].rules \cap HeldRules(doc.policies[p].sets) # {}

RealmsRefused(doc) ==
    \E r \in DOMAIN doc.realms : doc.realms[r].kind = "ldap" /\ DOMAIN doc.realms[r].users # {}

SitesRefused(doc, db) ==
    \E s \in DOMAIN doc.sites :
        \/ doc.sites[s].policy \notin DOMAIN doc.policies \cup {None}
        \/ doc.sites[s].cert \notin Usable(doc, db) \cup {None}
        \/ doc.sites[s].realm \notin DOMAIN doc.realms \cup {None}
        \/ \E t \in DOMAIN doc.sites \ {s} : Names(doc.sites[s]) \cap Names(doc.sites[t]) # {}

Blocked(doc, db) ==
    \/ ~(DOMAIN doc.settings \subseteq Exported)
    \/ PoliciesRefused(doc) \/ RealmsRefused(doc) \/ SitesRefused(doc, db)

\* by_name: the names made, those taken away, and of the others those that differ.
by_name(was, now, differ) ==
    (DOMAIN now \ DOMAIN was) \cup (DOMAIN was \ DOMAIN now)
        \cup (DOMAIN now \cap DOMAIN was \cap differ)

Unlike(was, now) == by_name(was, now, {n \in DOMAIN now \cap DOMAIN was : was[n] # now[n]})

diff_settings(db, doc) ==
    Unlike(Only(db.settings, Exported), Only(doc.settings, Exported))

diff_policies(db, doc) ==
    Unlike([p \in DOMAIN db.policies |-> PolicyDoc(db.policies[p])], doc.policies)

\* A certificate the file has no key for is kept as it is, or not made.
diff_certificates(db, doc) ==
    LET carried == {c \in DOMAIN doc.certs : doc.certs[c].key}
    IN  {c \in carried : c \notin DOMAIN db.certs \/ db.certs[c] # doc.certs[c].pem}
            \cup {c \in DOMAIN db.certs : Travels(db, c) /\ c \notin DOMAIN doc.certs \cup {Management}}

\* Wrong on purpose: the sign-in of a site is not compared.
diff_sites_NoSignIn(db, doc) ==
    LET open(sites) == [s \in DOMAIN sites |-> [sites[s] EXCEPT !.realm = None]]
    IN  Unlike(open(db.sites), open(doc.sites))

diff_sites(db, doc) == Unlike(db.sites, doc.sites)

\* A password cannot be compared: one in the file is told, of a realm that
\* changes.  Accounts only here are kept, and are no change.
diff_realms(db, doc) ==
    LET differs(a, b) ==
            \/ a.kind # b.kind \/ b.password # None
            \/ \E u \in DOMAIN b.users :
                  \/ u \notin DOMAIN a.users
                  \/ <<a.users[u].hash, a.users[u].on>> # <<b.users[u].hash, b.users[u].on>>
    IN  by_name(db.realms, doc.realms,
                {r \in DOMAIN db.realms \cap DOMAIN doc.realms : differs(db.realms[r], doc.realms[r])})

\* One's own account that the file would disable or demote is told to be kept.
diff_accounts(db, doc, importer) ==
    {u \in DOMAIN doc.accounts :
        \/ u \notin DOMAIN db.accounts
        \/ /\ ~(u = importer /\ (doc.accounts[u].role # "admin" \/ ~doc.accounts[u].on))
           /\ \/ <<db.accounts[u].role, db.accounts[u].on, db.accounts[u].hash>>
                   # <<doc.accounts[u].role, doc.accounts[u].on, doc.accounts[u].hash>>}

-----------------------------------------------------------------------------
(* Applying it, section by section. *)

put_settings(db, doc) ==
    [db EXCEPT !.settings = Over(Only(doc.settings, Exported), Without(db.settings, Exported))]

\* A set is installed as the channel offers it, and only then are the rules of the
\* file switched off; what was recorded to be put back is gone.
PolicyOf(p) ==
    [sets |-> p.sets,
     rules |-> Over([n \in HeldRules(p.sets) |-> n \notin p.off], p.rules),
     exclusions |-> p.exclusions \cap (HeldRules(p.sets) \cup DOMAIN p.rules),
     previous |-> FALSE]

\* A set that cannot be installed refuses the whole file.
SetWithdrawn(doc) == \E p \in DOMAIN doc.policies : ~(doc.policies[p].sets \subseteq offered)

\* Policies the file does not name go, and their sites have none until they are
\* written.
put_policies(db, doc) ==
    [db EXCEPT !.policies = [p \in DOMAIN doc.policies |-> PolicyOf(doc.policies[p])],
               !.sites = [s \in DOMAIN db.sites |->
                            [db.sites[s] EXCEPT !.policy = IF @ \in DOMAIN doc.policies THEN @ ELSE None]]]

put_certs(db, doc) ==
    LET carried == {c \in DOMAIN doc.certs : doc.certs[c].key}
    IN  [db EXCEPT !.certs = Over([c \in carried |-> doc.certs[c].pem], db.certs)]

\* What the sites ask is cleared first: a realm asked for cannot be deleted.
clear_site_auth(db) ==
    [db EXCEPT !.sites = [s \in DOMAIN db.sites |-> [db.sites[s] EXCEPT !.realm = None]]]

\* Accounts of a realm: the file's are written, a changed one loses its sessions,
\* and those only here stay.
Merged(had, users) ==
    Over([u \in DOMAIN users |->
             [hash |-> users[u].hash, on |-> users[u].on,
              epoch |-> IF u \notin DOMAIN had THEN 0
                        ELSE IF had[u].hash # users[u].hash \/ had[u].on # users[u].on THEN had[u].epoch + 1
                        ELSE had[u].epoch]],
         had)

\* A directory's password stays where the file has none, and a directory keeps no
\* accounts.
RealmOf(doc, db, r) ==
    LET had == IF r \in DOMAIN db.realms THEN db.realms[r] ELSE [kind |-> "none", password |-> None, users |-> Empty]
    IN  [kind |-> doc.realms[r].kind,
         password |-> IF doc.realms[r].kind = "local" THEN None
                      ELSE IF doc.realms[r].password # None THEN doc.realms[r].password
                      ELSE had.password,
         users |-> IF doc.realms[r].kind = "local" THEN Merged(had.users, doc.realms[r].users) ELSE Empty]

\* Realms the file does not name go, asked for by no site any more.
put_realms(db, doc) ==
    [clear_site_auth(db) EXCEPT !.realms = [r \in DOMAIN doc.realms |-> RealmOf(doc, db, r)]]

remove_sites(db, doc) == [db EXCEPT !.sites = Only(db.sites, DOMAIN doc.sites)]

\* A name another site still has is refused by the database: two sites that trade
\* names, which the plan does not object to.
NameTaken(db, doc, s) ==
    \E t \in DOMAIN db.sites \ {s} :
        db.sites[t].host = doc.sites[s].host \/ db.sites[t].aliases \cap doc.sites[s].aliases # {}

\* One site: its row, and its names.
put_site(db, doc, s) ==
    LET row == [doc.sites[s] EXCEPT !.policy = IF @ \in DOMAIN db.policies THEN @ ELSE None,
                                    !.cert = IF @ \in DOMAIN db.certs THEN @ ELSE None,
                                    !.realm = IF @ \in DOMAIN db.realms THEN @ ELSE None]
    IN  [db EXCEPT !.sites = [t \in DOMAIN db.sites \cup {s} |-> IF t = s THEN row ELSE db.sites[t]]]

\* Wrong on purpose: the management page's certificate goes with the others.
Unnamed_All(db, doc) == DOMAIN db.certs \ DOMAIN doc.certs

Unnamed(db, doc) == DOMAIN db.certs \ (DOMAIN doc.certs \cup {Management})

remove_certs(db, doc) ==
    [db EXCEPT !.certs = Without(db.certs, Unnamed(db, doc)),
               !.sites = [s \in DOMAIN db.sites |->
                            [db.sites[s] EXCEPT !.cert = IF @ \in Unnamed(db, doc) THEN None ELSE @]]]

\* Wrong on purpose: one's own account is written as any other.
put_account_Own(db, doc, u, importer) == doc.accounts[u]

\* Only the password travels to one's own account.
put_account(db, doc, u, importer) ==
    IF u = importer /\ u \in DOMAIN db.accounts THEN [db.accounts[u] EXCEPT !.hash = doc.accounts[u].hash]
    ELSE doc.accounts[u]

put_accounts(db, doc, importer) ==
    [db EXCEPT !.accounts = Over([u \in DOMAIN doc.accounts |-> put_account(db, doc, u, importer)], db.accounts)]

\* The order of it: the sites are written, in the order of the file, before the
\* certificates it does not name go.
Following ==
    [settings |-> "policies", policies |-> "certificates", certificates |-> "realms", realms |-> "sites",
     sites |-> "unnamed", unnamed |-> "accounts", accounts |-> "checked", checked |-> "stage"]

apply(section, db, doc, importer) ==
    CASE section = "settings" -> put_settings(db, doc)
      [] section = "policies" -> put_policies(db, doc)
      [] section = "certificates" -> put_certs(db, doc)
      [] section = "realms" -> put_realms(db, doc)
      [] section = "sites" -> remove_sites(db, doc)
      [] section = "unnamed" -> remove_certs(db, doc)
      [] section = "accounts" -> put_accounts(db, doc, importer)
      [] section = "checked" -> db

-----------------------------------------------------------------------------
(* The pages of it. *)

\* Held in the place of one held before, which is as good as discarding that.
post_import_upload ==
    /\ candidate = None /\ imports < MaxImports
    /\ candidate' \in Docs
    /\ UNCHANGED <<live, offered, left, copy, path, waiting, last, imports, changes>>

post_import_discard ==
    /\ candidate # None /\ candidate' = None
    /\ UNCHANGED <<live, offered, left, copy, path, waiting, last, imports, changes>>

\* Planned again, and copied: the working file is whoever's copied last.  What is
\* committed between the two, which are one step here, is in the copy and was not
\* planned with.  (Bound:
\* nobody begins another in the second and a half before the restart of theirs.)
post_import_apply(i) ==
    /\ waiting # None => waiting.by # i
    /\ ~UnderWay(i) /\ candidate # None
    /\ imports < MaxImports /\ imports' = imports + 1
    /\ ~Blocked(candidate, live)
    /\ left' = [left EXCEPT ![i] = [at |-> "settings", sites |-> DOMAIN candidate.sites]]
    /\ copy' = [copy EXCEPT ![i] = live] /\ path' = i
    /\ last' = [last EXCEPT ![i] = [doc |-> candidate, before |-> live, done |-> FALSE]]
    /\ UNCHANGED <<live, offered, candidate, waiting, changes>>

\* What the database, or the channel, refuses ends the import: the working file is
\* deleted.
GivesUp(i) ==
    /\ left' = [left EXCEPT ![i] = Idle] /\ copy' = [copy EXCEPT ![i] = None]
    /\ path' = None /\ last' = [last EXCEPT ![i] = None]

GoesOn(i, todo, now) ==
    /\ left' = [left EXCEPT ![i] = todo] /\ copy' = [copy EXCEPT ![i] = now]
    /\ UNCHANGED <<path, last>>

\* A section of the copy this importer has open.
apply_section(i) ==
    /\ left[i].at \in DOMAIN Following
    /\ left[i].at = "unnamed" => left[i].sites = {}
    /\ IF left[i].at = "policies" /\ SetWithdrawn(last[i].doc) THEN GivesUp(i)
       ELSE GoesOn(i, [left[i] EXCEPT !.at = Following[@]], apply(left[i].at, copy[i], last[i].doc, i))
    /\ UNCHANGED <<live, offered, candidate, waiting, imports, changes>>

\* One of its sites.
apply_site(i) ==
    /\ left[i].at = "unnamed"
    /\ \E s \in left[i].sites :
        IF NameTaken(copy[i], last[i].doc, s) THEN GivesUp(i)
        ELSE GoesOn(i, [left[i] EXCEPT !.sites = @ \ {s}], put_site(copy[i], last[i].doc, s))
    /\ UNCHANGED <<live, offered, candidate, waiting, imports, changes>>

\* What is at the working file's path is staged, whosever it is.
stage(i) ==
    /\ left[i].at = "stage"
    /\ left' = [left EXCEPT ![i] = Idle] /\ copy' = [copy EXCEPT ![i] = None]
    /\ IF path = None THEN waiting' = waiting /\ last' = [last EXCEPT ![i] = None]
       ELSE waiting' = [by |-> path, config |-> copy[path]] /\ UNCHANGED last
    /\ path' = None /\ candidate' = IF path = None THEN candidate ELSE None
    /\ UNCHANGED <<live, offered, imports, changes>>

\* The restart ends every import under way, and loads what was staged.
request_restart ==
    /\ waiting # None
    /\ live' = waiting.config /\ waiting' = None
    /\ last' = [i \in Importers |-> IF i = waiting.by /\ last[i] # None THEN [last[i] EXCEPT !.done = TRUE] ELSE None]
    /\ left' = [i \in Importers |-> Idle] /\ copy' = [i \in Importers |-> None]
    /\ UNCHANGED <<offered, candidate, path, imports, changes>>

\* Somebody else changes a site's policy, or an account's password; it is a step
\* of the service's, so what was imported last is no longer what there is.
SomebodyElse ==
    /\ changes < MaxChanges /\ changes' = changes + 1
    /\ \/ \E s \in DOMAIN live.sites, p \in DOMAIN live.policies \cup {None} :
            live.sites[s].policy # p /\ live' = [live EXCEPT !.sites[s].policy = p]
       \/ \E u \in DOMAIN live.accounts :
            live.accounts[u].hash # "changed" /\ live' = [live EXCEPT !.accounts[u].hash = "changed"]
    /\ last' = [i \in Importers |-> IF last[i] # None /\ last[i].done THEN None ELSE last[i]]
    /\ UNCHANGED <<offered, candidate, left, copy, path, waiting, imports>>

\* The channel withdraws a set.
Withdraw ==
    /\ changes < MaxChanges /\ changes' = changes + 1
    /\ \E s \in offered : offered' = offered \ {s}
    /\ UNCHANGED <<live, candidate, left, copy, path, waiting, last, imports>>

ImportSteps(i) == post_import_apply(i) \/ apply_section(i) \/ apply_site(i) \/ stage(i)

ImportNext ==
    \/ post_import_upload \/ post_import_discard \/ request_restart \/ SomebodyElse \/ Withdraw
    \/ \E i \in Importers : ImportSteps(i)

ImportSpec == ImportInit /\ [][ImportNext]_importVars

-----------------------------------------------------------------------------
(* Properties. *)

\* What the file says, whatever was there and in whatever order it is written:
\* its policies, sites, realms and settings and no others; certificates it has a
\* key for, those it names that were here, and the management page's; accounts
\* merged.
IsTheFile(now, doc, before, importer) ==
    /\ Only(now.settings, Exported) = Only(doc.settings, Exported)
    /\ Without(now.settings, Exported) = Without(before.settings, Exported)
    /\ DOMAIN now.policies = DOMAIN doc.policies
    /\ \A p \in DOMAIN doc.policies :
        LET of == HeldRules(doc.policies[p].sets) IN
        /\ now.policies[p].sets = doc.policies[p].sets
        /\ \A n \in of : n \in DOMAIN now.policies[p].rules /\ now.policies[p].rules[n] = (n \notin doc.policies[p].off)
        /\ Without(now.policies[p].rules, of) = doc.policies[p].rules
    /\ now.sites = doc.sites
    /\ DOMAIN now.certs = {c \in DOMAIN doc.certs : doc.certs[c].key}
                            \cup (DOMAIN before.certs \cap (DOMAIN doc.certs \cup {Management}))
    /\ \A c \in DOMAIN now.certs :
        now.certs[c] = IF c \in DOMAIN doc.certs /\ doc.certs[c].key THEN doc.certs[c].pem ELSE before.certs[c]
    /\ DOMAIN now.realms = DOMAIN doc.realms
    /\ \A r \in DOMAIN doc.realms : \A u \in DOMAIN doc.realms[r].users :
        now.realms[r].users[u].hash = doc.realms[r].users[u].hash
    /\ DOMAIN now.accounts = DOMAIN before.accounts \cup DOMAIN doc.accounts
    /\ \A u \in DOMAIN doc.accounts \ {importer} : now.accounts[u] = doc.accounts[u]

\* Once swapped in, this installation matches the file (backup.rs:478, "make this
\* installation match the held file").
ImportedIsTheFile ==
    \A i \in Importers :
        last[i] # None /\ last[i].done => IsTheFile(live, last[i].doc, last[i].before, i)

\* An import never disables or demotes the account that runs it (import.rs:36,
\* "an import must not be able to lock out the person running it").
ImporterStays ==
    [][\A i \in Importers :
          waiting # None /\ waiting.by = i /\ waiting' = None =>
              <<live.accounts[i].role, live.accounts[i].on>> = <<live'.accounts[i].role, live'.accounts[i].on>>]_importVars

\* An account of a realm that comes out of it with another password, or switched,
\* has other sessions (import.rs:889, "A changed password or switch ends that
\* account's sessions").
RealmSessionsEnd ==
    [][\A r \in DOMAIN live.realms \cap DOMAIN live'.realms :
        \A u \in DOMAIN live.realms[r].users \cap DOMAIN live'.realms[r].users :
            LET was == live.realms[r].users[u]
                now == live'.realms[r].users[u]
            IN  was.hash # now.hash \/ was.on # now.on => now.epoch > was.epoch]_importVars

\* What an import changes, its preview told: of settings, certificates, sites and
\* realms, and of accounts but one's own (import.rs:87, "Everything an import
\* would do").
ToldWhatChanges ==
    \A i \in Importers : last[i] # None /\ last[i].done =>
        LET was == last[i].before
            doc == last[i].doc
        IN  /\ Unlike(was.settings, live.settings) \subseteq diff_settings(was, doc)
            /\ Unlike(was.certs, live.certs) \subseteq diff_certificates(was, doc)
            /\ Unlike(was.sites, live.sites) \subseteq diff_sites(was, doc)
            /\ Unlike(was.realms, live.realms) \subseteq diff_realms(was, doc)
            /\ Unlike(was.accounts, live.accounts) \ {i} \subseteq diff_accounts(was, doc, i)

\* The same of its policies ("Everything an import would do", import.rs:87).
PoliciesTold ==
    \A i \in Importers : last[i] # None /\ last[i].done =>
        Unlike(last[i].before.policies, live.policies)
            \subseteq diff_policies(last[i].before, last[i].doc)

\* What is staged is a file applied to its end and checked (backup.rs:500, "The
\* live database is not touched until the copy is whole, checked and swapped in
\* by the restart").
StagedIsWhole ==
    waiting # None /\ last[waiting.by] # None =>
        IsTheFile(waiting.config, last[waiting.by].doc, last[waiting.by].before, waiting.by)
=============================================================================
