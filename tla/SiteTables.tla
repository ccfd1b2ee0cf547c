----------------------------- MODULE SiteTables ------------------------------
(* What is read off the rows of `sites`, `site_aliases` and `certs`: the table *)
(* the proxy routes by and the map a TLS handshake is answered from.  Both are *)
(* rebuilt whole from the database and held in memory, so both can be older    *)
(* than the rows.  A site is a record with at least                            *)
(*   host, names (its aliases), tls (its primary HTTPS port or None), cert     *)
(*   (the certificate it is assigned or None), tls_redirect and enabled.       *)
(* The identity of a site is its row id, so the oldest site is the smallest.   *)
EXTENDS Integers, FiniteSets

CONSTANT None   \* no port, no certificate, no realm: SQL's NULL

\* A table with a row put in, in place of one of that key.
With(table, key, row) ==
    [k \in DOMAIN table \cup {key} |-> IF k = key THEN row ELSE table[k]]

NamesOf(site) == {site.host} \cup site.names

-----------------------------------------------------------------------------
(* The proxy's site table. *)

Claimants(sites, h) == {i \in DOMAIN sites : sites[i].enabled /\ h \in NamesOf(sites[i])}

\* The site a hostname is served by: the oldest enabled one that lists it.
load_sites(sites, h) ==
    LET who == Claimants(sites, h)
    IN  IF who = {} THEN None ELSE CHOOSE i \in who : \A j \in who : i <= j

\* The page for a name no enabled site answers for, and some disabled one does.
find_site(sites, h) ==
    IF load_sites(sites, h) # None THEN "site"
    ELSE IF \E i \in DOMAIN sites : ~sites[i].enabled /\ h \in NamesOf(sites[i])
         THEN "maintenance" ELSE "404"

\* The HTTPS port plain visitors of a site are sent to, or None.
https_redirect(site, usable) ==
    IF site.tls_redirect /\ site.cert \in usable THEN site.tls ELSE None

-----------------------------------------------------------------------------
(* tls::reload: one row per name of a site that is enabled, has a primary      *)
(* HTTPS port and a certificate that can be used.  Of two rows of one name the *)
(* later wins, and the aliases come after the hostnames.                       *)
Presents(sites, usable, i) ==
    sites[i].enabled /\ sites[i].tls # None /\ sites[i].cert \in usable

RowsFor(sites, usable, h) ==
    LET shown   == {i \in DOMAIN sites : Presents(sites, usable, i)}
        byAlias == {i \in shown : h \in sites[i].names}
    IN  IF byAlias # {} THEN byAlias ELSE {i \in shown : h = sites[i].host}

reload(sites, usable, hosts) ==
    [h \in {g \in hosts : RowsFor(sites, usable, g) # {}} |->
        sites[CHOOSE i \in RowsFor(sites, usable, h) : TRUE].cert]
=============================================================================
