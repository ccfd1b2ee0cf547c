------------------------------- MODULE Settings -------------------------------
(***************************************************************************)
(* The settings form (routes/settings.rs): what it checks, the order its   *)
(* rows are stored in (settings.rs), what of them the running program      *)
(* takes into use, and what a start makes of them (main.rs, cert.rs,       *)
(* tls.rs, forwarded.rs, logging.rs).                                      *)
(*                                                                         *)
(* A save is a sequence of statements, of which the first may be stored    *)
(* when a later check refuses the form, and after any of which the request *)
(* may be dropped.  Texts are values that differ, or Bad when the form     *)
(* does not accept them; the contact of the certificate authority is in    *)
(* the module Certificates, and the numbers of Smart Protect in theirs.    *)
(***************************************************************************)
EXTENDS Integers, Sequences, FiniteSets

CONSTANTS
    Admins,      \* those with the form open
    Forms,       \* what they may submit
    FirstForm,   \* what is stored to begin with
    Bad,         \* what the form does not accept
    MaxSaves,    \* bound on the forms submitted and the certificates deleted
    MaxCuts,     \* bound on the requests that end between two statements
    MaxStarts    \* bound on the restarts of the program

Rows == {"retention", "message", "proxies", "kb", "enabled", "host", "port", "cert", "profile",
         "ciphers"}

ASSUME SettingsAssumption ==
    /\ IsFiniteSet(Admins)
    /\ FirstForm \in Forms /\ \A form \in Forms : DOMAIN form = Rows
    /\ {MaxSaves, MaxCuts, MaxStarts} \subseteq Nat

VARIABLES
    stored,   \* the rows of the settings table
    inUse,    \* what the running program goes by
    certs,    \* the certificates stored with both halves
    door,     \* the certificate of the management interface, or "closed"
    desk,     \* what each administrator's request does next
    together, \* whether two requests were ever under way at once (history)
    saves, cuts, starts

settingsVars == <<stored, inUse, certs, door, desk, together, saves, cuts, starts>>

-----------------------------------------------------------------------------

\* parse_suites: a list with a name that is no suite's, or with none, is refused.
parses(ciphers) == ciphers # Bad

\* suites_usable_with: TLS 1.3 and 1.2 use disjoint suites.
suites_usable_with(profile, ciphers) == profile = "modern" => ciphers \in {"1.3", "both"}

\* get_tls_ciphers: what is stored and cannot be read is every suite.
get_tls_ciphers(rows) == IF parses(rows["ciphers"]) THEN rows["ciphers"] ELSE "both"

\* syslog_target: nowhere, unless it is switched on with an address.
syslog_target(rows) ==
    IF rows["enabled"] = "1" /\ rows["host"] # "" THEN <<rows["host"], rows["port"]>> ELSE <<>>

\* What the program takes into use of what is stored.
Meant(rows) == [proxies |-> <<rows["proxies"]>>, kb |-> <<rows["kb"]>>,
                collector |-> syslog_target(rows)]

DefaultCert == "default"

\* resolve_management: the one chosen if it can serve, else the generated one,
\* which is stored if it is not there.
resolve_management == IF stored["cert"] \in certs THEN stored["cert"] ELSE DefaultCert

\* main: a management interface whose configuration cannot be built is a start
\* that ends there (base_builder, "TLS provider supports the configured versions").
Start ==
    LET serves == suites_usable_with(stored["profile"], get_tls_ciphers(stored)) IN
    /\ inUse' = Meant(stored)
    /\ door' = IF serves THEN resolve_management ELSE "closed"
    /\ certs' = certs \cup {resolve_management}

Away == [does |-> "nothing"]

SettingsInit ==
    /\ stored = FirstForm
    /\ inUse = Meant(FirstForm)
    /\ certs = {DefaultCert, "own"}
    /\ door = FirstForm["cert"]
    /\ desk = [a \in Admins |-> Away]
    /\ together = FALSE
    /\ saves = 0 /\ cuts = 0 /\ starts = 0

-----------------------------------------------------------------------------
(* post_settings_update, statement by statement.                             *)

Checking(row) == <<"check", row>>
Setting(row) == <<"set", row>>
Reading(what) == <<"read", what>>
Using(what) == <<"use", what>>

Statements ==
    <<Checking("retention"), Setting("retention"), Setting("message"), Checking("ciphers"), Checking("cert"),
      Checking("proxies"), Setting("proxies"), Reading("proxies"), Using("proxies"),
      Checking("kb"), Setting("kb"), Using("kb"),
      Checking("host"), Setting("enabled"), Setting("host"), Setting("port"), Reading("collector"),
      Using("collector"), Setting("cert"), Setting("profile"), Setting("ciphers")>>

\* What each check looks at: a list of suites is usable with the profile, a
\* certificate is stored, a collector is switched on with an address.
Accepted(row, form) ==
    CASE row = "retention" -> Bad \notin {form["retention"], form["message"]}
      [] row = "ciphers" ->
             parses(form["ciphers"]) /\ suites_usable_with(form["profile"], form["ciphers"])
      [] row = "cert" -> form["cert"] \in certs \cup {DefaultCert}
      [] row = "host" -> /\ Bad \notin {form["host"], form["port"]}
                         /\ ~(form["enabled"] = "1" /\ form["host"] = "")
      [] OTHER -> form[row] # Bad

Then(a, next) == desk' = [desk EXCEPT ![a] = next]

\* The statement an administrator's request is at.
Does(a, kind) == desk[a].does = "save" /\ Statements[desk[a].n][1] = kind
Subject(a) == Statements[desk[a].n][2]

\* The request goes on, or ends.
Goes(a, next) ==
    Then(a, IF next.n = Len(Statements) THEN Away ELSE [next EXCEPT !.n = @ + 1])

Begun(a, next) ==
    /\ door # "closed"
    /\ desk[a] = Away /\ saves < MaxSaves
    /\ saves' = saves + 1
    /\ Then(a, next)
    /\ together' = (together \/ \E b \in Admins \ {a} : desk[b] # Away)

Submit(a, form) ==
    /\ Begun(a, [does |-> "save", n |-> 1, form |-> form, got |-> <<>>])
    /\ UNCHANGED <<stored, inUse, certs, door, cuts, starts>>

\* A form that is refused leaves what was stored before the check.
Checks(a) ==
    /\ Does(a, "check")
    /\ IF Accepted(Subject(a), desk[a].form) THEN Goes(a, desk[a]) ELSE Then(a, Away)
    /\ UNCHANGED <<stored, inUse, certs, door, together, saves, cuts, starts>>

\* settings::set.
Sets(a) ==
    /\ Does(a, "set")
    /\ stored' = [stored EXCEPT ![Subject(a)] = desk[a].form[Subject(a)]]
    /\ Goes(a, desk[a])
    /\ UNCHANGED <<inUse, certs, door, together, saves, cuts, starts>>

\* forwarded::reload and syslog_target read what is stored.
Reads(a) ==
    /\ Does(a, "read")
    /\ Goes(a, [desk[a] EXCEPT !.got = Meant(stored)[Subject(a)]])
    /\ UNCHANGED <<stored, inUse, certs, door, together, saves, cuts, starts>>

\* As if the limit the form gives were left for the next start.
Given_Later(a) == IF Subject(a) = "kb" THEN inUse.kb ELSE desk[a].got

\* set_inspection_limit is given the form's own; the others what was read.
Given(a) == IF Subject(a) = "kb" THEN <<desk[a].form["kb"]>> ELSE desk[a].got

Uses(a) ==
    /\ Does(a, "use")
    /\ inUse' = [inUse EXCEPT ![Subject(a)] = Given(a)]
    /\ Goes(a, desk[a])
    /\ UNCHANGED <<stored, certs, door, together, saves, cuts, starts>>

\* The request is dropped, or a statement fails.
Cut(a) ==
    /\ desk[a] # Away /\ cuts < MaxCuts
    /\ cuts' = cuts + 1
    /\ Then(a, Away)
    /\ UNCHANGED <<stored, inUse, certs, door, together, saves, starts>>

-----------------------------------------------------------------------------
(* post_cert_delete: the one the management interface is served with is not. *)

Deletable(name) == name # stored["cert"]

DeleteAsks(a, name) ==
    /\ name \in certs
    /\ IF Deletable(name)
       THEN Begun(a, [does |-> "delete", name |-> name])
       ELSE Begun(a, Away)
    /\ UNCHANGED <<stored, inUse, certs, door, cuts, starts>>

Deletes(a) ==
    /\ desk[a].does = "delete"
    /\ certs' = certs \ {desk[a].name}
    /\ Then(a, Away)
    /\ UNCHANGED <<stored, inUse, door, together, saves, cuts, starts>>

\* The program stops wherever it is, and starts.
StopAndStart ==
    /\ starts < MaxStarts
    /\ starts' = starts + 1
    /\ cuts' = cuts + Cardinality({a \in Admins : desk[a] # Away})
    /\ Start
    /\ desk' = [a \in Admins |-> Away]
    /\ UNCHANGED <<stored, together, saves>>

SettingsNext ==
    \/ \E a \in Admins :
           \/ \E form \in Forms : Submit(a, form)
           \/ Checks(a) \/ Sets(a) \/ Reads(a) \/ Uses(a) \/ Cut(a)
           \/ \E name \in certs : DeleteAsks(a, name)
           \/ Deletes(a)
    \/ StopAndStart

SettingsSpec == SettingsInit /\ [][SettingsNext]_settingsVars

-----------------------------------------------------------------------------
(* Properties.                                                               *)

Settled == \A a \in Admins : desk[a] = Away

\* When nobody is saving, the program goes by what is stored, whether the last
\* form was accepted or refused on the way: "a change takes effect without a
\* restart" (forwarded.rs:145), "applied to the running proxy" and "to the running
\* logger" (settings.rs:346, 398), as long as no two saves ran at once and none
\* was cut short.
InUseAsStored == Settled /\ ~together /\ cuts = 0 => inUse = Meant(stored)

\* "Deleting it leaves the GUI running on a certificate that no longer exists
\* anywhere" (certs.rs:193-194): a certificate of somebody's own that is chosen for
\* the management interface is there when it starts, wherever a save was cut short.
\* The generated one is made again when it is chosen and is not there.
DoorIsKept == ~together /\ stored["cert"] # DefaultCert => stored["cert"] \in certs

\* What is stored can serve: a list of suites that cannot be negotiated is never
\* left in the table by a save that ran by itself and to its end.
WholeSavesServe ==
    Settled /\ ~together /\ cuts = 0 =>
        suites_usable_with(stored["profile"], stored["ciphers"])

\* "Only fails when the provider offers nothing usable for the versions asked
\* for, which the settings form rejects before it can be stored"
\* (tls.rs:247-248): every start opens the management interface.
EveryStartOpens == door # "closed"

\* "Ciphers are validated before anything is written, and a bad list is refused
\* outright" (settings.rs:258-259): nothing of such a form is stored.
BadListStoresNothing ==
    [][\A a \in Admins :
           Does(a, "set") /\ desk'[a] # desk[a] =>
               /\ parses(desk[a].form["ciphers"])
               /\ suites_usable_with(desk[a].form["profile"], desk[a].form["ciphers"])]_settingsVars
=============================================================================
