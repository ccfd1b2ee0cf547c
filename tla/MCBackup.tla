------------------------------ MODULE MCBackup ------------------------------
(* Small instances of the Backup page's two ways to change what runs, restoring a *)
(* snapshot and importing a file: a behaviour is one of them at work.  The         *)
(* configurations and files of an import differ from a base in a section or two.   *)
EXTENDS Restore, Import

VARIABLE part

partVars == <<vars, importVars, part>>

OneSet == ("core" :> {1, 2})

Policy(sets, rules, exclusions) == [sets |-> sets, rules |-> rules, exclusions |-> exclusions, previous |-> TRUE]
Site(host, aliases, policy, cert, realm) ==
    [host |-> host, aliases |-> aliases, policy |-> policy, cert |-> cert, realm |-> realm]
Account(hash, role, on) == [hash |-> hash, role |-> role, on |-> on]
Local(users) == [kind |-> "local", password |-> None, users |-> users]
Ldap(password) == [kind |-> "ldap", password |-> password, users |-> <<>>]
Bob(hash, on) == ("bob" :> [hash |-> hash, on |-> on, epoch |-> 0])

Base ==
    [settings |-> [exported |-> "a", local |-> "mine"],
     policies |-> [p |-> Policy({"core"}, (1 :> TRUE) @@ (2 :> FALSE) @@ (9 :> TRUE), {1, 9})],
     certs |-> [mgmt |-> "m1", web |-> "w1"],
     realms |-> [staff |-> Local(Bob("h1", TRUE))],
     sites |-> [s1 |-> Site("a", {"x"}, "p", "web", "staff"), s2 |-> Site("b", {}, None, None, None)],
     accounts |-> [ana |-> Account("h1", "admin", TRUE), eve |-> Account("h1", "viewer", TRUE)]]

\* What may be otherwise, section by section.
OtherSettings == {[Base EXCEPT !.settings = [local |-> "mine"]], [Base EXCEPT !.settings.exported = "b"]}
OtherPolicies ==
    {[Base EXCEPT !.policies.p = Policy({"core"}, (1 :> FALSE) @@ (2 :> TRUE), {2})],
     [Base EXCEPT !.policies.p = Policy({}, (1 :> TRUE), {1})],
     [Base EXCEPT !.policies = [q |-> Policy({"core"}, (1 :> TRUE) @@ (2 :> TRUE), {})],
                  !.sites.s1.policy = "q"]}
OtherCerts ==
    {[Base EXCEPT !.certs = [mgmt |-> "m2", web |-> "w2"]],
     [Base EXCEPT !.certs = [mgmt |-> "m1"], !.sites.s1.cert = "mgmt"]}
OtherRealms ==
    {[Base EXCEPT !.realms.staff = Local(Bob("h2", TRUE))], [Base EXCEPT !.realms.staff = Local(Bob("h1", FALSE))],
     [Base EXCEPT !.realms.staff = Ldap("secret")],
     [Base EXCEPT !.realms = <<>>, !.sites.s1.realm = None]}
OtherSites ==
    {[Base EXCEPT !.sites.s1.host = "b", !.sites.s2.host = "a"],
     [Base EXCEPT !.sites.s1.aliases = {}, !.sites.s2.aliases = {"x"}],
     [Base EXCEPT !.sites = [s3 |-> Site("a", {}, "p", None, "staff")]],
     [Base EXCEPT !.sites.s1.realm = None]}
OtherAccounts ==
    {[Base EXCEPT !.accounts = [ana |-> Account("h2", "viewer", FALSE)]],
     [Base EXCEPT !.accounts = [ana |-> Account("h2", "admin", TRUE), tom |-> Account("h1", "admin", TRUE)]]}

\* Two of them together.
Both(c, d) ==
    [Base EXCEPT !.settings = IF d.settings # Base.settings THEN d.settings ELSE c.settings,
                 !.policies = IF d.policies # Base.policies THEN d.policies ELSE c.policies,
                 !.certs = IF d.certs # Base.certs THEN d.certs ELSE c.certs,
                 !.realms = IF d.realms # Base.realms THEN d.realms ELSE c.realms,
                 !.sites = IF d.sites # Base.sites THEN d.sites ELSE c.sites,
                 !.accounts = IF d.accounts # Base.accounts THEN d.accounts ELSE c.accounts]

Alone == {Base} \cup OtherSettings \cup OtherPolicies \cup OtherCerts \cup OtherRealms \cup OtherSites \cup OtherAccounts
SomeConfigs == {c \in Alone : "ana" \in DOMAIN c.accounts /\ c.accounts["ana"].role = "admin"}
Pairs == {Both(c, d) : c \in OtherPolicies \cup OtherCerts, d \in OtherRealms \cup OtherSites}
Files(configs) == {build(c, keys, accounts) : c \in configs, keys \in BOOLEAN, accounts \in BOOLEAN}

\* Files of these, and one with a setting that is not its own to carry, and one
\* that holds a rule and its set.
SomeDocs ==
    Files(Alone \cup Pairs)
        \cup {[build(Base, TRUE, TRUE) EXCEPT !.settings = Base.settings],
              [build(Base, TRUE, TRUE) EXCEPT !.policies.p.rules = (1 :> TRUE)]}
TwoAdmins == {[Base EXCEPT !.accounts = @ @@ [tom |-> Account("h1", "admin", TRUE)]]}
TwoDocs == Files({Base}) \cup Files(OtherSettings)

MCInit ==
    /\ part \in {"restore", "import"}
    /\ Init /\ ImportInit
    /\ part = "restore" => live = Base

MCNext ==
    \/ part = "restore" /\ Next /\ UNCHANGED importVars
    \/ part = "import" /\ ImportNext /\ UNCHANGED vars

\* The fairness of a restore, of a behaviour that is one.
MCSpec ==
    /\ MCInit /\ [][MCNext /\ UNCHANGED part]_partVars
    /\ WF_vars(part = "restore" /\ StartUp)
=============================================================================
