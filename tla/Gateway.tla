------------------------------- MODULE Gateway -------------------------------
(* The sign-in gateway: one realm with the accounts its administrators change, *)
(* the session a cookie carries, how a name and password are checked, and how  *)
(* fast they can be guessed.  The steps of a request that use them are Edge's. *)
(*                                                                             *)
(* A session is nothing but its cookie: everything that ends it early is an    *)
(* epoch in the realm or the account that no longer equals the one minted in.  *)
(* A cookie's signature and the site in it are not modelled: there is one site *)
(* and a cookie is one it minted.  bcrypt is equality of passwords.            *)
EXTENDS Integers, Sequences, FiniteSets, SequencesExt, Functions

CONSTANTS
    Users,          \* names of accounts
    Passwords,      \* what can be typed or set as one; "" is none
    NoOne,          \* no account, no session, no identity
    MaxFailures,    \* MAX_FAILURES_PER_ADDRESS
    MaxPerName,     \* MAX_FAILURES_PER_NAME
    Window,         \* how long a failure is counted
    Remembered,     \* BASIC_REMEMBERED
    RefreshAfter,   \* REFRESH_AFTER_SECS
    ClockSkew,      \* CLOCK_SKEW_SECS
    Admins          \* administrators changing the realm

ASSUME GatewayAssumption ==
    /\ "" \notin Passwords /\ NoOne \notin Users
    /\ {MaxFailures, MaxPerName, Window, Remembered} \subseteq Nat \ {0}
    /\ {RefreshAfter, ClockSkew} \subseteq Nat

VARIABLES
    realm,      \* the stored realm: its epoch, its two lifetimes, its accounts
    failures,   \* times of failures, by address and by name
    basic,      \* the credentials remembered: what the cache holds
    cookies,    \* the session cookies minted; with each the password proved for it,
                \* when, and whether it has been said to be ended since
    page,       \* what each administrator's request has read
    gone,       \* history: names of accounts deleted so far
    again       \* history: those of them that an account was added under since

deletions == <<gone, again>>
gatewayVars == <<realm, failures, basic, cookies, page, deletions>>

Account(password) == [password |-> password, enabled |-> TRUE, epoch |-> 0]
Has(r, name) == name \in DOMAIN r.users

\* A realm is local, with accounts of its own, or a directory's, with none.
GatewayInit(local, first, password, session, idle) ==
    /\ realm = [local |-> local, epoch |-> 0, session |-> session, idle |-> idle,
                users |-> [u \in first |-> Account(password)]]
    /\ failures = [addresses |-> <<>>, names |-> <<>>]
    /\ basic = {} /\ cookies = {} /\ gone = {} /\ again = {}
    /\ page = [a \in Admins |-> NoOne]

(********************************* The session ********************************)
\* mint: the epochs are those of the realm and the account as the sign-in read
\* them, before the password was checked.
mint(r, name, user_epoch, issued, now) ==
    [subject |-> name, issued |-> issued, seen |-> now,
     epoch |-> r.epoch, user_epoch |-> user_epoch]

\* Wrong on purpose: the account's epoch is not compared.
honours_NoEpoch(r, c, now) ==
    /\ c.epoch = r.epoch
    /\ r.local => /\ Has(r, c.subject)
                  /\ r.users[c.subject].enabled
    /\ c.issued <= now + ClockSkew /\ c.seen <= now + ClockSkew /\ c.issued <= c.seen
    /\ now < c.issued + r.session /\ now < c.seen + r.idle

\* read: whether the realm, as the site table holds it, still honours a cookie.
honours(r, c, now) ==
    /\ c.epoch = r.epoch
    /\ r.local => /\ Has(r, c.subject)
                  /\ r.users[c.subject].enabled
                  /\ r.users[c.subject].epoch = c.user_epoch
    /\ c.issued <= now + ClockSkew /\ c.seen <= now + ClockSkew /\ c.issued <= c.seen
    /\ now < c.issued + r.session /\ now < c.seen + r.idle

due(c, now) == now - c.seen >= RefreshAfter

\* The epoch a sign-in is minted with: a directory's is always 0.
EpochOf(r, name) == IF r.local THEN r.users[name].epoch ELSE 0

(************************** Checking a name and password **********************)
\* check_password on a local realm: the hash and the switch are those of the
\* table the request holds, however long the check takes.
check_password(r, name, password) ==
    /\ password # ""
    /\ Has(r, name)
    /\ r.users[name].password = password
    /\ r.users[name].enabled

\* check_basic's cache: keyed by the realm's epoch and the credential, and good
\* for as long as the account is the one it was remembered of.
Key(r, name, password) == [epoch |-> r.epoch, name |-> name, password |-> password]

remembers(r, name, password, now) ==
    \E m \in basic : /\ m.key = Key(r, name, password)
                     /\ now < m.until
                     /\ r.local => /\ Has(r, name)
                                   /\ r.users[name].enabled
                                   /\ r.users[name].epoch = m.user_epoch

Forgotten(r, name, password) == {m \in basic : m.key # Key(r, name, password)}

Remember(r, name, password, now) ==
    Forgotten(r, name, password) \cup
        {[key |-> Key(r, name, password), user_epoch |-> EpochOf(r, name),
          until |-> now + Remembered]}

(****************************** How fast to guess *****************************)
Times(counted, key) == IF key \in DOMAIN counted THEN counted[key] ELSE <<>>

InWindow(times, now) == {i \in DOMAIN times : now - times[i] < Window}

\* SlidingCounter::count and SlidingCounter::record: expired times leave the front.
\* Of the counters' cap, MAX_COUNTED (50,000 keys), nothing is modelled: what is
\* said of guesses is said while they are not full.
Counted(counted, key, now) == Cardinality(InWindow(Times(counted, key), now))

AsKept(times, now, keep) ==
    LET expired == {i \in DOMAIN times : \A j \in 1 .. i : now - times[j] >= Window}
        live    == Append(SubSeq(times, Cardinality(expired) + 1, Len(times)), now)
    IN IF Len(live) > keep THEN Tail(live) ELSE live

Noted(counted, key, now, keep) ==
    [k \in DOMAIN counted \cup {key} |->
        IF k = key THEN AsKept(Times(counted, key), now, keep) ELSE counted[k]]

\* Wrong on purpose: the address is held back one failure late.
throttled_Late(name, address, now) ==
    \/ Counted(failures.addresses, address, now) > MaxFailures
    \/ Counted(failures.names, name, now) >= MaxPerName

throttled(name, address, now) ==
    \/ Counted(failures.addresses, address, now) >= MaxFailures
    \/ Counted(failures.names, name, now) >= MaxPerName

\* The counters' own cap, 50,000 keys each, is left out: what is said of the
\* throttle is said while they are not full.
note_failure(name, address, now) ==
    failures' = [addresses |-> Noted(failures.addresses, address, now, MaxFailures),
                 names |-> Noted(failures.names, name, now, MaxPerName)]

note_success(address) ==
    failures' = [failures EXCEPT !.addresses = Restrict(@, DOMAIN @ \ {address})]

(********************************* A directory ********************************)
\* ldap_ask on a directory that answers in time: search, then bind.  A filter
\* that finds nobody or several people signs nobody in; TRUE is signed in.
ldap_ask(cfg, dir, password) ==
    /\ password # ""
    /\ dir.connects
    /\ cfg.bind_dn => dir.binds
    /\ dir.searches
    /\ dir.found = 1
    /\ password = dir.password

\* ldap_probe given a name: its steps in order, each with how it went, up to
\* the first that fails.  The read of the base is the probe's alone.
ldap_probe(cfg, dir, password) ==
    LET all == << <<"connect", dir.connects>>,
                  <<"bind", cfg.bind_dn => dir.binds>>,
                  <<"base", dir.base>>,
                  <<"find", dir.searches /\ dir.found = 1>> >>
               \o (IF password = "" THEN <<>> ELSE << <<"password", password = dir.password>> >>)
        failed == {k \in DOMAIN all : ~all[k][2]}
    IN IF failed = {} THEN all
       ELSE SubSeq(all, 1, CHOOSE k \in failed : \A j \in failed : k <= j)

(************************ The pages that change the realm *********************)
\* A change is also told to the cookies it is said to end: `ended` is what the
\* pages promise, which nothing in the code reads.
Ends(names) ==
    cookies' = {IF c.subject \in names THEN [c EXCEPT !.ended = TRUE] ELSE c : c \in cookies}

Stored(r) == realm' = r /\ UNCHANGED <<failures, basic, page>>

\* post_realm_update: how long a sign-in lasts, for sessions already open too.
RealmUpdate(session, idle) ==
    /\ <<session, idle>> # <<realm.session, realm.idle>>
    /\ Stored([realm EXCEPT !.session = session, !.idle = idle])
    /\ UNCHANGED <<cookies, deletions>>

\* post_realm_sign_out.
RealmSignOut ==
    /\ Stored([realm EXCEPT !.epoch = @ + 1])
    /\ Ends(Users)
    /\ UNCHANGED deletions

\* post_account_add, on a local realm.  The row begins at epoch 0, whoever had
\* the name before.
AccountAdd(name, password) ==
    /\ realm.local /\ ~Has(realm, name)
    /\ Stored([realm EXCEPT !.users = [u \in DOMAIN @ \cup {name} |->
                  IF u = name THEN Account(password) ELSE @[u]]])
    /\ again' = again \cup ({name} \cap gone)
    /\ UNCHANGED <<cookies, gone>>

\* post_account_password: the epoch moves with the password, in one statement.
AccountPassword(name, password) ==
    /\ Has(realm, name) /\ realm.users[name].password # password
    /\ Stored([realm EXCEPT !.users[name].password = password, !.users[name].epoch = @ + 1])
    /\ Ends({name})
    /\ UNCHANGED deletions

\* post_account_toggle reads the switch and writes its opposite, in two
\* statements; the account may be gone by the second.
ToggleRead(a, name) ==
    /\ page[a] = NoOne /\ Has(realm, name)
    /\ page' = [page EXCEPT ![a] = [name |-> name, enabled |-> realm.users[name].enabled]]
    /\ UNCHANGED <<realm, failures, basic, cookies, deletions>>

ToggleWrite(a) ==
    /\ page[a] # NoOne
    /\ realm' = IF Has(realm, page[a].name)
                THEN [realm EXCEPT !.users[page[a].name].enabled = ~page[a].enabled,
                                   !.users[page[a].name].epoch = @ + 1]
                ELSE realm
    /\ IF page[a].enabled THEN Ends({page[a].name}) ELSE UNCHANGED cookies
    /\ page' = [page EXCEPT ![a] = NoOne]
    /\ UNCHANGED <<failures, basic, deletions>>

\* post_account_delete.
AccountDelete(name) ==
    /\ Has(realm, name)
    /\ Stored([realm EXCEPT !.users = Restrict(@, DOMAIN @ \ {name})])
    /\ Ends({name})
    /\ gone' = gone \cup {name}
    /\ UNCHANGED again
=============================================================================
