--------------------------------- MODULE Edge --------------------------------
(* The proxy in front of one site: connections and their places, and what      *)
(* happens to a request from the read of the site table to its traffic row.    *)
(*                                                                             *)
(* A request is a task.  Each step below is what it does between two awaits,   *)
(* or under one lock: it reads the site once, the lists, the country rules and *)
(* the rules each at a moment of its own, the clock before the lock of the     *)
(* shard it is counted in, and checks a password on the accounts it read at    *)
(* the start.  In between, other requests run and administrators save.         *)
(*                                                                             *)
(* The backends are Upstream, the store of the CAPTCHAs is Challenges, the     *)
(* counting of refusals is SmartProtect: here a block is in force or not, an   *)
(* image was read right or not, and forwarding is one step.                    *)
(*                                                                             *)
(* `scene` is chosen at the start and never changes: which configurations,     *)
(* visits and changes TLC tries together.  It bounds the model and is not the  *)
(* code's.                                                                     *)
EXTENDS Verdicts, RateLimit, Gateway

CONSTANTS
    Reqs,          \* requests under way at a time
    Conns,         \* connections open at a time
    MaxPlaces,     \* MAX_CONNECTIONS_PER_ADDRESS
    FirstReadIn,   \* HEADER_READ_TIMEOUT, in ticks
    QueueSize,     \* QUEUE
    BatchSize,     \* BATCH
    Scenes         \* bound: what is tried, see MCEdge

ASSUME EdgeAssumption ==
    /\ Reqs # {} /\ IsFiniteSet(Reqs) /\ Conns # {} /\ IsFiniteSet(Conns)
    /\ {MaxPlaces, QueueSize, BatchSize} \subseteq Nat \ {0}
    /\ FirstReadIn \in Nat

\* Every peer has an address and everybody types a name.  A directory's realm has
\* no accounts of its own.  A limit's window is not 0, which Limit::of refuses, and
\* a policy is a row with its columns.
ASSUME ScenesAssumption ==
    \A s \in DOMAIN Scenes :
        /\ Nobody \notin Scenes[s].peers
        /\ \A v \in Scenes[s].visits : v.name # NoOne
        /\ Scenes[s].password \in Passwords /\ Scenes[s].accounts \subseteq Users
        /\ Scenes[s].local \in BOOLEAN /\ (~Scenes[s].local => Scenes[s].accounts = {})
        /\ \A c \in Scenes[s].confs \cup Scenes[s].saves :
              /\ c.limit # Nobody => c.limit.window \in Nat \ {0} /\ c.limit.requests \in Nat
              /\ {"mode", "geo", "rules", "exclusions", "threshold", "challenge_threshold"}
                    \subseteq DOMAIN c.policy

VARIABLES
    scene,     \* the name of the scene
    conf,      \* what is stored: the site, its policy, its limit, the trusted proxies
    directory, \* the directory of a realm that is one
    clock,     \* ticks since the service started
    conns,     \* the connections: their place, when they came, what was read
    held,      \* the table of places, by address
    reqs,      \* the requests under way
    tallies,   \* the shard of the rate limit
    queue,     \* rows waiting for the writer
    batch,     \* rows the writer has taken
    written,   \* rows in the table
    dropped,   \* the counter of rows that were not written
    made,      \* rows requests have handed over
    counted,   \* by client, when its requests were counted against the limit
    told,      \* by client, the refusal it was last given, while it sends nothing
    last,      \* how the request counted last came out
    guesses,   \* by address, when wrong passwords were checked since a right one
    left       \* what the scene still allows

traffic == <<queue, batch, written, dropped, made>>
limits == <<tallies, counted, told, last>>
places == <<conns, held>>
vars == <<scene, conf, directory, clock, places, reqs, limits, traffic, guesses, left, gatewayVars>>

Here == Scenes[scene]
Spend(what) == left[what] > 0 /\ left' = [left EXCEPT ![what] = @ - 1]
Idle == [at |-> "idle"]

Init ==
    /\ scene \in DOMAIN Scenes
    /\ conf \in Here.confs
    /\ directory \in Here.directories
    /\ clock = 0
    /\ conns = [c \in Conns |-> Idle] /\ held = <<>>
    /\ reqs = [r \in Reqs |-> Idle]
    /\ tallies = <<>> /\ counted = <<>> /\ told = <<>>
    /\ last = [over |-> FALSE, earned |-> 0, limit |-> 0, waited |-> FALSE]
    /\ queue = <<>> /\ batch = <<>> /\ written = <<>> /\ dropped = 0 /\ made = 0
    /\ guesses = <<>>
    /\ left = Here.left
    /\ GatewayInit(Here.local, Here.accounts, Here.password, Here.session, Here.idle)

(*************************** Connections and places ***************************)
trusts(ip) == \E b \in conf.trusted : ip \in b[1] .. b[2]

\* Slot::take, before anything else is done for a connection.  A trusted proxy
\* takes no place; an address that holds as many as it may is refused.
Accept(c, peer) ==
    /\ conns[c].at = "idle" /\ Spend("connects")
    /\ LET counts == ~trusts(peer)
           has == IF peer \in DOMAIN held THEN held[peer] ELSE 0
       IN IF counts /\ has >= MaxPlaces
          THEN UNCHANGED places
          ELSE /\ conns' = [conns EXCEPT ![c] =
                      [at |-> "opened", peer |-> peer, since |-> clock,
                       place |-> IF counts THEN peer ELSE Nobody]]
               /\ held' = IF counts
                          THEN [p \in DOMAIN held \cup {peer} |->
                                  IF p = peer THEN has + 1 ELSE held[p]]
                          ELSE held
    /\ UNCHANGED <<scene, conf, directory, clock, reqs, limits, traffic, guesses, gatewayVars>>

\* Drop for Slot: the place taken is the one given back, whoever is trusted now.
GiveBack(place) ==
    held' = CASE place = Nobody -> held
              [] OTHER -> IF place \notin DOMAIN held THEN held
                          ELSE IF held[place] <= 1 THEN Restrict(held, DOMAIN held \ {place})
                          ELSE [held EXCEPT ![place] = @ - 1]

Close(c) ==
    /\ conns' = [conns EXCEPT ![c] = Idle]
    /\ GiveBack(conns[c].place)
    /\ UNCHANGED <<scene, conf, directory, clock, reqs, limits, traffic, guesses, left, gatewayVars>>

\* FirstRead: the first bytes arrive and are not those of HTTP/2.
FirstBytes(c) ==
    /\ conns[c].at = "opened"
    /\ conns' = [conns EXCEPT ![c].at = "reading"]
    /\ UNCHANGED <<scene, conf, directory, clock, held, reqs, limits, traffic, guesses, left,
                   gatewayVars>>

\* The first bytes are HTTP/2's, or none came in time.
OpenedAsHttp2(c) == conns[c].at = "opened" /\ Close(c)

NothingSent(c) == conns[c].at = "opened" /\ clock - conns[c].since >= FirstReadIn /\ Close(c)

\* Either side ends the connection, at any point.
Ended(c) == conns[c].at # "idle" /\ Close(c)

\* Wrong on purpose: a row there is no room for takes the oldest one's place.
record_row_Displaces ==
    /\ made' = made + 1
    /\ queue' = Append(IF Len(queue) < QueueSize THEN queue ELSE Tail(queue), made + 1)
    /\ UNCHANGED <<batch, written, dropped>>

(****************************** The traffic rows ******************************)
\* TrafficWriter::record: never waits; a row there is no room for is counted.
record_row ==
    /\ made' = made + 1
    /\ IF Len(queue) < QueueSize
       THEN queue' = Append(queue, made + 1) /\ UNCHANGED dropped
       ELSE dropped' = dropped + 1 /\ UNCHANGED queue
    /\ UNCHANGED <<batch, written>>

\* recv_many: what has queued, up to a batch.
TakeBatch ==
    /\ Here.writer   \* bound: the scenes about rows
    /\ batch = <<>> /\ queue # <<>>
    /\ LET n == Min({Len(queue), BatchSize})
       IN batch' = SubSeq(queue, 1, n) /\ queue' = SubSeq(queue, n + 1, Len(queue))
    /\ UNCHANGED <<scene, conf, directory, clock, places, reqs, limits, written, dropped, made,
                   guesses, left, gatewayVars>>

\* insert_rows: one transaction, all of the batch or none of it.
InsertRows ==
    /\ batch # <<>>
    /\ \/ /\ written' = written \o batch
          /\ UNCHANGED <<dropped, left>>
       \/ /\ Spend("failures")
          /\ dropped' = dropped + Len(batch)
          /\ UNCHANGED written
    /\ batch' = <<>>
    /\ UNCHANGED <<scene, conf, directory, clock, places, reqs, limits, queue, made, guesses,
                   gatewayVars>>

(************************** A request, step by step ***************************)
\* forwarded::resolve: the client is the peer, unless the peer is trusted and
\* says who is: the last of the addresses it names that is not trusted itself.
resolve(peer, hops) ==
    LET others == {k \in DOMAIN hops : ~trusts(hops[k])}
    IN IF ~trusts(peer) \/ hops = <<>> THEN peer
       ELSE IF others = {} THEN hops[1] ELSE hops[Max(others)]

\* client_used_https.
client_used_https(v) == v.tls \/ (trusts(v.peer) /\ v.says_https)

Moves(r, to) == reqs' = [reqs EXCEPT ![r] = to]

\* What is known of a request, or a visit, and more; and the request goes on.
Knowing(q, more) ==
    [f \in DOMAIN q \cup DOMAIN more |-> IF f \in DOMAIN more THEN more[f] ELSE q[f]]
GoesOn(r, q, at, more) == Moves(r, [Knowing(q, more) EXCEPT !.at = at])

\* Something is counted of u now.
OneMoreTime(times, u) ==
    [v \in DOMAIN times \cup {u} |-> IF v = u THEN Append(Times(times, u), clock) ELSE times[v]]

Quiet == UNCHANGED <<scene, conf, directory, clock, places>>

\* The request ends: with its row, or without one.
EndsWithRow(r) == Moves(r, Idle) /\ record_row
EndsUnrecorded(r) == Moves(r, Idle) /\ UNCHANGED traffic

\* Steps 1 to 4, where one of them answers: no host to route by, a token of the
\* certificate authority, no site or one switched off, the way to HTTPS.
AnsweredFirst(v) ==
    \/ v.host = Nobody
    \/ v.token /\ ~v.tls
    \/ v.host # "site" \/ conf.state # "enabled"
    \/ conf.redirect /\ ~client_used_https(v)

TurnedAway(v) ==
    /\ Spend("requests") /\ AnsweredFirst(v)
    /\ Quiet /\ UNCHANGED <<reqs, limits, traffic, guesses, gatewayVars>>

\* find_site and Incoming::take: the site with what it asks of its visitors is
\* read once, and is this request's whatever is saved while it runs.
Take(r, v) ==
    /\ reqs[r].at = "idle" /\ Spend("requests") /\ ~AnsweredFirst(v)
    /\ \E c \in {NoOne} \cup (IF v.brings THEN cookies ELSE {}) :
         Moves(r, [at |-> "lists", visit |-> v, cookie |-> c,
                   client |-> resolve(v.peer, v.hops), https |-> client_used_https(v),
                   site |-> [mode |-> conf.policy.mode, smart |-> conf.policy.smart,
                             limit |-> conf.limit, auth |-> conf.auth, realm |-> realm]])
    /\ Quiet /\ UNCHANGED <<limits, traffic, guesses, gatewayVars>>

\* Step 6: the lists; Smart Protect; and the clock, read for the count.
\* An allowed address and a trusted proxy are neither blocked nor counted.
Lists(r) ==
    /\ reqs[r].at = "lists"
    /\ LET q == reqs[r]
           listed == ListCheck(q.site, conf.policy, q.client)
           watching == q.site.mode = "DetectionOnly"
           apart == listed = "Allowed" \/ trusts(q.client)
           blocked == /\ q.site.smart /\ q.site.mode \notin {Nobody, "Off"}
                      /\ ~apart /\ q.visit.blocked
           more == [listed |-> listed, watched |-> blocked, reading |-> clock, count |-> Nobody,
                    policy |-> conf.policy]
       IN IF ~watching /\ (list_verdict(listed) = "WouldBlock" \/ blocked)
          THEN EndsWithRow(r)
          ELSE /\ GoesOn(r, q, IF apart \/ q.site.limit = Nobody THEN "body" ELSE "count", more)
               /\ UNCHANGED traffic
    /\ Quiet /\ UNCHANGED <<limits, guesses, left, gatewayVars>>

\* rate_limited, before the body for a limit that blocks and after it for one
\* that challenges.
rate_limited(q, count, page_load, cleared, action) ==
    LET limit == q.site.limit
    IN CASE limit = Nobody -> Nobody
         [] OTHER -> IF limit.watching \/ limit.action # action THEN Nobody
                     ELSE decision(limit, count, page_load, cleared)

\* What the tables of the model keep of a count, for the two properties of the
\* limit: the requests counted since two windows before this reading, and whether
\* the client had waited as it was told and sent nothing else.
Reckon(u, q, count) ==
    LET limit == q.site.limit
        two == {i \in DOMAIN counted'[u] : counted'[u][i] > q.reading - 2 * limit.window}
        mine == u \in DOMAIN told
        waited == mine /\ told[u].limit = limit /\ q.reading >= told[u].until
        refused == rate_limited(q, count, q.visit.page_load, FALSE, "block") = "Refuse"
        wait == [limit |-> limit, until |->
                    q.reading + Second * retry_after(count, limit.requests)]
        silent == Restrict(told, DOMAIN told \ {u})
    IN /\ last' = [over |-> over(count, limit.requests), earned |-> Cardinality(two),
                   limit |-> limit.requests, waited |-> waited]
       /\ told' = IF refused /\ count.tally.slot = q.reading \div limit.window
                  THEN (u :> wait) @@ silent ELSE silent

\* RateCheck::of: counted under the lock of the shard, at the reading made
\* before it; a limit that blocks answers at once.
Count(r) ==
    /\ reqs[r].at = "count"
    /\ LET q == reqs[r]
           u == q.client
           after == count_at(tallies, u, q.reading, q.site.limit.window)
           count == CountOf(after[u], q.reading)
       IN /\ tallies' = after
          /\ counted' = OneMoreTime(counted, u)
          /\ Reckon(u, q, count)
          /\ IF rate_limited(q, count, q.visit.page_load, FALSE, "block") = "Refuse"
             THEN EndsWithRow(r)
             ELSE /\ GoesOn(r, q, "body", [count |-> count])
                  /\ UNCHANGED traffic
    /\ Quiet /\ UNCHANGED <<guesses, left, gatewayVars>>

\* Steps 7 and 8.  A body that fails or stops arriving, and an answer to a
\* CAPTCHA, end the request with no row; the session is read after it, on the
\* realm the request holds, and over HTTPS only.
Body(r) ==
    /\ reqs[r].at = "body"
    /\ LET q == reqs[r]
           session == CASE q.cookie = NoOne \/ ~q.site.auth.asks \/ ~q.https -> NoOne
                        [] OTHER -> IF honours(q.site.realm, q.cookie, clock)
                                    THEN q.cookie ELSE NoOne
           cleared == session # NoOne \/ q.visit.cleared
       IN IF q.visit.body \in {"broken", "stalled"} \/ q.visit.kind = "verify"
          THEN EndsUnrecorded(r)
          ELSE IF rate_limited(q, q.count, q.visit.page_load, cleared, "challenge") # Nobody
          THEN EndsWithRow(r)
          ELSE /\ GoesOn(r, q, "countries",
                         [session |-> session, cleared |-> cleared, moment |-> clock])
               /\ UNCHANGED traffic
    /\ Quiet /\ UNCHANGED <<limits, guesses, left, gatewayVars>>

\* Step 9: the country rules and the rules, each from its own cache.
Countries(r) ==
    /\ reqs[r].at = "countries"
    /\ LET q == reqs[r]
       IN GoesOn(r, q, "rules",
                 [geo |-> geo_inspect(conf.policy.mode, conf.policy.geo, q.visit.country),
                  one |-> conf.policy = q.policy /\ conf.policy.mode = q.site.mode])
    /\ Quiet /\ UNCHANGED <<limits, traffic, guesses, left, gatewayVars>>

Rules(r) ==
    /\ reqs[r].at = "rules"
    /\ LET q == reqs[r]
           waf == waf_inspect(conf.policy, Knowing(q.visit, [client |-> q.client]))
       IN GoesOn(r, q, "judged",
                 [verdict |-> judge(q.site, q.visit, q.listed, q.watched, q.count,
                                    q.cleared, q.geo, waf),
                  one |-> q.one /\ conf.policy = q.policy])
    /\ Quiet /\ UNCHANGED <<limits, traffic, guesses, left, gatewayVars>>

\* SiteAuth::needs_sign_in: in any reading a server may make of the path.
needs_sign_in(auth, readings) ==
    \E path \in readings : /\ auth.protect = {} \/ \E p \in auth.protect : IsPrefix(p, path)
                           /\ ~\E b \in auth.bypass : IsPrefix(b, path)

Through(r, q, name, by, proved) ==
    GoesOn(r, q, "forward", [named |-> name, by |-> by, proved |-> proved])

\* The cookies a step leaves: with what was proved for them, by when, and
\* whether what they stand on has been ended already.
Minted(c, proved, first, ended) ==
    cookies' = cookies \cup {Knowing(c, [proved |-> proved, first |-> first, ended |-> ended])}

\* The password is checked on a thread of its own, or by the directory.
Asks(r, q, name, password, by) ==
    GoesOn(r, q, "checking", [name |-> name, password |-> password, by |-> by, asked |-> clock])

\* sign_in, up to the check: what is refused before the password is looked at.
SignInRefused(q) ==
    \/ ~q.https \/ q.visit.body # "whole" \/ q.visit.elsewhere
    \/ throttled(q.visit.name, q.client, clock)
    \/ q.site.auth.captcha /\ ~q.visit.code_right

SignIn(r, q) ==
    /\ IF SignInRefused(q) THEN EndsWithRow(r)
       ELSE Asks(r, q, q.visit.name, q.visit.password, "form") /\ UNCHANGED traffic
    /\ UNCHANGED <<basic, cookies, failures, guesses>>

Forgiven(client) ==
    note_success(client) /\ guesses' = Restrict(guesses, DOMAIN guesses \ {client})

\* HTTP Basic: the throttle, then what is remembered, then the check.
Basic(r, q) ==
    LET v == q.visit r0 == q.site.realm
    IN IF throttled(v.name, q.client, clock)
       THEN EndsWithRow(r) /\ UNCHANGED <<basic, failures, guesses>>
       ELSE /\ UNCHANGED traffic
            /\ IF remembers(r0, v.name, v.password, clock)
               THEN /\ Through(r, q, v.name, "basic", v.password)
                    /\ Forgiven(q.client)
                    /\ UNCHANGED basic
               ELSE /\ Asks(r, q, v.name, v.password, "basic")
                    /\ basic' = Forgotten(r0, v.name, v.password)
                    /\ UNCHANGED <<failures, guesses>>

\* gate: signing out, the form and the sign-in are answered here; whoever is
\* signed in is named, the cookie renewed when it is due; then whoever may pass
\* unnamed; then Basic where it is accepted; and the form for everybody else.
Gate(r, q) ==
    IF q.visit.kind = "login" THEN SignIn(r, q)
    ELSE IF q.visit.kind \in {"logout", "form"}
    THEN EndsWithRow(r) /\ UNCHANGED <<basic, cookies, failures, guesses>>
    ELSE IF q.session # NoOne
    THEN /\ Through(r, q, q.session.subject, "session", q.session.proved)
         /\ IF due(q.session, q.moment)
            THEN Minted(mint(q.site.realm, q.session.subject, q.session.user_epoch,
                             q.session.issued, clock),
                        q.session.proved, q.session.first, q.session \notin cookies)
            ELSE UNCHANGED cookies
         /\ UNCHANGED <<traffic, basic, failures, guesses>>
    ELSE IF ~needs_sign_in(q.site.auth, q.visit.readings)
    THEN Through(r, q, NoOne, "nobody", NoOne) /\ UNCHANGED <<traffic, basic, cookies, failures, guesses>>
    ELSE IF q.https /\ q.site.auth.basic /\ q.visit.kind = "basic"
    THEN Basic(r, q) /\ UNCHANGED cookies
    ELSE EndsWithRow(r) /\ UNCHANGED <<basic, cookies, failures, guesses>>

\* Steps 9 to 11 with a verdict: refused, challenged unless the visitor has
\* answered one, or on to the gateway and the backend.
Answer(r) ==
    /\ reqs[r].at = "judged"
    /\ LET q == reqs[r]
       IN IF q.verdict.is = "Block" \/ (q.verdict.is = "Challenge" /\ ~q.cleared)
          THEN EndsWithRow(r) /\ UNCHANGED <<basic, cookies, failures, guesses>>
          ELSE IF q.site.auth.asks THEN Gate(r, q)
          ELSE /\ Through(r, q, NoOne, "nobody", NoOne)
               /\ UNCHANGED <<traffic, basic, cookies, failures, guesses>>
    /\ Quiet /\ UNCHANGED <<limits, left, realm, page, deletions>>

\* check_password has come back.  Right: the failures of the address are
\* forgotten, and a session is minted or the credential remembered.  Wrong, or
\* a directory that could not be asked: one more failure.
Checked(r) ==
    /\ reqs[r].at = "checking"
    /\ LET q == reqs[r]
           home == q.site.realm
           right == IF home.local THEN check_password(home, q.name, q.password)
                    ELSE q.password # "" /\ ldap_ask(Here.cfg, directory, q.password)
           stands == /\ realm.epoch = home.epoch
                     /\ home.local => check_password(realm, q.name, q.password)
       IN \E good \in {right, right /\ home.local} :
          IF ~good
          THEN /\ note_failure(q.name, q.client, clock)
               /\ guesses' = OneMoreTime(guesses, q.client)
               /\ EndsWithRow(r)
               /\ UNCHANGED <<basic, cookies>>
          ELSE /\ Forgiven(q.client)
               /\ \/ /\ q.by = "form"
                     /\ Minted(mint(home, q.name, EpochOf(home, q.name), clock, clock),
                               q.password, clock, ~stands)
                     /\ EndsWithRow(r)
                     /\ UNCHANGED basic
                  \/ /\ q.by = "basic"
                     /\ basic' = Remember(home, q.name, q.password, q.asked)
                     /\ Through(r, q, q.name, "basic", q.password)
                     /\ UNCHANGED <<traffic, cookies>>
    /\ Quiet /\ UNCHANGED <<limits, left, realm, page, deletions>>

\* forward: whatever the backend answers, the request is recorded.
Forward(r) ==
    /\ reqs[r].at = "forward"
    /\ EndsWithRow(r)
    /\ Quiet /\ UNCHANGED <<limits, guesses, left, gatewayVars>>

(************************************ Next ************************************)
\* A page saves: the site, its policy, its limit or the trusted proxies.
Save ==
    /\ Spend("saves")
    /\ conf' \in Here.saves \ {conf}
    /\ UNCHANGED <<scene, directory, clock, places, reqs, limits, traffic, guesses, gatewayVars>>

Around == UNCHANGED <<scene, conf, directory, clock, places, reqs, limits, traffic, guesses>>

AdminPages ==
    /\ Around
    /\ \/ /\ Spend("acts")
          /\ \/ \E s \in Here.lifetimes : RealmUpdate(s[1], s[2])
             \/ RealmSignOut
             \/ \E u \in Users, w \in Passwords : AccountAdd(u, w) \/ AccountPassword(u, w)
             \/ \E u \in Users : AccountDelete(u)
             \/ \E a \in Admins, u \in Users : ToggleRead(a, u)
       \/ \E a \in Admins : ToggleWrite(a) /\ UNCHANGED left

Tick ==
    /\ Spend("ticks")
    /\ clock' = clock + 1
    /\ UNCHANGED <<scene, conf, directory, places, reqs, limits, traffic, guesses, gatewayVars>>

Connections ==
    \/ \E c \in Conns, peer \in Here.peers : Accept(c, peer)
    \/ \E c \in Conns : FirstBytes(c) \/ OpenedAsHttp2(c) \/ NothingSent(c) \/ Ended(c)

Visits == \E v \in Here.visits : TurnedAway(v) \/ \E r \in Reqs : Take(r, v)

\* Bound: the steps of a request that a scene puts no other step in front of.
Hurried == {r \in Reqs : reqs[r].at \in Here.hurried}

Requests ==
    \E r \in IF Hurried = {} THEN Reqs ELSE Hurried :
        \/ Lists(r) \/ Count(r) \/ Body(r) \/ Countries(r) \/ Rules(r)
        \/ Answer(r) \/ Checked(r) \/ Forward(r)

Others == Connections \/ Visits \/ TakeBatch \/ InsertRows \/ Save \/ AdminPages \/ Tick

Next == Requests \/ (Hurried = {} /\ Others)

Spec == Init /\ [][Next]_vars

(********************************* Properties *********************************)
\* A connection's place is what is given back when it ends, so an address holds
\* as many places as it has open connections that took one, and never more than
\* it may (slow_clients.rs:132): "A connection's place is taken when it is
\* accepted", whoever is made a trusted proxy while it is open.
PlacesHeld ==
    \A p \in DOMAIN held \cup {conns[c].peer : c \in {c \in Conns : conns[c].at # "idle"}} :
        LET open == {c \in Conns : conns[c].at # "idle" /\ conns[c].place = p}
            has == IF p \in DOMAIN held THEN held[p] ELSE 0
        IN has = Cardinality(open) /\ has <= MaxPlaces

\* Every row a request hands over is waiting, taken, written or counted as
\* dropped, in the order they were handed over, whatever fails
\* (modules/traffic.rs:193: "a full queue drops the row and counts it").
RowsAccounted ==
    LET kept == written \o batch \o queue
    IN /\ made = Len(kept) + dropped
       /\ \A i, j \in DOMAIN kept : i < j => kept[i] < kept[j]
       /\ \A i \in DOMAIN kept : kept[i] \in 1 .. made

\* A client is over its limit only if it has sent more requests than the limit
\* within the last two windows: the estimate, the windows nothing was sent in
\* and the readings counted out of order never refuse one that has not
\* (rate_limit.rs:11, "the last window's in proportion").
OverIsEarned == last.over => last.earned > last.limit

\* A client that waits as its refusal told it, and sends nothing meanwhile, is
\* not over: Retry-After is "how long until one more request fits"
\* (rate_limit.rs:217), across the window's end and rounded to seconds.
RetryAfterIsEnough == last.waited => ~last.over

\* What a policy that only watches, and a limit that does, say of a request is
\* what they would have done: the row's detection is that of the same request
\* met by the same policy switched On and the same limit enforced.  For a
\* visitor who has answered no challenge, and a request whose reads fell on one
\* policy.  "Seeing which rules would have fired is the entire point of running
\* a policy in that mode" (modules/waf.rs:1113).
Refuses(verdict) == CASE verdict.is = "Block" -> "WouldBlock"
                      [] verdict.is = "Challenge" -> "WouldChallenge"
                      [] OTHER -> Nobody

SwitchedOn(q) ==
    LET p == [q.policy EXCEPT !.mode = "On"]
        refused == list_verdict(q.listed) = "WouldBlock" \/ q.watched
        verdict == judge([q.site EXCEPT !.mode = "On", !.limit = Nobody], q.visit, q.listed, FALSE,
                         Nobody, FALSE, geo_inspect(p.mode, p.geo, q.visit.country),
                         waf_inspect(p, Knowing(q.visit, [client |-> q.client])))
    IN IF refused THEN "WouldBlock" ELSE Refuses(verdict)

Enforced(q) ==
    LET limit == q.site.limit
    IN IF limit = Nobody \/ q.count = Nobody THEN Nobody
       ELSE IF ~limit.watching THEN Nobody
       ELSE CASE decision(limit, q.count, q.visit.page_load, FALSE) = "Refuse" -> "WouldBlock"
              [] decision(limit, q.count, q.visit.page_load, FALSE) = "Challenge" -> "WouldChallenge"
              [] OTHER -> Nobody

TrialTellsTheTruth ==
    \A r \in Reqs : LET q == reqs[r] IN
        IF q.at # "judged" THEN TRUE
        ELSE (q.one /\ q.site.mode = "DetectionOnly" /\ ~q.cleared) =>
             /\ q.verdict.is = "Allow"
             /\ LET d == q.verdict.findings.detection
                IN (IF d = "Observed" THEN Nobody ELSE d) = stronger(SwitchedOn(q), Enforced(q))

\* Whoever the application is told a request is from is somebody the account
\* says may be: signed in with the password it has, on an account that is
\* enabled, by a session nothing has ended since and within its lifetime; and a
\* path that needs a sign-in is reached by nobody else (gateway.rs:308,
\* "something an administrator can do and expects to take effect"), whatever
\* was saved while the password was being checked.  Under a name that was
\* deleted and added again the password and the session may be those of the
\* account before: see SignedOutEverywhere.
SessionFollowsAccount ==
    \A r \in Reqs : LET q == reqs[r] IN
        IF q.at # "forward" THEN TRUE
        ELSE IF ~q.site.auth.asks THEN q.named = NoOne
        ELSE IF q.named = NoOne
        THEN \A path \in q.visit.readings : ~needs_sign_in(q.site.auth, {path})
        ELSE /\ q.site.realm.local => Has(q.site.realm, q.named) /\ q.site.realm.users[q.named].enabled
             /\ q.named \notin again =>
                  /\ q.site.realm.local => check_password(q.site.realm, q.named, q.proved)
                  /\ q.by = "session" => ~q.cookie.ended
             /\ q.by = "session" => q.moment < q.cookie.first + q.site.realm.session

\* A session that was said to be ended is honoured no more, under any name: of a
\* deletion the page says "{username} deleted, and signed out everywhere"
\* (routes/realms.rs:652), and gateway.rs:310 names "an account that is gone"
\* among what ends a session.
SignedOutEverywhere ==
    \A r \in Reqs : (reqs[r].at = "forward" /\ reqs[r].by = "session") => ~reqs[r].cookie.ended

\* Passwords are checked no faster than the throttle allows: within one window
\* an address has at most MaxFailures wrong answers since its last right one,
\* and one more for each other request that was let in before they were noted
\* (gateway.rs:745, "ten failures and the address waits").  Of counters that are
\* not full: their cap of 50,000 keys is not modelled.
GuessesBounded ==
    \A a \in DOMAIN guesses :
        Cardinality(InWindow(guesses[a], clock)) <= MaxFailures + Cardinality(Reqs) - 1

\* A test of a directory that ends well with a password promises a sign-in
\* with it: "one step at a time" (gateway.rs:497) the probe does what a sign-in
\* does and reads no worse.
ProbePromisesASignIn ==
    \A w \in Passwords :
        LET steps == ldap_probe(Here.cfg, directory, w)
        IN (Last(steps) = <<"password", TRUE>>) => ldap_ask(Here.cfg, directory, w)
=============================================================================
