-------------------------------- MODULE MCEdge -------------------------------
(* The scenes in which the proxy is tried.  Each lets a few things happen      *)
(* together: what is stored at first and what is saved later, who visits, and  *)
(* how often.  The state space is the sum of the scenes and not their product. *)
EXTENDS Edge

\* Model bound: addresses 0 .. 3; 3 is the load balancer.
Balancer == <<3, 3>>

NoPolicy ==
    [mode |-> Nobody, smart |-> FALSE, rows |-> {}, choices |-> {}, muted |-> {}, loaded |-> <<>>,
     geo |-> [mode |-> "off", own |-> {}, all_mode |-> "off", all |-> {}],
     rules |-> <<>>, exclusions |-> {}, threshold |-> 10, challenge_threshold |-> 0]

Open == [asks |-> FALSE, protect |-> {}, bypass |-> {}, basic |-> FALSE, captcha |-> FALSE]

Plain == [state |-> "enabled", redirect |-> FALSE, policy |-> NoPolicy, limit |-> Nobody,
          auth |-> Open, trusted |-> {Balancer}]

From(peer) ==
    [peer |-> peer, hops |-> <<>>, host |-> "site", token |-> FALSE, tls |-> TRUE,
     says_https |-> FALSE, kind |-> "page", page_load |-> TRUE, path |-> <<"a">>,
     readings |-> {<<"a">>}, country |-> Nobody, matches |-> {}, blocked |-> FALSE,
     cleared |-> FALSE, body |-> "whole", brings |-> FALSE, elsewhere |-> FALSE,
     name |-> "", password |-> "", code_right |-> FALSE]

Nothing == [connects |-> 0, failures |-> 0, requests |-> 0, saves |-> 0, acts |-> 0, ticks |-> 0]

Answers == [connects |-> TRUE, binds |-> TRUE, base |-> TRUE, searches |-> TRUE, found |-> 1,
            password |-> "p"]

Bare == [confs |-> {Plain}, saves |-> {}, visits |-> {}, peers |-> {}, left |-> Nothing,
         writer |-> FALSE, directories |-> {Answers}, cfg |-> [bind_dn |-> TRUE], local |-> TRUE,
         accounts |-> {}, password |-> "p", session |-> 4, idle |-> 4, lifetimes |-> {},
         hurried |-> {}]

\* Steps that only read the request, in the scenes where no policy is saved.
Reads == {"body", "countries", "rules"}

----------------------------------------------------------------------------
\* Connections of two addresses while the balancer is trusted and is not.
Places ==
    [Bare EXCEPT !.saves = {Plain, [Plain EXCEPT !.trusted = {}]}, !.peers = {1, 3},
                 !.left = [Nothing EXCEPT !.connects = 5, !.saves = 2, !.ticks = 2]]

\* Requests of three clients and of one the balancer speaks for, on a site with
\* a limit that blocks and is then changed.
Limit(n, w, a, t) == [requests |-> n, window |-> w, action |-> a, watching |-> t]

Limited ==
    [Bare EXCEPT !.confs = {[Plain EXCEPT !.limit = Limit(1, 3, "block", FALSE)]},
                 !.saves = {[Plain EXCEPT !.limit = Limit(2, 2, "block", FALSE)]},
                 !.visits = {From(1)},
                 !.hurried = Reads \cup {"judged", "forward"},
                 !.left = [Nothing EXCEPT !.requests = 4, !.ticks = 7, !.saves = 1]]

Crowd ==
    [Bare EXCEPT !.confs = {[Plain EXCEPT !.limit = Limit(1, 1, "block", FALSE)]},
                 !.visits = {From(0), From(1), From(3), [From(3) EXCEPT !.hops = <<1, 2, 3>>]},
                 !.hurried = Reads \cup {"lists", "judged", "forward"},
                 !.left = [Nothing EXCEPT !.requests = 4, !.ticks = 3]]

\* Rows while the writer falls behind and a batch fails.
Recorded ==
    [Bare EXCEPT !.visits = {[From(1) EXCEPT !.body = b] : b \in {"whole", "broken"}},
                 !.writer = TRUE,
                 !.left = [Nothing EXCEPT !.requests = 5, !.failures = 1]]

\* One request under a policy that watches, of every mixture of lists, blocks,
\* countries, rules and limits, and its switch to On in between.
Rule(id, action, score) == [id |-> id, external |-> id, action |-> action, score |-> score]

Policies ==
    {[NoPolicy EXCEPT !.mode = "DetectionOnly", !.smart = TRUE, !.rows = rows,
          !.choices = choices, !.muted = muted, !.loaded = ("drop" :> {<<1, 1>>, <<2, 2>>}),
          !.geo = geo, !.exclusions = ex, !.challenge_threshold = 5,
          !.rules = <<Rule(1, "score", 6), Rule(2, "challenge", 1), Rule(3, "score", 6),
                      Rule(4, "block", 0)>>] :
        rows \in {{}, {[type |-> "block", block |-> <<0, 1>>], [type |-> "allow", block |-> <<2, 3>>]}},
        choices \in {{}} \cup {{[whose |-> w, list |-> "drop", response |-> x]} :
                                   w \in {"own", "every"}, x \in {"Block", "Challenge"}},
        muted \in {{}, {"drop"}},
        geo \in {[mode |-> m, own |-> {"X"}, all_mode |-> n, all |-> {"Y"}] :
                    m \in {"off", "allow"}, n \in {"off", "block"}},
        ex \in {{}, {[external |-> 4, rule |-> Nobody, prefix |-> <<"a">>, client |-> <<1, 1>>]}}}

Trials ==
    {[Plain EXCEPT !.policy = p, !.limit = l] : p \in Policies,
        l \in {Nobody, Limit(1, 4, "challenge", TRUE)}}

Trial ==
    [Bare EXCEPT !.confs = Trials,
                 !.saves = {[Plain EXCEPT !.policy = [NoPolicy EXCEPT !.mode = "On"]]},
                 !.visits = {[From(1) EXCEPT !.matches = m, !.country = c, !.blocked = b, !.path = p] :
                               m \in {{}, {1}, {2}, {1, 3}, {2, 4}}, c \in {Nobody, "X", "Y"},
                               b \in BOOLEAN, p \in {<<"a", "b">>}},
                 !.left = [Nothing EXCEPT !.requests = 1]]

\* The same with requests over a watched limit, and a policy saved meanwhile.
Mixed ==
    [Trial EXCEPT !.confs = {[Plain EXCEPT !.policy = p, !.limit = Limit(1, 4, a, TRUE)] :
                               a \in {"block", "challenge"},
                               p \in {p \in Policies : p.rows # {} /\ p.muted = {} /\ p.exclusions = {}
                                                       /\ p.geo.mode = "allow" /\ p.choices = {}}},
                  !.visits = {[From(a) EXCEPT !.matches = m, !.page_load = l, !.cleared = c, !.country = "X"] :
                                a \in {1, 2}, m \in {{1}}, l \in BOOLEAN, c \in BOOLEAN},
                  !.left = [Nothing EXCEPT !.requests = 3, !.saves = 1]]

\* What is answered before the checks, or by one of them without a row.
Away ==
    [Bare EXCEPT !.confs = {[Plain EXCEPT !.redirect = TRUE,
                                          !.limit = Limit(1, 4, "challenge", FALSE)]},
                 !.saves = {[Plain EXCEPT !.state = "disabled"]},
                 !.visits = {[From(1) EXCEPT !.host = Nobody], [From(1) EXCEPT !.host = "other"],
                             [From(1) EXCEPT !.token = TRUE, !.tls = FALSE],
                             [From(3) EXCEPT !.tls = FALSE, !.says_https = TRUE],
                             [From(1) EXCEPT !.kind = "verify"], [From(1) EXCEPT !.page_load = FALSE]},
                 !.left = [Nothing EXCEPT !.requests = 3, !.saves = 1]]

\* A site that asks for a sign-in, its accounts changed while people sign in.
Asking == [asks |-> TRUE, protect |-> {<<"a">>}, bypass |-> {<<"a", "free">>}, basic |-> TRUE,
           captcha |-> FALSE]
Guarded == [Plain EXCEPT !.auth = Asking]

SignsIn(w) == [From(1) EXCEPT !.kind = "login", !.name = "u", !.password = w]
Offers(w) == [From(1) EXCEPT !.kind = "basic", !.name = "u", !.password = w]
Returns == [From(1) EXCEPT !.brings = TRUE]
Reading(a) == [From(1) EXCEPT !.path = <<"a">>, !.readings = a]

SignedIn ==
    [Bare EXCEPT !.confs = {Guarded}, !.accounts = {"u"},
                 !.visits = {SignsIn("p"), Returns},
                 !.session = 3, !.idle = 3, !.lifetimes = {<<2, 3>>},
                 !.hurried = Reads \cup {"lists", "judged", "forward"},
                 !.left = [Nothing EXCEPT !.requests = 3, !.acts = 2, !.ticks = 4]]

Offered ==
    [SignedIn EXCEPT !.visits = {Offers("p"), Reading({<<"a", "free">>}),
                                 Reading({<<"a", "free">>, <<"a">>}),
                                 [Returns EXCEPT !.kind = "logout"], [Returns EXCEPT !.kind = "form"]},
                     !.lifetimes = {},
                     !.left = [Nothing EXCEPT !.requests = 3, !.acts = 2, !.ticks = 2]]

\* Passwords tried, by two requests at a time.
Guessed ==
    [SignedIn EXCEPT !.confs = {[Guarded EXCEPT !.auth.captcha = TRUE]},
                     !.visits = {[SignsIn(w) EXCEPT !.code_right = TRUE] : w \in {"p", "w"}}
                                \cup {SignsIn("p")},
                     !.lifetimes = {},
                     !.left = [Nothing EXCEPT !.requests = 6, !.ticks = 4]]

\* A directory in every condition, tested and signed in with.
Asked ==
    [Bare EXCEPT !.confs = {Guarded}, !.local = FALSE,
                 !.directories = [connects : BOOLEAN, binds : BOOLEAN, base : BOOLEAN,
                                  searches : BOOLEAN, found : 0 .. 2, password : {"p"}],
                 !.visits = {SignsIn("p"), Returns},
                 !.left = [Nothing EXCEPT !.requests = 2, !.acts = 0]]

MCScenes ==
    [places |-> Places, limited |-> Limited, crowd |-> Crowd, recorded |-> Recorded,
     trial |-> Trial, mixed |-> Mixed, away |-> Away, signed_in |-> SignedIn,
     offered |-> Offered, guessed |-> Guessed, asked |-> Asked]

\* The one scene in which an account is deleted and added again.
SignedInScene == [signed_in |-> SignedIn]

\* Requests and connections are interchangeable.
Symmetry == Permutations(Reqs) \cup Permutations(Conns)
=============================================================================
