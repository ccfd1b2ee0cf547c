--------------------------- MODULE Upstream_proofs ---------------------------
(***************************************************************************)
(* What holds of a site's backends for any number of requests, backends,   *)
(* attempts and failures: that nothing is carried out twice, that no       *)
(* backend is blamed for what is not its fault, that a backend that is     *)
(* well is found, and that a visitor keeps its backend.                    *)
(***************************************************************************)
EXTENDS Upstream, FiniteSetTheorems, TLAPS

-----------------------------------------------------------------------------
(* The inductive invariant.                                                  *)

\* A request that must not be carried out by two backends.
Once(q) == q.method # "repeatable" \/ ~q.whole

Unserved == {"unreachable", "all down"}

\* Where a request is in its course, against the backends that failed it.
Course(q) ==
    /\ q.step = "sent" => q.outcome = "none"
    /\ q.step = "back" => q.outcome \in {"answer", "5xx", "connect", "lost", "client"}
    /\ q.step = "again" => /\ q.whole /\ MaySendAgain(q) /\ q.at \in q.tried
                           /\ q.outcome \in {"connect", "lost"}
    /\ q.step \in {"sent", "back"} => q.at \notin q.tried

\* Whom it can have been carried out by: a request that must not be carried out
\* twice is sent to another backend only when none was reached.
CarriedOut(q, carried) ==
    /\ \A b \in Backends : carried[b] > 0 => b \in q.tried \/ b = q.at
    /\ q.step = "sent" => \A b \in Backends : carried[b] > 0 => b \in q.tried
    /\ Once(q) => \A b \in Backends : carried[b] > 0 => b = q.at
    /\ Once(q) /\ (q.step \in {"sent", "again"} \/ (q.step = "back" /\ q.outcome = "connect"))
         => \A b \in Backends : carried[b] = 0

\* A backend that failed it was not well all along, and one that broke off was
\* reached; one that ends unserved has no backend left that was well.
Failing(q, reached, well) ==
    /\ q.tried \cap well = {}
    /\ q.step = "back" /\ q.outcome \in {"5xx", "connect", "lost"} => q.at \notin well
    /\ q.step = "back" /\ q.outcome = "lost" => q.at \in reached
    /\ /\ q.step = "told" /\ q.outcome \in Unserved /\ q.whole
       /\ q.method = "repeatable" \/ reached = {}
       /\ Cardinality(Backends) <= Attempts
       => well = {}

\* A pin in rotation that stays well is where the request is, and a cookie names
\* another backend than the pin.
Pinned(q, well, pinIn) ==
    /\ pinIn /\ q.pin \in well => q.at = q.pin
    /\ q.step = "told" /\ Affinity /\ q.outcome \in {"answer", "5xx"} /\ q.method # "upgrade"
         => q.cookie = IF q.at = q.pin THEN NoBackend ELSE q.at

Sound(r) ==
    /\ \A b \in Backends : witness.carried[r][b] <= 1
    /\ request[r] \in RequestRecord =>
         /\ Course(request[r])
         /\ CarriedOut(request[r], witness.carried[r])
         /\ Failing(request[r], witness.reached[r], witness.well[r])
         /\ Pinned(request[r], witness.well[r], witness.pinIn[r])

\* What was never anything but ok is not held to have been, and whatever failed is.
Faults ==
    /\ \A b \in Backends : condition[b] # "ok" => b \in witness.faulty
    /\ \A r \in Slots : \A b \in witness.well[r] : condition[b] = "ok"
    /\ \A r \in Slots :
         request[r].step = "back" /\ request[r].outcome \in {"5xx", "connect", "lost"}
           => request[r].at \in witness.faulty

UpstreamInv == UpstreamTypeOK /\ Faults /\ NeverBlamedForAnother /\ \A r \in Slots : Sound(r)

-----------------------------------------------------------------------------
(* Records.                                                                  *)

Steps == {"sent", "back", "again", "told"}
Outcomes == {"none", "answer", "5xx", "connect", "lost", "client", "unreachable", "all down",
             "upgrade failed"}

\* p is q moved on: to step s with outcome o, sent to b, failed by t.
Moved(p, q, s, o, b, t, k) ==
    /\ p \in RequestRecord
    /\ p.step = s /\ p.outcome = o /\ p.at = b /\ p.tried = t /\ p.cookie = k
    /\ p.method = q.method /\ p.whole = q.whole /\ p.pin = q.pin

\* The fields of a request (proxy/mod.rs, forward).
LEMMA RequestRead ==
  ASSUME NEW q \in RequestRecord
  PROVE  /\ q.step \in Steps /\ q.method \in Methods /\ q.whole \in Bodies /\ q.pin \in Pins
         /\ q.at \in Backends /\ q.tried \in SUBSET Backends /\ q.outcome \in Outcomes
         /\ q.cookie \in Pins /\ q # Free
<1>1. q.step # "idle" /\ Free.step = "idle"
  BY DEF RequestRecord, Free
<1> QED
  BY <1>1 DEF RequestRecord, Steps, Outcomes

\* A request keeps its shape as it is told what became of it.
LEMMA OutcomeWritten ==
  ASSUME NEW q \in RequestRecord, NEW s \in Steps, NEW o \in Outcomes
  PROVE  Moved([q EXCEPT !.step = s, !.outcome = o], q, s, o, q.at, q.tried, q.cookie)
BY DEF RequestRecord, Moved, Steps, Outcomes

\* ... and as it is given a cookie.
LEMMA CookieWritten ==
  ASSUME NEW q \in RequestRecord, NEW s \in Steps, NEW k \in Pins
  PROVE  Moved([q EXCEPT !.step = s, !.cookie = k], q, s, q.outcome, q.at, q.tried, k)
BY DEF RequestRecord, Moved, Steps, Outcomes

\* ... and in each of the other ways it moves on.
LEMMA RequestWritten ==
  ASSUME NEW q \in RequestRecord, NEW s \in Steps, NEW o \in Outcomes, NEW b \in Backends,
         NEW t \in SUBSET Backends, NEW k \in Pins
  PROVE  /\ Moved([q EXCEPT !.step = s, !.outcome = o], q, s, o, q.at, q.tried, q.cookie)
         /\ Moved([q EXCEPT !.step = s, !.cookie = k], q, s, q.outcome, q.at, q.tried, k)
         /\ Moved([q EXCEPT !.step = s, !.at = b, !.outcome = o], q, s, o, b, q.tried, q.cookie)
         /\ Moved([[q EXCEPT !.tried = t] EXCEPT !.step = s], q, s, q.outcome, q.at, t, q.cookie)
         /\ Moved([[q EXCEPT !.tried = t] EXCEPT !.step = s, !.outcome = o],
                  q, s, o, q.at, t, q.cookie)
<1>1. Moved([q EXCEPT !.step = s, !.outcome = o], q, s, o, q.at, q.tried, q.cookie)
  BY OutcomeWritten
<1>2. Moved([q EXCEPT !.step = s, !.cookie = k], q, s, q.outcome, q.at, q.tried, k)
  BY CookieWritten
<1>3. Moved([q EXCEPT !.step = s, !.at = b, !.outcome = o], q, s, o, b, q.tried, q.cookie)
  BY DEF RequestRecord, Moved, Steps, Outcomes
<1>4. Moved([[q EXCEPT !.tried = t] EXCEPT !.step = s], q, s, q.outcome, q.at, t, q.cookie)
  BY DEF RequestRecord, Moved, Steps, Outcomes
<1>5. Moved([[q EXCEPT !.tried = t] EXCEPT !.step = s, !.outcome = o],
            q, s, o, q.at, t, q.cookie)
  BY DEF RequestRecord, Moved, Steps, Outcomes
<1> QED
  BY <1>1, <1>2, <1>3, <1>4, <1>5

\* w is what is remembered now: the fields the invariant is about.
Noted(w, carried, reached, well, pinIn, faulty) ==
    /\ w \in Witness
    /\ w.carried = carried /\ w.reached = reached /\ w.well = well /\ w.pinIn = pinIn
    /\ w.faulty = faulty

\* What is remembered keeps its shape, in each of the ways it is written.
LEMMA WitnessWritten ==
  ASSUME NEW w \in Witness, NEW C \in [Slots -> [Backends -> Nat]],
         NEW R \in [Slots -> SUBSET Backends], NEW W \in [Slots -> SUBSET Backends],
         NEW P \in [Slots -> BOOLEAN], NEW H \in [Slots -> BOOLEAN],
         NEW F \in SUBSET Backends, NEW G \in [Backends -> Nat]
  PROVE  /\ Noted([w EXCEPT !.carried = C, !.reached = R], C, R, w.well, w.pinIn, w.faulty)
         /\ Noted([w EXCEPT !.reached = R], w.carried, R, w.well, w.pinIn, w.faulty)
         /\ Noted([w EXCEPT !.carried = C, !.reached = R, !.well = W, !.pinIn = P, !.halfOpen = H],
                  C, R, W, P, w.faulty)
         /\ Noted([w EXCEPT !.carried = C, !.reached = R, !.well = W, !.pinIn = P, !.halfOpen = H,
                            !.given = G], C, R, W, P, w.faulty)
         /\ Noted([w EXCEPT !.given = G, !.halfOpen = H],
                  w.carried, w.reached, w.well, w.pinIn, w.faulty)
         /\ Noted([w EXCEPT !.well = W, !.faulty = F], w.carried, w.reached, W, w.pinIn, F)
<1>1. Noted([w EXCEPT !.carried = C, !.reached = R], C, R, w.well, w.pinIn, w.faulty)
  BY DEF Noted, Witness
<1>2. Noted([w EXCEPT !.reached = R], w.carried, R, w.well, w.pinIn, w.faulty)
  BY DEF Noted, Witness
<1>3. Noted([w EXCEPT !.carried = C, !.reached = R, !.well = W, !.pinIn = P, !.halfOpen = H],
            C, R, W, P, w.faulty)
  BY DEF Noted, Witness
<1>4. Noted([w EXCEPT !.carried = C, !.reached = R, !.well = W, !.pinIn = P, !.halfOpen = H,
                      !.given = G], C, R, W, P, w.faulty)
  BY DEF Noted, Witness
<1>5. Noted([w EXCEPT !.given = G, !.halfOpen = H],
            w.carried, w.reached, w.well, w.pinIn, w.faulty)
  BY DEF Noted, Witness
<1>6. Noted([w EXCEPT !.well = W, !.faulty = F], w.carried, w.reached, W, w.pinIn, F)
  BY DEF Noted, Witness
<1> QED
  BY <1>1, <1>2, <1>3, <1>4, <1>5, <1>6

\* A request that is being answered is no idle slot.
LEMMA Busy ==
  ASSUME UpstreamTypeOK, NEW r \in Slots
  PROVE  /\ request[r] \in {Free} \cup RequestRecord
         /\ request[r].step \in Steps => request[r] \in RequestRecord
         /\ request[r] = Free => request[r].step = "idle"
BY DEF UpstreamTypeOK, Free, Steps

\* What is remembered of a slot that an action leaves alone still fits it, though
\* fewer backends may have been well all along.
LEMMA Elsewhere ==
  ASSUME NEW s \in Slots, Sound(s), request'[s] = request[s],
         witness'.carried[s] = witness.carried[s], witness'.reached[s] = witness.reached[s],
         witness'.well[s] \subseteq witness.well[s], witness'.pinIn[s] = witness.pinIn[s]
  PROVE  Sound(s)'
<1>1. \A b \in Backends : witness'.carried[s][b] <= 1
  BY DEF Sound
<1> SUFFICES ASSUME request[s] \in RequestRecord
             PROVE  /\ Course(request'[s])
                    /\ CarriedOut(request'[s], witness'.carried[s])
                    /\ Failing(request'[s], witness'.reached[s], witness'.well[s])
                    /\ Pinned(request'[s], witness'.well[s], witness'.pinIn[s])
  BY <1>1 DEF Sound
<1>2. Course(request'[s]) /\ CarriedOut(request'[s], witness'.carried[s])
  BY DEF Sound
<1>3. Failing(request'[s], witness'.reached[s], witness'.well[s])
  BY DEF Sound, Failing
<1>4. Pinned(request'[s], witness'.well[s], witness'.pinIn[s])
  BY DEF Sound, Pinned
<1> QED
  BY <1>2, <1>3, <1>4

-----------------------------------------------------------------------------
(* The steps.                                                                *)

\* A backend that answers, or a connection that fails, leaves what is known of the
\* request as it should be (proxy/mod.rs, send_upstream).
LEMMA AnswerStep == ASSUME UpstreamInv, NEW r \in Slots, Answer(r) PROVE UpstreamInv'
<1> DEFINE q == request[r]
           b == q.at
<1>t. /\ request \in [Slots -> {Free} \cup RequestRecord] /\ witness \in Witness
      /\ condition \in [Backends -> Conditions] /\ UpstreamTypeOK
  BY DEF UpstreamInv, UpstreamTypeOK
<1>1. q \in RequestRecord /\ q.step = "sent" /\ b \in Backends
  BY <1>t, Busy, RequestRead DEF Answer, Steps
<1>2. PICK reaction \in Reactions(condition[b]) :
        /\ request' = [request EXCEPT ![r].step = "back", ![r].outcome = reaction[1]]
        /\ witness' = [witness EXCEPT
              !.carried[r][b] = @ + reaction[2],
              !.reached[r] = @ \cup IF reaction[1] = "connect" THEN {} ELSE {b}]
  BY DEF Answer
<1> DEFINE x == reaction[1]
           n == reaction[2]
<1>3. /\ x \in {"answer", "5xx", "connect", "lost"} /\ n \in {0, 1}
      /\ x = "connect" => n = 0
      /\ condition[b] = "ok" => x = "answer"
  <2>1. condition[b] \in {"ok", "down", "sick"}
    BY <1>t, <1>1, BoundsAssumption
  <2> QED
    BY <1>2, <2>1 DEF Reactions
<1>4. UNCHANGED <<consecutive, left, turn, condition, changes>>
  BY DEF Answer
<1> HIDE DEF x, n
<1>5. request' = [request EXCEPT ![r] = [q EXCEPT !.step = "back", !.outcome = x]]
  BY <1>2, <1>t DEF x
<1>6. Moved(request'[r], q, "back", x, q.at, q.tried, q.cookie)
  <2>1. "back" \in Steps /\ x \in Outcomes
    BY <1>3 DEF Steps, Outcomes
  <2>2. request'[r] = [q EXCEPT !.step = "back", !.outcome = x]
    BY <1>5, <1>t
  <2>3. Moved([q EXCEPT !.step = "back", !.outcome = x], q, "back", x, q.at, q.tried, q.cookie)
    BY ONLY <1>1, <2>1, OutcomeWritten
  <2> QED
    BY <2>2, <2>3
<1> DEFINE C == [witness.carried EXCEPT ![r] =
                     [witness.carried[r] EXCEPT ![b] = witness.carried[r][b] + n]]
           R == [witness.reached EXCEPT ![r] =
                     witness.reached[r] \cup IF x = "connect" THEN {} ELSE {b}]
<1>w. /\ witness.carried \in [Slots -> [Backends -> Nat]]
      /\ witness.reached \in [Slots -> SUBSET Backends]
      /\ witness.well \in [Slots -> SUBSET Backends]
  BY <1>t DEF Witness
<1>7. C \in [Slots -> [Backends -> Nat]] /\ R \in [Slots -> SUBSET Backends]
  <2>1. [witness.carried[r] EXCEPT ![b] = witness.carried[r][b] + n] \in [Backends -> Nat]
    BY <1>1, <1>3, <1>w
  <2>2. (witness.reached[r] \cup IF x = "connect" THEN {} ELSE {b}) \in SUBSET Backends
    BY <1>1, <1>w
  <2> QED
    BY <2>1, <2>2, <1>w
<1>8. witness' = [witness EXCEPT !.carried = C, !.reached = R]
  BY <1>2, Zenon DEF x, n
<1> HIDE DEF C, R
<1>9. Noted(witness', C, R, witness.well, witness.pinIn, witness.faulty)
  <2>1. witness.pinIn \in [Slots -> BOOLEAN] /\ witness.halfOpen \in [Slots -> BOOLEAN]
        /\ witness.faulty \in SUBSET Backends /\ witness.given \in [Backends -> Nat]
    BY <1>t DEF Witness
  <2> QED
    BY <2>1, <1>7, <1>8, <1>t, <1>w, WitnessWritten
<1>10. ASSUME NEW s \in Slots, s # r PROVE Sound(s)'
  <2>1. Sound(s) /\ request'[s] = request[s] /\ C[s] = witness.carried[s] /\ R[s] = witness.reached[s]
    BY <1>5, <1>10, <1>t, <1>w DEF UpstreamInv, C, R
  <2> QED
    BY <1>9, <2>1, Elsewhere DEF Noted
<1>11. Sound(r)'
  <2>1. /\ C[r] = [witness.carried[r] EXCEPT ![b] = witness.carried[r][b] + n]
        /\ witness.carried[r] \in [Backends -> Nat]
        /\ R[r] = witness.reached[r] \cup IF x = "connect" THEN {} ELSE {b}
    BY <1>w DEF C, R
  <2>2. /\ Course(q) /\ CarriedOut(q, witness.carried[r])
        /\ Failing(q, witness.reached[r], witness.well[r])
        /\ Pinned(q, witness.well[r], witness.pinIn[r])
        /\ \A c \in Backends : witness.carried[r][c] <= 1
    BY <1>1 DEF UpstreamInv, Sound
  <2>3. witness.carried[r][b] = 0
    BY <1>1, <2>1, <2>2 DEF CarriedOut, Course
  <2>4. \A c \in Backends : C[r][c] = IF c = b THEN n ELSE witness.carried[r][c]
    BY <1>3, <2>1, <2>3
  <2>5. \A c \in Backends : C[r][c] <= 1
    BY <1>3, <2>2, <2>4
  <2>6. Course(request'[r])
    BY <1>1, <1>3, <1>6, <2>2 DEF Moved, Course
  <2>7. CarriedOut(request'[r], C[r])
    BY <1>1, <1>3, <1>6, <2>1, <2>2, <2>4 DEF Moved, CarriedOut, Once
  <2>8. Failing(request'[r], R[r], witness.well[r])
    <3>1. x # "answer" => b \notin witness.well[r]
      BY <1>1, <1>3 DEF UpstreamInv, Faults
    <3> QED
      BY <1>1, <1>3, <1>6, <2>1, <2>2, <3>1 DEF Moved, Failing
  <2>9. Pinned(request'[r], witness.well[r], witness.pinIn[r])
    BY <1>6, <2>2 DEF Moved, Pinned
  <2> QED
    BY <1>9, <2>5, <2>6, <2>7, <2>8, <2>9 DEF Sound, Noted
<1>12. Faults'
  <2>1. x # "answer" => b \in witness.faulty
    BY <1>1, <1>3 DEF UpstreamInv, Faults
  <2>2. \A s \in Slots : s # r => request'[s] = request[s]
    BY <1>5, <1>t
  <2> QED
    BY <1>4, <1>6, <1>9, <2>1, <2>2 DEF UpstreamInv, Faults, Moved, Noted
<1>13. NeverBlamedForAnother'
  BY <1>4, <1>9 DEF UpstreamInv, NeverBlamedForAnother, Noted
<1>14. UpstreamTypeOK'
  <2>1. request' \in [Slots -> {Free} \cup RequestRecord]
    BY <1>5, <1>6, <1>t DEF Moved
  <2> QED
    BY <1>4, <1>9, <2>1 DEF UpstreamInv, UpstreamTypeOK, Noted
<1> QED
  BY <1>10, <1>11, <1>12, <1>13, <1>14 DEF UpstreamInv

\* A request that moves on without being heard from, and without another thing
\* being known of it, is as it should be when its own record is.
LEMMA MovesOn ==
  ASSUME UpstreamInv, NEW r \in Slots, NEW p \in RequestRecord,
         request' = [request EXCEPT ![r] = p], p.step # "back",
         Course(p), CarriedOut(p, witness.carried[r]),
         Failing(p, witness.reached[r], witness.well[r]),
         Pinned(p, witness.well[r], witness.pinIn[r]),
         UNCHANGED <<condition, changes>>, turn' \in 0 .. Turns - 1,
         Noted(witness', witness.carried, witness.reached, witness.well, witness.pinIn,
               witness.faulty),
         consecutive' \in [Backends -> 0 .. ConsecutiveMax], left' \in [Backends -> 0 .. OutFor],
         \A b \in Backends : left'[b] > 0 => consecutive'[b] >= FailuresBeforeOut,
         NeverBlamedForAnother'
  PROVE  UpstreamInv'
<1>t. request \in [Slots -> {Free} \cup RequestRecord]
  BY DEF UpstreamInv, UpstreamTypeOK
<1>1. request'[r] = p /\ \A s \in Slots : s # r => request'[s] = request[s]
  BY <1>t
<1>2. UpstreamTypeOK'
  BY <1>t DEF UpstreamInv, UpstreamTypeOK, Noted
<1>3. Faults'
  BY <1>1 DEF UpstreamInv, Faults, Noted
<1>4. ASSUME NEW s \in Slots, s # r PROVE Sound(s)'
  <2>1. Sound(s) /\ request'[s] = request[s]
    BY <1>1, <1>4 DEF UpstreamInv
  <2> QED
    BY <2>1, Elsewhere DEF Noted
<1>5. Sound(r)'
  BY <1>1 DEF UpstreamInv, Sound, Noted
<1> QED
  BY <1>2, <1>3, <1>4, <1>5 DEF UpstreamInv

\* What is remembered is what it was.
LEMMA NotedAsIs ==
  ASSUME UpstreamTypeOK, UNCHANGED witness
  PROVE  Noted(witness', witness.carried, witness.reached, witness.well, witness.pinIn,
               witness.faulty)
BY DEF UpstreamTypeOK, Noted

\* A failure of b is counted up to the most that is, and puts it out only when it
\* has failed often enough (upstream.rs, failed).
LEMMA FailureCounted ==
  ASSUME UpstreamTypeOK, NEW b \in Backends, Failed(b)
  PROVE  /\ consecutive' \in [Backends -> 0 .. ConsecutiveMax] /\ left' \in [Backends -> 0 .. OutFor]
         /\ \A c \in Backends : left'[c] > 0 => consecutive'[c] >= FailuresBeforeOut
         /\ \A c \in Backends : c # b => consecutive'[c] = consecutive[c] /\ left'[c] = left[c]
<1> DEFINE count == Least(consecutive[b] + 1, ConsecutiveMax)
<1>t. /\ consecutive \in [Backends -> 0 .. ConsecutiveMax] /\ left \in [Backends -> 0 .. OutFor]
      /\ \A c \in Backends : left[c] > 0 => consecutive[c] >= FailuresBeforeOut
      /\ ConsecutiveMax \in Nat /\ OutFor \in Nat /\ FailuresBeforeOut \in Nat
  BY BoundsAssumption DEF UpstreamTypeOK
<1>1. count \in 0 .. ConsecutiveMax /\ count >= consecutive[b]
  BY <1>t DEF Least
<1>2. /\ consecutive' = [consecutive EXCEPT ![b] = count]
      /\ left' = [left EXCEPT ![b] = IF count >= FailuresBeforeOut THEN OutFor ELSE left[b]]
  BY DEF Failed
<1> HIDE DEF count
<1>3. consecutive' \in [Backends -> 0 .. ConsecutiveMax]
  BY <1>1, <1>2, <1>t
<1>4. left' \in [Backends -> 0 .. OutFor]
  BY <1>2, <1>t
<1>5. /\ consecutive'[b] = count
      /\ left'[b] = IF count >= FailuresBeforeOut THEN OutFor ELSE left[b]
      /\ \A c \in Backends : c # b => consecutive'[c] = consecutive[c] /\ left'[c] = left[c]
  BY <1>2, <1>t
<1>6. left'[b] > 0 => consecutive'[b] >= FailuresBeforeOut
  BY <1>1, <1>5, <1>t
<1> QED
  BY <1>3, <1>4, <1>5, <1>6, <1>t

\* An answer clears what was counted against b (upstream.rs, succeeded).
LEMMA SuccessClears ==
  ASSUME UpstreamTypeOK, NEW b \in Backends, Succeeded(b)
  PROVE  /\ consecutive' \in [Backends -> 0 .. ConsecutiveMax] /\ left' \in [Backends -> 0 .. OutFor]
         /\ \A c \in Backends : left'[c] > 0 => consecutive'[c] >= FailuresBeforeOut
         /\ \A c \in Backends : c # b => consecutive'[c] = consecutive[c] /\ left'[c] = left[c]
         /\ consecutive'[b] = 0 /\ left'[b] = 0
BY BoundsAssumption DEF UpstreamTypeOK, Succeeded

\* What the last step needs to know of a request that is back.
LEMMA BackRead ==
  ASSUME UpstreamInv, NEW r \in Slots, request[r].step = "back"
  PROVE  /\ request[r] \in RequestRecord /\ request[r].at \in Backends
         /\ Course(request[r]) /\ CarriedOut(request[r], witness.carried[r])
         /\ Failing(request[r], witness.reached[r], witness.well[r])
         /\ Pinned(request[r], witness.well[r], witness.pinIn[r])
         /\ request[r].outcome \in {"5xx", "connect", "lost"} => request[r].at \in witness.faulty
<1>1. request[r] \in RequestRecord
  BY Busy DEF UpstreamInv, Steps
<1> QED
  BY <1>1, RequestRead DEF UpstreamInv, Sound, Faults

\* The answer goes back to the visitor (proxy/mod.rs, stream_back).
LEMMA StreamBackStep == ASSUME UpstreamInv, NEW r \in Slots, StreamBack(r) PROVE UpstreamInv'
<1> DEFINE q == request[r]
           k == IF Affinity /\ q.pin # q.at THEN q.at ELSE NoBackend
           p == [q EXCEPT !.step = "told", !.cookie = k]
<1>1. /\ q.step = "back" /\ q.method # "upgrade" /\ q.outcome \in {"answer", "5xx"}
      /\ IF q.outcome = "5xx" THEN Failed(q.at) ELSE Succeeded(q.at)
      /\ UNCHANGED <<turn, condition, changes, witness>>
  BY DEF StreamBack
<1>2. /\ q \in RequestRecord /\ q.at \in Backends
      /\ Course(q) /\ CarriedOut(q, witness.carried[r])
      /\ Failing(q, witness.reached[r], witness.well[r])
      /\ Pinned(q, witness.well[r], witness.pinIn[r])
      /\ q.outcome = "5xx" => q.at \in witness.faulty
  BY <1>1, BackRead
<1>t. UpstreamTypeOK /\ request \in [Slots -> {Free} \cup RequestRecord] /\ turn \in 0 .. Turns - 1
  BY DEF UpstreamInv, UpstreamTypeOK
<1>3. request' = [request EXCEPT ![r] = p]
  BY <1>t DEF StreamBack
<1>4. k \in Pins
  BY <1>2 DEF Pins
<1>5. Moved(p, q, "told", q.outcome, q.at, q.tried, k)
  <2>1. "told" \in Steps
    BY DEF Steps
  <2> QED
    BY ONLY <1>2, <1>4, <2>1, CookieWritten
<1> HIDE DEF p
<1>6. Course(p) /\ CarriedOut(p, witness.carried[r])
  BY <1>2, <1>5 DEF Moved, Course, CarriedOut, Once
<1>7. Failing(p, witness.reached[r], witness.well[r])
  BY <1>1, <1>2, <1>5 DEF Moved, Failing, Unserved
<1>8. Pinned(p, witness.well[r], witness.pinIn[r])
  BY <1>2, <1>5 DEF Moved, Pinned
<1>9. /\ consecutive' \in [Backends -> 0 .. ConsecutiveMax] /\ left' \in [Backends -> 0 .. OutFor]
      /\ \A c \in Backends : left'[c] > 0 => consecutive'[c] >= FailuresBeforeOut
      /\ NeverBlamedForAnother'
  <2>1. CASE q.outcome = "5xx"
    BY <1>1, <1>2, <1>t, <2>1, FailureCounted DEF UpstreamInv, NeverBlamedForAnother
  <2>2. CASE q.outcome # "5xx"
    BY <1>1, <1>2, <1>t, <2>2, SuccessClears DEF UpstreamInv, NeverBlamedForAnother
  <2> QED
    BY <2>1, <2>2
<1> QED
  BY <1>1, <1>3, <1>5, <1>6, <1>7, <1>8, <1>9, <1>t, MovesOn, NotedAsIs DEF Moved

\* A request that is told what became of it, and nothing else changes
\* (proxy/mod.rs, client_gave_up, forward_upgrade).
LEMMA ToldStep ==
  ASSUME UpstreamInv, NEW r \in Slots, ClientGaveUp(r) \/ Upgraded(r)
  PROVE  UpstreamInv'
<1> DEFINE q == request[r]
<1>1. /\ q.step = "back"
      /\ UNCHANGED <<consecutive, left, turn, condition, changes, witness>>
      /\ q.method # "upgrade" => q.outcome = "client"
  BY DEF ClientGaveUp, Upgraded
<1>2. /\ q \in RequestRecord /\ q.at \in Backends
      /\ Course(q) /\ CarriedOut(q, witness.carried[r])
      /\ Failing(q, witness.reached[r], witness.well[r])
      /\ Pinned(q, witness.well[r], witness.pinIn[r])
  BY <1>1, BackRead
<1>3. PICK o \in {"client", "answer", "5xx", "upgrade failed"} :
        Tell(r, o) /\ (o \in {"answer", "5xx"} => q.method = "upgrade")
  BY DEF ClientGaveUp, Upgraded
<1> DEFINE p == [q EXCEPT !.step = "told", !.outcome = o]
<1>t. /\ UpstreamTypeOK /\ request \in [Slots -> {Free} \cup RequestRecord] /\ turn \in 0 .. Turns - 1
      /\ consecutive \in [Backends -> 0 .. ConsecutiveMax] /\ left \in [Backends -> 0 .. OutFor]
      /\ \A b \in Backends : left[b] > 0 => consecutive[b] >= FailuresBeforeOut
  BY DEF UpstreamInv, UpstreamTypeOK
<1>5. request' = [request EXCEPT ![r] = p]
  BY <1>3, <1>t DEF Tell
<1>6. Moved(p, q, "told", o, q.at, q.tried, q.cookie)
  <2>1. "told" \in Steps /\ o \in Outcomes
    BY <1>3 DEF Steps, Outcomes
  <2> QED
    BY ONLY <1>2, <2>1, OutcomeWritten
<1> HIDE DEF p
<1>7. Course(p) /\ CarriedOut(p, witness.carried[r])
  BY <1>2, <1>6 DEF Moved, Course, CarriedOut, Once
<1>8. Failing(p, witness.reached[r], witness.well[r])
  BY <1>2, <1>3, <1>6 DEF Moved, Failing, Unserved
<1>9. Pinned(p, witness.well[r], witness.pinIn[r])
  BY <1>2, <1>3, <1>6 DEF Moved, Pinned
<1>10. NeverBlamedForAnother'
  BY <1>1 DEF UpstreamInv, NeverBlamedForAnother
<1> QED
  BY <1>1, <1>5, <1>6, <1>7, <1>8, <1>9, <1>10, <1>t, MovesOn, NotedAsIs DEF Moved

\* There are finitely many backends.
LEMMA BackendsFinite == IsFiniteSet(Backends)
<1>1. PICK n \in Nat : Pool \in [1 .. n -> Backends]
  BY PoolAssumption
<1>2. IsFiniteSet(1 .. n)
  BY <1>1, FS_Interval
<1>3. Pool \in Surjection(1 .. n, Backends)
  BY <1>1 DEF Surjection, Backends, Range
<1> QED
  BY <1>2, <1>3, FS_Surjection

\* When as many have failed as there are, none is left.
LEMMA AllTried ==
  ASSUME NEW tried \in SUBSET Backends, Cardinality(Backends) <= Attempts,
         ~(Cardinality(tried) < Attempts)
  PROVE  tried = Backends
<1>1. /\ Cardinality(tried) \in Nat /\ Cardinality(Backends) \in Nat /\ Attempts \in Nat
      /\ Cardinality(tried) <= Cardinality(Backends)
      /\ Cardinality(tried) = Cardinality(Backends) => tried = Backends
  BY BackendsFinite, FS_CardinalityType, FS_Subset, BoundsAssumption
<1> QED
  BY <1>1

\* A backend that fails a request joins the ones that did, and the request goes on
\* only where it may (proxy/mod.rs, send_upstream).
LEMMA UnreachableStep == ASSUME UpstreamInv, NEW r \in Slots, Unreachable(r) PROVE UpstreamInv'
<1> DEFINE q == request[r]
           tried == q.tried \cup {q.at}
           after == [q EXCEPT !.tried = tried]
<1>1. /\ q.step = "back" /\ q.method # "upgrade" /\ q.outcome \in {"connect", "lost"}
      /\ Failed(q.at)
      /\ UNCHANGED <<turn, condition, changes, witness>>
      /\ request' = [request EXCEPT ![r] =
             IF Again(q, after.tried) THEN [after EXCEPT !.step = "again"]
             ELSE [after EXCEPT !.step = "told", !.outcome = GiveUp(after)]]
  BY DEF Unreachable
<1>2. /\ q \in RequestRecord /\ q.at \in Backends
      /\ Course(q) /\ CarriedOut(q, witness.carried[r])
      /\ Failing(q, witness.reached[r], witness.well[r])
      /\ Pinned(q, witness.well[r], witness.pinIn[r])
      /\ q.at \in witness.faulty
  BY <1>1, BackRead
<1>t. /\ UpstreamTypeOK /\ request \in [Slots -> {Free} \cup RequestRecord] /\ turn \in 0 .. Turns - 1
      /\ tried \in SUBSET Backends /\ q.outcome \in Outcomes /\ q.cookie \in Pins
      /\ q.method \in Methods /\ q.whole \in BOOLEAN
      /\ witness.well[r] \subseteq Backends
  BY <1>2, RequestRead, BoundsAssumption DEF UpstreamInv, UpstreamTypeOK, Witness
<1>3. after.tried = tried
  BY <1>2 DEF RequestRecord
<1>g. GiveUp(after) \in Unserved /\ GiveUp(after) \in Outcomes
  BY DEF GiveUp, Unserved, Outcomes
<1>4. /\ consecutive' \in [Backends -> 0 .. ConsecutiveMax] /\ left' \in [Backends -> 0 .. OutFor]
      /\ \A c \in Backends : left'[c] > 0 => consecutive'[c] >= FailuresBeforeOut
      /\ NeverBlamedForAnother'
  BY <1>1, <1>2, <1>t, FailureCounted DEF UpstreamInv, NeverBlamedForAnother
<1>5. q.at \notin witness.well[r] /\ tried \cap witness.well[r] = {}
  BY <1>1, <1>2 DEF Failing
<1>6. CASE Again(q, tried)
  <2> DEFINE p == [after EXCEPT !.step = "again"]
  <2>1. request' = [request EXCEPT ![r] = p]
    BY <1>1, <1>3, <1>6
  <2>2. Moved(p, q, "again", q.outcome, q.at, tried, q.cookie)
    BY <1>2, <1>t, RequestWritten DEF Steps
  <2> HIDE DEF p
  <2>3. Course(p)
    BY <1>1, <1>6, <2>2 DEF Moved, Course, Again, MaySendAgain
  <2>4. CarriedOut(p, witness.carried[r])
    <3>1. Once(q) => q.outcome = "connect"
      BY <1>6 DEF Again, MaySendAgain, Once
    <3>2. Once(p) = Once(q)
      BY <2>2 DEF Moved, Once
    <3> QED
      BY <1>1, <1>2, <2>2, <3>1, <3>2 DEF Moved, CarriedOut
  <2>5. Failing(p, witness.reached[r], witness.well[r])
    BY <1>5, <2>2 DEF Moved, Failing
  <2>6. Pinned(p, witness.well[r], witness.pinIn[r])
    BY <1>2, <2>2 DEF Moved, Pinned
  <2> QED
    BY <1>1, <1>4, <1>t, <2>1, <2>2, <2>3, <2>4, <2>5, <2>6, MovesOn, NotedAsIs DEF Moved
<1>7. CASE ~Again(q, tried)
  <2> DEFINE o == GiveUp(after)
             p == [after EXCEPT !.step = "told", !.outcome = o]
  <2>1. request' = [request EXCEPT ![r] = p]
    BY <1>1, <1>3, <1>7
  <2>2. Moved(p, q, "told", o, q.at, tried, q.cookie)
    BY <1>2, <1>g, <1>t, RequestWritten DEF Steps
  <2>o. o \in Unserved
    BY <1>g
  <2> HIDE DEF p, o
  <2>3. Course(p) /\ CarriedOut(p, witness.carried[r])
    BY <1>2, <2>2 DEF Moved, Course, CarriedOut, Once
  <2>4. Failing(p, witness.reached[r], witness.well[r])
    <3>1. ASSUME q.whole, q.method = "repeatable" \/ witness.reached[r] = {},
                 Cardinality(Backends) <= Attempts
          PROVE  witness.well[r] = {}
      <4>1. MaySendAgain(q)
        BY <1>1, <1>2, <3>1 DEF MaySendAgain, Failing
      <4>2. ~(Cardinality(tried) < Attempts)
        BY <1>7, <3>1, <4>1 DEF Again
      <4>3. tried = Backends
        BY <1>t, <3>1, <4>2, AllTried
      <4> QED
        BY <1>5, <1>t, <4>3
    <3> QED
      BY <1>5, <2>2, <3>1 DEF Moved, Failing
  <2>5. Pinned(p, witness.well[r], witness.pinIn[r])
    BY <1>2, <2>o, <2>2 DEF Moved, Pinned, Unserved
  <2> QED
    BY <1>1, <1>4, <1>t, <2>1, <2>2, <2>3, <2>4, <2>5, MovesOn, NotedAsIs DEF Moved
<1> QED
  BY <1>6, <1>7

\* A request that is about to be sent again: what is known of it.
LEMMA AgainRead ==
  ASSUME UpstreamInv, NEW r \in Slots, request[r].step = "again"
  PROVE  /\ request[r] \in RequestRecord
         /\ request[r].whole /\ MaySendAgain(request[r]) /\ request[r].at \in request[r].tried
         /\ request[r].outcome \in {"connect", "lost"}
         /\ CarriedOut(request[r], witness.carried[r])
         /\ Failing(request[r], witness.reached[r], witness.well[r])
         /\ Pinned(request[r], witness.well[r], witness.pinIn[r])
         /\ request[r].pin \in witness.well[r] => ~witness.pinIn[r]
<1>1. request[r] \in RequestRecord
  BY Busy DEF UpstreamInv, Steps
<1>2. /\ Course(request[r]) /\ CarriedOut(request[r], witness.carried[r])
      /\ Failing(request[r], witness.reached[r], witness.well[r])
      /\ Pinned(request[r], witness.well[r], witness.pinIn[r])
  BY <1>1 DEF UpstreamInv, Sound
<1> QED
  BY <1>1, <1>2 DEF Course, Failing, Pinned

\* No backend is left to ask (proxy/mod.rs, send_upstream).
LEMMA NoneLeftStep == ASSUME UpstreamInv, NEW r \in Slots, NoneLeft(r) PROVE UpstreamInv'
<1> DEFINE q == request[r]
           o == GiveUp(q)
           p == [q EXCEPT !.step = "told", !.outcome = o]
<1>1. /\ q.step = "again" /\ Backends \ q.tried = {}
      /\ UNCHANGED <<consecutive, left, turn, condition, changes, witness>>
  BY DEF NoneLeft, Untried
<1>2. /\ q \in RequestRecord
      /\ CarriedOut(q, witness.carried[r])
      /\ Failing(q, witness.reached[r], witness.well[r])
      /\ Pinned(q, witness.well[r], witness.pinIn[r])
  BY <1>1, AgainRead
<1>t. /\ UpstreamTypeOK /\ request \in [Slots -> {Free} \cup RequestRecord] /\ turn \in 0 .. Turns - 1
      /\ consecutive \in [Backends -> 0 .. ConsecutiveMax] /\ left \in [Backends -> 0 .. OutFor]
      /\ \A b \in Backends : left[b] > 0 => consecutive[b] >= FailuresBeforeOut
      /\ witness.well[r] \subseteq Backends
  BY DEF UpstreamInv, UpstreamTypeOK, Witness
<1>3. request' = [request EXCEPT ![r] = p]
  BY <1>t DEF NoneLeft, Tell
<1>g. o \in Unserved /\ o \in Outcomes
  BY DEF GiveUp, Unserved, Outcomes
<1>4. Moved(p, q, "told", o, q.at, q.tried, q.cookie)
  BY <1>2, <1>g, RequestWritten, RequestRead DEF Steps
<1> HIDE DEF p, o
<1>5. Course(p) /\ CarriedOut(p, witness.carried[r])
  BY <1>2, <1>4 DEF Moved, Course, CarriedOut, Once
<1>6. witness.well[r] = {}
  BY <1>1, <1>2, <1>t DEF Failing
<1>7. Failing(p, witness.reached[r], witness.well[r])
  BY <1>4, <1>6 DEF Moved, Failing
<1>8. Pinned(p, witness.well[r], witness.pinIn[r])
  BY <1>2, <1>4, <1>g DEF Moved, Pinned, Unserved
<1>9. NeverBlamedForAnother'
  BY <1>1 DEF UpstreamInv, NeverBlamedForAnother
<1> QED
  BY <1>1, <1>3, <1>4, <1>5, <1>7, <1>8, <1>9, <1>t, MovesOn, NotedAsIs DEF Moved

\* What is chosen is among what was to be chosen from, and the rotation keeps its
\* range (upstream.rs, choose_except).
LEMMA ChoiceMade ==
  ASSUME UpstreamTypeOK, NEW tried, NEW b \in Backends, ChooseExcept(tried, b)
  PROVE  b \notin tried /\ turn' \in 0 .. Turns - 1
<1>1. b \in Untried(tried)
  BY DEF ChooseExcept, PickFrom, InRotation
<1>2. turn' = turn \/ turn' = (turn + 1) % Turns
  BY DEF ChooseExcept, PickFrom
<1> QED
  BY <1>1, <1>2, BoundsAssumption DEF Untried, UpstreamTypeOK

\* The turns given are counted for every backend.
LEMMA GivenCounted ==
  ASSUME UpstreamTypeOK, NEW b \in Backends
  PROVE  Given(b) \in [Backends -> Nat]
<1>1. witness.given \in [Backends -> Nat]
  BY DEF UpstreamTypeOK, Witness
<1>2. [x \in Backends |-> IF x = b THEN 1 ELSE 0] \in [Backends -> Nat]
  OBVIOUS
<1>3. [witness.given EXCEPT ![b] = @ + 1] \in [Backends -> Nat]
  BY <1>1
<1> QED
  BY <1>1, <1>2, <1>3 DEF Given

\* A request goes to a backend that has not failed it (proxy/mod.rs, send_upstream).
LEMMA SendAgainStep ==
  ASSUME UpstreamInv, NEW r \in Slots, NEW b \in Backends, SendAgain(r, b)
  PROVE  UpstreamInv'
<1> DEFINE q == request[r]
           p == [q EXCEPT !.step = "sent", !.at = b, !.outcome = "none"]
           h == consecutive[b] >= FailuresBeforeOut /\ TakingRequests(b)
           H == [witness.halfOpen EXCEPT ![r] = h]
<1>1. /\ q.step = "again" /\ ChooseExcept(q.tried, b)
      /\ UNCHANGED <<consecutive, left, condition, changes>>
      /\ witness' = [witness EXCEPT !.given = Given(b), !.halfOpen[r] = h]
  BY DEF SendAgain
<1>2. /\ q \in RequestRecord /\ q.whole /\ MaySendAgain(q) /\ q.outcome \in {"connect", "lost"}
      /\ CarriedOut(q, witness.carried[r])
      /\ Failing(q, witness.reached[r], witness.well[r])
      /\ Pinned(q, witness.well[r], witness.pinIn[r])
      /\ q.pin \in witness.well[r] => ~witness.pinIn[r]
  BY <1>1, AgainRead
<1>t. /\ UpstreamTypeOK /\ request \in [Slots -> {Free} \cup RequestRecord] /\ witness \in Witness
      /\ consecutive \in [Backends -> 0 .. ConsecutiveMax] /\ left \in [Backends -> 0 .. OutFor]
      /\ \A c \in Backends : left[c] > 0 => consecutive[c] >= FailuresBeforeOut
  BY DEF UpstreamInv, UpstreamTypeOK
<1>w. /\ witness.carried \in [Slots -> [Backends -> Nat]]
      /\ witness.reached \in [Slots -> SUBSET Backends]
      /\ witness.well \in [Slots -> SUBSET Backends]
      /\ witness.pinIn \in [Slots -> BOOLEAN] /\ witness.halfOpen \in [Slots -> BOOLEAN]
      /\ witness.faulty \in SUBSET Backends
  BY <1>t DEF Witness
<1>3. b \notin q.tried /\ turn' \in 0 .. Turns - 1
  BY <1>1, <1>t, ChoiceMade
<1>4. request' = [request EXCEPT ![r] = p]
  BY <1>t DEF SendAgain
<1>5. Moved(p, q, "sent", "none", b, q.tried, q.cookie)
  BY <1>2, RequestWritten, RequestRead DEF Steps, Outcomes
<1>6. h \in BOOLEAN
  OBVIOUS
<1>7. witness' = [witness EXCEPT !.given = Given(b), !.halfOpen = H]
  BY <1>1, Zenon
<1> HIDE DEF p, h
<1>8. H \in [Slots -> BOOLEAN]
  BY <1>6, <1>w, Zenon
<1>9. Noted(witness', witness.carried, witness.reached, witness.well, witness.pinIn,
            witness.faulty)
  <2>1. Given(b) \in [Backends -> Nat]
    BY <1>t, GivenCounted
  <2> HIDE DEF H
  <2> QED
    BY <2>1, <1>7, <1>8, <1>t, <1>w, WitnessWritten
<1>10. Course(p)
  BY <1>3, <1>5 DEF Moved, Course
<1>11. CarriedOut(p, witness.carried[r])
  <2>1. \A c \in Backends : witness.carried[r][c] > 0 => c \in q.tried
    BY <1>1, <1>2, RequestRead, AgainRead DEF CarriedOut
  <2>2. Once(q) => \A c \in Backends : witness.carried[r][c] = 0
    BY <1>1, <1>2 DEF CarriedOut
  <2>3. Once(p) = Once(q)
    BY <1>5 DEF Moved, Once
  <2> QED
    BY <1>5, <2>1, <2>2, <2>3 DEF Moved, CarriedOut
<1>12. Failing(p, witness.reached[r], witness.well[r])
  BY <1>2, <1>5 DEF Moved, Failing
<1>13. Pinned(p, witness.well[r], witness.pinIn[r])
  BY <1>2, <1>5 DEF Moved, Pinned
<1>14. NeverBlamedForAnother'
  BY <1>1, <1>9 DEF UpstreamInv, NeverBlamedForAnother, Noted
<1> QED
  BY <1>1, <1>3, <1>4, <1>5, <1>9, <1>10, <1>11, <1>12, <1>13, <1>14, <1>t, MovesOn DEF Moved

\* A visitor that stops sending is told so, and its backend was reached
\* (proxy/mod.rs, send_upstream).
LEMMA ClientStopsStep == ASSUME UpstreamInv, NEW r \in Slots, ClientStops(r) PROVE UpstreamInv'
<1> DEFINE q == request[r]
           p == [q EXCEPT !.step = "back", !.outcome = "client"]
           R == [witness.reached EXCEPT ![r] = witness.reached[r] \cup {q.at}]
<1>t. /\ UpstreamTypeOK /\ request \in [Slots -> {Free} \cup RequestRecord] /\ witness \in Witness
  BY DEF UpstreamInv, UpstreamTypeOK
<1>1. /\ q \in RequestRecord /\ q.step = "sent" /\ q.at \in Backends /\ ~q.whole
      /\ UNCHANGED <<consecutive, left, turn, condition, changes>>
  BY <1>t, Busy, RequestRead DEF ClientStops, Steps
<1>2. /\ Course(q) /\ CarriedOut(q, witness.carried[r])
      /\ Failing(q, witness.reached[r], witness.well[r])
      /\ Pinned(q, witness.well[r], witness.pinIn[r])
      /\ \A c \in Backends : witness.carried[r][c] <= 1
  BY <1>1 DEF UpstreamInv, Sound
<1>w. /\ witness.carried \in [Slots -> [Backends -> Nat]]
      /\ witness.reached \in [Slots -> SUBSET Backends]
      /\ witness.well \in [Slots -> SUBSET Backends]
      /\ witness.pinIn \in [Slots -> BOOLEAN] /\ witness.halfOpen \in [Slots -> BOOLEAN]
      /\ witness.faulty \in SUBSET Backends /\ witness.given \in [Backends -> Nat]
  BY <1>t DEF Witness
<1>3. request' = [request EXCEPT ![r] = p]
  BY <1>t DEF ClientStops
<1>4. Moved(p, q, "back", "client", q.at, q.tried, q.cookie)
  BY <1>1, RequestWritten, RequestRead DEF Steps, Outcomes
<1>5. witness' = [witness EXCEPT !.reached = R]
  BY Zenon DEF ClientStops
<1>6. R \in [Slots -> SUBSET Backends]
  BY <1>1, <1>w
<1> HIDE DEF p, R
<1>7. Noted(witness', witness.carried, R, witness.well, witness.pinIn, witness.faulty)
  BY <1>5, <1>6, <1>t, <1>w, WitnessWritten
<1>8. request'[r] = p /\ \A s \in Slots : s # r => request'[s] = request[s] /\ R[s] = witness.reached[s]
  BY <1>3, <1>t, <1>w DEF R
<1>9. Sound(r)'
  <2>1. Course(p) /\ CarriedOut(p, witness.carried[r])
    BY <1>1, <1>2, <1>4 DEF Moved, Course, CarriedOut, Once
  <2>2. Failing(p, R[r], witness.well[r])
    BY <1>2, <1>4 DEF Moved, Failing
  <2>3. Pinned(p, witness.well[r], witness.pinIn[r])
    BY <1>2, <1>4 DEF Moved, Pinned
  <2> QED
    BY <1>2, <1>7, <1>8, <2>1, <2>2, <2>3 DEF Sound, Noted
<1>10. ASSUME NEW s \in Slots, s # r PROVE Sound(s)'
  <2>1. Sound(s)
    BY DEF UpstreamInv
  <2> QED
    BY <1>7, <1>8, <1>10, <2>1, Elsewhere DEF Noted
<1>11. Faults' /\ NeverBlamedForAnother'
  BY <1>1, <1>4, <1>7, <1>8 DEF UpstreamInv, Faults, NeverBlamedForAnother, Moved, Noted
<1>12. UpstreamTypeOK'
  <2>1. request' \in [Slots -> {Free} \cup RequestRecord]
    BY <1>3, <1>4, <1>t DEF Moved
  <2> QED
    BY <1>1, <1>7, <2>1 DEF UpstreamInv, UpstreamTypeOK, Noted
<1> QED
  BY <1>9, <1>10, <1>11, <1>12 DEF UpstreamInv

\* A visitor that leaves takes its request along.
LEMMA ClientLeavesStep == ASSUME UpstreamInv, NEW r \in Slots, ClientLeaves(r) PROVE UpstreamInv'
<1> DEFINE C == [witness.carried EXCEPT ![r] = [b \in Backends |-> 0]]
           R == [witness.reached EXCEPT ![r] = {}]
           W == [witness.well EXCEPT ![r] = {}]
           P == [witness.pinIn EXCEPT ![r] = FALSE]
           H == [witness.halfOpen EXCEPT ![r] = FALSE]
<1>t. /\ UpstreamTypeOK /\ request \in [Slots -> {Free} \cup RequestRecord] /\ witness \in Witness
  BY DEF UpstreamInv, UpstreamTypeOK
<1>w. /\ witness.carried \in [Slots -> [Backends -> Nat]]
      /\ witness.reached \in [Slots -> SUBSET Backends]
      /\ witness.well \in [Slots -> SUBSET Backends]
      /\ witness.pinIn \in [Slots -> BOOLEAN] /\ witness.halfOpen \in [Slots -> BOOLEAN]
      /\ witness.faulty \in SUBSET Backends /\ witness.given \in [Backends -> Nat]
  BY <1>t DEF Witness
<1>1. /\ request' = [request EXCEPT ![r] = Free]
      /\ UNCHANGED <<consecutive, left, turn, condition, changes>>
      /\ witness' = [witness EXCEPT !.carried = C, !.reached = R, !.well = W, !.pinIn = P,
                                    !.halfOpen = H]
  BY Zenon DEF ClientLeaves
<1>2. /\ C \in [Slots -> [Backends -> Nat]] /\ R \in [Slots -> SUBSET Backends]
      /\ W \in [Slots -> SUBSET Backends] /\ P \in [Slots -> BOOLEAN] /\ H \in [Slots -> BOOLEAN]
  BY <1>w
<1>3. /\ \A b \in Backends : C[r][b] = 0
      /\ \A s \in Slots : s # r => /\ C[s] = witness.carried[s] /\ R[s] = witness.reached[s]
                                   /\ W[s] = witness.well[s] /\ P[s] = witness.pinIn[s]
                                   /\ request'[s] = request[s]
      /\ W[r] = {} /\ request'[r] = Free
  BY <1>1, <1>t, <1>w
<1> HIDE DEF C, R, W, P, H
<1>4. Noted(witness', C, R, W, P, witness.faulty)
  BY <1>1, <1>2, <1>t, <1>w, WitnessWritten
<1>5. Sound(r)'
  <2>1. Free \notin RequestRecord
    BY RequestRead
  <2> QED
    BY <1>3, <1>4, <2>1 DEF Sound, Noted
<1>6. ASSUME NEW s \in Slots, s # r PROVE Sound(s)'
  <2>1. Sound(s)
    BY DEF UpstreamInv
  <2> QED
    BY <1>3, <1>4, <1>6, <2>1, Elsewhere DEF Noted
<1>7. Faults' /\ NeverBlamedForAnother'
  <2>1. Free.step # "back"
    BY DEF Free
  <2> QED
    BY <1>1, <1>3, <1>4, <2>1 DEF UpstreamInv, Faults, NeverBlamedForAnother, Noted
<1>8. UpstreamTypeOK'
  <2>1. request' \in [Slots -> {Free} \cup RequestRecord]
    BY <1>1, <1>t
  <2> QED
    BY <1>1, <1>4, <2>1 DEF UpstreamInv, UpstreamTypeOK, Noted
<1> QED
  BY <1>5, <1>6, <1>7, <1>8 DEF UpstreamInv

\* Time brings backends back, and forgets nothing else (upstream.rs, OUT_FOR).
LEMMA TickStep == ASSUME UpstreamInv, TimePasses PROVE UpstreamInv'
<1>t. /\ left \in [Backends -> 0 .. OutFor] /\ OutFor \in Nat
      /\ \A b \in Backends : left[b] > 0 => consecutive[b] >= FailuresBeforeOut
  BY BoundsAssumption DEF UpstreamInv, UpstreamTypeOK
<1>1. /\ left' = [b \in Backends |-> IF left[b] > 0 THEN left[b] - 1 ELSE 0]
      /\ UNCHANGED <<consecutive, turn, request, condition, changes, witness>>
  BY DEF TimePasses
<1>2. /\ left' \in [Backends -> 0 .. OutFor]
      /\ \A b \in Backends : left'[b] > 0 => left[b] > 0
      /\ \A b \in Backends : left[b] = 0 => left'[b] = 0
  BY <1>1, <1>t
<1>3. UpstreamTypeOK'
  BY <1>1, <1>2, <1>t DEF UpstreamInv, UpstreamTypeOK
<1>4. Faults' /\ NeverBlamedForAnother'
  BY <1>1, <1>2 DEF UpstreamInv, Faults, NeverBlamedForAnother
<1>5. ASSUME NEW s \in Slots PROVE Sound(s)'
  <2>1. Sound(s)
    BY DEF UpstreamInv
  <2> QED
    BY <1>1, <2>1, Elsewhere
<1> QED
  BY <1>3, <1>4, <1>5 DEF UpstreamInv

\* A backend that breaks is no longer held to have been well.
LEMMA ChangeStep ==
  ASSUME UpstreamInv, NEW b \in Backends, NEW c \in Conditions, Change(b, c)
  PROVE  UpstreamInv'
<1> DEFINE W == [r \in Slots |-> IF c = "ok" THEN witness.well[r] ELSE witness.well[r] \ {b}]
           F == IF c = "ok" THEN witness.faulty ELSE witness.faulty \cup {b}
<1>t. /\ UpstreamTypeOK /\ witness \in Witness /\ condition \in [Backends -> Conditions]
      /\ changes \in 0 .. MaxChanges /\ MaxChanges \in Nat
  BY BoundsAssumption DEF UpstreamInv, UpstreamTypeOK
<1>w. /\ witness.carried \in [Slots -> [Backends -> Nat]]
      /\ witness.reached \in [Slots -> SUBSET Backends]
      /\ witness.well \in [Slots -> SUBSET Backends]
      /\ witness.pinIn \in [Slots -> BOOLEAN] /\ witness.halfOpen \in [Slots -> BOOLEAN]
      /\ witness.faulty \in SUBSET Backends /\ witness.given \in [Backends -> Nat]
  BY <1>t DEF Witness
<1>1. /\ changes < MaxChanges /\ changes' = changes + 1
      /\ condition' = [condition EXCEPT ![b] = c]
      /\ witness' = [witness EXCEPT !.well = W, !.faulty = F]
      /\ UNCHANGED <<consecutive, left, turn, request>>
  BY Zenon DEF Change
<1>2. W \in [Slots -> SUBSET Backends] /\ F \in SUBSET Backends
  BY <1>w
<1>3. /\ \A s \in Slots : W[s] \subseteq witness.well[s] /\ (c # "ok" => b \notin W[s])
      /\ witness.faulty \subseteq F /\ (c # "ok" => b \in F)
  OBVIOUS
<1> HIDE DEF W, F
<1>4. Noted(witness', witness.carried, witness.reached, W, witness.pinIn, F)
  BY <1>1, <1>2, <1>t, <1>w, WitnessWritten
<1>5. condition'[b] = c /\ \A x \in Backends : x # b => condition'[x] = condition[x]
  BY <1>1, <1>t
<1>6. Faults'
  <2>1. \A x \in Backends : condition'[x] # "ok" => x \in F
    BY <1>3, <1>5 DEF UpstreamInv, Faults
  <2>2. \A s \in Slots : \A x \in W[s] : condition'[x] = "ok"
    BY <1>2, <1>3, <1>5 DEF UpstreamInv, Faults
  <2> QED
    BY <1>1, <1>3, <1>4, <2>1, <2>2 DEF UpstreamInv, Faults, Noted
<1>7. NeverBlamedForAnother'
  BY <1>1, <1>3, <1>4 DEF UpstreamInv, NeverBlamedForAnother, Noted
<1>8. ASSUME NEW s \in Slots PROVE Sound(s)'
  <2>1. Sound(s)
    BY DEF UpstreamInv
  <2> QED
    BY <1>1, <1>3, <1>4, <2>1, Elsewhere DEF Noted
<1>9. UpstreamTypeOK'
  <2>1. condition' \in [Backends -> Conditions] /\ changes' \in 0 .. MaxChanges
    BY <1>1, <1>t
  <2> QED
    BY <1>1, <1>4, <2>1 DEF UpstreamInv, UpstreamTypeOK, Noted
<1> QED
  BY <1>6, <1>7, <1>8, <1>9 DEF UpstreamInv

\* A request that comes is sent to the backend its pin names, while it takes
\* requests, and otherwise to the one whose turn it is (proxy/mod.rs, forward).
LEMMA ForwardStep ==
  ASSUME UpstreamInv, NEW r \in Slots, NEW method \in Methods, NEW whole \in Bodies,
         NEW pin \in Pins, NEW b \in Backends, Forward(r, method, whole, pin, b)
  PROVE  UpstreamInv'
<1> DEFINE all == ~Followed(pin) /\ AllOut(Backends)
           p == [step |-> "sent", method |-> method, whole |-> whole, pin |-> pin, at |-> b,
                 tried |-> {}, allOut |-> all, outcome |-> "none", cookie |-> NoBackend]
           well == {x \in Backends : condition[x] = "ok"}
           pinIn == pin \in Backends /\ left[pin] = 0
           h == consecutive[b] >= FailuresBeforeOut /\ TakingRequests(b)
           C == [witness.carried EXCEPT ![r] = [x \in Backends |-> 0]]
           R == [witness.reached EXCEPT ![r] = {}]
           W == [witness.well EXCEPT ![r] = well]
           P == [witness.pinIn EXCEPT ![r] = pinIn]
           H == [witness.halfOpen EXCEPT ![r] = h]
<1>t. /\ UpstreamTypeOK /\ request \in [Slots -> {Free} \cup RequestRecord] /\ witness \in Witness
      /\ turn \in 0 .. Turns - 1
  BY DEF UpstreamInv, UpstreamTypeOK
<1>w. /\ witness.carried \in [Slots -> [Backends -> Nat]]
      /\ witness.reached \in [Slots -> SUBSET Backends]
      /\ witness.well \in [Slots -> SUBSET Backends]
      /\ witness.pinIn \in [Slots -> BOOLEAN] /\ witness.halfOpen \in [Slots -> BOOLEAN]
      /\ witness.faulty \in SUBSET Backends
  BY <1>t DEF Witness
<1>1. /\ request' = [request EXCEPT ![r] = p]
      /\ IF Followed(pin) THEN b = pin /\ UNCHANGED turn ELSE ChooseExcept({}, b)
      /\ UNCHANGED <<consecutive, left, condition, changes>>
      /\ witness' = [witness EXCEPT !.carried = C, !.reached = R, !.well = W, !.pinIn = P,
                                    !.halfOpen = H, !.given = Given(b)]
  BY Zenon DEF Forward
<1>2. turn' \in 0 .. Turns - 1
  BY <1>1, <1>t, ChoiceMade
<1>3. /\ p \in RequestRecord
      /\ p.step = "sent" /\ p.method = method /\ p.whole = whole /\ p.pin = pin /\ p.at = b
      /\ p.tried = {} /\ p.outcome = "none"
  <2>1. all \in BOOLEAN
    OBVIOUS
  <2>2. NoBackend \in Pins
    BY DEF Pins
  <2> HIDE DEF all
  <2> QED
    BY <2>1, <2>2 DEF RequestRecord
<1>4. pinIn => b = pin
  BY <1>1 DEF Followed, TakingRequests
<1>b. pinIn \in BOOLEAN /\ h \in BOOLEAN /\ well \in SUBSET Backends
  OBVIOUS
<1> HIDE DEF p, pinIn, h
<1>5. /\ C \in [Slots -> [Backends -> Nat]] /\ R \in [Slots -> SUBSET Backends]
      /\ W \in [Slots -> SUBSET Backends]
  BY <1>w, <1>b
<1>6. P \in [Slots -> BOOLEAN] /\ H \in [Slots -> BOOLEAN]
  BY <1>w, <1>b, Zenon
<1>7. /\ \A s \in Slots : s # r => /\ C[s] = witness.carried[s] /\ R[s] = witness.reached[s]
                                   /\ W[s] = witness.well[s] /\ P[s] = witness.pinIn[s]
                                   /\ request'[s] = request[s]
      /\ W[r] = well /\ P[r] = pinIn /\ R[r] = {} /\ request'[r] = p
      /\ \A x \in Backends : C[r][x] = 0
  BY <1>1, <1>t, <1>w
<1>8. Given(b) \in [Backends -> Nat]
  BY <1>t, GivenCounted
<1> HIDE DEF C, R, W, P, H
<1>9. Noted(witness', C, R, W, P, witness.faulty)
  BY <1>1, <1>5, <1>6, <1>8, <1>t, WitnessWritten
<1>10. Sound(r)'
  <2>1. Course(p) /\ CarriedOut(p, C[r]) /\ Failing(p, R[r], W[r]) /\ Pinned(p, W[r], P[r])
    BY <1>3, <1>4, <1>7 DEF Course, CarriedOut, Failing, Pinned
  <2>2. \A x \in Backends : witness'.carried[r][x] <= 1
    BY <1>7, <1>9 DEF Noted
  <2>3. /\ request'[r] = p /\ witness'.carried[r] = C[r] /\ witness'.reached[r] = R[r]
        /\ witness'.well[r] = W[r] /\ witness'.pinIn[r] = P[r]
    BY <1>7, <1>9, Zenon DEF Noted
  <2> QED
    BY <2>1, <2>2, <2>3, Zenon DEF Sound
<1>11. ASSUME NEW s \in Slots, s # r PROVE Sound(s)'
  <2>1. Sound(s)
    BY DEF UpstreamInv
  <2> QED
    BY <1>7, <1>9, <1>11, <2>1, Elsewhere DEF Noted
<1>12. Faults'
  <2>1. \A x \in well : condition[x] = "ok"
    OBVIOUS
  <2> HIDE DEF well
  <2> QED
    BY <1>1, <1>3, <1>7, <1>9, <2>1 DEF UpstreamInv, Faults, Noted
<1>13. NeverBlamedForAnother'
  BY <1>1, <1>9 DEF UpstreamInv, NeverBlamedForAnother, Noted
<1>14. UpstreamTypeOK'
  <2>1. request' \in [Slots -> {Free} \cup RequestRecord]
    BY <1>1, <1>3, <1>t
  <2> QED
    BY <1>1, <1>2, <1>9, <2>1 DEF UpstreamInv, UpstreamTypeOK, Noted
<1> QED
  BY <1>10, <1>11, <1>12, <1>13, <1>14 DEF UpstreamInv

\* The invariant holds of a site whose backends are as they may be.
LEMMA UpstreamStart == UpstreamInit => UpstreamInv
<1> SUFFICES ASSUME UpstreamInit PROVE UpstreamInv
  OBVIOUS
<1> DEFINE F == {b \in Backends : condition[b] # "ok"}
<1>1. /\ consecutive = [b \in Backends |-> 0] /\ left = [b \in Backends |-> 0] /\ turn = 0
      /\ request = [r \in Slots |-> Free] /\ condition \in [Backends -> Conditions] /\ changes = 0
      /\ witness = [carried |-> [r \in Slots |-> [b \in Backends |-> 0]],
                    reached |-> [r \in Slots |-> {}], well |-> [r \in Slots |-> {}],
                    pinIn |-> [r \in Slots |-> FALSE], halfOpen |-> [r \in Slots |-> FALSE],
                    faulty |-> F, given |-> [b \in Backends |-> 0]]
  BY DEF UpstreamInit
<1>2. F \in SUBSET Backends /\ \A b \in Backends : condition[b] # "ok" => b \in F
  OBVIOUS
<1> HIDE DEF F
<1>3. witness \in Witness
  <2>1. /\ [r \in Slots |-> FALSE] \in [Slots -> BOOLEAN]
        /\ [r \in Slots |-> [b \in Backends |-> 0]] \in [Slots -> [Backends -> Nat]]
        /\ [r \in Slots |-> {}] \in [Slots -> SUBSET Backends]
        /\ [b \in Backends |-> 0] \in [Backends -> Nat]
    OBVIOUS
  <2> QED
    BY <1>1, <1>2, <2>1, Zenon DEF Witness
<1>4. UpstreamTypeOK
  <2>1. /\ consecutive \in [Backends -> 0 .. ConsecutiveMax] /\ left \in [Backends -> 0 .. OutFor]
        /\ \A b \in Backends : left[b] > 0 => consecutive[b] >= FailuresBeforeOut
        /\ turn \in 0 .. Turns - 1 /\ changes \in 0 .. MaxChanges
    BY <1>1, BoundsAssumption
  <2>2. request \in [Slots -> {Free} \cup RequestRecord]
    BY <1>1
  <2> QED
    BY <1>1, <1>3, <2>1, <2>2 DEF UpstreamTypeOK
<1>5. /\ witness.carried = [r \in Slots |-> [b \in Backends |-> 0]]
      /\ witness.well = [r \in Slots |-> {}] /\ witness.faulty = F
  BY <1>1
<1>6. Faults
  BY <1>1, <1>2, <1>5 DEF Faults, Free
<1>7. NeverBlamedForAnother
  BY <1>1 DEF NeverBlamedForAnother
<1>8. ASSUME NEW r \in Slots PROVE Sound(r)
  <2>1. Free \notin RequestRecord
    BY RequestRead
  <2>2. request[r] = Free /\ \A b \in Backends : witness.carried[r][b] = 0
    BY <1>1, <1>5
  <2> QED
    BY <2>1, <2>2 DEF Sound
<1> QED
  BY <1>4, <1>6, <1>7, <1>8 DEF UpstreamInv

\* Every step keeps the invariant (upstream.rs, proxy/mod.rs).
LEMMA UpstreamStep == UpstreamInv /\ [UpstreamNext]_upstreamVars => UpstreamInv'
<1> SUFFICES ASSUME UpstreamInv, [UpstreamNext]_upstreamVars PROVE UpstreamInv'
  OBVIOUS
<1>1. CASE TimePasses
  BY <1>1, TickStep
<1>2. ASSUME NEW b \in Backends, NEW c \in Conditions, Change(b, c) PROVE UpstreamInv'
  BY <1>2, ChangeStep
<1>3. ASSUME NEW r \in Slots, NEW method \in Methods, NEW whole \in Bodies, NEW pin \in Pins,
             NEW b \in Backends, Forward(r, method, whole, pin, b)
      PROVE  UpstreamInv'
  BY <1>3, ForwardStep
<1>4. ASSUME NEW r \in Slots, Answer(r) \/ ClientStops(r) \/ ClientLeaves(r) PROVE UpstreamInv'
  BY <1>4, AnswerStep, ClientStopsStep, ClientLeavesStep
<1>5. ASSUME NEW r \in Slots, Handle(r) PROVE UpstreamInv'
  BY <1>5, StreamBackStep, ToldStep, UnreachableStep, SendAgainStep, NoneLeftStep DEF Handle
<1>6. CASE UNCHANGED upstreamVars
  <2>1. ASSUME NEW s \in Slots PROVE Sound(s)'
    <3>1. Sound(s)
      BY DEF UpstreamInv
    <3> QED
      BY <1>6, <3>1, Elsewhere DEF upstreamVars
  <2> QED
    BY <1>6, <2>1 DEF UpstreamInv, UpstreamTypeOK, Faults, NeverBlamedForAnother, upstreamVars
<1> QED
  BY <1>1, <1>2, <1>3, <1>4, <1>5, <1>6 DEF UpstreamNext

\* The invariant, always (upstream.rs, proxy/mod.rs).
THEOREM UpstreamKnown == UpstreamSpec => []UpstreamInv
<1> QED
  BY UpstreamStart, UpstreamStep, PTL DEF UpstreamSpec

-----------------------------------------------------------------------------
(* What follows of it.                                                       *)

\* Every variable keeps its shape, and a backend is out only when it failed often
\* enough (upstream.rs).
THEOREM UpstreamTypeCorrect == UpstreamSpec => []UpstreamTypeOK
<1>1. UpstreamInv => UpstreamTypeOK
  BY DEF UpstreamInv
<1> QED
  BY <1>1, UpstreamKnown, PTL

\* No request is carried out twice where that must not be, and none asks a backend
\* again, whatever fails and however long the pool (may_send_again, send_upstream).
THEOREM NothingTwice == UpstreamSpec => []NeverTwice
<1>1. UpstreamInv => NeverTwice
  <2> SUFFICES ASSUME UpstreamInv, NEW r \in Slots
               PROVE  /\ \A b \in Backends : witness.carried[r][b] <= 1
                      /\ /\ request[r] # Free
                         /\ request[r].method # "repeatable" \/ ~request[r].whole
                         => \A b, c \in CarriedBy(r) : b = c
    BY Zenon DEF NeverTwice
  <2>1. Sound(r) /\ request[r] \in {Free} \cup RequestRecord
    BY DEF UpstreamInv, UpstreamTypeOK
  <2> QED
    BY <2>1 DEF Sound, CarriedOut, Once, CarriedBy
<1> QED
  BY <1>1, UpstreamKnown, PTL

\* A backend that always answered is never counted against, whatever visitors do
\* to their own uploads (send_upstream, client_gave_up).
THEOREM BlamedForItsOwn == UpstreamSpec => []NeverBlamedForAnother
<1>1. UpstreamInv => NeverBlamedForAnother
  BY DEF UpstreamInv
<1> QED
  BY <1>1, UpstreamKnown, PTL

\* A request is not turned away while a backend was well all along that it may be
\* sent to, for a pool no larger than ATTEMPTS (send_upstream).
THEOREM TheWellAreFound == UpstreamSpec => []ServedByTheWell
<1>1. UpstreamInv => ServedByTheWell
  <2> SUFFICES ASSUME UpstreamInv, NEW r \in Slots,
                      Ended(r), request[r].outcome \in {"unreachable", "all down"},
                      request[r].whole,
                      request[r].method = "repeatable" \/ witness.reached[r] = {},
                      Cardinality(Backends) <= Attempts
               PROVE  witness.well[r] = {}
    BY Zenon DEF ServedByTheWell
  <2>1. request[r] \in RequestRecord
    BY Busy DEF UpstreamInv, Ended, Steps
  <2> QED
    BY <2>1 DEF UpstreamInv, Sound, Failing, Ended, Unserved
<1> QED
  BY <1>1, UpstreamKnown, PTL

\* A visitor pinned to a backend in rotation that stays well is answered by it, and
\* any other is pinned to the one that answered (choose_pinned, stream_back).
THEOREM PinsHold == UpstreamSpec => []KeepsItsBackend
<1>1. UpstreamInv => KeepsItsBackend
  <2> SUFFICES ASSUME UpstreamInv, NEW r \in Slots,
                      Ended(r), Affinity, request[r].outcome \in {"answer", "5xx"},
                      request[r].method # "upgrade"
               PROVE  /\ (witness.pinIn[r] /\ request[r].pin \in witness.well[r]) =>
                             request[r].at = request[r].pin
                      /\ request[r].cookie =
                             IF request[r].at = request[r].pin THEN NoBackend ELSE request[r].at
    BY Zenon DEF KeepsItsBackend
  <2>1. request[r] \in RequestRecord
    BY Busy DEF UpstreamInv, Ended, Steps
  <2> QED
    BY <2>1 DEF UpstreamInv, Sound, Pinned, Ended
<1> QED
  BY <1>1, UpstreamKnown, PTL

=============================================================================
