------------------------------- MODULE Verdicts ------------------------------
(* What the checks of the proxy make of one request: the address lists of a    *)
(* policy, its country rules, its rules, the limit of the site, and how judge  *)
(* puts them together.  Operators only; what they are applied to is read by    *)
(* the steps of Edge, each at a moment of its own.                             *)
(*                                                                             *)
(* Addresses are numbers and a block of them is the pair of its ends, one      *)
(* family of the two the code keeps apart.  Which rules' conditions hold for a *)
(* request is part of the request; the zones, the decodings and the patterns   *)
(* that decide it are not modelled.                                            *)
EXTENDS Integers, Sequences, FiniteSetsExt, SequencesExt

CONSTANTS
    Top,      \* the last address there is
    Nobody    \* no country, no list, no limit, no block

\* Nobody is none of the words the verdicts are told in.
ASSUME VerdictsAssumption ==
    /\ Top \in Nat \ {0}
    /\ Nobody \notin {"On", "Off", "DetectionOnly", "Observed", "WouldChallenge", "WouldBlock",
                      "Allowed", "Blocked", "PublishedBlock", "PublishedChallenge", "Refuse", "Challenge"}

(***************************** The address lists ******************************)
\* coalesce's test whether a range begins inside the one before it or right
\* after it.  Nothing comes after the last address: saturating, it does not wrap.
Touches(start, end) == start <= IF end = Top THEN Top ELSE end + 1

Before(a, b) == a[1] < b[1] \/ (a[1] = b[1] /\ a[2] <= b[2])

coalesce(blocks) ==
    LET Absorb(out, range) ==
            IF out # <<>> /\ Touches(range[1], Last(out)[2])
            THEN Append(Front(out), <<Last(out)[1], Max({Last(out)[2], range[2]})>>)
            ELSE Append(out, range)
    IN FoldLeft(Absorb, <<>>, SetToSortSeq(blocks, Before))

\* Ranges::contains: the candidate is the last range that starts at or below.
contains(ranges, ip) ==
    LET i == Cardinality({k \in DOMAIN ranges : ranges[k][1] <= ip})
    IN i > 0 /\ ranges[i][2] >= ip

\* build_policies: the rows of the policy and those of every policy together,
\* and of the published lists those it chose and those chosen for every policy
\* that it has neither chosen itself nor muted.  A list not loaded adds nothing.
build_policies(p) ==
    LET own  == {c \in p.choices : c.whose = "own"}
        said == {c.list : c \in own} \cup p.muted
        used == own \cup {c \in p.choices : c.whose = "every" /\ c.list \notin said}
        Rows(type) == coalesce({r.block : r \in {r \in p.rows : r.type = type}})
    IN [allow |-> Rows("allow"), block |-> Rows("block"),
        feeds |-> {[response |-> c.response, ranges |-> coalesce(p.loaded[c.list])] :
                      c \in {c \in used : c.list \in DOMAIN p.loaded}}]

\* Lists::check, and Lists::lookup in it: allowed by hand, blocked by hand, then
\* a published list that blocks, then one that challenges.
check(lists, ip) ==
    LET Published(response) ==
            \E f \in lists.feeds : f.response = response /\ contains(f.ranges, ip)
    IN CASE contains(lists.allow, ip) -> "Allowed"
         [] ~contains(lists.allow, ip) /\ contains(lists.block, ip) -> "Blocked"
         [] OTHER -> CASE Published("Block") -> "PublishedBlock"
                       [] ~Published("Block") /\ Published("Challenge") -> "PublishedChallenge"
                       [] OTHER -> Nobody

\* ListCheck::of: the lists follow the mode of the policy they belong to.
ListCheck(site, p, ip) ==
    IF site.mode \in {Nobody, "Off"} THEN Nobody ELSE check(build_policies(p), ip)

list_verdict(listed) ==
    CASE listed \in {"Blocked", "PublishedBlock"} -> "WouldBlock"
      [] listed = "PublishedChallenge" -> "WouldChallenge"
      [] OTHER -> Nobody

(******************************** The findings ********************************)
Rank(d) == CASE d = Nobody -> 0 [] d = "Observed" -> 1
             [] d = "WouldChallenge" -> 2 [] d = "WouldBlock" -> 3

\* Wrong on purpose: what is said last is what is recorded.
stronger_Last(have, list) == IF list = Nobody THEN have ELSE list

stronger(have, list) == IF Rank(have) >= Rank(list) THEN have ELSE list

Clear == [score |-> 0, hits |-> {}, detection |-> Nobody, offence |-> FALSE]
Pass == [is |-> "Pass", findings |-> Clear]

merge(f, g) ==
    [score |-> f.score + g.score, hits |-> f.hits \cup g.hits,
     detection |-> stronger(f.detection, g.detection), offence |-> f.offence \/ g.offence]

(*************************** The rules of countries ***************************)
in_force(mode, list) == mode # "off" /\ list # {}

is_denied(mode, list, country) ==
    \/ mode = "block" /\ country \in list
    \/ mode = "allow" /\ country \notin list

\* refused_by: the policy's own rule and the one for every policy add up.
refused_by(geo, country) ==
    \/ in_force(geo.mode, geo.own) /\ is_denied(geo.mode, geo.own, country)
    \/ in_force(geo.all_mode, geo.all) /\ is_denied(geo.all_mode, geo.all, country)

\* GeoIpModule::inspect.  A country nobody knows is refused by no rule.
geo_inspect(mode, geo, country) ==
    CASE mode \in {Nobody, "Off"} \/ country = Nobody -> Pass
      [] OTHER ->
           CASE ~refused_by(geo, country) -> Pass
             [] mode = "DetectionOnly" /\ refused_by(geo, country) ->
                    [is |-> "Alert", findings |-> [Clear EXCEPT !.detection = "WouldBlock"]]
             [] OTHER -> [is |-> "Drop", findings |-> Clear]

(********************************* The rules **********************************)
\* Exclusion::silences and under_prefix: whole segments of the path as it is
\* forwarded; a rule of the catalogue is named by its number, another by its row.
silences(ex, rule, path, client) ==
    /\ IF ex.external # Nobody THEN rule.external = ex.external ELSE rule.id = ex.rule
    /\ IsPrefix(ex.prefix, path)
    /\ ex.client = Nobody \/ client \in ex.client[1] .. ex.client[2]

\* decide: nothing is enforced in DetectionOnly.  A refusal is an offence in
\* either mode, a challenge in neither.
decide(mode, level, f) ==
    LET found == [f EXCEPT !.offence = (level = "Block"),
                           !.detection = IF mode # "DetectionOnly" THEN Nobody
                                         ELSE IF level = "Block" THEN "WouldBlock"
                                         ELSE "WouldChallenge"]
    IN [is |-> IF mode = "DetectionOnly" THEN "Alert"
               ELSE IF level = "Block" THEN "Drop" ELSE "Challenge",
        findings |-> found]

Sum(rules) == FoldLeft(LAMBDA n, r : n + r.score, 0, rules)

\* The rules that hold for the request and are not silenced for it, in their
\* order, and those of them that score, challenge or block.
Running(rules, exclusions, v) ==
    SelectSeq(rules, LAMBDA r :
        r.id \in v.matches /\ ~\E ex \in exclusions : silences(ex, r, v.path, v.client))

Those(runs, action) == SelectSeq(runs, LAMBDA r : r.action = action)

\* A rule that blocks ends the scan: those after it are not looked at.
UpToTheFirst(runs) ==
    SubSeq(runs, 1, Min({k \in DOMAIN runs : runs[k].action = "block"}))

Found(runs, score) ==
    [Clear EXCEPT !.score = score, !.hits = {runs[k].id : k \in DOMAIN runs}]

\* WafModule::inspect.  A rule that blocks decides before any score does; one
\* that challenges is remembered while the rest are scored.
waf_inspect(p, v) ==
    LET runs  == Running(p.rules, p.exclusions, v)
        total == Sum(Those(runs, "score"))
    IN CASE p.mode \in {Nobody, "Off"} \/ p.rules = <<>> -> Pass
         [] OTHER ->
              IF Those(runs, "block") # <<>>
              THEN decide(p.mode, "Block", Found(UpToTheFirst(runs), p.threshold))
              ELSE IF total >= p.threshold THEN decide(p.mode, "Block", Found(runs, total))
              ELSE IF \/ Those(runs, "challenge") # <<>>
                      \/ p.challenge_threshold > 0 /\ total >= p.challenge_threshold
              THEN decide(p.mode, "Challenge", Found(runs, total))
              ELSE IF runs = <<>> THEN Pass
              ELSE [is |-> "Alert", findings |-> [Found(runs, total) EXCEPT !.detection = "Observed"]]

\* Pipeline::run over its two modules: the first that challenges or drops ends
\* it, and what those before it found is kept.
pipeline(geo, waf) ==
    LET Ends(d) == d.is \in {"Challenge", "Drop"}
        last == IF Ends(geo) THEN geo ELSE waf
    IN [is |-> CASE last.is = "Drop" -> "Block" [] last.is = "Challenge" -> "Challenge"
                 [] OTHER -> "Allow",
        findings |-> IF Ends(geo) THEN merge(Clear, geo.findings)
                     ELSE merge(merge(Clear, geo.findings), waf.findings)]

(******************************* The rate limit *******************************)
\* RateCheck::decision on a limit and the count with this request in it.  Only a
\* page being loaded is challenged, and not past twice the limit.
over(count, requests) == count.scaled > requests * count.window

decision(limit, count, page_load, cleared) ==
    IF limit = Nobody \/ count = Nobody THEN Nobody
    ELSE IF ~over(count, limit.requests) THEN Nobody
    ELSE IF limit.action = "block" THEN "Refuse"
    ELSE IF cleared THEN Nobody
    ELSE IF page_load /\ ~over(count, 2 * limit.requests) THEN "Challenge"
    ELSE "Refuse"

\* RateCheck::would.
would(limit, count, page_load, cleared) ==
    IF limit = Nobody THEN Nobody
    ELSE IF ~limit.watching THEN Nobody
    ELSE CASE decision(limit, count, page_load, cleared) = "Refuse" -> "WouldBlock"
           [] decision(limit, count, page_load, cleared) = "Challenge" -> "WouldChallenge"
           [] OTHER -> Nobody

(********************************** judge *************************************)
\* judge: the pipeline, skipped for an allowed address; a published list that
\* challenges; and what lists, Smart Protect and the limit would have done where
\* they only watch.  A verdict that is not Allow is added to by none of them.
judge(site, v, listed, watched, count, cleared, geo, waf) ==
    LET watching == site.mode = "DetectionOnly"
        said == IF listed = "Allowed" THEN [is |-> "Allow", findings |-> Clear]
                ELSE pipeline(geo, waf)
        asked == IF /\ said.is = "Allow" /\ listed = "PublishedChallenge"
                    /\ ~cleared /\ ~watching
                 THEN [said EXCEPT !.is = "Challenge"] ELSE said
        listing == IF watching THEN list_verdict(listed) ELSE Nobody
        blocking == IF watching /\ watched THEN "WouldBlock" ELSE Nobody
        limiting == would(site.limit, count, v.page_load, cleared)
    IN IF asked.is # "Allow" THEN asked
       ELSE [asked EXCEPT !.findings.detection =
                stronger(stronger(stronger(@, listing), blocking), limiting)]
=============================================================================
