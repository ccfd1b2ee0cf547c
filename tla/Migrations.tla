----------------------------- MODULE Migrations -----------------------------
(* What every start of the service does to the schema of its database (db.rs). *)
(*                                                                             *)
(* A schema is the set of what it holds: <<table>>, and <<table, thing>> for   *)
(* the columns, unique indexes, rows and triggers that a migration adds or     *)
(* asks about.  A migration looks for its mark, and with it there runs         *)
(* nothing; without it, its statements run in order, each committed by itself  *)
(* unless they are in one transaction, which is then one statement here.       *)
(* Other indexes, and the columns a table is created with, are left out.       *)
EXTENDS Integers, Sequences, SequencesExt, FiniteSets, FiniteSetsExt

\* A statement adds and drops; one that is not `IF NOT EXISTS` fails when what
\* it adds is there, and all fail when what they need is not.
Statement(needs, drops, adds, strict) ==
    [needs |-> needs, drops |-> drops, adds |-> adds, strict |-> strict]

Of(table, things) == {<<table, t>> : t \in things}
Add(table, column) == Statement({<<table>>}, {}, {<<table, column>>}, TRUE)
Also(table, thing) == Statement({<<table>>}, {}, {<<table, thing>>}, FALSE)
Make(tables) == Statement({}, {}, {<<t>> : t \in tables}, FALSE)
Watch(tables) == Statement({<<t>> : t \in tables}, {}, {<<t, "triggers">> : t \in tables}, FALSE)
Data(tables) == Statement({<<t>> : t \in tables}, {}, {}, FALSE)
AddAll(table, columns) == [i \in DOMAIN columns |-> Add(table, columns[i])]

\* Rebuilt tables lose what was on them, their triggers too.
Rebuild(tables, gone, adds) ==
    Statement({<<t>> : t \in tables}, gone \cup Of("ip_rules", {"triggers"})
                                           \cup Of("ip_list_feeds", {"triggers"}), adds, FALSE)

Failing(s, schema) == ~(s.needs \subseteq schema) \/ (s.strict /\ s.adds \cap schema # {})
Applied(s, schema) == (schema \ s.drops) \cup s.adds

\* A migration: when it is skipped, and what it runs.
Once(mark, statements) == [unless |-> {mark}, only |-> {}, statements |-> statements]
Always(statements) == [unless |-> {}, only |-> {}, statements |-> statements]
Pending(m, schema) == m.unless \cap schema = {} /\ m.only \subseteq schema

-----------------------------------------------------------------------------

run_migration_001 == Always(<<Make({"users", "certs", "policies", "sites", "traffic_events",
                                    "geoip_rules", "acme_accounts"})>>)
run_migration_002 == Once(<<"sites", "listen_port">>, <<Add("sites", "listen_port")>>)
run_migration_003 == Always(<<Make({"waf_rules"})>>)
run_migration_004 == Once(<<"waf_rules", "external_id">>,
    <<Add("waf_rules", "external_id"), Also("waf_rules", "one per external_id")>>)
run_migration_005 == Once(<<"policies", "challenge_threshold">>, <<Add("policies", "challenge_threshold")>>)
run_migration_006 == Once(<<"settings">>, <<Make({"settings"}), Also("settings", "traffic_retention_days")>>)
run_migration_007 == Once(<<"policies", "geoip_mode">>, AddAll("policies", <<"geoip_mode", "geoip_countries">>))
run_migration_008 == Once(<<"waf_rules", "imported_pattern">>,
    AddAll("waf_rules", <<"imported_pattern", "imported_score", "imported_action">>))
run_migration_009 == Once(<<"sites", "tls_port">>, AddAll("sites", <<"tls_port", "tls_redirect">>))
run_migration_010 == Once(<<"certs", "acme_last_attempt">>,
    AddAll("certs", <<"acme_last_attempt", "acme_last_error", "acme_next_attempt", "acme_failures">>))
run_migration_011 == Once(<<"sites", "x_frame_value">>,
    <<Add("sites", "x_frame_value"), Also("sites", "x_frame_value moved")>>)
\* Corrections of patterns: only ever warned about.
run_migration_012 == Always(<<>>)
run_migration_013 == Once(<<"traffic_events", "matched_rules">>, <<Add("traffic_events", "matched_rules")>>)
run_migration_014 == Always(<<>>)
run_migration_015 == Once(<<"waf_rules", "rule_set">>,
    AddAll("waf_rules", <<"rule_set", "cloned_from_external_id", "cloned_from_version">>)
        \o <<Make({"policy_rule_sets"})>>)
\* Adopting older rules (RuleSets.backfill_rule_sets): only ever warned about.
run_migration_016 == Always(<<>>)
run_migration_017 == Once(<<"site_ports">>, <<Make({"site_ports"})>>)

run_migration_018 ==
    [unless |-> {<<"site_rule_exclusions">>, <<"policy_rule_exclusions">>}, only |-> {},
     statements |-> <<Make({"site_rule_exclusions"})>>]
run_migration_019 == Once(<<"traffic_events", "detection">>, <<Add("traffic_events", "detection")>>)
run_migration_020 == Once(<<"waf_rules", "cloned_from_set">>,
    <<Add("waf_rules", "cloned_from_set"), Also("waf_rules", "clones moved")>>)
run_migration_021 ==
    [unless |-> {<<"site_rule_exclusions", "client_cidr">>}, only |-> {<<"site_rule_exclusions">>},
     statements |-> <<Add("site_rule_exclusions", "client_cidr")>>]
run_migration_022 == Once(<<"users", "role">>,
    AddAll("users", <<"role", "enabled", "session_epoch", "last_login">>))
run_migration_023 == Once(<<"site_aliases">>, <<Make({"site_aliases"})>>)
run_migration_024 == Once(<<"ip_rules">>, <<Make({"ip_rules"})>>)
run_migration_025 == Always(<<Make({"config_generation"}), Also("config_generation", "the row"),
                              Watch({"waf_rules", "policies", "sites"})>>)
run_migration_026 == Once(<<"ip_list_feeds">>, <<Make({"ip_list_feeds"})>>)
run_migration_027 == Once(<<"ip_rules", "policy_id">>,
    <<Rebuild({"ip_rules", "ip_list_feeds", "site_rule_exclusions"},
              {<<"site_rule_exclusions">>, <<"site_rule_exclusions", "client_cidr">>},
              {<<"policy_rule_exclusions">>, <<"ip_rules", "policy_id">>, <<"ip_rules", "of one policy">>})>>)
run_migration_028 == Always(<<Watch({"policy_rule_exclusions", "ip_rules", "ip_list_feeds"})>>)
run_migration_029 ==
    [unless |-> {}, only |-> {<<"ip_rules", "of one policy">>},
     statements |-> <<Rebuild({"ip_rules", "ip_list_feeds"}, {<<"ip_rules", "of one policy">>}, {})>>]
run_migration_030 == Always(<<Make({"geoip_everywhere"}), Also("geoip_everywhere", "the row"),
                              Watch({"geoip_everywhere"})>>)
run_migration_031 == Once(<<"upstreams">>,
    <<Statement({<<"sites">>, <<"traffic_events">>}, {},
                {<<"upstreams">>, <<"sites", "target moved">>, <<"traffic_events", "upstream">>}, TRUE)>>)
run_migration_032 == Once(<<"sites", "affinity">>, <<Add("sites", "affinity")>>)
run_migration_033 == Always(<<Make({"policy_rule_set_previous"})>>)
\* Forgets empty holdings and orphan snapshots.
run_migration_034 == Always(<<Data({"policy_rule_sets", "policy_rule_set_previous", "waf_rules"})>>)
run_migration_035 == Always(<<Watch({"upstreams", "site_aliases", "certs"})>>)
run_migration_036 == Once(<<"policies", "smart_protect">>, <<Add("policies", "smart_protect")>>)
run_migration_037 == Once(<<"sites", "backend_tls_insecure">>, <<Add("sites", "backend_tls_insecure")>>)
run_migration_038 == Once(<<"settings", "tutorial_hidden">>, <<Also("settings", "tutorial_hidden")>>)
run_migration_039 == Once(<<"traffic_events", "user">>,
    <<Make({"auth_realms"}), Make({"auth_users"}), Make({"site_auth"}),
      Watch({"auth_realms", "auth_users", "site_auth"}), Add("traffic_events", "user")>>)
run_migration_040 == Once(<<"site_auth", "captcha">>, <<Add("site_auth", "captcha")>>)
\* The mark is the second of the two columns.
run_migration_041 == Once(<<"waf_rules", "conditions">>, AddAll("waf_rules", <<"negate", "conditions">>))
run_migration_042 == Once(<<"waf_rules", "transforms">>, <<Add("waf_rules", "transforms")>>)
run_migration_043 == Always(<<Make({"policy_values"}), Watch({"policy_values"})>>)
run_migration_044 == Once(<<"sites", "rate_limit_mode">>,
    AddAll("sites", <<"rate_limit_mode", "rate_limit_requests", "rate_limit_window", "rate_limit_action">>))

-----------------------------------------------------------------------------

Numbered == <<
    run_migration_001, run_migration_002, run_migration_003, run_migration_004, run_migration_005,
    run_migration_006, run_migration_007, run_migration_008, run_migration_009, run_migration_010,
    run_migration_011, run_migration_012, run_migration_013, run_migration_014, run_migration_015,
    run_migration_016, run_migration_017, run_migration_018, run_migration_019, run_migration_020,
    run_migration_021, run_migration_022, run_migration_023, run_migration_024, run_migration_025,
    run_migration_026, run_migration_027, run_migration_028, run_migration_029, run_migration_030,
    run_migration_031, run_migration_032, run_migration_033, run_migration_034, run_migration_035,
    run_migration_036, run_migration_037, run_migration_038, run_migration_039, run_migration_040,
    run_migration_041, run_migration_042, run_migration_043, run_migration_044>>

Latest == Len(Numbered)

\* The migrations of a version that has the first n of them, in their order:
\* 029 before 028, which puts back the triggers that 029 drops.
init(n) == SelectSeq([k \in 1..Latest |-> CASE k = 28 -> 29 [] k = 29 -> 28 [] OTHER -> k],
                     LAMBDA k : k <= n)

Chain(n) == [i \in 1..Len(init(n)) |-> Numbered[init(n)[i]]]
Migrations == Chain(Latest)

\* What a schema becomes with each statement of a migration, ...
Within(m, schema) ==
    LET upto[j \in 0..Len(m.statements)] ==
            IF j = 0 THEN schema ELSE Applied(m.statements[j], upto[j - 1])
    IN  upto

\* ... with a whole run of it, ...
Whole(m, schema) ==
    IF Pending(m, schema) THEN Within(m, schema)[Len(m.statements)] ELSE schema

\* ... and with each of a chain of them.
Through(chain, schema) ==
    LET upto[k \in 0..Len(chain)] ==
            IF k = 0 THEN schema ELSE Whole(chain[k], upto[k - 1])
    IN  upto

SchemaOf(n) == Through(Chain(n), {})[Len(Chain(n))]
Newest == SchemaOf(Latest)

\* Where a start is in the chain: the migration, and the next of its statements.
Beginning == [migration |-> 1, statement |-> 1]
Finished == [migration |-> Latest + 1, statement |-> 1]

\* Whether a statement fails, or changes something.
Tells(s, schema) == Failing(s, schema) \/ ~(s.adds \subseteq schema) \/ s.drops \cap schema # {}

\* Those of a migration, from one of its statements on.
TellingIn(k, from, schema) ==
    {j \in from..Len(Migrations[k].statements) : Tells(Migrations[k].statements[j], schema)}

\* The migrations from here on that have one; one that has begun goes on.
Due(schema, at) ==
    {k \in at.migration..Len(Migrations) :
        IF k = at.migration /\ at.statement > 1
            THEN TellingIn(k, at.statement, schema) # {}
            ELSE Pending(Migrations[k], schema) /\ TellingIn(k, 1, schema) # {}}

\* The next statement that fails or changes something, or none.
NextTelling(schema, at) ==
    IF Due(schema, at) = {} THEN Finished
    ELSE LET k == Min(Due(schema, at))
             from == IF k = at.migration THEN at.statement ELSE 1
         IN  [migration |-> k, statement |-> Min(TellingIn(k, from, schema))]

StatementAt(at) == Migrations[at.migration].statements[at.statement]

\* Past it, to the statement after it or to the next migration.
Past(at) ==
    IF at.statement < Len(Migrations[at.migration].statements)
        THEN [at EXCEPT !.statement = @ + 1]
        ELSE [migration |-> at.migration + 1, statement |-> 1]

-----------------------------------------------------------------------------
(* What the migrations promise of a start from a version's schema.           *)

\* The schema at each place such a start comes by.
Way(n) ==
    LET had == Through(Migrations, SchemaOf(n))
        begun == {k \in 1..Latest : Pending(Migrations[k], had[k - 1])}
    IN  {<<had[k - 1], [migration |-> k, statement |-> 1]>> : k \in 1..Latest + 1}
          \cup UNION {{<<Within(Migrations[k], had[k - 1])[j - 1], [migration |-> k, statement |-> j]>> :
                          j \in 2..Len(Migrations[k].statements)} : k \in begun}

\* It goes from one to another, and ends with this version's schema.
Leads(n) ==
    /\ <<SchemaOf(n), Beginning>> \in Way(n)
    /\ \E way \in {Way(n)} : \A place \in way : \E next \in {NextTelling(place[1], place[2])} :
          IF next = Finished THEN place[1] = Newest
          ELSE <<Applied(StatementAt(next), place[1]), Past(next)>> \in way

\* The migrations lead every version to this one's schema, and have nothing to do
\* on that: of the 44 versions there have been, for TLC to evaluate.
ASSUME MigrationsAssumption ==
    /\ \A n \in 1..Latest : Leads(n)
    /\ NextTelling(Newest, Beginning) = Finished

=============================================================================
