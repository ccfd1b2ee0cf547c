# EasyWAF in TLA+

EasyWAF is a reverse proxy with a web application firewall and an administration
interface, one Rust process over one SQLite database. Requests are answered by
many tasks at once; configuration, counters and health are shared by all of
them; administrators change things while requests run, one SQL statement after
another and without transactions; tasks in the background renew certificates and
install what signed channels publish; a restore or an import replaces the database
under a service that may stop at any step. This directory holds models of the
parts where those things meet, the instances TLC checks, and proofs, for instances
of any size, of most of the safety properties.

Paths below are relative to `src/`, so `src/upstream.rs` is `src/src/upstream.rs`
in `PROJECT.json`.

Contents: [the system](#the-system), [the modules](#the-modules),
[the runs](#the-runs), [bounds](#bounds), [fairness](#fairness),
[where code and description part](#where-code-and-description-part),
[the proofs](#the-proofs), [not modelled](#not-modelled), [the plan](#the-plan).

## The system

For each component: the state it keeps, what changes it, what makes it hard, and
what it must get right.

| Component | State | Operations | Hard because | Correct when |
|---|---|---|---|---|
| Smart Protect (`smart_protect.rs`) | times of refusals per client, blocks and their ends, `BLOCK_COUNT`, three numbers in atomics | look up a block, count a refusal, block, evict, list, unblock, forget a policy, set the numbers | clock and numbers are read before the lock; `BLOCK_COUNT` is read without it; both tables have a cap | a block is earned, keeps its end, and is never overlooked; nothing counts while it runs |
| Accounts and sessions (`auth.rs`, `routes/accounts.rs`, `account.rs`, `login.rs`, `setup.rs`) | `users` rows, signed cookies in browsers | sign in and out, first-run setup, create, demote, suspend, delete, reset, change one's password, end sessions | every handler is several statements; a quarter second of bcrypt separates reading a row from minting a cookie | an administrator remains; a session dies with its password and stays dead; setup happens once |
| Backup and restore (`backup.rs`, `routes/backup.rs`, start in `main.rs`) | the database, its log, and five files beside it | stage, swap at the start, undo, report | a crash between any two file operations, operations that fail | a restore works or undoes itself, no commit is lost, the page says which |
| Migrations (`db.rs`) | the schema | 44 migrations at every start | a start may be cut off between any two statements, and a restored database is of any version | what is served has the schema of this version |
| Import and export (`import.rs`, `export.rs`, `routes/backup.rs`) | the held file, a working copy, the staged copy | export, preview, apply section by section, restart | the preview compares names with ids, the file leaves out what it may not carry, and the rows move on meanwhile | the result is the file; the preview told of it; the importer is not locked out |
| Configuration caches (`modules/generation.rs`, `waf.rs`, `geoip.rs`, `iplist.rs`, `proxy/mod.rs`) | a counter moved by triggers, the last value seen, entries with a stamp | read the counter, look up, load table by table, store | awaits between every read; loads race writes, reloads and each other; a query may fail | an entry is no older than its stamp; once writes stop, what is served is what is stored |
| Rule sets and policies (`routes/rules.rs`, `routes/policy.rs`, `rules_update.rs`) | rules per policy, what a policy says it holds, exclusions and list entries | install, update, put back and remove a set, take, switch and drop a rule, own rules, copy a policy, updates that apply themselves | a set is installed one row at a time by an administrator and the task at once, and the record of it is the last statement | what a policy says it holds it holds whole; a switch survives an update; it catches up |
| Sites (`routes/sites.rs`, listeners in `proxy/mod.rs`) | `sites`, `upstreams`, `site_ports`, `site_aliases`, `site_auth`; bound ports; the map of certificates | create, save, switch, delete, order a certificate | a save is a statement per table, two may interleave, the proxy is told at the end | a pool changes in place; every saved port answers; a redirect leads where somebody answers |
| Certificates (`acme.rs`, `tls.rs`, `routes/certs.rs`) | `certs` rows, the map in memory, tokens, accounts at the authority | upload, order, renew, delete | orders take minutes and end in an upsert by name; the sweep waits between orders | what is presented is what is stored; an upload is kept; what is due is renewed |
| Settings (`settings.rs`, `routes/settings.rs`, `main.rs`) | rows, and what the program uses of them | save, delete the management certificate, start | checks between statements, requests that end in the middle | what is in use is what is stored; a saved form never keeps the interface from opening |
| Backends (`upstream.rs`, `forward` in `proxy/mod.rs`) | a rotation counter, per backend failures in a row and the end of its time out | choose, send, retry elsewhere, report success or failure | health is read when a backend is chosen and written when the answer comes | nothing is carried out twice that must not be; a backend is blamed for its own failures only; it comes back |
| Order of the checks and WAF engine (`proxy/mod.rs`, `modules/waf.rs`, `modules/iplist.rs`, `modules/geoip.rs`) | the site as read, lists, countries and rules as cached | route, redirect, lists, rate limit, body, countries, rules, sign-in, challenge, forward, record | each is read at a moment of its own; a policy that watches must say what one that acts would do | a trial tells the truth; every row is accounted for |
| Rate limits (`rate_limit.rs`) | tallies in shards | count, make room, say how long to wait | the clock is read before the shard's lock | over the limit is earned |
| Sign-in gateway (`gateway.rs`, `routes/realms.rs`) | throttle, remembered credentials, session cookies, realms and their accounts | sign in by form or HTTP Basic, renew, sign out, test a directory, change accounts | bcrypt between reading an account and using the result; several requests past the throttle at once | a session follows its account; guesses are bounded |
| Challenges (`challenge.rs`) | pending images, signed clearance cookies | issue, answer, expire, evict, let through | caps are checked in one lock section and the image put in in another | an image is judged once; a clearance is earned; nobody's image is pushed out by somebody else |
| Slow clients and traffic (`slow_clients.rs`, `modules/traffic.rs`) | places per address, a queue | take and give back, queue, batch, write | a place must come back on every path; queue and batch have a limit | counts add up; a row is written, waiting or counted as dropped |
| Signed channels (`iplist_feeds.rs`, `rules_update.rs`) | three directories, the lists in memory | install a bundle, put back, load | renames and restarts between them; task and pages install at once | memory holds one bundle; the mirror is one bundle or none |
| Country database (`geo.rs`, `geo_update.rs`, `routes/updates.rs`) | the file, the one it replaced, the one held, labels | install, upload, put back, hold, apply, check | all stage at one path; a label is a row and the database a file | no half database stands where a whole one was; what is recorded as taken was had; what is said to be verified was |

How they interact:

- A request passes, in `proxy/mod.rs`: its connection's place, its site
  (configuration cache), Smart Protect, lists (cache), rate limit, body, country
  rules and WAF rules (cache), gateway, challenge, then a backend. A refusal by the
  rules goes back to Smart Protect; an answer goes back to backend health; each
  request ends as a row for the traffic writer.
- An administrator's request passes `auth.rs`, writes rows, and so moves the
  configuration generation; some handlers call a component directly
  (`smart_protect::forget_policy`, `tls::reload`, the listeners' channel).
- Background tasks install bundles, apply rule sets, renew certificates, take
  snapshots and write traffic.
- A restore or an import replaces the database beneath all of it, through a
  restart, which migrates what it finds.

## The modules

Each module's comments say which function an action is; `map` in `PROJECT.json`
gives the lines. An action is one atomic piece of the code: a section under a
lock, one SQL statement, one file operation, or the reading of shared state
before an await. What a task has read and has not yet used is kept in its own
record (`req`, `task`, `job`, `worker`, `reqs`); that is where the races live.

**SmartProtect** (with **SmartProtect_proofs**). `events` and `blocks` are the two
tables of `State`, `blockCount` the atomic, `numbers` the three atomics. A request
is refused in one action (`Refuse`, which reads the clock and the numbers) and
counted in another (`OffenceWhileBlocked`, `OffenceCounted`, `OffenceBlocks`,
the three outcomes of `offence_at` under the lock). Switching a policy off is the
row (`SwitchOff`) and then `ForgetPolicy`; requests see the row through the site
table (`ReloadSites`). `log` is history: the refusals counted per client, and the
numbers each was counted under, from its beginning or the last time it was dropped to make
room (`StillCounted`). `make_room` is translated with the median as
sorting gives it.

**Accounts** (with **Entry_proofs**). `users` is the table, `cookies` what browsers hold. A password is the
number of times it was set. Every handler is split at its statements: reading the
target, counting the other administrators, writing, ending the sessions. A crash
drops every request in flight. The session's age is `Forget`, at any time.

**AtomicRestore**, **Migrations** and **Restore** (with **Backup_proofs**). The first is the promise: one
database that counts, perhaps one that waits to replace it; it does so whole, or not
at all. `Restore` has the database, its write-ahead log, the staged file, the copy
kept aside, the marker, the reason and the outcome file, and one action per file
operation of `apply_staged_restore_at` and `finish_restore`. A start then runs the
migrations: `Migrations` has all 44 as what each needs, drops and adds, statement by
statement, and a schema is the set of what it holds. That they lead each of the 44 versions to
this one's schema is `MigrationsAssumption`, a closed statement that TLC evaluates on
every run of `Restore`; with 028 and 029 run by their numbers it is false. A database is abstracted to
which one it is, how many commits it holds, whether it will open, and in what its
schema differs from this version's (`drift`). `Live` and `Waiting` are the refinement
mapping: while a swap is pending, the copy kept aside is the database that counts.
`fate` is history: what was decided about the last restore. A start that finds no
swap to finish never judges the file it opens: `OpenPanics` asks for the database to
have been opened, as the code does.

**Import** (with **Backup_proofs**). A configuration is a record of its sections, and a file one of those an
export writes (`build`): names instead of ids, a set instead of its rules, keys and
accounts only when asked for. The preview is `diff_settings` to `diff_accounts`; an import
applies the sections in the code's order to a copy (the sites one by one, in the file's
order, which may be any), checks it, stages it and asks for a restart. Others may change the live database meanwhile.

**ConfigCache** (with **Rules_proofs**). One model of `PerSite`, of the site table and of the IP lists: they
differ in how many tables an entry is made of (`Parts`), whether a failed query
counts as no rows or ends the load (`KeepsFailures`), and whether published data
is part of the stamp. `history` keeps the tables as of every generation, which is
what the properties compare entries with.

**RuleSets** (with **Rules_proofs**). `rows` are the catalogue rules each policy holds, `own` the rules of
administrators, `held` and `hand` what a policy says it holds and what was taken by
hand, `entries` exclusions and lists. `job` is what the administrator's request and
the checker's task have left to do: rows of a set are installed, updated or put back
one statement at a time (`install_rule`, `restore_rule`, `sweep`), then the set is recorded (`record`).
What a job holds is a sequence of things to do, each with what is left of it (`rest`): the
rules of a bundle still to be written, the holdings still to be updated. Which of the rest is
next is always the same one (`Taken`), as a bundle has its rules in an order, and the proofs
use nothing of which. A start first adopts what an older version installed without recording it
(`Starts`). `torn` and `tangled` are history: where somebody was cut off, and where two were
at it at once.

**SiteTables**, **Sites** and **Certificates** (with **Hosting_proofs**). `SiteTables` is
what is computed from rows: the proxy's table and the certificate map; `With` is a row
inserted or replaced in any of the tables of the three. In `Sites` a save is one check of
the form and then a statement per table; `job` is the statement a
request has come to and what it read before it, `queue` the ports announced, `bound` those
the proxy has taken up. In `Certificates` an order goes from
registering the account over publishing its answer to the upsert by name; the sweep
reads its rows once and waits after failures; a reload of the map is read and put in
two steps. Each of the two sees of the other what its code reads: a form that chooses
a certificate, an order that ends.

**Upstream** (with **Upstream_proofs**). `consecutive` and `left` are the health, `turn` the rotation counter
modulo `Turns`. A request is chosen a backend for, sent, answered or broken off,
told of, streamed back. Backends are the environment: well, down or sick, and a
sick one may have carried a request out before it failed. `witness` is history
for the properties.

**Verdicts**, **RateLimit**, **Gateway** and **Edge**. The first two are operators:
what lists, countries, rules, limits and `judge` make of a request, and the sliding
window of a tally. `Gateway` is the realm: its accounts, the throttle, the credentials
remembered, cookies with their epochs, and each change an administrator makes. An account
is its name, so one that is deleted and added again is the same one at epoch 0; `gone` (the
names deleted and not added again) and `again` (those added again) are history. `Edge`
composes them: a request is a task whose steps are what `serve_site` does between two
awaits, from the read of the site table to the row for the traffic writer, and around
it are connections with their places and the writer with its queue. Its `scene` bounds
what TLC tries together and is not the code's.

**Challenges** (with **Entry_proofs**). `issue` is two lock sections with the drawing between
(`MakeRoom`, `PutIn`), each done by one of `Workers`; `Submit` is
`handle_verify`. Clearances are the time they have left; `Skip` is a request that
presents one, its own or somebody else's.

**BundleMirror** and **CountryDatabase** (with **Upkeep_proofs**). The mirror and its siblings `.new` and
`.old`, a file being the version it came with; one action per file written, removed
or renamed in `install_bundle`, one per file read in `reload`. The country database
likewise: `install` stages, moves away, moves in and labels; a fetched edition is
three files before it is recorded; a writer goes on writing into the file it opened,
wherever another has renamed it to.

**Settings** (also in **Upkeep_proofs**). The form's rows in the order they are stored, the checks between them,
what the running program takes into use, and what a start makes of the rows.

The MC modules define instances, symmetry sets and the joining of several modules
in one run. Modules joined so share no state: a behaviour of the run picks one `part`
and is one of that module's, and the others' variables stand still. A fairness
condition or a liveness property is then stated of the part it belongs to. They are
joined to keep the number of runs down, not to say anything about the modules
together (`MCSmartProtect`, of clients and of backends, is such a pair); `Edge`, `Restore` with `Migrations`, and `Sites` with `SiteTables` are the
compositions proper.

## The runs

`tlc -config <cfg> <module>`; each finishes within five minutes on two workers.

| Run | Asks | Properties that hold |
|---|---|---|
| `remembered` | What is remembered of a client: do the tables stay right at their caps, and is a block earned while refusals overtake each other and the numbers change? And of backends: where may one request go, and who is blamed? | `WithinCaps`, `NoneOverTheCount`, `BlockIsEarned`; `NeverTwice`, `ServedByTheWell`, `NeverBlamedForAnother` |
| `entry` | Who is let in: accounts with one administrator's request at a time and a death anywhere; images and clearances with three workers | `AnAdminRemains`, `SessionFollowsPassword`; `JudgedOnce`, `ClearanceIsEarned`, `LostToNobodyElse` |
| `backup` | Does a restore work or undo itself and serve a whole schema; is an import what its file and its preview say? | `EitherWorksOrUndoesItself` (the refinement of `AtomicRestore`), `ServesAgain`, `ServedSchemaIsWhole`; `ImportedIsTheFile`, `ToldWhatChanges`, `ImporterStays` |
| `rules` | Does a policy hold what it says it holds, and do caches follow what is stored? | `HeldIsWhole`, `SwitchIsTheOperators`, `SetsCatchUp`; `NeverOlderThanItsStamp`, `CachesSettle` |
| `upstream_together` | Where do two visitors with affinity go, and does a backend come back? | `KeepsItsBackend`, `ComesBack` |
| `upkeep` | Is an installation all or nothing, and is what is in use what is stored? | `OneBundleInMemory`, `NeverHalfAlone`; `WholeWhereItStood`, `TakenWasHad`; `InUseAsStored` |
| `hosting` | Do sites and certificates keep what they promise while two administrators, orders and the sweep are at it? | `PoolChangesInPlace`, `SavedPortsAnswer`; `AskedIsAnswered`, `PresentsWhatIsStored`, `UploadIsKept`, `DueAreRenewed` |
| `edge` | What is a request let through, refused, counted and recorded as, in eleven scenes? | `RowsAccounted`, `OverIsEarned`, `TrialTellsTheTruth`, `SessionFollowsAccount`, `GuessesBounded` |
| `accounts_two_admins` | And with two administrators at once? | `AnAdminRemains` is violated |
| `country_label` | Is a database that is said to be verified one that was? | `SaidToBeVerified` is violated |
| `site_with_certificate` | Is a visitor sent to HTTPS answered there? | `RedirectsWhereAnswered` is violated |
| `deleted_account` | Is a session that was ended honoured no more, under any name? | `SignedOutEverywhere` is violated |

The scenes of `edge` (`MCEdge`): *places*, connections of two addresses while the
balancer is trusted and is not; *limited* and *crowd*, a limit that is changed, and
more clients than a shard holds; *recorded*, the writer behind and a batch failing;
*trial* and *mixed*, policies that watch, of every mixture of lists, countries, rules
and limits; *away*, what is answered before the checks; *signed_in*, *offered* and
*guessed*, the gateway by form, by Basic and under guessing; *asked*, a directory in
every condition.

The following are further configurations of the same modules, run by hand. These
hold, and state the shape of a state or less than a run does. Those of Smart Protect,
of accounts and of challenges have no configuration any more, for they are proved:
`TypeOK`, `CountMatches`, `QuietWhileBlocked` and `BlockIsFixed`; `TypeOK`,
`RefusedForGood` and `SetupMakesTheFirstOnly`; `ChallengesTypeOK` and `CapsWithinWorkers`.

| Configuration | Holds |
|---|---|
| `MCBackup_further.cfg` | `TypeOK`, `NoForeignLog` (proved), `OutcomeTold`, `RealmSessionsEnd` |
| `MCRules_further.cfg` | `TypeOK`, `CacheTypeOK` and `StampNeverGoesBack` (proved), `SiteKeepsItsPolicy` |
| `MCUpstream_more.cfg` | `UpstreamTypeOK` (proved), `EvenRounds` |
| `MCUpkeep_further.cfg` | `TypeOK` and `SuccessIsReal` (proved), `LeftIntact`, `MemoryFollowsMirror`, `NotFollowedBack`, `DoorIsKept`, `WholeSavesServe` |
| `MCHosting_further.cfg` | `TypeOK` of `Sites` |
| `MCEdge_more.cfg` | `PlacesHeld`, `RetryAfterIsEnough`, `ProbePromisesASignIn` |

## Bounds

What each is, and why it is enough for the question asked:

- *Clients, tables, requests.* What goes wrong at a cap needs one client more than
  places; what goes wrong in an interleaving needs two tasks. The caps are
  constants (`MaxCounted`, `MaxBlocks`, `MaxPending`, `MaxPerShard`, `MaxPlaces`,
  `QueueSize`, `BatchSize`, `MaxFailures`), set to 2 or 3 in place of tens or
  thousands; the proofs cover every value for Smart Protect, challenges and backends. `MCSmartProtect` has
  either three clients and one request at a time, or one client and two requests, or no
  client and the backends. `MCUpstream` has two requests at once that may be repeated, or one
  of any kind (`InScene`).
- *Time.* `MaxTime` 3 covers a window of two, its end, and a block after it. Where
  time is a countdown (`left` of `Upstream`, clearances, challenges) it needs no bound.
  In `Edge` a scene has as many ticks as two windows and what follows them.
- *Counters.* `MaxLog` bounds the refusals counted against one client between two
  resets: with 2 and counts of 2 and 3 a block still happens, and one refusal more
  than it takes never does. `MaxEpoch`, `MaxPassword`, `MaxWrites`, `MaxPublished`,
  `MaxRestores`, `MaxIssued`, `MaxVersion`, `MaxEdition`, `MaxUploads`, `MaxChanges`,
  `MaxSaves`, `MaxSites`, `MaxActs`, `MaxAges` and `MaxImports` bound how often
  something new happens; the races of interest are of one change with one old
  reading, so one to three is enough, and the refuted sentences below show that
  violations appear at those sizes. `Turns` stands for 2^64: 4 in `remembered`, 2 for the two equal
  shares of `upstream_together`, and a multiple of the shares in `MCUpstream_more`, since at the
  wrap-around of the real counter one round may be uneven.
- *Failures.* `MaxCrashes`, `MaxStops`, `MaxKills`, `MaxStarts`, `MaxCuts`,
  `MaxFaults`, `MaxTrips`, `MaxErrors`, `MaxRefusals` bound what goes wrong. Two
  crashes in `backup` allow one in the swap or a migration and one in the start that
  undoes it.
- *Alternatives instead of products.* `Budgets` of `RuleSets` are six bounds of which
  a behaviour has one; `Scenes` of `Edge` are eleven. `MCUpkeep` lets one installer
  work with everything that may go wrong, or two with nothing going wrong: with both,
  an installation is neither, which `MCUpkeep_further` shows. `SavesOrAStop` of
  `MCHosting` allows three saves, or two and a stop.
- *Data.* A form is one of seven, four of them refused each for another reason; a
  configuration is a base with one or two sections otherwise, eighteen in all, and a
  file is an export of one, with or without keys and accounts; versions of a snapshot
  are 28 and 44, the first from before the migrations that rebuild tables, the second
  this version's. `Accounts_two_admins` and the refuted configurations keep these.
- *Deadlock* is checked in `remembered`, `entry` and `upstream_together`, where
  there is always a request to begin or a clock to tick. The others say
  `CHECK_DEADLOCK FALSE`: there the bounds on saves, acts and stops are used up in
  the end, and a behaviour stops when everybody is done.

Symmetry is used where nothing compares the values. Three runs with a liveness
property, `backup`, `rules` and `upstream_together`, use none. `hosting` takes the
administrators of `Sites` as interchangeable, and its liveness property is of
certificates: in a behaviour of those no administrator takes a step, so the states
the symmetry identifies are the same state.

## Fairness

Each specification states only what the code's scheduling gives.

- `Restore!FairSpec`: weak fairness of the steps of a start. systemd starts the
  service again (`Restart=on-failure`; `backup.rs` exits with a code for it) and a
  start runs straight through. Crashes are bounded, so `ServesAgain` says that the
  service comes up in the end; it is not claimed after the rename that puts the old
  database back has itself failed.
- `ConfigCache!FairSpec`: time passes, a request that began goes on, and requests
  for each site keep coming (strong fairness of `Ask`, since a task is now and then
  busy with another). Without traffic there is nothing to be fresh for. Writes are
  bounded, so `SettlesFresh` is about what is left once they stop.
- `RuleSets!FairSpec`: the checker's task keeps checking (its loop never ends, and it
  is started again with the service), and a request that began goes on. Nothing makes
  an administrator begin one. `CatchesUp` asks only that the last thing somebody did is
  not undone by them for ever.
- `Certificates`: a sweep every hour, its steps, and the passing of hours (`spawn_renewal_task`). No
  page need be used, and the authority may refuse `MaxRefusals` times; an authority
  that refuses for ever is not something the code can mend.
- `Upstream!FairSpec`, and `MCSpec` of `MCUpstream` with it: time passes. No request need arrive and no backend need
  answer; `ComesBack` holds all the same, since a time out only runs down.

Everything else is checked for safety only.

## Where code and description part

Four runs are expected to fail, and are in `PROJECT.json` as findings:

- `accounts_two_admins`: `would_orphan` counts the other enabled administrators in
  one statement and the demotion is another. Two requests at once pass the check
  and leave nobody. `entry` shows that with one such request at a time it holds.
- `country_label`: `revert` in `geo.rs` reads the label of the database that is being
  replaced and puts back the other one under it. An upload that a channel's edition
  replaced comes back as "channel", and is shown as verified.
- `site_with_certificate`: `request_cert_for_new_site` assigns the certificate after
  the map was rebuilt, and nothing rebuilds it again; the redirect goes by the row, so
  visitors are sent to a port that refuses them until something else is saved. The
  tutorial's handler does announce the site after the same statement.
- `deleted_account`: `post_account_delete` deletes the row, and says that its sessions have
  ended with it; `post_account_add` makes one with the column's default epoch of 0, and a
  cookie names its account by the username. A session of the deleted account from epoch 0
  is honoured again when the name is added again. So is what is remembered of HTTP Basic.
  `SessionFollowsAccount` exempts such names (`again`) from what it says of the password
  and of ended sessions; `edge` and `SessionsFollowAccounts` show it for all others.

The next configurations also name what holds; of what is listed here each states more
than the code does, and TLC refutes it when it is named alone (or with `-continue`). Each property's comment quotes
the sentence it comes from.

| Configuration | Refutes | By |
|---|---|---|
| `SmartProtect_switch_off.cfg` | `NoBlockOutlivesSwitchOff` | a request in flight is counted after `forget_policy`, and its block stays until it ends |
| `MCEntry_refuted.cfg` | `OldSessionsEnd` | a crash between the password and the epoch |
| | `FiftyAtATime` | two workers past the check at once |
| `MCBackup_further.cfg` | `AlwaysAtomic` | the rename back fails, and the marker is removed all the same |
| | `OnlyTheBadAreUndone` | a good restore whose start is interrupted before the marker goes is undone |
| | `AlwaysTold` | a crash between the marker and the outcome file |
| | `SubjectTold` | an import that was never swapped in leaves its reason for the next snapshot |
| | `PoliciesTold` | a rule of a set that was deleted by hand comes back, untold |
| | `StagedIsWhole` | two importers share `.import-work.db` (with the constants its last comment gives) |
| `Restore_upgrade.cfg` | `UpgradeIsWhole` | a start of a newer version cut off after the `ALTER` of 044: the next one takes the migration for done and serves without its triggers |
| | `StartsAgain` | cut off inside 041, which is not repeatable: every later start fails |
| `MCRules_further.cfg` | `CopiedWhole` | copying a policy leaves out a rule's further conditions and decodings |
| | `OneMoment` | two writes between two queries of one load |
| | `NothingPutBack` | two loads under one generation, the older one stored last |
| | `CachesSettleWhole` | a query that fails counts as no rows and is cached until the configuration next changes, where a comment says "for a moment" (`iplist.rs:526`) |
| `MCUpstream_refuted.cfg` | `OneLetThrough` | when its time is up every request may choose the backend |
| | `AllDownMeansAll` | a second backend loses a request that may not be sent again, and "all down" is said with a third one well |
| `MCUpkeep_further.cfg` | `YesterdaysOrTodays` | a stop between two renames leaves no mirror, and the next installation deletes `.old` |
| | `NeverHalf` | two installers share `.new` |
| | `NeverBackwards` | an edition held before the switch was moved is applied over a newer one |
| | `EveryStartOpens` | profile and suites are two statements: a request cut between them leaves a pair that offers nothing |
| | `BadListStoresNothing` | the rows of retention and maintenance are stored before a bad list is refused |
| `MCHosting_further.cfg` | `OneSitePerName` | an alias is compared with the hostnames of other sites, a hostname with no alias: a second site takes the name another has as an alias |
| | `RegisteredOnce` | the row read is the oldest (`ORDER BY id LIMIT 1`), which the settings form made without credentials; a registration adds a row after it, so each order registers anew |

Seen while reading, and kept in the model as the code has it, without a property:

- *Requests.* `proxy/mod.rs:925` says that from the step of the lists on every request
  leaves a row; a body that cannot be read, an oversized answer to a challenge and the
  answers of `handle_verify` leave none. With a policy that watches, a visitor with
  a clearance is recorded as one that would be challenged; with one that acts, a
  watched limit is not recorded for a visitor the policy challenges. `Retry-After` may
  be too little under a clock reading that was overtaken (`rate_limit.rs:295`).
- *Gateway.* Toggling an account reads and then writes.
- *Import.* Two sites that trade hostnames pass the plan and are refused by `UNIQUE`
  while being applied (`import.rs:139`). One's own password is replaced by the file's
  although the preview says the account is kept. A management password changed by an
  import does not end that account's sessions. What is committed between copy and swap
  is lost.
- *Sites.* Ordering a certificate from a site's page neither announces its port nor
  rebuilds the map, as the finding's.

## The proofs

Each theorem is about one component's specification, for every value of its constants
that its assumptions allow: any number of accounts, requests, backends, lists, sites,
certificates and administrators, any caps, and any bound on what may happen or go wrong.
The bounds of the runs are constants too, so a theorem covers what the runs cut off.
`tlapm` checks every leaf; the last step of a temporal theorem is the only one that is
temporal, and rests on an inductive invariant. TLC checked each invariant on the
instance of its component's run before it was proved.

| Module | Theorem | Says |
|---|---|---|
| `SmartProtect_proofs` | `TypeCorrect`, `CountCorrect`, `QuietCorrect`, `CapsCorrect` | `TypeOK`, `CountMatches`, `QuietWhileBlocked`, `WithinCaps`, always |
| | `BlockFixed`, `BlockEarned` | `BlockIsFixed`; `BlockIsEarned` |
| | `NoneGoesUncounted` | `NoneOverTheCount` |
| `Entry_proofs` | `AccountsTypeCorrect`, `SessionsFollowPasswords` | `TypeOK`; `SessionFollowsPassword` |
| | `RefusedForever` | `RefusedForGood`: a cookie refused for its epoch, or because its account is gone, is refused ever after; one refused because the account is suspended may be accepted again, if the service stops before the sessions are ended and the account is restored |
| | `AdminRemainsOneAtATime`, `SetupOnlyTheFirst` | `AnAdminRemains` and `SetupMakesTheFirstOnly`, with one administrator's request at a time |
| | `ChallengesTypeCorrect`, `NeverJudgedTwice`, `EveryClearanceEarned`, `LostToItsOwn` | `ChallengesTypeOK`, `JudgedOnce`, `ClearanceIsEarned`, `LostToNobodyElse` |
| | `OvershootBounded` | `CapsWithinWorkers`: a cap is overrun by the other workers at most |
| `Rules_proofs` | `CacheTypeCorrect`, `NeverOlder`, `NeverBack` | `CacheTypeOK`, `NeverOlderThanItsStamp`, `StampNeverGoesBack` |
| | `RulesInvariant` | the invariant of the tables and of the jobs |
| | `SwitchStaysTheOperators` | `SwitchIsTheOperators` |
| | `HoldsWhatItSays` | `HeldIsWhole` |
| `Upstream_proofs` | `UpstreamTypeCorrect`, `NothingTwice`, `BlamedForItsOwn`, `TheWellAreFound`, `PinsHold` | `UpstreamTypeOK`, `NeverTwice`, `NeverBlamedForAnother`, `ServedByTheWell`, `KeepsItsBackend` |
| `Upkeep_proofs` | `MirrorTypeCorrect`, `OneBundle`, `AMirrorIsWhole`, `WorkedWhenSaid` | `TypeOK`, `OneBundleInMemory`, `NeverHalfAlone`, `SuccessIsReal` |
| | `NoHalfADatabase`, `NoEditionSkipped` | `WholeWhereItStood`, `TakenWasHad` |
| | `GoesByWhatIsStored` | `InUseAsStored` |
| `Backup_proofs` | `WorksOrUndoesItself` | `Restore` implements `AtomicRestore` under `Live` and `Waiting` |
| | `AtomicIfUndoingWorks`, `NeverAnothersLog` | `AlwaysAtomic` where a rename back cannot fail; `NoForeignLog` |
| | `ServedIsWhole` | `ServedSchemaIsWhole`, of snapshots of every version |
| | `ImporterIsKept` | `ImporterStays` |
| | `ImportedAsTheFileSays`, `PreviewToldOfIt` | `ImportedIsTheFile` and `ToldWhatChanges`, with one import at a time |
| `Hosting_proofs` | `CertificatesKnown`, `AnswersAreThere`, `MapIsWhatIsStored`, `SweepsSpareUploads` | the invariant; `AskedIsAnswered`, `PresentsWhatIsStored`, `UploadIsKept` |
| | `SitesKnown`, `PoolsChangeInPlace`, `PortsAnswer` | the invariant; `PoolChangesInPlace`, `SavedPortsAnswer` |
| `Edge_proofs` | `EveryRowAccounted`, `PlacesGivenBack` | `RowsAccounted`, `PlacesHeld` |
| | `SessionsFollowAccounts`, `GuessesAreBounded` | `SessionFollowsAccount`, with its exemption of names that were deleted and added again; `GuessesBounded` |
| | `OverOnlyIfSent` | `OverIsEarned` |
| | `TrialsTellTheTruth` | `TrialTellsTheTruth` |

### Why the invariants are strengthened

*Smart Protect.* `QuietWhileBlocked` is not inductive by itself: a refusal is counted
under the clock reading it carries, and a block that is over for that reading could be in
force now only if the reading were ahead of the clock. `QuietInv` adds that it never is.
`LogMatches` ties the times kept per client to the history: they are the stamps of its
last entries, in order, no entry was counted before its own clock reading, and entries were
counted in the order they stand in. The loop in `record` looks only at the front of the
queue, where stamps need not be in order; but what stays at the front is inside the window
by its stamp, so it *reached the counter* inside the window, and everything behind it did
so later. That is what `BlockIsEarned` claims. `make_room` sorts the latest times and takes
the middle one; `Median` characterises it by how many lie below and how many do not lie
above, and the proof that more than half of the entries go uses nothing else.

`NoneGoesUncounted` is the other direction: a client with a block's worth of refusals
inside the window is blocked. Whom `make_room` drops starts over, by design, and in the
history too (`StillCounted`), so the theorem asks nothing of the cap. `LogSpent` says that a
refusal no longer kept had left the window of one that was counted later, or had earned a
block; so what lies inside the window of the present clock is kept, and what is kept
is fewer than a block takes.

*Accounts.* A session is the password's because epochs go up after every new password.
`SessionInv` says it of every cookie a browser holds and of those a sign-in has read and
not yet minted: none is ahead of its account's epoch, none names an id that was never given
out, and one at the epoch was minted on the present password unless a request that has
stored a new one has yet to end the sessions. `AdminInv` says that what `would_orphan`
found is still so when the statement it allows runs. It is inductive under
`OneAdminAtATime`, that no two requests of administrators overlap, and only there: the run
`accounts_two_admins` is the counterexample without it. Sign-ins, password changes, setups
and deaths of the service may come in between.

*Challenges.* The two lock sections of `issue` are why the cap alone is not inductive. `Room`
counts the images that wait and the workers that have found room together: by at most
the other workers they exceed the cap, for the whole store and for each address. `Unjudged`
(what waits has not been judged) and `Earned` (a clearance has at most the time left since
it was earned) are the other two.

*ConfigCache.* `History` says of the tables as of every generation that they only move
forward, which the triggers see to; `InOrder` that whatever a load has read, table by
table, is no older than the stamp it carries, and `KeptInOrder` the same of what is
stored. The stamp is read before the rows, and that order is all the proof uses.

*RuleSets.* The installer, the putting back and the removal work on one holding, a set in a
policy, a statement at a time; another job, or an administrator's single edit, may come
between any two. `Inv` says what each thing a worker has to do can be (`Things`), that only
one that has not begun waits behind the first (`Queued`), and of the first what the tables
hold for it (`FitsNow`): it writes no version newer than the mirror's, puts back only what
was kept of that set, copies into a policy that has nothing and that nobody else is at.
With it goes that every rule there is carries a version of its own set (`RowsFit`), so a rule
that says the same before and after a step was not written by it, and `SwitchIsTheOperators`
follows step by step. `HeldIsWhole` is claimed of a holding at rest, and what makes it hold lies in
those that are not. `WorkIsSound` follows a job alone at its holding: while it installs, each
rule of the version is written or still to be (or is in an administrator's hand); when it
comes to the record, what is not the version's is gone; while it puts back, the same of what
was kept. `Describes` says that what was kept is the version it names, if it was
kept from a holding that was whole (`PreviousSound`, and `UndoSound` for a request that has read it).
Where two are at one holding neither need come true, and `Together` says that this is always
known of: such a holding is `tangled` until a job that began and ended alone at it has
written it anew. A stop tangles what was being put back or removed, since nobody goes on with
that, and only tears what was being installed, since the next round installs it again.

*Upstream.* `Sound` is, for each request, where it is in its course (`Course`), whom it can
have been carried out by (`CarriedOut`), which backends it has found failing (`Failing`) and
where its pin sends it (`Pinned`); `Faults` is that a backend that was never anything but
well was not seen to fail. `ServedByTheWell` needs that the backends tried are as many as the
attempts made: the loop ends with a well one tried, unless there are more than `ATTEMPTS`.

*Upkeep.* `MirrorSound` follows an installation (`Progress`): what it has staged so far is of
its bundle, and before each rename the directory it moves is whole. `FromOne` is
`OneBundleInMemory` of the memory alone, and needs no such thing: a load that meets a second
bundle finds a digest that does not match. `CountrySound` does it for the database (`Way`).
Both are claimed while one installs at a time, as the properties are. In `Settings`,
`Follows` is `InUseAsStored` in the middle of a save: for each of the form's twenty-one
statements, what the program goes by already and what the request has just stored and is
about to take into use.

*Restore.* `BesideInv` says what each of the five files tells of the others (a marker with a
staged file means that the copy kept aside is the database; a log is of the database beside
it), `PlaceInv` which are there at each step of a start. With them every step maps to one
of `AtomicRestore` or to none. The rename that puts the old database back is the one step that
does not, when it fails; `UndoFailed` is the state after it, and the mapping stops there, as
in the run. For what is served, `DriftInv` adds that whatever can go back, or is copied, has this
version's schema; only a database that was swapped in and has not come up may have another.
`Migrations` names the schemas such a database comes by, statement by statement
(`Way`), and `Leads` says that from each of them a start goes on to another or is at this
version's schema. So a start that is not cut off stays on its way; one that is cut off finds
marker and copy, and goes back.

*Import.* `FileInv` says of the copy an import is at work on what each section has written and
what it has not touched yet (`Written`), by the section that comes next; at its end that is
`MadeSo`, which the staged copy and what was swapped in are. That a site is written as the file
has it, though the database would store nothing for what it names and does not find, follows
from what the plan checked: the policies, realms and certificates are there by then, and the
certificates that go are no site's (`SiteWrites`, `UnnamedGo`). What is told of a realm needs
that one whose row differs in nothing told comes out as it was: accounts only here stay, and
epochs move with a password or a switch (`RealmsTold`). `ImporterStays` asks less
(`ImportInv`): the importer's own row in any copy, half applied or not, has the role and the
switch of the live one, so it holds even when two share a working file. The other two are
refuted by that (`StagedIsWhole`), and stated under `OneImportAtATime`.

*Certificates.* `Published` ties tokens to orders: a name is presented to the authority after
its answer is published, and an answer is withdrawn with its order. `SweepInv` ties the
sweep's reading to serials: an upload among the rows it goes through came after it read
them. `MapInv` says that the map is what is stored, or somebody has still to read it, or has
read it as it is and not yet put it; and that one who has read an older one was passed, or
has another behind it.

*Sites.* `PoolHeld` is what a save alone at a pool finds: the backends it keeps in their rows,
those it has added, and all it read as long as it has something to add. The second part
of `PoolChangesInPlace`, that a pool is never empty on the way, follows, because a form has a
backend and a save adds before it removes. `SitePorts` says of each enabled site that a port
in its row has been announced, or that a request which holds the port is on its way to
announcing it (`Tells`); the extra ports may also wait for a request that has yet to replace
them or to take them up (`SeesExtras`). And a request that has read a site to switch it on
holds whatever port nobody else tells of: the row may change before it is switched, but
whoever changes it tells of the new ports.

*Edge.* Each step of a request either leaves the rows alone or hands one over (`RowsMove`), so
`TrafficInv` is about the writer alone: what is written, taken and waiting, one behind
the other, goes up, and is as long as the rows made less those dropped. `PlacesInv` adds to
`PlacesHeld` that an open connection took a place of its own address or none: what `Close`
gives back is then one of the places counted, whatever `trusts` says by now.

*Sign-in gateway.* `SessionFollowsAccount` is about a request on its way to the backend and the
realm it read when it came; what makes it hold lies in the cookies and in the credentials
remembered. `SessionInv` says of each that it was *proved*: the password is the one the account
had at that epoch, in every reading of the realm there is, the stored one and that of each
request under way, and the stored account is not behind that epoch. So a change must take the
account to an epoch nobody has read, which is what each of the handlers does but the one that
adds an account: a name that comes back starts over at an epoch that was read before. From then
on the name is in `again`, and the invariant asks nothing of what was proved under it; of every
other name that was deleted (`gone`) it keeps what it knew. Of a cookie it says besides that one that has
been ended is *dead* to the stored realm, and to the realm read by a request that came with it
after that: an epoch in it can never be equal again, unless the name is given out again (`Over`: dead,
or under a name in `again`). A sign-in whose account changed
while its password was checked mints a cookie that is dead already. `GuessInv` says that the times
the counter keeps of an address are the last of all those at which it guessed wrong (`TheLast`),
and that those left out are expired, unless as many are kept as may be (`LeftOut`): where fewer
than `MaxFailures` are in the window, all of the window is kept, so the throttle counts
right. Then those in the window and those still being checked are bounded together (`Room`),
and a wrong answer turns one of the second into one of the first.

*Rate limits.* `CountInv` compares a tally with the times themselves (`TallyOK`): its current
count is of requests counted since its window began, and with the previous one, of those
counted since the window before began. It is an inequality, because room in a shard is made
by forgetting tallies and a changed limit starts one afresh, and it speaks of when a request
was counted, not of the reading it was counted at, which may be of an earlier window
(`LimitOK`: a reading is never of later than now). A reading of an earlier window moves
nothing, so the slot of the tally is the reading's or a later one, and the two windows the
estimate weighs lie within the last two before the reading; the weighing itself is
arithmetic (`MoreThanTheLimit`).

*Trials.* `TrialTellsTheTruth` compares what the engine said of a request with what it would have
said with its policies switched on. `TrialInv` keeps what each step has found so far next to
the columns it was found by (`TrialOK`): a verdict is the engine's on the policy and the site the
request read, if both were read at one moment, and a request an allow list lets through is not
watched. The engine's passes over the rules are four functions of a prefix each, and the proof
needs of none of them what it computes: on trial and switched on they look at the same rules
(`Running`, `Those`), so the first block is found at the same place, and what is recorded as what
would have happened is the stronger of the two findings (`Stronger`).

### What the theorems assume

The `ASSUME`s of the modules, which TLC evaluates on every run. Beyond the bounds being
naturals and the sets being of their kind they say: the numbers are as `set_numbers` clamps
them and both caps are at least one (Smart Protect); workers, clients, those who install,
administrators, connections and requests under way are finitely many; a peer has an
address, a visitor who signs in types a name, and the realm that is a directory has no accounts
of its own, and a limit has a window of at least one (`Limit::of` makes no limit of another;
`Edge`); the value that stands for nothing is none of the engine's words, and every policy of
a scene has the columns the engine reads (`Verdicts`, `Edge`); the pool of a site is a sequence of distinct backends with
weights of at least one (the form refuses others, `UNIQUE(site_id, url)`); a channel has at
least one list; `None`, which stands for a missing value, is not a certificate's name, and
the renewal task is not a page. None restricts what an administrator or a visitor may send.
Of an import: configurations and files have their columns, a realm of accounts has no directory's
password and a directory no accounts, whoever imports has an account, and the management page
has its certificate (`ImportAssumption`).
`MigrationsAssumption` is of no constant: it is a statement about the 44 migrations as they
are written, which TLC evaluates, and which only `ServedIsWhole` uses.
`AdminRemainsOneAtATime`, `SetupOnlyTheFirst`, `AtomicIfUndoingWorks`, `ServedIsWhole`,
`ImportedAsTheFileSays` and `PreviewToldOfIt` have a further hypothesis, in their statements.
That of `ServedIsWhole` is that the first database is of this version: one that a new version is
installed over has no way back, and `UpgradeIsWhole`, the same property of it, does not hold.

### What stays with TLC

- Liveness (`ServesAgain`, `SetsCatchUp`, `CachesSettle`, `ComesBack`, `DueAreRenewed`) and
  anything with `ENABLED` or fairness is beyond the prover.
- What the 44 migrations make of a schema (`MigrationsAssumption`). It is computed by recursion
  over them, and what a recursion computes is found by induction over data, which these
  provers cannot do; of given migrations it is a matter of evaluation, and TLC evaluates it.
- `RetryAfterIsEnough` is about the least moment of a set that divisions and products define:
  arithmetic the solver does not do.
- The joined specifications of the `MC` modules: a theorem is of the component.

## Not modelled

- *Within the modelled components.* Smart Protect: allow lists and trusted proxies
  (they take no step), policies that only detect (same state, another answer).
  Accounts: the throttle of the management sign-in, names. Restore: scheduled
  snapshots; a power cut that loses what was written and not synced (a crash is a
  stop between two steps); the reason's removal and the outcome's writing are one step.
  Import: checks of single values; a write between the plan and the copy. RuleSets: columns
  no statement branches on. Sites: weights, headers, limits, a bind that fails; a site
  deleted and made again under its name between the check of a form and its `UPDATE ... WHERE
  name = ?`; a stop or a failure between the `DELETE` and the `INSERT`s of the other ports, and
  a failed query of them when a site is switched on; a row that moves between two of a form's
  checks. Certificates: the authority's protocol, a reload of the map whose query fails.
  Upstream: headers, bodies, timeouts other than as a failure. Gateway: the throttle's cap of
  50,000 keys, so `GuessesBounded` is of counters that are not full; `RateLimit` has the cap of
  a shard. Edge: which patterns hold of a request is a choice, the tunnel of a WebSocket,
  response headers. Migrations: what 027 logs, other indexes.
- *Components that have no module.* Transforms and the decoding of targets, parsers and
  the reading of addresses are functions on text with unit tests of their own; PGP and
  TLS are cryptography; logging, the audit trail, pages and assets keep no state another
  component reads; the configuration file is read once; packaging and documentation do
  not run.

## The plan

1. Done: the components above, and a proof of every safety property of the runs.
2. Proofs next: of `RateLimit`, that `wait_ms` is enough.
3. Then, in the models: the tutorial's handler that switches HTTPS on, the throttle of
   the management sign-in, the retention task, scheduled snapshots.

The hazards in `PROJECT.json` name the property that covers each, or the configuration
that shows what the code does.
