# Verification of the NBA data platform

TLA+ models of the parts of this repository in which several actors, failures
or reruns meet: the archive cache and its writers, the snapshot store, the
rate-limited client, the planning and acquisition of a season and the four older
acquisitions, the load of the core tables, of the games and of the statistics,
the audit of the statistics, the evaluation of prediction models, and the claim
of task slots. TLC checks the models on small instances; TLAPS proves the most
important theorems for every instance. Paths below are relative to the repository; `nba_data/` stands for `src/nba_data/`.

## The system and its parts

The data path is a pipeline. A **client** fetches Basketball Reference pages
slowly; an **acquisition** walks an approved manifest and stores each missing
page in the **archive cache** (a gzip body and a JSON provenance sidecar per
page); **parsers** and **loaders** turn cached pages into PostgreSQL rows,
offline; a read-only **API** and the **ML** package read the rows. Pages that
still change go to the append-only **snapshot store** instead of the archive.
Beside the pipeline, `scripts/claim_task.py` decides which task card may be
worked on in which Git worktree.

| Component | State it keeps | Operations | Talks to | What is hard |
|---|---|---|---|---|
| Archive cache writer (`scraping/cache_writer.py`) | body and sidecar file of each page, temp names | one call: check, write temps, publish body, publish sidecar, roll back | acquisitions call it; other processes share the directory | check-then-act between processes, rollback by path, kills between two publishes |
| Private page writers (`scraping/player_page_acquisition.py`, `nba_team_season_acquisition.py`) | the same files | check, write temps, check again, `os.replace` twice | their acquisitions | the same, without a refusing publish |
| Snapshot store (`scraping/snapshot_cache.py`) | one body and sidecar per observation | `write`, `latest`, `history`, `incomplete_writes`, recovery by hand | future acquisitions of mutable pages, readers | readers run beside writers; equal stamps; recovery |
| Client (`scraping/client.py`) | time of the last response, request count, retries of the page | `fetch` with pacing, 429 and 5xx retries, budget | acquisitions; the site | pacing across retries and slow answers, redirects inside one attempt |
| Season acquisition (`scraping/game_season_acquisition.py`, `cli/main.py`) | the position in the manifest, the results, the report | cache hit, fetch, store, stop, rerun | client, cache, operator | budget across retries, resuming, two runs at once, honest reports |
| Other acquisitions (`backfill_manifest.py`, `nba_team_season_acquisition.py`, `player_page_acquisition.py`, `game_pilot_acquisition.py`, `cache.py`) | the manifest, its position, the report | dry run, cache hit, fetch, check, write, stop, rerun | client, the archive they share | a write in place, failures outside the try block, what reruns of another command make of the damage |
| Games backfill (`scraping/offline_games_backfill.py`, `loaders/games.py`, `db/repositories/games.py`) | `core.games`, `core.players`, `stats.team_game_totals`, `stats.player_game_totals`, the report | gate, upsert, replace lines, commit or roll back per game; neutral-site pass | archive cache, database | partial failure, corrected pages, idempotence, order dependence |
| Stats backfills and loaders (`offline_*stats_backfill.py`, `loaders/team_season_stats.py`, `loaders/player_page_stats.py`, `db/repositories/stats.py`) | stats tables, the report | prepare, refuse duplicates, upsert row by row in savepoints, commit, exit code | archive cache, core tables, database | partial failure, duplicates, two commands on one table, honest exit codes |
| Offline pipeline (`cache_inventory.py`, `offline_processor.py`, `offline_loader.py`, `offline_backfill.py`, `loaders/team_season.py`, `db/repositories/core.py`) | `core` tables, the report | inventory, parallel parse, load page by page in savepoints, commit, save the report | archive cache, database, `backfill games` | isolation of a failed page, order of results, get-or-create between transactions |
| Season planning (`game_season_planning.py`, `game_season_manifest.py`, `parsers/league_schedule.py`) | draft manifests | plan the season page, the months, the box scores; select; validate | cache, the owner, acquisition, a site that goes on | pages of different ages, the boundaries of a season, approvals by hand |
| ML (`ml/`) | artifacts, the report | features, splits, fit, select, calibrate, test, publish | database | leakage of later results, two reads of one history, kills between two publications |
| Validation and audits (`validation/`) | the coverage artifact | build the artifact, audit | database, cache, saved reports | whether a pass is true of tables, pages and reports of different times |
| API (`api/`) | none | read-only queries | database | none for a model checker |
| Task slots (`scripts/claim_task.py`, `scripts/validate_tasks.py`) | the folder of each card in each worktree, the lock file | claim, resume; moves by skills and the owner | Git worktrees | scans beside unlocked moves, orphan locks, dependencies |
| Migrations, CI, legacy prototype | schema | run by hand | database | nothing concurrent |

The properties each part needs are listed with the modules below;
`PROJECT.json` lists the hazards, each at its line.

## Modules

Conventions: one action per step of the code that another actor can observe;
history variables, read by properties only, are marked "history"; definitions
named `X_Something` after a definition `X` are the faulty variants that show
that a property can fail, and are used by no specification.

### PageStore, CacheWriter, CacheWriterProofs

`PageStore` is the abstract promise for one page: a pending call may put its
body into an empty slot, add its sidecar to its own body, take its own body
back while the sidecar is missing, and then ends as *written* (the page is its
own), *failed* (it left nothing) or *abandoned* (killed, interrupted, or ended by a
clean-up that raised; it may have left anything the store allows).

`CacheWriter` is `write_html_to_cache_safely` with one action per file system
call. A file is named by the call that created it, which stands both for its
content and for the identity that `os.path.samestat` compares. `pc` is the
position of each call: the two existence checks of `_refuse_existing`, the two
temp files, `_publish` twice, `_remove_if_same_file` as *stat* then *unlink*,
and the `finally` block. `IOError` is any exception inside the `try` block,
`Interrupt` a `KeyboardInterrupt` (which `except Exception` does not catch) or
an error of the rollback itself, `Crash` a kill. `CleanFails` is an `unlink` of
the `finally` block that raises (line 83): the call then raises whatever it was
about to do, with temp names left over (`"unclean"`). Pages share no file, so one
page is enough.

### SnapshotCache, SnapshotCacheProofs

`SnapshotCache.write` (sidecar first), `latest` as listing the bodies, checking
each listed name's sidecar oldest first and reading the newest, and the
recovery of ADR 0022, which runs only while no writer does. Its `finally` block may
raise as the archive writer's may (`CleanFails`). Sidecar content and
file name agree exactly when both come from calls with one stamp. `LastStamp`
is the largest timestamp there is (`datetime.max`).

### Client

One client with its clock in seconds. `Send` is `_wait_for_rate_limit` and the
first request of an attempt; a reply arrives after some latency and is a page, a
429 with a `Retry-After`, a 5xx, another bad status or a transport error. A client
that follows redirects (`follows`: the default, switched off by
`acquire-game-season` only) may first get some: `Redirect` is the next request that
httpx sends inside the same `_client.get`, unpaced and uncounted, at most
`MaxRedirects` times. `attempts` counts what `request_count` counts, `requests`
what goes over the wire. Sleeping moves
the clock, and so do latencies and the caller's work between pages. Its theorem
stands beside those of its caller, in `SeasonAcquisitionProofs`.

### SeasonAcquisition, SeasonAcquisitionProofs

`acquire_game_season_manifest` composed with the client's retry loop and with
the page store (body visible first, sidecar second, body taken back if the
sidecar fails: the steps that `CacheWriter` is shown to implement). Several
operators run the manifest, again and again and at the same time. A run carries
the totals that `_build_report` takes from its results. The client counts
attempts (`count`), the loop counts requests of fetched pages (`live`). This command
follows no redirects, so an attempt is one HTTP request. A clean-up of the writer
that raises is a write that fails and leaves the page (`WriteFails`).

### GamesBackfill, GamesBackfillProofs

`_backfill_season`, `load_game` and `derive_neutral_sites` for one season. `db`
is what is committed, `tx` what the session sees; every flush of a load is an
action, after any of which the load may fail. A box score is one value; a row
carries the box it was written from, so "the row is up to date" is equality.
Pages change between runs. `check_game`'s field gates are one verdict,
`valid`; the gates that depend on the database (unnamed players) are modelled.

### StatsLoad, StatsLoadProofs

The commands `backfill stats`, `player-stats` and `player-postseason-stats`.
A run takes parsed pages one by one. `PrepareRow` is `_prepare_row` with its
checks in the order of the code, against core tables that `LoadCore` (a commit of
`backfill offline`) may extend at any moment; `RejectDuplicates` fails every
row of a page that shares its grain with another one; then each row is written
in a savepoint of its own: `SelectRow` is the upsert's SELECT, `WriteRow` its
flush, `UniqueViolation`, `DeadlockVictim` and `StatementFault` are its
failures. `PageFault` rolls back to the page's savepoint, `Commit` ends the
command's one transaction and `Crash` loses it. `table` is what is committed,
`work[r]` what the open transaction of run `r` has written, and reading, row
locks, the unique index and lock cycles are PostgreSQL's at READ COMMITTED. A
stored row has two columns that stand for all: the values, `"bad"` if they cannot
be converted, and the lineage, which is the page's path. `Upserted` is the unit of
work's comparison: a column, lineage included, is written only if the page says
something else than the SELECT returned, and is otherwise left as another
transaction may have written it since. History keeps, for each column, the run and
page that wrote it, and for the row the run that upserted it last, which
`updated_at` alone may have been written by. Of the
eight statistics tables per family two stand for all. The regular and the
postseason command share the loader and differ in their routes and in which
skipped rows make the exit code non-zero.

### CoreLoad, CoreLoadProofs

The command `backfill offline`. A run lists the cache file by file
(`InventoryFile`), hands the valid pages to a pool (`ProcessPage`, in any order
that the number of workers allows), and loads one page after the other: a page
that was not validated is skipped, the loader's gate may refuse it, and else it
is a list of get-or-create calls (`Gets`: those of the page itself, then those of
each row), each a SELECT and a flush, inside the page's savepoint. `UniqueViolation` is the INSERT that meets a row committed
after the SELECT, `StatementFault` any other failure, lock cycles included.
`Commit` ends the command's transaction, `SaveReport` writes the report, and a
`Crash` may come before or between them. `CreateBoxPlayer` is what `backfill
games` adds to `core.players`. `Passes` is `validate offline-database`.

A row of any core table is an entry of one function from natural keys to the one
attribute that loads give: a name, or a roster number. A fallback name is
`Bare`. The minor attributes (position, abbreviation) behave as these and are
left out. `Loaded` says what a page leaves without going through its calls (the
first name and the last number of its rows, a name that is there stays), and
`Replay` is the reference: the committed pages loaded one after the other. A file
is what reading and parsing make of it.

A SELECT of the model returns what is committed. SQLAlchemy may instead return
the object that the previous row of the same player has left in the session;
this can only differ when another transaction commits between the two, and
then the older value is as possible as a SELECT that ran earlier.

### Acquisitions, AcquisitionsProofs

`backfill acquire`, `acquire-nba-team-seasons`, `acquire-player-pages` and
`acquire-game-pilot` over one archive, one command at a time ("Sequential
only", as their docs ask) but in any order, killed and rerun. `run` is the
current command: where its manifest comes from (a file, a range of team
seasons, the player catalog with its filters), its position, its counters. The
actions follow the loop: hit, attempt, reply (page, 429, 5xx, bad status,
transport error), content check, write, publish, stop. The first command writes
with `HtmlCache.set` (final name, in place; then the sidecar), the pilot with
the archive writer, the other two with private copies of it that publish by
`os.replace`. Removing temp names or the body may raise as well, and the page stays
(`CleanupFails`). None of the four turns redirects off, so an attempt may cost
several HTTP requests (`sent`), of which the client and the reports count one. A
body is `none`, `partial` (an unfinished `set`), `junk` (a page
without the content that the other commands check for) or `whole`.

### SeasonPlan

The season page, the month pages it links and the selection of a season's
games, each in a draft that the owner approves before its pages are fetched,
over a site that goes on. A page is the day it was fetched: what it shows
follows from the season's calendar of rows (`listed` and `gone` are the days a
row appears on and disappears from its page), and the archive keeps it for
ever. `_select` with its play-in rule and its first-82-games rule,
`_require_season_page_covered`, `_listed_games` and the reviewed counts are
translated; `validate_game_season_manifest` is the contract of what the owner
files. The owner may slip once: a half-signed approval, a pasted foreign entry,
a page that does not parse. One fetch is one step here; `SeasonAcquisition` has
the batches and retries. What the league does is `SeasonPlanAssumption`, what an
entry of another season looks like `ForeignAssumption`. Its theorems are the last
part of `SeasonAcquisitionProofs`; definitions are named `PlanInit`, `PlanNext`,
`PlanSpec` so that one module can extend both.

### StatsAudit, StatsAuditProofs

`validate build-stats-coverage` reads the cached pages and writes the keys that
the stats tables should hold; `validate official-stats` judges the tables by
that artifact, the saved reports of the three backfills and the lineage of each
row. The audit reads tables, scope, artifact and keys in separate statements
(`CheckTables`, `CheckOracle`, one `CompareDimension` per dimension), and pages
appear, core loads and backfills commit in between. `Said` is a definition of
what pages say that does not use the normalizers. A backfill is one step;
`StatsLoad` has its interleavings.

### TeamFeatures, Evaluation

`TeamFeatures` is `team-pregame-v1` and Elo, with numbers replaced by what they
rest on: a rate is the set of games it accumulates, a rating the set of games
whose results have reached it, so that a leak is an element too many.
`Evaluation` is `ml evaluate`: the inventory gate, validation folds, finalists,
the walk from the simplest model to the most complex, calibration, the second
read and its comparison with the first, the test, and the publication of an
artifact directory and a report, neither ever replaced. Losses, intervals,
sigmoids and file contents are constants, functions of what the code computes
them from; the sum of validation losses stands for their mean. The command
reads twice in one REPEATABLE READ transaction; `run_evaluation` accepts any
reader, so a run may also read the database as it is (`snapshot = NONE`). Games
are loaded and scores corrected at any moment, runs overlap and are killed. Its
theorems are the second part of `SnapshotCacheProofs`.

### TaskSlots

`claim_task.py`: the lock file, the scan of `active/` and `review/` of every
worktree one folder at a time, the checks, the move, the release, kills and
orphan locks; and beside them every move of a card that takes no lock
(prepare, submit, close, park, note the resumption, merge another worktree's
result). These moves are made by skills and the owner and are external. Its
theorems are the second part of `CacheWriterProofs`: both are protocols in which
the creation of a file excludes other processes.

## Runs

| Run | Question | Instance | Result |
|---|---|---|---|
| `cache_writer` | do concurrent writers keep the page store's promises? | 3 calls, one without metadata, a body or sidecar already there or not | 35,271 states, holds |
| `snapshot_cache` | is the store append-only and always readable? | 3 calls, two with one stamp; 1 reader; recovery | 70,652 states, holds |
| `client` | is every attempt paced and bounded, every redirect bounded, every Retry-After honoured? | 2 pages, settings 6/20/30 per minute and 1 or 8 s, redirects off or up to 2, latencies 0 and 7 s, Retry-After 0 and 90 s | 8,095,375 states, holds |
| `season_acquisition` | budget, report, resume and progress with two operators | 2 operators, 2 pages, budgets 1 and 2, one 5xx retry | 256,559 states, holds |
| `acquisitions` | what do four commands make of one archive with kills and I/O errors? | a shared team page, 2 players, 2 pilot pages, 8 manifest files, 2 sets of filters, up to one redirect per attempt | 259,476 states, holds |
| `season_plan` | is a season selected exactly, fetched as approved, never refused for good? | a season long over and one in progress, 2 games a team, one slip, pages of every age | 42,158 states, holds |
| `games_backfill` | whole games, true reports, flags of a whole season | 3 games, 3 boxes, 4 page changes, any number of runs | 322,756 states, holds |
| `stats_load` | do rows, lineage, report and exit code agree? | 2 runs of any of the 3 commands, serial or overlapping, up to 2 pages of up to 3 rows, 2 team pages; or 3 overlapping runs, a rerun among them, at one row | 651,704 states, holds |
| `core_load` | are the core tables exactly what the reports say? | 2 runs, serial or overlapping, 3 files of 2 pages, 2 workers, one file replaced, a box-score player, tables empty or loaded before | 343,505 states, holds |
| `stats_audit` | what does a passed audit mean, and does an honest load pass? | 2 team pages, a traded, once-listed or idle player, older rows, 5 loads, one change during an audit | 110,468 states, holds |
| `evaluation` | does a run learn from no later result, is a report of one history, is it published after kills? | 2 runs, 12 games in 6 seasons, 2 calendars, 4 candidates, 2 windows, one change, one kill | 7,152 states, holds |
| `task_slots` | slots, dependencies, bindings, lock | 2 worktrees, 2 data cards and a shared one, 2 claims | 868,374 states, holds |

Why the bounds are enough to be interesting:

- *cache_writer*: three calls let one be refused, one roll back and one publish
  at the same time; two cannot show a rollback that meets a third call's file.
- *snapshot_cache*: a collision needs two calls with one stamp, going back
  needs a second stamp; one reader suffices, because readers do not interact.
- *client*: 60/rpm is above, at and below the floor of 6 s; latencies and
  pauses are below and above the gap; two pages show the gap between pages and
  three replies per page both kinds of retry. `MaxPages` bounds the run. Two
  redirects in an attempt show one that follows another; the library stops at 20,
  and the theorem holds for any number.
- *season_acquisition*: a budget of 1 is smaller than the two requests one page
  may cost, 2 is spent inside or at the end of a page; two pages give a loop
  that goes on after a page. `Max5xx` is 1 of the code's 2: one retry is what
  the budget can cut off. A run without a budget takes no branch of its own; the
  theorems cover it.
- *acquisitions*: one page that two commands share, two pages per manifest (a
  loop that goes on, or ends early, after a failure), a manifest over its own
  limit, unapproved, with a duplicate, with a foreign page. One retry of each kind.
- *season_plan*: two games a team stand for 82: the first-games rule is off by
  one at any number. The old season's playoffs repeat a regular pairing; the
  new one has a Cup final, a game postponed into the next month, a play-in game.
  Days 10 to 18 see the new season from its first game to its end. One slip:
  two would be two manifests. `MAX_SEASON_URLS` is 6 for the code's 1400.
- *stats_audit*: the constraint `Auditing` ends a behaviour when the verdict is
  in, or when issues were found and no false alarm can come of it. `MaxLoads`
  counts core loads and backfills; five take in everything and rerun two. A row
  that an older parser left is there at first. One change while an audit runs.
- *evaluation*: six seasons are the least with a history season, two validation
  folds, the selection and the test season; the days put games on one date, on
  the next and beyond the two-day cutoff. `Corrected` names the games whose
  scores change: one of each kind of season. `MaxChanges` and `MaxKills` are 1:
  one change between the reads, one kill between the publications. The second
  calendar lacks a score, which must be filled before any run starts.
- *task_slots*: a second data card competes for a slot, depends on the first,
  and the shared card blocks both; a third claim adds only waiting.
- *games_backfill*: three home games of one team make a majority of cities and
  a tie possible; the boxes differ in city, in away team, in lines, in an
  unnamed player, and in the gates. `MaxChanges` bounds page changes: three
  load a season and the fourth corrects a page.

- *stats_load*: two commands suffice for a unique violation, a lock cycle and a
  row written between a SELECT and a flush, because each conflict is between
  two transactions. An upsert that writes nothing but `updated_at` over another's
  commit needs a row of an earlier command as well: `Three` has two runs over one
  page and a third over another page with the same key, in any order and overlap,
  once the core tables are loaded (constraint `Bound`). A traded player gives one season total on two team pages
  and on a player page, in a different order, which is what lock cycles need.
  The lists of pages contain a page that cannot be read, one without rows, rows
  with unusable values, of an unsupported table, for a season outside the
  archive, for a synthetic team, and two rows of one grain. Runs are
  interchangeable (symmetry).

- *core_load*: two files of one page give a duplicate; the two pages share a
  player under two names and a player of whom one page has only the season
  total; a file may become unreadable, another page's content, a marker row or
  no HTML. `MaxChanges` is 1: one replaced file already separates inventory
  from processing, and one run from the next. With two workers every order of
  results of one worker occurs too. The histories hold pages of an older parser,
  without names, with a player who is on no page any more. The pinned counts
  of the validator are those of two pages. It is taken as one snapshot.

`CoreIsUnion` says exactly which name wins for runs that do not overlap. When
they do, two runs may both read a fallback and the later commit's name replaces
the first one; then the run only shows that some given name is kept and no
fallback remains.

`PassMeansExact` is stated for a run whose own pages have the pinned counts: the
validator compares numbers, and rows of other pages could make up for missing
ones.

`RowIsOneParse` is stated for commands that do not overlap (`overlap = FALSE`).
When they do, a row may mix two parses: the upsert writes only the attributes
that differ from the row it read, and another command may have committed other
values, or another lineage, in between. `LoadedRowsPersist` and
`CleanExitMeansLoaded` therefore speak of each column, and leave it to any run that
committed while this one was under way, even one that committed first. Nothing in the code forbids two commands at once and no
document promises anything about them, so this is listed as a hazard.

Runs of calls or processes that end (`cache_writer`, `snapshot_cache`,
`client`, `stats_load`, `core_load`, `stats_audit`) do not check deadlock, because all
calls may be over; nor do `acquisitions`, `season_plan` and `evaluation`, where
an archive may be full, a season acquired, a history refused until somebody
changes it. The other systems must never be stuck, and deadlock is checked there.

### Fairness

- `CacheWriter`: weak fairness of each call's own steps. A started call is
  straight-line code with no wait; no fairness is assumed of faults, and none
  between calls.
- `SeasonAcquisition`: an operator keeps rerunning an unfinished manifest (the
  documented way to resume) and a running process goes on (weak fairness);
  processes are not killed for ever; a page that is asked for again and again is
  eventually served, and a write that is tried again and again eventually works
  (strong fairness of the successful outcome). Without the last two an outage
  that never ends would refute any progress property. Which budget an operator
  chooses is not constrained.

- `Acquisitions`: a running command goes on; the owner reruns each command over
  its full manifest again and again; outages end (`<>[][~Outage]`): kills, bad replies
  and transport errors, I/O errors of a write. A refusal to overwrite what an
  earlier run left is no outage: a page that its own command refused for ever
  would be found.
- `SeasonPlan`: days pass, the owner keeps planning, approving in full (strong
  fairness: a draft may be overwritten before it is signed) and acquiring.
- `Evaluation`: a run goes on and the owner runs the command until there is a
  report (weak fairness of a run's steps). Kills and changes are not fair; they
  are bounded. `Due` leaves out the case that a directory of the same model
  bytes with other metadata is in the way, left by an evaluation of another
  history: the command refuses until the owner removes it, as it says.

Nothing else is assumed fair; the other modules have safety properties only.

## Proofs

`CacheWriterProofs` proves, for any number of writers, that `Spec` implies
`[]TypeOK`, `[]SidecarDescribesBody`, `[]WrittenIsKept`, `[]RaisedLeftNoHalf`,
`[]SomeoneWins`, and that the writer refines `PageStore` (safety). Assumption:
`FilesAssumption` (there is a writer; file names are distinct). The properties
are not inductive: that a rollback removes nothing of another call needs to
know, for a call between *stat* and *unlink*, that the body is still its own,
and that at most one call owns the published body while its sidecar is missing.
`IInv` says which of body and sidecar each position of a call implies.
`RaisedLeftNoHalf` is what holds of "or leave nothing behind": a call whose clean-up
raises after it has published leaves its whole page.

`SeasonAcquisitionProofs` proves, for any manifest length, any budgets, any
5xx limit and any number of operators, `[]TypeOK`, `[]BudgetIsKept`,
`[]ReportCountsRequests`, `[]RunsResume` and `[]CompletedMeansCached`.
Assumption: `AcquisitionAssumption` (numbers are naturals). `IInv` relates the
two counters: up to the page being fetched the results' requests, the loop's
count and the client's count are equal (`Counts`), the client's count is within
the budget (`InBudget`), hits and fetched pages make up the position
(`Positions`), and every page behind the position is cached or was taken back
by another run (`Kept`). `OnePublisher` says that at most one run is between
body and sidecar of a page: without it a rollback could remove a page that a
second run believes it wrote.

`SeasonAcquisitionProofs` also proves, for every calendar that the assumptions allow,
every age of the cached pages and every slip, `[]SelectionIsExact` and
`FetchedAsApproved` of `SeasonPlan`. `SeasonPlanAssumption` says of the league and the site:

- a game has one row that is held; a postponed game's other row is gone from the
  page before a box score could be linked there;
- the play-in comes after the regular games and the Cup final, the playoffs after it;
- seasons without a Cup final (before 2023-24) were over before the project began,
  and pages that earlier work left of them are from after their end;
- where the first-82-games rule may be the one that applies (no play-in game, or a
  Cup final), every team plays its 82 games: 2019-20 and 2020-21 had a play-in
  game and no Cup final;
- the reviewed count is the number of regular games and Cup finals.

`ForeignAssumption`: a pasted entry is of another season than it claims, and if it
is a box score its day is outside the window of the claimed season. The windows of
two seasons overlap from August to October, where the contract is by its own comment
only a sanity bound; a game of a bubble October pasted into the next season's
manifest would pass. `PlanInv` says that pages are of days gone by, those of a
season that was over of after its end (`PagesInv`), and that drafts and manifests
name pages of the season, its games and foreign entries only (`IsManifest`).

A selection is exact because it has the reviewed number of games and is comparable
with the games that are due; two comparable finite sets of one size are equal.
With a play-in row listed, the selected games are of before it (`BeforePlayIn`).
Without one, a season without a Cup final is over, its listing is complete and all of
its regular games are within the 82 of both teams (`OverHasAll`); and a season with a
Cup final whose pages are too old to list the play-in is refused (`CupIsMissing`):
counted team by team, each game twice, no team has more selected games than its
82, so the selection is no larger than the regular games, and one game is missing
(`TeamByTeam`, `FirstGames`). TLC checked `PlanInv` on the run's instance.

`StatsLoadProofs` proves, for any pages, any set of commands and any number of
overlapping runs, `[]TypeOK`, `[]RowsAreReported`, `[]LoadedRowsPersist`,
`[]DuplicatesNeitherWin`, `[]RowIsOneParse` and `[]CleanExitMeansLoaded`: all that
the run checks. Assumption: `StatsLoadAssumption` (the cache holds sequences of
pages of rows; `NONE` is no run; commands are the modelled ones). What the tables
hold is decided when a transaction commits, so the invariants speak of open
transactions. `IInv`: every row in the transaction of a run, and every row in the
savepoint to which its current page may be rolled back, belongs to an entry
*loaded* of a closed page, or of the current one (`WorkIsReported`,
`MarkIsReported`); a run commits once (`CommitsOnce`). `Kept` is the converse: no
row reported as loaded is missing from transaction or savepoint, except that a
later page replaced it. Without the savepoint half, `PageFault` could take back a
row of an earlier page. `Judged` says what the entry of each row may be at each
point of its page: rows of one grain are rejected together before the first is
written. For commands that do not overlap, `Serial` says that only one run has
anything open, so that the SELECT of an upsert still holds at its flush, and
`OneParse` that every stored, written and saved row then has all its columns from
the parse it names. `CInv` follows each column when commands do overlap: a column
in an open transaction was written by this run or is the committed one
(`WorkOrigins`, `MarkOrigins`), nobody else commits a row that the run has written
(`LocksExclude`), between a SELECT and its flush a column changes only by a run
that overtakes (`SeenIsRecent`), and so every column keeps what the report says, in
the transaction (`ColumnsKept`) and in the table (`TableIsKept`).

`AcquisitionsProofs` proves, for any pages, manifests, limits, filters and any
sequence of commands, kills and faults, `[]DamageIsBounded`, `[]ReportIsHonest` and
`ArchiveIsKept`: all the safety that the run checks. Assumption:
`AcquisitionsAssumption`. `IInv` has the parts `Archive` (what body and sidecar of a page
may be: a body is cut short only by a kill or a fault within `HtmlCache.set`, and
pages other than team pages are whole), `Position` (the command is within its
manifest), `InHand` (what the archive holds of the page in hand between two calls
of its writer), `Ledger` (hits and fetched pages are the pages behind the
position, all of them in the archive; what the dry run counted is what was
fetched, is still ahead or stopped the run) and `Tally` (the request counters agree
with the client's, with the page in hand left out). `Wire` bounds the HTTP
requests by the attempts and their redirects.

`StatsAuditProofs` proves, for any pages, histories and any interleaving of
builder, backfills, core loads and audit, `[]PassMeansCovered`, `[]PassMeansCurrent`
and `[]HonestLoadPasses`: all that the run checks. Assumption:
`StatsAuditAssumption` (finitely many files, pages are lists of rows). It rests on
lemmas about the normalizers: what the builder classifies as expected keys is
what the page says (`ClassifiedIsSaid`), and every statistic a backfill loads is
said by its page (`LoadedIsSaid`), with the rules for season totals, markers of
traded players and stints. `IInv` then follows the artifact from the pages it was
derived from (`Building`, `ArtifactIsDerived`, `OracleIsDerived`), the lineage of
each row (`Lineage`), and what each statement of the audit has established while
the tables are at rest (`Vetted`, `Accepted`, `Compared`). That there is no false
alarm needs the converse: `JInv` adds that a complete, clean backfill left the row
of every statistic that is due (`Ran`), that an artifact names files that are
there (`Sources`), and that no statement of an audit of honest tables has found an
issue (`NoAlarm`). The totals of the reports agree with the counts of the tables
because rows that do not collide have one key each (`KeysAreCounted`). TLC checked
`JInv` on the run's instance.

`SeasonAcquisitionProofs` also proves, for any settings, latencies, retry limits and
any number of pages, `[]RequestsArePaced` of `Client`. Assumption:
`ClientAssumption` (numbers are naturals, a rate is positive). `ClientInv`: the
attempts for a page are its replies, and the one in flight (`Attempts`); its HTTP
requests are within what the attempts so far may cost, and the one in flight still
has room for its redirects (`Costs`); the time
of the last response, from which the client measures, is not before the last
request (`Measured`); a `Retry-After` is over before the client may send again
(`Waited`).

`SnapshotCacheProofs` also proves, for any history of games, any corrections and any
number of overlapping, killed and repeated evaluations, `[]PublishedIsSound` of
`Evaluation`. Assumption: `EvaluationAssumption` (seasons are ordered; no database
has more played games of a season, quarantined ones left out, than the inventory
of reviewed manifests, and one row per game; a season is over two days before the
next one begins; dates and ids are numbers). `EvaluationInv`: `Tables` (every
database and snapshot is such a table), `RunInv` (the games of a first read passed
the gate; the second read of a tested run agrees with it), `Reported` (the report
is of a saved evaluation, and artifacts are only added). The gate compares numbers of games that have
a score; that the games are then *all* the games, with their scores, is a counting
argument: a game without a score would be one too many.

It proves `[]NothingLeaks` from the same invariant. `EvaluationInv` adds to it that
the games of a read are history rows of a table (`IsRead`). The features of a game among many targets
(`RowAmongMany`) and alone, from a schedule whose later results are hidden
(`RowAlone`), are one `TeamFeatureRow` of the same three parts: the ratings after
the scored games before the cutoff, the known games, the dates on the schedule. For
the ratings this is `SweepOfMany`: a target earlier in the order has no later
cutoff. That a prediction rests on earlier results only needs to know what a
rating rests on, which is a recursion over the games that are fed. The function is
defined for every history (`RatingsAreDefined`: a function that is right for sets
of up to n games gives one that is right up to n + 1), and its ratings hold no game that
was not fed (`RatingsRestOnFed`); both by the least size at which they could fail,
since an induction theorem cannot be instantiated, and with `LatestExists`, that of
finitely many games one is the last. Labels are of earlier seasons
(`LabelsAreEarlier`), hence known.

`SnapshotCacheProofs` proves, for any number of write calls and readers and any
timestamps, `[]StoreIsConsistent`, `[]ReaderNeverRaises` and `SnapshotsAreKept`:
all that the run checks. Assumption: `StampAssumption` (timestamps are numbers
up to a last one). `IInv` says where a call can be while a sidecar or a body of
its own is visible, that the sidecar is there until the body is published or the
rollback is over (`PublishedIsThere`), and that what a reader has listed still
has its body (`ReaderSeesBodies`). Hence no rollback and no recovery takes a
sidecar from a body. That `latest` finds an oldest and a newest snapshot at all
(`MinIsMember`, `MaxIsLargest`) follows from the well-ordering of the numbers.

`CacheWriterProofs` also proves, for any worktrees, tracks, cards, dependencies and any
number of claims at once, `[]SlotsRespected`, `[]StartedDepsDone` and
`[]HolderKeepsLock` of `TaskSlots`. Assumption: `TracksAssumption` (each worktree is bound to
one track or unbound, there is a worktree). A claim reads `active/` and `review/`
of one worktree after the other while cards move without the lock; `SlotsIInv` says
what its reading is worth at every point: a card in progress was seen, or the
folder it is in now is still to be read (`SeenOrToBeRead`), which holds because
`review/` comes after `active/` (`ReviewIsLast`) and because only the holder of
the lock puts a card in progress. So the decision is right for the cards of its
moment, and stays right until the move (`DecisionHolds`).

`GamesBackfillProofs` proves, for any games, teams, players, boxes, page changes
and any number of runs, `[]GamesAreWhole`, `[]ReportIsTrue` and `WritesAreDue`:
all that the run checks. Assumption: `BoxesAssumption` (a box's rows are of
teams and players; an away team is never a home team). `IInv` speaks of the open
transaction: how many of the current game's rows the flushes so far have put
right, and that every other game is as it is stored (`WorkIsWhole`); between two
games nothing is open (`SessionIsClean`); every selected game is still to come or
in one list of the report, and what the lists say is so (`ReportAddsUp`); a rerun
of a clean run has nothing to write at any flush (`RepeatIsIdle`).

`CoreLoadProofs` proves, for any files, contents, earlier loads, workers, box
players, changes of the cache and any number of overlapping runs, `[]TypeOK`,
`[]CoreIsUnion`, `[]ReportIsTrue` and `[]PassMeansExact`: all that the run checks.
Assumption: `CoreLoadAssumption` (the
files are a list of parsed pages, names are no fallbacks). `IInv` says what lists a
run has at which point (`Control`), that an entry is the parse of the file at its
place (`Entries`), which call of its page it is at (`Position`), that every row of
a finished call is in the tables as the run sees them, and every row of a loaded
page also in those of its savepoint and, after the commit, of everybody
(`Covered`), that the run has written no other row (`Contained`), and that the
tables have the rows of the log and no other (`Logged`). No step removes a row, so
a step of another run keeps all that (`Frame`). A pass compares numbers of rows: a
table that has the rows of the run and as many rows as the run has no other.

`IInv` settles which rows there are; `CoreIsUnion` also says which name or number
a row has, and that takes two more invariants. `AInv` is for runs that overlap:
two transactions have not written one row (`Exclusive`), a fallback is written
only where nobody has committed a row (`Locks`), a name that a SELECT found is
still a name at the flush (`SeenIsThere`), what a run has written was given by a
page it loaded or by a call it has done, after which the row has a name
(`Values`), and the tables have only what the log gave (`CoreValues`). `SerialInv`
is for runs that do not overlap: the tables are `Replay(log)`, and the one run in
progress sees the tables as its loaded pages leave them (`Before`) and, inside a
page, as the calls it has done leave those (`Expected`). Both were first checked
by TLC on the run's instance (`AInv` with a cache that does not change). The step from a call's SELECT and flush to what
`Loaded` says of a whole page is `CallLoads`; `AfterJoined` extends a replay by one
page, and `LoadedElsewhere` lets box players be added beside the run.

`TypeOK`, `WrittenIsKept` and `RaisedLeftNoHalf` of `CacheWriter` and `TypeOK`
of `SeasonAcquisition` and `StatsLoad` are theorems and no run repeats them.
The type invariants of the other modules are conjuncts of a property that a
run checks.

Only model-checked are the liveness properties, which are out of the prover's
reach: `EveryCallEnds`, `SeasonGetsDone`, `ArchiveGetsFilled`, `SeasonGetsAcquired` and
`ReportGetsPublished`. Every other property of a run is a theorem.

## Where code and documents differ

- `docs/validation/PLAYER_PAGE_CACHE_ACQUISITION.md:72` says "Never overwrite an
  existing cache file." The player-page writer checks the names and then
  publishes with `os.replace` (`player_page_acquisition.py:561`), which replaces
  what another process has put there in between; its rollback unlinks the final
  name whoever owns it. `tasks/done/F8-001` notes that the copies are safe for
  one sequential command only, and `Acquisitions` models that case, in which
  `ArchiveIsKept` holds. Newer acquisitions use the archive writer, which
  refuses (`cache_writer`).
- `docs/validation/GAME_DATASET_ACQUISITION.md:343` says "The load is
  idempotent: a rerun reports every game `unchanged`." A game quarantined for a
  player who has neither a row nor link text is loaded by a rerun once a later
  game of the first run has created the player (`loaders/games.py:192`). What
  holds is `WritesAreDue`: a rerun of a run without quarantines writes nothing.
- `README.md:141-142` says "never exceed 20 requests/minute" and "minimum 6 seconds
  between requests", and `client.py:94` documents `request_count` as the number of
  HTTP requests attempted. The default client follows redirects (`client.py:61`),
  and httpx sends the requests that follow one at once and inside the same counted
  attempt. `RequestsArePaced` and `ReportIsHonest` state what holds: attempts are
  paced and counted, and an attempt costs at most its redirects more. Only
  `acquire-game-season` turns redirects off, and there every request is paced.
- `cache_writer.py:44` says "Write one body, and its sidecar when given, or leave
  nothing behind." If removing a temp name raises (`cache_writer.py:83`) after both
  files are published, the call raises and the page stays. What holds is
  `RaisedLeftNoHalf`: never the sidecar without its body.

## What is not modelled

Parsing of HTML but for the rows of a schedule page: the results of parsers are
inputs of the models. Of `validation/`, the audits of the core tables' foreign
keys, the pilot's content checks and the season reports count rows in one
statement each and keep nothing. The API answers read-only queries in one
transaction each; migrations and CI run by hand; the legacy prototype is used by
nothing. Of ML, the formulas, the bootstrap, the numerical fits and the wording
of the report. Windows' `os.rename` and the hard link of other systems are one
atomic publish that refuses an existing name. Directory creation and path
containment checks change nothing that a property is about.

Assumptions about the world outside: what `SeasonPlanAssumption` says of the league
(under "Proofs"), a season ends days before the next begins, drafts stay where they were written, a cached file is never
replaced by hand, and one acquisition runs at a time.

## Plan

1. Done: the modules above; the proofs of every safety property that a run checks.
2. Left: `SeasonPlan` with the windows of two seasons as they overlap, which needs
   a second season in one behaviour; the pilot's content checks.
