----------------------------- MODULE StatsLoad -----------------------------
(***************************************************************************)
(* The stats backfills (`nba-data backfill stats`, `player-stats`,         *)
(* `player-postseason-stats`): each run takes cached pages one by one,     *)
(* prepares every row of a page against the core tables, rejects the rows  *)
(* that collide inside the page, and upserts the rest, row by row, in one  *)
(* transaction that the command commits at its end.                        *)
(*                                                                         *)
(*   scraping/offline_stats_backfill.py, offline_player_stats_backfill.py, *)
(*   offline_player_postseason_stats_backfill.py   the runs                *)
(*   scraping/loaders/team_season_stats.py, player_page_stats.py  loaders  *)
(*   db/repositories/stats.py                      the upsert              *)
(*                                                                         *)
(* A page is what parsing made of it: `ok` says that it was readable and   *)
(* validated, `rows` are its normalized rows, `path` is the cache path     *)
(* (and URL) that their lineage names.  A row's statistics are one value.  *)
(* The database is PostgreSQL at READ COMMITTED, with its unique index on  *)
(* the grain of every stats table and its row locks, which are external to *)
(* the code.                                                               *)
(***************************************************************************)
EXTENDS Naturals, Sequences, FiniteSets

CONSTANTS
  Runs,          \* executions of a backfill command
  Commands,      \* the commands: "stats", "player-stats", "player-postseason-stats"
  Rows,          \* normalized rows that pages hold
  Paths,         \* cache paths of pages
  PageLists,     \* PageLists[c]: what the cache may hold for command c, in load order
  TeamPages,     \* <<team, season>> of the team pages that `backfill offline` loads
  Roster,        \* Roster[tp]: the players listed on team page tp
  NONE           \* an absent field

ASSUME StatsLoadAssumption ==
  /\ NONE \notin Runs
  /\ Commands \subseteq {"stats", "player-stats", "player-postseason-stats"}
  /\ NONE \notin {"loaded", "duplicate_stats_grain", "repository_error"}
  /\ \A c \in Commands : PageLists[c] \subseteq Seq([ok : BOOLEAN, rows : Seq(Rows), path : Paths])
  \* normalize_player_page_regular_season gives every row this one scope
  /\ "player-stats" \in Commands => \A list \in PageLists["player-stats"] :
       \A i \in DOMAIN list : \A n \in DOMAIN list[i].rows :
         list[i].rows[n].scope = "player_season_aggregate"

VARIABLES
  command,       \* command[r]: the command that run r executes
  pages,         \* pages[r]: the parsed pages of run r
  overlap,       \* whether the operator lets two runs be in progress at once
  core,          \* team pages whose core rows are committed
  table,         \* the committed stats rows, by destination table and grain
  work,          \* work[r]: the rows that r's open transaction has written
  mark,          \* mark[r]: work[r] at the page's savepoint
  scope,         \* scope[r]: season years read at the start of run r
  pc, cur,       \* control point of r, and the index of its current page
  ent,           \* ent[r]: report entries of the current page's rows
  seen,          \* seen[r]: what the upsert's SELECT returned
  results,       \* results[r]: report entries of the pages r is done with
  commits,       \* history: the runs in the order they committed
  earlier        \* history: earlier[r], the runs that had committed when r began

inputs == <<command, pages, overlap>>
session == <<work, mark, ent, seen>>
history == <<commits, earlier>>
vars == <<inputs, core, table, session, scope, pc, cur, results, history>>

-----------------------------------------------------------------------------
(* Destination tables and grains.                                           *)

StatTables == {"totals", "advanced"}

TEAM_STINT_ROUTES == [f |-> "player_team_season", of |-> StatTables \union {"roster"}]
PLAYER_SEASON_ROUTES == [f |-> "player_season", of |-> StatTables]
POSTSEASON_PLAYER_SEASON_ROUTES == [f |-> "player_postseason", of |-> StatTables]
POSTSEASON_TEAM_STINT_ROUTES == [f |-> "player_team_postseason", of |-> StatTables]

Aggregates == {PLAYER_SEASON_ROUTES, POSTSEASON_PLAYER_SEASON_ROUTES}

(* What the core tables hold once the team pages of `core` are loaded.      *)
SeasonIn(y) == \E tp \in core : tp[2] = y
PlayerIn(p) == \E tp \in core : p \in Roster[tp]
PlayerSeasonIn(p, y) == \E tp \in core : tp[2] = y /\ p \in Roster[tp]
TeamSeasonIn(t, y) == <<t, y>> \in core
StintIn(p, y, t) == <<t, y>> \in core /\ p \in Roster[<<t, y>>]
SeasonYears == {tp[2] : tp \in core}

is_multi_team_marker(t) == t = "2TM"
is_synthetic_team_code(t) == t = "TOT" \/ is_multi_team_marker(t)

(* The route of a row: which family of tables it is destined for.           *)
_is_aggregate_row(row) == row.team = "TOT" \/ row.scope = "player_season_aggregate"

TeamPageRoute(row) ==
  IF _is_aggregate_row(row) THEN PLAYER_SEASON_ROUTES ELSE TEAM_STINT_ROUTES

PlayerPageRoute(row) ==
  CASE row.scope = "player_season_aggregate" -> PLAYER_SEASON_ROUTES
    [] row.scope = "player_postseason_aggregate" -> POSTSEASON_PLAYER_SEASON_ROUTES
    [] row.scope = "player_team_postseason" -> POSTSEASON_TEAM_STINT_ROUTES
    [] OTHER -> [f |-> NONE, of |-> {}]

RouteOf(c, row) == IF c = "stats" THEN TeamPageRoute(row) ELSE PlayerPageRoute(row)

GrainOf(route, row) ==
  IF route \in Aggregates THEN <<row.player, row.season>>
                          ELSE <<row.player, row.season, row.team>>

(* The destination table and grain of a row:                                *)
(* _PreparedStatsWrite.duplicate_key.                                       *)
KeyOf(c, row) ==
  LET route == RouteOf(c, row)
  IN  [in |-> route.f, table |-> row.source, grain |-> GrainOf(route, row)]

Keys == {KeyOf(c, row) : c \in Commands, row \in Rows}

-----------------------------------------------------------------------------
(* Preparing a row: a list of checks, the first that holds decides.  A      *)
(* player-page row's team is its source_team_code on an aggregate route,    *)
(* its team_abbreviation otherwise.                                         *)

Fail(reason) == [status |-> "failed", reason |-> reason]
Skip(reason) == [status |-> "skipped", reason |-> reason]
Ready == [status |-> "prepared", reason |-> NONE]

Least(S) == CHOOSE i \in S : \A j \in S : i <= j

When(condition, verdict) == IF condition THEN verdict ELSE Ready

FirstVerdict(checks) ==
  LET hits == {i \in DOMAIN checks : checks[i] # Ready}
  IN  IF hits = {} THEN Ready ELSE checks[Least(hits)]

(* _stats_values: an unknown or protected key, or a value that its column   *)
(* cannot hold.                                                             *)
InvalidValues(row) == row.val = "bad"

GrainChecks(route, row) ==
  << When(row.season = NONE, Fail("invalid_season_year")),
     When(~SeasonIn(row.season), Skip("missing_season")),
     When(~PlayerIn(row.player), Skip("missing_player")),
     When(~PlayerSeasonIn(row.player, row.season), Skip("missing_player_season")) >>
  \o IF route \in Aggregates THEN <<>>
     ELSE << When(row.team = NONE, Fail("missing_team_abbreviation")),
             When(~TeamSeasonIn(row.team, row.season), Skip("missing_team_season")),
             When(~StintIn(row.player, row.season, row.team),
               Skip("missing_player_team_season")) >>

TeamPageChecks(row) ==
  LET aggregate == _is_aggregate_row(row)
      stintScope == IF row.source = "roster" THEN "team_roster" ELSE "player_team_season"
  IN  << When(row.source = NONE \/ row.scope = NONE, Fail("missing_routing_fields")),
         When(row.player = NONE, Fail("missing_player_id")),
         When(aggregate /\ row.team # "TOT", Skip("invalid_aggregate_routing")),
         When(aggregate /\ row.scope # "player_season_aggregate",
           Skip("unsupported_stat_scope")),
         When(~aggregate /\ is_multi_team_marker(row.team),
           Skip("invalid_multi_team_marker_routing")),
         When(~aggregate /\ row.scope # stintScope, Skip("unsupported_stat_scope")),
         When(row.source \notin TeamPageRoute(row).of, Skip("unsupported_source_table")),
         When(InvalidValues(row), Fail("invalid_values")) >>
      \o GrainChecks(TeamPageRoute(row), row)

PlayerPageChecks(row) ==
  LET aggregate == PlayerPageRoute(row) \in Aggregates
  IN  << When(row.source = NONE, Fail("missing_source_table")),
         When(row.scope = NONE, Fail("missing_stat_scope")),
         When(row.player = NONE, Fail("missing_player_id")),
         When(row.season = NONE, Fail("invalid_season_year")),
         When(row.source \notin PlayerPageRoute(row).of, Skip("unsupported_source_table")),
         When(InvalidValues(row), Fail("invalid_values")),
         When(aggregate /\ row.team = NONE, Fail("missing_source_team_code")),
         When(aggregate /\ row.team = "TOT", Skip("invalid_source_team_code")),
         When(~aggregate /\ row.team = NONE, Fail("missing_team_abbreviation")),
         When(~aggregate /\ is_synthetic_team_code(row.team),
           Skip("invalid_team_stint_source_team_code")) >>
      \o GrainChecks(PlayerPageRoute(row), row)

_prepare_row(c, row) ==
  FirstVerdict(IF c = "stats" THEN TeamPageChecks(row) ELSE PlayerPageChecks(row))

-----------------------------------------------------------------------------
(* The stats tables.  A row has its columns, each with the run and the page *)
(* that wrote it last (history), and the run and page of its last upsert,   *)
(* which stamps updated_at.                                                 *)

Columns == {"values", "lineage"}

(* NoRow: the grain has no row; Clean: the transaction has not written it.  *)
Blank(n) == [col |-> [c \in Columns |-> [is |-> NONE, run |-> NONE, page |-> 0]],
             run |-> NONE, page |-> n]
NoRow == Blank(0)
Clean == Blank(1)
Untouched == [k \in Keys |-> Clean]

(* What run r reads at key k: its own write, else the last committed row.   *)
View(r, k) == IF work[r][k] # Clean THEN work[r][k] ELSE table[k]

(* The row lock that another transaction's write holds until it ends.       *)
LockedBy(q, k) == work[q][k] # Clean

Ended == {"done", "refused", "crashed"}
Row(r, n) == pages[r][cur[r]].rows[n]
Key(r, n) == KeyOf(command[r], Row(r, n))

(* The row being written: the first one still prepared.                     *)
Pending(r) == {n \in DOMAIN ent[r] : ent[r][n].status = "prepared"}
Next1(r) == Least(Pending(r))

(* What row n of page i of run r says of a column: source_url, cache_path   *)
(* and parser_version are one column, the lineage.                          *)
Gives(r, i, n, c) == IF c = "values" THEN pages[r][i].rows[n].val ELSE pages[r][i].path

(* Variant: a blank value does not overwrite the value of an existing row.  *)
Upserted_KeepsOldValue(r, n) ==
  LET was == seen[r]
      now == View(r, Key(r, n))
  IN  [col |-> [c \in Columns |->
                  IF was # NoRow /\ Gives(r, cur[r], n, c) \in {was.col[c].is, "null"}
                  THEN now.col[c]
                  ELSE [is |-> Gives(r, cur[r], n, c), run |-> r, page |-> cur[r]]],
       run |-> r, page |-> cur[r]]

(* StatsRepository._upsert assigns values, lineage and updated_at, and the  *)
(* unit of work emits the attributes that differ from what its SELECT       *)
(* returned: updated_at always does; a column, lineage included, that       *)
(* another transaction changed in between and this one did not is left as   *)
(* the other transaction wrote it.                                          *)
Upserted(r, n) ==
  LET was == seen[r]
      now == View(r, Key(r, n))
  IN  [col |-> [c \in Columns |->
                  IF was # NoRow /\ was.col[c].is = Gives(r, cur[r], n, c)
                  THEN now.col[c]
                  ELSE [is |-> Gives(r, cur[r], n, c), run |-> r, page |-> cur[r]]],
       run |-> r, page |-> cur[r]]

(* The row's savepoint ends: the loader goes on to the next row.            *)
Settle(r, n, entry) ==
  /\ ent' = [ent EXCEPT ![r][n] = entry]
  /\ seen' = [seen EXCEPT ![r] = NoRow]
  /\ pc' = [pc EXCEPT ![r] = "write"]

WriteFailed == Fail("repository_error")

-----------------------------------------------------------------------------
Init ==
  /\ command \in [Runs -> Commands]
  /\ pages \in {f \in [Runs -> UNION {PageLists[c] : c \in Commands}] :
                  \A r \in Runs : f[r] \in PageLists[command[r]]}
  /\ overlap \in BOOLEAN
  /\ core = {}
  /\ table = [k \in Keys |-> NoRow]
  /\ work = [r \in Runs |-> Untouched]
  /\ mark = [r \in Runs |-> Untouched]
  /\ scope = [r \in Runs |-> {}]
  /\ pc = [r \in Runs |-> "idle"]
  /\ cur = [r \in Runs |-> 1]
  /\ ent = [r \in Runs |-> <<>>]
  /\ seen = [r \in Runs |-> NoRow]
  /\ results = [r \in Runs |-> <<>>]
  /\ commits = <<>>
  /\ earlier = [r \in Runs |-> {}]

(* `backfill offline` commits the core rows of more team pages.             *)
LoadCore ==
  \E more \in SUBSET (TeamPages \ core) :
    /\ more # {}
    /\ core' = core \union more
    /\ UNCHANGED <<inputs, table, session, scope, pc, cur, results, history>>

(* The transaction begins.  The player-page commands read the season scope  *)
(* once, and refuse to run when it is empty and there are pages to load.    *)
Start(r) ==
  /\ pc[r] = "idle"
  /\ overlap \/ \A q \in Runs \ {r} : pc[q] \in Ended \union {"idle"}
  /\ scope' = [scope EXCEPT ![r] = SeasonYears]
  /\ pc' = [pc EXCEPT ![r] =
              IF command[r] # "stats" /\ pages[r] # <<>> /\ SeasonYears = {}
              THEN "refused" ELSE "page"]
  /\ earlier' = [earlier EXCEPT ![r] = {q \in Runs : pc[q] = "done"}]
  /\ UNCHANGED <<inputs, core, table, session, cur, results, commits>>

(* Close the current page and go on to the next one.                        *)
Report(r, status, entries) ==
  /\ ent' = [ent EXCEPT ![r] = <<>>]
  /\ mark' = [mark EXCEPT ![r] = Untouched]
  /\ results' = [results EXCEPT ![r] =
                   Append(@, [status |-> status, entries |-> entries])]
  /\ cur' = [cur EXCEPT ![r] = @ + 1]
  /\ pc' = [pc EXCEPT ![r] = "page"]

AtPage(r) == pc[r] = "page" /\ cur[r] <= Len(pages[r])

(* A page that did not validate, or could not be read, loads nothing.       *)
RejectPage(r) ==
  /\ AtPage(r)
  /\ ~pages[r][cur[r]].ok
  /\ Report(r, "failed", <<>>)
  /\ UNCHANGED <<inputs, core, table, work, seen, scope, history>>

(* A player page whose normalizer selected no row is skipped.               *)
SkipPage(r) ==
  /\ AtPage(r)
  /\ pages[r][cur[r]].ok
  /\ pages[r][cur[r]].rows = <<>>
  /\ Report(r, "skipped", <<>>)
  /\ UNCHANGED <<inputs, core, table, work, seen, scope, history>>

(* The page's savepoint.                                                    *)
OpenPage(r) ==
  /\ AtPage(r)
  /\ pages[r][cur[r]].ok
  /\ pages[r][cur[r]].rows # <<>>
  /\ mark' = [mark EXCEPT ![r] = work[r]]
  /\ ent' = [ent EXCEPT ![r] = <<>>]
  /\ pc' = [pc EXCEPT ![r] = "prepare"]
  /\ UNCHANGED <<inputs, core, table, work, seen, scope, cur, results, history>>

PrepareRow(r) ==
  /\ pc[r] = "prepare"
  /\ Len(ent[r]) < Len(pages[r][cur[r]].rows)
  /\ ent' = [ent EXCEPT ![r] = Append(@, _prepare_row(command[r], Row(r, Len(@) + 1)))]
  /\ UNCHANGED <<inputs, core, table, work, mark, seen, scope, pc, cur, results, history>>

(* Variant: rows that collide inside a page are written, the last one wins. *)
RejectDuplicates_LastWins(r) ==
  /\ pc[r] = "prepare"
  /\ Len(ent[r]) = Len(pages[r][cur[r]].rows)
  /\ pc' = [pc EXCEPT ![r] = "write"]
  /\ UNCHANGED <<inputs, core, table, session, scope, cur, results, history>>

(* Rows of the page that target one grain of one table fail, all of them.   *)
RejectDuplicates(r) ==
  /\ pc[r] = "prepare"
  /\ Len(ent[r]) = Len(pages[r][cur[r]].rows)
  /\ ent' = [ent EXCEPT ![r] =
       [n \in DOMAIN @ |->
          IF /\ n \in Pending(r)
             /\ \E m \in Pending(r) \ {n} : Key(r, m) = Key(r, n)
          THEN Fail("duplicate_stats_grain") ELSE @[n]]]
  /\ pc' = [pc EXCEPT ![r] = "write"]
  /\ UNCHANGED <<inputs, core, table, work, mark, seen, scope, cur, results, history>>

(* An exception outside the row savepoints rolls back to the page's         *)
(* savepoint and fails the page.                                            *)
PageFault(r) ==
  /\ pc[r] = "prepare"
  /\ work' = [work EXCEPT ![r] = mark[r]]
  /\ Report(r, "failed", <<>>)
  /\ UNCHANGED <<inputs, core, table, seen, scope, history>>

(* The upsert's SELECT, inside the row's savepoint.                         *)
SelectRow(r) ==
  /\ pc[r] = "write"
  /\ Pending(r) # {}
  /\ seen' = [seen EXCEPT ![r] = View(r, Key(r, Next1(r)))]
  /\ pc' = [pc EXCEPT ![r] = "flush"]
  /\ UNCHANGED <<inputs, core, table, work, mark, ent, scope, cur, results, history>>

AtFlush(r) == pc[r] = "flush"

(* The flush waits for the row lock of another transaction.                 *)
Blocked(r) == \E q \in Runs \ {r} : LockedBy(q, Key(r, Next1(r)))

(* Variant: the upsert commits what it wrote.                               *)
WriteRow_Commits(r) ==
  /\ AtFlush(r)
  /\ ~Blocked(r)
  /\ table' = [table EXCEPT ![Key(r, Next1(r))] = Upserted(r, Next1(r))]
  /\ Settle(r, Next1(r), [status |-> "loaded", reason |-> "loaded"])
  /\ UNCHANGED <<inputs, core, work, mark, scope, cur, results, history>>

WriteRow(r) ==
  /\ AtFlush(r)
  /\ ~Blocked(r)
  /\ seen[r] # NoRow \/ View(r, Key(r, Next1(r))) = NoRow
  /\ work' = [work EXCEPT ![r][Key(r, Next1(r))] = Upserted(r, Next1(r))]
  /\ Settle(r, Next1(r), [status |-> "loaded", reason |-> "loaded"])
  /\ UNCHANGED <<inputs, core, table, mark, scope, cur, results, history>>

(* Variant: a failed row rolls back to the page's savepoint.                *)
RowFails_RollsBackPage(r) ==
  /\ Settle(r, Next1(r), WriteFailed)
  /\ work' = [work EXCEPT ![r] = mark[r]]
  /\ UNCHANGED <<inputs, core, table, mark, scope, cur, results, history>>

(* The row's savepoint is rolled back: the INSERT met a row that another    *)
(* transaction committed after the SELECT; the server chose this statement  *)
(* to break a deadlock; or the statement failed.                            *)
RowFails(r) ==
  /\ Settle(r, Next1(r), WriteFailed)
  /\ UNCHANGED <<inputs, core, table, work, mark, scope, cur, results, history>>

UniqueViolation(r) ==
  /\ AtFlush(r)
  /\ ~Blocked(r)
  /\ seen[r] = NoRow
  /\ View(r, Key(r, Next1(r))) # NoRow
  /\ RowFails(r)

DeadlockVictim(r) ==
  /\ AtFlush(r)
  /\ \E q \in Runs \ {r} :
       /\ AtFlush(q)
       /\ LockedBy(q, Key(r, Next1(r)))
       /\ LockedBy(r, Key(q, Next1(q)))
  /\ RowFails(r)

StatementFault(r) == AtFlush(r) /\ RowFails(r)

_entry_from_load_report(entries) ==
  LET some(status) == \E n \in DOMAIN entries : entries[n].status = status
  IN  IF some("failed") THEN "failed" ELSE IF some("loaded") THEN "loaded" ELSE "skipped"

ClosePage(r) ==
  /\ pc[r] = "write"
  /\ Pending(r) = {}
  /\ Report(r, _entry_from_load_report(ent[r]), ent[r])
  /\ UNCHANGED <<inputs, core, table, work, seen, scope, history>>

(* The command leaves `session.begin()`: everything it wrote is committed,  *)
(* also when pages or rows failed.                                          *)
Commit(r) ==
  /\ pc[r] = "page"
  /\ cur[r] > Len(pages[r])
  /\ table' = [k \in Keys |-> View(r, k)]
  /\ work' = [work EXCEPT ![r] = Untouched]
  /\ pc' = [pc EXCEPT ![r] = "done"]
  /\ commits' = Append(commits, r)
  /\ UNCHANGED <<inputs, core, mark, ent, seen, scope, cur, results, earlier>>

(* The process or its connection dies: the transaction is rolled back, the  *)
(* report is lost.                                                          *)
Crash(r) ==
  /\ pc[r] \notin Ended \union {"idle"}
  /\ work' = [work EXCEPT ![r] = Untouched]
  /\ mark' = [mark EXCEPT ![r] = Untouched]
  /\ ent' = [ent EXCEPT ![r] = <<>>]
  /\ seen' = [seen EXCEPT ![r] = NoRow]
  /\ cur' = [cur EXCEPT ![r] = 1]
  /\ results' = [results EXCEPT ![r] = <<>>]
  /\ pc' = [pc EXCEPT ![r] = "crashed"]
  /\ UNCHANGED <<inputs, core, table, scope, history>>

Step(r) ==
  \/ Start(r) \/ RejectPage(r) \/ SkipPage(r) \/ OpenPage(r)
  \/ PrepareRow(r) \/ RejectDuplicates(r) \/ PageFault(r)
  \/ SelectRow(r) \/ WriteRow(r)
  \/ UniqueViolation(r) \/ DeadlockVictim(r) \/ StatementFault(r)
  \/ ClosePage(r) \/ Commit(r) \/ Crash(r)

Next == LoadCore \/ \E r \in Runs : Step(r)

Spec == Init /\ [][Next]_vars

-----------------------------------------------------------------------------
(* The exit code of a command that committed.                               *)

(* Variant: only rows of a missing season count as unresolved.              *)
UNRESOLVED_REASONS_SeasonOnly(c) == {"missing_season"}

UNRESOLVED_REASONS(c) ==
  {"missing_player", "missing_season", "missing_player_season"}
  \union IF c = "player-postseason-stats"
         THEN {"missing_team_season", "missing_player_team_season"} ELSE {}

(* classify_unresolved_rows: unresolved rows of a season in the run's       *)
(* scope.                                                                   *)
Unresolved(r, i, n) ==
  /\ command[r] # "stats"
  /\ results[r][i].entries[n].reason \in UNRESOLVED_REASONS(command[r])
  /\ pages[r][i].rows[n].season \in scope[r]

ExitsZero(r) ==
  /\ pc[r] = "done"
  /\ \A i \in DOMAIN results[r] :
       /\ results[r][i].status # "failed"
       /\ \A n \in DOMAIN results[r][i].entries :
            /\ results[r][i].entries[n].status # "failed"
            /\ ~Unresolved(r, i, n)

-----------------------------------------------------------------------------
(* Properties.                                                              *)

TypeOK ==
  /\ core \subseteq TeamPages
  /\ \A r \in Runs :
       /\ pc[r] \in {"idle", "page", "prepare", "write", "flush"} \union Ended
       /\ cur[r] \in 1..Len(pages[r]) + 1
       /\ Len(results[r]) = cur[r] - 1
       /\ pc[r] = "flush" => Pending(r) # {}
       /\ pc[r] \in Ended => work[r] = Untouched
  /\ {commits[n] : n \in DOMAIN commits} = {r \in Runs : pc[r] = "done"}

Written(row) == row.run # NONE
LoadedEntry(r, i, n) == results[r][i].entries[n].status = "loaded"

LoadedFrom(r, i, k) ==
  {n \in DOMAIN results[r][i].entries :
     LoadedEntry(r, i, n) /\ KeyOf(command[r], pages[r][i].rows[n]) = k}

(* Every stats row is accounted for, column by column: the run that         *)
(* upserted it last did commit, and its report says that a row of that page *)
(* with this grain was loaded; so did the run that wrote a column, and a    *)
(* row that it reports as loaded says what the column holds.  Nothing is    *)
(* left of a crashed run, of a page rolled back to its savepoint, or of a   *)
(* row that the report calls failed.                                        *)
RowsAreReported ==
  \A k \in Keys : Written(table[k]) =>
    /\ pc[table[k].run] = "done"
    /\ LoadedFrom(table[k].run, table[k].page, k) # {}
    /\ \A c \in Columns :
         LET from == table[k].col[c]
         IN  /\ pc[from.run] = "done"
             /\ \E n \in LoadedFrom(from.run, from.page, k) :
                  Gives(from.run, from.page, n, c) = from.is

CommittedAt(r) == CHOOSE n \in DOMAIN commits : commits[n] = r

(* The last upsert of a row is run r's of page i, or something later.       *)
AtLeast(row, r, i) ==
  /\ Written(row)
  /\ \/ row.run = r /\ row.page >= i
     \/ row.run # r /\ CommittedAt(row.run) > CommittedAt(r)

(* Run q committed after r began: r may have read the row before.           *)
Overtook(q, r) == q \in Runs \ {r} /\ pc[q] = "done" /\ q \notin earlier[r]

(* A column holds `given`, which run r loaded from its page i, or stems     *)
(* from that page or a later one, or from a run that committed after r      *)
(* began.                                                                   *)
Holds(cell, given, r, i) ==
  \/ cell.is = given
  \/ cell.run = r /\ cell.page >= i
  \/ Overtook(cell.run, r)

(* Row n of page i of run r is in the database.                             *)
InDatabase(r, i, n) ==
  LET row == table[KeyOf(command[r], pages[r][i].rows[n])]
  IN  /\ AtLeast(row, r, i)
      /\ \A c \in Columns : Holds(row.col[c], Gives(r, i, n, c), r, i)

(* A row that a committed run reports as loaded is in the database: it was  *)
(* upserted last by that page, a later page, or a run that committed later, *)
(* and each of its columns holds what the page says, unless one of these or *)
(* a run that committed while r was under way wrote it.  No failure of      *)
(* another row or page of the run takes it back, and no earlier content     *)
(* survives it.                                                             *)
LoadedRowsPersist ==
  \A r \in {q \in Runs : pc[q] = "done"} : \A i \in DOMAIN results[r] :
    \A n \in DOMAIN results[r][i].entries :
      LoadedEntry(r, i, n) => InDatabase(r, i, n)

Collides(r, i, n) ==
  \E m \in DOMAIN results[r][i].entries \ {n} :
    /\ {results[r][i].entries[m].reason, results[r][i].entries[n].reason}
         \subseteq {"loaded", "duplicate_stats_grain", "repository_error"}
    /\ KeyOf(command[r], pages[r][i].rows[m]) = KeyOf(command[r], pages[r][i].rows[n])

(* Of two rows of a page that target one grain of one table, neither wins:  *)
(* neither a stats row nor a column of it stems from that page.             *)
DuplicatesNeitherWin ==
  \A r \in Runs : \A i \in DOMAIN results[r] :
    \A n \in DOMAIN results[r][i].entries :
      Collides(r, i, n) =>
        LET row == table[KeyOf(command[r], pages[r][i].rows[n])]
        IN  /\ ~(row.run = r /\ row.page = i)
            /\ \A c \in Columns : ~(row.col[c].run = r /\ row.col[c].page = i)

(* While runs do not overlap, a stats row is one parse: the values, blanks  *)
(* included, of a row with its grain on the page that upserted it last, and *)
(* that page's lineage; nothing is left over from the row it replaced.      *)
RowIsOneParse ==
  \A k \in Keys : (Written(table[k]) /\ ~overlap) =>
    LET r == table[k].run
        i == table[k].page
    IN  \E n \in DOMAIN pages[r][i].rows :
          /\ KeyOf(command[r], pages[r][i].rows[n]) = k
          /\ \A c \in Columns : table[k].col[c].is = Gives(r, i, n, c)

(* A row that its command supports: the code routes it to a table, and its  *)
(* team is a team where one is needed.                                      *)
Supported(c, row) ==
  /\ row.source \in RouteOf(c, row).of
  /\ RouteOf(c, row) \in Aggregates => row.team # "TOT"
  /\ RouteOf(c, row) \notin Aggregates => ~is_synthetic_team_code(row.team)

(* When a player-page command exits with code 0, every supported row of     *)
(* every page, of every season that the archive held when the run started,  *)
(* is in the database, in the sense of LoadedRowsPersist: a clean exit is   *)
(* not a run that loaded nothing.                                           *)
CleanExitMeansLoaded ==
  \A r \in {q \in Runs : ExitsZero(q) /\ command[q] # "stats"} :
    \A i \in DOMAIN pages[r] : \A n \in DOMAIN pages[r][i].rows :
      LET row == pages[r][i].rows[n]
      IN  (Supported(command[r], row) /\ row.season \in scope[r]) => InDatabase(r, i, n)
=============================================================================
