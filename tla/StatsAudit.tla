----------------------------- MODULE StatsAudit -----------------------------
(***************************************************************************)
(* `nba-data validate build-stats-coverage` and `validate official-stats`: *)
(* the first derives from the cached pages alone the keys that the stats   *)
(* tables should hold, and writes them as an artifact; the second judges   *)
(* the tables by that artifact, by the reports of the three stats          *)
(* backfills and by the lineage of every row.  The backfills, the core     *)
(* loads and the acquisitions go on around them.                           *)
(*                                                                         *)
(*   validation/stats_coverage.py                  the artifact            *)
(*   validation/official_stats.py                  the audit               *)
(*   validation/parser_contracts.py                the known parsers       *)
(*   scraping/normalizers/player_page.py           the loaded selection    *)
(*   scraping/player_page_cache.py                 discovery               *)
(*                                                                         *)
(* One source table stands for each page's tables, which are treated       *)
(* alike.  A row's numbers are "ok" or "odd": numbers that no player has,  *)
(* or none at all.  A file appears under its final name, in one piece or   *)
(* unreadable at first, and is never replaced.  A backfill is one step     *)
(* here: StatsLoad has its interleavings.                                  *)
(***************************************************************************)
EXTENDS Naturals, Sequences, FiniteSets

CONSTANTS
  Files,         \* cached files: [kind, named, player, team, year]
  MayHold,       \* MayHold[f]: what file f may hold, Partial among it
  Caches,        \* what the cache may hold at the beginning
  Histories,     \* stats rows that older parsers left: functions from keys to rows
  MaxLoads,      \* bound on backfills and core loads
  NONE           \* an absent field, file or report

(* A parsed page: three lists of rows.  A row of a team page has a team,    *)
(* that of its page if none is printed; one without a player is left out.   *)
IsList(rows) == Len(rows) \in Nat /\ DOMAIN rows = 1..Len(rows)

IsPage(page) ==
  /\ page # NONE
  /\ IsList(page.regular) /\ IsList(page.postseason) /\ IsList(page.roster)
  /\ \A n \in DOMAIN page.roster : NONE \notin {page.roster[n].team, page.roster[n].player}

(* Discovery takes a player from the name of a file, and the inventory drops *)
(* a second page of a team's season.                                        *)
SameSource(f, g) ==
  IF f.kind = "team" THEN f.team = g.team /\ f.year = g.year ELSE f.player = g.player

Dims == {"regular_aggregate", "postseason_aggregate",
         "regular_team_stint", "postseason_team_stint"}

ASSUME StatsAuditAssumption ==
  /\ MaxLoads \in Nat
  /\ \A f \in Files : \A page \in MayHold[f] : IsPage(page)
  /\ Caches \subseteq [Files -> (UNION {MayHold[f] : f \in Files}) \union {NONE}]
  /\ \A c \in Caches : \A f \in Files : c[f] \in MayHold[f] \union {NONE}
  /\ \A h \in Histories : \A k \in DOMAIN h : k.dim \in Dims /\ ~h[k].current
  /\ NONE \notin {"coverage_artifact_missing", "coverage_artifact_stale", "TOT", "2TM", "5TM"}
  /\ NONE \notin [total : Nat, clean : BOOLEAN]
  /\ IsFiniteSet(Files) /\ \A f \in Files : f.kind \in {"player", "team"}
  /\ \A f, g \in Files : f.named /\ g.named /\ f.kind = g.kind /\ SameSource(f, g) => f = g

VARIABLES
  cache,         \* cache[f]: what file f holds, or NONE
  core,          \* [seasons, teams, players, stints] of the core tables
  table,         \* the committed stats rows by key
  reports,       \* the saved report of each backfill command, or NONE
  artifact,      \* the coverage artifact on disk, or NONE
  build,         \* the artifact builder: control point and what it found
  audit,         \* the audit: control point, options and what it read
  loads,         \* backfills and core loads so far
  touched,       \* history: whether the tables or the cache changed since the audit began
  complete       \* history: commands whose last run took in all that there is now

database == <<core, table>>
disk == <<reports, artifact>>
history == <<touched, complete>>
vars == <<cache, database, disk, build, audit, loads, history>>

-----------------------------------------------------------------------------
(* Team codes and the rows of a player page: [year, team, dnp, val].        *)

is_multi_team_marker(t) == t \in {"2TM", "5TM"}
is_aggregate_only_team_code(t) == t = "TOT"
is_synthetic_team_code(t) == is_aggregate_only_team_code(t) \/ is_multi_team_marker(t)

is_did_not_play_placeholder(row) == row.team = NONE /\ row.dnp

InSeason(rows, y) == {n \in DOMAIN rows : rows[n].year = y}
MarkerRows(rows, S) == {n \in S : is_multi_team_marker(rows[n].team)}
RealRows(rows, S) == {n \in S : rows[n].team # NONE /\ ~is_synthetic_team_code(rows[n].team)}
Years(rows) == {rows[n].year : n \in DOMAIN rows} \ {NONE}
First(S) == CHOOSE n \in S : \A m \in S : n <= m

-----------------------------------------------------------------------------
(* The normalizer: the rows of one page that its backfill loads.            *)

(* _select_full_season_row: the full-season row, or none.                   *)
_select_full_season_row(rows, S) ==
  IF MarkerRows(rows, S) # {} THEN {First(MarkerRows(rows, S))}
  ELSE IF Cardinality(RealRows(rows, S)) = 1 THEN RealRows(rows, S) ELSE {}

Key(dim, p, y, t) == [dim |-> dim, player |-> p, year |-> y, team |-> t]
Stat(key, n, code, val) == [key |-> key, n |-> n, code |-> code, val |-> val]

FullSeason(dim, p, rows) ==
  UNION {{Stat(Key(dim, p, y, NONE), n, rows[n].team, rows[n].val) :
            n \in _select_full_season_row(rows, InSeason(rows, y))} : y \in Years(rows)}

normalize_player_page_regular_season(p, page) ==
  FullSeason("regular_aggregate", p, page.regular)

(* Every row of a real team is a stint as well.                             *)
normalize_player_page_postseason(p, page) ==
  FullSeason("postseason_aggregate", p, page.postseason)
  \union {Stat(Key("postseason_team_stint", p, page.postseason[n].year, page.postseason[n].team),
               n, NONE, page.postseason[n].val) :
            n \in {m \in RealRows(page.postseason, DOMAIN page.postseason) :
                     page.postseason[m].year # NONE}}

(* A row of a team page: of the team, or of the season's TOT.               *)
normalize_team_season_page(f, page) ==
  {LET row == page.roster[n]
   IN  IF is_aggregate_only_team_code(row.team)
       THEN Stat(Key("regular_aggregate", row.player, f.year, NONE), n, row.team, row.val)
       ELSE Stat(Key("regular_team_stint", row.player, f.year, row.team), n, NONE, row.val) :
     n \in DOMAIN page.roster}

-----------------------------------------------------------------------------
(* The classifier of the artifact, from the parsed rows.                    *)

Expected(rows, y) ==
  \/ MarkerRows(rows, InSeason(rows, y)) # {}
  \/ Cardinality(RealRows(rows, InSeason(rows, y))) = 1

DidNotPlay(rows, y) ==
  /\ RealRows(rows, InSeason(rows, y)) = {}
  /\ \E n \in InSeason(rows, y) : is_did_not_play_placeholder(rows[n])

_classify_aggregate(dim, p, rows) ==
  LET expected == {y \in Years(rows) : Expected(rows, y)}
  IN  [keys |-> {Key(dim, p, y, NONE) : y \in expected},
       unexplained |-> {<<dim, p, y>> :
                          y \in {z \in Years(rows) \ expected : ~DidNotPlay(rows, z)}}]

_classify_team_stints(p, rows) ==
  {Key("postseason_team_stint", p, rows[n].year, rows[n].team) :
     n \in {m \in RealRows(rows, DOMAIN rows) : rows[m].year # NONE}}

_classify_team_season_page(f, rows) ==
  {Key("regular_team_stint", rows[n].player, f.year, rows[n].team) :
     n \in {m \in DOMAIN rows : /\ rows[m].player # NONE
                                /\ ~is_synthetic_team_code(rows[m].team)}}

-----------------------------------------------------------------------------
(* Reading the cache.                                                       *)

Partial == [readable |-> FALSE, regular |-> <<>>, postseason |-> <<>>, roster |-> <<>>]

Present(f) == cache[f] # NONE
_has_any_rows(page) == page.regular # <<>> \/ page.postseason # <<>> \/ page.roster # <<>>

(* Both lists hold what is well named and readable; discovery leaves the    *)
(* other player pages out without a word.                                   *)
Listed(kind) ==
  {f \in Files : f.kind = kind /\ f.named /\ Present(f) /\ cache[f].readable}

discover_player_cache_entries == Listed("player")
ValidTeamEntries == Listed("team")

(* A file is on the scan if its name or content is bad, or it came late.    *)
_scan_unreadable_player_source_issues(discovered) ==
  {f \in Files : f.kind = "player" /\ Present(f)} \ discovered

BadTeamEntries == {f \in Files : f.kind = "team" /\ Present(f)} \ ValidTeamEntries

(* Variant: only the player pages count.                                    *)
_fingerprint_from_rows_PlayersOnly(files) ==
  {<<f, cache[f]>> : f \in {g \in files : g.kind = "player"}}

_fingerprint_from_rows(files) == {<<f, cache[f]>> : f \in files}

compute_cache_fingerprint ==
  _fingerprint_from_rows(discover_player_cache_entries \union ValidTeamEntries)

-----------------------------------------------------------------------------
(* The stats tables.                                                        *)

NoRow == [by |-> NONE, current |-> FALSE, code |-> NONE, val |-> NONE]
Persisted == {k \in DOMAIN table : table[k] # NoRow}

Producer == [team_stats |-> "team_season", player_stats |-> "player_page_regular",
             player_postseason_stats |-> "player_page_postseason"]
Kinds == DOMAIN Producer

expected_parser_producer(dim) ==
  CASE dim \in {"postseason_aggregate", "postseason_team_stint"} -> "player_page_postseason"
    [] dim = "regular_aggregate" -> "player_page_regular"
    [] dim = "regular_team_stint" -> "team_season"

AllKeys ==
  LET stats(f, page) ==
        IF f.kind = "team" THEN normalize_team_season_page(f, page)
        ELSE normalize_player_page_regular_season(f.player, page)
             \union normalize_player_page_postseason(f.player, page)
  IN  (UNION {DOMAIN h : h \in Histories})
      \union {s.key : s \in UNION {UNION {stats(f, page) : page \in MayHold[f]} : f \in Files}}

SeasonIn(y) == y \in core.seasons
HasGrain(k) ==
  IF k.team = NONE THEN <<k.player, k.year>> \in core.players
                   ELSE <<k.player, k.year, k.team>> \in core.stints

StatsOf(kind, f) ==
  CASE kind = "team_stats" -> normalize_team_season_page(f, cache[f])
    [] kind = "player_stats" -> normalize_player_page_regular_season(f.player, cache[f])
    [] OTHER -> normalize_player_page_postseason(f.player, cache[f])

-----------------------------------------------------------------------------
NoBuild == [pc |-> "idle"]
NoAudit == [pc |-> "idle", issues |-> {}]

(* The core tables are empty; an older parser may have left stats rows.     *)
Init ==
  /\ cache \in Caches
  /\ core = [seasons |-> {}, teams |-> {}, players |-> {}, stints |-> {}]
  /\ \E h \in Histories :
       table = [k \in AllKeys |-> IF k \in DOMAIN h THEN h[k] ELSE NoRow]
  /\ reports = [kind \in Kinds |-> NONE]
  /\ artifact = NONE
  /\ build = NoBuild
  /\ audit = NoAudit
  /\ loads = 0
  /\ touched = FALSE
  /\ complete = {}

(* Something that a running audit reads changes: once at most.              *)
Touch == ~touched /\ touched' = (audit.pc # "idle")

(* A page is written: unreadable until it is complete.                      *)
AddPage(f) ==
  /\ ~Present(f) \/ cache[f] = Partial
  /\ \E page \in MayHold[f] \ {cache[f]} : cache' = [cache EXCEPT ![f] = page]
  /\ Touch
  /\ complete' = {}
  /\ UNCHANGED <<database, disk, build, audit, loads>>

(* `backfill offline` for the listed team pages.                            *)
LoadCore ==
  LET pages == ValidTeamEntries
      rows == UNION {{<<f, cache[f].roster[n]>> : n \in DOMAIN cache[f].roster} : f \in pages}
  IN
  /\ loads < MaxLoads
  /\ core' = [seasons |-> core.seasons \union {f.year : f \in pages},
              teams |-> core.teams \union {f.team : f \in pages},
              players |-> core.players \union {<<r[2].player, r[1].year>> : r \in rows},
              stints |-> core.stints \union
                {<<r[2].player, r[1].year, r[2].team>> :
                   r \in {q \in rows : ~is_synthetic_team_code(q[2].team)}}]
  /\ core' # core
  /\ loads' = loads + 1
  /\ Touch
  /\ complete' = {}
  /\ UNCHANGED <<cache, table, disk, build, audit>>

(* Of two rows of a page with one grain, none is loaded; a row without its  *)
(* core row is skipped; any other may still fail.                           *)
Collides(kind, f, s) == \E o \in StatsOf(kind, f) : o # s /\ o.key = s.key

Outcome(kind, f, s, failed) ==
  IF Collides(kind, f, s) \/ <<f, s>> \in failed THEN "failed"
  ELSE IF SeasonIn(s.key.year) /\ HasGrain(s.key) THEN "loaded"
  ELSE IF kind = "team_stats" THEN "skipped"
  ELSE IF SeasonIn(s.key.year) THEN "unresolved" ELSE "out_of_scope"

(* The rows that a run over some pages loads, and what it reports.          *)
Load(kind, pages, failed) ==
  LET rows == UNION {{<<f, s>> : s \in StatsOf(kind, f)} : f \in pages}
      of(outcome) == {r \in rows : Outcome(kind, r[1], r[2], failed) = outcome}
      of_key(k) == {r \in of("loaded") : r[2].key = k}
  IN  /\ table' = [k \in DOMAIN table |->
           IF of_key(k) = {} THEN table[k]
           ELSE LET r == CHOOSE q \in of_key(k) : TRUE
                IN  [by |-> Producer[kind], current |-> TRUE,
                     code |-> r[2].code, val |-> r[2].val]]
      /\ reports' = [reports EXCEPT ![kind] =
           [total |-> Cardinality(of("loaded")),
            clean |-> of("failed") \union of("unresolved") = {}]]
      /\ complete' = complete \union {kind}

(* A stats backfill over all its pages, with a row that fails or none.  The *)
(* player-page commands refuse to run without a season.                     *)
Backfill(kind) ==
  LET listed == IF kind = "team_stats" THEN ValidTeamEntries ELSE discover_player_cache_entries
  IN
  /\ loads < MaxLoads
  /\ kind # "team_stats" /\ listed # {} => core.seasons # {}
  /\ \E failed \in SUBSET UNION {{<<f, s>> : s \in StatsOf(kind, f)} : f \in listed} :
       Cardinality(failed) <= 1 /\ Load(kind, listed, failed)
  /\ loads' = loads + 1
  /\ Touch
  /\ UNCHANGED <<cache, core, artifact, build, audit>>

-----------------------------------------------------------------------------
(* build_stats_coverage_artifact: the player pages are discovered; then     *)
(* what discovery left out is scanned for, the team pages are listed, each  *)
(* page is read and classified, and the artifact is put in place.  A        *)
(* running audit has read its artifact: no build begins then.               *)

BuildDiscover ==
  /\ build.pc = "idle"
  /\ loads < MaxLoads
  /\ audit.pc = "idle"
  /\ build' = [pc |-> "read", players |-> discover_player_cache_entries]
  /\ loads' = loads + 1
  /\ UNCHANGED <<cache, database, disk, audit, history>>

Blank(f) == ~_has_any_rows(cache[f])

Classified(f) ==
  LET regular == _classify_aggregate("regular_aggregate", f.player, cache[f].regular)
      postseason == _classify_aggregate("postseason_aggregate", f.player, cache[f].postseason)
  IN  IF f.kind = "team"
      THEN [keys |-> _classify_team_season_page(f, cache[f].roster), unexplained |-> {}]
      ELSE [keys |-> regular.keys \union postseason.keys
                     \union _classify_team_stints(f.player, cache[f].postseason),
            unexplained |-> regular.unexplained \union postseason.unexplained]

BuildArtifact ==
  /\ build.pc = "read"
  /\ LET pages == build.players \union ValidTeamEntries
         used == {f \in pages : ~Blank(f)}
     IN  artifact' =
           [digest |-> _fingerprint_from_rows(pages),
            keys |-> UNION {Classified(f).keys : f \in used},
            unexplained |-> UNION {Classified(f).unexplained : f \in used},
            source_issues |-> _scan_unreadable_player_source_issues(build.players)
                              \union BadTeamEntries \union (pages \ used)]
  /\ build' = NoBuild
  /\ UNCHANGED <<cache, database, reports, audit, loads, history>>

BuildCrash ==
  /\ build.pc # "idle"
  /\ build' = NoBuild
  /\ UNCHANGED <<cache, database, disk, audit, loads, history>>

-----------------------------------------------------------------------------
(* validate_official_stats with --coverage-cache-root.  The command reads   *)
(* the artifact and the reports it is given, then queries the tables: each  *)
(* statement sees what is committed when it runs.                           *)

When(condition, code) == IF condition THEN {code} ELSE {}

_report_failure_counter_issues(given) ==
  When(\E kind \in DOMAIN given : ~given[kind].clean, "backfill_failures_present")

reported_total_rows(given) ==
  given["team_stats"].total + given["player_stats"].total
    + given["player_postseason_stats"].total

(* No report at all is no issue.                                            *)
_backfill_report_issues(given) ==
  LET supplied == DOMAIN given
  IN  IF supplied = {} THEN {}
      ELSE When(supplied # Kinds, "stats_backfill_report_missing_producer")
           \union _report_failure_counter_issues(given)
           \union When(supplied = Kinds /\ reported_total_rows(given) # Cardinality(Persisted),
                       "backfill_row_mismatch")

_team_stint_synthetic_code_issues ==
  When(\E k \in Persisted : is_synthetic_team_code(k.team), "synthetic_code_in_team_stint_stats")

_aggregate_source_team_code_issues ==
  When(\E k \in Persisted :
         /\ k.team = NONE
         /\ ~is_multi_team_marker(table[k].code)
         /\ table[k].code \notin core.teams,
       "invalid_aggregate_source_team_code")

_regular_postseason_separation_issues ==
  When(\E k \in Persisted :
         (expected_parser_producer(k.dim) = "player_page_postseason")
           # (table[k].by = "player_page_postseason"),
       "regular_postseason_separation_violation")

(* Variant: only the producer's name is looked at.                          *)
_parser_version_issues_AnyVersion ==
  When(\E k \in Persisted : table[k].by # expected_parser_producer(k.dim),
       "wrong_producer_parser_version")

_parser_version_issues ==
  When(\E k \in Persisted : table[k].by # expected_parser_producer(k.dim),
       "wrong_producer_parser_version")
  \union When(\E k \in Persisted : ~table[k].current, "stale_parser_version")

_row_content_issues == When(\E k \in Persisted : table[k].val # "ok", "impossible_numeric_values")

(* The files are read, then the row counts and the rows; what these checks  *)
(* read while others write is not told apart.                               *)
CheckTables ==
  /\ audit.pc = "idle"
  /\ \E given \in {{}, {kind \in Kinds : reports[kind] # NONE}} :
       audit' = [pc |-> "oracle", oracle |-> artifact, seen |-> {}, scope |-> {}, todo |-> <<>>,
                 issues |-> _backfill_report_issues([kind \in given |-> reports[kind]])
                            \union _team_stint_synthetic_code_issues
                            \union _aggregate_source_team_code_issues
                            \union _regular_postseason_separation_issues
                            \union _parser_version_issues \union _row_content_issues]
  /\ UNCHANGED <<cache, database, disk, build, loads, history>>

(* The artifact is refused when it is absent, or when the live cache has    *)
(* another fingerprint.                                                     *)
OracleRefused ==
  IF audit.oracle = NONE THEN "coverage_artifact_missing"
  ELSE IF audit.oracle.digest # compute_cache_fingerprint THEN "coverage_artifact_stale"
  ELSE NONE

(* What the audit has vouched for: history.                                 *)
LivePages == {<<f, cache[f]>> : f \in discover_player_cache_entries \union ValidTeamEntries}

(* get_season_years is read once for all dimensions.                        *)
CheckOracle ==
  /\ audit.pc = "oracle"
  /\ audit' =
       IF OracleRefused # NONE
       THEN [audit EXCEPT !.pc = "done", !.issues = @ \union {OracleRefused}]
       ELSE [audit EXCEPT !.pc = "compare",
               !.seen = LivePages,
               !.scope = core.seasons,
               !.todo = <<"regular_aggregate", "postseason_aggregate",
                          "regular_team_stint", "postseason_team_stint">>,
               !.issues = @
                 \union When(audit.oracle.unexplained # {}, "coverage_unexplained_source")
                 \union When(audit.oracle.source_issues # {}, "coverage_source_issues_present")
                 \union When(core.seasons = {}, "coverage_scope_empty")]
  /\ UNCHANGED <<cache, database, disk, build, loads, history>>

(* Variant: keys of seasons that are not loaded are expected as well.       *)
_expected_keys_AllSeasons(dim) == {k \in audit.oracle.keys : k.dim = dim}

_expected_keys(dim) == {k \in audit.oracle.keys : k.dim = dim /\ k.year \in audit.scope}
_actual_keys(dim) == {k \in Persisted : k.dim = dim}

CompareDimension ==
  /\ audit.pc = "compare"
  /\ LET dim == Head(audit.todo)
     IN  audit' = [audit EXCEPT !.todo = Tail(@),
           !.pc = IF Tail(audit.todo) = <<>> THEN "done" ELSE @,
           !.issues = @
             \union When(_expected_keys(dim) \ _actual_keys(dim) # {}, "coverage_missing_row")
             \union When(_actual_keys(dim) \ _expected_keys(dim) # {}, "coverage_unexpected_row")]
  /\ UNCHANGED <<cache, database, disk, build, loads, history>>

Next ==
  \/ \E f \in Files : AddPage(f)
  \/ LoadCore
  \/ \E kind \in Kinds : Backfill(kind)
  \/ BuildDiscover \/ BuildArtifact \/ BuildCrash
  \/ CheckTables \/ CheckOracle \/ CompareDimension

Spec == Init /\ [][Next]_vars

-----------------------------------------------------------------------------
(* What pages say, by a definition of its own: a season is on record when   *)
(* one row is its full-season row, the marker's or the only real team's.    *)

IsFullSeason(rows, n) ==
  \/ is_multi_team_marker(rows[n].team)
  \/ /\ rows[n].team # NONE /\ ~is_synthetic_team_code(rows[n].team)
     /\ \A m \in DOMAIN rows \ {n} :
          rows[m].year = rows[n].year => rows[m].team \in {NONE, "TOT"}

Recorded(dim, p, rows) ==
  {[key |-> Key(dim, p, rows[n].year, NONE), code |-> rows[n].team, val |-> rows[n].val] :
     n \in {m \in DOMAIN rows : rows[m].year # NONE /\ IsFullSeason(rows, m)}}

RealTeam(row) == row.team # NONE /\ ~is_synthetic_team_code(row.team)

Says(f, page) ==
  IF f.kind = "team"
  THEN {[key |-> Key("regular_team_stint", page.roster[n].player, f.year, page.roster[n].team),
         code |-> NONE, val |-> page.roster[n].val] :
          n \in {m \in DOMAIN page.roster : RealTeam(page.roster[m])}}
  ELSE Recorded("regular_aggregate", f.player, page.regular)
       \union Recorded("postseason_aggregate", f.player, page.postseason)
       \union {[key |-> Key("postseason_team_stint", f.player, page.postseason[n].year,
                            page.postseason[n].team),
                code |-> NONE, val |-> page.postseason[n].val] :
                 n \in {m \in DOMAIN page.postseason :
                          page.postseason[m].year # NONE /\ RealTeam(page.postseason[m])}}

Said(pages) == UNION {Says(p[1], p[2]) : p \in pages}

-----------------------------------------------------------------------------
(* Properties.                                                              *)

Passed == audit.pc = "done" /\ audit.issues = {}

(* A passed audit against the live cache means that the tables hold exactly *)
(* the keys that the pages imply for the loaded seasons: no missing key     *)
(* offset by an unexpected one, no page added after the artifact was built, *)
(* no page that was unreadable then.  When the tables change while the      *)
(* audit runs, every key is still there that the pages implied.             *)
PassMeansCovered ==
  Passed =>
    LET due == {k \in {s.key : s \in Said(audit.seen)} : k.year \in audit.scope}
    IN  /\ due \subseteq Persisted
        /\ ~touched => Persisted = due

(* A passed audit of tables at rest means that every row is what the        *)
(* current parser of its table reads on a page: nothing that an older       *)
(* parser, or the TOT row of a team page, has left.                         *)
PassMeansCurrent ==
  Passed /\ ~touched =>
    \A k \in Persisted : \E s \in Said(audit.seen) :
      s.key = k /\ table[k].code \in {s.code} /\ table[k].val = s.val /\ s.val = "ok"

Sound(f) ==
  Present(f) =>
    /\ f.named /\ cache[f].readable /\ ~Blank(f)
    /\ \A rows \in {cache[f].regular, cache[f].postseason} : \A y \in Years(rows) :
         \/ \E n \in InSeason(rows, y) : IsFullSeason(rows, n)
         \/ ~(\E n \in InSeason(rows, y) : RealTeam(rows[n])) /\ DidNotPlay(rows, y)
    /\ f.kind = "team" => \A n \in DOMAIN cache[f].roster :
         RealTeam(cache[f].roster[n]) /\ cache[f].roster[n].team = f.team

(* A load that nobody should have to explain: every page is sound, a team's *)
(* page lists that team, every row of a loaded season has its core rows,    *)
(* the backfills ran over all of it without a failure and the artifact was  *)
(* built from it.                                                           *)
HonestLoad ==
  /\ \A f \in Files : Sound(f)
  /\ \A s \in Said({<<f, cache[f]>> : f \in {g \in Files : Present(g)}}) :
       s.key.year \in core.seasons =>
         /\ HasGrain(s.key) /\ s.val = "ok"
         /\ s.code \in core.teams \union {NONE} \/ is_multi_team_marker(s.code)
  /\ complete = Kinds /\ \A kind \in Kinds : reports[kind].clean
  /\ \A k \in Persisted : table[k].current
  /\ core.seasons # {}
  /\ audit.oracle = artifact
  /\ artifact # NONE
  /\ artifact.digest = compute_cache_fingerprint

(* The audit raises no false alarm: an honest load passes, whatever trades, *)
(* idle seasons and seasons out of scope its pages record.                  *)
HonestLoadPasses ==
  audit.pc = "done" /\ ~touched /\ HonestLoad => audit.issues = {}

=============================================================================
