----------------------------- MODULE CoreLoad ------------------------------
(***************************************************************************)
(* `nba-data backfill offline`: a run lists the cache, parses the team     *)
(* pages it selected with a pool of workers, loads the validated ones into *)
(* the core tables, page by page under a savepoint, in one transaction     *)
(* that the command commits at its end, and then saves its report.         *)
(* `validate offline-database` judges the tables by such a report.         *)
(*                                                                         *)
(*   scraping/cache_inventory.py                   the list of files       *)
(*   scraping/offline_processor.py, offline_backfill.py   the run          *)
(*   scraping/offline_loader.py, loaders/team_season.py   the load         *)
(*   db/repositories/core.py                       get or create           *)
(*   validation/team_season.py, offline_database.py       the checks       *)
(*                                                                         *)
(* A cached file is what reading and parsing made of it.  Rows of all core *)
(* tables are entries of one function from natural keys to the one         *)
(* attribute that loads give them: the name of a team, an alias or a       *)
(* player, the number of a stint; Bare stands for the fallback name and    *)
(* for a row without attribute.  The database is PostgreSQL at READ        *)
(* COMMITTED with its unique indexes and row locks.                        *)
(***************************************************************************)
EXTENDS Naturals, Sequences, FiniteSets

CONSTANTS
  Runs,          \* executions of the command
  Files,         \* cached files in sorted order: [dir, named, team, year]
  Approved,      \* <<team, year>> of the approved catalog
  MayHold,       \* MayHold[n]: what file n may hold: [readable, html, name, rows]
  Archives,      \* what the cache may hold at the beginning
  Histories,     \* the loads that may precede: sequences of page entries
  WorkerCounts,  \* values of --max-workers
  BoxPlayers,    \* [player, name] of players that `backfill games` may create
  Reference,     \* the pages that the validator's pinned counts were measured on
  MaxChanges,    \* bound on the files replaced while the model runs
  NONE           \* an absent field

(* A row that is not there, one with the fallback name or without number,   *)
(* and one that a transaction has not written.                              *)
Absent == "absent"
Bare == "bare"
Clean == "clean"

IsList(s) == s \in Seq({s[i] : i \in DOMAIN s})

(* What parsing gives: no name or number is the fallback.                   *)
IsParsed(page) ==
  /\ IsList(page.rows)
  /\ page.name \notin {Absent, Bare, Clean}
  /\ \A n \in DOMAIN page.rows :
       {page.rows[n].name, page.rows[n].number} \intersect {Absent, Bare, Clean} = {}

ASSUME CoreLoadAssumption ==
  /\ IsList(Files) /\ \A page \in Approved : page[1] # NONE
  /\ \A cached \in Archives : \A n \in DOMAIN Files : cached[n] \in MayHold[n]
  /\ Archives \subseteq [DOMAIN Files -> UNION {MayHold[n] : n \in DOMAIN Files}]
  /\ \A n \in DOMAIN Files : \A content \in MayHold[n] : IsParsed(content)
  /\ \A hist \in Histories : IsList(hist) /\ \A i \in DOMAIN hist : IsParsed(hist[i])
  /\ \A box \in BoxPlayers : box.name \notin {Absent, Bare, Clean, NONE}
  /\ NONE \notin {Absent, Bare, Clean}
  /\ WorkerCounts \subseteq Nat \ {0}
  /\ MaxChanges \in Nat

VARIABLES
  archive,       \* the content of every file
  changes,       \* files replaced so far
  overlap,       \* whether the operator lets two runs be in progress at once
  workers,       \* --max-workers of the runs
  core,          \* the committed rows
  pc,            \* control point of run r
  inventory,     \* inventory[r]: status of the files listed so far
  parsed,        \* parsed[r]: processor results by selected entry
  results,       \* results[r]: load results of the pages r is done with
  work,          \* work[r]: the rows that r's open transaction has written
  mark,          \* mark[r]: work[r] at the page's savepoint
  step,          \* step[r]: the write of the current page that r is at
  seen,          \* seen[r]: what the SELECT of that write returned
  team,          \* team[r]: name of the Team object that the page's load holds
  report,        \* report[r]: the saved report
  log            \* history: the pages of committed loads and the box players

cache == <<archive, changes>>
options == <<overlap, workers>>
reading == <<inventory, parsed>>
session == <<work, mark, step, seen, team>>
vars == <<cache, options, core, pc, reading, results, session, report, log>>

-----------------------------------------------------------------------------
(* Inventory: how a file is listed.  A page that was already listed under   *)
(* another file name is a duplicate; an unreadable file does not count.     *)

is_multi_team_marker(t) == t = "2TM"
is_synthetic_team_code(t) == t = "TOT" \/ is_multi_team_marker(t)

Page(n) == <<Files[n].team, Files[n].year>>

ListedValid(listed, page) ==
  \E m \in DOMAIN listed : listed[m] = "valid" /\ Page(m) = page

_inventory_one_path(n, listed) ==
  IF Files[n].dir # "basketball-reference" THEN "unsupported_path"
  ELSE IF ~Files[n].named THEN "missing_metadata"
  ELSE IF is_synthetic_team_code(Files[n].team) \/ Page(n) \notin Approved
       THEN "unsupported_path"
  ELSE IF ~archive[n].readable \/ ~archive[n].html THEN "invalid_or_unreadable"
  ELSE IF ListedValid(listed, Page(n)) THEN "duplicate" ELSE "valid"

(* The files that r processes, in sorted order.                             *)
Valid(r) == {n \in DOMAIN inventory[r] : inventory[r][n] = "valid"}

Selected(r) ==
  [i \in 1..Cardinality(Valid(r)) |->
     CHOOSE n \in Valid(r) : Cardinality({m \in Valid(r) : m < n}) = i - 1]

-----------------------------------------------------------------------------
(* Processing: a normalized row is [team, table, player, name, number].     *)

is_aggregate(row) == row.team = "TOT"

natural_key(row) == <<row.team, row.table, row.player>>

Issues(rows) ==
  \/ \E i \in DOMAIN rows :
       is_multi_team_marker(rows[i].team) \/ rows[i].player = NONE
  \/ \E i, j \in DOMAIN rows : i # j /\ natural_key(rows[i]) = natural_key(rows[j])

(* The loader's own gate: no row of another team.                           *)
_validate_before_writes(entry) ==
  /\ ~Issues(entry.rows)
  /\ \A i \in DOMAIN entry.rows :
       is_aggregate(entry.rows[i]) \/ entry.rows[i].team = entry.team

Unparsed == [status |-> "pending"]

_process_one_source(n) ==
  LET content == archive[n]
      entry(status, rows) ==
        [status |-> status, file |-> n, team |-> Files[n].team, year |-> Files[n].year,
         name |-> content.name, rows |-> rows]
  IN  IF ~content.readable THEN entry("failed", <<>>)
      ELSE entry(IF Issues(content.rows) THEN "failed" ELSE "validated", content.rows)

-----------------------------------------------------------------------------
(* The core tables.                                                         *)

Key(table, t, p, y) == <<table, t, p, y>>

SeasonKey(y) == Key("seasons", NONE, NONE, y)
TeamKey(t) == Key("teams", t, NONE, NONE)
AliasKey(t, y) == Key("team_aliases", t, NONE, y)
TeamSeasonKey(t, y) == Key("team_seasons", t, NONE, y)
PlayerKey(p) == Key("players", NONE, p, NONE)
PlayerSeasonKey(p, y) == Key("player_seasons", NONE, p, y)
StintKey(p, t, y) == Key("player_team_seasons", t, p, y)

(* The get_or_create calls of a page, in order, with the attribute given:   *)
(* those of the page itself, then those of one row after the other.         *)
Get(key, given) == [key |-> key, given |-> given]

PageGets(entry) ==
  << Get(SeasonKey(entry.year), NONE), Get(TeamKey(entry.team), entry.name),
     Get(AliasKey(entry.team, entry.year), entry.name),
     Get(TeamSeasonKey(entry.team, entry.year), NONE) >>

RowGets(entry, row) ==
  LET player == << Get(PlayerKey(row.player), row.name),
                   Get(PlayerSeasonKey(row.player, entry.year), NONE) >>
  IN  IF is_aggregate(row) THEN player
      ELSE Append(player, Get(StintKey(row.player, entry.team, entry.year),
                              IF row.table = "roster" THEN row.number ELSE NONE))

Gets(entry, n) == IF n = 0 THEN PageGets(entry) ELSE RowGets(entry, entry.rows[n])

FirstCall == [row |-> 0, call |-> 1]

NextCall(entry, at) ==
  IF at.call < Len(Gets(entry, at.row)) THEN [at EXCEPT !.call = @ + 1]
  ELSE [row |-> at.row + 1, call |-> 1]

(* The rows that a page stands for.                                         *)
KeysOf(entry) ==
  LET players == {entry.rows[i].player : i \in DOMAIN entry.rows}
      stints == {entry.rows[i].player :
                   i \in {j \in DOMAIN entry.rows : ~is_aggregate(entry.rows[j])}}
  IN  {PlayerKey(p) : p \in players} \union
      IF entry.team = NONE THEN {}
      ELSE {SeasonKey(entry.year), TeamKey(entry.team),
            AliasKey(entry.team, entry.year), TeamSeasonKey(entry.team, entry.year)}
           \union {PlayerSeasonKey(p, entry.year) : p \in players}
           \union {StintKey(p, entry.team, entry.year) : p \in stints}

KeysOfAll(hist) == UNION {KeysOf(hist[i]) : i \in DOMAIN hist}

(* What `backfill games` loads of a player without a page.                  *)
BoxEntry(box) ==
  [team |-> NONE, year |-> NONE, name |-> NONE,
   rows |-> <<[team |-> NONE, table |-> "box", player |-> box.player,
               name |-> box.name, number |-> NONE]>>]

EntryOf(n, content) ==
  [team |-> Files[n].team, year |-> Files[n].year,
   name |-> content.name, rows |-> content.rows]

Loadable == {content \in UNION {MayHold[n] : n \in DOMAIN Files} : ~Issues(content.rows)}

Keys ==
  UNION ({KeysOf(EntryOf(n, content)) :
            n \in DOMAIN Files, content \in Loadable}
         \union {KeysOfAll(hist) : hist \in Histories}
         \union {KeysOf(BoxEntry(box)) : box \in BoxPlayers})

Untouched == [k \in Keys |-> Clean]

View(r, k) == IF work[r][k] # Clean THEN work[r][k] ELSE core[k]

LockedBy(q, k) == work[q][k] # Clean

(* The attribute after get_or_create: a name replaces a fallback only, a    *)
(* number that is given replaces the old one.                               *)
Stored(key, given, old) ==
  IF old = Absent THEN IF given = NONE THEN Bare ELSE given
  ELSE IF given # NONE /\ (key[1] = "player_team_seasons" \/ old = Bare) THEN given ELSE old

-----------------------------------------------------------------------------
(* What a page has of the attribute of a row: the first name, or the last   *)
(* number, of its rows that have one.                                       *)
First(S) == CHOOSE n \in S : \A m \in S : n <= m
Final(S) == CHOOSE n \in S : \A m \in S : n >= m

Naming(entry, p) ==
  {n \in DOMAIN entry.rows : entry.rows[n].player = p /\ entry.rows[n].name # NONE}

Numbering(entry, p) ==
  {n \in DOMAIN entry.rows :
     /\ entry.rows[n].player = p /\ entry.rows[n].table = "roster"
     /\ ~is_aggregate(entry.rows[n]) /\ entry.rows[n].number # NONE}

NameOf(entry, p) ==
  IF Naming(entry, p) = {} THEN NONE ELSE entry.rows[First(Naming(entry, p))].name

NumberOf(entry, p) ==
  IF Numbering(entry, p) = {} THEN NONE ELSE entry.rows[Final(Numbering(entry, p))].number

IsNamed(value) == value \notin {Absent, Bare}

(* An alias that is created without a name gets the team's.                 *)
NameGiven(table, entry, k) ==
  IF k[1] = "players" THEN NameOf(entry, k[3])
  ELSE IF k[1] = "team_aliases" /\ entry.name = NONE
    THEN IF table[k] = Absent /\ IsNamed(table[TeamKey(k[2])])
         THEN table[TeamKey(k[2])] ELSE NONE
  ELSE IF k[1] \in {"teams", "team_aliases"} THEN entry.name
  ELSE NONE

(* The table after a page: a name that is there stays, and the last number  *)
(* wins.                                                                    *)
Loaded(table, entry) ==
  [k \in Keys |->
     IF k \notin KeysOf(entry) THEN table[k]
     ELSE IF k[1] = "player_team_seasons"
       THEN LET number == NumberOf(entry, k[3])
            IN  IF number # NONE THEN number
                ELSE IF table[k] = Absent THEN Bare ELSE table[k]
     ELSE LET name == NameGiven(table, entry, k)
          IN  IF IsNamed(table[k]) THEN table[k] ELSE IF name = NONE THEN Bare ELSE name]

(* The tables that loading the entries of `hist` one after the other leaves.*)
Replay(hist) ==
  LET after[i \in 0..Len(hist)] ==
        IF i = 0 THEN [k \in Keys |-> Absent] ELSE Loaded(after[i - 1], hist[i])
  IN  after[Len(hist)]

(* The names, or numbers, that an entry gives to row k, and all of them.    *)
GivenBy(entry, k) ==
  IF k \notin KeysOf(entry) THEN {}
  ELSE IF k[1] = "teams" THEN {entry.name}
  ELSE IF k[1] = "players"
    THEN {entry.rows[n].name : n \in Naming(entry, k[3])}
  ELSE IF k[1] = "player_team_seasons"
    THEN {entry.rows[n].number : n \in Numbering(entry, k[3])}
  ELSE {}

AllGiven(hist, k) == (UNION {GivenBy(hist[i], k) : i \in DOMAIN hist}) \ {NONE}

-----------------------------------------------------------------------------
Ended == {"idle", "committed", "done", "crashed"}
Loading == {"load", "select", "flush"}

Init ==
  /\ archive \in Archives
  /\ changes = 0
  /\ overlap \in BOOLEAN
  /\ workers \in WorkerCounts
  /\ log \in Histories
  /\ core = Replay(log)
  /\ pc = [r \in Runs |-> "idle"]
  /\ inventory = [r \in Runs |-> <<>>]
  /\ parsed = [r \in Runs |-> <<>>]
  /\ results = [r \in Runs |-> <<>>]
  /\ work = [r \in Runs |-> Untouched]
  /\ mark = [r \in Runs |-> Untouched]
  /\ step = [r \in Runs |-> FirstCall]
  /\ seen = [r \in Runs |-> Absent]
  /\ team = [r \in Runs |-> Absent]
  /\ report = [r \in Runs |-> <<>>]

(* An acquisition or an operator replaces a cached file.                    *)
ReplaceFile(n, content) ==
  /\ changes < MaxChanges
  /\ archive[n] # content
  /\ archive' = [archive EXCEPT ![n] = content]
  /\ changes' = changes + 1
  /\ UNCHANGED <<options, core, pc, reading, results, session, report, log>>

(* `backfill games` commits a player that a box score names and no page has *)
(* loaded; its insert waits for a transaction that inserted the player.     *)
CreateBoxPlayer(box) ==
  LET k == PlayerKey(box.player)
  IN  /\ core[k] = Absent
      /\ \A r \in Runs : ~LockedBy(r, k)
      /\ core' = [core EXCEPT ![k] = box.name]
      /\ log' = Append(log, BoxEntry(box))
      /\ UNCHANGED <<cache, options, pc, reading, results, session, report>>

Start(r) ==
  /\ pc[r] = "idle"
  /\ overlap \/ \A q \in Runs \ {r} : pc[q] \in Ended
  /\ pc' = [pc EXCEPT ![r] = "inventory"]
  /\ UNCHANGED <<cache, options, core, reading, results, session, report, log>>

InventoryFile(r) ==
  /\ pc[r] = "inventory"
  /\ Len(inventory[r]) < Len(Files)
  /\ inventory' = [inventory EXCEPT ![r] = Append(@, _inventory_one_path(Len(@) + 1, @))]
  /\ UNCHANGED <<cache, options, core, pc, parsed, results, session, report, log>>

OpenPool(r) ==
  /\ pc[r] = "inventory"
  /\ Len(inventory[r]) = Len(Files)
  /\ parsed' = [parsed EXCEPT ![r] = [i \in DOMAIN Selected(r) |-> Unparsed]]
  /\ pc' = [pc EXCEPT ![r] = "process"]
  /\ UNCHANGED <<cache, options, core, inventory, results, session, report, log>>

Waiting(r) == {i \in DOMAIN parsed[r] : parsed[r][i] = Unparsed}

(* The pool hands out entries in order: the first `workers` unfinished ones *)
(* are being processed, and any of them may finish next.                    *)
InPool(r, i) ==
  /\ pc[r] = "process"
  /\ i \in Waiting(r)
  /\ Cardinality({j \in Waiting(r) : j < i}) < workers

(* Variant: results are kept in the order in which the workers finish.       *)
ProcessPage_AsCompleted(r, i) ==
  LET slot == CHOOSE j \in Waiting(r) : \A k \in Waiting(r) : j <= k
  IN  /\ InPool(r, i)
      /\ parsed' = [parsed EXCEPT ![r][slot] = _process_one_source(Selected(r)[i])]
      /\ UNCHANGED <<cache, options, core, pc, inventory, results, session, report, log>>

ProcessPage(r, i) ==
  /\ InPool(r, i)
  /\ parsed' = [parsed EXCEPT ![r][i] = _process_one_source(Selected(r)[i])]
  /\ UNCHANGED <<cache, options, core, pc, inventory, results, session, report, log>>

BeginLoad(r) ==
  /\ pc[r] = "process"
  /\ Waiting(r) = {}
  /\ pc' = [pc EXCEPT ![r] = "load"]
  /\ UNCHANGED <<cache, options, core, reading, results, session, report, log>>

-----------------------------------------------------------------------------
(* Loading: one result for every processed entry, in order.                 *)

Current(r) == parsed[r][Len(results[r]) + 1]
CurrentGet(r) == Gets(Current(r), step[r].row)[step[r].call]

AtPage(r) == pc[r] = "load" /\ Len(results[r]) < Len(parsed[r])

Settle(r, status) ==
  /\ results' = [results EXCEPT ![r] = Append(@, status)]
  /\ mark' = [mark EXCEPT ![r] = Untouched]
  /\ step' = [step EXCEPT ![r] = FirstCall]
  /\ seen' = [seen EXCEPT ![r] = Absent]
  /\ team' = [team EXCEPT ![r] = Absent]
  /\ pc' = [pc EXCEPT ![r] = "load"]

(* An entry that was not validated is skipped; the gate fails an entry      *)
(* before its first write.                                                  *)
SkipPage(r) ==
  /\ AtPage(r)
  /\ Current(r).status # "validated"
  /\ Settle(r, "skipped")
  /\ UNCHANGED <<cache, options, core, reading, work, report, log>>

RefusePage(r) ==
  /\ AtPage(r)
  /\ Current(r).status = "validated"
  /\ ~_validate_before_writes(Current(r))
  /\ Settle(r, "failed")
  /\ UNCHANGED <<cache, options, core, reading, work, report, log>>

(* The page's savepoint.                                                    *)
OpenPage(r) ==
  /\ AtPage(r)
  /\ Current(r).status = "validated"
  /\ _validate_before_writes(Current(r))
  /\ mark' = [mark EXCEPT ![r] = work[r]]
  /\ pc' = [pc EXCEPT ![r] = "select"]
  /\ UNCHANGED <<cache, options, core, reading, results, work, step, seen, team,
                 report, log>>

SelectRow(r) ==
  /\ pc[r] = "select"
  /\ step[r].row <= Len(Current(r).rows)
  /\ seen' = [seen EXCEPT ![r] = View(r, CurrentGet(r).key)]
  /\ pc' = [pc EXCEPT ![r] = "flush"]
  /\ UNCHANGED <<cache, options, core, reading, results, work, mark, step, team,
                 report, log>>

AtFlush(r) == pc[r] = "flush"

(* A new alias of a page without a name takes the name of its Team object.  *)
Given(r) ==
  LET get == CurrentGet(r)
  IN  IF /\ get.key[1] = "team_aliases" /\ get.given = NONE
         /\ seen[r] = Absent /\ team[r] # Bare
      THEN team[r] ELSE get.given

NewValue(r) == Stored(CurrentGet(r).key, Given(r), seen[r])

(* The flush emits a statement only when something changed, and then waits  *)
(* for the row lock of another transaction.                                 *)
Blocked(r) ==
  /\ NewValue(r) # seen[r]
  /\ \E q \in Runs \ {r} : LockedBy(q, CurrentGet(r).key)

Violates(r) == seen[r] = Absent /\ View(r, CurrentGet(r).key) # Absent

FlushRow(r) ==
  LET k == CurrentGet(r).key
  IN  /\ AtFlush(r)
      /\ ~Blocked(r)
      /\ ~Violates(r)
      /\ work' = IF NewValue(r) = seen[r] THEN work
                 ELSE [work EXCEPT ![r][k] = NewValue(r)]
      /\ team' = IF k[1] = "teams" THEN [team EXCEPT ![r] = NewValue(r)] ELSE team
      /\ step' = [step EXCEPT ![r] = NextCall(Current(r), @)]
      /\ seen' = [seen EXCEPT ![r] = Absent]
      /\ pc' = [pc EXCEPT ![r] = "select"]
      /\ UNCHANGED <<cache, options, core, reading, results, mark, report, log>>

(* Variant: a failed page keeps what it wrote.                               *)
PageFails_NoSavepoint(r) ==
  /\ AtFlush(r)
  /\ Settle(r, "failed")
  /\ UNCHANGED <<cache, options, core, reading, work, report, log>>

(* The page's savepoint is rolled back and the next page is taken.          *)
PageFails(r) ==
  /\ AtFlush(r)
  /\ work' = [work EXCEPT ![r] = mark[r]]
  /\ Settle(r, "failed")
  /\ UNCHANGED <<cache, options, core, reading, report, log>>

(* The INSERT met a row that was committed after the SELECT.                *)
UniqueViolation(r) ==
  /\ AtFlush(r)
  /\ ~Blocked(r)
  /\ Violates(r)
  /\ PageFails(r)

(* The statement failed; the server also ends a cycle of waiting            *)
(* transactions in this way.                                                *)
StatementFault(r) == AtFlush(r) /\ PageFails(r)

ClosePage(r) ==
  /\ pc[r] = "select"
  /\ step[r].row > Len(Current(r).rows)
  /\ Settle(r, "loaded")
  /\ UNCHANGED <<cache, options, core, reading, work, report, log>>

-----------------------------------------------------------------------------
(* The end of a run.                                                        *)

With(r, status) == {i \in DOMAIN results[r] : results[r][i] = status}
FailedParsing(r) == {i \in DOMAIN parsed[r] : parsed[r][i].status = "failed"}
RowsOf(r, entries) ==
  Cardinality(UNION {{i} \X DOMAIN parsed[r][i].rows : i \in entries})

(* The load report and the audit report: rows of an entry that failed to    *)
(* validate or to load are quarantined.                                     *)
Summary(r) ==
  [selected |-> Len(parsed[r]),
   loaded |-> Cardinality(With(r, "loaded")),
   loaded_rows |-> RowsOf(r, With(r, "loaded")),
   failed |-> Cardinality(With(r, "failed")),
   quarantined |-> Cardinality(With(r, "failed") \union FailedParsing(r)),
   quarantined_rows |-> RowsOf(r, With(r, "failed") \union FailedParsing(r))]

(* The pages of r in order, with nothing in place of one that is not loaded.*)
NoPage == [team |-> NONE, year |-> NONE, name |-> NONE, rows |-> <<>>]

LoadedPages(r) ==
  [i \in DOMAIN results[r] |-> IF results[r][i] = "loaded" THEN parsed[r][i] ELSE NoPage]

(* The command leaves `session.begin()`, also when pages failed.            *)
Commit(r) ==
  /\ pc[r] = "load"
  /\ Len(results[r]) = Len(parsed[r])
  /\ core' = [k \in Keys |-> View(r, k)]
  /\ work' = [work EXCEPT ![r] = Untouched]
  /\ log' = log \o LoadedPages(r)
  /\ pc' = [pc EXCEPT ![r] = "committed"]
  /\ UNCHANGED <<cache, options, reading, results, mark, step, seen, team, report>>

(* The report is written after the transaction.                             *)
SaveReport(r) ==
  /\ pc[r] = "committed"
  /\ report' = [report EXCEPT ![r] = <<Summary(r)>>]
  /\ pc' = [pc EXCEPT ![r] = "done"]
  /\ UNCHANGED <<cache, options, core, reading, results, session, log>>

(* The process or its connection dies: an open transaction is rolled back,  *)
(* and a report that is not saved is lost.                                  *)
Crash(r) ==
  /\ pc[r] \notin {"idle", "done", "crashed"}
  /\ inventory' = [inventory EXCEPT ![r] = <<>>]
  /\ parsed' = [parsed EXCEPT ![r] = <<>>]
  /\ results' = [results EXCEPT ![r] = <<>>]
  /\ work' = [work EXCEPT ![r] = Untouched]
  /\ mark' = [mark EXCEPT ![r] = Untouched]
  /\ step' = [step EXCEPT ![r] = FirstCall]
  /\ seen' = [seen EXCEPT ![r] = Absent]
  /\ team' = [team EXCEPT ![r] = Absent]
  /\ pc' = [pc EXCEPT ![r] = "crashed"]
  /\ UNCHANGED <<cache, options, core, report, log>>

Step(r) ==
  \/ Start(r) \/ InventoryFile(r) \/ OpenPool(r)
  \/ \E i \in DOMAIN parsed[r] : ProcessPage(r, i)
  \/ BeginLoad(r) \/ SkipPage(r) \/ RefusePage(r) \/ OpenPage(r)
  \/ SelectRow(r) \/ FlushRow(r)
  \/ UniqueViolation(r) \/ StatementFault(r)
  \/ ClosePage(r) \/ Commit(r) \/ SaveReport(r) \/ Crash(r)

Next ==
  \/ \E n \in DOMAIN Files : \E content \in MayHold[n] : ReplaceFile(n, content)
  \/ \E box \in BoxPlayers : CreateBoxPlayer(box)
  \/ \E r \in Runs : Step(r)

Spec == Init /\ [][Next]_vars

-----------------------------------------------------------------------------
(* `validate offline-database`: the tables and a saved report against the   *)
(* counts that were measured on the reference archive.                      *)

Tables == {"seasons", "teams", "team_aliases", "team_seasons", "players",
           "player_seasons", "player_team_seasons"}

Present == {k \in Keys : core[k] # Absent}

HasSeason(k, rows) == \E s \in rows : s[1] = "player_seasons" /\ s[3] = k[3]

(* core.players counts only the players with a season.                      *)
TableCount(table, rows) ==
  Cardinality({k \in rows : k[1] = table /\ (table = "players" => HasSeason(k, rows))})

ReferenceKeys == UNION {KeysOf(entry) : entry \in Reference}

ReferenceRows ==
  Cardinality(UNION {{entry} \X DOMAIN entry.rows : entry \in Reference})

(* Variant: the pinned counts are not compared.                              *)
_table_count_issues_Skipped(rows) == FALSE

_table_count_issues(rows) ==
  \E table \in Tables : TableCount(table, rows) # TableCount(table, ReferenceKeys)

_season_coverage_issues(rows) ==
  {k \in rows : k[1] = "seasons"} # {k \in ReferenceKeys : k[1] = "seasons"}

_team_season_player_issues(rows) ==
  \E k \in rows :
    /\ k[1] = "team_seasons"
    /\ \A s \in rows : s[1] = "player_team_seasons" => <<s[2], s[4]>> # <<k[2], k[4]>>

_backfill_report_issues(summary) ==
  summary # [selected |-> Cardinality(Reference), loaded |-> Cardinality(Reference),
             loaded_rows |-> ReferenceRows, failed |-> 0,
             quarantined |-> 0, quarantined_rows |-> 0]

Passes(summary) ==
  /\ ~_table_count_issues(Present)
  /\ ~_season_coverage_issues(Present)
  /\ ~_team_season_player_issues(Present)
  /\ ~_backfill_report_issues(summary)

-----------------------------------------------------------------------------
(* Properties.                                                              *)

(* The state is well typed, lists have the lengths that the control point   *)
(* says, and only a run that is loading holds rows or locks.                *)
TypeOK ==
  /\ \A n \in DOMAIN Files : archive[n] \in MayHold[n]
  /\ changes \in 0..MaxChanges
  /\ overlap \in BOOLEAN
  /\ workers \in WorkerCounts
  /\ pc \in [Runs -> Ended \union Loading \union {"inventory", "process"}]
  /\ \A r \in Runs :
       /\ Len(inventory[r]) <= Len(Files)
       /\ Len(results[r]) <= Len(parsed[r])
       /\ work[r] # Untouched => pc[r] \in Loading
       /\ pc[r] \in {"select", "flush"} =>
            /\ Len(results[r]) < Len(parsed[r])
            /\ step[r].row \in 0..Len(Current(r).rows) + 1
       /\ report[r] # <<>> <=> pc[r] = "done"

(* Whatever pages fail, however runs interleave and crash, the core tables  *)
(* hold exactly the rows of the pages that committed runs report as loaded  *)
(* and the players that box scores created: nothing of a failed page, and   *)
(* nothing of a loaded page is missing.  One savepoint per page             *)
(* (offline_loader.py) and one transaction per run (cli/main.py).  And      *)
(* docs/domain/BUSINESS_RULES.md, "the first non-fallback name from either  *)
(* one wins": while runs do not overlap, the tables are those of loading    *)
(* the committed pages and box players one after the other, whatever the    *)
(* number of workers; with overlapping runs an attribute is still one of    *)
(* those given, and no fallback is left once a name was given.              *)
CoreIsUnion ==
  /\ TypeOK
  /\ Present = KeysOfAll(log)
  /\ IF ~overlap THEN core = Replay(log)
     ELSE \A k \in Present :
            k[1] \in {"teams", "players", "player_team_seasons"} =>
              LET given == AllGiven(log, k)
              IN  IF given = {} THEN core[k] = Bare ELSE core[k] \in given

(* The report of a run that committed is true: one entry per selected file, *)
(* in the order of the files; every row that was parsed is either loaded or *)
(* quarantined; and the rows of an entry that is called loaded are in the   *)
(* core tables, now and after whatever other runs do.                       *)
ReportIsTrue ==
  \A r \in Runs :
    pc[r] \in {"committed", "done"} =>
      /\ [i \in DOMAIN parsed[r] |-> parsed[r][i].file] = Selected(r)
      /\ Len(results[r]) = Len(parsed[r])
      /\ RowsOf(r, DOMAIN parsed[r])
           = Summary(r).loaded_rows + Summary(r).quarantined_rows
      /\ \A i \in With(r, "loaded") : KeysOf(parsed[r][i]) \subseteq Present

(* The rows that the pages of r stand for.                                  *)
RunKeys(r) == UNION {KeysOf(parsed[r][i]) : i \in With(r, "loaded")}

(* A pass of the validator means that the tables hold nothing but what the  *)
(* reported run loaded (and box players): no row of an earlier state of the *)
(* cache is left and no other run has added one, although the report may be *)
(* old when it is validated.  The counts are compared as numbers, so this   *)
(* is said of runs whose own pages have the reference counts.               *)
PassMeansExact ==
  \A r \in Runs :
    /\ report[r] # <<>>
    /\ Passes(report[r][1])
    /\ \A table \in Tables : TableCount(table, RunKeys(r)) = TableCount(table, ReferenceKeys)
    => {k \in Present : k[1] # "players" \/ HasSeason(k, Present)} = RunKeys(r)
=============================================================================
