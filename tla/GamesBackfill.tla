--------------------------- MODULE GamesBackfill ---------------------------
(***************************************************************************)
(* backfill games for one season: _backfill_season                         *)
(* (scraping/offline_games_backfill.py), load_game and derive_neutral_sites *)
(* (scraping/loaders/games.py), over GameRepository                        *)
(* (db/repositories/games.py).  The games are 1..NumGames in date order.   *)
(*                                                                         *)
(* A box score is a value of Boxes, and stands for its page and for every  *)
(* row parsed from it: a row of stats.team_game_totals or                  *)
(* stats.player_game_totals carries the box it was written from.  Which    *)
(* box a page parses to changes between runs, when the page is acquired    *)
(* or the parser is.                                                       *)
(***************************************************************************)
EXTENDS Naturals, FiniteSetsExt

CONSTANTS
    NumGames,
    Teams, Home,    \* the home team of each game, part of its id
    Players, Cities, NoCity,
    Boxes,          \* [valid, away, city, lines, unnamed], see BoxesAssumption
    Nothing,        \* no page, or no row
    Selections,     \* the sets of games select_season_games may return
    MaxChanges      \* bound: how often a page changes

Games == 1..NumGames

ASSUME BoxesAssumption ==
    /\ NumGames \in Nat /\ MaxChanges \in Nat
    /\ Home \in [Games -> Teams] /\ Selections \subseteq SUBSET Games
    /\ \A b \in Boxes :
        /\ b.valid \in BOOLEAN                          \* check_game has no quarantine
        /\ b.away \in Teams \ {Home[g] : g \in Games}
        /\ b.city \in Cities \cup {NoCity}              \* venue_city
        /\ b.lines \subseteq Players \X {"home", "away"}
        /\ b.unnamed \subseteq Players                  \* no link text to create them from
    /\ Nothing \notin Boxes /\ NoCity \notin Cities

VARIABLES
    page,           \* the box each game's cached page parses to
    changes,        \* how often a page changed
    db,             \* what is committed
    tx,             \* what the session sees
    run             \* the current or last run and its report

vars == <<page, changes, db, tx, run>>

Database == [game : [Games -> Boxes \cup {Nothing}],            \* core.games
             neutral : [Games -> {"null", "yes", "no"}],        \* ... .neutral_site
             totals : SUBSET (Games \X Teams \X Boxes),
             lines : SUBSET (Games \X Players \X Teams \X Boxes),
             players : SUBSET Players]                          \* core.players

Steps == {"next", "players", "game", "totals", "lines", "commit"}

TypeOK ==
    /\ page \in [Games -> Boxes \cup {Nothing}]
    /\ changes \in 0..MaxChanges
    /\ db \in Database /\ tx \in Database
    /\ run \in [step : Steps \cup {"ended", "crashed"},
                selection : SUBSET Games, todo : SUBSET Games, changed : BOOLEAN,
                loaded : SUBSET Games, unchanged : SUBSET Games, missing : SUBSET Games,
                quarantined : SUBSET Games, failed : SUBSET Games,
                error : BOOLEAN,        \* no selection, or the neutral-site pass failed
                pages : [Games -> Boxes \cup {Nothing}],        \* history: page at the start
                before : [Games -> Boxes \cup {Nothing}],       \* history: db.game then
                repeat : BOOLEAN]                               \* history: see StartRun

NoRows == [g \in Games |-> Nothing]

Init ==
    /\ page = NoRows /\ changes = 0
    /\ db = [game |-> NoRows, neutral |-> [g \in Games |-> "null"], totals |-> {},
             lines |-> {}, players |-> {}]
    /\ tx = db
    /\ run = [step |-> "crashed", selection |-> {}, todo |-> {}, changed |-> FALSE,
              loaded |-> {}, unchanged |-> {}, missing |-> {}, quarantined |-> {},
              failed |-> {}, error |-> FALSE, pages |-> NoRows, before |-> NoRows,
              repeat |-> FALSE]

Running == run.step \in Steps

(* A page is acquired, or is parsed differently. *)
ChangePage(g, box) ==
    /\ ~Running /\ changes < MaxChanges /\ page[g] # box
    /\ page' = [page EXCEPT ![g] = box]
    /\ changes' = changes + 1
    /\ UNCHANGED <<db, tx, run>>

-----------------------------------------------------------------------------
(* Nothing was left out of the run that ended; Clean: nothing at all. *)
Complete == run.step = "ended" /\ ~run.error /\ run.missing = {} /\ run.failed = {}

Clean == Complete /\ run.quarantined = {}

(* select_season_games succeeds.  Whether the same games and pages just     *)
(* went through a clean run is remembered for the properties.               *)
StartRun(selection) ==
    /\ ~Running
    /\ run' = [step |-> "next", selection |-> selection, todo |-> selection,
               changed |-> FALSE, loaded |-> {}, unchanged |-> {}, missing |-> {},
               quarantined |-> {}, failed |-> {}, error |-> FALSE,
               pages |-> page, before |-> db.game,
               repeat |-> Clean /\ run.pages = page /\ run.selection = selection]
    /\ tx' = db
    /\ UNCHANGED <<page, changes, db>>

(* GameSeasonPlanningError, or an unreadable schedule page. *)
SelectionFails ==
    /\ ~Running
    /\ run' = [run EXCEPT !.step = "ended", !.error = TRUE, !.repeat = FALSE,
                          !.pages = page, !.before = db.game, !.selection = {},
                          !.loaded = {}, !.unchanged = {}, !.missing = {},
                          !.quarantined = {}, !.failed = {}]
    /\ UNCHANGED <<page, changes, db, tx>>

-----------------------------------------------------------------------------
g0 == Min(run.todo)
box0 == page[g0]

(* The game is done; `list` is where the report counts it. *)
Counted(list) == [list EXCEPT !.step = "next", !.todo = @ \ {g0}, !.changed = FALSE]

Working(step) == run.step = step /\ run.todo # {} /\ UNCHANGED <<page, changes>>

Missing ==
    /\ Working("next") /\ box0 = Nothing
    /\ run' = Counted([run EXCEPT !.missing = @ \cup {g0}])
    /\ UNCHANGED <<db, tx>>

Passes == box0.valid /\ box0.unnamed \subseteq tx.players

(* Nothing was written, and the session is rolled back. *)
Quarantine ==
    /\ Working("next") /\ box0 # Nothing /\ ~Passes
    /\ run' = Counted([run EXCEPT !.quarantined = @ \cup {g0}])
    /\ tx' = db
    /\ UNCHANGED db

Pass ==
    /\ Working("next") /\ box0 # Nothing /\ Passes
    /\ run' = [run EXCEPT !.step = "players"]
    /\ UNCHANGED <<db, tx>>

(* One flush of load_game: what it makes of the session's rows. *)
Write(step, next, rows) ==
    /\ Working(step)
    /\ tx' = rows
    /\ run' = [run EXCEPT !.step = next, !.changed = @ \/ rows # tx]
    /\ UNCHANGED db

Listed(box) == {line[1] : line \in box.lines} \cup box.unnamed

CreatePlayers ==
    Write("players", "game", [tx EXCEPT !.players = @ \cup Listed(box0)])

(* Variant: the values of the upsert include a neutral_site that is not known yet. *)
UpsertGame_ResetsFlag ==
    Write("game", "totals", [tx EXCEPT !.game[g0] = box0, !.neutral[g0] = "null"])

(* upsert_game, which leaves neutral_site alone. *)
UpsertGame == Write("game", "totals", [tx EXCEPT !.game[g0] = box0])

TeamOf(g, box, side) == IF side = "home" THEN Home[g] ELSE box.away

TotalsOf(g, box) == {<<g, TeamOf(g, box, side), box>> : side \in {"home", "away"}}

LinesOf(g, box) == {<<g, line[1], TeamOf(g, box, line[2]), box>> : line \in box.lines}

RowsOf(rows, g) == {row \in rows : row[1] = g}

(* Variant: an away team of an earlier page keeps its totals. *)
ReplaceTotals_KeepsOthers ==
    LET teams == {row[2] : row \in TotalsOf(g0, box0)} IN
    Write("totals", "lines",
          [tx EXCEPT !.totals = {row \in @ : row[1] # g0 \/ row[2] \notin teams}
                                    \cup TotalsOf(g0, box0)])

(* remove_other_team_totals, with the lines that refer to them, and the two *)
(* upserts.                                                                 *)
ReplaceTotals ==
    LET teams == {row[2] : row \in TotalsOf(g0, box0)} IN
    Write("totals", "lines",
          [tx EXCEPT !.totals = (@ \ RowsOf(@, g0)) \cup TotalsOf(g0, box0),
                     !.lines = {row \in @ : row[1] # g0 \/ row[3] \in teams}])

(* replace_player_game_totals. *)
ReplaceLines ==
    Write("lines", "commit",
          [tx EXCEPT !.lines = (@ \ RowsOf(@, g0)) \cup LinesOf(g0, box0)])

Commit ==
    /\ Working("commit")
    /\ db' = tx
    /\ run' = Counted(IF run.changed THEN [run EXCEPT !.loaded = @ \cup {g0}]
                                     ELSE [run EXCEPT !.unchanged = @ \cup {g0}])
    /\ UNCHANGED tx

(* Any exception: an unreadable body, a parser, the database. *)
GameFails ==
    /\ run.step \in Steps /\ run.todo # {} /\ (run.step = "next" => box0 # Nothing)
    /\ run' = Counted([run EXCEPT !.failed = @ \cup {g0}])
    /\ tx' = db
    /\ UNCHANGED <<page, changes, db>>

-----------------------------------------------------------------------------
(* neutral_sites over the stored games: the most common city of each home   *)
(* team's games, if there is a single one.                                  *)
Stored(rows) == {g \in Games : rows.game[g] # Nothing}

Count(rows, team, city) ==
    Cardinality({g \in Stored(rows) : Home[g] = team /\ rows.game[g].city = city})

HomeCities(rows, team) ==
    {city \in Cities : /\ Count(rows, team, city) > 0
                       /\ \A other \in Cities : Count(rows, team, other) <= Count(rows, team, city)}

NeutralSite(rows, g) ==
    LET city == rows.game[g].city
        homes == HomeCities(rows, Home[g]) IN
    IF city = NoCity \/ Cardinality(homes) # 1 THEN "null"
    ELSE IF city \in homes THEN "no" ELSE "yes"

Flags(rows) == [g \in Games |-> IF g \in Stored(rows) THEN NeutralSite(rows, g)
                                ELSE rows.neutral[g]]

MayDerive ==
    /\ run.missing = {} /\ run.failed = {}
    /\ run.selection \ run.quarantined \subseteq Stored(tx)

(* Variant: the pass runs only when this run loaded something. *)
DeriveNeutralSites_WhenLoaded ==
    /\ run.step = "next" /\ run.todo = {}
    /\ tx' = IF MayDerive /\ run.loaded # {} THEN [tx EXCEPT !.neutral = Flags(tx)] ELSE tx
    /\ db' = tx'
    /\ run' = [run EXCEPT !.step = "ended"]
    /\ UNCHANGED <<page, changes>>

(* derive_neutral_sites decides or defers, and the session is committed. *)
DeriveNeutralSites ==
    /\ run.step = "next" /\ run.todo = {}
    /\ tx' = IF MayDerive THEN [tx EXCEPT !.neutral = Flags(tx)] ELSE tx
    /\ db' = tx'
    /\ run' = [run EXCEPT !.step = "ended"]
    /\ UNCHANGED <<page, changes>>

DeriveFails ==
    /\ run.step = "next" /\ run.todo = {}
    /\ tx' = db
    /\ run' = [run EXCEPT !.step = "ended", !.error = TRUE]
    /\ UNCHANGED <<page, changes, db>>

(* The process is killed: the database drops the open transaction. *)
Crash ==
    /\ Running
    /\ run' = [run EXCEPT !.step = "crashed"]
    /\ tx' = db
    /\ UNCHANGED <<page, changes, db>>

-----------------------------------------------------------------------------
Next ==
    \/ \E g \in Games, box \in Boxes : ChangePage(g, box)
    \/ \E selection \in Selections : StartRun(selection)
    \/ SelectionFails
    \/ Missing \/ Quarantine \/ Pass
    \/ CreatePlayers \/ UpsertGame \/ ReplaceTotals \/ ReplaceLines \/ Commit \/ GameFails
    \/ DeriveNeutralSites \/ DeriveFails
    \/ Crash

Spec == Init /\ [][Next]_vars

-----------------------------------------------------------------------------
(* Every stored game is whole and from one page: its two totals rows, all   *)
(* its player lines and no others, and its players.  Loads fail at any      *)
(* flush, pages change, and the next game's commit follows.                 *)
GamesAreWhole ==
    /\ TypeOK
    /\ \A g \in Games :
         IF db.game[g] = Nothing
         THEN RowsOf(db.totals, g) = {} /\ RowsOf(db.lines, g) = {}
         ELSE /\ RowsOf(db.totals, g) = TotalsOf(g, db.game[g])
              /\ RowsOf(db.lines, g) = LinesOf(g, db.game[g])
              /\ Listed(db.game[g]) \subseteq db.players

(* The report is true: a game it calls missing, quarantined or failed is     *)
(* exactly as the run found it; and a run without problems means that the   *)
(* database holds what the cache says of every selected game, with neutral  *)
(* sites derived from all stored games, whatever earlier runs, crashes and  *)
(* corrected pages left behind.                                             *)
ReportIsTrue ==
    /\ \A g \in run.missing \cup run.quarantined \cup run.failed :
         db.game[g] = run.before[g]
    /\ Clean => /\ \A g \in run.selection : db.game[g] = run.pages[g]
                /\ db.neutral = Flags(db)

(* A commit writes only what is due: flags change only in a run that has    *)
(* stored every selected page it did not quarantine, and a rerun of a clean *)
(* run over the same pages writes nothing at all.                           *)
WritesAreDue ==
    [][/\ ~run.repeat
       /\ db'.neutral # db.neutral =>
            \A g \in run.selection \ run.quarantined : db.game[g] = run.pages[g]]_db
=============================================================================
