----------------------------- MODULE SeasonPlan -----------------------------
(***************************************************************************)
(* How a season's box scores come to be planned: the season page, the      *)
(* month pages it links, and the games selected from those, each in a      *)
(* draft manifest that the owner approves before its pages are fetched.    *)
(*                                                                         *)
(*   scraping/game_season_planning.py     the planners and the selection   *)
(*   scraping/game_season_manifest.py     the contract of a manifest       *)
(*   scraping/parsers/league_schedule.py  the rows of a schedule page      *)
(*                                                                         *)
(* The site goes on while this happens, and the archive keeps each page as *)
(* it was on the day it was fetched, for ever.  A page is therefore a day: *)
(* what it says follows from the season's calendar.  A calendar is the     *)
(* rows of the season in page order, each [game, month, date, visitor,     *)
(* home, kind, listed, gone]: a postponed game has a row that is gone from *)
(* the page on some day and another that is listed later.  Seasons share   *)
(* no pages, and a behaviour is about one season.                          *)
(*                                                                         *)
(* One fetch is one step: SeasonAcquisition has the batches, retries and   *)
(* kills.  A draft is written to its default path.                         *)
(***************************************************************************)
EXTENDS Naturals, FiniteSets, FiniteSetsExt, Sequences, Functions

CONSTANTS
  Seasons,               \* season end years
  Calendar,              \* Calendar[s]: the rows of season s
  Months,                \* Months[s]: its month pages, [month, linked], in page order
  Windows,               \* Windows[s]: the first and the last day a box score of s may have
  EXPECTED_SELECTED_GAMES,         \* the reviewed count of each season
  REGULAR_SEASON_GAMES_PER_TEAM,   \* 82
  MAX_SEASON_URLS,       \* 1400
  FirstDay, LastDay,     \* the days on which the project works
  FirstPages,            \* schedule pages that earlier work may have left: functions to days
  Foreign,               \* entries that do not belong to a season's manifest
  MaxSlips,              \* bound on the owner's slips and on pages that do not parse
  NONE

RowsOf(s, kinds) == {n \in DOMAIN Calendar[s] : Calendar[s][n].kind \in kinds}
Games(s, kinds) == {Calendar[s][n].game : n \in RowsOf(s, kinds)}
Held(s) == {n \in DOMAIN Calendar[s] : Calendar[s][n].gone = NONE}
LastOf(s, kinds) == {Calendar[s][n].date : n \in Held(s) \intersect RowsOf(s, kinds)}
TeamsOf(r) == {r.visitor, r.home}
HeldBy(s, kinds, team) == {n \in Held(s) \intersect RowsOf(s, kinds) : team \in TeamsOf(Calendar[s][n])}

(* The day from which no page of season s changes any more.                 *)
Over == [s \in Seasons |-> 1 + Max(LastOf(s, {"regular", "cup", "play-in", "playoff"}))]

(* A row is listed before its day; a postponed one is gone before a box     *)
(* score could be.  Every game is held once.                                *)
IsCalendar(s) ==
  /\ IsFiniteSet(DOMAIN Calendar[s]) /\ DOMAIN Calendar[s] \subseteq Nat
  /\ \A n \in DOMAIN Calendar[s] :
       LET r == Calendar[s][n]
       IN  /\ r.kind \in {"regular", "cup", "play-in", "playoff"}
           /\ r.visitor # r.home /\ r.game # NONE
           /\ {r.date, r.listed} \subseteq Nat /\ r.listed <= r.date
           /\ r.gone # NONE => r.gone \in Nat /\ r.gone <= r.date + 1
           /\ \E m \in Held(s) : Calendar[s][m].game = r.game /\ Calendar[s][m].kind = r.kind
  /\ \A m, n \in Held(s) : Calendar[s][m].game = Calendar[s][n].game => m = n

(* The play-in comes after the regular games and the Cup final, and the     *)
(* playoffs come last.                                                      *)
IsInOrder(s) ==
  /\ \A d \in LastOf(s, {"regular", "cup"}), e \in LastOf(s, {"play-in", "playoff"}) : d < e
  /\ \A n \in RowsOf(s, {"play-in"}), e \in LastOf(s, {"playoff"}) : Calendar[s][n].date < e

(* A season was over before the project began: its pages are complete.      *)
WasOver(s) ==
  /\ Over[s] \in Nat /\ Over[s] <= FirstDay
  /\ \A pages \in FirstPages[s] : \A page \in DOMAIN pages : pages[page] >= Over[s]
  /\ \A n \in Held(s) : \E m \in Range(Months[s]) :
       m.month = Calendar[s][n].month /\ m.linked <= Over[s]

(* Every team plays its 82 games; the suspended season 2019-20 and the      *)
(* short one after it had a play-in and no Cup final.                       *)
IsPlayedInFull(s) ==
  \A n \in DOMAIN Calendar[s] : \A team \in TeamsOf(Calendar[s][n]) :
    Cardinality(HeldBy(s, {"regular"}, team)) = REGULAR_SEASON_GAMES_PER_TEAM

(* What the league does.  Seasons before 2023-24 had no Cup final and were  *)
(* over before the project began; those before 2019-20 had no play-in.      *)
ASSUME SeasonPlanAssumption ==
  /\ FirstDay \in Nat /\ LastDay \in Nat /\ FirstDay <= LastDay
  /\ REGULAR_SEASON_GAMES_PER_TEAM \in Nat
  /\ \A s \in Seasons :
       /\ IsCalendar(s) /\ IsInOrder(s)
       /\ Games(s, {"cup"}) = {} => WasOver(s)
       /\ Games(s, {"play-in"}) = {} => Games(s, {"cup"}) = {}
       /\ Games(s, {"play-in"}) = {} \/ Games(s, {"cup"}) # {} => IsPlayedInFull(s)
       /\ EXPECTED_SELECTED_GAMES[s] = Cardinality(Games(s, {"regular", "cup"}))
       /\ DOMAIN Months[s] # {}
       /\ \A m \in Range(Months[s]) : m.month # NONE /\ m.linked \in Nat
       /\ \A pages \in FirstPages[s] : \A page \in DOMAIN pages :
            pages[page] \in Nat /\ pages[page] <= FirstDay

VARIABLES
  season,        \* the season that the commands name
  day,           \* today
  schedule,      \* cached schedule pages: [at, clean] by month, NONE for the season page
  scores,        \* games whose box score is cached
  drafts,        \* the draft at each default path, or NONE
  manifests,     \* the files in tasks/manifests
  slips          \* slips of the owner and pages that do not parse, so far

planVars == <<season, day, schedule, scores, drafts, manifests, slips>>

-----------------------------------------------------------------------------
(* Schedule pages.  The season page, of month NONE, repeats the first month. *)

MonthOf(page) == IF page = NONE THEN Months[season][1].month ELSE page

(* A row as the page of a day shows it: a game that is being posted has     *)
(* points before it has a box score.                                        *)
ScheduleGame(n, at) ==
  LET r == Calendar[season][n]
  IN  [position |-> n,
       game_id |-> IF at > r.date THEN r.game ELSE NONE,
       scored |-> at >= r.date,
       date |-> r.date, teams |-> TeamsOf(r),
       play_in |-> r.kind = "play-in"]

played(g) == g.game_id # NONE /\ g.scored

parse_league_schedule_page(page) ==
  LET at == schedule[page].at
      Shown(r) == r.month = MonthOf(page) /\ r.listed <= at /\ (r.gone # NONE => at < r.gone)
  IN  {ScheduleGame(n, at) : n \in {m \in DOMAIN Calendar[season] : Shown(Calendar[season][m])}}

month_links == {m.month : m \in {x \in Range(Months[season]) : x.linked <= schedule[NONE].at}}

Cached(page) == schedule[page] # NONE
ParsesCleanly(page) == schedule[page].clean

-----------------------------------------------------------------------------
(* The selection, from the cached pages only.                               *)

_listed_games == UNION {parse_league_schedule_page(month) : month \in month_links}

Played(listed) == {g \in listed : played(g)}

(* The place of a game among the played rows of a team, by date and row.    *)
games_played(listed, team, g) ==
  Cardinality({h \in Played(listed) :
    /\ team \in h.teams
    /\ \/ h.date < g.date
       \/ h.date = g.date /\ h.position <= g.position})

PlayInDates(listed) == {g.date : g \in {h \in listed : h.play_in}}

(* Variant: the last of the regular games is not counted.                   *)
Within_Short(listed, g) ==
  {team \in g.teams : games_played(listed, team, g) < REGULAR_SEASON_GAMES_PER_TEAM}

Within(listed, g) ==
  {team \in g.teams : games_played(listed, team, g) <= REGULAR_SEASON_GAMES_PER_TEAM}

_select(listed) ==
  IF PlayInDates(listed) # {}
  THEN {g \in Played(listed) : \A d \in PlayInDates(listed) : g.date < d}
  ELSE {g \in Played(listed) : Within(listed, g) = g.teams}

(* Without a play-in row: a game in one team's 82 and not in the other's.   *)
Mixed(listed) ==
  /\ PlayInDates(listed) = {}
  /\ \E g \in Played(listed) : Within(listed, g) \notin {{}, g.teams}

ListedTwice(listed) ==
  \E g, h \in listed : g # h /\ g.game_id # NONE /\ g.game_id = h.game_id

_require_season_page_covered(listed) ==
  {g.game_id : g \in parse_league_schedule_page(NONE)} \ {NONE} \subseteq {g.game_id : g \in listed}

(* Variant: any selection will do.                                          *)
CountIsReviewed_Any(selected) == TRUE
CountIsReviewed(selected) == Cardinality(selected) = EXPECTED_SELECTED_GAMES[season]

PagesAreComplete ==
  /\ Cached(NONE) /\ ParsesCleanly(NONE)
  /\ month_links # {}
  /\ \A month \in month_links : Cached(month) /\ ParsesCleanly(month)

(* The rows that the cached pages list, if they are complete.               *)
Listings == IF PagesAreComplete THEN {_listed_games} ELSE {}

(* select_season_games returns, rather than refuses.                        *)
Selects(listed) ==
  /\ ~ListedTwice(listed)
  /\ _require_season_page_covered(listed)
  /\ ~Mixed(listed)
  /\ CountIsReviewed(_select(listed))

select_season_games(listed) == {g.game_id : g \in _select(listed)}

-----------------------------------------------------------------------------
(* Manifests.                                                               *)

Kinds == {"season-page", "schedule-months", "box-scores"}
PageType(kind) == IF kind = "box-scores" THEN "box_score" ELSE "league_schedule"

Draft == [status |-> "draft", approved_by_owner |-> FALSE, signed |-> FALSE]
Approval == [status |-> "approved", approved_by_owner |-> TRUE, signed |-> TRUE]

(* Drafts with a field forgotten.                                           *)
HalfApprovals == {[Approval EXCEPT !.status = "draft"],
                  [Approval EXCEPT !.approved_by_owner = FALSE],
                  [Approval EXCEPT !.signed = FALSE]}

(* Variant: whatever the file says of its approval.                         *)
_validate_approval_Any(m, require_approval) == TRUE

_validate_approval(m, require_approval) ==
  IF require_approval \/ m.approval.status = "approved"
  THEN m.approval.status = "approved" /\ m.approval.approved_by_owner /\ m.approval.signed
  ELSE ~m.approval.approved_by_owner

Entry(type, name) == [type |-> type, of |-> season, season |-> season, name |-> name]

(* A box score's address names its day and not its season.                  *)
PlayedOn ==
  [s \in Seasons |-> [g \in {Calendar[s][n].game : n \in Held(s)} |->
     (CHOOSE r \in {Calendar[s][n] : n \in Held(s)} : r.game = g).date]]

DayOf(e) == PlayedOn[e.of][e.name]

(* A foreign entry is of another season than it says; a box score is of a   *)
(* day outside the window of that.                                          *)
ASSUME ForeignAssumption ==
  \A e \in Foreign :
    /\ {"type", "of", "season", "name"} \subseteq DOMAIN e
    /\ e.of # e.season
    /\ e.type = "box_score" /\ e.season \in Seasons => DayOf(e) \notin Windows[e.season]

_validate_entry(m, e) ==
  /\ e.type = m.type
  /\ e.season = m.season
  /\ IF m.type = "league_schedule" THEN e.of = m.season
     ELSE DayOf(e) \in Windows[m.season]

validate_game_season_manifest(m, require_approval) ==
  /\ _validate_approval(m, require_approval)
  /\ m.max_urls \in 1..MAX_SEASON_URLS
  /\ Cardinality(m.entries) \in 1..m.max_urls
  /\ ~m.twice
  /\ \A e \in m.entries : _validate_entry(m, e)

(* _plan and write_draft_manifest: a file at the path is never replaced.    *)
WriteDraft(kind, names) ==
  LET manifest == [season |-> season, type |-> PageType(kind), approval |-> Draft, twice |-> FALSE,
                   max_urls |-> Cardinality(names),
                   entries |-> {Entry(PageType(kind), name) : name \in names}]
  IN  /\ drafts[kind] = NONE
      /\ validate_game_season_manifest(manifest, FALSE)
      /\ drafts' = [drafts EXCEPT ![kind] = manifest]
      /\ UNCHANGED <<season, day, schedule, scores, manifests, slips>>

-----------------------------------------------------------------------------
PlanInit ==
  /\ season \in Seasons
  /\ day = FirstDay
  /\ \E pages \in FirstPages[season] :
       schedule = [page \in {NONE} \union {m.month : m \in Range(Months[season])} |->
                     IF page \in DOMAIN pages THEN [at |-> pages[page], clean |-> TRUE] ELSE NONE]
  /\ scores = {}
  /\ drafts = [kind \in Kinds |-> NONE]
  /\ manifests = {}
  /\ slips = 0

Tomorrow ==
  /\ day < LastDay
  /\ day' = day + 1
  /\ UNCHANGED <<season, schedule, scores, drafts, manifests, slips>>

(* plan_game_schedules.                                                     *)
PlanSeasonPage ==
  /\ ~Cached(NONE)
  /\ WriteDraft("season-page", {NONE})

PlanMonths ==
  /\ Cached(NONE) /\ ParsesCleanly(NONE) /\ month_links # {}
  /\ WriteDraft("schedule-months", month_links)

(* plan_game_box_scores.                                                    *)
PlanBoxScores ==
  /\ drafts["box-scores"] = NONE
  /\ \E listed \in Listings :
       /\ Selects(listed)
       /\ \E games \in {select_season_games(listed)} : WriteDraft("box-scores", games)

(* The owner copies a draft into tasks/manifests.                           *)
Approve(kind) ==
  /\ drafts[kind] # NONE
  /\ manifests' = manifests \union {[drafts[kind] EXCEPT !.approval = Approval]}
  /\ UNCHANGED <<season, day, schedule, scores, drafts, slips>>

(* A copy with a field forgotten, an entry pasted twice, or a foreign one   *)
(* for which max_urls is raised or not.                                     *)
ApproveWithSlip(kind) ==
  /\ drafts[kind] # NONE
  /\ slips < MaxSlips
  /\ \/ \E approval \in HalfApprovals :
          manifests' = manifests \union {[drafts[kind] EXCEPT !.approval = approval]}
     \/ manifests' = manifests \union {[drafts[kind] EXCEPT !.approval = Approval, !.twice = TRUE]}
     \/ \E e \in Foreign, raised \in 0..1 :
          manifests' = manifests \union
            {[drafts[kind] EXCEPT !.approval = Approval, !.entries = @ \union {e},
                                  !.max_urls = @ + raised]}
  /\ slips' = slips + 1
  /\ UNCHANGED <<season, day, schedule, scores, drafts>>

(* acquire-game-season: the first page of the manifest that is not cached.  *)
(* The site has a month page once it is linked and a box score once the     *)
(* game is played; after the season's end its pages stay the same.          *)
Today == IF day < Over[season] THEN day ELSE Over[season]

Hit(e) == IF e.type = "box_score" THEN e.name \in scores ELSE Cached(e.name)

OnSite(e) ==
  IF e.type = "box_score" THEN DayOf(e) < day
  ELSE e.name = NONE \/ \E m \in Range(Months[season]) : m.month = e.name /\ m.linked <= day

(* The order of a season's pages and games.                                 *)
Place ==
  [s \in Seasons |->
     [name \in {NONE} \union {Calendar[s][n].month : n \in Held(s)}
                \union {Calendar[s][n].game : n \in Held(s)} |->
        Min({n \in Held(s) : name \in {Calendar[s][n].game, Calendar[s][n].month, NONE}})]]

Fetch(m) ==
  /\ validate_game_season_manifest(m, TRUE)
  /\ \E e \in m.entries :
           /\ ~Hit(e) /\ \A f \in m.entries : Hit(f) \/ Place[e.of][e.name] <= Place[f.of][f.name]
           /\ OnSite(e)
           /\ \/ /\ e.type = "box_score"
                 /\ scores' = scores \union {e.name}
                 /\ UNCHANGED <<schedule, slips>>
              \/ /\ e.type = "league_schedule"
                 /\ schedule' = [schedule EXCEPT ![e.name] = [at |-> Today, clean |-> TRUE]]
                 /\ UNCHANGED <<scores, slips>>
              \/ /\ e.type = "league_schedule" /\ slips < MaxSlips
                 /\ schedule' = [schedule EXCEPT ![e.name] = [at |-> Today, clean |-> FALSE]]
                 /\ slips' = slips + 1
                 /\ UNCHANGED scores
  /\ UNCHANGED <<season, day, drafts, manifests>>

FetchAny == \E m \in manifests : Fetch(m)

PlanNext ==
  \/ Tomorrow
  \/ PlanSeasonPage \/ PlanMonths \/ PlanBoxScores
  \/ \E kind \in Kinds : Approve(kind) \/ ApproveWithSlip(kind)
  \/ FetchAny

(* The owner keeps at it: plans, approves and acquires what can be.         *)
PlanFairness ==
  /\ WF_planVars(Tomorrow)
  /\ WF_planVars(PlanSeasonPage) /\ WF_planVars(PlanMonths) /\ WF_planVars(PlanBoxScores)
  /\ \A kind \in Kinds : SF_planVars(Approve(kind))
  /\ WF_planVars(FetchAny)

PlanSpec == PlanInit /\ [][PlanNext]_planVars /\ PlanFairness

-----------------------------------------------------------------------------
(* Properties.                                                              *)

PlanTypeOK ==
  /\ day \in FirstDay..LastDay
  /\ \A page \in DOMAIN schedule :
       Cached(page) => schedule[page].at <= day /\ schedule[page].clean \in BOOLEAN
  /\ scores \subseteq UNION {Games(s, {"regular", "cup", "play-in", "playoff"}) : s \in Seasons}

(* A selection that succeeds is exactly the season's regular games and the  *)
(* Cup final, whatever the ages of the pages it was made from: never a      *)
(* playoff game for one that a page was too old to show, and never without  *)
(* a game that was postponed.                                               *)
SelectionIsExact ==
  /\ PlanTypeOK
  /\ \A listed \in Listings :
       Selects(listed) => select_season_games(listed) = Games(season, {"regular", "cup"})

(* A page is fetched only when a manifest names it that the owner approved  *)
(* in full, and a box score only when its game is one of the season's       *)
(* regular games or its Cup final: neither a page too old nor a foreign     *)
(* entry dated outside the season's window brings in another.               *)
Approved(type) ==
  UNION {{e.name : e \in {f \in m.entries : f.type = type}} :
           m \in {x \in manifests : x.approval = Approval}}

FetchedAsApproved ==
  [][/\ {page \in DOMAIN schedule : ~Cached(page) /\ schedule'[page] # NONE}
          \subseteq Approved("league_schedule")
     /\ scores' \ scores \subseteq Approved("box_score") \intersect
                                   Games(season, {"regular", "cup"})]_planVars

Fresh ==
  \A page \in DOMAIN schedule :
    Cached(page) => ParsesCleanly(page) /\ schedule[page].at = Over[season]

(* A season whose pages were all fetched after its end is never refused: in *)
(* the end every box score of it is cached.                                 *)
SeasonGetsAcquired ==
  [](Fresh) => <>(Games(season, {"regular", "cup"}) \subseteq scores)

=============================================================================
