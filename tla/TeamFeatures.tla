---------------------------- MODULE TeamFeatures ----------------------------
(***************************************************************************)
(* The pre-game features of a game and the Elo ratings among them.         *)
(*                                                                         *)
(*   ml/team_games.py     the games that the features may learn from       *)
(*   ml/team_features.py  definition team-pregame-v1                       *)
(*   ml/elo.py            ratings read before a game, updated after it     *)
(*                                                                         *)
(* What matters about a number is which games it rests on, so that is what *)
(* a number is here: a rate is the set of games that it accumulates, a     *)
(* rating the set of games whose results have reached it.  The formulas    *)
(* are left out.  A game is a record [id, season, date, type, status,      *)
(* neutral, home, away, score, blank]: score is the winner, or NONE if a   *)
(* final score is blank, and blank the set of <<team, metric>> that a      *)
(* blank counter leaves without a contribution.  Dates are day numbers,    *)
(* ids numbers in the order of the ids.                                    *)
(***************************************************************************)
EXTENDS Integers, FiniteSets, FiniteSetsExt, Sequences, Functions

CONSTANTS
  METRICS,               \* the result metrics
  WINDOWS,               \* sizes of their windows, NONE for the season to date
  RESULTS_CUTOFF_DAYS,   \* 2
  REST_DAYS_CAP,         \* 7
  DENSITY_DAYS,          \* 7
  NONE

HISTORY_GAME_TYPES == {"regular_season", "cup_final"}

TeamGameRecord ==
  {"id", "season", "date", "type", "status", "neutral", "home", "away", "score", "blank"}

Teams(g) == {g.home, g.away}
Scored(g) == g.score # NONE

(* The (game_date, game_id) order.                                          *)
Before(g, h) == g.date < h.date \/ (g.date = h.date /\ g.id < h.id)

History(games) == {g \in games : g.status = "final" /\ g.type \in HISTORY_GAME_TYPES}

(* load_team_game_history: one SELECT on what a database holds.             *)
load_team_game_history(database, through_season) ==
  {g \in History(database) : g.season <= through_season}

-----------------------------------------------------------------------------
(* Elo.  The ratings are a set of [team, value, season], one for each team  *)
(* that has played.  An earlier season's rating regresses once, however     *)
(* long ago that was.                                                       *)
pregame(ratings, team, season) ==
  LET own == {r \in ratings : r.team = team}
  IN  [value |-> UNION {r.value : r \in own},
       regressed |-> \E r \in own : r.season < season]

update(ratings, g) ==
  LET shifted == pregame(ratings, g.home, g.season).value \union
                 pregame(ratings, g.away, g.season).value \union {g.id}
  IN  {r \in ratings : r.team \notin Teams(g)} \union
      {[team |-> t, value |-> shifted, season |-> g.season] : t \in Teams(g)}

LatestGame(games) == CHOOSE g \in games : \A h \in games : h = g \/ Before(h, g)

(* The ratings after some games, fed in that order.                         *)
RatingsAfter(games) ==
  LET after[fed \in SUBSET games] ==
        IF fed = {} THEN {} ELSE update(after[fed \ {LatestGame(fed)}], LatestGame(fed))
  IN  after[games]

(* One sweep over the scored games for all rows: a row finds every game     *)
(* that it, or a row before it in the order, was to have.                   *)
Sweep(games, rows, effective_cutoffs, row) ==
  RatingsAfter({g \in games :
    /\ Scored(g)
    /\ \E other \in rows : ~Before(row, other) /\ g.date <= effective_cutoffs[other]})

-----------------------------------------------------------------------------
(* Results features.                                                        *)

(* Variant: yesterday's results are taken to be known.                      *)
_results_cutoff_Yesterday(target, cutoff) ==
  IF cutoff = NONE THEN target.date - 1 ELSE Min({target.date - 1, cutoff})

_results_cutoff(target, cutoff) ==
  LET latest == target.date - RESULTS_CUTOFF_DAYS
  IN  IF cutoff = NONE THEN latest ELSE Min({latest, cutoff})

team_history(games, team, season) ==
  {g \in History(games) : g.season = season /\ team \in Teams(g)}

Known(games, team, season, cutoff) ==
  {g \in team_history(games, team, season) : g.date <= cutoff}

(* The contributions of a window, accumulated; NONE if there is none.       *)
_rate(games, team, metric) ==
  LET used == {g.id : g \in {h \in games : <<team, metric>> \notin h.blank}}
  IN  IF used = {} THEN NONE ELSE used

LastGames(games, size) ==
  IF size = NONE THEN games
  ELSE {g \in games : Cardinality({h \in games : Before(g, h)}) < size}

_window_values(games, team) ==
  [feature \in METRICS \X WINDOWS |-> _rate(LastGames(games, feature[2]), team, feature[1])]

(* Schedule features: every game that is not postponed, by its date only.   *)
schedule(games, team, season) ==
  {g.date : g \in {h \in games : h.status # "postponed" /\ h.season = season /\ team \in Teams(h)}}

_schedule_values(dates, game_date) ==
  LET earlier == {d \in dates : d < game_date}
  IN  IF earlier = {}
      THEN [rest_days |-> NONE, back_to_back |-> 0, games_last_7_days |-> 0]
      ELSE [rest_days |-> Min({game_date - Max(earlier) - 1, REST_DAYS_CAP}),
            back_to_back |-> IF Max(earlier) = game_date - 1 THEN 1 ELSE 0,
            games_last_7_days |-> Cardinality({d \in earlier : d >= game_date - DENSITY_DAYS})]

(* A difference rests on both sides, and is NONE without one of them.       *)
_difference(home, away) == IF NONE \in {home, away} THEN NONE ELSE <<home, away>>

(* Whether _resolve_targets accepts the targets.                            *)
_resolve_targets(games, targets) ==
  /\ targets \subseteq games
  /\ \A t \in targets : t.status # "postponed" /\ t.type = "regular_season"

(* A row, from the ratings, the known games and the schedule of its teams.  *)
TeamFeatureRow(t, ratings, known, dates) ==
  LET windows == [team \in Teams(t) |-> _window_values(known[team], team)]
      played == [team \in Teams(t) |-> _schedule_values(dates[team], t.date)]
  IN  [id |-> t.id, date |-> t.date, season |-> t.season, home |-> t.home, away |-> t.away,
       is_neutral |-> t.neutral = TRUE,
       elo_home |-> pregame(ratings, t.home, t.season),
       elo_away |-> pregame(ratings, t.away, t.season),
       games_in_season_before |-> <<Cardinality(known[t.home]), Cardinality(known[t.away])>>,
       rest_days |-> _difference(played[t.home].rest_days, played[t.away].rest_days),
       back_to_back |-> played[t.home].back_to_back - played[t.away].back_to_back,
       games_last_7_days |->
         played[t.home].games_last_7_days - played[t.away].games_last_7_days,
       windows |-> [f \in METRICS \X WINDOWS |->
                      _difference(windows[t.home][f], windows[t.away][f])]]

(* The row of each target, by its id.                                       *)
build_team_features(games, targets, cutoff) ==
  LET effective_cutoffs == [t \in targets |-> _results_cutoff(t, cutoff)]
      Row(t) ==
        TeamFeatureRow(t,
          Sweep(History(games), targets, effective_cutoffs, t),
          [team \in Teams(t) |-> Known(games, team, t.season, effective_cutoffs[t])],
          [team \in Teams(t) |-> schedule(games, team, t.season)])
  IN  [id \in {t.id : t \in targets} |-> Row(CHOOSE t \in targets : t.id = id)]

(* What the build counts: history that a feature could not use, and games   *)
(* whose unknown floor was taken for a home floor.                          *)
skipped_games(games) ==
  [feature \in {"elo"} \union METRICS |->
     Cardinality({g \in History(games) :
       IF feature = "elo" THEN ~Scored(g)
       ELSE \E team \in Teams(g) : <<team, feature>> \in g.blank})]

null_neutral_as_home(games, targets) ==
  Cardinality({g \in games :
    /\ g.neutral = NONE
    /\ \/ g \in targets
       \/ /\ g \in History(games) /\ Scored(g)
          /\ \E t \in targets : g.date <= _results_cutoff(t, NONE)})

(* The results that a row rests on.                                         *)
RestsOn(row) ==
  row.elo_home.value \union row.elo_away.value \union
  UNION {row.windows[f][1] \union row.windows[f][2] :
           f \in {w \in DOMAIN row.windows : row.windows[w] # NONE}}
=============================================================================
