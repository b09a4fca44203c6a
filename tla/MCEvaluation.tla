---------------------------- MODULE MCEvaluation ----------------------------
(***************************************************************************)
(* Model checking Evaluation: six seasons of one to three games among       *)
(* three teams, home rate against two Elo configurations and one logistic.  *)
(***************************************************************************)
EXTENDS Evaluation, TLC

CONSTANT None

game(id, season, day, home, away, score, type) ==
  [id |-> id, season |-> season, date |-> 20 * (season - 2020) + day, type |-> type,
   status |-> "final", neutral |-> IF type = "cup_final" THEN TRUE ELSE IF id = 1 THEN None ELSE FALSE,
   home |-> home, away |-> away, score |-> score,
   blank |-> IF id = 3 THEN {<<home, "efg_pct">>} ELSE {}]

regular(id, season, day, home, away, score) ==
  game(id, season, day, home, away, score, "regular_season")

Earlier ==
  {regular(1, 2020, 1, "A", "B", "A"), regular(2, 2021, 1, "B", "C", "C"),
   regular(3, 2022, 1, "A", "C", "A"), regular(4, 2022, 2, "B", "A", "B"),
   regular(5, 2023, 1, "C", "A", "C"), game(6, 2023, 2, "B", "C", "B", "cup_final"),
   regular(7, 2023, 4, "A", "B", "B")}

(* The selection season's three games, on any days of a week.               *)
SelectionGames(days) ==
  {regular(8, 2024, days[1], "A", "B", "A"), regular(9, 2024, days[2], "B", "C", "B"),
   regular(10, 2024, days[3], "C", "A", "A")}

TestGames == {regular(11, 2025, 1, "A", "C", "A"), regular(12, 2025, 3, "C", "B", "C")}

Unfinished(g) == [g EXCEPT !.score = None]

(* Two calendars; the second lacks a score.                                 *)
MCFirstDatabases ==
  {Earlier \union SelectionGames(<<1, 2, 3>>) \union TestGames,
   {IF g.id = 9 THEN Unfinished(g) ELSE g
      : g \in Earlier \union SelectionGames(<<1, 1, 4>>) \union TestGames}}

Quarantined == regular(13, 2025, 2, "A", "B", "B")
MCLate == {Quarantined}

MCInventory ==
  [season \in 2020..2025 |->
     [regular_season |-> CASE season = 2022 -> 2 [] season = 2023 -> 2 [] season = 2024 -> 3
                           [] season = 2025 -> 3 [] OTHER -> 1,
      cup_finals |-> IF season = 2023 THEN 1 ELSE 0,
      quarantined |-> IF season = 2025 THEN {13} ELSE {}]]

MCTrainingWindows == <<[name |-> "last_1", seasons |-> 1], [name |-> "all", seasons |-> None]>>
MCSpecs == <<[model |-> "home-rate", configuration |-> 0], [model |-> "elo", configuration |-> 15],
             [model |-> "elo", configuration |-> 20], [model |-> "logistic", configuration |-> 1]>>
MCSimplicityOrder == <<"home-rate", "elo", "logistic">>

(* Games whose winner a model does not expect.                              *)
Wins(games, team) == Cardinality({g \in games : g.score = team})
HomeWins(games) == Cardinality({g \in games : g.score = g.home})
Expected(m, g) ==
  CASE m.spec.model = "home-rate" -> IF 2 * HomeWins(m.rows) >= Cardinality(m.rows) THEN g.home ELSE g.away
    [] m.spec.model = "elo" ->
         IF Wins(m.history, g.home) + (m.spec.configuration % 15) >= Wins(m.history, g.away)
         THEN g.home ELSE g.away
    [] OTHER -> IF Wins(m.rows, g.home) > Wins(m.rows, g.away) THEN g.home ELSE g.away

LossOf(m, wrong) ==
  IF m.sigmoid = None THEN 2 * wrong ELSE IF m.sigmoid > 0 THEN 2 * wrong - 1 ELSE 2 * wrong + 1

(* Evaluated once: a set of one.                                            *)
MCLoss(model, games) ==
  CHOOSE loss \in UNION {{LossOf(m, wrong) : wrong \in {Cardinality({g \in games : Expected(m, g) # g.score})}}
                            : m \in {model}} : TRUE
MCClearly(challenger, incumbent, games) == MCLoss(challenger, games) < MCLoss(incumbent, games)
MCSigmoid(m, games) == MCLoss(m, games)
MCBytes(m) ==
  [model |-> m.spec.model, configuration |-> m.spec.configuration, sigmoid |-> m.sigmoid,
   fitted |-> CASE m.spec.model = "home-rate" -> {<<HomeWins(m.rows), Cardinality(m.rows)>>}
                [] m.spec.model = "elo" -> {<<g.id, Cardinality({g.score} \ {g.home})>> : g \in m.history}
                [] OTHER -> {<<g.id, Cardinality({g.score} \ {g.home})>> : g \in m.rows}]
=============================================================================
