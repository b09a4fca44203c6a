----------------------------- MODULE Evaluation -----------------------------
(***************************************************************************)
(* `ml evaluate`: validation, selection, calibration and one look at the   *)
(* test season, then a model artifact and a report that are never          *)
(* replaced.                                                               *)
(*                                                                         *)
(*   ml/evaluation.py  the protocol        ml/splits.py     the seasons    *)
(*   ml/inventory.py   the gate            ml/models.py     the candidates *)
(*   ml/artifact.py    publishing          cli/main.py      the command    *)
(*                                                                         *)
(* Runs overlap, are killed, and share one artifact directory and one      *)
(* report path, while the games backfill loads games and corrects scores.  *)
(* The command reads both times from one snapshot; run_evaluation takes    *)
(* any reader, so a run may also read the database as it is each time.     *)
(* Losses, intervals, sigmoids and file contents are functions of what the *)
(* code computes them from, given as constants.  A final game has a winner *)
(* or no score: a tie, like a training window without a home floor, stops  *)
(* the command with an error and changes nothing.                          *)
(***************************************************************************)
EXTENDS TeamFeatures

CONSTANTS
  FIRST_HISTORY_SEASON, FIRST_TRAINING_SEASON, VALIDATION_SEASONS,
  CALIBRATION_SEASON, SELECTION_SEASON, TEST_SEASON,
  TrainingWindows,       \* sequence of [name, seasons]; NONE seasons: all
  Specs,                 \* sequence of [model, configuration], DEFAULT_SPECS
  SIMPLICITY_ORDER,      \* the models, simplest first
  GAME_INVENTORY,        \* [regular_season, cup_finals, quarantined] by season
  Loss(_, _),            \* log loss of a model on games
  Clearly(_, _, _),      \* the interval of a challenger's gain lies below zero
  fit_sigmoid(_, _),     \* the sigmoid of a model's predictions of games
  Bytes(_),              \* what joblib writes for a model
  Runs,
  FirstDatabases,        \* the games that are loaded at first
  Late,                  \* games that may still be loaded
  Corrected,             \* ids of the games whose scores may still be corrected
  MaxChanges, MaxKills   \* bounds on changes of the database and on kills

VARIABLES
  database,   \* the games of core.games
  changes,    \* changes of it, so far
  phase,      \* idle, read, selected, tested or saved
  snapshot,   \* what a run in one transaction reads from, or NONE
  first,      \* the games of its first read
  selection,  \* what it selected on those
  second,     \* the games of its second read
  artifacts,  \* the directories in --artifact-dir: [name, metadata]
  report,     \* the file at --output, or NONE
  kills

(* Every game that the database may hold, up to its score, and the ids of   *)
(* the games of a season.                                                   *)
World == (UNION FirstDatabases) \union Late
Played(season, type) == {g.id : g \in {h \in World : h.season = season /\ h.type = type}}

(* The archive holds box scores of reviewed season manifests only, which    *)
(* select exactly the games that the inventory counts, and core.games has   *)
(* one row for a game.  A season is over days before the next one begins.   *)
ASSUME EvaluationAssumption ==
  /\ {FIRST_HISTORY_SEASON, FIRST_TRAINING_SEASON, SELECTION_SEASON, TEST_SEASON,
      RESULTS_CUTOFF_DAYS, MaxChanges, MaxKills} \subseteq Nat
  /\ FIRST_HISTORY_SEASON <= SELECTION_SEASON /\ SELECTION_SEASON < TEST_SEASON
  /\ IsFiniteSet(World)
  /\ \A g \in World :
       /\ TeamGameRecord \subseteq DOMAIN g
       /\ g.season \in Nat /\ g.season >= FIRST_HISTORY_SEASON
       /\ g.id \in Int /\ g.date \in Int
  /\ \A g, h \in World : g.season < h.season => g.date + RESULTS_CUTOFF_DAYS <= h.date
  /\ \A games \in FirstDatabases : \A g, h \in games : g.id = h.id => g = h
  /\ \A season \in FIRST_HISTORY_SEASON..TEST_SEASON :
       LET expected == GAME_INVENTORY[season]
       IN  /\ expected.regular_season \in Nat /\ expected.cup_finals \in Nat
           /\ IsFiniteSet(expected.quarantined)
           /\ Cardinality(Played(season, "regular_season") \ expected.quarantined)
                <= expected.regular_season - Cardinality(expected.quarantined)
           /\ Cardinality(Played(season, "cup_final")) <= expected.cup_finals
  /\ Cardinality(GAME_INVENTORY[SELECTION_SEASON].quarantined)
       < GAME_INVENTORY[SELECTION_SEASON].regular_season

runVars == <<phase, snapshot, first, selection, second>>
evaluationVars == <<database, changes, runVars, artifacts, report, kills>>

-----------------------------------------------------------------------------
(* splits.py and the gate.                                                  *)

training_seasons(target, window) ==
  LET available == FIRST_TRAINING_SEASON..(target - 1)
  IN  IF window.seasons = NONE THEN available
      ELSE {s \in available : s >= target - window.seasons}

history_start(target, window) ==
  IF window.seasons = NONE THEN FIRST_HISTORY_SEASON ELSE Min(training_seasons(target, window))

Targets(games, season) ==
  {g \in games : /\ g.type = "regular_season" /\ g.season = season
                 /\ g.season >= FIRST_TRAINING_SEASON}

AllTargets(games) == UNION {Targets(games, g.season) : g \in games}

(* The ways in which a season differs from the inventory; a game without    *)
(* both scores does not count.                                              *)
inventory_problems(games, season) ==
  LET expected == GAME_INVENTORY[season]
      Found(type) == Cardinality({g \in games : g.season = season /\ g.type = type /\ Scored(g)})
  IN  \/ Found("regular_season") # expected.regular_season - Cardinality(expected.quarantined)
      \/ Found("cup_final") # expected.cup_finals
      \/ \E g \in games : g.id \in expected.quarantined

(* _load_dataset accepts what the reader returned.                          *)
_load_dataset(games, through) ==
  /\ \A g \in games : g.season <= through
  /\ \A season \in FIRST_HISTORY_SEASON..through : ~inventory_problems(games, season)
  /\ _resolve_targets(games, AllTargets(games))

-----------------------------------------------------------------------------
(* Models.  A fitted model is what it was fitted from.                      *)

_fit(c, target, games) ==
  [spec |-> c.spec,
   rows |-> UNION {Targets(games, s) : s \in training_seasons(target, c.window)},
   history |-> {g \in games : history_start(target, c.window) <= g.season /\ g.season < target},
   sigmoid |-> NONE]

_with_calibration(model, calibration) ==
  IF calibration.kept THEN [model EXCEPT !.sigmoid = calibration.sigmoid] ELSE model

(* The results that a prediction of a game t rests on, by kind of model: the *)
(* labels it was fitted to, for Elo also the observed games of the season up *)
(* to each row's cutoff, for the others the features of the rows.           *)
HomeRateModel(model) == {g.id : g \in model.rows}

EloModel(model, observed, targets, t) ==
  LET cutoffs == [row \in targets |-> row.date - RESULTS_CUTOFF_DAYS]
      ratings == Sweep(model.history \union observed, targets, cutoffs, t)
  IN  UNION {r.value : r \in {x \in ratings : x.team \in Teams(t)}}

SklearnModel(model, rows, t) ==
  LET labels == {g.id : g \in model.rows}
  IN  labels \union UNION {RestsOn(rows[id]) : id \in labels \union {t.id}}

_predict_season(model, season, games, rows) ==
  LET targets == Targets(games, season)
      observed == {g \in games : g.season = season}
  IN  [t \in targets |->
         CASE model.spec.model = "home-rate" -> HomeRateModel(model)
           [] model.spec.model = "elo" -> EloModel(model, observed, targets, t)
           [] OTHER -> SklearnModel(model, rows, t)]

-----------------------------------------------------------------------------
(* Selection.                                                               *)

IndexIn(seq, x) == CHOOSE i \in DOMAIN seq : seq[i] = x

(* The candidates after validation; the sum stands for the mean.            *)
_validate(games) ==
  {[spec |-> spec, window |-> window,
    mean_validation_log_loss |->
      MapThenSumSet(LAMBDA season : Loss(_fit([spec |-> spec, window |-> window], season, games),
                                         Targets(games, season)), VALIDATION_SEASONS)]
     : spec \in Range(Specs), window \in Range(TrainingWindows)}

(* The lowest loss of some candidates, the first of equals in an order.     *)
Best(candidates, order) ==
  {c \in candidates : \A d \in candidates :
     \/ c.mean_validation_log_loss < d.mean_validation_log_loss
     \/ /\ c.mean_validation_log_loss = d.mean_validation_log_loss
        /\ order[c] <= order[d]}

_best_per_model_and_window(candidates) ==
  LET place == [d \in candidates |-> IndexIn(Specs, d.spec)]
  IN  UNION {Best({d \in candidates : d.spec.model = c.spec.model /\ d.window = c.window}, place)
               : c \in candidates}

_finalists(per_window) ==
  LET place == [d \in per_window |-> IndexIn(TrainingWindows, d.window)]
  IN  UNION {Best({d \in per_window : d.spec.model = c.spec.model}, place) : c \in per_window}

FinalistOf(finalists, model) == CHOOSE f \in finalists : f.spec.model = model

(* From the simplest to the most complex: a challenger needs a clear gain.  *)
(* Like the next definitions, the set of the one result.                    *)
select_model(finalists, games) ==
  LET On(i) == _fit(FinalistOf(finalists, SIMPLICITY_ORDER[i]), SELECTION_SEASON, games)
      gains == {pair \in (DOMAIN SIMPLICITY_ORDER) \X (DOMAIN SIMPLICITY_ORDER) :
                  /\ pair[1] > pair[2]
                  /\ Clearly(On(pair[1]), On(pair[2]), Targets(games, SELECTION_SEASON))}
      Last(clear) ==
        LET incumbent[i \in DOMAIN SIMPLICITY_ORDER] ==
              IF i = 1 \/ <<i, incumbent[i - 1]>> \in clear THEN i ELSE incumbent[i - 1]
        IN  incumbent[Len(SIMPLICITY_ORDER)]
  IN  {FinalistOf(finalists, SIMPLICITY_ORDER[i]) : i \in {Last(clear) : clear \in {gains}}}

(* The sigmoid of the calibration fold, kept if it lowers the loss.         *)
_check_calibration(c, games) ==
  LET targets == Targets(games, SELECTION_SEASON)
  IN  {[sigmoid |-> sigmoid,
        kept |-> Loss([raw EXCEPT !.sigmoid = sigmoid], targets) < Loss(raw, targets)]
         : raw \in {_fit(c, SELECTION_SEASON, games)},
           sigmoid \in {fit_sigmoid(_fit(c, CALIBRATION_SEASON, games),
                                    Targets(games, CALIBRATION_SEASON))}}

(* run_evaluation up to the test.                                           *)
Selections(games) ==
  LET Of(finalists) ==
        UNION {{[selected |-> selected, baseline |-> FinalistOf(finalists, "home-rate"),
                 calibration |-> calibration]
                  : calibration \in _check_calibration(selected, games)}
                 : selected \in select_model(finalists, games)}
  IN  UNION {Of(finalists) : finalists \in
               {_finalists(per_window) : per_window \in
                  {_best_per_model_and_window(candidates) : candidates \in {_validate(games)}}}}

-----------------------------------------------------------------------------
(* The test and what is published.                                          *)

(* Variant: the second read is taken as it is.                              *)
_require_same_history_Trusting(selected_on, tested_on) == TRUE

_require_same_history(selected_on, tested_on) ==
  LET last_season == Max({g.season : g \in selected_on})
  IN  {g \in tested_on : g.season <= last_season} = selected_on

_run_test(s, games) ==
  LET targets == Targets(games, TEST_SEASON)
      selected == Loss(_with_calibration(_fit(s.selected, TEST_SEASON, games), s.calibration),
                       targets)
      baseline == Loss(_fit(s.baseline, TEST_SEASON, games), targets)
  IN  [selected |-> selected, baseline |-> baseline, stage_5_go |-> selected < baseline]

FinalModel(s, games) ==
  _with_calibration(_fit(s.selected, TEST_SEASON + 1, games), s.calibration)

Artifact(s, games) ==
  [name |-> [model |-> s.selected.spec.model, sha12 |-> Bytes(FinalModel(s, games))],
   metadata |-> [selected |-> s.selected, calibration |-> s.calibration,
                 test |-> _run_test(s, games)]]

report_text(s, games) ==
  [dataset |-> games, selection |-> s, test |-> _run_test(s, games),
   skipped |-> skipped_games(games),
   null_neutral_as_home |-> null_neutral_as_home(games, AllTargets(games)),
   artifact |-> Artifact(s, games).name]

(* Variant: an existing directory is always a conflict.                     *)
_same_artifact_Never(a, b) == FALSE
_same_artifact(a, b) == a = b

-----------------------------------------------------------------------------
EvaluationInit ==
  /\ database \in FirstDatabases
  /\ changes = 0
  /\ phase = [r \in Runs |-> "idle"]
  /\ snapshot = [r \in Runs |-> NONE]
  /\ first = [r \in Runs |-> {}]
  /\ selection = [r \in Runs |-> NONE]
  /\ second = [r \in Runs |-> {}]
  /\ artifacts = {}
  /\ report = NONE
  /\ kills = 0

(* The run is over: what it published stays, the rest is forgotten.         *)
Ends(r) ==
  /\ phase' = [phase EXCEPT ![r] = "idle"]
  /\ snapshot' = [snapshot EXCEPT ![r] = NONE]
  /\ first' = [first EXCEPT ![r] = {}]
  /\ selection' = [selection EXCEPT ![r] = NONE]
  /\ second' = [second EXCEPT ![r] = {}]

(* A refused first read leaves nothing behind.                              *)
FirstRead(r) ==
  /\ phase[r] = "idle"
  /\ LET games == load_team_game_history(database, SELECTION_SEASON)
     IN  /\ _load_dataset(games, SELECTION_SEASON)
         /\ first' = [first EXCEPT ![r] = games]
  /\ \E from \in {database, NONE} : snapshot' = [snapshot EXCEPT ![r] = from]
  /\ phase' = [phase EXCEPT ![r] = "read"]
  /\ UNCHANGED <<database, changes, selection, second, artifacts, report, kills>>

Select(r) ==
  /\ phase[r] = "read"
  /\ \E s \in Selections(first[r]) : selection' = [selection EXCEPT ![r] = s]
  /\ phase' = [phase EXCEPT ![r] = "selected"]
  /\ UNCHANGED <<database, changes, snapshot, first, second, artifacts, report, kills>>

SecondRead(r) ==
  /\ phase[r] = "selected"
  /\ LET seen == IF snapshot[r] = NONE THEN database ELSE snapshot[r]
         games == load_team_game_history(seen, TEST_SEASON)
     IN  IF _load_dataset(games, TEST_SEASON) /\ _require_same_history(first[r], games)
         THEN /\ second' = [second EXCEPT ![r] = games]
              /\ phase' = [phase EXCEPT ![r] = "tested"]
              /\ UNCHANGED <<snapshot, first, selection>>
         ELSE Ends(r)
  /\ UNCHANGED <<database, changes, artifacts, report, kills>>

(* save_artifact: the rename of a whole directory, or an earlier copy.      *)
Save(r) ==
  /\ phase[r] = "tested"
  /\ \E artifact \in {Artifact(selection[r], second[r])} :
       LET there == {a \in artifacts : a.name = artifact.name}
       IN
         IF \A a \in there : _same_artifact(artifact, a)
         THEN /\ artifacts' = artifacts \union {artifact}
              /\ phase' = [phase EXCEPT ![r] = "saved"]
              /\ UNCHANGED <<snapshot, first, selection, second>>
         ELSE Ends(r) /\ UNCHANGED artifacts
  /\ UNCHANGED <<database, changes, report, kills>>

(* publish_text: the link of a whole file; another report is left alone.    *)
Publish(r) ==
  /\ phase[r] = "saved"
  /\ report' = IF report = NONE THEN report_text(selection[r], second[r]) ELSE report
  /\ Ends(r)
  /\ UNCHANGED <<database, changes, artifacts, kills>>

(* A kill, or a write that fails, at any point.                             *)
Kill(r) ==
  /\ phase[r] # "idle" /\ kills < MaxKills
  /\ Ends(r)
  /\ kills' = kills + 1
  /\ UNCHANGED <<database, changes, artifacts, report>>

(* backfill games: one game's commit.                                       *)
LoadGame ==
  /\ changes < MaxChanges
  /\ \E g \in Late :
       /\ \A h \in database : h.id # g.id
       /\ database' = database \union {g}
  /\ changes' = changes + 1
  /\ UNCHANGED <<runVars, artifacts, report, kills>>

CorrectScore ==
  /\ changes < MaxChanges
  /\ \E g \in {h \in database : h.id \in Corrected} : \E winner \in Teams(g) \ {g.score} :
       database' = (database \ {g}) \union {[g EXCEPT !.score = winner]}
  /\ changes' = changes + 1
  /\ UNCHANGED <<runVars, artifacts, report, kills>>

Step(r) == FirstRead(r) \/ Select(r) \/ SecondRead(r) \/ Save(r) \/ Publish(r)

EvaluationNext == (\E r \in Runs : Step(r) \/ Kill(r)) \/ LoadGame \/ CorrectScore

(* The owner runs the command until there is a report.                      *)
Fairness == \A r \in Runs : WF_evaluationVars(Step(r))

EvaluationSpec == EvaluationInit /\ [][EvaluationNext]_evaluationVars /\ Fairness

-----------------------------------------------------------------------------
(* Properties.                                                              *)

EvaluationTypeOK ==
  /\ changes \in 0..MaxChanges /\ kills \in 0..MaxKills
  /\ \A r \in Runs :
       /\ phase[r] \in {"idle", "read", "selected", "tested", "saved"}
       /\ (phase[r] = "idle") = (first[r] = {})
       /\ (phase[r] \in {"tested", "saved"}) = (second[r] # {})

(* What may be known of the other games when a game is predicted: all of    *)
(* those before its cutoff, and of the rest that they are on the schedule.  *)
KnowableFor(t, games) ==
  {IF g.date <= t.date - RESULTS_CUTOFF_DAYS THEN g
   ELSE [g EXCEPT !.score = NONE, !.blank = Teams(g) \X METRICS, !.status = "scheduled"]
     : g \in games}

Hidden(t) == [t EXCEPT !.score = NONE, !.blank = Teams(t) \X METRICS, !.status = "scheduled"]

FeaturesLeakNothing(games) ==
  \A rows \in {build_team_features(games, AllTargets(games), NONE)} :
    \A t \in AllTargets(games) :
      rows[t.id] = build_team_features(KnowableFor(t, games), {Hidden(t)}, NONE)[t.id]

PredictionsLeakNothing(games, seasons) ==
  \A rows \in {build_team_features(games, AllTargets(games), NONE)} :
    \A c \in [spec : Range(Specs), window : Range(TrainingWindows)], s \in seasons :
      \A from \in {_predict_season(_fit(c, s, games), s, games, rows)} :
        \A t \in DOMAIN from :
          from[t] \subseteq {g.id : g \in {h \in games : h.date <= t.date - RESULTS_CUTOFF_DAYS}}

(* Nothing a run computes for a game rests on a result that was not known   *)
(* two days before it: the features are those that a sweep of this game     *)
(* alone makes from a schedule whose later results are hidden, and every    *)
(* candidate's prediction rests on earlier results only.  The selection     *)
(* rests on no game of the test season.                                     *)
NothingLeaks ==
  \A r \in Runs :
    /\ \A g \in first[r] : g.season < TEST_SEASON
    /\ phase[r] = "read" =>
         /\ FeaturesLeakNothing(first[r])
         /\ PredictionsLeakNothing(first[r], VALIDATION_SEASONS \union {SELECTION_SEASON})
    /\ phase[r] = "tested" =>
         /\ FeaturesLeakNothing(second[r])
         /\ PredictionsLeakNothing(second[r], {TEST_SEASON})

(* The games that an evaluation must find: what the league played, without  *)
(* the quarantined ones, each with its result.                              *)
IsWhole(games) ==
  /\ \A g \in games : Scored(g) /\ g.id \notin GAME_INVENTORY[g.season].quarantined
  /\ \A season \in FIRST_HISTORY_SEASON..TEST_SEASON :
       Cardinality({g \in games : g.season = season}) =
         GAME_INVENTORY[season].regular_season + GAME_INVENTORY[season].cup_finals
         - Cardinality(GAME_INVENTORY[season].quarantined)

(* A report rests on one whole history: what was selected on it is what was *)
(* tested on it, and the artifact that it names is there, with the metadata *)
(* of this very evaluation, whatever was loaded, corrected or killed        *)
(* meanwhile and whichever runs overlapped.                                 *)
PublishedIsSound ==
  /\ EvaluationTypeOK
  /\ report # NONE =>
       /\ IsWhole(report.dataset)
       /\ report.selection \in Selections({g \in report.dataset : g.season <= SELECTION_SEASON})
       /\ Artifact(report.selection, report.dataset) \in artifacts
       /\ report.artifact = Artifact(report.selection, report.dataset).name

(* A report is due: the history is whole, there is no report, and no        *)
(* directory left by an evaluation of another history is in the way.        *)
Due ==
  LET games == load_team_game_history(database, TEST_SEASON)
  IN  /\ report = NONE
      /\ _load_dataset(games, TEST_SEASON)
      /\ \A s \in Selections({g \in games : g.season <= SELECTION_SEASON}) :
           \A due \in {Artifact(s, games)} : \A a \in artifacts : a.name = due.name => a = due

(* No report stays due for ever: whatever killed runs left behind, a rerun  *)
(* publishes it.                                                            *)
ReportGetsPublished == []<>(~Due)

=============================================================================
