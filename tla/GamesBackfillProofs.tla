------------------------ MODULE GamesBackfillProofs ------------------------
(***************************************************************************)
(* Proofs about GamesBackfill, for any number of games, teams, players,    *)
(* boxes and page changes, and any number of runs.                         *)
(*                                                                         *)
(* What the database holds is decided by a commit, so IInv speaks of the   *)
(* open transaction: which rows of the current game each flush has already *)
(* put right, and that nothing else is touched.                            *)
(***************************************************************************)
EXTENDS GamesBackfill, TLAPS, WellFoundedInduction

(* The rows of a game are those of its stored box, or there are none. *)
Whole(rows, g) ==
    IF rows.game[g] = Nothing
    THEN RowsOf(rows.totals, g) = {} /\ RowsOf(rows.lines, g) = {}
    ELSE /\ RowsOf(rows.totals, g) = TotalsOf(g, rows.game[g])
         /\ RowsOf(rows.lines, g) = LinesOf(g, rows.game[g])
         /\ Listed(rows.game[g]) \subseteq rows.players

StoreIsWhole == \A g \in Games : Whole(db, g)

(* Between two games nothing is open. *)
SessionIsClean == run.step \in {"next", "players", "ended", "crashed"} => tx = db

Loading == {"players", "game", "totals", "lines", "commit"}

(* While a game is loaded, the others are as they are stored, and its own    *)
(* rows are right as far as the flushes have come.                          *)
WorkIsWhole ==
    run.step \in Loading =>
        /\ run.todo # {} /\ box0 \in Boxes
        /\ tx.neutral = db.neutral
        /\ \A g \in Games \ {g0} : tx.game[g] = db.game[g] /\ Whole(tx, g)
        /\ run.step # "players" => Listed(box0) \subseteq tx.players
        /\ run.step \in {"totals", "lines", "commit"} => tx.game[g0] = box0
        /\ run.step \in {"lines", "commit"} => RowsOf(tx.totals, g0) = TotalsOf(g0, box0)
        /\ run.step = "commit" => RowsOf(tx.lines, g0) = LinesOf(g0, box0)

Skipped == run.missing \cup run.quarantined \cup run.failed

(* Every selected game is still to come or in one list of the report, and    *)
(* the lists say what is stored.                                            *)
ReportAddsUp ==
    /\ Skipped \cap run.todo = {}
    /\ \A g \in Skipped \cup run.todo : db.game[g] = run.before[g]
    /\ run.selection \subseteq run.todo \cup run.loaded \cup run.unchanged \cup Skipped
    /\ \A g \in run.loaded \cup run.unchanged :
         db.game[g] = run.pages[g] /\ db.game[g] # Nothing
    /\ Running => run.pages = page /\ run.todo \subseteq run.selection
    /\ run.step = "ended" /\ ~run.error => run.todo = {}
    /\ Clean => db.neutral = Flags(db)

(* A rerun of a clean run over the same pages has nothing to write. *)
RepeatIsIdle ==
    Running /\ run.repeat =>
        /\ tx = db
        /\ \A g \in run.selection : db.game[g] = page[g] /\ page[g] # Nothing
        /\ db.neutral = Flags(db)

(* The inductive invariant. *)
IInv ==
    /\ TypeOK
    /\ StoreIsWhole
    /\ SessionIsClean
    /\ WorkIsWhole
    /\ ReportAddsUp
    /\ RepeatIsIdle

(* What a commit may write. *)
CommitIsDue ==
    /\ run.repeat => db' = db
    /\ db'.neutral # db.neutral =>
         \A g \in run.selection \ run.quarantined : db.game[g] = run.pages[g]

-----------------------------------------------------------------------------
(* A set of numbers that is not empty has its least one. *)
LEMMA LeastExists ==
    ASSUME NEW S, S \subseteq Nat, S # {}
    PROVE  \E n \in S : \A m \in S : n <= m
<1>1. PICK n \in S : \A m \in S : <<m, n>> \notin OpToRel(<, Nat)
    BY WFMin, NatLessThanWellFounded, Zenon
<1>2. \A m \in S : <<m, n>> \in OpToRel(<, Nat) <=> m < n
    BY Zenon DEF OpToRel
<1>3. \A m \in S : ~(m < n)
    BY <1>1, <1>2, Zenon
<1> QED
    BY <1>3

(* The current game is one of those still to come. *)
LEMMA CurrentGame ==
    ASSUME TypeOK, run.todo # {}
    PROVE  g0 \in run.todo /\ g0 \in Games
<1>1. run.todo \subseteq Nat /\ run.todo \subseteq Games
    BY BoxesAssumption DEF TypeOK, Games
<1>2. \E n \in run.todo : \A m \in run.todo : n <= m
    BY <1>1, LeastExists
<1> QED
    BY <1>1, <1>2 DEF g0, Min

(* The neutral-site flags depend on the stored games only. *)
LEMMA FlagsOfGames ==
    ASSUME NEW rows \in Database, NEW others \in Database, rows.game = others.game,
           \A g \in Games : g \notin Stored(rows) => rows.neutral[g] = others.neutral[g]
    PROVE  Flags(rows) = Flags(others)
<1>1. Stored(rows) = Stored(others)
    BY DEF Stored
<1>2. \A team, city : Count(rows, team, city) = Count(others, team, city)
    BY <1>1, Zenon DEF Count
<1>3. \A team : HomeCities(rows, team) = HomeCities(others, team)
    BY <1>2, Zenon DEF HomeCities
<1>4. ASSUME NEW g PROVE NeutralSite(rows, g) = NeutralSite(others, g)
    <2>1. rows.game[g] = others.game[g]
        OBVIOUS
    <2>2. HomeCities(rows, Home[g]) = HomeCities(others, Home[g])
        BY <1>3
    <2> QED
        BY <2>1, <2>2, Zenon DEF NeutralSite
<1> QED
    BY <1>1, <1>4 DEF Flags

(* Flags are flags. *)
LEMMA FlagsType ==
    ASSUME NEW rows \in Database
    PROVE  Flags(rows) \in [Games -> {"null", "yes", "no"}]
<1>1. \A g \in Games : NeutralSite(rows, g) \in {"null", "yes", "no"}
    BY Zenon DEF NeutralSite
<1> QED
    BY <1>1 DEF Flags, Database

(* Deriving the flags again changes nothing. *)
LEMMA DerivedOnce ==
    ASSUME NEW rows \in Database, NEW derived, derived = [rows EXCEPT !.neutral = Flags(rows)]
    PROVE  derived \in Database /\ derived.neutral = Flags(derived)
<1>1. /\ derived \in Database /\ derived.game = rows.game
      /\ derived.neutral = Flags(rows)
    BY FlagsType DEF Database
<1>2. \A g \in Games : g \notin Stored(rows) => rows.neutral[g] = derived.neutral[g]
    BY <1>1 DEF Flags
<1>3. Flags(rows) = Flags(derived)
    BY <1>1, <1>2, FlagsOfGames
<1> QED
    BY <1>1, <1>3

(* The rows of a box are rows of the tables. *)
LEMMA BoxRowsType ==
    ASSUME NEW g \in Games, NEW box \in Boxes
    PROVE  /\ TotalsOf(g, box) \subseteq Games \X Teams \X Boxes
           /\ LinesOf(g, box) \subseteq Games \X Players \X Teams \X Boxes
           /\ Listed(box) \subseteq Players
<1>1. Home[g] \in Teams /\ box.away \in Teams /\ box.lines \subseteq Players \X {"home", "away"}
      /\ box.unnamed \subseteq Players
    BY BoxesAssumption
<1> QED
    BY <1>1 DEF TotalsOf, LinesOf, Listed, TeamOf

-----------------------------------------------------------------------------
(* A flush leaves the report and the database as they are. *)
LEMMA FlushStep ==
    ASSUME TypeOK, NEW step \in Loading, NEW next \in Loading, NEW rows \in Database,
           Write(step, next, rows)
    PROVE  /\ TypeOK' /\ tx' = rows /\ db' = db /\ page' = page
           /\ run.step = step /\ run'.step = next /\ run.todo # {}
           /\ run'.todo = run.todo /\ run'.selection = run.selection
           /\ run'.loaded = run.loaded /\ run'.unchanged = run.unchanged
           /\ run'.missing = run.missing /\ run'.quarantined = run.quarantined
           /\ run'.failed = run.failed /\ run'.error = run.error
           /\ run'.pages = run.pages /\ run'.before = run.before
           /\ run'.repeat = run.repeat
<1>1. (run.changed \/ rows # tx) \in BOOLEAN
    OBVIOUS
<1> DEFINE changed == run.changed \/ rows # tx
<1>2. run' = [run EXCEPT !.step = next, !.changed = changed]
    BY DEF Write, TypeOK
<1> HIDE DEF changed
<1>3. changed \in BOOLEAN
    BY DEF changed
<1>4. TypeOK'
    BY <1>2, <1>3 DEF Write, Working, TypeOK, Loading, Steps
<1> QED
    BY <1>2, <1>4 DEF Write, Working, TypeOK

(* A flush keeps what the report says. *)
LEMMA FlushKeepsReport ==
    ASSUME IInv, NEW step \in Loading, NEW next \in Loading, NEW rows \in Database,
           Write(step, next, rows)
    PROVE  ReportAddsUp'
<1>1. /\ db' = db /\ page' = page /\ run.step \in Loading /\ run'.step \in Loading
      /\ run'.todo = run.todo /\ run'.selection = run.selection
      /\ run'.loaded = run.loaded /\ run'.unchanged = run.unchanged
      /\ Skipped' = Skipped
      /\ run'.pages = run.pages /\ run'.before = run.before
    BY FlushStep DEF IInv, Skipped
<1>2. Running /\ ~Clean'
    BY <1>1 DEF Running, Steps, Loading, Clean, Complete
<1> HIDE DEF Skipped
<1> QED
    BY <1>1, <1>2 DEF IInv, ReportAddsUp, Running, Steps, Loading

(* The current game's page is one the gates passed. *)
LEMMA CurrentBox ==
    ASSUME IInv, run.step \in Loading
    PROVE  /\ run.todo # {} /\ box0 \in Boxes /\ g0 \in Games /\ g0 \in run.todo
           /\ g0 \in run.selection /\ run.pages = page
BY CurrentGame DEF IInv, WorkIsWhole, ReportAddsUp, Running, Steps, Loading

(* A flush keeps the invariant if it puts its own rows right, touches those  *)
(* of no other game, and has nothing to write in an idle rerun.             *)
LEMMA FlushIInv ==
    ASSUME IInv, NEW step \in Loading, NEW next \in Loading \ {"players"},
           NEW rows \in Database, Write(step, next, rows),
           rows.neutral = tx.neutral,
           \A g \in Games \ {g0} : rows.game[g] = tx.game[g] /\ Whole(rows, g),
           Listed(box0) \subseteq rows.players,
           next \in {"totals", "lines", "commit"} => rows.game[g0] = box0,
           next \in {"lines", "commit"} => RowsOf(rows.totals, g0) = TotalsOf(g0, box0),
           next = "commit" => RowsOf(rows.lines, g0) = LinesOf(g0, box0),
           run.repeat => rows = tx
    PROVE  IInv' /\ db' = db
<1>1. /\ TypeOK' /\ tx' = rows /\ db' = db /\ page' = page
      /\ run.step \in Loading /\ run'.step = next /\ run'.todo = run.todo
      /\ run'.selection = run.selection /\ run'.repeat = run.repeat
    BY FlushStep DEF IInv
<1>2. g0' = g0 /\ box0' = box0
    BY <1>1 DEF g0, box0
<1>3. StoreIsWhole'
    BY <1>1 DEF IInv, StoreIsWhole, Whole
<1>4. SessionIsClean'
    BY <1>1 DEF SessionIsClean, Loading
<1>5. WorkIsWhole'
    <2>1. run.todo # {} /\ box0 \in Boxes /\ tx.neutral = db.neutral
          /\ \A g \in Games \ {g0} : tx.game[g] = db.game[g]
        BY <1>1 DEF IInv, WorkIsWhole
    <2>2. \A g \in Games \ {g0} : rows.game[g] = db.game[g] /\ Whole(rows, g)
        BY <2>1
    <2> HIDE DEF g0, box0
    <2>3. \A g \in Games \ {g0} : tx'.game[g] = db'.game[g] /\ Whole(tx, g)'
        BY <1>1, <2>2 DEF Whole
    <2> QED
        BY <1>1, <1>2, <2>1, <2>3 DEF WorkIsWhole
<1>6. ReportAddsUp'
    BY FlushKeepsReport
<1>7. RepeatIsIdle'
    <2> SUFFICES ASSUME run.repeat
                 PROVE  /\ rows = db
                        /\ \A g \in run.selection : db.game[g] = page[g] /\ page[g] # Nothing
                        /\ db.neutral = Flags(db)
        BY <1>1, FlagsOfGames DEF RepeatIsIdle, IInv, TypeOK, Flags, NeutralSite, HomeCities,
            Count, Stored
    <2> QED
        BY <1>1 DEF IInv, RepeatIsIdle, Running, Steps, Loading
<1> QED
    BY <1>1, <1>3, <1>4, <1>5, <1>6, <1>7 DEF IInv

(* In an idle rerun the current game is stored as its page says. *)
LEMMA RepeatIsStored ==
    ASSUME IInv, run.step \in Loading, run.repeat
    PROVE  /\ tx = db /\ tx.game[g0] = box0 /\ Listed(box0) \subseteq tx.players
           /\ RowsOf(tx.totals, g0) = TotalsOf(g0, box0)
           /\ RowsOf(tx.lines, g0) = LinesOf(g0, box0)
<1>1. /\ g0 \in run.selection /\ g0 \in Games /\ Running
    BY CurrentBox DEF Running, Steps, Loading
<1>2. tx = db /\ db.game[g0] = box0 /\ box0 # Nothing
    BY <1>1 DEF IInv, RepeatIsIdle, box0
<1>3. Whole(db, g0)
    BY <1>1 DEF IInv, StoreIsWhole
<1> HIDE DEF g0, box0
<1> QED
    BY <1>2, <1>3 DEF Whole

(* Creating the listed players keeps the invariant. *)
LEMMA CreatePlayersIInv ==
    ASSUME IInv, CreatePlayers
    PROVE  IInv' /\ db' = db
<1> DEFINE rows == [tx EXCEPT !.players = @ \cup Listed(box0)]
<1>1. Write("players", "game", rows) /\ run.step = "players"
    BY DEF CreatePlayers, Write, Working
<1>2. box0 \in Boxes /\ g0 \in Games /\ tx = db /\ run.step \in Loading
    BY <1>1, CurrentBox DEF Loading, IInv, SessionIsClean
<1>3. Listed(box0) \subseteq Players
    BY <1>2, BoxRowsType
<1>4. /\ rows \in Database /\ rows.game = tx.game /\ rows.totals = tx.totals
      /\ rows.lines = tx.lines /\ rows.neutral = tx.neutral
      /\ rows.players = tx.players \cup Listed(box0)
    BY <1>3 DEF IInv, TypeOK, Database
<1>5. run.repeat => rows = tx
    <2>1. run.repeat => rows.players = tx.players
        BY <1>2, <1>4, RepeatIsStored
    <2> QED
        BY <1>4, <2>1 DEF IInv, TypeOK, Database
<1>6. \A g \in Games \ {g0} : rows.game[g] = tx.game[g] /\ Whole(rows, g)
    BY <1>2, <1>4 DEF IInv, StoreIsWhole, Whole
<1>7. "players" \in Loading /\ "game" \in Loading \ {"players"}
    BY DEF Loading
<1> HIDE DEF rows
<1> QED
    BY <1>1, <1>4, <1>5, <1>6, <1>7, FlushIInv

(* Writing the game's own row keeps the invariant. *)
LEMMA UpsertGameIInv ==
    ASSUME IInv, UpsertGame
    PROVE  IInv' /\ db' = db
<1> DEFINE rows == [tx EXCEPT !.game[g0] = box0]
<1>1. Write("game", "totals", rows) /\ run.step = "game"
    BY DEF UpsertGame, Write, Working
<1>2. box0 \in Boxes /\ g0 \in Games /\ run.step \in Loading
    BY <1>1, CurrentBox DEF Loading
<1> HIDE DEF g0, box0
<1>3. /\ rows \in Database /\ rows.game = [tx.game EXCEPT ![g0] = box0]
      /\ rows.totals = tx.totals /\ rows.lines = tx.lines
      /\ rows.neutral = tx.neutral /\ rows.players = tx.players
    BY <1>2 DEF IInv, TypeOK, Database
<1>4. tx.game \in [Games -> Boxes \cup {Nothing}]
    BY DEF IInv, TypeOK, Database
<1>5. run.repeat => rows = tx
    <2>1. run.repeat => rows.game = tx.game
        BY <1>2, <1>3, <1>4, RepeatIsStored
    <2> QED
        BY <1>3, <2>1 DEF IInv, TypeOK, Database
<1>6. \A g \in Games \ {g0} : rows.game[g] = tx.game[g] /\ Whole(rows, g)
    BY <1>1, <1>2, <1>3, <1>4 DEF IInv, WorkIsWhole, Whole
<1>7. rows.game[g0] = box0
    BY <1>2, <1>3, <1>4
<1>8. Listed(box0) \subseteq rows.players
    BY <1>1, <1>2, <1>3 DEF IInv, WorkIsWhole
<1>9. "game" \in Loading /\ "totals" \in Loading \ {"players"}
    BY DEF Loading
<1> HIDE DEF rows
<1> QED
    BY <1>1, <1>3, <1>5, <1>6, <1>7, <1>8, <1>9, FlushIInv

(* The rows of a box are rows of its game, and its lines of its teams. *)
LEMMA BoxRows ==
    ASSUME NEW g \in Games, NEW box \in Boxes
    PROVE  /\ \A row \in TotalsOf(g, box) : row[1] = g
           /\ \A row \in LinesOf(g, box) :
                row[1] = g /\ row[3] \in {r[2] : r \in TotalsOf(g, box)}
<1>1. \A line \in box.lines : line[2] \in {"home", "away"}
    BY BoxesAssumption
<1>2. \A row \in TotalsOf(g, box) : row[1] = g
    BY DEF TotalsOf
<1>3. ASSUME NEW row \in LinesOf(g, box)
      PROVE  row[1] = g /\ row[3] \in {r[2] : r \in TotalsOf(g, box)}
    <2>1. PICK line \in box.lines : row = <<g, line[1], TeamOf(g, box, line[2]), box>>
        BY DEF LinesOf
    <2>2. row[1] = g /\ row[3] = TeamOf(g, box, line[2])
        BY <2>1
    <2> DEFINE r == <<g, TeamOf(g, box, line[2]), box>>
    <2>3. r \in TotalsOf(g, box) /\ r[2] = TeamOf(g, box, line[2])
        BY <1>1 DEF TotalsOf
    <2> HIDE DEF r
    <2> QED
        BY <2>2, <2>3
<1> QED
    BY <1>2, <1>3

(* Replacing the totals, with the lines of other teams, keeps the invariant. *)
LEMMA ReplaceTotalsIInv ==
    ASSUME IInv, ReplaceTotals
    PROVE  IInv' /\ db' = db
<1> DEFINE teams == {row[2] : row \in TotalsOf(g0, box0)}
           totals == (tx.totals \ RowsOf(tx.totals, g0)) \cup TotalsOf(g0, box0)
           lines == {row \in tx.lines : row[1] # g0 \/ row[3] \in teams}
           rows == [tx EXCEPT !.totals = totals, !.lines = lines]
<1>1. Write("totals", "lines", rows) /\ run.step = "totals"
    BY DEF ReplaceTotals, Write, Working
<1>2. box0 \in Boxes /\ g0 \in Games /\ run.step \in Loading
    BY <1>1, CurrentBox DEF Loading
<1>3. tx.game[g0] = box0 /\ Listed(box0) \subseteq tx.players
      /\ \A g \in Games \ {g0} : Whole(tx, g)
    BY <1>1, <1>2 DEF IInv, WorkIsWhole
<1> HIDE DEF g0, box0
<1>4. /\ RowsOf(totals, g0) = TotalsOf(g0, box0)
      /\ \A g : g # g0 => RowsOf(totals, g) = RowsOf(tx.totals, g)
      /\ RowsOf(tx.totals, g0) = TotalsOf(g0, box0) => totals = tx.totals
    <2>1. \A row \in TotalsOf(g0, box0) : row[1] = g0
        BY <1>2, BoxRows
    <2>2. totals = (tx.totals \ RowsOf(tx.totals, g0)) \cup TotalsOf(g0, box0)
        OBVIOUS
    <2> HIDE DEF totals
    <2> QED
        BY <2>1, <2>2 DEF RowsOf
<1>5. \A g : g # g0 => RowsOf(lines, g) = RowsOf(tx.lines, g)
    BY DEF RowsOf
<1>6. RowsOf(tx.lines, g0) = LinesOf(g0, box0) => lines = tx.lines
    BY <1>2, BoxRows DEF RowsOf
<1>7. totals \subseteq Games \X Teams \X Boxes /\ lines \subseteq tx.lines
    BY <1>2, BoxRowsType DEF IInv, TypeOK, Database
<1> HIDE DEF totals, lines
<1>8. /\ rows \in Database /\ rows.game = tx.game /\ rows.totals = totals
      /\ rows.lines = lines /\ rows.neutral = tx.neutral /\ rows.players = tx.players
    BY <1>7 DEF IInv, TypeOK, Database
<1>9. run.repeat => rows = tx
    <2>1. run.repeat => totals = tx.totals /\ lines = tx.lines
        BY <1>2, <1>4, <1>6, RepeatIsStored
    <2> HIDE DEF rows
    <2> QED
        BY <1>8, <2>1 DEF IInv, TypeOK, Database
<1>10. \A g \in Games \ {g0} : rows.game[g] = tx.game[g] /\ Whole(rows, g)
    BY <1>3, <1>4, <1>5, <1>8 DEF Whole
<1>11. "totals" \in Loading /\ "lines" \in Loading \ {"players"}
    BY DEF Loading
<1> HIDE DEF rows
<1> QED
    BY <1>1, <1>3, <1>4, <1>8, <1>9, <1>10, <1>11, FlushIInv

(* Replacing the player lines keeps the invariant. *)
LEMMA ReplaceLinesIInv ==
    ASSUME IInv, ReplaceLines
    PROVE  IInv' /\ db' = db
<1> DEFINE lines == (tx.lines \ RowsOf(tx.lines, g0)) \cup LinesOf(g0, box0)
           rows == [tx EXCEPT !.lines = lines]
<1>1. Write("lines", "commit", rows) /\ run.step = "lines"
    BY DEF ReplaceLines, Write, Working
<1>2. box0 \in Boxes /\ g0 \in Games /\ run.step \in Loading
    BY <1>1, CurrentBox DEF Loading
<1>3. /\ tx.game[g0] = box0 /\ Listed(box0) \subseteq tx.players
      /\ RowsOf(tx.totals, g0) = TotalsOf(g0, box0)
      /\ \A g \in Games \ {g0} : Whole(tx, g)
    BY <1>1, <1>2 DEF IInv, WorkIsWhole
<1> HIDE DEF g0, box0
<1>4. /\ RowsOf(lines, g0) = LinesOf(g0, box0)
      /\ \A g : g # g0 => RowsOf(lines, g) = RowsOf(tx.lines, g)
      /\ RowsOf(tx.lines, g0) = LinesOf(g0, box0) => lines = tx.lines
    <2>1. \A row \in LinesOf(g0, box0) : row[1] = g0
        BY <1>2, BoxRows
    <2>2. lines = (tx.lines \ RowsOf(tx.lines, g0)) \cup LinesOf(g0, box0)
        OBVIOUS
    <2> HIDE DEF lines
    <2> QED
        BY <2>1, <2>2 DEF RowsOf
<1>5. lines \subseteq Games \X Players \X Teams \X Boxes
    BY <1>2, BoxRowsType DEF IInv, TypeOK, Database
<1> HIDE DEF lines
<1>6. /\ rows \in Database /\ rows.game = tx.game /\ rows.totals = tx.totals
      /\ rows.lines = lines /\ rows.neutral = tx.neutral /\ rows.players = tx.players
    BY <1>5 DEF IInv, TypeOK, Database
<1>7. run.repeat => rows = tx
    <2>1. run.repeat => lines = tx.lines
        BY <1>2, <1>4, RepeatIsStored
    <2> QED
        BY <1>6, <2>1 DEF IInv, TypeOK, Database
<1>8. \A g \in Games \ {g0} : rows.game[g] = tx.game[g] /\ Whole(rows, g)
    BY <1>3, <1>4, <1>6 DEF Whole
<1>9. "lines" \in Loading /\ "commit" \in Loading \ {"players"}
    BY DEF Loading
<1> HIDE DEF rows
<1> QED
    BY <1>1, <1>3, <1>4, <1>6, <1>7, <1>8, <1>9, FlushIInv

-----------------------------------------------------------------------------
(* A game that is skipped is taken from those to come and put in one list.  *)
LEMMA SkipStep ==
    ASSUME TypeOK, run.todo # {}, UNCHANGED <<page, changes, db>>, tx' = db,
           \/ run' = Counted([run EXCEPT !.missing = @ \cup {g0}])
           \/ run' = Counted([run EXCEPT !.quarantined = @ \cup {g0}])
           \/ run' = Counted([run EXCEPT !.failed = @ \cup {g0}])
    PROVE  /\ TypeOK'
           /\ run'.step = "next" /\ run'.todo = run.todo \ {g0}
           /\ Skipped' = Skipped \cup {g0}
           /\ run'.selection = run.selection /\ run'.loaded = run.loaded
           /\ run'.unchanged = run.unchanged /\ run'.pages = run.pages
           /\ run'.before = run.before /\ run'.repeat = run.repeat
<1>1. g0 \in run.todo /\ g0 \in Games
    BY CurrentGame
<1> HIDE DEF g0
<1> USE <1>1 DEF TypeOK, Counted, Steps, Skipped
<1>2. CASE run' = Counted([run EXCEPT !.missing = @ \cup {g0}])
    BY <1>2
<1>3. CASE run' = Counted([run EXCEPT !.quarantined = @ \cup {g0}])
    BY <1>3
<1>4. CASE run' = Counted([run EXCEPT !.failed = @ \cup {g0}])
    BY <1>4
<1> QED
    BY <1>2, <1>3, <1>4

(* A skipped game leaves the store as the run found it. *)
LEMMA SkipIInv ==
    ASSUME IInv, Running, run.todo # {}, UNCHANGED <<page, changes, db>>, tx' = db,
           \/ run' = Counted([run EXCEPT !.missing = @ \cup {g0}])
           \/ run' = Counted([run EXCEPT !.quarantined = @ \cup {g0}])
           \/ run' = Counted([run EXCEPT !.failed = @ \cup {g0}])
    PROVE  IInv'
<1>1. /\ TypeOK'
      /\ run'.step = "next" /\ run'.todo = run.todo \ {g0}
      /\ Skipped' = Skipped \cup {g0}
      /\ run'.selection = run.selection /\ run'.loaded = run.loaded
      /\ run'.unchanged = run.unchanged /\ run'.pages = run.pages
      /\ run'.before = run.before /\ run'.repeat = run.repeat
    BY SkipStep DEF IInv
<1>2. g0 \in run.todo /\ g0 \in Games
    BY CurrentGame DEF IInv
<1> HIDE DEF g0
<1>3. StoreIsWhole' /\ SessionIsClean' /\ WorkIsWhole'
    BY <1>1 DEF IInv, StoreIsWhole, Whole, SessionIsClean, WorkIsWhole, Loading
<1>4. ReportAddsUp'
    <2>1. ~Clean' /\ run'.step # "ended"
        BY <1>1 DEF Clean, Complete
    <2> HIDE DEF Skipped
    <2> QED
        BY <1>1, <1>2, <2>1 DEF IInv, ReportAddsUp
<1>5. RepeatIsIdle'
    <2>1. Flags(db)' = Flags(db)
        BY DEF Flags, NeutralSite, HomeCities, Count, Stored
    <2> QED
        BY <1>1, <2>1 DEF IInv, RepeatIsIdle, Running, Steps
<1> QED
    BY <1>1, <1>3, <1>4, <1>5 DEF IInv

(* A missing page keeps the invariant. *)
LEMMA MissingIInv ==
    ASSUME IInv, Missing
    PROVE  IInv' /\ db' = db
<1>1. /\ Running /\ run.todo # {} /\ UNCHANGED <<page, changes, db>> /\ tx' = db
      /\ run' = Counted([run EXCEPT !.missing = @ \cup {g0}])
    BY DEF Missing, Working, Running, Steps, IInv, SessionIsClean
<1> QED
    BY <1>1, SkipIInv

(* A quarantine keeps the invariant. *)
LEMMA QuarantineIInv ==
    ASSUME IInv, Quarantine
    PROVE  IInv' /\ db' = db
<1>1. /\ Running /\ run.todo # {} /\ UNCHANGED <<page, changes, db>> /\ tx' = db
      /\ run' = Counted([run EXCEPT !.quarantined = @ \cup {g0}])
    BY DEF Quarantine, Working, Running, Steps
<1> QED
    BY <1>1, SkipIInv

(* A failed game is rolled back and keeps the invariant. *)
LEMMA GameFailsIInv ==
    ASSUME IInv, GameFails
    PROVE  IInv' /\ db' = db
<1>1. /\ Running /\ run.todo # {} /\ UNCHANGED <<page, changes, db>> /\ tx' = db
      /\ run' = Counted([run EXCEPT !.failed = @ \cup {g0}])
    BY DEF GameFails, Running
<1> QED
    BY <1>1, SkipIInv

(* A game whose gates pass keeps the invariant. *)
LEMMA PassIInv ==
    ASSUME IInv, Pass
    PROVE  IInv' /\ db' = db
<1>1. /\ run.step = "next" /\ run.todo # {} /\ UNCHANGED <<page, changes, db, tx>>
      /\ box0 # Nothing /\ run' = [run EXCEPT !.step = "players"]
    BY DEF Pass, Working
<1>2. /\ TypeOK' /\ run'.step = "players" /\ run'.todo = run.todo
      /\ run'.selection = run.selection /\ run'.loaded = run.loaded
      /\ run'.unchanged = run.unchanged /\ run'.pages = run.pages
      /\ Skipped' = Skipped /\ run'.before = run.before /\ run'.repeat = run.repeat
    BY <1>1 DEF IInv, TypeOK, Steps, Skipped
<1>3. g0 \in run.todo /\ g0 \in Games /\ g0' = g0 /\ box0' = box0 /\ box0 = page[g0]
    BY <1>1, <1>2, CurrentGame DEF IInv, g0, box0
<1>4. tx = db /\ box0 \in Boxes
    BY <1>1, <1>3 DEF IInv, SessionIsClean, TypeOK
<1> HIDE DEF g0, box0
<1>5. StoreIsWhole' /\ SessionIsClean'
    BY <1>1, <1>2, <1>4 DEF IInv, StoreIsWhole, Whole, SessionIsClean
<1>6. WorkIsWhole'
    BY <1>1, <1>2, <1>3, <1>4 DEF IInv, StoreIsWhole, Whole, WorkIsWhole
<1>7. ReportAddsUp'
    <2>1. ~Clean' /\ run'.step # "ended" /\ Running
        BY <1>1, <1>2 DEF Clean, Complete, Running, Steps
    <2> HIDE DEF Skipped
    <2> QED
        BY <1>1, <1>2, <2>1 DEF IInv, ReportAddsUp
<1>8. RepeatIsIdle'
    <2>1. Flags(db)' = Flags(db)
        BY <1>1 DEF Flags, NeutralSite, HomeCities, Count, Stored
    <2> QED
        BY <1>1, <1>2, <1>4, <2>1 DEF IInv, RepeatIsIdle, Running, Steps
<1> QED
    BY <1>1, <1>2, <1>5, <1>6, <1>7, <1>8 DEF IInv

(* A commit makes one more game whole, and leaves the flags alone. *)
LEMMA CommitIInv ==
    ASSUME IInv, Commit
    PROVE  IInv' /\ CommitIsDue
<1>1. /\ run.step = "commit" /\ UNCHANGED <<page, changes, tx>> /\ db' = tx
      /\ \/ run' = Counted([run EXCEPT !.loaded = @ \cup {g0}])
         \/ run' = Counted([run EXCEPT !.unchanged = @ \cup {g0}])
    BY DEF Commit, Working
<1>2. /\ box0 \in Boxes /\ g0 \in Games /\ g0 \in run.todo /\ run.pages = page
      /\ box0 = page[g0] /\ box0 # Nothing
    BY <1>1, CurrentBox, BoxesAssumption DEF Loading, box0
<1>3. /\ TypeOK'
      /\ run'.step = "next" /\ run'.todo = run.todo \ {g0}
      /\ Skipped' = Skipped /\ run'.selection = run.selection
      /\ run'.loaded \cup run'.unchanged = run.loaded \cup run.unchanged \cup {g0}
      /\ run'.pages = run.pages /\ run'.before = run.before /\ run'.repeat = run.repeat
    <2> HIDE DEF g0
    <2> USE <1>1, <1>2 DEF IInv, TypeOK, Counted, Steps, Skipped
    <2>1. CASE run' = Counted([run EXCEPT !.loaded = @ \cup {g0}])
        BY <2>1
    <2>2. CASE run' = Counted([run EXCEPT !.unchanged = @ \cup {g0}])
        BY <2>2
    <2> QED
        BY <2>1, <2>2
<1>4. /\ tx.neutral = db.neutral /\ tx.game[g0] = box0
      /\ \A g \in Games \ {g0} : tx.game[g] = db.game[g] /\ Whole(tx, g)
      /\ RowsOf(tx.totals, g0) = TotalsOf(g0, box0)
      /\ RowsOf(tx.lines, g0) = LinesOf(g0, box0)
      /\ Listed(box0) \subseteq tx.players
    BY <1>1 DEF IInv, WorkIsWhole, Loading
<1> HIDE DEF g0, box0
<1>5. \A g \in Games : Whole(tx, g)
    BY <1>2, <1>4 DEF Whole
<1>6. StoreIsWhole' /\ SessionIsClean' /\ WorkIsWhole'
    BY <1>1, <1>3, <1>5 DEF StoreIsWhole, Whole, SessionIsClean, WorkIsWhole, Loading
<1>7. ReportAddsUp'
    <2>1. ~Clean' /\ run'.step # "ended" /\ Running
        BY <1>1, <1>3 DEF Clean, Complete, Running, Steps
    <2>2. Skipped \subseteq Games /\ run.todo \subseteq Games
          /\ run.loaded \cup run.unchanged \subseteq Games
        BY DEF IInv, TypeOK, Skipped
    <2> HIDE DEF Skipped
    <2>3. \A g \in Skipped' \cup run'.todo : g \in Games \ {g0} /\ g \in Skipped \cup run.todo
        BY <1>2, <1>3, <2>2 DEF IInv, ReportAddsUp
    <2>4. \A g \in Skipped' \cup run'.todo : db'.game[g] = run'.before[g]
        BY <1>1, <1>3, <1>4, <2>3 DEF IInv, ReportAddsUp
    <2>5. \A g \in run'.loaded \cup run'.unchanged :
            db'.game[g] = run'.pages[g] /\ db'.game[g] # Nothing
        <3> SUFFICES ASSUME NEW g \in run.loaded \cup run.unchanged \cup {g0}
                     PROVE  tx.game[g] = run.pages[g] /\ tx.game[g] # Nothing
            BY <1>1, <1>3
        <3>1. CASE g = g0
            BY <1>2, <1>4, <3>1
        <3>2. CASE g # g0
            BY <1>4, <2>2, <3>2 DEF IInv, ReportAddsUp
        <3> QED
            BY <3>1, <3>2
    <2> QED
        BY <1>1, <1>3, <2>1, <2>4, <2>5 DEF IInv, ReportAddsUp
<1>8. run.repeat => db' = db
    BY <1>1 DEF IInv, RepeatIsIdle, Running, Steps
<1>9. RepeatIsIdle'
    <2> SUFFICES ASSUME run.repeat PROVE RepeatIsIdle'
        BY <1>3 DEF RepeatIsIdle
    <2>1. Flags(db)' = Flags(db)
        BY <1>8 DEF Flags, NeutralSite, HomeCities, Count, Stored
    <2> QED
        BY <1>1, <1>3, <1>8, <2>1 DEF IInv, RepeatIsIdle, Running, Steps
<1> QED
    BY <1>1, <1>3, <1>4, <1>6, <1>7, <1>8, <1>9 DEF IInv, CommitIsDue

(* The pass over the neutral sites decides on a season that is stored. *)
LEMMA DeriveIInv ==
    ASSUME IInv, DeriveNeutralSites
    PROVE  IInv' /\ CommitIsDue
<1>1. /\ run.step = "next" /\ run.todo = {} /\ UNCHANGED <<page, changes>> /\ db' = tx'
      /\ run' = [run EXCEPT !.step = "ended"]
    BY DEF DeriveNeutralSites
<1>2. tx = db /\ db \in Database
    BY <1>1 DEF IInv, SessionIsClean, TypeOK
<1>3. CASE MayDerive
    <2>1. db' = [db EXCEPT !.neutral = Flags(db)]
        BY <1>1, <1>2, <1>3 DEF DeriveNeutralSites
    <2>2. db' \in Database /\ db'.neutral = Flags(db')
        BY <1>2, <2>1, DerivedOnce
    <2>3. /\ db'.game = db.game /\ db'.totals = db.totals /\ db'.lines = db.lines
          /\ db'.players = db.players /\ db'.neutral = Flags(db)
        BY <1>2, <2>1 DEF Database
    <2>4. \A g \in run.selection \ run.quarantined : db.game[g] = run.pages[g]
        BY <1>1, <1>3 DEF MayDerive, IInv, ReportAddsUp, Skipped
    <2>5. run.repeat => db' = db
        BY <1>1, <1>2, <2>1 DEF IInv, RepeatIsIdle, Running, Steps, Database
    <2>6. /\ TypeOK' /\ Skipped' = Skipped /\ run'.step = "ended" /\ run'.todo = {}
          /\ run'.selection = run.selection /\ run'.loaded = run.loaded
          /\ run'.unchanged = run.unchanged /\ run'.before = run.before
          /\ run'.pages = run.pages
        BY <1>1, <2>2 DEF IInv, TypeOK, Steps, Skipped
    <2>7. StoreIsWhole' /\ SessionIsClean' /\ WorkIsWhole' /\ RepeatIsIdle'
        BY <1>1, <2>3, <2>6
        DEF IInv, StoreIsWhole, Whole, SessionIsClean, WorkIsWhole, Loading, RepeatIsIdle,
            Running, Steps
    <2>8. ReportAddsUp'
        <3>1. Flags(db)' = Flags(db')
            BY DEF Flags, NeutralSite, HomeCities, Count, Stored
        <3> HIDE DEF Skipped
        <3> QED
            BY <1>1, <2>2, <2>3, <2>6, <3>1 DEF IInv, ReportAddsUp, Running, Steps
    <2> QED
        BY <2>4, <2>5, <2>6, <2>7, <2>8 DEF IInv, CommitIsDue
<1>4. CASE ~MayDerive
    <2>1. db' = db /\ tx' = db
        BY <1>1, <1>2, <1>4 DEF DeriveNeutralSites
    <2>2. /\ TypeOK' /\ Skipped' = Skipped /\ run'.step = "ended" /\ run'.todo = {}
          /\ run'.selection = run.selection /\ run'.loaded = run.loaded
          /\ run'.unchanged = run.unchanged /\ run'.before = run.before
          /\ run'.pages = run.pages
        BY <1>1, <2>1 DEF IInv, TypeOK, Steps, Skipped
    <2>3. StoreIsWhole' /\ SessionIsClean' /\ WorkIsWhole' /\ RepeatIsIdle'
        BY <1>1, <2>1, <2>2
        DEF IInv, StoreIsWhole, Whole, SessionIsClean, WorkIsWhole, Loading, RepeatIsIdle,
            Running, Steps
    <2>4. ~Clean'
        <3> SUFFICES ASSUME Clean' PROVE FALSE
            OBVIOUS
        <3>1. run.missing = {} /\ run.failed = {} /\ run.quarantined = {}
            BY <1>1 DEF Clean, Complete, IInv, TypeOK
        <3>2. run.selection \subseteq run.loaded \cup run.unchanged
            BY <1>1, <3>1 DEF IInv, ReportAddsUp, Skipped
        <3>3. run.selection \subseteq Stored(tx)
            BY <1>2, <3>2 DEF IInv, ReportAddsUp, TypeOK, Stored
        <3> QED
            BY <1>4, <3>1, <3>3 DEF MayDerive
    <2>5. ReportAddsUp'
        <3> HIDE DEF Skipped
        <3> QED
            BY <1>1, <2>1, <2>2, <2>4 DEF IInv, ReportAddsUp, Running, Steps
    <2> QED
        BY <2>1, <2>2, <2>3, <2>5 DEF IInv, CommitIsDue
<1> QED
    BY <1>3, <1>4

(* A page that changes between two runs keeps the invariant. *)
LEMMA ChangePageIInv ==
    ASSUME IInv, NEW g \in Games, NEW box \in Boxes, ChangePage(g, box)
    PROVE  IInv' /\ db' = db
<1>1. ~Running /\ UNCHANGED <<db, tx, run>> /\ page' = [page EXCEPT ![g] = box]
    BY DEF ChangePage
<1>2. TypeOK'
    BY BoxesAssumption DEF ChangePage, IInv, TypeOK
<1>3. StoreIsWhole' /\ SessionIsClean'
    BY <1>1 DEF IInv, StoreIsWhole, Whole, SessionIsClean
<1>4. ~Running' /\ run'.step \notin Loading
    BY <1>1 DEF Running, Steps, Loading
<1>5. (Clean => db.neutral = Flags(db))'
    BY <1>1
    DEF IInv, ReportAddsUp, Clean, Complete, Flags, NeutralSite, HomeCities, Count, Stored
<1>6. ReportAddsUp'
    BY <1>1, <1>4, <1>5 DEF IInv, ReportAddsUp, Skipped
<1> QED
    BY <1>1, <1>2, <1>3, <1>4, <1>6 DEF IInv, WorkIsWhole, RepeatIsIdle

(* A new run keeps the invariant: an idle rerun follows a clean run. *)
LEMMA StartRunIInv ==
    ASSUME IInv, NEW selection \in Selections, StartRun(selection)
    PROVE  IInv' /\ db' = db
<1>1. /\ ~Running /\ UNCHANGED <<page, changes, db>> /\ tx' = db
      /\ selection \subseteq Games
    BY BoxesAssumption DEF StartRun
<1> DEFINE repeat == Clean /\ run.pages = page /\ run.selection = selection
<1>2. repeat \in BOOLEAN
    BY DEF Clean, Complete
<1>3. run' = [step |-> "next", selection |-> selection, todo |-> selection,
               changed |-> FALSE, loaded |-> {}, unchanged |-> {}, missing |-> {},
               quarantined |-> {}, failed |-> {}, error |-> FALSE,
               pages |-> page, before |-> db.game, repeat |-> repeat]
    BY DEF StartRun
<1>4. repeat => /\ \A g \in selection : db.game[g] = page[g] /\ page[g] # Nothing
                /\ db.neutral = Flags(db)
    BY DEF IInv, ReportAddsUp, Clean, Complete, Skipped
<1> HIDE DEF repeat
<1>5. TypeOK'
    BY <1>1, <1>2, <1>3 DEF IInv, TypeOK, Steps, Database
<1>6. StoreIsWhole' /\ SessionIsClean' /\ WorkIsWhole'
    BY <1>1, <1>3 DEF IInv, StoreIsWhole, Whole, SessionIsClean, WorkIsWhole, Loading
<1>7. ReportAddsUp'
    BY <1>1, <1>3 DEF ReportAddsUp, Skipped, Clean, Complete
<1>8. RepeatIsIdle'
    <2>1. Flags(db)' = Flags(db)
        BY <1>1 DEF Flags, NeutralSite, HomeCities, Count, Stored
    <2> QED
        BY <1>1, <1>3, <1>4, <2>1 DEF RepeatIsIdle
<1> QED
    BY <1>1, <1>5, <1>6, <1>7, <1>8 DEF IInv

(* A run without a selection keeps the invariant. *)
LEMMA SelectionFailsIInv ==
    ASSUME IInv, SelectionFails
    PROVE  IInv' /\ db' = db
<1>1. /\ ~Running /\ UNCHANGED <<page, changes, db, tx>>
      /\ run' = [run EXCEPT !.step = "ended", !.error = TRUE, !.repeat = FALSE,
                          !.pages = page, !.before = db.game, !.selection = {},
                          !.loaded = {}, !.unchanged = {}, !.missing = {},
                          !.quarantined = {}, !.failed = {}]
    BY DEF SelectionFails
<1>2. /\ TypeOK' /\ run'.step = "ended" /\ run'.error /\ ~run'.repeat
      /\ run'.before = db.game /\ run'.selection = {} /\ run'.loaded = {}
      /\ run'.unchanged = {} /\ Skipped' = {}
    BY <1>1 DEF IInv, TypeOK, Steps, Database, Skipped
<1>3. tx = db
    BY <1>1 DEF IInv, SessionIsClean, TypeOK, Running, Steps
<1>4. StoreIsWhole' /\ SessionIsClean' /\ WorkIsWhole'
    BY <1>1, <1>2, <1>3 DEF IInv, StoreIsWhole, Whole, SessionIsClean, WorkIsWhole, Loading
<1>5. ReportAddsUp' /\ RepeatIsIdle'
    <2> HIDE DEF Skipped
    <2> QED
        BY <1>1, <1>2 DEF ReportAddsUp, RepeatIsIdle, Running, Steps, Clean, Complete
<1> QED
    BY <1>1, <1>2, <1>4, <1>5 DEF IInv

(* A run that is killed, or whose pass fails, keeps the invariant. *)
LEMMA EndsWithoutPass ==
    ASSUME IInv, Running, UNCHANGED <<page, changes, db>>, tx' = db,
           \/ run' = [run EXCEPT !.step = "crashed"]
           \/ run' = [run EXCEPT !.step = "ended", !.error = TRUE]
    PROVE  IInv'
<1>1. /\ TypeOK' /\ run'.step \in {"ended", "crashed"}
      /\ run'.step = "ended" => run'.error
      /\ run'.todo = run.todo /\ run'.selection = run.selection
      /\ run'.loaded = run.loaded /\ run'.unchanged = run.unchanged
      /\ Skipped' = Skipped /\ run'.before = run.before /\ run'.pages = run.pages
    <2> USE DEF IInv, TypeOK, Steps, Skipped
    <2>1. CASE run' = [run EXCEPT !.step = "crashed"]
        BY <2>1
    <2>2. CASE run' = [run EXCEPT !.step = "ended", !.error = TRUE]
        BY <2>2
    <2> QED
        BY <2>1, <2>2
<1>2. StoreIsWhole' /\ SessionIsClean' /\ WorkIsWhole' /\ RepeatIsIdle'
    BY <1>1
    DEF IInv, StoreIsWhole, Whole, SessionIsClean, WorkIsWhole, Loading, RepeatIsIdle,
        Running, Steps
<1>3. ReportAddsUp'
    <2>1. ~Clean' /\ ~Running'
        BY <1>1 DEF Clean, Complete, Running, Steps
    <2> HIDE DEF Skipped
    <2> QED
        BY <1>1, <2>1 DEF IInv, ReportAddsUp
<1> QED
    BY <1>1, <1>2, <1>3 DEF IInv

-----------------------------------------------------------------------------
(* An empty database and no run satisfy the invariant. *)
LEMMA InitIInv == Init => IInv
<1> SUFFICES ASSUME Init PROVE IInv
    OBVIOUS
<1>1. TypeOK
    BY BoxesAssumption DEF Init, TypeOK, NoRows, Database, Steps
<1>2. StoreIsWhole
    BY DEF Init, NoRows, StoreIsWhole, Whole, RowsOf
<1>3. SessionIsClean /\ WorkIsWhole
    BY DEF Init, SessionIsClean, WorkIsWhole, Loading
<1>4. ReportAddsUp /\ RepeatIsIdle
    BY DEF Init, ReportAddsUp, RepeatIsIdle, Skipped, Running, Steps, Clean, Complete
<1> QED
    BY <1>1, <1>2, <1>3, <1>4 DEF IInv

(* Every step keeps the invariant, and a commit writes only what is due.    *)
LEMMA NextIInv ==
    ASSUME IInv, [Next]_vars
    PROVE  IInv' /\ CommitIsDue
<1>1. CASE UNCHANGED vars
    <2>1. Flags(db)' = Flags(db)
        BY <1>1 DEF vars, Flags, NeutralSite, HomeCities, Count, Stored
    <2>2. TypeOK' /\ StoreIsWhole' /\ SessionIsClean' /\ WorkIsWhole'
        BY <1>1
        DEF vars, IInv, TypeOK, StoreIsWhole, Whole, SessionIsClean, WorkIsWhole, box0, g0
    <2>3. ReportAddsUp'
        BY <1>1, <2>1 DEF vars, IInv, ReportAddsUp, Skipped, Running, Clean, Complete
    <2>4. RepeatIsIdle'
        BY <1>1, <2>1 DEF vars, IInv, RepeatIsIdle, Running
    <2> QED
        BY <1>1, <2>2, <2>3, <2>4 DEF IInv, vars, CommitIsDue
<1>2. ASSUME NEW g \in Games, NEW box \in Boxes, ChangePage(g, box) PROVE IInv' /\ db' = db
    BY <1>2, ChangePageIInv
<1>3. ASSUME NEW selection \in Selections, StartRun(selection) PROVE IInv' /\ db' = db
    BY <1>3, StartRunIInv
<1>4. CASE Crash \/ DeriveFails
    <2>1. /\ Running /\ UNCHANGED <<page, changes, db>> /\ tx' = db
          /\ \/ run' = [run EXCEPT !.step = "crashed"]
             \/ run' = [run EXCEPT !.step = "ended", !.error = TRUE]
        BY <1>4 DEF Crash, DeriveFails, Running, Steps
    <2> QED
        BY <2>1, EndsWithoutPass DEF CommitIsDue
<1>5. db' = db => CommitIsDue
    BY DEF CommitIsDue
<1> QED
    BY <1>1, <1>2, <1>3, <1>4, <1>5, SelectionFailsIInv, MissingIInv, QuarantineIInv, PassIInv,
       CreatePlayersIInv, UpsertGameIInv, ReplaceTotalsIInv, ReplaceLinesIInv, CommitIInv,
       GameFailsIInv, DeriveIInv
    DEF Next

(* The inductive invariant holds in every reachable state. *)
THEOREM Invariance == Spec => []IInv
BY InitIInv, NextIInv, PTL DEF Spec

(* For any games, boxes, runs, failures and page changes: every stored game  *)
(* is whole and from one page.                                              *)
THEOREM WholeTheorem == Spec => []GamesAreWhole
<1>1. IInv => GamesAreWhole
    BY DEF IInv, StoreIsWhole, Whole, GamesAreWhole
<1> QED
    BY <1>1, Invariance, PTL

(* For any of them: the report of a run says what the database holds. *)
THEOREM ReportTheorem == Spec => []ReportIsTrue
<1>1. IInv => ReportIsTrue
    BY DEF IInv, ReportAddsUp, ReportIsTrue, Skipped, Clean, Complete
<1> QED
    BY <1>1, Invariance, PTL

(* For any of them: flags change only over a season that is stored, and a    *)
(* rerun of a clean run writes nothing.                                     *)
THEOREM DueTheorem == Spec => WritesAreDue
<1>1. IInv /\ [Next]_vars => CommitIsDue
    BY NextIInv
<1>2. CommitIsDue =>
        [/\ ~run.repeat
         /\ db'.neutral # db.neutral =>
              \A g \in run.selection \ run.quarantined : db.game[g] = run.pages[g]]_db
    BY DEF CommitIsDue
<1> QED
    BY <1>1, <1>2, Invariance, PTL DEF Spec, WritesAreDue
=============================================================================
