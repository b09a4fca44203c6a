---------------------------- MODULE MCStatsAudit ----------------------------
(***************************************************************************)
(* Model checking StatsAudit: the pages of two teams in season 1 and the   *)
(* page of a player who was with both of them, or with one, or idle, and   *)
(* whose season 2 is not loaded.                                           *)
(***************************************************************************)
EXTENDS StatsAudit, TLC

CONSTANT None

teamFile(t) == [kind |-> "team", named |-> TRUE, player |-> None, team |-> t, year |-> 1]
Bos == teamFile("BOS")
Lal == teamFile("LAL")
Ann == [kind |-> "player", named |-> TRUE, player |-> "ann", team |-> None, year |-> 0]

MCFiles == {Bos, Lal, Ann}

listed(p, t) == [player |-> p, team |-> t, val |-> "ok"]
row(y, t) == [year |-> y, team |-> t, dnp |-> FALSE, val |-> "ok"]
idle(y) == [year |-> y, team |-> None, dnp |-> TRUE, val |-> "ok"]

teamPage(rows) == [readable |-> TRUE, regular |-> <<>>, postseason |-> <<>>, roster |-> rows]
playerPage(reg, post) ==
  [readable |-> TRUE, regular |-> reg, postseason |-> post, roster |-> <<>>]

Traded == playerPage(<<row(1, "2TM"), row(1, "BOS"), row(1, "LAL"), idle(2), row(3, "LAL")>>,
                     <<row(1, "LAL")>>)
OneTeam == playerPage(<<row(1, "TOT"), row(1, "BOS"), idle(1)>>,
                      <<[row(1, "BOS") EXCEPT !.val = "odd"], row(1, "LAL")>>)

MCMayHold ==
  (Bos :> {teamPage(<<listed("ann", "BOS")>>)})
  @@ (Lal :> {teamPage(<<listed("ann", "LAL")>>), teamPage(<<listed("ann", "TOT")>>)})
  @@ (Ann :> {Partial, Traded, OneTeam})

MCCaches == {(Bos :> teamPage(<<listed("ann", "BOS")>>)) @@ (Lal :> None) @@ (Ann :> None)}

AnnInSeason1 == Key("regular_aggregate", "ann", 1, None)

(* The row that an older parser chose for a season of two teams.            *)
MCHistories ==
  { AnnInSeason1 :> [by |-> "player_page_regular", current |-> FALSE,
                     code |-> "BOS", val |-> "ok"] }

(* The verdict is not in, nor settled: issues were found, as they had to be. *)
Auditing == audit.pc # "done" /\ (audit.issues = {} \/ HonestLoad)
=============================================================================
