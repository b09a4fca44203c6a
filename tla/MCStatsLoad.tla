---------------------------- MODULE MCStatsLoad ----------------------------
(***************************************************************************)
(* Model checking StatsLoad: two runs of any of the page lists, or three   *)
(* runs of the short ones, so that a run may meet rows of an earlier run   *)
(* while a third is under way; one after the other or overlapping.         *)
(* Ann was traded from BOS to LAL in season 1, Bob played for LAL: the     *)
(* team pages carry their season totals in TOT rows, in page order, the    *)
(* player pages carry the same grains in the order of the players.         *)
(***************************************************************************)
EXTENDS StatsLoad, TLC

CONSTANTS r1, r2, r3, None

MCTeamPages == {<<"BOS", 1>>, <<"LAL", 1>>}
MCRoster == (<<"BOS", 1>> :> {"ann"}) @@ (<<"LAL", 1>> :> {"ann", "bob"})

row(source, sc, team, player, season, val) ==
  [source |-> source, scope |-> sc, team |-> team,
   player |-> player, season |-> season, val |-> val]

Stint(team, player, v) == row("totals", "player_team_season", team, player, 1, v)
Total(player, v) == row("totals", "player_season_aggregate", "TOT", player, 1, v)
Whole(player, season, v) == row("totals", "player_season_aggregate", "2TM", player, season, v)
Series(team, v) == row("totals", "player_team_postseason", team, "ann", 1, v)
Playoffs(v) == row("totals", "player_postseason_aggregate", "2TM", "ann", 1, v)

page(path, rows) == [ok |-> TRUE, rows |-> rows, path |-> path]
unreadable == [ok |-> FALSE, rows |-> <<>>, path |-> "bob"]
MCPaths == {"BOS", "LAL", "ann", "bob"}

TeamLists ==
  { <<page("BOS", <<Stint("BOS", "ann", "x"), Total("ann", "x")>>),
      page("LAL", <<Total("bob", "y"), Total("ann", "y")>>)>>,
    <<page("BOS", <<Stint("BOS", "ann", "null"),
             row("salaries", "player_team_season", "BOS", "ann", 1, "x")>>)>> }

(* One row of Ann's, on her first team's page and on her second's. *)
Short1 == <<page("BOS", <<Total("ann", "x")>>)>>
Short2 == <<page("LAL", <<Total("ann", "y")>>)>>

PlayerLists ==
  { <<>>,
    <<page("ann", <<>>), unreadable>>,
    <<page("ann", <<Whole("ann", 1, "y")>>), page("bob", <<Whole("bob", 1, "x")>>)>>,
    <<page("ann", <<Whole("bob", 2, "bad"), Whole("ann", 1, "null")>>)>> }

PostseasonLists ==
  { <<page("ann", <<Series("BOS", "x"), Series("BOS", "y")>>)>>,
    <<page("ann", <<Playoffs("x"), Series("LAL", "x"), Series("TOT", "x")>>)>> }

MCPageLists ==
  ("stats" :> TeamLists \union {Short1, Short2}) @@ ("player-stats" :> PlayerLists)
  @@ ("player-postseason-stats" :> PostseasonLists)

MCRows ==
  LET lists == TeamLists \union {Short1, Short2} \union PlayerLists \union PostseasonLists
      all == UNION {{l[i] : i \in DOMAIN l} : l \in lists}
  IN  UNION {{p.rows[n] : n \in DOMAIN p.rows} : p \in all}

(* Three overlapping runs, one of them a rerun of another on the same page,  *)
(* once the core tables are loaded; or r1 and r2 on any of the other lists.  *)
Three == pages[r3] = Short2

MCInit ==
  /\ Init
  /\ \/ /\ Three /\ overlap
        /\ pages[r1] = Short1 /\ pages[r2] = Short1
     \/ /\ \A r \in {r1, r2} : pages[r] \notin {Short1, Short2}
        /\ command[r3] = "player-stats" /\ pages[r3] = <<>>

MCSpec == MCInit /\ [][Next]_vars

Bound == IF Three THEN core = TeamPages \/ \A r \in Runs : pc[r] = "idle"
                  ELSE pc[r3] = "idle"

Symmetry == Permutations({r1, r2})
=============================================================================
