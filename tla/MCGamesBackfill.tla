-------------------------- MODULE MCGamesBackfill --------------------------
(* Three home games of one team, so that a city can have a majority, and    *)
(* boxes that differ in venue, in the away team, in their lines, in whether *)
(* a player can be named, and in whether the gates pass.                    *)
EXTENDS GamesBackfill

CONSTANTS home, away, other, p, q, here, abroad

MCTeams == {home, away, other}
MCHome == [g \in 1..3 |-> home]
MCPlayers == {p, q}
MCCities == {here, abroad}

Box(valid, visitor, city, lines, unnamed) ==
    [valid |-> valid, away |-> visitor, city |-> city, lines |-> lines, unnamed |-> unnamed]

MCBoxes == {
    Box(TRUE, away, here, {<<p, "home">>, <<q, "away">>}, {}),
    Box(TRUE, other, abroad, {<<q, "home">>}, {q}),
    Box(FALSE, away, NoCity, {<<p, "away">>}, {})}

MCSelections == {{1, 2, 3}, {1, 2}}
=============================================================================
