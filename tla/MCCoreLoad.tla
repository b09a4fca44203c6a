---------------------------- MODULE MCCoreLoad -----------------------------
(***************************************************************************)
(* Model checking CoreLoad: two runs over a cache with two files of one    *)
(* page and a page of another team.  Ann played for both teams; Bob is on  *)
(* the season totals of one page and in a box score, under two names.      *)
(***************************************************************************)
EXTENDS CoreLoad, TLC

CONSTANTS r1, r2, None

file(dir, named, t, y) == [dir |-> dir, named |-> named, team |-> t, year |-> y]

MCFiles ==
  << file("basketball-reference", TRUE, "BOS", 1),
     file("basketball-reference", TRUE, "BOS", 1),
     file("basketball-reference", TRUE, "LAL", 1) >>

MCApproved == {<<"BOS", 1>>, <<"LAL", 1>>}

row(t, table, p, n, number) ==
  [team |-> t, table |-> table, player |-> p, name |-> n, number |-> number]

page(name, rows) == [readable |-> TRUE, html |-> TRUE, name |-> name, rows |-> rows]

Ann == page("Boston", <<row("BOS", "roster", "ann", "Ann", "7")>>)
Renumbered == page("Boston", <<row("BOS", "roster", "ann", "Ann", "9")>>)
BosCorrected == page(None, <<row("BOS", "roster", "bob", "Bob", None)>>)
Lal == page(None, <<row("LAL", "roster", "ann", "Anne", "8"),
                    row("TOT", "totals", "bob", "Rob", None)>>)
Marker == page(None, <<row("2TM", "totals", "ann", "Ann", None)>>)
Blank == [readable |-> TRUE, html |-> FALSE, name |-> None, rows |-> <<>>]
Broken == [readable |-> FALSE, html |-> FALSE, name |-> None, rows |-> <<>>]

MCMayHold ==
  << {Ann, Renumbered, BosCorrected, Broken},
     {Broken, BosCorrected},
     {Lal, Ann, Marker, Blank} >>

MCArchives ==
  { <<Ann, Broken, Lal>> }

(* Nothing, or pages of an older parser that read no names; one of them     *)
(* listed a player who is on no page any more.                              *)
MCHistories ==
  LET old(t, p) == [team |-> t, year |-> 1, name |-> None,
                    rows |-> <<row(t, "roster", p, None, None)>>]
  IN  { <<>>, <<old("BOS", "ann"), old("BOS", "cid"), old("LAL", "ann")>> }

MCBoxPlayers == {[player |-> "bob", name |-> "Bob"]}

MCReference ==
  { [team |-> "BOS", year |-> 1, name |-> "Boston", rows |-> Ann.rows],
    [team |-> "LAL", year |-> 1, name |-> None, rows |-> Lal.rows] }

Symmetry == Permutations(Runs)
=============================================================================
