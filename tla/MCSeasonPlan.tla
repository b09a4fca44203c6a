---------------------------- MODULE MCSeasonPlan ----------------------------
(***************************************************************************)
(* Model checking SeasonPlan with two games a team instead of 82: a season *)
(* of the old kind, long over, whose playoffs repeat a regular pairing, and *)
(* one in progress with a Cup final, a game postponed into the next month, *)
(* a play-in game and playoffs.                                            *)
(***************************************************************************)
EXTENDS SeasonPlan, TLC

CONSTANT None

game(g, month, date, visitor, home, kind, listed, gone) ==
  [game |-> g, month |-> month, date |-> date, visitor |-> visitor, home |-> home,
   kind |-> kind, listed |-> listed, gone |-> gone]

MCSeasons == {2019, 2026}

MCCalendar ==
  (2019 :> <<game("a1", "nov", 1, "A", "B", "regular", 0, None),
             game("a2", "nov", 1, "C", "D", "regular", 0, None),
             game("a3", "apr", 2, "A", "C", "regular", 0, None),
             game("a4", "apr", 3, "B", "D", "regular", 0, None),
             game("a5", "apr", 4, "A", "B", "playoff", 3, None)>>)
  @@ (2026 :> <<game("b1", "dec", 11, "A", "C", "regular", 0, None),
                game("b2", "dec", 11, "B", "D", "regular", 0, 11),
                game("b3", "dec", 12, "A", "B", "cup", 11, None),
                game("b4", "apr", 13, "A", "B", "regular", 0, None),
                game("b5", "apr", 13, "C", "D", "regular", 0, None),
                game("b2", "apr", 14, "B", "D", "regular", 12, None),
                game("b6", "apr", 16, "C", "D", "play-in", 16, None),
                game("b7", "may", 17, "A", "B", "playoff", 16, None)>>)

link(month, linked) == [month |-> month, linked |-> linked]

MCMonths ==
  (2019 :> <<link("nov", 0), link("apr", 0)>>)
  @@ (2026 :> <<link("dec", 0), link("apr", 0), link("may", 15)>>)

MCWindows == (2019 :> 0..9) @@ (2026 :> 10..19)
MCExpected == (2019 :> 4) @@ (2026 :> 5)

MCFirstPages ==
  (2019 :> {<<>>, ("apr" :> 5)})
  @@ (2026 :> {<<>>, ("dec" :> 10)})

(* A box score of the old season under the new one's year.                  *)
MCForeign == {[type |-> "box_score", of |-> 2019, season |-> 2026, name |-> "a5"]}
=============================================================================
