---------------------------- MODULE MCTaskSlots ----------------------------
(* Two worktrees; two data cards, of which one needs the other, and the     *)
(* shared card that either may be parked for and both worktrees may claim;  *)
(* two claims at once.                                                       *)
EXTENDS TaskSlots, TLC

CONSTANTS main, app, d1, d2, s1, p1, p2

MCWorktrees == {main, app}
MCBinding == [w \in MCWorktrees |-> IF w = main THEN "data" ELSE "app"]
MCCards == {d1, d2, s1}
MCTrack == [c \in MCCards |-> IF c = s1 THEN "shared" ELSE "data"]
MCDependsOn == [c \in MCCards |-> IF c = d2 THEN {d1} ELSE {}]
MCClaimers == {p1, p2}

MCSymmetry == Permutations(MCClaimers)
=============================================================================
