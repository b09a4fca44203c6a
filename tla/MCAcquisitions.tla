--------------------------- MODULE MCAcquisitions ---------------------------
(* One team-season page that two commands share, two players with at most   *)
(* one season, two pilot pages; no filter, a limit and a year bound.        *)
EXTENDS Acquisitions

CONSTANTS all

File(approved, policy, max, entries) ==
    [approved |-> approved, policy |-> policy, maxUrls |-> max, entries |-> entries]

MCFiles == {
    File(TRUE, TRUE, 1, <<1>>), File(TRUE, TRUE, 9, <<5, 4>>),
    File(FALSE, TRUE, 1, <<1>>), File(TRUE, FALSE, 1, <<5>>), File(TRUE, TRUE, 1, <<4, 5>>),
    File(TRUE, TRUE, 2, <<5, 5>>), File(TRUE, TRUE, 2, <<1, 5>>), File(TRUE, TRUE, 2, <<>>)}

MCOptions == {[limit |-> all, player |-> all, start |-> all, end |-> all],
              [limit |-> 1, player |-> all, start |-> 2000, end |-> all]}
=============================================================================
