------------------------ MODULE MCSeasonAcquisition ------------------------
(* Two operators at once, who rerun batches that can be smaller than the    *)
(* retries of one page.                                                     *)
EXTENDS SeasonAcquisition

CONSTANTS p1, p2, none

MCOperators == {p1, p2}
MCBudgets == {1, 2}
=============================================================================
