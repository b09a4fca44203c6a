-------------------------- MODULE MCSnapshotCache --------------------------
(* Two calls with the same timestamp, a third with a later one, one reader. *)
EXTENDS SnapshotCache

CONSTANTS w1, w2, w3, r1

MCWriters == {w1, w2, w3}
MCStamp == [w \in MCWriters |-> IF w = w3 THEN 2 ELSE 1]
MCReaders == {r1}
=============================================================================
