--------------------------- MODULE MCCacheWriter ---------------------------
(* Three concurrent calls for one page, one of them without metadata. *)
EXTENDS CacheWriter

CONSTANTS w1, w2, w3

MCWriters == {w1, w2, w3}
MCWithMetadata == {w1, w2}
=============================================================================
