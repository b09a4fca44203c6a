----------------------------- MODULE MCClient ------------------------------
(* Two pages, every reply to each, settings at, above and below policy, up  *)
(* to two redirects in an attempt.                                          *)
EXTENDS Client

MCRpms == {6, 20, 30}
MCMinDelays == {1, 8}
MCLatencies == {0, 7}
MCRetryAfters == {0, 90}
MCPauses == {3, 20}
=============================================================================
