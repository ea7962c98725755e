--------------------------- MODULE MCUpstreamClient ---------------------------
(* Two callers of one client, the health prober and an import: a breaker that     *)
(* opens at the second failure and cools down for one tick, then for two, the     *)
(* second give or take one.                                                       *)
EXTENDS UpstreamClient

CONSTANTS prober, importer
==============================================================================
