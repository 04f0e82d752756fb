----------------------------- MODULE MCCachedReads -----------------------------
(***************************************************************************)
(* Two requests for one answer, a cache smaller than the number of         *)
(* versions, and enough builds, ingests and faults to interleave.          *)
(***************************************************************************)
EXTENDS CachedReads
================================================================================
