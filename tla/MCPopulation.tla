----------------------------- MODULE MCPopulation -----------------------------
(***************************************************************************)
(* Two calendar years with two exports each, the first export of year 2    *)
(* with a ragged line, and four weekly ZIPs: one that cannot be read, and  *)
(* good ones before and behind one with a ragged line, the last of them    *)
(* published while the server runs.                                        *)
(***************************************************************************)
EXTENDS Population

CONSTANTS w1, w2, w3, w4

MCIndex == <<w1, w2, w3, w4>>

MCKind == [z \in Zip |-> IF z = w1 THEN "unreadable" ELSE IF z = w3 THEN "ragged" ELSE "good"]

MCRaggedExport == {<<2, 1>>}
===============================================================================
