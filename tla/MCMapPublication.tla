---------------------------- MODULE MCMapPublication ----------------------------
(***************************************************************************)
(* One browser, four versions (two published above a resolved one), two    *)
(* faults and one replaced database.                                       *)
(***************************************************************************)
EXTENDS MapPublication
================================================================================
