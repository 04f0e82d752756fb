----------------------------- MODULE MCCountySync -----------------------------
(***************************************************************************)
(* A dataset published now and then and one published every day, of which  *)
(* a refresh each third day is enough.  One file of each is rejected, and  *)
(* for one, not the last, the site may answer an error page.               *)
(***************************************************************************)
EXTENDS CountySync

MCOrder == <<"cama", "taxroll">>

ByDataset(cama, taxroll) == [d \in Dataset |-> IF d = "cama" THEN cama ELSE taxroll]

MCPublished == ByDataset({1, 2, 4}, Day)
MCMinAge == ByDataset(0, 3)
MCRejected == {<<"cama", 2>>, <<"taxroll", 3>>}
MCDisturbed == {<<"cama", 1>>, <<"taxroll", 4>>}
===============================================================================
