-------------------------- MODULE MCConcurrentIngest --------------------------
(***************************************************************************)
(* One parcel, known from an old sale, and its conveyance of day 2, which  *)
(* the yearly file and two weekly ZIPs snapshot: one with the seller's     *)
(* name drifted, one as the yearly file has it and with the old sale       *)
(* repeated.  The server ingests all of them while the command ingests the *)
(* weekly ZIPs, or the yearly files.  The file of the old sale may also    *)
(* have no rows.                                                           *)
(***************************************************************************)
EXTENDS ConcurrentIngest, TLC

CONSTANTS p1, c1, ann, bob, x1, n1, com, res, w1, w2, server, cli

Sale(d, conv, seller, buyer, nbhd) ==
    [parcel |-> p1, date |-> d, conv |-> conv, price |-> x1,
     seller |-> seller, buyer |-> buyer, nbhd |-> nbhd, source |-> Weekly]

Old       == Sale(1, NULL, bob, ann, n1)
AsSold    == Sale(2, c1, ann, bob, n1)
Fresh     == Sale(2, c1, ann, bob, NULL)
OldAgain  == Sale(1, NULL, bob, ann, NULL)
Drifted   == Sale(2, c1, bob, bob, NULL)
Later     == Sale(3, c1, bob, ann, NULL)
LaterSold == Sale(3, c1, bob, ann, n1)

MCExport ==
    (com :> {<<Old>>, <<>>}) @@
    (res :> {<<AsSold>>, <<AsSold, LaterSold>>}) @@
    (w1 :> {<<Drifted, Later>>}) @@
    (w2 :> {<<Fresh, OldAgain>>})

Work(s, c) == (server :> s) @@ (cli :> c)

MCWorks == {Work(<<<<com, res>>, <<w1, w2>>>>, <<<<w1, w2>>>>),
            Work(<<<<com, res>>, <<w1>>>>, <<<<res, com>>>>)}
===============================================================================
