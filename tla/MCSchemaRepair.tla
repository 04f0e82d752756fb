---------------------------- MODULE MCSchemaRepair ----------------------------
(***************************************************************************)
(* Old tables of up to three rows, in any order: a conveyance with two     *)
(* buyers, the one chained to it on the same day, its snapshot with a      *)
(* drifted seller, and two sales without a conveyance number.  One yearly  *)
(* file and one weekly ZIP are then ingested; the ZIP may be known already *)
(* to a database that holds its sale.                                      *)
(***************************************************************************)
EXTENDS SchemaRepair, TLC

CONSTANTS p1, c1, ann, bob, sue, x1, n1, res, w1

Sale(d, conv, seller, buyer, nbhd) ==
    [parcel |-> p1, date |-> d, conv |-> conv, price |-> x1,
     seller |-> seller, buyer |-> buyer, nbhd |-> nbhd, source |-> Weekly]

AsSold    == Sale(2, c1, ann, bob, n1)
OwnerNow  == Sale(2, c1, ann, sue, NULL)
Chained   == Sale(2, c1, bob, sue, n1)
Drifted   == Sale(2, c1, sue, sue, NULL)
Unnumbered == Sale(1, NULL, bob, ann, n1)
Sold      == Sale(1, NULL, sue, ann, NULL)

Old == {AsSold, OwnerNow, Chained, Drifted, Unnumbered, Sold}

Tables == UNION {{t \in [1 .. n -> Old] : \A i, j \in 1 .. n : t[i] = t[j] => i = j} : n \in 0 .. 3}

MCYearlyExport == res :> {<<Unnumbered, AsSold, Chained>>, <<OwnerNow, AsSold>>, <<AsSold>>}
MCWeeklyContent == w1 :> {<<Drifted>>}

MCLegacy ==
    {[rows |-> t, zips |-> w1 :> NotIngested] : t \in Tables} \cup
    {[rows |-> t, zips |-> w1 :> <<Drifted>>] :
        t \in {u \in Tables : \E i \in DOMAIN u : u[i] = Drifted}}
===============================================================================
