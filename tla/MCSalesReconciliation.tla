----------------------- MODULE MCSalesReconciliation -----------------------
(***************************************************************************)
(* A small county: one yearly file per parcel class, two weekly ZIPs, one  *)
(* parcel sold on three days.  A file may have any content of up to two    *)
(* lines from its pool; the pools cover a corrected buyer, a drifted       *)
(* seller, repeated lines, a pre-2003 sale without a conveyance number,    *)
(* sales outside the dates of the other files, a sale two yearly files     *)
(* share, and malformed and ragged lines.                                  *)
(***************************************************************************)
EXTENDS SalesReconciliation, TLC

CONSTANTS p1, c1, ann, bob, x1, n1, n2, res, com, w1, w2

Sale(d, conv, seller, buyer, nbhd) ==
    [parcel |-> p1, date |-> d, conv |-> conv, price |-> x1,
     seller |-> seller, buyer |-> buyer, nbhd |-> nbhd, source |-> Weekly]

\* Snapshots of the conveyance of day 2: as sold, and with the buyer corrected;
\* in the weekly file the seller's name has drifted, or has not.
AsSold    == Sale(2, c1, ann, bob, n1)
Corrected == Sale(2, c1, ann, ann, n1)
Drifted   == Sale(2, c1, bob, bob, NULL)
Fresh     == Sale(2, c1, ann, bob, NULL)
\* A sale of day 1, from the years without conveyance numbers.
Legacy    == Sale(1, NULL, bob, ann, NULL)
LegacyIn  == Sale(1, NULL, bob, ann, n2)
\* The sale of day 3.
Later     == Sale(3, c1, bob, ann, NULL)
LaterSold == Sale(3, c1, bob, ann, n2)

UpToTwo(pool) ==
    {<<>>} \cup {<<a>> : a \in pool} \cup {<<a, b>> : a, b \in pool}

MCYearlyExport ==
    (res :> UpToTwo({AsSold, Corrected, Malformed, LaterSold})) @@
    (com :> UpToTwo({LegacyIn, LaterSold, Ragged}))

MCWeeklyContent ==
    (w1 :> UpToTwo({Drifted, Later, Malformed})) @@
    (w2 :> UpToTwo({Fresh, Legacy, Later, Ragged}))
=============================================================================
