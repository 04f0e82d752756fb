-------------------------- MODULE NeighborhoodPages --------------------------
(***************************************************************************)
(* What is shown of a neighborhood: the row src/src/derived/summary.py     *)
(* keeps of it, its line in the trends and its report                      *)
(* (src/src/services/analytics/neighborhoods.py), and the median that a    *)
(* parcel's page (parcels.py) sets beside the parcel's own price.          *)
(*                                                                         *)
(* The list and the report are computed from sales, the summary from the   *)
(* last sale of each parcel; a parcel may have been sold several times.    *)
(***************************************************************************)
EXTENDS SaleListing

CONSTANTS
    Active,         \* the parcels in the newest CAMA file
    MinSales,       \* min_sales of a year in the trends
    MaxTrends       \* neighborhoods in the trends

ASSUME NeighborhoodAssumption ==
    Active \subseteq Parcel /\ MinSales \in Nat /\ MaxTrends \in Nat \ {0}

-----------------------------------------------------------------------------
(* The summary.                                                             *)

\* Parcels of h sold within two years of the newest sale.
RecentlySold(h) ==
    {p \in Active : /\ Hood[p] = h
                    /\ LatestSaleDate # NULL /\ LastSale(p) # NULL
                    /\ LastSale(p).date >= LatestSaleDate - 2 * Year}

\* Members without a value are left out of a median.
MedianOf(value) == TwiceMiddle([p \in Valued(value) |-> value[p]])

NeighborhoodSummary ==
    [h \in {Hood[p] : p \in Active} \ {NULL} |->
        [parcels |-> Cardinality({p \in Active : Hood[p] = h}),
         sold    |-> Cardinality(RecentlySold(h)),
         price   |-> MedianOf([p \in RecentlySold(h) |-> LastSale(p).price]),
         ppsf    |-> MedianOf([p \in RecentlySold(h) |-> Summaries[p].ppsf]),
         year    |-> MedianOf([p \in {q \in Active : Hood[q] = h} |-> Summaries[p].year])]]

\* The part of a parcel's profile that the neighborhood goes into.
ProfileValue(p) ==
    [last |-> Summaries[p].lastSale, ppsf |-> Summaries[p].ppsf,
     hoodPpsf |-> IF Hood[p] \in DOMAIN NeighborhoodSummary
                  THEN NeighborhoodSummary[Hood[p]].ppsf ELSE NULL]

-----------------------------------------------------------------------------
(* Trends and report.                                                       *)

\* Mutant: the neighborhood that the row of the sale says.
HoodYearsOfRows(f) ==
    [g \in {<<s.hood, CalendarYear[s.date]>> : s \in MarketSaleRows(f)} |->
        StatsWithPpsf({s \in MarketSaleRows(f) : <<s.hood, CalendarYear[s.date]>> = g})]

HoodYears(f) ==
    [g \in {<<Hood[s.parcel], CalendarYear[s.date]>> : s \in MarketSaleRows(f)} |->
        StatsWithPpsf({s \in MarketSaleRows(f) : <<Hood[s.parcel], CalendarYear[s.date]>> = g})]

\* The neighborhoods with most sales, of several with as many any.
Leading(f) ==
    LET totals == [h \in {g[1] : g \in DOMAIN HoodYears(f)} \ {NULL} |->
                    SumOver([g \in {k \in DOMAIN HoodYears(f) : k[1] = h} |-> HoodYears(f)[g].count])]
    IN {H \in SUBSET DOMAIN totals :
            /\ Cardinality(H) = Min({MaxTrends, Cardinality(DOMAIN totals)})
            /\ \A h \in H, g \in DOMAIN totals \ H : totals[h] >= totals[g]}

NeighborhoodTrends(f, hoods) ==
    {g \in DOMAIN HoodYears(f) : g[1] \in hoods /\ HoodYears(f)[g].count >= MinSales}

InHood(h) == WithParcels({p \in Parcel : Hood[p] = h})

Report(h) ==
    LET f == InHood(h)
    IN [trend  |-> [y \in {g[2] : g \in {k \in DOMAIN HoodYears(f) : k[1] = h}} |->
                    HoodYears(f)[<<h, y>>]],
        recent |-> OnPage(Selected(f, TRUE), SortColumns.sale_date, "desc", 1)]

-----------------------------------------------------------------------------
(* Properties.                                                              *)

\* The report of a neighborhood, its row in the list of neighborhoods, its lines
\* in the trends and the list of its sales tell one story: the sales of the
\* years add up to the row and to the list, the recent ones are the newest of
\* the list, and no line of the trends says other than the report.
\* The summary's medians are medians, it counts every parcel with a listed sale
\* in its two years (but for sales that are there twice), and a page that shows
\* a price per square foot from these years has one to compare it with.
NeighborhoodsAgree ==
    /\ \A h \in {Hood[p] : p \in Parcel} \ {NULL} :
        LET listed == Selected(InHood(h), TRUE)
            trend == Report(h).trend
            row == Neighborhoods(InHood(h))
            recent == Report(h).recent
        IN /\ SumOver([y \in DOMAIN trend |-> trend[y].count]) = Cardinality(listed)
           /\ SumOver([y \in DOMAIN trend |-> trend[y].volume])
                = (IF h \in DOMAIN row THEN row[h].volume ELSE 0)
           /\ \A s \in recent, r \in listed \ recent : r.date <= s.date
           /\ \A hoods \in Leading(WithParcels(Parcel)) :
                 \A g \in NeighborhoodTrends(WithParcels(Parcel), hoods) :
                    g[1] = h => HoodYears(WithParcels(Parcel))[g] = trend[g[2]]
    /\ \A h \in DOMAIN NeighborhoodSummary :
        LET row == NeighborhoodSummary[h]
            Copied(s) == \E r \in sales : r # s /\ r.parcel = s.parcel /\ SameDeal(r, s)
            sold == {s.parcel : s \in {r \in MarketSaleRows(InHood(h)) :
                        r.date >= LatestSaleDate - 2 * Year /\ ~ Copied(r)}}
            Prices == [p \in RecentlySold(h) |-> LastSale(p).price]
        IN /\ sold \cap Active \subseteq RecentlySold(h)
           /\ IsTwiceMedian(row.price, Prices)
    /\ \A p \in Active :
        LET value == ProfileValue(p)
        IN /\ Hood[p] # NULL /\ value.ppsf # NULL /\ value.last.date >= LatestSaleDate - 2 * Year
                => value.hoodPpsf # NULL
==============================================================================
