--------------------------- MODULE LegacyAnalytics ---------------------------
(***************************************************************************)
(* The statistics that src/src/main.py computes itself: neighborhoods by   *)
(* the code on the sale's row, their yearly trends, the sales listed as    *)
(* comparable, and who holds what by the newest sale of each parcel.       *)
(*                                                                         *)
(* They take flagged deals out, but neither unflagged ones nor implausible *)
(* prices.  The sales here are of one class.                               *)
(***************************************************************************)
EXTENDS OwnerActivity

CONSTANTS
    MinYearly,      \* min_transactions of a year
    Today,
    Months          \* days that comparable sales go back

ASSUME LegacyAssumption ==
    /\ \A s \in Sale : "hood" \in DOMAIN s
    /\ MinYearly \in Nat \ {0} /\ Today \in Int /\ Months \in Nat

-----------------------------------------------------------------------------
(* Neighborhoods: s.hood is the code on the row, mostly empty.              *)

Priced == {s \in sales : s.hood # NULL /\ MarketSaleCriteria(s, FALSE, FALSE)}

HoodStats == [h \in {s.hood : s \in Priced} |-> Stats({s \in Priced : s.hood = h})]

OfYear(h, y) == {s \in Priced : s.hood = h /\ CalendarYear[s.date] = y}

\* Each year with enough sales, beside the year before if it has enough too.
YearlyTrend ==
    LET years == {y \in {<<s.hood, CalendarYear[s.date]>> : s \in Priced} :
                    Cardinality(OfYear(y[1], y[2])) >= MinYearly}
    IN [y \in years |->
          [median |-> TwiceMedian(Price(OfYear(y[1], y[2]))),
           prior  |-> IF <<y[1], y[2] - 1>> \in years
                      THEN TwiceMedian(Price(OfYear(y[1], y[2] - 1))) ELSE NULL]]

-----------------------------------------------------------------------------
(* Rows of a query without a tie-break: which of several equals it returns  *)
(* is open.                                                                 *)

Newest(rows) == {s \in rows : \A r \in rows : r.date <= s.date}

NewestFirst(rows, limit) ==
    {R \in SUBSET rows :
        /\ Cardinality(R) = Min({limit, Cardinality(rows)})
        /\ \A s \in R, r \in rows \ R : r.date <= s.date}

\* What may be listed as comparable to p.
ComparableSales(p, limit) ==
    UNION {NewestFirst({s \in sales :
                /\ s.hood = latest.hood /\ s.parcel # p
                /\ s.date >= Today - Months
                /\ MarketSaleCriteria(s, FALSE, FALSE)}, limit) :
            latest \in {s \in Newest({r \in sales : r.parcel = p}) : s.hood # NULL}}

\* The values in order, each as often as it occurs.
Sorted(value) ==
    [i \in 1 .. Cardinality(DOMAIN value) |->
        CHOOSE v \in Range(value) :
            /\ Cardinality({s \in DOMAIN value : value[s] < v}) < i
            /\ Cardinality({s \in DOMAIN value : value[s] <= v}) >= i]

\* Twice the middle of the sorted values.
TwiceMiddle(value) ==
    LET n == Cardinality(DOMAIN value)
        mid == n \div 2
    IN IF n = 0 THEN NULL
       ELSE IF n % 2 = 1 THEN 2 * Sorted(value)[mid + 1]
       ELSE Sorted(value)[mid] + Sorted(value)[mid + 1]

-----------------------------------------------------------------------------
(* Owners by the newest sale of each parcel.                                *)

Sold == {s.parcel : s \in sales}

\* A newest sale for each parcel.
Newests ==
    {newest \in [Sold -> sales] : \A p \in Sold : newest[p] \in Newest({s \in sales : s.parcel = p})}

TopOwners(newest) ==
    [o \in {newest[p].buyer : p \in Sold} |-> Cardinality({p \in Sold : newest[p].buyer = o})]

Holdings(o, newest) == {newest[p] : p \in {q \in Sold : newest[q].buyer = o}}

\* Rows of one day and price came in one deal, whose price each of them has.
DealSize(s, holdings) ==
    Cardinality({r \in holdings : r.date = s.date /\ r.price = s.price})

-----------------------------------------------------------------------------
(* Properties.                                                              *)

\* Although spellings are merged only after the query has cut most of them off,
\* no entity that a ranking returns has a lower count than any spelling of one
\* that it does not.
HeadsOutrankOthers ==
    \A ranking \in {TopBuyers, TopSellers, NetSellers} \cup {TopOwners(n) : n \in Newests} :
        \A F \in Fetches(ranking) : \A H \in Heads(Merged(ranking, F)) : \A e \in H :
            \A o \in DOMAIN ranking :
                Canonical[o] \notin H => Merged(ranking, F)[e] >= ranking[o]

\* What is said of an owner agrees.  The years of the profile say what the
\* window over all days says was spent: fold and query agree on what one deal is,
\* in whatever order its rows arrived, and of portfolio deals and of days with
\* several deals.  The price of each holding, divided by the size of its deal,
\* adds up to no more than was spent (times 60 to stay whole).  And an owner who
\* is related to another is found on the other's page too, although each page
\* counts the owners of an address without its own, unless that page is cut off
\* and all it lists bought more, or as much, under an address they share.
ProfilesAgree ==
    \A o \in Owner :
        LET bought == Buys(o)
            spent == SumOver([y \in DOMAIN Activity(o) |-> Activity(o)[y].spent])
        IN /\ spent = SumOver([deal \in Deals(o) |-> deal.price])
           /\ \A w \in Windows(o) :
                 (\A s \in bought : InWindow(w.start, s.date)) => w.spent = spent
           /\ \A newest \in Newests :
                 LET held == Holdings(o, newest)
                 IN SumOver([s \in held |-> (60 * s.price) \div DealSize(s, held)]) <= 60 * spent
           /\ \A p \in UNION RelatedOwners(o) : \A H \in RelatedOwners(p) :
                 \/ o \in H
                 \/ /\ Cardinality(H) = MaxRelated
                    /\ \A q \in H : SharedPurchases(p, q) >= SharedPurchases(p, o)

\* The medians computed from row numbers, or in Python from sorted prices, are
\* medians: of prices and of prices per square foot, in every period and
\* neighborhood and of comparable sales, with parcels that have no living area
\* among the rows.
MediansAreMiddle ==
    /\ \A parcels \in SUBSET Parcel :
        LET f == WithParcels(parcels)
        IN /\ \A b \in DOMAIN Trends(f) : HasMedians(Trends(f)[b], InPeriod(BucketRows(f), b))
           /\ \A h \in DOMAIN Neighborhoods(f) :
                 HasMedians(Neighborhoods(f)[h], {s \in MarketSaleRows(f) : Hood[s.parcel] = h})
    /\ \A h \in DOMAIN HoodStats :
        IsTwiceMedian(HoodStats[h].twiceMedian, Price({s \in Priced : s.hood = h}))
    /\ \A y \in DOMAIN YearlyTrend :
        /\ IsTwiceMedian(YearlyTrend[y].median, Price(OfYear(y[1], y[2])))
        /\ YearlyTrend[y].prior # NULL =>
              IsTwiceMedian(YearlyTrend[y].prior, Price(OfYear(y[1], y[2] - 1)))
    /\ \A p \in Parcel : \A rows \in ComparableSales(p, 2 * Limit) :
        IsTwiceMedian(TwiceMiddle(Price(rows)), Price(rows))
==============================================================================
