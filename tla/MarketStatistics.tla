--------------------------- MODULE MarketStatistics ---------------------------
(***************************************************************************)
(* What counts as a market sale, and what is computed from those: the      *)
(* criteria of src/src/db/criteria.py and the summaries, trends and        *)
(* medians of src/src/services/analytics/market.py.                        *)
(*                                                                         *)
(* The county stamps the price of a whole deal on the row of each parcel   *)
(* it covers.  Some queries leave such rows out by a subquery over the     *)
(* whole table, others by counting a deal's rows in a window over the rows *)
(* their own filters kept.                                                 *)
(*                                                                         *)
(* Requests only read, so they are operators on the table; what happens is *)
(* that ingestion adds and deletes rows and that a new data version lets   *)
(* the cached newest sale date be read again.  Dates are day numbers.      *)
(***************************************************************************)
EXTENDS Integers, SequencesExt, FiniteSetsExt

CONSTANTS
    Sale,           \* the rows the table may come to hold
    NULL,           \* SQL NULL
    NonMarket,      \* validity codes of transfers without a market price
    MultiParcel,    \* validity codes of deals over several parcels
    Foreclosure,
    MinPrice,       \* MIN_MARKET_PRICE
    Area,           \* Area[p]: living area in the parcel summary, 0 or NULL for none
    Hood,           \* Hood[p]: neighborhood of p
    Period,         \* Period[d]: the month, quarter or year of day d
    Year            \* days of a window: 365 in the code

Parcel == DOMAIN Area
Day == DOMAIN Period

ASSUME StatisticsAssumption ==
    /\ \A s \in Sale : s.parcel \in Parcel /\ s.date \in Day /\ s.price \in Nat
    /\ \A r, s \in Sale : r.id = s.id => r = s
    /\ \A s \in Sale : s.id \in Int
    /\ Foreclosure \in NonMarket
    /\ Day \subseteq Int /\ IsFiniteSet(Day) /\ Year \in Nat \ {0}
    /\ Range(Area) \subseteq Nat \cup {NULL} /\ NULL \notin Int \cup Sale
    /\ DOMAIN Hood = Parcel

VARIABLES
    sales,      \* rows of the transaction table
    anchor      \* the cached newest sale date

vars == <<sales, anchor>>

-----------------------------------------------------------------------------
(* Criteria.                                                                *)

MarketSaleCriteria(s, multi, distress) ==
    LET excluded == (NonMarket \ (IF distress THEN {Foreclosure} ELSE {}))
                    \cup (IF multi THEN {} ELSE MultiParcel)
    IN s.price >= MinPrice /\ s.buyer # s.seller /\ s.validity \notin excluded

\* At least a tenth of the county's value, where there is one.
PlausiblePrice(s) == s.value = NULL \/ s.value <= 0 \/ 10 * s.price >= s.value

MarketSale(s, multi, distress) == MarketSaleCriteria(s, multi, distress) /\ PlausiblePrice(s)

SameDeal(r, s) == r.date = s.date /\ r.buyer = s.buyer /\ r.price = s.price

SingleParcel(s) == ~ \E r \in sales : SameDeal(r, s) /\ r.parcel # s.parcel

-----------------------------------------------------------------------------
(* Filters: a date range and the parcels that the class, neighborhood,      *)
(* building and occupancy filters let through.  A price range, which a deal *)
(* is in or out of as a whole like its date, is left out.                   *)

AllDays == [from |-> Min(Day), to |-> Max(Day)]

Passes(f, s) == s.parcel \in f.parcels /\ f.from <= s.date /\ s.date <= f.to

\* deal_size = 1, among the rows the query kept.
Counted(rows) == {s \in rows : \A r \in rows : SameDeal(r, s) => r = s}

\* market_buckets, before the rows are grouped.
BucketRows(f) == Counted({s \in sales : MarketSale(s, FALSE, FALSE) /\ Passes(f, s)})

\* price_points, the sales list and the neighborhood statistics.
MarketSaleRows(f) ==
    {s \in sales : MarketSale(s, FALSE, FALSE) /\ SingleParcel(s) /\ Passes(f, s)}

-----------------------------------------------------------------------------
(* Statistics of a group of rows.                                           *)

SumOver(value) == MapThenSumSet(LAMBDA x : value[x], DOMAIN value)

Price(rows) == [s \in rows |-> s.price]

\* Prices are multiples of the areas they are divided by here.
PricePerSqft(rows) ==
    [s \in rows |-> IF Area[s.parcel] = NULL \/ Area[s.parcel] = 0 THEN NULL
                    ELSE s.price \div Area[s.parcel]]

\* By value, rows without one last, ties in any order.
RankedBefore(value, r, s) ==
    \/ value[r] # NULL /\ value[s] = NULL
    \/ value[r] # NULL /\ value[s] # NULL /\ value[r] < value[s]
    \/ value[r] = value[s] /\ r.id < s.id

\* row_number(): each row by the number that are before it.
RowNumbered(value) ==
    [i \in 1 .. Cardinality(DOMAIN value) |->
        CHOOSE s \in DOMAIN value :
            Cardinality({r \in DOMAIN value : RankedBefore(value, r, s)}) = i - 1]

Valued(value) == {s \in DOMAIN value : value[s] # NULL}

\* Mutant: of an even number of rows only the upper middle one.
UpperMiddle(n) == {n \div 2 + 1}

\* Numbers of the middle rows of n.
Middle(n) == {(n + 1) \div 2, (n + 2) \div 2}

\* Twice the mean of the middle row or rows.
TwiceMedian(value) ==
    LET ranked == RowNumbered(value)
        middle == Middle(Cardinality(Valued(value)))
    IN IF Valued(value) = {} THEN NULL
       ELSE value[ranked[Min(middle)]] + value[ranked[Max(middle)]]

Volume(rows) == SumOver(Price(rows))

Stats(rows) == [count |-> Cardinality(rows), volume |-> Volume(rows),
                twiceMedian |-> TwiceMedian(Price(rows))]

StatsWithPpsf(rows) == [count |-> Cardinality(rows), volume |-> Volume(rows),
                        twiceMedian |-> TwiceMedian(Price(rows)),
                        twiceMedianPpsf |-> TwiceMedian(PricePerSqft(rows))]

InPeriod(rows, b) == {s \in rows : Period[s.date] = b}

Trends(f) ==
    [b \in {Period[s.date] : s \in BucketRows(f)} |-> StatsWithPpsf(InPeriod(BucketRows(f), b))]

Neighborhoods(f) ==
    [h \in {Hood[s.parcel] : s \in MarketSaleRows(f)} \ {NULL} |->
        StatsWithPpsf({s \in MarketSaleRows(f) : Hood[s.parcel] = h})]

\* Mutant: the earlier window ends where the later one starts.
PriorEndShared == anchor - (Year - 1)

PriorEnd == anchor - (Year - 1) - 1

\* The filter's own dates give way to those of a window.
Summary(f) ==
    LET Window(from, to) == Stats(BucketRows([f EXCEPT !.from = from, !.to = to]))
    IN IF anchor = NULL THEN [totals |-> Stats(BucketRows(f))]
       ELSE [totals  |-> Stats(BucketRows(f)),
             current |-> Window(anchor - (Year - 1), anchor),
             prior   |-> Window(PriorEnd - (Year - 1), PriorEnd)]

-----------------------------------------------------------------------------
(* The table.                                                               *)

LatestSaleDate ==
    LET dates == {s.date : s \in {r \in sales : MarketSaleCriteria(r, FALSE, FALSE)}}
    IN IF dates = {} THEN NULL ELSE Max(dates)

Store(s) == s \notin sales /\ sales' = sales \cup {s} /\ UNCHANGED anchor

Prune(s) == s \in sales /\ sales' = sales \ {s} /\ UNCHANGED anchor

\* cached_latest_sale_date under a version it has no entry for.
ReadAnchor == anchor' = LatestSaleDate /\ UNCHANGED sales

Init == sales = {} /\ anchor = NULL

Next == ReadAnchor \/ \E s \in Sale : Store(s) \/ Prune(s)

Spec == Init /\ [][Next]_vars

-----------------------------------------------------------------------------
(* Properties.                                                              *)

WithParcels(parcels) == [from |-> AllDays.from, to |-> AllDays.to, parcels |-> parcels]

\* M is twice the median of the values: no more than half of the rows with a
\* value lie on either side, and it is midway between the values that satisfy that.
IsTwiceMedian(M, value) ==
    LET valued == Valued(value)
        Halves(v) == /\ 2 * Cardinality({s \in valued : value[s] < v}) <= Cardinality(valued)
                     /\ 2 * Cardinality({s \in valued : value[s] > v}) <= Cardinality(valued)
        middle == {v \in {value[s] : s \in valued} : Halves(v)}
    IN IF valued = {} THEN M = NULL ELSE M = Min(middle) + Max(middle)

HasMedians(m, rows) == /\ IsTwiceMedian(m.twiceMedian, Price(rows))
                       /\ IsTwiceMedian(m.twiceMedianPpsf, PricePerSqft(rows))

\* The current and the prior window of the summary are two years without gap
\* or overlap, and cut no deal in two: together they count each of the sales
\* that the totals count in those days, also when the cached newest date lags.
WindowsTile ==
    \A parcels \in SUBSET Parcel :
        LET f == WithParcels(parcels)
            both == {s \in BucketRows(f) : anchor - 2 * Year < s.date /\ s.date <= anchor}
            m == Summary(f)
        IN anchor # NULL => /\ m.current.count + m.prior.count = Cardinality(both)
                            /\ m.current.volume + m.prior.volume = Volume(both)
===============================================================================
