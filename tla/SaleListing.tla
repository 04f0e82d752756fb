----------------------------- MODULE SaleListing -----------------------------
(***************************************************************************)
(* The sales list, its pages and its export, and flips: purchases resold   *)
(* within a time at a profit (src/src/services/analytics/sales.py); sales  *)
(* far below the assessed value, and parcels long unsold (distress.py).    *)
(***************************************************************************)
EXTENDS ParcelPages

CONSTANTS
    PageSize,
    MaxHoldDays,
    MinProfitPct,   \* min_profit_pct, in hundredths
    MinAssessed,
    MaxRatioPct,    \* max_ratio, in hundredths
    MinUnsold       \* min_years of a stale parcel, in days

ASSUME ListingAssumption ==
    /\ PageSize \in Nat \ {0} /\ MaxHoldDays \in Nat /\ MinProfitPct \in Nat
    /\ MinAssessed \in Nat \ {0} /\ MaxRatioPct \in Nat /\ MinUnsold \in Nat

-----------------------------------------------------------------------------
(* The list.                                                                *)

Selected(f, marketOnly) ==
    IF marketOnly THEN MarketSaleRows(f) ELSE {s \in sales : Passes(f, s)}

\* Joined to the summaries of the parcels only when a filter reads them.
SalesCount(f, marketOnly) == Cardinality(Selected(f, marketOnly))

SortColumns ==
    [sale_date      |-> [s \in sales |-> s.date],
     sale_price     |-> Price(sales),
     price_per_sqft |-> PricePerSqft(sales),
     living_sqft    |-> [s \in sales |-> Area[s.parcel]]]

\* By the column, rows without a value last in either direction.
Precedes(column, order, r, s) ==
    \/ column[r] # NULL /\ column[s] = NULL
    \/ /\ column[r] # NULL /\ column[s] # NULL
       /\ IF order = "asc" THEN column[r] < column[s] ELSE column[r] > column[s]

\* Mutant: equal rows in any order.
OrderedUntied(column, order, r, s) == Precedes(column, order, r, s)

Ordered(column, order, r, s) ==
    \/ Precedes(column, order, r, s)
    \/ column[r] = column[s] /\ r.id > s.id

\* Numbers, counted from 0, that a row can have where only Ordered decides.
Positions(rows, column, order, s) ==
    LET before == Cardinality({r \in rows : Ordered(column, order, r, s)})
        after  == Cardinality({r \in rows : Ordered(column, order, s, r)})
    IN before .. (Cardinality(rows) - 1 - after)

\* Rows a request for a page may be answered with: LIMIT and OFFSET.
OnPage(rows, column, order, page) ==
    LET offset == (page - 1) * PageSize
    IN {s \in rows : Positions(rows, column, order, s) \cap (offset .. offset + PageSize - 1) # {}}

-----------------------------------------------------------------------------
(* Flips.                                                                   *)

\* Mutant: rows of a deal over several parcels qualify.
FlipSidesOfDeals == {s \in sales : MarketSale(s, FALSE, TRUE)}

\* Either side of a flip; foreclosures count.
FlipSides == Counted({s \in sales : MarketSale(s, FALSE, TRUE)})

Resold(b, s) ==
    /\ b.parcel = s.parcel /\ b.date < s.date
    /\ s.date - b.date <= MaxHoldDays
    /\ 100 * (s.price - b.price) >= MinProfitPct * b.price

Flips == {flip \in FlipSides \X FlipSides : Resold(flip[1], flip[2])}

-----------------------------------------------------------------------------
(* Distress.                                                                *)

\* Foreclosures count, and rows of unflagged deals.
DistressedSales ==
    {s \in sales : /\ MarketSale(s, FALSE, TRUE)
                   /\ s.value # NULL /\ s.value >= MinAssessed
                   /\ 100 * s.price <= MaxRatioPct * s.value}

\* The highest price ever paid stands for the last one.
StaleParcels ==
    LET Sales(p) == {s \in sales : s.parcel = p}
        LastDate(p) == Max({s.date : s \in Sales(p)})
    IN [p \in {q \in Sold : Today - LastDate(q) >= MinUnsold} |->
            [date |-> LastDate(p), price |-> Max({s.price : s \in Sales(p)})]]

-----------------------------------------------------------------------------
(* Properties.                                                              *)

\* Walking through the pages, in any order of the list, shows each sale on one
\* page and no other, as many as the total says, although most sales share
\* their day or price with others and many have no price per square foot.
PagesTile ==
    \A marketOnly \in BOOLEAN, order \in {"asc", "desc"} : \A sort \in DOMAIN SortColumns :
        LET rows == Selected(WithParcels(Parcel), marketOnly)
            column == SortColumns[sort]
            total == SalesCount(WithParcels(Parcel), marketOnly)
            page == [k \in 1 .. (total + PageSize - 1) \div PageSize |-> OnPage(rows, column, order, k)]
        IN /\ UNION Range(page) = rows
           /\ \A k \in DOMAIN page : Cardinality(page[k]) = Min({PageSize, total - (k - 1) * PageSize})

\* Flips, distress, the sales list and owner profiles agree.  Listed sales resold
\* in time and at a profit are a flip, unless one of them is there twice; a side
\* of a flip that is not listed is a foreclosure or is of a deal of which another
\* row is no market sale (that it is a side at all is what DealRowsExcluded
\* shows); a flip whose buyer sold, with no deed in between, is a
\* hold period of the buyer's profile; a distressed sale that is not listed is a
\* foreclosure or of a deal; and of a stale parcel no flip is younger.
FlipsAreListedResales ==
    LET listed == MarketSaleRows(WithParcels(Parcel))
        Copied(s) == \E r \in sales : r # s /\ r.parcel = s.parcel /\ SameDeal(r, s)
        OddDeal(s) == \E r \in sales : /\ r.parcel # s.parcel /\ SameDeal(r, s)
                                       /\ ~ MarketSale(r, FALSE, TRUE)
        Between(b, s) == {r \in sales : r.parcel = b.parcel /\ b.date < r.date /\ r.date < s.date}
    IN /\ \A b, s \in listed : Resold(b, s) => <<b, s>> \in Flips \/ Copied(b) \/ Copied(s)
       /\ \A flip \in Flips : \A s \in {flip[1], flip[2]} :
            s \in listed \/ s.validity = Foreclosure \/ OddDeal(s)
       /\ \A flip \in Flips :
            flip[2].seller = flip[1].buyer /\ Between(flip[1], flip[2]) = {} =>
                flip \in HoldPairs(flip[1].buyer)
       /\ \A s \in DistressedSales : s \in listed \/ s.validity = Foreclosure \/ ~ SingleParcel(s)
       /\ \A flip \in Flips : flip[1].parcel \in DOMAIN StaleParcels =>
            Today - flip[2].date >= MinUnsold

\* "Identical (date, buyer, price) across rows is one conveyance, not N sales":
\* no row of a deal over several parcels is counted as a sale, whatever the
\* filters, is a side of a flip, or the last sale of its parcel.
DealRowsExcluded ==
    \A s \in {r \in sales : ~ SingleParcel(r)} :
        /\ \A parcels \in SUBSET Parcel : s \notin BucketRows(WithParcels(parcels))
        /\ s \notin FlipSides /\ s # LastSale(s.parcel)
==============================================================================
