----------------------------- MODULE ParcelPages -----------------------------
(***************************************************************************)
(* What is shown of one parcel: the row that src/src/derived/summary.py    *)
(* keeps of it, and the profile and timeline that                          *)
(* src/src/services/analytics/parcels.py puts together for its page.       *)
(*                                                                         *)
(* The last sale and the dwelling facts are computed more than once: the   *)
(* summary ranks and sums in SQL, the profile folds rows in Python, the    *)
(* timeline has queries of its own, the sales list another rule of deals.  *)
(***************************************************************************)
EXTENDS LegacyAnalytics

CONSTANT
    Dwelling        \* Dwelling[p]: records of the dwellings on p, one for each card

SqlSum(cards, field) ==
    LET known == {c \in cards : c[field] # NULL}
    IN IF known = {} THEN NULL ELSE SumOver([c \in known |-> c[field]])

Coalesce(v) == IF v = NULL THEN 0 ELSE v

NonZero(n) == IF n = 0 THEN NULL ELSE n

-----------------------------------------------------------------------------
(* The summary.                                                             *)

\* ORDER BY coalesce(living_sqft, 0) DESC, card.
FirstRanked(cards) ==
    CHOOSE c \in cards : \A d \in cards :
        \/ Coalesce(c.sqft) > Coalesce(d.sqft)
        \/ Coalesce(c.sqft) = Coalesce(d.sqft) /\ c.card <= d.card

\* The row of a parcel without dwellings is that of the outer join.  Bathrooms,
\* counted in halves here, are kept only beside a living area.
DwellingTotals(cards) ==
    LET sqft == SqlSum(cards, "sqft")
    IN [sqft  |-> sqft,
        beds  |-> SqlSum(cards, "beds"),
        baths |-> IF sqft = NULL THEN NULL
                  ELSE 2 * Coalesce(SqlSum(cards, "full")) + Coalesce(SqlSum(cards, "half")),
        year  |-> IF cards = {} THEN NULL ELSE FirstRanked(cards).year]

ASSUME PagesAssumption ==
    /\ DOMAIN Dwelling = Parcel
    /\ \A p \in Parcel : Area[p] = DwellingTotals(Dwelling[p]).sqft
    /\ \A p \in Parcel :
        /\ IsFiniteSet(Dwelling[p])
        /\ \A c, d \in Dwelling[p] : c.card = d.card => c = d
        /\ \A c \in Dwelling[p] :
            c.card \in Int /\ {c.sqft, c.beds, c.full, c.half, c.year} \subseteq Nat \cup {NULL}

\* Mutant: every row of a deal on the parcel is counted, with foreclosures.
SummarySalesDistress(p) ==
    {s \in Counted({r \in sales : MarketSale(r, FALSE, TRUE)}) : s.parcel = p}

SummarySales(p) == {s \in Counted({r \in sales : MarketSale(r, FALSE, FALSE)}) : s.parcel = p}

\* The newest, of several the one with the highest id.
LastSale(p) ==
    IF SummarySales(p) = {} THEN NULL
    ELSE CHOOSE s \in SummarySales(p) : \A r \in SummarySales(p) :
            r.date < s.date \/ (r.date = s.date /\ r.id <= s.id)

Summaries ==
    [p \in Parcel |->
        LET totals == DwellingTotals(Dwelling[p])
        IN [lastSale |-> LastSale(p),
            ppsf |-> IF LastSale(p) = NULL THEN NULL
                     ELSE PricePerSqft({LastSale(p)})[LastSale(p)],
            sqft |-> totals.sqft, beds |-> totals.beds, baths |-> totals.baths,
            year |-> totals.year]]

-----------------------------------------------------------------------------
(* The profile.                                                             *)

Total(cards, field) == SumOver([c \in cards |-> Coalesce(c[field])])

\* max(key=(living_sqft or 0, -card)).
Primary(cards) ==
    LET largest == {c \in cards : \A d \in cards : Coalesce(d.sqft) <= Coalesce(c.sqft)}
    IN CHOOSE c \in largest : \A d \in largest : -d.card <= -c.card

Facts(cards) ==
    [sqft  |-> NonZero(Total(cards, "sqft")),
     beds  |-> NonZero(Total(cards, "beds")),
     baths |-> 2 * Total(cards, "full") + Total(cards, "half"),
     year  |-> Primary(cards).year]

-----------------------------------------------------------------------------
(* The timeline, without the county's reappraisal.                          *)

SaleEvents(p) ==
    {[sale |-> s, title |-> IF MarketSale(s, TRUE, FALSE) THEN "Sold" ELSE "Transferred"] :
        s \in {r \in sales : r.parcel = p}}

\* The largest dwelling that has a year, NULL if there is no event.
BuiltYear(cards) ==
    LET dated == {c \in cards : c.year # NULL}
    IN IF dated = {} THEN NULL ELSE FirstRanked(dated).year

-----------------------------------------------------------------------------
(* Properties.                                                              *)

\* Summary, profile and timeline agree on the dwellings of a parcel, whichever
\* of them are on record and whatever the county left empty: the same areas and
\* bedrooms, but for 0 and none; the same bathrooms wherever the summary has
\* any; the same year, which the timeline has too unless the year it has is of
\* another dwelling.
DwellingsAgree ==
    \A p \in Parcel : \A cards \in (SUBSET Dwelling[p]) \ {{}} :
        LET totals == DwellingTotals(cards)
            facts == Facts(cards)
        IN /\ facts.sqft = NonZero(totals.sqft) /\ facts.beds = NonZero(totals.beds)
           /\ totals.baths = NULL \/ totals.baths = facts.baths
           /\ totals.baths = NULL => facts.sqft = NULL
           /\ totals.year = facts.year
           /\ facts.year # NULL => BuiltYear(cards) = facts.year

\* They agree on the dwellings, and on the last sale: the one shown is one the
\* timeline marks as sold, and no listed sale of the parcel is newer, except for
\* one that is there twice with its seller corrected, which the count of the rows
\* of its deal takes for a deal over two parcels and the list does not.
PageAgreesWithSummary ==
    /\ DwellingsAgree
    /\ \A p \in Parcel :
        LET last == LastSale(p)
            Copied(s) == \E r \in sales : r # s /\ r.parcel = p /\ SameDeal(r, s)
        IN /\ last # NULL => [sale |-> last, title |-> "Sold"] \in SaleEvents(p)
           /\ \A s \in MarketSaleRows(WithParcels({p})) :
                 Copied(s) \/ (last # NULL /\ s.date <= last.date)
==============================================================================
