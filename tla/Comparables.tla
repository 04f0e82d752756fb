----------------------------- MODULE Comparables -----------------------------
(***************************************************************************)
(* Comparable sales for a parcel (src/src/services/analytics/comps.py):    *)
(* similar homes sold in the neighborhood within two years, or, where      *)
(* those are too few, within a mile.                                       *)
(***************************************************************************)
EXTENDS NeighborhoodPages

CONSTANTS
    Miles,          \* Miles[p][q], NULL if one of the parcels is not located
    Radius,
    MinComps,       \* MIN_NEIGHBORHOOD_COMPS
    SqftTolerance,  \* hundredths: 20 in the code
    YearTolerance,  \* 15 in the code
    Weight          \* points that a percent of area, a year built, a bedroom or
                    \* bathroom, a day and a mile take away,
                    \* and the points of a tenth, to which scores are rounded

ASSUME ComparablesAssumption ==
    /\ DOMAIN Miles = Parcel /\ \A p \in Parcel : Miles[p] \in [Parcel -> Nat \cup {NULL}]
    /\ Weight \in [sqft: Nat, year: Nat, room: Nat, day: Nat, mile: Nat, tenth: Nat \ {0}]
    /\ MinComps \in Nat /\ SqftTolerance \in 0 .. 100

Since == (IF anchor = NULL THEN Today ELSE anchor) - 2 * Year

FirstCard(p) == CHOOSE c \in Dwelling[p] : \A d \in Dwelling[p] : c.card <= d.card

\* A home with its summary and the style of its first card.
Home(p) ==
    LET totals == DwellingTotals(Dwelling[p])
    IN [style |-> FirstCard(p).style, sqft |-> totals.sqft, beds |-> totals.beds,
        baths |-> totals.baths, year |-> totals.year]

HasHome(p) == Area[p] \notin {NULL, 0}

Gap(a, b) == IF a = NULL \/ b = NULL THEN 0 ELSE IF a < b THEN b - a ELSE a - b

\* Bathrooms are counted in halves.
Matches(home, other) ==
    /\ home.style = other.style
    /\ Gap(home.beds, other.beds) <= 1 /\ Gap(home.baths, other.baths) <= 2
    /\ Gap(home.year, other.year) <= YearTolerance

\* Sales of the other parcels, of homes of about the size that match.
Candidates(p, parcels) ==
    {s \in MarketSaleRows(WithParcels(parcels \ {p})) :
        /\ HasHome(s.parcel) /\ s.date >= Since
        /\ 100 * Gap(Area[s.parcel], Area[p]) <= SqftTolerance * Area[p]
        /\ Matches(Home(p), Home(s.parcel))}

\* A parcel without neighborhood is compared with others without.
InNeighborhood(p) == Candidates(p, {q \in Parcel : Hood[q] = Hood[p]})

WithinRadius(p) ==
    Candidates(p, {q \in Parcel : Miles[p][q] # NULL /\ Miles[p][q] <= Radius})

Located(p) == Miles[p][p] # NULL

ByRadius(p) == Cardinality(InNeighborhood(p)) < MinComps /\ Located(p)

\* What is found within the radius takes the place of what the neighborhood had.
Found(p) == IF ByRadius(p) THEN WithinRadius(p) ELSE InNeighborhood(p)

\* How far the score is below 100, in tenths.  Distances are known only of what
\* the radius found.
Penalty(p, s) ==
    LET home == Home(p)
        other == Home(s.parcel)
        points ==
            Weight.sqft * ((100 * Gap(home.sqft, other.sqft)) \div home.sqft)
            + Weight.year * Gap(home.year, other.year)
            + Weight.room * (2 * Gap(home.beds, other.beds) + Gap(home.baths, other.baths))
            + Weight.day * (Since + 2 * Year - s.date)
            + (IF ByRadius(p) THEN Weight.mile * Miles[p][s.parcel] ELSE 0)
    IN (points + Weight.tenth \div 2) \div Weight.tenth

\* Mutant: the least similar ones.
ListedFarthest(p, limit) ==
    {L \in SUBSET Found(p) :
        /\ Cardinality(L) = Min({limit, Cardinality(Found(p))})
        /\ \A s \in L, r \in Found(p) \ L : Penalty(p, s) >= Penalty(p, r)}

\* The most similar ones, of several as similar any.
Listed(p, limit) ==
    {L \in SUBSET Found(p) :
        /\ Cardinality(L) = Min({limit, Cardinality(Found(p))})
        /\ \A s \in L, r \in Found(p) \ L : Penalty(p, s) <= Penalty(p, r)}

-----------------------------------------------------------------------------
(* Properties.                                                              *)

\* The comparables shown support the price of the parcel: each is a sale of the
\* list of market sales, of another parcel, that is in the neighborhood or within
\* the radius, and no sale of the same home is passed over that is newer than one
\* shown by more than the rounding of scores hides.
CompsAreClosest ==
    \A p \in {q \in Parcel : HasHome(q)} : \A L \in Listed(p, Limit) : \A s \in L :
        /\ s \in MarketSaleRows(WithParcels(Parcel \ {p}))
        /\ Hood[s.parcel] = Hood[p] \/ (Miles[p][s.parcel] # NULL /\ Miles[p][s.parcel] <= Radius)
        /\ \A r \in MarketSaleRows(WithParcels({s.parcel})) :
              Weight.day * (r.date - s.date) >= Weight.tenth => r \in L
==============================================================================
