---------------------------- MODULE OwnerActivity ----------------------------
(***************************************************************************)
(* What src/src/services/analytics/owners.py and src/src/services/         *)
(* owner_names.py derive from the sales of an owner: the yearly activity   *)
(* and the hold periods of a profile, acquisition waves, and rankings that *)
(* merge the spellings of one name.                                        *)
(*                                                                         *)
(* Profiles are folded in Python, waves grouped in SQL; both count the     *)
(* price of a deal once, however many parcels (and rows) it has.           *)
(***************************************************************************)
EXTENDS MarketStatistics

CONSTANTS
    Owner,          \* owner names as the county spells them
    Canonical,      \* Canonical[o]: normalize_owner(o)
    CalendarYear,   \* CalendarYear[d]
    Span,           \* window_days of a wave
    MinBuys,        \* min_acquisitions
    MinNet,         \* min_net_sells
    MaxOwners,      \* _MAX_OWNERS_PER_ADDRESS
    MaxRelated,     \* related owners of a profile: 20 in the code
    Limit           \* rows of a ranking

ASSUME OwnerAssumption ==
    /\ \A s \in Sale : s.buyer \in Owner /\ s.seller \in Owner
    /\ DOMAIN Canonical = Owner /\ DOMAIN CalendarYear = Day
    /\ Span \in Nat /\ MinBuys \in Nat \ {0}
    /\ \A s \in Sale : "mail" \in DOMAIN s
    /\ MinNet \in Nat \ {0} /\ Limit \in Nat \ {0}
    /\ MaxOwners \in Nat /\ MaxRelated \in Nat \ {0}

Buys(o) == {s \in sales : s.buyer = o}
Sells(o) == {s \in sales : s.seller = o}

-----------------------------------------------------------------------------
(* Profiles.                                                                *)

\* Mutant: the deal of every row is new.
MoneyPerRow(rows) == Volume(rows)

\* One sum per deal: rows of one day and price.
Money(rows) ==
    LET deals == {<<s.date, s.price>> : s \in rows}
    IN SumOver([deal \in deals |-> deal[2]])

Activity(o) ==
    LET InYear(rows, y) == {s \in rows : CalendarYear[s.date] = y}
    IN [y \in {CalendarYear[s.date] : s \in Buys(o) \cup Sells(o)} |->
          [bought   |-> Cardinality(InYear(Buys(o), y)),
           sold     |-> Cardinality(InYear(Sells(o), y)),
           spent    |-> Money(InYear(Buys(o), y)),
           received |-> Money(InYear(Sells(o), y))]]

-----------------------------------------------------------------------------
(* Acquisition waves.                                                       *)

Deals(o) ==
    {[date |-> d[1], price |-> d[2],
      parcels |-> Cardinality({s \in Buys(o) : s.date = d[1] /\ s.price = d[2]})] :
        d \in {<<s.date, s.price>> : s \in Buys(o)}}

\* Mutant: the last day is left out.
InWindowExclusive(start, date) == start <= date /\ date < start + Span

InWindow(start, date) == start <= date /\ date <= start + Span

\* A window from each day on which the owner bought.
Windows(o) ==
    LET Within(start) == {deal \in Deals(o) : InWindow(start, deal.date)}
    IN {[start |-> start,
         count |-> SumOver([deal \in Within(start) |-> deal.parcels]),
         spent |-> SumOver([deal \in Within(start) |-> deal.price])] :
            start \in {s.date : s \in Buys(o)}}

Qualifying(o) == {w \in Windows(o) : w.count >= MinBuys}

\* The biggest window, the earliest of those.
Waves(o) ==
    {w \in Qualifying(o) : \A v \in Qualifying(o) :
        v.count < w.count \/ (v.count = w.count /\ v.start >= w.start)}

-----------------------------------------------------------------------------
(* Hold periods: each sale with the owner's latest prior purchase.          *)

HoldPairs(o) ==
    {pair \in Buys(o) \X Sells(o) :
        LET b == pair[1] s == pair[2]
        IN /\ b.parcel = s.parcel /\ b.date < s.date
           /\ \A c \in Buys(o) : c.parcel = s.parcel /\ c.date < s.date => c.date <= b.date}

-----------------------------------------------------------------------------
(* Related owners: buyers under a mailing address that few others share.    *)

Addresses(o) == {s.mail : s \in Buys(o)} \ {NULL}

BuyersAt(mail) == {p \in Owner : mail \in Addresses(p)}

SharedAddresses(o, p) ==
    {m \in Addresses(o) \cap Addresses(p) : Cardinality(BuyersAt(m) \ {o}) <= MaxOwners}

Sharing(o) == {p \in Owner \ {o} : SharedAddresses(o, p) # {}}

\* transaction_count: the most purchases of p under one of those addresses.
SharedPurchases(o, p) ==
    Max({Cardinality({s \in Buys(p) : s.mail = m}) : m \in SharedAddresses(o, p)})

\* Those with most purchases, of several with as many any.
RelatedOwners(o) ==
    {H \in SUBSET Sharing(o) :
        /\ Cardinality(H) = Min({MaxRelated, Cardinality(Sharing(o))})
        /\ \A p \in H, q \in Sharing(o) \ H : SharedPurchases(o, p) >= SharedPurchases(o, q)}

-----------------------------------------------------------------------------
(* Rankings: what is counted for each spelling of a name.                   *)

OfMarketSales(rows) == Cardinality({s \in rows : MarketSale(s, TRUE, FALSE)})

TopBuyers == [o \in {p \in Owner : OfMarketSales(Buys(p)) > 0} |-> OfMarketSales(Buys(o))]
TopSellers == [o \in {p \in Owner : OfMarketSales(Sells(p)) > 0} |-> OfMarketSales(Sells(o))]

NetSells(o) == Cardinality(Sells(o)) - Cardinality(Buys(o))
NetSellers == [o \in {p \in Owner : Sells(p) # {} /\ NetSells(p) >= MinNet} |-> NetSells(o)]

FetchSize == 3 * Limit

\* ORDER BY count DESC LIMIT: which of several equals are fetched is open.
Fetches(ranking) ==
    {F \in SUBSET DOMAIN ranking :
        /\ Cardinality(F) = Min({FetchSize, Cardinality(DOMAIN ranking)})
        /\ \A o \in F, p \in DOMAIN ranking \ F : ranking[o] >= ranking[p]}

Merged(ranking, F) ==
    [e \in {Canonical[o] : o \in F} |->
        SumOver([o \in {p \in F : Canonical[p] = e} |-> ranking[o]])]

\* Mutant: the first rows are returned as they are met, unsorted.
HeadsUnsorted(merged) ==
    {H \in SUBSET DOMAIN merged : Cardinality(H) = Min({Limit, Cardinality(DOMAIN merged)})}

\* The entities returned: the first of the merged ones by their counts.
Heads(merged) ==
    {H \in SUBSET DOMAIN merged :
        /\ Cardinality(H) = Min({Limit, Cardinality(DOMAIN merged)})
        /\ \A e \in H, g \in DOMAIN merged \ H : merged[e] >= merged[g]}

-----------------------------------------------------------------------------
(* Properties.                                                              *)

\* The wave that is reported for an owner is the busiest stretch of Span days
\* there is, although only windows that begin with a purchase are looked at, and
\* an owner with enough purchases in some stretch is not missed.
WaveIsBusiest ==
    \A o \in Owner : \A d \in Day :
        LET bought == Cardinality({s \in Buys(o) : d <= s.date /\ s.date <= d + Span})
        IN bought >= MinBuys => \E w \in Waves(o) : w.count >= bought
==============================================================================
