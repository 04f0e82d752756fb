-------------------------------- MODULE Search --------------------------------
(***************************************************************************)
(* What the search box finds (src/src/services/analytics/search.py, keys   *)
(* from src/src/county/text.py), and the owners it leads to: the index of  *)
(* owners (src/src/derived/summary.py), an owner's page and the largest    *)
(* portfolios (src/src/services/analytics/owners.py).                      *)
(*                                                                         *)
(* A prefix is looked for as a range, so that an index serves it.  Texts   *)
(* are normalized: words of characters, and characters are numbers in byte *)
(* order.  Parcel ids are looked for in the same way as addresses.         *)
(***************************************************************************)
EXTENDS NeighborhoodPages

CONSTANTS
    Address,        \* Address[p]: its words, none if p has no address
    Name,           \* Name[o]: the words of the owner's name, none if it has no letters
    TaxOwner,       \* TaxOwner[p]: the owner in the tax roll, or NULL
    Space, Digit,   \* characters
    Direction,      \* words
    Suffix,         \* words that end the name of a street
    NameOrder,      \* NameOrder[o]: the place of the owner's name among all names
    HitLimit

ASSUME SearchAssumption ==
    /\ DOMAIN Address = Parcel /\ DOMAIN TaxOwner = Parcel /\ IsFiniteSet(Parcel)
    /\ NameOrder \in [Owner -> Nat] /\ IsInjective(NameOrder)
    /\ DOMAIN Name = Owner /\ NULL \notin Owner /\ Range(TaxOwner) \subseteq Owner \cup {NULL}
    /\ Space \in Nat /\ Digit \subseteq Nat /\ HitLimit \in Nat \ {0}
    /\ Range(Address) \cup Range(Name) \subseteq Seq(Seq(Nat))
    /\ \A words \in Range(Address) \cup Range(Name) \cup {<<w>> : w \in Direction \cup Suffix} :
        \A i \in DOMAIN words : words[i] # <<>> /\ \A c \in Range(words[i]) : c > Space

-----------------------------------------------------------------------------
(* Keys and ranges.                                                         *)

Text(words) ==
    FlattenSeq([i \in DOMAIN words |-> IF i = 1 THEN words[i] ELSE <<Space>> \o words[i]])

\* Digits, perhaps with a letter behind them.
HouseNumber(word) == \A i \in DOMAIN word : word[i] \in Digit \/ (i > 1 /\ i = Len(word))

Numberless(words) ==
    IF Len(words) > 1 /\ HouseNumber(words[1]) THEN Tail(words) ELSE words

\* "E MAIN ST" has a direction, in "E ST" it is the name.
Directed(street) ==
    Len(street) >= 2 /\ street[1] \in Direction /\ ~ (Len(street) = 2 /\ street[2] \in Suffix)

StreetKey(words) ==
    IF Directed(Numberless(words)) THEN Tail(Numberless(words)) ELSE Numberless(words)

Below(s, t) ==
    \E i \in DOMAIN t : /\ \A j \in 1 .. i - 1 : j <= Len(s) /\ s[j] = t[j]
                        /\ i > Len(s) \/ s[i] < t[i]

\* Mutant: the first character is counted up.
FirstCountedUp(prefix) == [prefix EXCEPT ![1] = @ + 1]

UpperBound(prefix) == [prefix EXCEPT ![Len(prefix)] = @ + 1]

InPrefix(key, prefix) == ~ Below(key, prefix) /\ Below(key, UpperBound(prefix))

-----------------------------------------------------------------------------
(* Addresses.                                                               *)

AddressHits(query) ==
    {p \in Parcel : \/ InPrefix(Text(Address[p]), Text(query))
                    \/ InPrefix(Text(StreetKey(Address[p])), Text(StreetKey(query)))}

\* Active parcels first, then in the order of the addresses.
ListedBefore(p, q) ==
    IF (p \in Active) # (q \in Active) THEN p \in Active
    ELSE Below(Text(Address[p]), Text(Address[q]))

\* Limited; of several with one address any.
FirstAddresses(query) ==
    {H \in SUBSET AddressHits(query) :
        /\ Cardinality(H) = Min({HitLimit, Cardinality(AddressHits(query))})
        /\ \A p \in H, q \in AddressHits(query) \ H : ~ ListedBefore(q, p)}

-----------------------------------------------------------------------------
(* Owners.                                                                  *)

PortfolioOf(o) == {p \in Active : TaxOwner[p] = o}

\* Present owners by the tax roll and past ones by the sales.
OwnerIndex ==
    [o \in {n \in Owner : /\ Name[n] # <<>>
                          /\ PortfolioOf(n) # {} \/ n \in {s.buyer : s \in sales}} |->
        Cardinality(PortfolioOf(o))]

OwnerMatches(query) == {o \in DOMAIN OwnerIndex : InPrefix(Text(Name[o]), Text(query))}

\* Large holders first, then by name.
HoldsMore(o, n) ==
    \/ Cardinality(PortfolioOf(o)) > Cardinality(PortfolioOf(n))
    \/ Cardinality(PortfolioOf(o)) = Cardinality(PortfolioOf(n)) /\ NameOrder[o] < NameOrder[n]

OwnerHits(query) ==
    LET matches == OwnerMatches(query)
    IN {o \in matches : Cardinality({n \in matches : HoldsMore(n, o)}) < HitLimit}

OwnerDetail(o) == [holdings |-> PortfolioOf(o), buys |-> Buys(o), sells |-> Sells(o)]

NotFound(detail) == detail.holdings = {} /\ detail.buys = {} /\ detail.sells = {}

\* The largest portfolios, of several as large any.
Portfolios ==
    LET present == {TaxOwner[p] : p \in Active} \ {NULL}
    IN {H \in SUBSET present :
            /\ Cardinality(H) = Min({Limit, Cardinality(present)})
            /\ \A o \in H, n \in present \ H :
                Cardinality(PortfolioOf(o)) >= Cardinality(PortfolioOf(n))}

-----------------------------------------------------------------------------
(* Properties.                                                              *)

\* What may have been typed on the way to the words.
Beginnings(words) ==
    {query \in UNION {{SubSeq(words, 1, k - 1) \o <<SubSeq(words[k], 1, n)>> : n \in 1 .. Len(words[k])} :
                        k \in DOMAIN words} : Len(Text(query)) >= 2}

\* Typing on towards an address, with its number or without, keeps finding it
\* from the second character on, except while what is typed of the street has a
\* direction and the street has not, or the other way round; and whatever is
\* found begins with what was typed, or its street does.  A whole address is among
\* those listed, unless others of its street come first or, if its own parcel is
\* no longer active, active ones.
AddressesFound ==
    \A p \in Parcel : \A query \in Beginnings(Address[p]) \cup Beginnings(Numberless(Address[p])) :
        LET whole == query \in Beginnings(Address[p])
            agrees == /\ Numberless(query) = query
                      /\ Directed(query) = Directed(Numberless(Address[p]))
            OnStreet(q) == IsPrefix(Text(StreetKey(query)), Text(StreetKey(Address[q])))
        IN /\ StreetKey(query) # <<>>
           /\ whole \/ agrees => p \in AddressHits(query)
           /\ \A q \in AddressHits(query) : IsPrefix(Text(query), Text(Address[q])) \/ OnStreet(q)
           /\ query = Address[p] => \A H \in FirstAddresses(query) :
                p \in H \/ HitLimit <= Cardinality({q \in AddressHits(query) \ {p} :
                                    OnStreet(q) \/ (q \in Active /\ p \notin Active)})

\* Typing on towards the name of an owner brings it up and keeps it: under each
\* beginning the owner is listed, unless as many as are listed have names that
\* begin so too and at least as many parcels, and once listed stays so.
OwnersFound ==
    \A o \in DOMAIN OwnerIndex : \A query \in Beginnings(Name[o]) :
        LET others == {n \in DOMAIN OwnerIndex \ {o} : /\ IsPrefix(Text(query), Text(Name[n]))
                                                      /\ OwnerIndex[n] >= OwnerIndex[o]}
        IN /\ o \in OwnerHits(query) \/ HitLimit <= Cardinality(others)
           /\ o \in OwnerHits(query) =>
                \A longer \in Beginnings(Name[o]) :
                    IsPrefix(Text(query), Text(longer)) => o \in OwnerHits(longer)

\* The search finds addresses and owners as above: the page of an owner in the
\* index exists, with as many parcels as the index says; and no portfolio listed
\* is smaller than that of an owner in the index who is not.
SearchFinds ==
    /\ AddressesFound /\ OwnersFound
    /\ \A o \in DOMAIN OwnerIndex :
        /\ ~ NotFound(OwnerDetail(o))
        /\ OwnerIndex[o] = Cardinality(OwnerDetail(o).holdings)
        /\ \A H \in Portfolios : \A n \in H :
            o \in H \/ Cardinality(OwnerDetail(n).holdings) >= OwnerIndex[o]
===============================================================================
