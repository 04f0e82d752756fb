--------------------------- MODULE MCSalesAnalytics ---------------------------
EXTENDS MapEncoding, Search

S(id, parcel, date, price, seller, buyer, validity, value, hood, mail) ==
    [id |-> id, parcel |-> parcel, date |-> date, price |-> price, seller |-> seller,
     buyer |-> buyer, validity |-> validity, value |-> value, hood |-> hood, mail |-> mail]

\* Two deals over two parcels, one of them with a row that is too cheap for its
\* parcel; a parcel bought twice by one owner; two spellings (b1, b2) of a name;
\* transfers without a market price; a sale that is there twice, with its seller
\* corrected.
MCSale == {
    S(1, "p1", 1, 8, "x", "a", NULL, NULL, NULL, "m1"),
    S(2, "p2", 1, 8, "x", "a", "ok", 90, "h1", NULL),
    S(3, "p1", 4, 12, "a", "b1", "foreclosure", 40, NULL, "m2"),
    S(4, "p1", 6, 4, "b1", "a", "ok", 40, "h1", "m1"),
    S(5, "p3", 5, 12, "x", "b1", NULL, NULL, "h1", "m1"),
    S(6, "p2", 9, 8, "b2", "d", NULL, NULL, "h1", "m1"),
    S(7, "p3", 8, 4, "b1", "a", "ok", 40, "h1", NULL),
    S(8, "p1", 9, 20, "a", "c", "multi", NULL, NULL, "m1"),
    S(9, "p3", 9, 8, "a", "d", "ok", NULL, "h1", "m2"),
    S(10, "p3", 9, 8, "b1", "d", "ok", NULL, NULL, "m2")}

MCNonMarket == {"foreclosure", "related"}
MCMultiParcel == {"multi"}
MCArea == [p1 |-> 4, p2 |-> NULL, p3 |-> 2]
MCHood == [p1 |-> "h1", p2 |-> "h2", p3 |-> "h1"]
MCPeriod == [d \in 1 .. 9 |-> (d - 1) \div 5]
MCCalendarYear == [d \in 1 .. 9 |-> (d - 1) \div 4]
MCOwner == {"a", "b1", "b2", "c", "d", "x"}
MCCanonical == [o \in MCOwner |-> IF o \in {"b1", "b2"} THEN "b" ELSE o]

D(card, sqft, beds, full, half, year, style) ==
    [card |-> card, sqft |-> sqft, beds |-> beds, full |-> full, half |-> half,
     year |-> year, style |-> style]

MCDwelling == [
    p1 |-> {D(1, 1, 1, 1, NULL, NULL, "ranch"), D(2, 3, 3, NULL, 1, 40, "split"),
            D(4, NULL, NULL, 1, 1, 60, "ranch")},
    p2 |-> {D(1, NULL, 2, 1, 0, 30, "split"), D(3, NULL, NULL, NULL, NULL, NULL, "split")},
    p3 |-> {D(1, 0, NULL, NULL, NULL, 20, "ranch"), D(2, 2, 5, 2, NULL, 60, "ranch")}]

\* p3 is not located.
MCMiles == [p \in {"p1", "p2", "p3"} |-> [q \in {"p1", "p2", "p3"} |->
                IF "p3" \in {p, q} THEN NULL ELSE IF p = q THEN 0 ELSE 1]]
MCWeight == [sqft |-> 0, year |-> 1, room |-> 5, day |-> 1, mile |-> 10, tenth |-> 2]
MCMapped == <<"p1", "p2">>
MCHeaderText == {900, 947, 950, 980}

\* Characters: 0 is a space, 1 and 2 are digits, 7 is the last letter.  p1 is in
\* "E ST", where the direction is the name; p2 and p3 are in one street, p2 with a
\* direction, p3 with a letter behind the number.  c has no letters in the name.
MCE == <<4>>
MCST == <<5, 6>>
MCDirection == {MCE}
MCSuffix == {MCST}
MCAddress == [
    p1 |-> <<<<1, 2>>, MCE, MCST>>,
    p2 |-> <<<<1>>, MCE, <<5, 6, 7>>, MCST>>,
    p3 |-> <<<<2, 4>>, <<5, 6, 7>>, MCST>>]
MCName == [a |-> <<<<7, 7>>, <<4, 5>>>>, b1 |-> <<<<7, 7>>>>, b2 |-> <<<<7, 7>>, <<4>>>>,
           c |-> <<>>, d |-> <<<<6, 7, 7>>, <<5>>>>, x |-> <<<<6, 7>>>>]
MCNameOrder == [a |-> 1, b1 |-> 2, b2 |-> 3, c |-> 4, d |-> 5, x |-> 6]
MCTaxOwner == [p1 |-> "x", p2 |-> NULL, p3 |-> "d"]
==============================================================================
