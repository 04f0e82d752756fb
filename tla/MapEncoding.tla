----------------------------- MODULE MapEncoding -----------------------------
(***************************************************************************)
(* The file of the parcel map (src/src/derived/mapbinary.py): a header     *)
(* that says at which byte each column begins, then the columns, with a    *)
(* value in each for every mapped parcel.  Missing values, and numbers too *)
(* large for a column, are written as numbers that fit.                    *)
(*                                                                         *)
(* Of columns that are written alike there is one here.                    *)
(***************************************************************************)
EXTENDS Comparables

CONSTANTS
    Mapped,         \* the active parcels with coordinates, in the order of their ids
    Top16, Top8,    \* 65535 and 255 in the code
    Mantissa,       \* below this float32 holds every whole number: 2^24
    HeaderText      \* lengths that the header may have without its offsets

ASSUME EncodingAssumption ==
    /\ Mapped \in Seq(Parcel) /\ IsInjective(Mapped) /\ Range(Mapped) \subseteq Active
    /\ Top16 \in Nat /\ Top8 \in Nat /\ Mantissa \in Nat \ {0} /\ HeaderText \subseteq Nat

-----------------------------------------------------------------------------
(* Values.                                                                  *)

\* The nearest number that a float32 holds (of those up to twice the mantissa),
\* of two the one with the even mantissa.
Float32(v) == IF v < Mantissa \/ v % 2 = 0 THEN v ELSE IF v % 4 = 1 THEN v - 1 ELSE v + 1

\* Mutant: a number too large for the column wraps.
ClampWraps(v, top, missing) == IF v = NULL THEN missing ELSE v % (top + 1)

Clamp(v, top, missing) == IF v = NULL THEN missing ELSE Min({v, top})

Codes == SetToSeq({Hood[Mapped[i]] : i \in DOMAIN Mapped} \ {NULL})

\* Not a number is NULL.
Cells(row, hood) ==
    [last_sale_price |-> IF row.lastSale = NULL THEN NULL ELSE Float32(row.lastSale.price),
     last_sale_day   |-> IF row.lastSale = NULL THEN 0 ELSE row.lastSale.date,
     living_sqft     |-> Clamp(row.sqft, Top16, 0),
     year_built      |-> Clamp(row.year, Top16, 0),
     beds            |-> Clamp(row.beds, Top8 - 1, Top8),
     baths_x2        |-> Clamp(row.baths, Top8 - 1, Top8),
     neighborhood    |-> IF hood = NULL THEN Top16
                         ELSE CHOOSE i \in DOMAIN Codes : Codes[i] = hood]

Encoded(p) == Cells(Summaries[p], Hood[p])

-----------------------------------------------------------------------------
(* Bytes.                                                                   *)

\* Seven columns of float32, then numbers of 16 and 8 bits.
ItemSizes == <<4, 4, 4, 4, 4, 4, 4, 2, 2, 2, 1, 1, 1, 1, 2, 1, 1, 1>>

Pad4(n) == ((n + 3) \div 4) * 4

\* Where the columns, and last the ids, begin if the first begins at base.
Offsets(base) ==
    [i \in 1 .. Len(ItemSizes) + 1 |->
        base + SumOver([j \in 1 .. i - 1 |-> Pad4(ItemSizes[j] * Len(Mapped))])]

\* The least numbers of one digit, two digits and so on, up to ten.
Leasts == {0, 10, 100, 1000, 10000, 100000, 1000000, 10000000, 100000000, 1000000000}

Digits(n) == Cardinality({least \in Leasts : n >= least})

HeaderBytes(text, base) ==
    Pad4(text + SumOver([i \in DOMAIN Offsets(base) |-> Digits(Offsets(base)[i])]))

\* The header's length depends on the offsets in it: iterated until stable.
Settled(text) ==
    LET iterate[length \in Nat] ==
            LET next == HeaderBytes(text, 8 + length)
            IN IF next = length THEN length ELSE iterate[next]
    IN iterate[HeaderBytes(text, 8)]

\* The offsets in the header that is written, and the columns behind it.
HeaderOffsets(text) == Offsets(8 + Settled(text))

ColumnStarts(text) == Offsets(8 + HeaderBytes(text, 8 + Settled(text)))

-----------------------------------------------------------------------------
(* Properties.                                                              *)

HeaderIsTrue ==
    \A text \in HeaderText : /\ HeaderOffsets(text) = ColumnStarts(text)
                            /\ \A i \in DOMAIN ColumnStarts(text) : ColumnStarts(text)[i] % 4 = 0

\* The cells say what the row does.
Decodes(cell, row, hood) ==
    LET Holds(value, read, top) == value # NULL => read = value \/ (value > top /\ read = top)
    IN /\ row.beds = NULL <=> cell.beds = Top8
       /\ row.baths = NULL <=> cell.baths_x2 = Top8
       /\ Holds(row.beds, cell.beds, Top8 - 1) /\ Holds(row.baths, cell.baths_x2, Top8 - 1)
       /\ Holds(row.sqft, cell.living_sqft, Top16) /\ Holds(row.year, cell.year_built, Top16)
       /\ row.lastSale = NULL <=> cell.last_sale_day = 0
       /\ row.lastSale # NULL =>
            /\ cell.last_sale_day = row.lastSale.date
            /\ Gap(cell.last_sale_price, row.lastSale.price) * Mantissa <= row.lastSale.price
            /\ row.lastSale.price < Mantissa => cell.last_sale_price = row.lastSale.price
       /\ IF hood = NULL THEN cell.neighborhood \notin DOMAIN Codes
          ELSE Codes[cell.neighborhood] = hood

\* What a reader of the file decodes is the summary: every column begins where
\* the header says, on a multiple of four, for a header of any length; missing
\* numbers are told from those that are there, which are at most cut to the
\* largest that fits; and prices are those of the last sale, to the dollar as
\* far as a float32 goes.
MapDecodesToSummary ==
    /\ HeaderIsTrue
    /\ \A i \in DOMAIN Mapped :
        Decodes(Encoded(Mapped[i]), Summaries[Mapped[i]], Hood[Mapped[i]])
==============================================================================
