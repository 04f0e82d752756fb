------------------------------ MODULE SalesRows ------------------------------
(***************************************************************************)
(* The rows of the transaction table, their identity, and the statements   *)
(* with which src/src/db/ingestors.py stores one file, each from the table *)
(* it finds to the table it leaves.                                        *)
(*                                                                         *)
(* A row keeps the columns reconciliation looks at (the two keys, the      *)
(* source, the neighborhood) and, in buyer, a column a re-export corrects; *)
(* the remaining columns behave as buyer does.  A blank neighborhood in a  *)
(* yearly file is stored as the empty string: it is a code like the others *)
(* here.  NULL is what weekly files, which lack the column, leave behind.  *)
(***************************************************************************)
EXTENDS Integers, Sequences

CONSTANTS
    Parcel,     \* parcel ids
    Date,       \* sale dates, as day numbers
    Conv,       \* conveyance numbers
    Owner,      \* owner names, as sellers and buyers
    Price,      \* sale prices
    Nbhd,       \* neighborhood codes
    NULL,       \* SQL NULL
    Malformed,  \* a CSV line whose conversion fails: skipped with a warning
    Ragged      \* a CSV line with too few or too many fields: raises

Weekly == "weekly"
Yearly == "yearly"

Row == [parcel: Parcel, date: Date, conv: Conv \cup {NULL}, price: Price,
        seller: Owner, buyer: Owner, nbhd: Nbhd \cup {NULL},
        source: {Weekly, Yearly}]

\* A parsed Transaction carries the model's default source until it is stored.
Line == {r \in Row : r.source = Weekly} \cup {Malformed, Ragged}

ASSUME RowsAssumption ==
    /\ Date \subseteq Int
    /\ NULL \notin Conv \cup Nbhd
    /\ Malformed \notin Row /\ Ragged \notin Row

-----------------------------------------------------------------------------
(* Identity of a row: the two partial unique indexes of the table.          *)

SameConveyance(r, s) ==
    /\ r.parcel = s.parcel
    /\ r.date = s.date
    /\ r.conv # NULL
    /\ r.conv = s.conv

SameLegacy(r, s) ==
    /\ r.parcel = s.parcel
    /\ r.date = s.date
    /\ r.conv = NULL /\ s.conv = NULL
    /\ r.price = s.price
    /\ r.buyer = s.buyer

SameKey(r, s) ==
    /\ r.seller = s.seller
    /\ SameConveyance(r, s) \/ SameLegacy(r, s)

-----------------------------------------------------------------------------
(* The statements of one file's transaction.                                *)

\* Positions of the lines that parse; a malformed line is dropped.
Parsed(lines) == {i \in DOMAIN lines : lines[i] \notin {Malformed, Ragged}}

\* A ragged line makes DictReader yield None, and strip() raises outside the
\* row's try block: the file is not ingested at all.
Raises(lines) == \E i \in DOMAIN lines : lines[i] = Ragged

ParcelsOf(lines) == {lines[i].parcel : i \in Parsed(lines)}

\* Mutant: repeats within the file are kept.
CollapsedNothing(lines) == {lines[i] : i \in Parsed(lines)}

\* Repeats within the file collapse to the last one.
Collapsed(lines) ==
    {lines[i] : i \in {k \in Parsed(lines) :
                          \A j \in Parsed(lines) :
                             j > k => ~SameKey(lines[j], lines[k])}}

Stored(rows, source) == {[r EXCEPT !.source = source] : r \in rows}

\* Mutants: yearly rows yield too; weekly rows replace too.
UpsertNeverOverwrites(table, rows, overwrite) ==
    table \cup {r \in rows : \A t \in table : ~SameKey(r, t)}

UpsertAlwaysOverwrites(table, rows, overwrite) ==
    {t \in table : \A r \in rows : ~SameKey(r, t)} \cup rows

\* Yearly rows replace the row that has their key, weekly rows yield to it.
Upsert(table, rows, overwrite) ==
    IF overwrite
    THEN {t \in table : \A r \in rows : ~SameKey(r, t)} \cup rows
    ELSE table \cup {r \in rows : \A t \in table : ~SameKey(r, t)}

\* Mutant: the last day of the file is left out.
InDateRangeExclusive(d, lines) ==
    \E i, j \in Parsed(lines) : lines[i].date <= d /\ d < lines[j].date

\* BETWEEN the earliest and the latest sale date of the file.
InDateRange(d, lines) ==
    \E i, j \in Parsed(lines) : lines[i].date <= d /\ d <= lines[j].date

\* Mutant: the yearly row itself is taken to be superseded.
SupersededBySelf(r, table) ==
    \E y \in table : y.source = Yearly /\ SameConveyance(r, y)

Superseded(r, table) ==
    /\ r.source = Weekly
    /\ \E y \in table : y.source = Yearly /\ SameConveyance(r, y)

\* Mutant: every weekly row of the period is taken to be superseded.
PruneAllWeekly(table, lines) ==
    {r \in table : ~(r.source = Weekly /\ r.conv # NULL /\ InDateRange(r.date, lines))}

PruneSuperseded(table, lines) ==
    {r \in table : ~(Superseded(r, table) /\ InDateRange(r.date, lines))}

History(p, table) == {h \in table : h.parcel = p /\ h.nbhd # NULL}

\* ORDER BY sale_date DESC LIMIT 1: any of the newest rows may be returned.
NewestNbhd(p, table) ==
    {h.nbhd : h \in {g \in History(p, table) :
                        \A k \in History(p, table) : k.date <= g.date}}

\* Mutant: pre-2003 rows, which have no conveyance number, are left out.
FilledNumberedOnly(r, table, pick) ==
    [r EXCEPT !.nbhd = IF /\ r.nbhd = NULL /\ r.source = Weekly /\ r.conv # NULL
                          /\ History(r.parcel, table) # {}
                       THEN pick[r.parcel] ELSE r.nbhd]

\* A weekly row without a neighborhood borrows the one picked for its parcel.
Filled(r, table, pick) ==
    [r EXCEPT !.nbhd = IF /\ r.nbhd = NULL /\ r.source = Weekly
                          /\ History(r.parcel, table) # {}
                       THEN pick[r.parcel] ELSE r.nbhd]

FillNeighborhood(table, pick) == {Filled(r, table, pick) : r \in table}

Picks(table) ==
    {pick \in [Parcel -> Nbhd] :
        \A p \in Parcel : History(p, table) # {} => pick[p] \in NewestNbhd(p, table)}
=============================================================================
