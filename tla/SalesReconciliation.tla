------------------------- MODULE SalesReconciliation -------------------------
(***************************************************************************)
(* The sales history of src/src/db/ingestors.py: how the county's repeated *)
(* snapshots of one sale become one set of stored rows.                    *)
(*                                                                         *)
(* The county publishes a sale first in a weekly ZIP (provisional) and     *)
(* then in every monthly re-export of a yearly CSV (authoritative).  One   *)
(* action below is one file: the code writes a file's parcels, upserts its *)
(* rows, prunes superseded weekly rows, fills missing neighborhoods and    *)
(* records the file in a single database transaction.  Files are ingested  *)
(* one after another here; two processes ingesting at once are the subject *)
(* of ConcurrentIngest.                                                    *)
(***************************************************************************)
EXTENDS SalesRows

CONSTANTS
    YearlyFile,     \* names of the yearly CSV files
    WeeklyFile,     \* names of the weekly ZIP files
    YearlyExport,   \* YearlyExport[f]: the contents yearly file f may be exported with
    WeeklyContent,  \* WeeklyContent[f]: the contents weekly ZIP f may have
    NotIngested     \* no DataFile row for a file name

File == YearlyFile \cup WeeklyFile

Content(f) == IF f \in YearlyFile THEN YearlyExport[f] ELSE WeeklyContent[f]

ASSUME SalesAssumption ==
    /\ YearlyFile \cap WeeklyFile = {}
    /\ \A f \in File : Content(f) \subseteq Seq(Line)
    /\ \A f \in File : NotIngested \notin Content(f)

VARIABLES
    parcels,    \* ids with a row in the parcel table
    sales,      \* rows of the transaction table
    dataFile    \* dataFile[f]: the content (hash) the DataFile row of f records

vars == <<parcels, sales, dataFile>>

-----------------------------------------------------------------------------
Reconciled(lines, source) ==
    PruneSuperseded(
        Upsert(sales, Stored(Collapsed(lines), source), source = Yearly), lines)

WriteFile(f, lines, source) ==
    /\ parcels' = parcels \cup ParcelsOf(lines)
    /\ IF Parsed(lines) = {}
       THEN UNCHANGED sales
       ELSE LET pruned == Reconciled(lines, source)
            IN \E pick \in Picks(pruned) : sales' = FillNeighborhood(pruned, pick)
    /\ dataFile' = [dataFile EXCEPT ![f] = lines]

-----------------------------------------------------------------------------
(* The handlers.  A file that is skipped, raises or cannot be read leaves   *)
(* the database as it was: these outcomes are stuttering steps here.        *)

\* The yearly file is on disk with some exported content, and that content
\* (its hash) is not the one already recorded.
IngestYearly(f) ==
    \E lines \in YearlyExport[f] :
        /\ dataFile[f] # lines
        /\ ~Raises(lines)
        /\ WriteFile(f, lines, Yearly)

\* Weekly ZIPs are tracked by name; one without a single parsed row is left
\* unrecorded.
IngestWeekly(f) ==
    \E lines \in WeeklyContent[f] :
        /\ dataFile[f] = NotIngested
        /\ ~Raises(lines)
        /\ Parsed(lines) # {}
        /\ WriteFile(f, lines, Weekly)

Init ==
    /\ parcels = {}
    /\ sales = {}
    /\ dataFile = [f \in File |-> NotIngested]

Next ==
    \/ \E f \in YearlyFile : IngestYearly(f)
    \/ \E f \in WeeklyFile : IngestWeekly(f)

Spec == Init /\ [][Next]_vars

-----------------------------------------------------------------------------
(* Properties.                                                              *)

\* The tables hold well-formed rows, every sale belongs to a stored parcel
\* (the foreign key), and a recorded content is one the file really had.
TypeOK ==
    /\ parcels \subseteq Parcel
    /\ sales \subseteq {r \in Row : r.parcel \in parcels}
    /\ dataFile \in [File -> (UNION {Content(f) : f \in File}) \cup {NotIngested}]
    /\ \A f \in File : dataFile[f] = NotIngested \/ dataFile[f] \in Content(f)

\* A provisional row never outlives the authoritative one: whatever the order
\* in which files arrive, no committed state holds a weekly row next to a
\* yearly row of the same conveyance, even when the two snapshots name
\* different sellers and so do not collide on the unique key.
NoSupersededWeekly ==
    \A r \in sales : ~Superseded(r, sales)

\* A weekly row lacks a neighborhood only while its parcel's whole history
\* does, although the history may arrive later, in a file for other dates.
NeighborhoodsFilled ==
    \A r \in sales :
        r.source = Weekly /\ r.nbhd = NULL => History(r.parcel, sales) = {}

\* The two partial unique indexes hold one row per key, so a sale is counted
\* once per seller however many files repeat it.
OneRowPerKey ==
    \A r, s \in sales : SameKey(r, s) => r = s

\* Reconciliation deletes rows, but never the last trace of a sale: every sale
\* of every recorded file still has its row, or, for a pruned weekly snapshot,
\* the yearly row of the same conveyance.
Represented(r) ==
    \E t \in sales : SameKey(r, t) \/ (t.source = Yearly /\ SameConveyance(r, t))

NoSaleLost ==
    \A f \in File : dataFile[f] # NotIngested =>
        \A i \in Parsed(dataFile[f]) : Represented(dataFile[f][i])

\* The recorded export of a yearly file is what the table shows for its sales,
\* unless another yearly file may hold the same sale: nothing ingested since
\* (a weekly file, another year's file) has changed a column of it.
SharesKey(f, r) ==
    \E g \in YearlyFile \ {f} : \E c \in YearlyExport[g] :
        \E i \in Parsed(c) : SameKey(c[i], r)

LatestExportStored ==
    \A f \in YearlyFile : dataFile[f] # NotIngested =>
        \A r \in Stored(Collapsed(dataFile[f]), Yearly) :
            SharesKey(f, r) \/ r \in sales

\* A weekly file only fills gaps: the step that records one leaves every
\* stored row in place, except that a weekly row may gain a neighborhood.
WeeklyOnlyFillsGaps ==
    [][(\E f \in WeeklyFile : dataFile'[f] # dataFile[f]) =>
          \A r \in sales : \E t \in sales' :
              /\ \/ t = r
                 \/ /\ r.source = Weekly /\ r.nbhd = NULL
                    /\ t = [r EXCEPT !.nbhd = t.nbhd]]_vars

-----------------------------------------------------------------------------
(* Refinement: the table implements SalesLedger.  A sale is a conveyance,   *)
(* or, where the county recorded no conveyance number, its whole key.       *)

SaleOf(r) ==
    IF r.conv # NULL THEN <<r.parcel, r.date, r.conv>>
                     ELSE <<r.parcel, r.date, r.price, r.seller, r.buyer>>

CountySale == {SaleOf(r) : r \in UNION {{c[i] : i \in Parsed(c)} :
                                         c \in UNION {Content(f) : f \in File}}}

Knowledge(s) ==
    IF \E r \in sales : SaleOf(r) = s /\ r.source = Yearly THEN 2
    ELSE IF \E r \in sales : SaleOf(r) = s THEN 1 ELSE 0

Ledger == INSTANCE SalesLedger
          WITH Sale <- CountySale, known <- [s \in CountySale |-> Knowledge(s)]

\* Ingestion implements the ledger: what is known of a sale only grows, from
\* unknown to provisional to authoritative, and pruning or overwriting a row
\* never takes knowledge back.
ImplementsLedger == Ledger!Spec
=============================================================================
