--------------------------- MODULE ParcelCoordinates ---------------------------
(***************************************************************************)
(* Where a parcel's coordinates come from, and whether it is active.  The  *)
(* parcel table has three writers: sales ingestion inserts parcels it has  *)
(* not met, the monthly CAMA load (src/src/ingest/cama_ingest.py) in one   *)
(* long transaction, and the geocoder (src/src/services/geocoding.py),     *)
(* which reads a batch, asks the Census, and writes what it is told.  The  *)
(* server runs load and geocoder in turn; the geocode command, and sales   *)
(* ingestion from the command line, may run at any time beside them.       *)
(*                                                                         *)
(* The database is PostgreSQL: rows a transaction has updated stay locked  *)
(* until it ends, and rows others insert meanwhile are not among them.     *)
(***************************************************************************)
EXTENDS Integers, Sequences, FiniteSets

CONSTANTS
    Parcel,
    Export,         \* the CAMA files, in order: [listed, located] parcels
    Geocoder,       \* who may geocode: the server's loop, the command
    Server,         \* the one of Geocoder that the loop is
    BatchSize,
    NoRow           \* a parcel that is not in the table

Null == "null"
County == "county"
Census == "census"
Failed == "failed"      \* latitude 0.0

RowType == [at : {Null, County, Census, Failed}, source : {Null, County, Census},
            active : BOOLEAN]

ASSUME CoordinatesAssumption ==
    /\ NoRow \notin RowType
    /\ Export \in Seq([listed : SUBSET Parcel, located : SUBSET Parcel])
    /\ Server \in Geocoder
    /\ BatchSize \in Nat \ {0}

VARIABLES
    parcel,     \* parcel[p]: its coordinates, coord_source and is_active, or NoRow
    loaded,     \* number of CAMA files ingested
    locked,     \* parcels the CAMA transaction has updated so far
    loop,       \* which step the server's loop is at: "cama", "loading", "geocode"
    batch       \* batch[g]: parcels g has read and asked the Census about

vars == <<parcel, loaded, locked, loop, batch>>

Stored == {p \in Parcel : parcel[p] # NoRow}

-----------------------------------------------------------------------------
\* A file of sales names a parcel that is not stored yet.
InsertParcel(p) ==
    /\ parcel[p] = NoRow
    /\ parcel' = [parcel EXCEPT ![p] = [at |-> Null, source |-> Null, active |-> TRUE]]
    /\ UNCHANGED <<loaded, locked, loop, batch>>

(* The CAMA load. *)

NothingToLoad ==
    /\ loop = "cama"
    /\ loop' = "geocode"
    /\ UNCHANGED <<parcel, loaded, locked, batch>>

\* Everything starts inactive: the first statement updates every row there is.
BeginLoad ==
    /\ loop = "cama" /\ loaded < Len(Export)
    /\ loop' = "loading" /\ locked' = Stored
    /\ UNCHANGED <<parcel, loaded, batch>>

Coalesce(a, b) == IF a # Null THEN a ELSE b

Upserted(p, file) ==
    LET county == IF p \in file.located THEN County ELSE Null
        old == IF parcel[p] = NoRow THEN [at |-> Null, source |-> Null] ELSE parcel[p]
    IN [at |-> Coalesce(county, old.at), source |-> Coalesce(county, old.source),
        active |-> TRUE]

\* Mutant: a failed geocode is labelled too.
LabelledFailed(row) ==
    IF row.source = Null /\ row.at # Null THEN [row EXCEPT !.source = Census] ELSE row

\* Coordinates without a source are the Census's; 0.0 is not a coordinate.
Labelled(row) ==
    IF row.source = Null /\ row.at \notin {Null, Failed}
    THEN [row EXCEPT !.source = Census] ELSE row

\* Mutant: a parcel the file does not list is left as it is.
UnlistedKept(p) == parcel[p]

Unlisted(p) == IF p \in locked THEN [parcel[p] EXCEPT !.active = FALSE] ELSE parcel[p]

CommitLoad ==
    /\ loop = "loading"
    /\ LET file == Export[loaded + 1]
       IN parcel' = [p \in Parcel |->
                       IF p \in file.listed THEN Labelled(Upserted(p, file))
                       ELSE IF p \in Stored THEN Labelled(Unlisted(p)) ELSE NoRow]
    /\ loaded' = loaded + 1 /\ locked' = {} /\ loop' = "geocode"
    /\ UNCHANGED batch

\* A file that cannot be read, or too many bad rows: the transaction rolls back.
LoadRaises ==
    /\ loop = "loading"
    /\ locked' = {} /\ loop' = "geocode"
    /\ UNCHANGED <<parcel, loaded, batch>>

(* The geocoder. *)

\* Mutant: the loop's geocoder does not wait for its turn.
AnyTurn(g) == TRUE

Turn(g) == g = Server => loop = "geocode"

\* Mutant: parcels that failed are asked about again.
UnlocatedOrFailed == {p \in Stored : parcel[p].at \in {Null, Failed}}

Unlocated == {p \in Stored : parcel[p].at = Null}

\* SELECT ... WHERE latitude IS NULL LIMIT batch_size
ReadBatch(g) ==
    /\ Turn(g) /\ batch[g] = {}
    /\ \E read \in SUBSET Unlocated :
          /\ read # {} /\ Cardinality(read) <= BatchSize
          /\ Cardinality(read) < BatchSize => read = Unlocated
          /\ batch' = [batch EXCEPT ![g] = read]
    /\ UNCHANGED <<parcel, loaded, locked, loop>>

\* The answer locates some of the batch; the others are marked as failed.
\* The update of a row the CAMA transaction holds waits for it.
WriteBatch(g) ==
    /\ batch[g] # {} /\ batch[g] \cap locked = {}
    /\ \E matched \in SUBSET batch[g] :
          parcel' = [p \in Parcel |->
                        IF p \in batch[g]
                        THEN [parcel[p] EXCEPT !.at = IF p \in matched THEN Census ELSE Failed]
                        ELSE parcel[p]]
    /\ batch' = [batch EXCEPT ![g] = {}]
    /\ UNCHANGED <<loaded, locked, loop>>

\* No answer: the batch is dropped, and a loop of batches ends.
RequestFails(g) ==
    /\ batch[g] # {}
    /\ batch' = [batch EXCEPT ![g] = {}]
    /\ loop' = IF g = Server THEN "cama" ELSE loop
    /\ UNCHANGED <<parcel, loaded, locked>>

\* No parcel is left, or the batches of one pass are used up.
EndGeocode ==
    /\ loop = "geocode" /\ batch[Server] = {}
    /\ loop' = "cama"
    /\ UNCHANGED <<parcel, loaded, locked, batch>>

Init ==
    /\ parcel = [p \in Parcel |-> NoRow]
    /\ loaded = 0 /\ locked = {} /\ loop = "cama"
    /\ batch = [g \in Geocoder |-> {}]

Load == NothingToLoad \/ BeginLoad \/ CommitLoad \/ LoadRaises

Geocode(g) == ReadBatch(g) \/ WriteBatch(g) \/ RequestFails(g)

Next ==
    \/ \E p \in Parcel : InsertParcel(p)
    \/ Load \/ EndGeocode
    \/ \E g \in Geocoder : Geocode(g)

\* The loop runs on, loads the files, and the Census answers now and then.
Fairness ==
    /\ WF_vars(Load \/ EndGeocode) /\ SF_vars(BeginLoad) /\ SF_vars(CommitLoad)
    /\ SF_vars(ReadBatch(Server)) /\ SF_vars(WriteBatch(Server))
    /\ \A g \in Geocoder : WF_vars(Geocode(g))

Spec == Init /\ [][Next]_vars /\ Fairness

-----------------------------------------------------------------------------
(* Properties.                                                              *)

SourceIsTrue(row) == row.source # Null => row.at = row.source

\* A geocode command is told where p is, which it asked when p was not located.
LateAnswer(p) == \E g \in Geocoder \ {Server} : p \in batch[g] /\ batch'[g] = {}

\* "coord_source records which was used": a row names the source its coordinates
\* come from, when it is stored and after every step, the loop's batches beside a
\* command's included.  What may spoil it is a command's late answer.
SourceStaysTrue ==
    [][\A p \in Stored' :
          \/ SourceIsTrue(parcel'[p])
          \/ p \in Stored /\ (LateAnswer(p) \/ ~SourceIsTrue(parcel[p]))]_vars

\* The Census geocoder is a fallback: coordinates from the county, once they are
\* stored, stay, whatever later files and answers say, and whenever the loop asks.
\* Those that a command's late answer takes are back with the next file that
\* locates the parcel.
CountyPrevails ==
    [][/\ \A p \in Stored :
            parcel[p].at = County => parcel'[p].at = County \/ LateAnswer(p)
       /\ loaded' # loaded =>
            \A p \in Export[loaded'].listed \cap Export[loaded'].located :
                parcel'[p].at = County /\ SourceIsTrue(parcel'[p])]_vars

\* A load settles who is active: a parcel the file lists is, also one that was
\* retired before, and one that was stored when the load began and is not listed
\* is not, although sales add parcels while it runs.
LoadSettlesActive ==
    [][loaded' # loaded =>
          LET listed == Export[loaded'].listed
          IN /\ \A p \in listed : parcel'[p] # NoRow /\ parcel'[p].active
             /\ \A p \in locked \ listed : ~parcel'[p].active]_vars

\* Every stored parcel is located in the end, or known not to be locatable.
BacklogCleared ==
    \A p \in Parcel : p \in Stored ~> (p \in Stored /\ parcel[p].at # Null)
================================================================================
