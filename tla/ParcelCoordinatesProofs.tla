------------------------ MODULE ParcelCoordinatesProofs ------------------------
(***************************************************************************)
(* Theorems about ParcelCoordinates for any parcels, files and batches,    *)
(* and whoever geocodes: the server's loop alone, or with commands that    *)
(* read and answer at any time, across loads and across the loop's own     *)
(* batches.                                                                *)
(***************************************************************************)
EXTENDS ParcelCoordinates, TLAPS, SequenceTheorems

TypeOK ==
    /\ parcel \in [Parcel -> RowType \cup {NoRow}]
    /\ loaded \in 0 .. Len(Export)
    /\ locked \subseteq Stored
    /\ loop \in {"cama", "loading", "geocode"}
    /\ loop = "loading" => loaded < Len(Export)
    /\ batch \in [Geocoder -> SUBSET Stored]

\* The loop's batch is read and written between two loads.  A command may locate
\* its parcels meanwhile, but nobody labels them and the county does not.
BatchUnlabelled ==
    batch[Server] # {} =>
        /\ loop = "geocode"
        /\ \A p \in batch[Server] : parcel[p].at # County /\ parcel[p].source = Null

\* Coordinates from the county are labelled so, and no coordinates are not labelled.
RowLabelled(row) ==
    /\ row.at = County => row.source = County
    /\ row.at = Null => row.source = Null

RowsLabelled == \A p \in Stored : RowLabelled(parcel[p])

IInv == TypeOK /\ BatchUnlabelled /\ RowsLabelled

-----------------------------------------------------------------------------
(* The statements of a load.                                                *)

LEMMA NextExport ==
    ASSUME TypeOK, loop = "loading"
    PROVE  Export[loaded + 1].listed \subseteq Parcel
<1>1. loaded + 1 \in 1 .. Len(Export)
  BY CoordinatesAssumption, LenProperties DEF TypeOK
<1>2. Export[loaded + 1] \in [listed : SUBSET Parcel, located : SUBSET Parcel]
  BY <1>1, CoordinatesAssumption, ElementOfSeq
<1> QED BY <1>2

LEMMA UpsertedRow ==
    ASSUME TypeOK, NEW p \in Parcel, NEW file
    PROVE  LET old == parcel[p]
               new == Upserted(p, file)
           IN /\ new \in RowType /\ new.active
              /\ \/ new.at = County /\ new.source = County
                 \/ old = NoRow /\ new.at = Null /\ new.source = Null
                 \/ old # NoRow /\ new.at = old.at /\ new.source = old.source
              /\ p \in file.located => new.at = County /\ new.source = County
<1>1. parcel[p] = NoRow \/ parcel[p] \in RowType
  BY DEF TypeOK
<1>2. CASE p \in file.located
  BY <1>1, <1>2 DEF Upserted, RowType, Coalesce, County, Null
<1>3. CASE p \notin file.located
  BY <1>1, <1>3 DEF Upserted, RowType, Coalesce, County, Null
<1> QED BY <1>2, <1>3

LEMMA LabelledRow ==
    ASSUME NEW row \in RowType
    PROVE  LET new == Labelled(row)
           IN /\ new \in RowType /\ new.active = row.active /\ new.at = row.at
              /\ \/ new.source = row.source
                 \/ row.source = Null /\ row.at \in {County, Census} /\ new.source = Census
BY DEF Labelled, RowType, Null, County, Census, Failed

LEMMA UnlistedRow ==
    ASSUME TypeOK, NEW p \in Stored
    PROVE  LET new == Unlisted(p)
           IN /\ new \in RowType /\ new.at = parcel[p].at /\ new.source = parcel[p].source
              /\ p \in locked => ~new.active
<1>1. parcel[p] \in RowType
  BY DEF TypeOK, Stored
<1> QED BY <1>1 DEF Unlisted, RowType

\* What the load leaves of a parcel, before coordinates without a source are
\* labelled.
LEMMA LoadedRow ==
    ASSUME TypeOK, CommitLoad, NEW p \in Parcel
    PROVE  LET listed == Export[loaded + 1].listed IN
           \/ parcel'[p] = NoRow /\ p \notin Stored /\ p \notin listed
           \/ \E row \in RowType :
                 /\ parcel'[p] = Labelled(row)
                 /\ p \in listed => row.active
                 /\ p \in locked \ listed => ~row.active
                 /\ p \in listed \cap Export[loaded + 1].located =>
                       row.at = County /\ row.source = County
                 /\ \/ row.at = County /\ row.source = County
                    \/ p \notin Stored /\ row.at = Null /\ row.source = Null
                    \/ p \in Stored /\ row.at = parcel[p].at /\ row.source = parcel[p].source
<1> DEFINE file == Export[loaded + 1]
<1>1. parcel'[p] = IF p \in file.listed THEN Labelled(Upserted(p, file))
                   ELSE IF p \in Stored THEN Labelled(Unlisted(p)) ELSE NoRow
  BY DEF CommitLoad
<1>2. CASE p \in file.listed
  BY <1>1, <1>2, UpsertedRow DEF Stored
<1>3. CASE p \notin file.listed /\ p \in Stored
  BY <1>1, <1>3, UnlistedRow
<1>4. CASE p \notin file.listed /\ p \notin Stored
  BY <1>1, <1>4
<1> QED BY <1>2, <1>3, <1>4

-----------------------------------------------------------------------------
(* Steps, whoever geocodes.                                                 *)

\* Rows are never deleted.
LEMMA StoredStays ==
    ASSUME TypeOK, [Next]_vars
    PROVE  /\ parcel' \in [Parcel -> RowType \cup {NoRow}]
           /\ Stored \subseteq Stored'
<1> DEFINE Goal == /\ parcel' \in [Parcel -> RowType \cup {NoRow}]
                   /\ Stored \subseteq Stored'
<1>1. ASSUME NEW p \in Parcel, InsertParcel(p) PROVE Goal
  BY <1>1, CoordinatesAssumption DEF InsertParcel, TypeOK, RowType, Stored
<1>2. CASE CommitLoad
  <2>1. \A p \in Parcel : parcel'[p] \in RowType \/ (parcel'[p] = NoRow /\ p \notin Stored)
    BY <1>2, LoadedRow, LabelledRow
  <2>2. parcel' = [p \in Parcel |-> parcel'[p]]
    BY <1>2 DEF CommitLoad
  <2> QED BY <2>1, <2>2, CoordinatesAssumption DEF Stored
<1>3. ASSUME NEW g \in Geocoder, WriteBatch(g) PROVE Goal
  <2>1. PICK matched \in SUBSET batch[g] :
           parcel' = [p \in Parcel |->
                        IF p \in batch[g]
                        THEN [parcel[p] EXCEPT !.at = IF p \in matched THEN Census ELSE Failed]
                        ELSE parcel[p]]
    BY <1>3 DEF WriteBatch
  <2>2. \A p \in batch[g] : p \in Stored /\ parcel[p] \in RowType
    BY DEF TypeOK, Stored
  <2>3. \A p \in batch[g] : parcel'[p] \in RowType
    BY <2>1, <2>2 DEF Stored, RowType
  <2>4. \A p \in Parcel \ batch[g] : parcel'[p] = parcel[p]
    BY <2>1
  <2> QED BY <2>1, <2>2, <2>3, <2>4, CoordinatesAssumption DEF Stored, TypeOK
<1>4. CASE UNCHANGED parcel
  BY <1>4 DEF TypeOK, Stored
<1> QED BY <1>1, <1>2, <1>3, <1>4 DEF Next, vars, Load, Geocode, NothingToLoad, BeginLoad,
           LoadRaises, ReadBatch, RequestFails, EndGeocode

LEMMA TypeStep == ASSUME TypeOK, [Next]_vars PROVE TypeOK'
<1>1. /\ parcel' \in [Parcel -> RowType \cup {NoRow}]
      /\ Stored \subseteq Stored'
  BY StoredStays
<1>2. /\ loaded' \in 0 .. Len(Export) /\ loop' \in {"cama", "loading", "geocode"}
      /\ loop' = "loading" => loaded' < Len(Export)
  <2>1. Len(Export) \in Nat
    BY CoordinatesAssumption, LenProperties
  <2>2. CASE BeginLoad \/ CommitLoad
    BY <2>1, <2>2 DEF TypeOK, BeginLoad, CommitLoad
  <2>3. CASE UNCHANGED <<loaded, loop>>
    BY <2>3 DEF TypeOK
  <2>4. CASE UNCHANGED loaded /\ loop' \in {"cama", "geocode"}
    BY <2>4 DEF TypeOK
  <2> QED BY <2>2, <2>3, <2>4 DEF Next, vars, Load, Geocode, NothingToLoad, LoadRaises,
             InsertParcel, ReadBatch, WriteBatch, RequestFails, EndGeocode
<1>3. locked' \subseteq Stored'
  BY <1>1 DEF TypeOK, Next, vars, Load, Geocode, NothingToLoad, BeginLoad, CommitLoad, LoadRaises,
          InsertParcel, ReadBatch, WriteBatch, RequestFails, EndGeocode
<1>4. batch' \in [Geocoder -> SUBSET Stored']
  <2>1. ASSUME NEW g \in Geocoder, Geocode(g)
        PROVE  \E read \in SUBSET Stored : batch' = [batch EXCEPT ![g] = read]
    BY <2>1 DEF Geocode, ReadBatch, WriteBatch, RequestFails, Unlocated
  <2>2. CASE UNCHANGED batch
    BY <1>1, <2>2 DEF TypeOK
  <2>3. CASE \E g \in Geocoder : Geocode(g)
    <3>1. PICK g \in Geocoder, read \in SUBSET Stored : batch' = [batch EXCEPT ![g] = read]
      BY <2>1, <2>3
    <3> QED BY <1>1, <3>1 DEF TypeOK
  <2> QED BY <2>2, <2>3 DEF Next, vars, Load, NothingToLoad, BeginLoad, CommitLoad, LoadRaises,
             InsertParcel, EndGeocode
<1> QED BY <1>1, <1>2, <1>3, <1>4 DEF TypeOK

LEMMA InitType == Init => TypeOK
<1>1. Len(Export) \in Nat
  BY CoordinatesAssumption, LenProperties
<1> QED BY <1>1 DEF Init, TypeOK, Stored

\* The types of the rows, the loop's position and the batches, whoever geocodes.
THEOREM TypeCorrect == Spec => []TypeOK
BY InitType, TypeStep, PTL DEF Spec

\* A load settles who is active, whatever sales files insert and geocoders write
\* while it runs.
THEOREM ActiveSettled == Spec => LoadSettlesActive
<1>1. ASSUME TypeOK, [Next]_vars
      PROVE  [loaded' # loaded =>
                LET listed == Export[loaded'].listed
                IN /\ \A p \in listed : parcel'[p] # NoRow /\ parcel'[p].active
                   /\ \A p \in locked \ listed : ~parcel'[p].active]_vars
  <2>1. CASE CommitLoad
    <3>1. loaded' = loaded + 1 /\ loop = "loading"
      BY <2>1 DEF CommitLoad
    <3>2. Export[loaded + 1].listed \subseteq Parcel
      BY <1>1, <3>1, NextExport
    <3>3. ASSUME NEW p \in Export[loaded + 1].listed
          PROVE  parcel'[p] # NoRow /\ parcel'[p].active
      <4>1. \E row \in RowType : parcel'[p] = Labelled(row) /\ row.active
        BY <1>1, <2>1, <3>2, <3>3, LoadedRow
      <4> QED BY <4>1, LabelledRow, CoordinatesAssumption
    <3>4. ASSUME NEW p \in locked \ Export[loaded + 1].listed
          PROVE  ~parcel'[p].active
      <4>1. p \in Stored
        BY <1>1, <3>4 DEF TypeOK
      <4>2. \E row \in RowType : parcel'[p] = Labelled(row) /\ ~row.active
        BY <1>1, <2>1, <3>4, <4>1, LoadedRow DEF Stored
      <4> QED BY <4>2, LabelledRow
    <3> QED BY <3>1, <3>3, <3>4
  <2>2. CASE UNCHANGED loaded
    BY <2>2
  <2> QED BY <1>1, <2>1, <2>2 DEF Next, vars, Load, Geocode, NothingToLoad, BeginLoad, LoadRaises,
             InsertParcel, ReadBatch, WriteBatch, RequestFails, EndGeocode
<1> QED BY TypeCorrect, <1>1, PTL DEF Spec, LoadSettlesActive

-----------------------------------------------------------------------------
(* What a step does to coordinates.                                         *)

\* What a load does to a parcel that is stored.
LEMMA LoadStep ==
    ASSUME IInv, CommitLoad, NEW p \in Stored
    PROVE  /\ parcel[p].at = County => parcel'[p].at = County
           /\ RowLabelled(parcel'[p])
           /\ SourceIsTrue(parcel[p]) => SourceIsTrue(parcel'[p])
<1>0. /\ parcel[p] \in RowType /\ p \in Parcel /\ TypeOK /\ RowLabelled(parcel[p])
  BY DEF IInv, TypeOK, RowsLabelled, Stored
<1>1. PICK row \in RowType :
         /\ parcel'[p] = Labelled(row)
         /\ \/ row.at = County /\ row.source = County
            \/ row.at = parcel[p].at /\ row.source = parcel[p].source
  BY <1>0, LoadedRow
<1>2. /\ Labelled(row).at = row.at
      /\ \/ Labelled(row).source = row.source
         \/ row.source = Null /\ row.at \in {County, Census} /\ Labelled(row).source = Census
  BY LabelledRow
<1> QED BY <1>0, <1>1, <1>2 DEF RowLabelled, SourceIsTrue, Null, County, Census

\* What an answer does to a parcel of its batch: only the coordinates change.
LEMMA AnswerStep ==
    ASSUME TypeOK, NEW g \in Geocoder, WriteBatch(g), NEW p \in Stored
    PROVE  /\ p \in batch[g] => /\ parcel'[p].at \in {Census, Failed}
                               /\ parcel'[p].source = parcel[p].source
           /\ p \notin batch[g] => parcel'[p] = parcel[p]
           /\ batch'[g] = {}
<1>1. p \in Parcel /\ parcel[p] \in RowType
  BY DEF TypeOK, Stored
<1>2. PICK matched \in SUBSET batch[g] :
         parcel' = [q \in Parcel |->
                      IF q \in batch[g]
                      THEN [parcel[q] EXCEPT !.at = IF q \in matched THEN Census ELSE Failed]
                      ELSE parcel[q]]
  BY DEF WriteBatch
<1>3. batch'[g] = {}
  BY DEF WriteBatch, TypeOK
<1> QED BY <1>1, <1>2, <1>3 DEF RowType

\* What a step does to the coordinates of a parcel that is stored.
LEMMA RowStep ==
    ASSUME IInv, [Next]_vars, NEW p \in Stored
    PROVE  /\ parcel[p].at = County => parcel'[p].at = County \/ LateAnswer(p)
           /\ RowLabelled(parcel'[p])
           /\ SourceIsTrue(parcel[p]) => SourceIsTrue(parcel'[p]) \/ LateAnswer(p)
<1> DEFINE Goal == /\ parcel[p].at = County => parcel'[p].at = County \/ LateAnswer(p)
                   /\ RowLabelled(parcel'[p])
                   /\ SourceIsTrue(parcel[p]) => SourceIsTrue(parcel'[p]) \/ LateAnswer(p)
<1>0. parcel[p] \in RowType /\ p \in Parcel /\ TypeOK /\ RowLabelled(parcel[p])
  BY DEF IInv, TypeOK, RowsLabelled, Stored
<1>1. CASE parcel'[p] = parcel[p]
  BY <1>0, <1>1
<1>2. CASE CommitLoad
  BY <1>2, LoadStep
<1>3. ASSUME NEW g \in Geocoder, WriteBatch(g) PROVE Goal
  <2>1. CASE p \notin batch[g]
    BY <1>0, <1>1, <1>3, <2>1, AnswerStep
  <2>2. CASE p \in batch[g]
    <3>1. /\ parcel'[p].at \in {Census, Failed} /\ parcel'[p].source = parcel[p].source
          /\ batch'[g] = {}
      BY <1>0, <1>3, <2>2, AnswerStep
    <3>2. RowLabelled(parcel'[p])
      BY <3>1 DEF RowLabelled, Null, County, Census, Failed
    <3>3. CASE g = Server
      <4>1. parcel[p].at # County /\ parcel[p].source = Null
        BY <2>2, <3>3 DEF IInv, BatchUnlabelled
      <4> QED BY <3>1, <3>2, <4>1 DEF SourceIsTrue
    <3>4. CASE g # Server
      BY <2>2, <3>1, <3>2, <3>4 DEF LateAnswer
    <3> QED BY <3>3, <3>4
  <2> QED BY <2>1, <2>2
<1>4. ASSUME NEW q \in Parcel, InsertParcel(q) PROVE parcel'[p] = parcel[p]
  BY <1>0, <1>4 DEF InsertParcel, TypeOK, Stored
<1>5. CASE UNCHANGED parcel
  BY <1>1, <1>5
<1> QED BY <1>1, <1>2, <1>3, <1>4, <1>5 DEF Next, vars, Load, Geocode, NothingToLoad,
           BeginLoad, LoadRaises, ReadBatch, RequestFails, EndGeocode

\* A row that is stored by a step comes from the county or has no coordinates.
LEMMA NewRow ==
    ASSUME TypeOK, [Next]_vars, NEW p \in Stored' \ Stored
    PROVE  \/ parcel'[p].at = Null /\ parcel'[p].source = Null
           \/ parcel'[p].at = County /\ parcel'[p].source = County
<1>0. p \in Parcel /\ parcel[p] = NoRow /\ parcel'[p] # NoRow
  BY DEF Stored
<1>1. CASE CommitLoad
  <2>1. PICK row \in RowType :
           /\ parcel'[p] = Labelled(row)
           /\ \/ row.at = County /\ row.source = County
              \/ row.at = Null /\ row.source = Null
    BY <1>0, <1>1, LoadedRow DEF Stored
  <2>2. parcel'[p] = row
    BY <2>1 DEF Labelled, Null, County
  <2> QED BY <2>1, <2>2
<1>2. ASSUME NEW q \in Parcel, InsertParcel(q)
      PROVE  parcel'[p].at = Null /\ parcel'[p].source = Null
  <2>1. p = q
    BY <1>0, <1>2 DEF InsertParcel, TypeOK
  <2> QED BY <1>0, <1>2, <2>1 DEF InsertParcel, TypeOK
<1>3. ASSUME NEW g \in Geocoder, WriteBatch(g) PROVE FALSE
  <2>1. p \notin batch[g]
    BY <1>0 DEF TypeOK, Stored
  <2> QED BY <1>0, <1>3, <2>1 DEF WriteBatch
<1>4. CASE UNCHANGED parcel
  BY <1>0, <1>4
<1> QED BY <1>1, <1>2, <1>3, <1>4 DEF Next, vars, Load, Geocode, NothingToLoad, BeginLoad,
           LoadRaises, ReadBatch, RequestFails, EndGeocode

\* The loop's batch stays unlabelled while it waits for its answer.
LEMMA BatchStep == ASSUME IInv, [Next]_vars PROVE BatchUnlabelled'
<1> USE DEF IInv
<1>0. batch[Server] \subseteq Stored /\ Server \in Geocoder
  BY CoordinatesAssumption DEF TypeOK
<1>1. CASE UNCHANGED <<parcel, loop, batch>>
  BY <1>1 DEF BatchUnlabelled
<1>2. CASE batch'[Server] = {}
  BY <1>2 DEF BatchUnlabelled
<1>3. CASE NothingToLoad \/ BeginLoad \/ CommitLoad \/ LoadRaises \/ EndGeocode
  BY <1>2, <1>3 DEF BatchUnlabelled, NothingToLoad, BeginLoad, CommitLoad, LoadRaises, EndGeocode
<1>4. ASSUME NEW p \in Parcel, InsertParcel(p) PROVE BatchUnlabelled'
  <2>1. p \notin Stored /\ UNCHANGED <<batch, loop>>
    BY <1>4 DEF InsertParcel, Stored
  <2>2. \A q \in batch[Server] : parcel'[q] = parcel[q]
    BY <1>0, <1>4, <2>1 DEF InsertParcel, TypeOK, Stored
  <2> QED BY <2>1, <2>2 DEF BatchUnlabelled
<1>5. CASE ReadBatch(Server)
  <2>1. PICK read \in SUBSET Unlocated :
           batch' = [batch EXCEPT ![Server] = read] /\ UNCHANGED <<parcel, loop>>
    BY <1>5 DEF ReadBatch
  <2>2. batch'[Server] = read /\ loop = "geocode"
    BY <1>0, <1>5, <2>1 DEF ReadBatch, Turn, TypeOK
  <2>3. \A p \in read : parcel[p].at # County /\ parcel[p].source = Null
    BY DEF Unlocated, RowsLabelled, RowLabelled, Null, County
  <2> QED BY <2>1, <2>2, <2>3 DEF BatchUnlabelled
<1>6. CASE WriteBatch(Server) \/ RequestFails(Server)
  BY <1>0, <1>2, <1>6 DEF WriteBatch, RequestFails, TypeOK
<1>7. ASSUME NEW g \in Geocoder \ {Server}, ReadBatch(g) \/ RequestFails(g)
      PROVE  BatchUnlabelled'
  <2>1. UNCHANGED <<parcel, loop>> /\ batch'[Server] = batch[Server]
    BY <1>0, <1>7 DEF ReadBatch, RequestFails, TypeOK
  <2> QED BY <2>1 DEF BatchUnlabelled
<1>8. ASSUME NEW g \in Geocoder \ {Server}, WriteBatch(g) PROVE BatchUnlabelled'
  <2>1. loop' = loop /\ batch'[Server] = batch[Server]
    BY <1>0, <1>8 DEF WriteBatch, TypeOK
  <2>2. \A p \in batch[Server] : \/ parcel'[p] = parcel[p]
                                \/ /\ parcel'[p].at \in {Census, Failed}
                                   /\ parcel'[p].source = parcel[p].source
    BY <1>0, <1>8, AnswerStep
  <2> QED BY <2>1, <2>2 DEF BatchUnlabelled, County, Census, Failed
<1> QED BY <1>0, <1>1, <1>2, <1>3, <1>4, <1>5, <1>6, <1>7, <1>8 DEF Next, vars, Load, Geocode

\* The loop's batch holds no parcel the county has located or a load has labelled,
\* whatever commands write into its parcels, and county coordinates are labelled.
THEOREM Invariance == Spec => []IInv
<1>1. Init => IInv
  <2> SUFFICES ASSUME Init PROVE IInv
    OBVIOUS
  <2>1. BatchUnlabelled /\ RowsLabelled
    BY CoordinatesAssumption DEF Init, BatchUnlabelled, RowsLabelled, Stored
  <2> QED BY <2>1, InitType DEF IInv
<1>2. IInv /\ [Next]_vars => IInv'
  <2> SUFFICES ASSUME IInv, [Next]_vars PROVE IInv'
    OBVIOUS
  <2>1. TypeOK' /\ BatchUnlabelled'
    BY TypeStep, BatchStep DEF IInv
  <2>2. ASSUME NEW p \in Stored' PROVE RowLabelled(parcel'[p])
    <3>1. CASE p \in Stored
      BY <3>1, RowStep
    <3>2. CASE p \notin Stored
      BY <3>2, NewRow DEF IInv, RowLabelled, Null, County
    <3> QED BY <3>1, <3>2
  <2>3. RowsLabelled'
    BY <2>2 DEF RowsLabelled, RowLabelled
  <2> QED BY <2>1, <2>3 DEF IInv
<1> QED BY <1>1, <1>2, PTL DEF Spec

\* A row names the source its coordinates come from, through every load and every
\* batch of the loop, however commands run beside them: only the answer a command
\* writes to a parcel it asked about makes the name wrong.
THEOREM SourcesStayTrue == Spec => SourceStaysTrue
<1>1. ASSUME IInv, [Next]_vars
      PROVE  \A p \in Stored' :
                \/ SourceIsTrue(parcel'[p])
                \/ p \in Stored /\ (LateAnswer(p) \/ ~SourceIsTrue(parcel[p]))
  <2> SUFFICES ASSUME NEW p \in Stored'
               PROVE  \/ SourceIsTrue(parcel'[p])
                      \/ p \in Stored /\ (LateAnswer(p) \/ ~SourceIsTrue(parcel[p]))
    OBVIOUS
  <2>1. CASE p \in Stored
    BY <1>1, <2>1, RowStep
  <2>2. CASE p \notin Stored
    BY <1>1, <2>2, NewRow DEF IInv, SourceIsTrue, Null, County
  <2> QED BY <2>1, <2>2
<1> QED BY Invariance, <1>1, PTL DEF Spec, SourceStaysTrue

\* Coordinates from the county are lost to nothing but a command's late answer,
\* and every file that locates a parcel makes them, and their label, the county's.
THEOREM CountyStays == Spec => CountyPrevails
<1>1. ASSUME IInv, [Next]_vars, NEW p \in Stored, parcel[p].at = County
      PROVE  parcel'[p].at = County \/ LateAnswer(p)
  BY <1>1, RowStep
<1>2. ASSUME IInv, [Next]_vars, loaded' # loaded,
             NEW p \in Export[loaded'].listed \cap Export[loaded'].located
      PROVE  parcel'[p].at = County /\ SourceIsTrue(parcel'[p])
  <2>1. CommitLoad
    BY <1>2 DEF Next, vars, Load, Geocode, NothingToLoad, BeginLoad, LoadRaises,
            InsertParcel, ReadBatch, WriteBatch, RequestFails, EndGeocode
  <2>2. loaded' = loaded + 1 /\ loop = "loading" /\ TypeOK
    BY <1>2, <2>1 DEF CommitLoad, IInv
  <2>3. p \in Parcel
    BY <1>2, <2>2, NextExport
  <2>4. PICK row \in RowType :
           parcel'[p] = Labelled(row) /\ row.at = County /\ row.source = County
    BY <1>2, <2>1, <2>2, <2>3, LoadedRow
  <2>5. parcel'[p] = row
    BY <2>4 DEF Labelled, Null, County
  <2> QED BY <2>4, <2>5 DEF SourceIsTrue
<1>3. ASSUME IInv, [Next]_vars
      PROVE  [/\ \A p \in Stored :
                   parcel[p].at = County => parcel'[p].at = County \/ LateAnswer(p)
              /\ loaded' # loaded =>
                   \A p \in Export[loaded'].listed \cap Export[loaded'].located :
                       parcel'[p].at = County /\ SourceIsTrue(parcel'[p])]_vars
  BY <1>1, <1>2, <1>3
<1> QED BY Invariance, <1>3, PTL DEF Spec, CountyPrevails
================================================================================
