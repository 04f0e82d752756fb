---------------------- MODULE SalesReconciliationProofs ----------------------
(***************************************************************************)
(* Theorems about SalesReconciliation for every set of parcels, sales and  *)
(* files, and about SchemaRepair, which builds on it, for every old table  *)
(* and any number of restarts.  The lemmas follow the steps of a file's    *)
(* transaction; the inductive invariants are IInv and RepairIInv.          *)
(***************************************************************************)
EXTENDS SchemaRepair, SalesRowsProofs

-----------------------------------------------------------------------------
(* A file's transaction.                                                    *)

LEMMA ContentLines == \A f \in File : \A lines \in Content(f) : lines \in Seq(Line)
BY SalesAssumption

\* What writing a file does to the table, up to the filling of neighborhoods.
LEMMA WriteFileEffect ==
    ASSUME sales \subseteq Row, OneRowPerKey,
           NEW f \in File, NEW lines \in Content(f), NEW source \in {Weekly, Yearly},
           Parsed(lines) # {}, WriteFile(f, lines, source)
    PROVE  LET rows == Stored(Collapsed(lines), source)
               pruned == Reconciled(lines, source) IN
           /\ pruned \subseteq sales \cup rows
           /\ UniqueKeys(pruned)
           /\ \A t \in sales : \E u \in pruned : Keeps(t, u)
           /\ \A i \in Parsed(lines) : \E u \in pruned :
                 /\ Keeps(lines[i], u)
                 /\ source = Yearly => u.source = Yearly
           /\ source = Yearly => rows \subseteq pruned
           /\ \A t \in sales : t.source = Yearly =>
                 t \in pruned \/ (source = Yearly /\ \E r \in rows : SameKey(r, t))
           /\ \E pick \in Picks(pruned) : sales' = FillNeighborhood(pruned, pick)
<1> DEFINE rows == Stored(Collapsed(lines), source)
           upserted == Upsert(sales, rows, source = Yearly)
           pruned == PruneSuperseded(upserted, lines)
<1>1. /\ rows \subseteq Row /\ UniqueKeys(rows)
      /\ \A r \in rows : r.source = source
      /\ \A i \in Parsed(lines) : \E r \in rows : SameKey(lines[i], r)
  BY StoredRows, ContentLines
<1>2. UniqueKeys(sales)
  BY DEF OneRowPerKey, UniqueKeys
<1>3. Reconciled(lines, source) = pruned
  BY DEF Reconciled
<1> HIDE DEF rows
<1>4. /\ upserted \subseteq sales \cup rows
      /\ UniqueKeys(upserted)
      /\ \A r \in rows : \E u \in upserted :
            SameKey(r, u) /\ (source = Yearly => u = r)
      /\ \A t \in sales : \E u \in upserted :
            SameKey(t, u) /\ (t.source = Yearly => u.source = Yearly)
      /\ source = Weekly => sales \subseteq upserted
      /\ \A t \in sales : t \in upserted \/ \E r \in rows : SameKey(r, t)
  BY <1>1, <1>2, UpsertTable
<1> HIDE DEF upserted
<1>5. upserted \subseteq Row
  BY <1>1, <1>4
<1>6. /\ pruned \subseteq upserted
      /\ \A t \in upserted : t.source = Yearly => t \in pruned
      /\ \A t \in upserted : t \in pruned \/ \E y \in pruned :
            y.source = Yearly /\ SameConveyance(t, y)
  BY <1>5, PruneTable
<1> HIDE DEF pruned
<1>7. ASSUME NEW r \in Row, NEW u \in upserted, SameKey(r, u),
             r.source = Yearly => u.source = Yearly
      PROVE  \E t \in pruned : Keeps(r, t) /\ (u.source = Yearly => t = u)
  <2>1. CASE u \in pruned
    BY <1>7, <2>1 DEF Keeps
  <2>2. CASE u \notin pruned
    <3>1. u.source # Yearly
      BY <1>6, <2>2
    <3>2. PICK y \in pruned : y.source = Yearly /\ SameConveyance(u, y)
      BY <1>6, <2>2
    <3>3. SameConveyance(r, y)
      BY <1>7, <3>2 DEF SameKey, SameConveyance, SameLegacy
    <3> QED BY <1>7, <3>1, <3>2, <3>3 DEF Keeps
  <2> QED BY <2>1, <2>2
<1>8. \A t \in sales : \E u \in pruned : Keeps(t, u)
  BY <1>4, <1>7
<1>9. ASSUME NEW i \in Parsed(lines)
      PROVE  \E u \in pruned : Keeps(lines[i], u) /\ (source = Yearly => u.source = Yearly)
  <2>1. lines[i] \in Row /\ lines[i].source = Weekly
    BY ParsedType, ContentLines
  <2>2. PICK r \in rows : SameKey(lines[i], r)
    BY <1>1
  <2>3. PICK u \in upserted : SameKey(r, u) /\ (source = Yearly => u = r)
    BY <1>4
  <2>4. SameKey(lines[i], u)
    BY <1>1, <1>5, <2>1, <2>2, <2>3, SameKeyEquivalence
  <2>5. \E t \in pruned : Keeps(lines[i], t) /\ (u.source = Yearly => t = u)
    BY <1>7, <2>1, <2>4 DEF Weekly, Yearly
  <2> QED BY <1>1, <2>3, <2>5
<1>10. source = Yearly => rows \subseteq pruned
  BY <1>1, <1>4, <1>6
<1>11. ASSUME NEW t \in sales, t.source = Yearly
       PROVE  t \in pruned \/ (source = Yearly /\ \E r \in rows : SameKey(r, t))
  BY <1>4, <1>6, <1>11
<1>12. UniqueKeys(pruned)
  BY <1>4, <1>6 DEF UniqueKeys
<1>13. \E pick \in Picks(pruned) : sales' = FillNeighborhood(pruned, pick)
  BY <1>3 DEF WriteFile
<1> QED BY <1>3, <1>4, <1>6, <1>8, <1>9, <1>10, <1>11, <1>12, <1>13 DEF rows

-----------------------------------------------------------------------------
(* Steps.                                                                   *)

LEMMA NextWritesFile ==
    ASSUME Next
    PROVE  \E f \in File : \E lines \in Content(f), source \in {Weekly, Yearly} :
              /\ WriteFile(f, lines, source)
              /\ source = Yearly <=> f \in YearlyFile
              /\ source = Weekly => Parsed(lines) # {}
<1>1. CASE \E f \in YearlyFile : IngestYearly(f)
  BY <1>1 DEF IngestYearly, File, Content, Weekly, Yearly
<1>2. CASE \E f \in WeeklyFile : IngestWeekly(f)
  <2>1. PICK f \in WeeklyFile : IngestWeekly(f)
    BY <1>2
  <2>2. f \notin YearlyFile /\ f \in File
    BY SalesAssumption DEF File
  <2> QED BY <2>1, <2>2 DEF IngestWeekly, Content, Weekly, Yearly
<1> QED BY <1>1, <1>2 DEF Next

LEMMA TypeStep == ASSUME TypeOK, OneRowPerKey, Next PROVE TypeOK'
<1>0. PICK f \in File : \E lines \in Content(f), source \in {Weekly, Yearly} :
         WriteFile(f, lines, source)
  BY NextWritesFile
<1>1. PICK lines \in Content(f), source \in {Weekly, Yearly} :
         WriteFile(f, lines, source)
  BY <1>0
<1>2. \A i \in Parsed(lines) : lines[i].parcel \in Parcel /\ lines[i].parcel \in parcels'
  BY <1>1, ParsedType, ContentLines DEF WriteFile, ParcelsOf, Row
<1>3. parcels \subseteq parcels' /\ parcels' \subseteq Parcel
  BY <1>1, <1>2 DEF WriteFile, ParcelsOf, TypeOK
<1>4. sales' \subseteq {r \in Row : r.parcel \in parcels'}
  <2>1. CASE Parsed(lines) = {}
    BY <1>1, <1>3, <2>1 DEF WriteFile, TypeOK
  <2>2. CASE Parsed(lines) # {}
    <3> DEFINE pruned == Reconciled(lines, source)
               rows == Stored(Collapsed(lines), source)
    <3>1. /\ pruned \subseteq sales \cup rows
          /\ \E pick \in Picks(pruned) : sales' = FillNeighborhood(pruned, pick)
      BY <1>1, <2>2, WriteFileEffect DEF TypeOK
    <3>2. rows \subseteq Row /\ \A r \in rows : r.parcel \in parcels'
      BY <1>2, StoredRows, ContentLines
    <3> HIDE DEF pruned, rows
    <3>3. pruned \subseteq Row /\ \A r \in pruned : r.parcel \in parcels'
      BY <1>3, <3>1, <3>2 DEF TypeOK
    <3>4. sales' \subseteq Row /\ \A t \in sales' : \E r \in pruned : SameButNbhd(r, t)
      BY <3>1, <3>3, FilledTable
    <3> QED BY <3>3, <3>4 DEF SameButNbhd
  <2> QED BY <2>1, <2>2
<1>5. dataFile' = [dataFile EXCEPT ![f] = lines]
  BY <1>1 DEF WriteFile
<1>6. /\ dataFile' \in [File -> (UNION {Content(g) : g \in File}) \cup {NotIngested}]
      /\ \A g \in File : dataFile'[g] = NotIngested \/ dataFile'[g] \in Content(g)
  BY <1>5 DEF TypeOK
<1> QED BY <1>3, <1>4, <1>6 DEF TypeOK

LEMMA OneRowStep == ASSUME TypeOK, OneRowPerKey, Next PROVE OneRowPerKey'
<1>0. PICK f \in File : \E lines \in Content(f), source \in {Weekly, Yearly} :
         WriteFile(f, lines, source)
  BY NextWritesFile
<1>1. PICK lines \in Content(f), source \in {Weekly, Yearly} :
         WriteFile(f, lines, source)
  BY <1>0
<1>2. CASE Parsed(lines) = {}
  BY <1>1, <1>2 DEF WriteFile, OneRowPerKey
<1>3. CASE Parsed(lines) # {}
  <2> DEFINE pruned == Reconciled(lines, source)
             rows == Stored(Collapsed(lines), source)
  <2>1. /\ pruned \subseteq sales \cup rows
        /\ UniqueKeys(pruned)
        /\ \E pick \in Picks(pruned) : sales' = FillNeighborhood(pruned, pick)
    BY <1>1, <1>3, WriteFileEffect DEF TypeOK
  <2>2. pruned \subseteq Row
    BY <2>1, StoredRows, ContentLines DEF TypeOK
  <2> HIDE DEF pruned
  <2>3. UniqueKeys(sales')
    BY <2>1, <2>2, FilledTable
  <2> QED BY <2>3 DEF UniqueKeys, OneRowPerKey
<1> QED BY <1>2, <1>3

\* A weekly row and a yearly row of one conveyance share a date.  If it lies
\* in the file's range the weekly row was pruned; if not, neither row is new.
LEMMA NoSupersededStep ==
    ASSUME TypeOK, OneRowPerKey, NoSupersededWeekly, Next
    PROVE  NoSupersededWeekly'
<1>0. PICK f \in File : \E lines \in Content(f), source \in {Weekly, Yearly} :
         WriteFile(f, lines, source)
  BY NextWritesFile
<1>1. PICK lines \in Content(f), source \in {Weekly, Yearly} :
         WriteFile(f, lines, source)
  BY <1>0
<1>2. CASE Parsed(lines) = {}
  BY <1>1, <1>2 DEF WriteFile, NoSupersededWeekly, Superseded
<1>3. CASE Parsed(lines) # {}
  <2> DEFINE pruned == Reconciled(lines, source)
             rows == Stored(Collapsed(lines), source)
  <2>1. /\ pruned \subseteq sales \cup rows
        /\ \E pick \in Picks(pruned) : sales' = FillNeighborhood(pruned, pick)
    BY <1>1, <1>3, WriteFileEffect DEF TypeOK
  <2>2. \A r \in rows : InDateRange(r.date, lines)
    <3> SUFFICES ASSUME NEW r \in rows PROVE InDateRange(r.date, lines)
      OBVIOUS
    <3>1. PICK i \in Parsed(lines) : r.date = lines[i].date
      BY StoredRows, ContentLines
    <3>2. lines[i].date \in Int
      BY ParsedType, ContentLines, RowsAssumption DEF Row
    <3> QED BY <3>1, <3>2 DEF InDateRange
  <2>3. \A r \in pruned : Superseded(r, pruned) => ~InDateRange(r.date, lines)
    BY DEF Reconciled, PruneSuperseded, Superseded
  <2>4. pruned \subseteq Row
    BY <2>1, StoredRows, ContentLines DEF TypeOK
  <2> HIDE DEF pruned, rows
  <2>5. ASSUME NEW r \in pruned, NEW y \in pruned, r.source = Weekly,
               y.source = Yearly, SameConveyance(r, y)
        PROVE  FALSE
    <3>1. ~InDateRange(r.date, lines) /\ y.date = r.date
      BY <2>3, <2>5 DEF Superseded, SameConveyance
    <3>2. r \in sales /\ y \in sales
      BY <2>1, <2>2, <3>1
    <3> QED BY <2>5, <3>2 DEF NoSupersededWeekly, Superseded
  <2>6. \A t \in sales' : \E r \in pruned : SameButNbhd(r, t)
    BY <2>1, <2>4, FilledTable
  <2>7. ASSUME NEW t \in sales', NEW z \in sales', t.source = Weekly,
               z.source = Yearly, SameConveyance(t, z)
        PROVE  FALSE
    <3>1. PICK r \in pruned, y \in pruned : SameButNbhd(r, t) /\ SameButNbhd(y, z)
      BY <2>6
    <3> QED BY <2>5, <2>7, <3>1 DEF SameButNbhd, SameConveyance
  <2> QED BY <2>7 DEF NoSupersededWeekly, Superseded
<1> QED BY <1>2, <1>3

LEMMA NeighborhoodsStep ==
    ASSUME TypeOK, OneRowPerKey, NeighborhoodsFilled, Next
    PROVE  NeighborhoodsFilled'
<1>0. PICK f \in File : \E lines \in Content(f), source \in {Weekly, Yearly} :
         WriteFile(f, lines, source)
  BY NextWritesFile
<1>1. PICK lines \in Content(f), source \in {Weekly, Yearly} :
         WriteFile(f, lines, source)
  BY <1>0
<1>2. CASE Parsed(lines) = {}
  BY <1>1, <1>2 DEF WriteFile, NeighborhoodsFilled, History
<1>3. CASE Parsed(lines) # {}
  <2> DEFINE pruned == Reconciled(lines, source)
             rows == Stored(Collapsed(lines), source)
  <2>1. /\ pruned \subseteq sales \cup rows
        /\ \E pick \in Picks(pruned) : sales' = FillNeighborhood(pruned, pick)
    BY <1>1, <1>3, WriteFileEffect DEF TypeOK
  <2>2. pruned \subseteq Row
    BY <2>1, StoredRows, ContentLines DEF TypeOK
  <2> HIDE DEF pruned
  <2>3. \A t \in sales' : t.source = Weekly /\ t.nbhd = NULL => History(t.parcel, sales') = {}
    BY <2>1, <2>2, FilledTable
  <2> QED BY <2>3 DEF NeighborhoodsFilled, History
<1> QED BY <1>2, <1>3

\* Every stored row, and every line of the file, is kept by the step.
LEMMA StepKeeps ==
    ASSUME TypeOK, OneRowPerKey, NEW f \in File, NEW lines \in Content(f),
           NEW source \in {Weekly, Yearly}, WriteFile(f, lines, source)
    PROVE  /\ \A t \in sales : \E u \in sales' : Keeps(t, u)
           /\ \A i \in Parsed(lines) : \E u \in sales' :
                 Keeps(lines[i], u) /\ (source = Yearly => u.source = Yearly)
<1>1. CASE Parsed(lines) = {}
  BY <1>1, SameKeyEquivalence DEF WriteFile, Keeps, TypeOK
<1>2. CASE Parsed(lines) # {}
  <2> DEFINE pruned == Reconciled(lines, source)
             rows == Stored(Collapsed(lines), source)
  <2>1. /\ pruned \subseteq sales \cup rows
        /\ \A t \in sales : \E u \in pruned : Keeps(t, u)
        /\ \A i \in Parsed(lines) : \E u \in pruned :
              Keeps(lines[i], u) /\ (source = Yearly => u.source = Yearly)
        /\ \E pick \in Picks(pruned) : sales' = FillNeighborhood(pruned, pick)
    BY <1>2, WriteFileEffect DEF TypeOK
  <2>2. pruned \subseteq Row
    BY <2>1, StoredRows, ContentLines DEF TypeOK
  <2> HIDE DEF pruned
  <2>3. \A u \in pruned : \E t \in sales' : SameButNbhd(u, t)
    BY <2>1, <2>2, FilledTable
  <2>4. ASSUME NEW r, NEW u \in pruned, NEW t \in sales', SameButNbhd(u, t), Keeps(r, u)
        PROVE  Keeps(r, t) /\ (u.source = Yearly => t.source = Yearly)
    BY <2>4 DEF SameButNbhd, Keeps, SameKey, SameConveyance, SameLegacy
  <2> QED BY <2>1, <2>3, <2>4
<1> QED BY <1>1, <1>2

LEMMA NoSaleLostStep ==
    ASSUME TypeOK, OneRowPerKey, NoSaleLost, Next
    PROVE  NoSaleLost'
<1>0. PICK f \in File : \E lines \in Content(f), source \in {Weekly, Yearly} :
         WriteFile(f, lines, source)
  BY NextWritesFile
<1>1. PICK lines \in Content(f), source \in {Weekly, Yearly} :
         WriteFile(f, lines, source)
  BY <1>0
<1>2. TypeOK' /\ sales \subseteq Row /\ sales' \subseteq Row
  BY TypeStep DEF TypeOK
<1>3. /\ dataFile' = [dataFile EXCEPT ![f] = lines]
      /\ dataFile \in [File -> (UNION {Content(g) : g \in File}) \cup {NotIngested}]
  BY <1>1 DEF WriteFile, TypeOK
<1> SUFFICES ASSUME NEW g \in File, dataFile'[g] # NotIngested,
                    NEW i \in Parsed(dataFile'[g])
             PROVE  \E t \in sales' : \/ SameKey(dataFile'[g][i], t)
                                     \/ /\ t.source = Yearly
                                        /\ SameConveyance(dataFile'[g][i], t)
  BY DEF NoSaleLost, Represented
<1>4. CASE g = f
  BY <1>1, <1>3, <1>4, StepKeeps DEF Keeps
<1>5. CASE g # f
  <2> DEFINE r == dataFile[g][i]
  <2>1. dataFile'[g] = dataFile[g] /\ dataFile[g] \in Content(g)
    BY <1>3, <1>5 DEF TypeOK
  <2>2. r \in Row
    BY <2>1, ParsedType, ContentLines
  <2>3. PICK s \in sales : SameKey(r, s) \/ (s.source = Yearly /\ SameConveyance(r, s))
    BY <2>1 DEF NoSaleLost, Represented
  <2>4. PICK t \in sales' : Keeps(s, t)
    BY <1>1, StepKeeps
  <2> HIDE DEF r
  <2>5. SameKey(r, t) \/ (t.source = Yearly /\ SameConveyance(r, t))
    BY <1>2, <2>2, <2>3, <2>4, KeepsComposes
  <2> QED BY <2>1, <2>5 DEF r
<1> QED BY <1>4, <1>5

\* A yearly row changes only when a yearly file lists its key again.
LEMMA LatestExportStep ==
    ASSUME TypeOK, OneRowPerKey, LatestExportStored, Next
    PROVE  LatestExportStored'
<1>0. PICK f \in File : \E lines \in Content(f), source \in {Weekly, Yearly} :
         /\ WriteFile(f, lines, source)
         /\ source = Yearly <=> f \in YearlyFile
         /\ source = Weekly => Parsed(lines) # {}
  BY NextWritesFile
<1>1. PICK lines \in Content(f), source \in {Weekly, Yearly} :
         /\ WriteFile(f, lines, source)
         /\ source = Yearly <=> f \in YearlyFile
         /\ source = Weekly => Parsed(lines) # {}
  BY <1>0
<1>2. /\ dataFile' = [dataFile EXCEPT ![f] = lines]
      /\ dataFile \in [File -> (UNION {Content(g) : g \in File}) \cup {NotIngested}]
  BY <1>1 DEF WriteFile, TypeOK
<1> SUFFICES ASSUME NEW g \in YearlyFile, dataFile'[g] # NotIngested,
                    NEW r \in Stored(Collapsed(dataFile'[g]), Yearly),
                    ~SharesKey(g, r)
             PROVE  r \in sales'
  BY DEF LatestExportStored
<1>3. g \in File
  BY DEF File
<1>4. ASSUME Parsed(lines) # {}
      PROVE  /\ source = Yearly => Stored(Collapsed(lines), source) \subseteq sales'
             /\ \A t \in sales : t.source = Yearly =>
                   \/ t \in sales'
                   \/ source = Yearly /\ \E n \in Stored(Collapsed(lines), source) : SameKey(n, t)
  <2> DEFINE pruned == Reconciled(lines, source)
             rows == Stored(Collapsed(lines), source)
  <2>1. /\ pruned \subseteq sales \cup rows
        /\ source = Yearly => rows \subseteq pruned
        /\ \A t \in sales : t.source = Yearly =>
              t \in pruned \/ (source = Yearly /\ \E n \in rows : SameKey(n, t))
        /\ \E pick \in Picks(pruned) : sales' = FillNeighborhood(pruned, pick)
    BY <1>1, <1>4, WriteFileEffect DEF TypeOK
  <2>2. rows \subseteq Row /\ \A n \in rows : n.source = source
    BY StoredRows, ContentLines
  <2>3. pruned \subseteq Row
    BY <2>1, <2>2 DEF TypeOK
  <2> HIDE DEF pruned, rows
  <2>4. \A n \in pruned : n.source = Yearly => n \in sales'
    BY <2>1, <2>3, FilledTable
  <2> QED BY <2>1, <2>2, <2>4 DEF rows
<1>5. CASE g = f
  <2>1. source = Yearly /\ dataFile'[g] = lines
    BY <1>1, <1>2, <1>3, <1>5
  <2>2. r \in Stored(Collapsed(lines), source)
    BY <2>1
  <2>3. Parsed(lines) # {}
    BY <2>2, StoredRows, ContentLines
  <2> QED BY <1>4, <2>1, <2>2, <2>3
<1>6. CASE g # f
  <2>1. dataFile'[g] = dataFile[g] /\ dataFile[g] # NotIngested /\ dataFile[g] \in Content(g)
    BY <1>2, <1>3, <1>6 DEF TypeOK
  <2>2. r \in sales
    BY <2>1 DEF LatestExportStored
  <2>3. r.source = Yearly /\ r \in Row
    BY <1>3, <2>1, StoredRows, ContentLines
  <2>4. CASE Parsed(lines) = {}
    BY <1>1, <2>2, <2>4 DEF WriteFile
  <2>5. CASE Parsed(lines) # {} /\ r \notin sales'
    <3>1. PICK n \in Stored(Collapsed(lines), source) : source = Yearly /\ SameKey(n, r)
      BY <1>4, <2>2, <2>3, <2>5
    <3>2. PICK i \in Parsed(lines) : SameKey(lines[i], n)
      BY StoredRows, ContentLines
    <3>3. n \in Row /\ lines[i] \in Row
      BY StoredRows, ParsedType, ContentLines
    <3>4. SameKey(lines[i], r)
      BY <2>3, <3>1, <3>2, <3>3, SameKeyEquivalence
    <3>5. f \in YearlyFile /\ lines \in YearlyExport[f]
      BY <1>1, <3>1 DEF Content
    <3> QED BY <1>6, <3>4, <3>5 DEF SharesKey
  <2> QED BY <2>4, <2>5
<1> QED BY <1>5, <1>6

\* A weekly file adds weekly rows, so it supersedes no stored row; what is
\* left is the filling of neighborhoods.
LEMMA FilledIsExcept ==
    ASSUME NEW table, NEW pick, NEW r \in Row, r.nbhd = NULL, r.source = Weekly
    PROVE  Filled(r, table, pick) = [r EXCEPT !.nbhd = Filled(r, table, pick).nbhd]
<1> DEFINE x == IF /\ r.nbhd = NULL /\ r.source = Weekly
                   /\ History(r.parcel, table) # {}
                THEN pick[r.parcel] ELSE r.nbhd
<1>1. Filled(r, table, pick) = [r EXCEPT !.nbhd = x]
  BY DEF Filled
<1> HIDE DEF x
<1>2. [r EXCEPT !.nbhd = x].nbhd = x
  BY DEF Row
<1> QED BY <1>1, <1>2

LEMMA WeeklyStep ==
    ASSUME TypeOK, NoSupersededWeekly, Next,
           NEW w \in WeeklyFile, dataFile'[w] # dataFile[w], NEW r \in sales
    PROVE  \E t \in sales' :
              \/ t = r
              \/ /\ r.source = Weekly /\ r.nbhd = NULL
                 /\ t = [r EXCEPT !.nbhd = t.nbhd]
<1>0. PICK f \in File : \E lines \in Content(f), source \in {Weekly, Yearly} :
         /\ WriteFile(f, lines, source)
         /\ source = Yearly <=> f \in YearlyFile
         /\ source = Weekly => Parsed(lines) # {}
  BY NextWritesFile
<1>1. PICK lines \in Content(f), source \in {Weekly, Yearly} :
         /\ WriteFile(f, lines, source)
         /\ source = Yearly <=> f \in YearlyFile
         /\ source = Weekly => Parsed(lines) # {}
  BY <1>0
<1>2. /\ dataFile' = [dataFile EXCEPT ![f] = lines]
      /\ dataFile \in [File -> (UNION {Content(g) : g \in File}) \cup {NotIngested}]
  BY <1>1 DEF WriteFile, TypeOK
<1>3. source = Weekly /\ Parsed(lines) # {} /\ w = f
  <2>1. w \in File /\ w \notin YearlyFile
    BY SalesAssumption DEF File
  <2> QED BY <1>1, <1>2, <2>1
<1> DEFINE rows == Stored(Collapsed(lines), source)
           upserted == Upsert(sales, rows, source = Yearly)
           pruned == Reconciled(lines, source)
<1>4. upserted = sales \cup {n \in rows : \A t \in sales : ~SameKey(n, t)}
  BY <1>3 DEF Upsert, Weekly, Yearly
<1>5. \A n \in rows : n.source = Weekly
  BY <1>3, StoredRows, ContentLines
<1>6. r \in pruned
  <2>1. ~Superseded(r, upserted)
    BY <1>4, <1>5 DEF NoSupersededWeekly, Superseded, Weekly, Yearly
  <2> QED BY <1>4, <2>1 DEF Reconciled, PruneSuperseded
<1>7. PICK pick \in Picks(pruned) : sales' = FillNeighborhood(pruned, pick)
  BY <1>1, <1>3 DEF WriteFile
<1> DEFINE t == Filled(r, pruned, pick)
<1>8. t \in sales'
  BY <1>6, <1>7 DEF FillNeighborhood
<1>9. r \in Row /\ pruned \subseteq Row
  <2>1. rows \subseteq Row
    BY StoredRows, ContentLines
  <2>2. pruned \subseteq upserted
    BY DEF Reconciled, PruneSuperseded
  <2> QED BY <1>4, <2>1, <2>2 DEF TypeOK
<1>10. CASE r.source = Weekly /\ r.nbhd = NULL
  BY <1>8, <1>9, <1>10, FilledIsExcept
<1>11. CASE ~(r.source = Weekly /\ r.nbhd = NULL)
  <2>1. pick \in [Parcel -> Nbhd]
    BY DEF Picks
  <2>2. r.source = Yearly \/ r.nbhd # NULL
    BY <1>9, <1>11 DEF Row
  <2> HIDE DEF pruned
  <2>3. t = r
    BY <1>9, <2>1, <2>2, FilledRow
  <2> QED BY <1>8, <2>3
<1> QED BY <1>10, <1>11

-----------------------------------------------------------------------------
(* The ledger.                                                              *)

LEMMA SameSale ==
    ASSUME NEW r, NEW t
    PROVE  /\ SameKey(r, t) => SaleOf(r) = SaleOf(t)
           /\ SameConveyance(r, t) => SaleOf(r) = SaleOf(t)
           /\ SameButNbhd(r, t) => SaleOf(r) = SaleOf(t)
BY DEF SameKey, SameConveyance, SameLegacy, SameButNbhd, SaleOf

LEMMA KnowledgeStep ==
    ASSUME TypeOK, OneRowPerKey, Next
    PROVE  \E level \in {1, 2} : \A s \in CountySale :
              \/ Knowledge(s)' = Knowledge(s)
              \/ Knowledge(s) < level /\ Knowledge(s)' = level
<1>0. PICK f \in File : \E lines \in Content(f), source \in {Weekly, Yearly} :
         WriteFile(f, lines, source)
  BY NextWritesFile
<1>1. PICK lines \in Content(f), source \in {Weekly, Yearly} :
         WriteFile(f, lines, source)
  BY <1>0
<1> DEFINE level == IF source = Yearly THEN 2 ELSE 1
<1> SUFFICES ASSUME NEW s \in CountySale
             PROVE  \/ Knowledge(s)' = Knowledge(s)
                    \/ Knowledge(s) < level /\ Knowledge(s)' = level
  OBVIOUS
<1>2. \A t \in sales : \E u \in sales' :
         SaleOf(u) = SaleOf(t) /\ (t.source = Yearly => u.source = Yearly)
  BY <1>1, StepKeeps, SameSale DEF Keeps
<1>3. \A u \in sales' : u.source = source \/ \E t \in sales :
         SaleOf(t) = SaleOf(u) /\ t.source = u.source
  <2>1. CASE Parsed(lines) = {}
    BY <1>1, <2>1 DEF WriteFile
  <2>2. CASE Parsed(lines) # {}
    <3> DEFINE pruned == Reconciled(lines, source)
               rows == Stored(Collapsed(lines), source)
    <3>1. /\ pruned \subseteq sales \cup rows
          /\ \E pick \in Picks(pruned) : sales' = FillNeighborhood(pruned, pick)
      BY <1>1, <2>2, WriteFileEffect DEF TypeOK
    <3>2. rows \subseteq Row /\ \A r \in rows : r.source = source
      BY StoredRows, ContentLines
    <3>3. pruned \subseteq Row
      BY <3>1, <3>2 DEF TypeOK
    <3> HIDE DEF pruned, rows
    <3>4. \A u \in sales' : \E r \in pruned : SameButNbhd(r, u)
      BY <3>1, <3>3, FilledTable
    <3> SUFFICES ASSUME NEW u \in sales', u.source # source
                 PROVE  \E t \in sales : SaleOf(t) = SaleOf(u) /\ t.source = u.source
      OBVIOUS
    <3>5. PICK r \in pruned : SameButNbhd(r, u)
      BY <3>4
    <3>6. r.source = u.source /\ SaleOf(r) = SaleOf(u)
      BY <3>5, SameSale DEF SameButNbhd
    <3> QED BY <3>1, <3>2, <3>6
  <2> QED BY <2>1, <2>2
<1>4. sales \subseteq Row /\ sales' \subseteq Row
  BY TypeStep DEF TypeOK
<1>5. /\ \A t \in sales : t.source \in {Weekly, Yearly}
      /\ \A t \in sales' : t.source \in {Weekly, Yearly}
  BY <1>4 DEF Row
<1>6. Weekly # Yearly
  BY DEF Weekly, Yearly
<1> HIDE DEF Weekly, Yearly
<1>7. CASE source = Weekly
  BY <1>2, <1>3, <1>5, <1>6, <1>7 DEF Knowledge
<1>8. CASE source = Yearly
  BY <1>2, <1>3, <1>5, <1>6, <1>8 DEF Knowledge
<1> QED BY <1>7, <1>8

LEMMA LedgerStep ==
    ASSUME TypeOK, OneRowPerKey, Next PROVE Ledger!Next
<1> DEFINE known == [s \in CountySale |-> Knowledge(s)]
<1>1. PICK level \in {1, 2} : \A s \in CountySale :
         \/ Knowledge(s)' = Knowledge(s)
         \/ Knowledge(s) < level /\ Knowledge(s)' = level
  BY KnowledgeStep
<1>2. known' = [s \in CountySale |-> Knowledge(s)']
  BY DEF CountySale, SaleOf, Content, File, Parsed
<1>3. \A s \in CountySale : Knowledge(s)' \in 0..2
  BY DEF Knowledge
<1>4. Ledger!Learn(level)
  BY <1>1, <1>2, <1>3
     DEF Ledger!Learn, Ledger!Level, Ledger!Unknown, Ledger!Authoritative
<1> QED BY <1>4 DEF Ledger!Next, Ledger!Provisional, Ledger!Authoritative

-----------------------------------------------------------------------------
(* Theorems.                                                                *)

\* The parts of the inductive invariant the other properties lean on.
IInv == TypeOK /\ OneRowPerKey /\ NoSupersededWeekly

LEMMA InitIInv == Init => IInv /\ NoSaleLost /\ NeighborhoodsFilled /\ LatestExportStored
<1> SUFFICES ASSUME Init
             PROVE  IInv /\ NoSaleLost /\ NeighborhoodsFilled /\ LatestExportStored
  OBVIOUS
<1>1. sales = {} /\ \A f \in File : dataFile[f] = NotIngested
  BY DEF Init
<1>2. TypeOK
  <2>1. parcels \subseteq Parcel /\ sales \subseteq {r \in Row : r.parcel \in parcels}
    BY DEF Init
  <2>2. dataFile \in [File -> (UNION {Content(f) : f \in File}) \cup {NotIngested}]
    BY DEF Init
  <2>3. \A f \in File : dataFile[f] = NotIngested \/ dataFile[f] \in Content(f)
    BY <1>1
  <2> QED BY <2>1, <2>2, <2>3 DEF TypeOK
<1>3. OneRowPerKey /\ NoSupersededWeekly /\ NeighborhoodsFilled
  BY <1>1 DEF OneRowPerKey, NoSupersededWeekly, NeighborhoodsFilled
<1>4. NoSaleLost /\ LatestExportStored
  BY <1>1 DEF NoSaleLost, LatestExportStored, File
<1> QED BY <1>2, <1>3, <1>4 DEF IInv

LEMMA Stuttering ==
    ASSUME UNCHANGED vars
    PROVE  /\ IInv => IInv'
           /\ NoSaleLost => NoSaleLost'
           /\ NeighborhoodsFilled => NeighborhoodsFilled'
           /\ LatestExportStored => LatestExportStored'
<1>1. IInv => IInv'
  BY DEF vars, IInv, TypeOK, OneRowPerKey, NoSupersededWeekly, Superseded
<1>2. NoSaleLost => NoSaleLost'
  BY DEF vars, NoSaleLost, Represented
<1>3. NeighborhoodsFilled => NeighborhoodsFilled'
  BY DEF vars, NeighborhoodsFilled, History
<1>4. LatestExportStored => LatestExportStored'
  BY DEF vars, LatestExportStored
<1> QED BY <1>1, <1>2, <1>3, <1>4

LEMMA StepIInv == IInv /\ [Next]_vars => IInv'
BY Stuttering, TypeStep, OneRowStep, NoSupersededStep DEF IInv

\* IInv is invariant: the table is well formed, holds one row per unique key,
\* and never a weekly row next to the yearly row that supersedes it.
THEOREM Invariance == Spec => []IInv
BY InitIInv, StepIInv, PTL DEF Spec

\* The tables stay well formed.
THEOREM TypeCorrect == Spec => []TypeOK
<1>1. IInv => TypeOK
  BY DEF IInv
<1> QED BY <1>1, Invariance, PTL

\* However many files repeat a sale, the unique keys hold one row for it.
THEOREM KeysUnique == Spec => []OneRowPerKey
<1>1. IInv => OneRowPerKey
  BY DEF IInv
<1> QED BY <1>1, Invariance, PTL

\* Whatever the order of files, no weekly row outlives the yearly row of its
\* conveyance, although pruning looks at the dates of one file only.
THEOREM WeeklySuperseded == Spec => []NoSupersededWeekly
<1>1. IInv => NoSupersededWeekly
  BY DEF IInv
<1> QED BY <1>1, Invariance, PTL

\* Pruning and overwriting never remove the last row of a sale some recorded
\* file holds.
THEOREM SalesKept == Spec => []NoSaleLost
<1>1. IInv /\ NoSaleLost /\ [Next]_vars => NoSaleLost'
  BY Stuttering, NoSaleLostStep DEF IInv
<1> QED BY <1>1, InitIInv, Invariance, PTL DEF Spec

\* A weekly row lacks a neighborhood only while its parcel's history does.
THEOREM NeighborhoodsKnown == Spec => []NeighborhoodsFilled
<1>1. IInv /\ NeighborhoodsFilled /\ [Next]_vars => NeighborhoodsFilled'
  BY Stuttering, NeighborhoodsStep DEF IInv
<1> QED BY <1>1, InitIInv, Invariance, PTL DEF Spec

\* The last recorded export of a yearly file is what the table shows.
THEOREM ExportsAuthoritative == Spec => []LatestExportStored
<1>1. IInv /\ LatestExportStored /\ [Next]_vars => LatestExportStored'
  BY Stuttering, LatestExportStep DEF IInv
<1> QED BY <1>1, InitIInv, Invariance, PTL DEF Spec

\* A weekly file never changes or deletes a stored row, apart from filling in
\* a missing neighborhood.
THEOREM WeeklyProvisional == Spec => WeeklyOnlyFillsGaps
<1>1. IInv /\ [Next]_vars =>
         [(\E f \in WeeklyFile : dataFile'[f] # dataFile[f]) =>
             \A r \in sales : \E t \in sales' :
                 /\ \/ t = r
                    \/ /\ r.source = Weekly /\ r.nbhd = NULL
                       /\ t = [r EXCEPT !.nbhd = t.nbhd]]_vars
  BY WeeklyStep DEF IInv
<1> QED BY <1>1, Invariance, PTL DEF Spec, WeeklyOnlyFillsGaps

\* The table implements the ledger of sales: each step is a step of the
\* ledger or leaves it unchanged.
THEOREM LedgerImplemented == Spec => ImplementsLedger
<1>1. Init => Ledger!Init
  BY DEF Init, Ledger!Init, Ledger!Unknown, Knowledge
<1>2. IInv /\ Next => Ledger!Next
  BY LedgerStep DEF IInv
<1>3. UNCHANGED vars => UNCHANGED [s \in CountySale |-> Knowledge(s)]
  BY DEF vars, Knowledge, CountySale, SaleOf, Content, File, Parsed
<1> QED BY <1>1, <1>2, <1>3, Invariance, PTL DEF Spec, Ledger!Spec, ImplementsLedger

-----------------------------------------------------------------------------
(* The startup repair.                                                      *)

OldRows == {old[i] : i \in DOMAIN old}

\* Every row of the old table has a row for it in the given one.
KeepsOld(table) ==
    \A r \in OldRows : \E t \in table : SameKey(r, t) \/ (t.source = Yearly /\ SameConveyance(r, t))

RepairTypeOK ==
    /\ TypeOK
    /\ old \in Seq({r \in Row : r.source = Weekly})
    /\ \A i, j \in DOMAIN old : old[i] = old[j] => i = j
    /\ saved \in [sales: SUBSET {r \in Row : r.parcel \in parcels},
                  schema: SUBSET (Columns \cup Keys \cup {Retired})]
    /\ schema \subseteq Columns \cup Keys \cup {Retired}
    /\ step \in {"down", "columns", "dedupe", "keys", "serving"}

\* A committed database has all keys and no duplicates, or no key and the old rows.
SavedRight ==
    \/ Keys \subseteq saved.schema /\ UniqueKeys(saved.sales)
    \/ Keys \cap saved.schema = {} /\ saved.sales = OldRows

\* A repair starts from what is committed, and has deduplicated before it builds
\* the keys.
RepairRight ==
    /\ step # "keys" => sales = saved.sales
    /\ step \in {"down", "columns", "dedupe"} => Keys \cap schema = Keys \cap saved.schema
    /\ step \in {"keys", "serving"} => UniqueKeys(sales)
    /\ step = "serving" => Keys \subseteq saved.schema

RepairIInv ==
    /\ RepairTypeOK
    /\ SavedRight
    /\ RepairRight
    /\ KeepsOld(sales) /\ KeepsOld(saved.sales)

-----------------------------------------------------------------------------
(* Deduplication.                                                           *)

\* A nonempty set of positions has a first one.
LEMMA FirstPosition ==
    ASSUME NEW n \in Nat, NEW T, T \subseteq 1 .. n, T # {}
    PROVE  \E m \in T : \A k \in T : m <= k
<1> DEFINE U == {n + 1 - k : k \in T}
<1>1. \A k \in T : k \in Int /\ 1 <= k /\ k <= n
  OBVIOUS
<1>2. U \subseteq 1 .. n /\ U # {}
  <2>1. \A k \in T : n + 1 - k \in 1 .. n
    BY <1>1
  <2> QED BY <2>1
<1>3. PICK m \in U : \A k \in U : k <= m
  <2> HIDE DEF U
  <2> QED BY <1>2, LastPosition
<1>4. PICK i \in T : m = n + 1 - i
  BY <1>3
<1>5. \A k \in T : n + 1 - k <= n + 1 - i
  BY <1>3, <1>4
<1> QED BY <1>1, <1>5

\* Of the old rows, the oldest of each key stays, and no other.
LEMMA OldestRows ==
    ASSUME old \in Seq({r \in Row : r.source = Weekly}),
           \A i, j \in DOMAIN old : old[i] = old[j] => i = j
    PROVE  /\ Oldest(OldRows) \subseteq OldRows
           /\ UniqueKeys(Oldest(OldRows))
           /\ \A r \in OldRows : \E t \in Oldest(OldRows) : SameKey(r, t)
<1>1. /\ Len(old) \in Nat /\ DOMAIN old = 1 .. Len(old)
      /\ \A i \in 1 .. Len(old) : old[i] \in Row
  BY LenProperties, ElementOfSeq
<1>2. \A i, j \in DOMAIN old : Older(old[i], old[j]) <=> i < j
  BY <1>1 DEF Older
<1>3. Oldest(OldRows) \subseteq OldRows
  BY DEF Oldest
<1>4. ASSUME NEW r \in Oldest(OldRows), NEW s \in Oldest(OldRows), SameKey(r, s)
      PROVE  r = s
  <2>1. PICK i \in DOMAIN old, j \in DOMAIN old : r = old[i] /\ s = old[j]
    BY <1>3 DEF OldRows
  <2>2. r \in Row /\ s \in Row /\ SameKey(s, r)
    BY <1>1, <1>4, <2>1, SameKeyEquivalence
  <2>3. ~Older(r, s) /\ ~Older(s, r)
    BY <1>3, <1>4, <2>2 DEF Oldest
  <2> QED BY <1>1, <1>2, <2>1, <2>3
<1>5. ASSUME NEW r \in OldRows
      PROVE  \E t \in Oldest(OldRows) : SameKey(r, t)
  <2> DEFINE T == {k \in DOMAIN old : SameKey(old[k], r)}
  <2>1. r \in Row /\ T # {}
    BY <1>1, SameKeyEquivalence DEF OldRows
  <2>2. T \subseteq 1 .. Len(old)
    BY <1>1
  <2>3. PICK m \in T : \A k \in T : m <= k
    <3> HIDE DEF T
    <3> QED BY <1>1, <2>1, <2>2, FirstPosition
  <2>4. old[m] \in OldRows /\ old[m] \in Row /\ SameKey(old[m], r)
    BY <1>1, <2>3 DEF OldRows
  <2>5. ASSUME NEW k \in OldRows, SameKey(k, old[m])
        PROVE  ~Older(k, old[m])
    <3>1. PICK i \in DOMAIN old : k = old[i]
      BY DEF OldRows
    <3>2. i \in T
      BY <1>1, <2>1, <2>4, <2>5, <3>1, SameKeyEquivalence
    <3> QED BY <1>1, <1>2, <2>3, <3>1, <3>2
  <2>6. old[m] \in Oldest(OldRows)
    BY <2>4, <2>5 DEF Oldest
  <2> QED BY <2>1, <2>4, <2>6, SameKeyEquivalence
<1> QED BY <1>3, <1>4, <1>5 DEF UniqueKeys

-----------------------------------------------------------------------------
(* Steps.                                                                   *)

LEMMA KeepsOldComposes ==
    ASSUME NEW table, NEW next, table \subseteq Row, next \subseteq Row, OldRows \subseteq Row,
           KeepsOld(table), \A t \in table : \E u \in next : Keeps(t, u)
    PROVE  KeepsOld(next)
<1> SUFFICES ASSUME NEW r \in OldRows
             PROVE  \E u \in next : SameKey(r, u) \/ (u.source = Yearly /\ SameConveyance(r, u))
  BY DEF KeepsOld
<1>1. PICK t \in table : SameKey(r, t) \/ (t.source = Yearly /\ SameConveyance(r, t))
  BY DEF KeepsOld
<1>2. PICK u \in next : Keeps(t, u)
  BY <1>1
<1> QED BY <1>1, <1>2, KeepsComposes

LEMMA OldRowsType == RepairTypeOK => OldRows \subseteq Row
<1> SUFFICES ASSUME RepairTypeOK PROVE OldRows \subseteq Row
  OBVIOUS
<1>1. \A i \in 1 .. Len(old) : old[i] \in Row
  BY ElementOfSeq DEF RepairTypeOK
<1>2. DOMAIN old = 1 .. Len(old)
  BY LenProperties DEF RepairTypeOK
<1> QED BY <1>1, <1>2 DEF OldRows

\* The server ingests: the table has unique keys, so ingestion keeps every row.
LEMMA ServeStep == ASSUME RepairIInv, Serve PROVE RepairIInv'
<1>1. /\ TypeOK /\ UniqueKeys(sales) /\ Keys \subseteq saved.schema /\ step = "serving"
      /\ KeepsOld(sales)
  BY DEF RepairIInv, RepairTypeOK, RepairRight, Serve
<1>2. /\ Next /\ saved' = [saved EXCEPT !.sales = sales']
      /\ UNCHANGED <<old, schema, step>>
  BY DEF Serve
<1>3. OneRowPerKey
  BY <1>1 DEF OneRowPerKey, UniqueKeys
<1>4. TypeOK' /\ OneRowPerKey'
  BY <1>1, <1>2, <1>3, TypeStep, OneRowStep
<1>5. UniqueKeys(sales')
  BY <1>4 DEF OneRowPerKey, UniqueKeys
<1>6. saved'.sales = sales' /\ saved'.schema = saved.schema
  BY <1>2 DEF RepairIInv, RepairTypeOK
<1>7. \A t \in sales : \E u \in sales' : Keeps(t, u)
  <2>1. PICK f \in File : \E lines \in Content(f), source \in {Weekly, Yearly} :
           WriteFile(f, lines, source)
    BY <1>2, NextWritesFile
  <2>2. PICK lines \in Content(f), source \in {Weekly, Yearly} : WriteFile(f, lines, source)
    BY <2>1
  <2> QED BY <1>1, <1>3, <2>2, StepKeeps
<1>8. RepairTypeOK'
  <2>1. saved' \in [sales: SUBSET {r \in Row : r.parcel \in parcels'},
                    schema: SUBSET (Columns \cup Keys \cup {Retired})]
    BY <1>2, <1>4 DEF RepairIInv, RepairTypeOK, TypeOK
  <2> QED BY <1>2, <1>4, <2>1 DEF RepairIInv, RepairTypeOK
<1>9. KeepsOld(sales')
  <2>1. sales \subseteq Row /\ sales' \subseteq Row /\ OldRows \subseteq Row
    BY <1>1, <1>4, OldRowsType DEF TypeOK, RepairIInv
  <2> QED BY <1>1, <1>7, <2>1, KeepsOldComposes
<1>10. OldRows' = OldRows
  BY <1>2 DEF OldRows
<1>11. KeepsOld(sales)' /\ KeepsOld(saved.sales)'
  BY <1>6, <1>9, <1>10 DEF KeepsOld
<1>12. SavedRight' /\ RepairRight'
  BY <1>1, <1>2, <1>5, <1>6 DEF SavedRight, RepairRight, UniqueKeys
<1> QED BY <1>8, <1>11, <1>12 DEF RepairIInv

\* What the statements of the repair, and a stop, do to the types.
LEMMA RepairTypeStep == ASSUME RepairTypeOK, Repair \/ Crash PROVE RepairTypeOK'
<1>1. UNCHANGED <<old, parcels, dataFile>>
  BY DEF Repair, Crash
<1>2. /\ sales' \subseteq sales \cup saved.sales
      /\ schema' \subseteq schema \cup saved.schema \cup Columns \cup Keys
      /\ step' \in {"down", "columns", "dedupe", "keys", "serving"}
      /\ saved' \in {saved, [saved EXCEPT !.schema = schema'], [sales |-> sales, schema |-> schema']}
  <2>1. CASE StartRepair \/ ForgetYearly \/ CommitRepair
    BY <2>1 DEF StartRepair, ForgetYearly, CommitRepair, WithoutRetired
  <2>2. CASE Dedupe
    BY <2>2 DEF Dedupe, Oldest
  <2>3. ASSUME NEW c \in Columns, AddColumn(c)
        PROVE  /\ sales' = sales /\ schema' = schema \cup {c} /\ step' = step
               /\ saved' \in {saved, [saved EXCEPT !.schema = schema']}
    BY <2>3 DEF AddColumn
  <2>4. ASSUME NEW k \in Keys, CreateKey(k)
        PROVE  sales' = sales /\ schema' = schema \cup {k} /\ step' = step /\ saved' = saved
    BY <2>4 DEF CreateKey
  <2>5. CASE Crash
    BY <2>5 DEF Crash
  <2> QED BY <2>1, <2>2, <2>3, <2>4, <2>5 DEF Repair, RepairTypeOK
<1>3. schema' \subseteq Columns \cup Keys \cup {Retired}
  BY <1>2 DEF RepairTypeOK
<1>4. saved' \in [sales: SUBSET {r \in Row : r.parcel \in parcels'},
                  schema: SUBSET (Columns \cup Keys \cup {Retired})]
  BY <1>1, <1>2, <1>3 DEF RepairTypeOK, TypeOK
<1>5. TypeOK'
  BY <1>1, <1>2 DEF RepairTypeOK, TypeOK
<1> QED BY <1>1, <1>2, <1>3, <1>4, <1>5 DEF RepairTypeOK

\* Rows are deduplicated while no key is there, so every key can be created;
\* what was committed before is what a stop brings back.
LEMMA RepairStep == ASSUME RepairIInv, Repair \/ Crash PROVE RepairIInv'
<1>1. /\ RepairTypeOK /\ SavedRight /\ RepairRight /\ KeepsOld(sales) /\ KeepsOld(saved.sales)
  BY DEF RepairIInv
<1>2. RepairTypeOK'
  BY <1>1, RepairTypeStep
<1>3. OldRows' = OldRows
  BY DEF Repair, Crash, OldRows
<1>4. Columns \cap Keys = {} /\ Retired \notin Keys
  BY DEF Columns, Keys, Retired
<1>5. CASE StartRepair \/ ForgetYearly
  BY <1>1, <1>2, <1>3, <1>5
     DEF StartRepair, ForgetYearly, RepairIInv, SavedRight, RepairRight, KeepsOld
<1>6. ASSUME NEW c \in Columns, AddColumn(c)
      PROVE  RepairIInv'
  <2>1. /\ sales' = sales /\ step' = step /\ step = "columns"
        /\ saved' \in {saved, [saved EXCEPT !.schema = schema']} /\ schema' = schema \cup {c}
    BY <1>6 DEF AddColumn
  <2>2. Keys \cap schema' = Keys \cap schema /\ Keys \cap schema = Keys \cap saved.schema
    BY <1>1, <1>4, <2>1 DEF RepairRight
  <2>3. saved'.sales = saved.sales /\ Keys \cap saved'.schema = Keys \cap saved.schema
    BY <1>1, <2>1, <2>2 DEF RepairTypeOK
  <2>4. SavedRight'
    BY <1>1, <1>3, <2>3 DEF SavedRight, UniqueKeys
  <2>5. RepairRight'
    BY <1>1, <2>1, <2>2, <2>3 DEF RepairRight
  <2>6. KeepsOld(sales)' /\ KeepsOld(saved.sales)'
    BY <1>1, <1>3, <2>1, <2>3 DEF KeepsOld
  <2> QED BY <1>2, <2>4, <2>5, <2>6 DEF RepairIInv
<1>7. CASE Dedupe
  <2>1. /\ step = "dedupe" /\ step' = "keys" /\ saved' = saved /\ schema' = schema
        /\ sales' = IF Missing # {} THEN Oldest(sales) ELSE sales
    BY <1>7 DEF Dedupe
  <2>2. sales = saved.sales /\ Keys \cap schema = Keys \cap saved.schema
    BY <1>1, <2>1 DEF RepairRight
  <2>3. UniqueKeys(sales') /\ KeepsOld(sales')
    <3>1. CASE Keys \subseteq saved.schema /\ UniqueKeys(saved.sales)
      <4>1. Missing = {}
        BY <2>2, <3>1 DEF Missing
      <4> QED BY <1>1, <2>1, <2>2, <3>1, <4>1
    <3>2. CASE Keys \cap saved.schema = {} /\ saved.sales = OldRows
      <4>1. Missing # {}
        BY <2>2, <3>2 DEF Missing, Keys
      <4>2. sales' = Oldest(OldRows)
        BY <2>1, <2>2, <3>2, <4>1
      <4> QED BY <1>1, <4>2, OldestRows DEF RepairTypeOK, KeepsOld
    <3> QED BY <1>1, <3>1, <3>2 DEF SavedRight
  <2>4. SavedRight'
    BY <1>1, <1>3, <2>1 DEF SavedRight
  <2>5. RepairRight'
    BY <2>1, <2>3 DEF RepairRight, UniqueKeys
  <2>6. KeepsOld(sales)' /\ KeepsOld(saved.sales)'
    BY <1>1, <1>3, <2>1, <2>3 DEF KeepsOld
  <2> QED BY <1>2, <2>4, <2>5, <2>6 DEF RepairIInv
<1>8. ASSUME NEW k \in Keys, CreateKey(k)
      PROVE  RepairIInv'
  <2>1. step = "keys" /\ UNCHANGED <<sales, saved, step>>
    BY <1>8 DEF CreateKey
  <2> QED BY <1>1, <1>2, <1>3, <2>1 DEF RepairIInv, SavedRight, RepairRight, KeepsOld, UniqueKeys
<1>9. CASE CommitRepair
  <2>1. /\ step = "keys" /\ Keys \subseteq schema /\ schema' = schema \ {Retired}
        /\ saved'.sales = sales /\ saved'.schema = schema' /\ step' = "serving" /\ sales' = sales
    BY <1>9 DEF CommitRepair, WithoutRetired
  <2>2. UniqueKeys(sales) /\ Keys \subseteq schema'
    BY <1>1, <1>4, <2>1 DEF RepairRight
  <2>3. SavedRight' /\ RepairRight'
    BY <2>1, <2>2 DEF SavedRight, RepairRight, UniqueKeys
  <2>4. KeepsOld(sales)' /\ KeepsOld(saved.sales)'
    BY <1>1, <1>3, <2>1 DEF KeepsOld
  <2> QED BY <1>2, <2>3, <2>4 DEF RepairIInv
<1>10. CASE Crash
  BY <1>1, <1>2, <1>3, <1>10 DEF Crash, RepairIInv, SavedRight, RepairRight, KeepsOld, UniqueKeys
<1> QED BY <1>5, <1>6, <1>7, <1>8, <1>9, <1>10 DEF Repair

-----------------------------------------------------------------------------
(* Theorems.                                                                *)

\* What was committed last is either the old table without a key or a table with
\* all keys and no duplicates, and holds a row for every old one.
THEOREM RepairInvariance == RepairSpec => []RepairIInv
<1>1. RepairInit => RepairIInv
  <2> SUFFICES ASSUME RepairInit PROVE RepairIInv
    OBVIOUS
  <2>1. PICK t \in Legacy :
           /\ old = t.rows
           /\ dataFile = [f \in File |-> IF f \in WeeklyFile THEN t.zips[f] ELSE NotIngested]
    BY DEF RepairInit
  <2>2. /\ sales = OldRows /\ parcels = {r.parcel : r \in sales} /\ schema = {Retired}
        /\ saved = [sales |-> sales, schema |-> schema] /\ step = "down"
    BY DEF RepairInit, OldRows
  <2>3. /\ old \in Seq({r \in Row : r.source = Weekly})
        /\ \A i, j \in DOMAIN old : old[i] = old[j] => i = j
        /\ \A f \in WeeklyFile : t.zips[f] \in WeeklyContent[f] \cup {NotIngested}
    BY <2>1, RepairAssumption DEF SameNatural
  <2>4. OldRows \subseteq Row
    <3>1. \A i \in 1 .. Len(old) : old[i] \in Row
      BY <2>3, ElementOfSeq
    <3>2. DOMAIN old = 1 .. Len(old)
      BY <2>3, LenProperties
    <3> QED BY <3>1, <3>2 DEF OldRows
  <2>5. \A f \in File : dataFile[f] = NotIngested \/ dataFile[f] \in Content(f)
    BY <2>1, <2>3, SalesAssumption DEF Content
  <2>6. dataFile \in [File -> (UNION {Content(f) : f \in File}) \cup {NotIngested}]
    <3>1. \A f \in File : dataFile[f] \in (UNION {Content(g) : g \in File}) \cup {NotIngested}
      BY <2>5
    <3>2. dataFile = [f \in File |-> dataFile[f]]
      BY <2>1
    <3> QED BY <3>1, <3>2
  <2>7. parcels \subseteq Parcel /\ sales \subseteq {r \in Row : r.parcel \in parcels}
    BY <2>2, <2>4 DEF Row
  <2>8. TypeOK
    BY <2>5, <2>6, <2>7 DEF TypeOK
  <2>9. Keys \cap {Retired} = {}
    BY DEF Keys, Retired
  <2>10. RepairTypeOK
    BY <2>2, <2>3, <2>7, <2>8 DEF RepairTypeOK
  <2>11. SavedRight /\ RepairRight
    BY <2>2, <2>9 DEF SavedRight, RepairRight
  <2>12. KeepsOld(sales)
    BY <2>2, <2>4, SameKeyEquivalence DEF KeepsOld
  <2> QED BY <2>2, <2>10, <2>11, <2>12 DEF RepairIInv
<1>2. RepairIInv /\ [RepairNext]_<<vars, repairVars>> => RepairIInv'
  <2>1. ASSUME RepairIInv, UNCHANGED <<vars, repairVars>> PROVE RepairIInv'
    BY <2>1 DEF vars, repairVars, RepairIInv, RepairTypeOK, TypeOK, SavedRight, RepairRight,
                KeepsOld, OldRows, UniqueKeys
  <2> QED BY <2>1, ServeStep, RepairStep DEF RepairNext
<1> QED BY <1>1, <1>2, PTL DEF RepairSpec

\* Whatever duplicates old code left and wherever earlier repairs stopped, the
\* unique indexes can be built, and no file ingested afterwards breaks one.
THEOREM RepairSucceeds == RepairSpec => []KeysCanBeCreated
<1>1. RepairIInv => KeysCanBeCreated
  BY DEF RepairIInv, RepairRight, KeysCanBeCreated, Violates, UniqueKeys
<1> QED BY <1>1, RepairInvariance, PTL

\* Deduplication, restarts and later ingestion lose no sale of the old table.
THEOREM RepairKeepsSales == RepairSpec => []OldSalesKept
<1>1. RepairIInv => OldSalesKept
  BY DEF RepairIInv, KeepsOld, OldRows, OldSalesKept, Represented
<1> QED BY <1>1, RepairInvariance, PTL
================================================================================
