---------------------------- MODULE SalesRowsProofs ----------------------------
(***************************************************************************)
(* Lemmas about SalesRows: what each statement of a file's transaction     *)
(* does to a table, for every set of parcels and sales.  The proofs about  *)
(* ingestion, one file after another or two at once, build on them.        *)
(***************************************************************************)
EXTENDS SalesRows, TLAPS, FiniteSetTheorems, SequenceTheorems

-----------------------------------------------------------------------------
(* Lines of a file.                                                         *)

\* A nonempty set of positions has a last one.
LEMMA LastPosition ==
    ASSUME NEW n \in Nat, NEW T, T \subseteq 1..n, T # {}
    PROVE  \E m \in T : \A k \in T : k <= m
<1> DEFINE S == 1..n
           F == {k..n : k \in T}
           R == StrictSubsetOrdering(S)
<1>1. \A k \in T : k..n \in SUBSET S
  OBVIOUS
<1>2. F \subseteq FiniteSubsetsOf(S)
  <2>1. \A k \in T : IsFiniteSet(k..n)
    BY FS_Interval
  <2> QED BY <1>1, <2>1 DEF FiniteSubsetsOf
<1>3. F # {}
  OBVIOUS
<1>4. IsWellFoundedOn(R, FiniteSubsetsOf(S))
  BY FS_StrictSubsetOrderingWellFounded
<1>5. PICK x \in F : \A y \in F : ~(<<y, x>> \in R)
  <2> HIDE DEF R, F, S
  <2> QED BY <1>2, <1>3, <1>4, WFMin
<1>6. PICK m \in T : x = m..n
  OBVIOUS
<1>7. ASSUME NEW k \in T, ~(k <= m) PROVE FALSE
  <2>1. k..n \in F /\ k..n \subseteq m..n /\ k..n # m..n
    BY <1>7
  <2>2. <<k..n, x>> \in R
    BY <1>1, <1>6, <2>1 DEF StrictSubsetOrdering
  <2> QED BY <1>5, <2>1, <2>2
<1> QED BY <1>7

\* What a file of lines is made of.
LEMMA ParsedType ==
    ASSUME NEW lines \in Seq(Line)
    PROVE  /\ lines \in Seq(Line)
           /\ Parsed(lines) \subseteq 1..Len(lines)
           /\ \A i \in Parsed(lines) : lines[i] \in Row /\ lines[i].source = Weekly
BY RowsAssumption DEF Parsed, Line

LEMMA SameKeyEquivalence ==
    /\ \A r \in Row : SameKey(r, r)
    /\ \A r, s \in Row : SameKey(r, s) => SameKey(s, r)
    /\ \A r, s, t \in Row : SameKey(r, s) /\ SameKey(s, t) => SameKey(r, t)
BY DEF SameKey, SameConveyance, SameLegacy, Row

\* The last of the lines with a given key is kept.
LEMMA CollapsedRows ==
    ASSUME NEW lines \in Seq(Line)
    PROVE  /\ Collapsed(lines) \subseteq {lines[i] : i \in Parsed(lines)}
           /\ \A r, s \in Collapsed(lines) : SameKey(r, s) => r = s
           /\ \A i \in Parsed(lines) : \E r \in Collapsed(lines) : SameKey(lines[i], r)
<1>1. Collapsed(lines) \subseteq {lines[i] : i \in Parsed(lines)}
  BY DEF Collapsed
<1>2. \A r, s \in Collapsed(lines) : SameKey(r, s) => r = s
  <2> SUFFICES ASSUME NEW r \in Collapsed(lines), NEW s \in Collapsed(lines),
                      SameKey(r, s)
               PROVE  r = s
    OBVIOUS
  <2>1. PICK i \in Parsed(lines) :
           r = lines[i] /\ \A j \in Parsed(lines) : j > i => ~SameKey(lines[j], lines[i])
    BY DEF Collapsed
  <2>2. PICK k \in Parsed(lines) :
           s = lines[k] /\ \A j \in Parsed(lines) : j > k => ~SameKey(lines[j], lines[k])
    BY DEF Collapsed
  <2>3. SameKey(s, r)
    BY <2>1, <2>2, SameKeyEquivalence, ParsedType
  <2>4. i \in Int /\ k \in Int
    BY ParsedType, LenProperties
  <2> QED BY <2>1, <2>2, <2>3, <2>4
<1>3. ASSUME NEW i \in Parsed(lines)
      PROVE  \E r \in Collapsed(lines) : SameKey(lines[i], r)
  <2> DEFINE T == {k \in Parsed(lines) : SameKey(lines[i], lines[k])}
  <2>1. i \in T
    BY SameKeyEquivalence, ParsedType
  <2>2. Len(lines) \in Nat /\ T \subseteq 1..Len(lines)
    BY ParsedType, LenProperties
  <2>3. PICK m \in T : \A k \in T : k <= m
    <3> HIDE DEF T
    <3> QED BY <2>1, <2>2, LastPosition
  <2>4. ASSUME NEW j \in Parsed(lines), j > m PROVE ~SameKey(lines[j], lines[m])
    <3> SUFFICES ASSUME SameKey(lines[j], lines[m]) PROVE FALSE
      OBVIOUS
    <3>1. lines[i] \in Row /\ lines[j] \in Row /\ lines[m] \in Row
      BY ParsedType
    <3>2. SameKey(lines[i], lines[j])
      BY <3>1, SameKeyEquivalence
    <3>3. j \in Int /\ m \in Int
      BY ParsedType, LenProperties
    <3> QED BY <2>3, <2>4, <3>2, <3>3
  <2>5. lines[m] \in Collapsed(lines)
    BY <2>4 DEF Collapsed
  <2> QED BY <2>5
<1> QED BY <1>1, <1>2, <1>3

-----------------------------------------------------------------------------
(* The statements of one file's transaction.                                *)

UniqueKeys(table) == \A r, s \in table : SameKey(r, s) => r = s

\* The rows a file brings, as the upsert receives them.
LEMMA StoredRows ==
    ASSUME NEW lines \in Seq(Line), NEW source \in {Weekly, Yearly}
    PROVE  LET rows == Stored(Collapsed(lines), source) IN
           /\ rows \subseteq Row
           /\ \A r \in rows : /\ r.source = source
                              /\ \E i \in Parsed(lines) : /\ SameKey(lines[i], r)
                                                          /\ r.date = lines[i].date
                                                          /\ r.parcel = lines[i].parcel
           /\ UniqueKeys(rows)
           /\ \A i \in Parsed(lines) : \E r \in rows : SameKey(lines[i], r)
<1> DEFINE rows == Stored(Collapsed(lines), source)
           S(r) == [r EXCEPT !.source = source]
<1>1. ASSUME NEW r \in Row
      PROVE  /\ S(r) \in Row /\ S(r).source = source
             /\ S(r).date = r.date /\ S(r).parcel = r.parcel
             /\ SameKey(r, S(r))
             /\ \A s \in Row : SameKey(S(r), S(s)) => SameKey(r, s)
             /\ \A s \in Row : SameKey(s, r) => SameKey(s, S(r))
  BY DEF Row, SameKey, SameConveyance, SameLegacy, Weekly, Yearly
<1>2. /\ rows = {S(r) : r \in Collapsed(lines)}
      /\ Collapsed(lines) \subseteq {lines[i] : i \in Parsed(lines)}
      /\ Collapsed(lines) \subseteq Row
  BY CollapsedRows, ParsedType DEF Stored
<1> HIDE DEF rows, S
<1>3. rows \subseteq Row
  BY <1>1, <1>2
<1>4. ASSUME NEW r \in rows
      PROVE  /\ r.source = source
             /\ \E i \in Parsed(lines) : /\ SameKey(lines[i], r)
                                         /\ r.date = lines[i].date
                                         /\ r.parcel = lines[i].parcel
  <2>1. PICK c \in Collapsed(lines) : r = S(c)
    BY <1>2
  <2>2. PICK i \in Parsed(lines) : c = lines[i]
    BY <1>2
  <2> QED BY <1>1, <1>2, <2>1, <2>2
<1>5. UniqueKeys(rows)
  <2> SUFFICES ASSUME NEW r \in rows, NEW s \in rows, SameKey(r, s) PROVE r = s
    BY DEF UniqueKeys
  <2>1. PICK b \in Collapsed(lines), c \in Collapsed(lines) : r = S(b) /\ s = S(c)
    BY <1>2
  <2> QED BY <1>1, <1>2, <2>1, CollapsedRows
<1>6. ASSUME NEW i \in Parsed(lines)
      PROVE  \E r \in rows : SameKey(lines[i], r)
  <2>1. PICK c \in Collapsed(lines) : SameKey(lines[i], c)
    BY CollapsedRows
  <2> QED BY <1>1, <1>2, <2>1, ParsedType
<1> QED BY <1>3, <1>4, <1>5, <1>6 DEF rows

\* An upsert keeps a row for every key, and yearly rows yearly.
LEMMA UpsertTable ==
    ASSUME NEW table, table \subseteq Row, UniqueKeys(table),
           NEW rows, rows \subseteq Row, UniqueKeys(rows),
           NEW source \in {Weekly, Yearly}, \A r \in rows : r.source = source
    PROVE  LET upserted == Upsert(table, rows, source = Yearly) IN
           /\ upserted \subseteq table \cup rows
           /\ UniqueKeys(upserted)
           /\ \A r \in rows : \E u \in upserted :
                 SameKey(r, u) /\ (source = Yearly => u = r)
           /\ \A t \in table : \E u \in upserted :
                 SameKey(t, u) /\ (t.source = Yearly => u.source = Yearly)
           /\ source = Weekly => table \subseteq upserted
           /\ \A t \in table : t \in upserted \/ \E r \in rows : SameKey(r, t)
<1>1. CASE source = Yearly
  <2> DEFINE upserted == {t \in table : \A r \in rows : ~SameKey(r, t)} \cup rows
  <2>1. UniqueKeys(upserted)
    BY SameKeyEquivalence DEF UniqueKeys
  <2>2. \A t \in table : \E u \in upserted :
           SameKey(t, u) /\ (t.source = Yearly => u.source = Yearly)
    BY <1>1, SameKeyEquivalence
  <2>3. Upsert(table, rows, source = Yearly) = upserted
    BY <1>1 DEF Upsert
  <2> QED BY <1>1, <2>1, <2>2, <2>3, SameKeyEquivalence DEF Weekly, Yearly
<1>2. CASE source = Weekly
  <2> DEFINE upserted == table \cup {r \in rows : \A t \in table : ~SameKey(r, t)}
  <2>1. UniqueKeys(upserted)
    BY SameKeyEquivalence DEF UniqueKeys
  <2>2. \A r \in rows : \E u \in upserted : SameKey(r, u)
    BY SameKeyEquivalence
  <2>3. Upsert(table, rows, source = Yearly) = upserted
    BY <1>2 DEF Upsert, Weekly, Yearly
  <2> QED BY <1>2, <2>1, <2>2, <2>3, SameKeyEquivalence DEF Weekly, Yearly
<1> QED BY <1>1, <1>2

\* Pruning deletes weekly rows only, and only next to a yearly row that stays.
LEMMA PruneTable ==
    ASSUME NEW table, table \subseteq Row, NEW lines
    PROVE  LET pruned == PruneSuperseded(table, lines) IN
           /\ pruned \subseteq table
           /\ \A t \in table : t.source = Yearly => t \in pruned
           /\ \A t \in table : t \in pruned \/ \E y \in pruned :
                 y.source = Yearly /\ SameConveyance(t, y)
BY DEF PruneSuperseded, Superseded, Weekly, Yearly

\* Filling changes the neighborhood of a weekly row, and nothing else.
SameButNbhd(r, t) ==
    /\ r.parcel = t.parcel /\ r.date = t.date /\ r.conv = t.conv
    /\ r.price = t.price /\ r.seller = t.seller /\ r.buyer = t.buyer
    /\ r.source = t.source

LEMMA FilledRow ==
    ASSUME NEW table, table \subseteq Row, NEW pick \in [Parcel -> Nbhd], NEW r \in Row
    PROVE  LET t == Filled(r, table, pick) IN
           /\ t \in Row
           /\ SameButNbhd(r, t)
           /\ r.source = Yearly \/ r.nbhd # NULL => t = r
           /\ r.source = Weekly /\ t.nbhd = NULL => History(r.parcel, table) = {}
           /\ History(r.parcel, table) = {} => t = r
<1> DEFINE t == Filled(r, table, pick)
<1>1. NULL \notin Nbhd /\ Weekly # Yearly
  BY RowsAssumption DEF Weekly, Yearly
<1>2. CASE r.nbhd = NULL /\ r.source = Weekly /\ History(r.parcel, table) # {}
  <2>1. t = [r EXCEPT !.nbhd = pick[r.parcel]]
    BY <1>2 DEF Filled
  <2>2. pick[r.parcel] \in Nbhd
    BY DEF Row
  <2> HIDE DEF t
  <2>3. t \in Row /\ SameButNbhd(r, t) /\ t.nbhd = pick[r.parcel]
    BY <2>1, <2>2 DEF Row, SameButNbhd
  <2> QED BY <1>1, <1>2, <2>1, <2>2, <2>3 DEF t
<1>3. CASE ~(r.nbhd = NULL /\ r.source = Weekly /\ History(r.parcel, table) # {})
  <2>1. t = [r EXCEPT !.nbhd = r.nbhd]
    BY <1>3 DEF Filled
  <2>2. t = r
    BY <2>1 DEF Row
  <2> QED BY <1>1, <1>3, <2>2 DEF SameButNbhd, Row
<1> QED BY <1>2, <1>3

\* The table after a step, from the table before neighborhoods were filled.
LEMMA FilledTable ==
    ASSUME NEW table, table \subseteq Row, NEW pick \in Picks(table)
    PROVE  LET filled == FillNeighborhood(table, pick) IN
           /\ filled \subseteq Row
           /\ \A t \in filled : \E r \in table : SameButNbhd(r, t)
           /\ \A r \in table : \E t \in filled : SameButNbhd(r, t)
           /\ \A r \in table : r.source = Yearly => r \in filled
           /\ UniqueKeys(table) => UniqueKeys(filled)
           /\ \A t \in filled : t.source = Weekly /\ t.nbhd = NULL =>
                 History(t.parcel, filled) = {}
<1> DEFINE filled == FillNeighborhood(table, pick)
           F(r) == Filled(r, table, pick)
<1>1. filled = {F(r) : r \in table} /\ pick \in [Parcel -> Nbhd]
  BY DEF FillNeighborhood, Picks
<1>2. ASSUME NEW r \in table
      PROVE  /\ F(r) \in Row
             /\ SameButNbhd(r, F(r))
             /\ r.source = Yearly => F(r) = r
             /\ r.source = Weekly /\ F(r).nbhd = NULL => History(r.parcel, table) = {}
             /\ History(r.parcel, table) = {} => F(r) = r
  <2>1. r \in Row /\ pick \in [Parcel -> Nbhd]
    BY <1>1
  <2> QED BY ONLY <2>1, FilledRow, table \subseteq Row
<1> HIDE DEF filled, F
<1>3. ASSUME NEW r \in table, NEW s \in table, SameKey(F(r), F(s))
      PROVE  SameKey(r, s)
  BY <1>2, <1>3 DEF SameButNbhd, SameKey, SameConveyance, SameLegacy
<1>4. UniqueKeys(table) => UniqueKeys(filled)
  BY <1>1, <1>3 DEF UniqueKeys
<1>5. ASSUME NEW t \in filled, t.source = Weekly, t.nbhd = NULL,
             NEW h \in filled, h.parcel = t.parcel, h.nbhd # NULL
      PROVE  FALSE
  <2>1. PICK r \in table, g \in table : t = F(r) /\ h = F(g)
    BY <1>1
  <2>2. History(r.parcel, table) = {} /\ g.parcel = r.parcel
    BY <1>2, <1>5, <2>1 DEF SameButNbhd
  <2>3. h = g
    BY <1>2, <2>1, <2>2
  <2> QED BY <1>5, <2>2, <2>3 DEF History
<1>6. \A t \in filled : t.source = Weekly /\ t.nbhd = NULL =>
         History(t.parcel, filled) = {}
  BY <1>5 DEF History
<1> QED BY <1>1, <1>2, <1>4, <1>6 DEF filled

\* What every statement does to the table as a whole: t keeps what r tells.
Keeps(r, t) ==
    /\ SameKey(r, t) \/ (t.source = Yearly /\ SameConveyance(r, t))
    /\ r.source = Yearly => t.source = Yearly /\ SameKey(r, t)


\* Keeps composes: what stands for a row that stands for a sale stands for it.
LEMMA KeepsComposes ==
    ASSUME NEW r \in Row, NEW s \in Row, NEW t \in Row,
           SameKey(r, s) \/ (s.source = Yearly /\ SameConveyance(r, s)),
           Keeps(s, t)
    PROVE  SameKey(r, t) \/ (t.source = Yearly /\ SameConveyance(r, t))
BY DEF Keeps, SameKey, SameConveyance, SameLegacy, Row
================================================================================
