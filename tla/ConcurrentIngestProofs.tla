------------------------ MODULE ConcurrentIngestProofs ------------------------
(***************************************************************************)
(* Theorems about ConcurrentIngest for every set of processes, files and   *)
(* sales, on either database.  An open transaction is described by what a  *)
(* commit of it would leave (View), and by what stands, there, for each    *)
(* row it replaced or deleted.                                             *)
(***************************************************************************)
EXTENDS ConcurrentIngest, SalesRowsProofs

Phase == {"idle", "parcels", "rows", "prune", "fill", "forget", "commit"}

Tx == [pc: Phase, content: Contents \cup {<<>>}, left: SUBSET (Parcel \cup Row), wrote: BOOLEAN,
       newParcels: SUBSET Parcel, add: SUBSET Row, drop: SUBSET Row, gone: SUBSET Record]

\* The rows a process brings to the table.
Brought(p) == Stored(Collapsed(tx[p].content), SourceOf(Current(p)))

\* What p holds at the statement it is at.
PhaseOK(p) ==
    /\ tx[p].pc # "idle" => todo[p] # <<>> /\ tx[p].content \in Contents
    /\ tx[p].pc = "parcels" => tx[p].left \subseteq Parcel
    /\ tx[p].pc = "rows" => tx[p].left \subseteq Brought(p)

TypeOK ==
    /\ backend \in Backend
    /\ parcels \subseteq Parcel /\ sales \subseteq Row /\ records \subseteq Record
    /\ todo \in [Proc -> Seq(Seq(File) \ {<<>>})]
    /\ tx \in [Proc -> Tx]
    /\ \A p \in Proc : PhaseOK(p)

\* Row locks: no two open transactions wrote the same row.
Wrote(p) == tx[p].add \cup tx[p].drop

WritesApart == \A p, q \in Proc : p # q => Wrote(p) \cap Wrote(q) = {}

\* t tells the sale of r: it has its key, or is the yearly row of its conveyance.
Tells(t, r) == SameKey(r, t) \/ (t.source = Yearly /\ SameConveyance(r, t))

\* For each row p took away there is one that p wrote, or, for a weekly row, the
\* yearly one, which p may only have read.
Stands(p) ==
    \A t \in tx[p].drop :
        \/ \E u \in tx[p].add : Keeps(t, u)
        \/ t.source = Weekly /\ \E y \in View(p) : y.source = Yearly /\ SameConveyance(t, y)

\* The rows p is done with are told.
DoneTold(p) ==
    /\ tx[p].pc = "rows" => \A r \in Brought(p) \ tx[p].left : \E t \in View(p) : Tells(t, r)
    /\ tx[p].pc \in {"prune", "fill", "forget", "commit"} =>
          \A i \in DOMAIN tx[p].content : \E t \in View(p) : Tells(t, tx[p].content[i])

IInv ==
    /\ TypeOK
    /\ WritesApart
    /\ \A p \in Proc : Stands(p) /\ DoneTold(p)
    /\ NoSaleLost

-----------------------------------------------------------------------------
(* Types.                                                                   *)

LEMMA ContentsType ==
    \A c \in Contents : c \in Seq(Line) /\ Parsed(c) = DOMAIN c /\ \A i \in DOMAIN c : c[i] \in Row
<1> SUFFICES ASSUME NEW c \in Contents
             PROVE  c \in Seq(Line) /\ Parsed(c) = DOMAIN c /\ \A i \in DOMAIN c : c[i] \in Row
  OBVIOUS
<1>1. c \in Seq({r \in Row : r.source = Weekly})
  BY ConcurrentAssumption
<1>2. Len(c) \in Nat /\ DOMAIN c = 1 .. Len(c)
  BY <1>1, LenProperties
<1>3. \A i \in 1 .. Len(c) : c[i] \in {r \in Row : r.source = Weekly}
  BY <1>1, ElementOfSeq
<1>4. c \in Seq(Line)
  <2>1. c = [i \in 1 .. Len(c) |-> c[i]]
    BY <1>1, <1>2, SeqDef
  <2>2. c \in [1 .. Len(c) -> Line]
    BY <1>3, <2>1 DEF Line
  <2> QED BY <1>2, <2>2, SeqDef
<1>5. Parsed(c) = DOMAIN c
  BY <1>2, <1>3, RowsAssumption DEF Parsed
<1> QED BY <1>2, <1>3, <1>4, <1>5

LEMMA BroughtRows ==
    ASSUME NEW c \in Contents, NEW source \in {Weekly, Yearly}
    PROVE  LET rows == Stored(Collapsed(c), source) IN
           /\ rows \subseteq Row
           /\ \A r \in rows : r.source = source
           /\ \A i \in DOMAIN c : \E r \in rows : SameKey(c[i], r)
<1>1. c \in Seq(Line) /\ Parsed(c) = DOMAIN c
  BY ContentsType
<1> QED BY <1>1, StoredRows

LEMMA OnwardType ==
    ASSUME NEW steps \in Seq(Seq(File) \ {<<>>}), steps # <<>>
    PROVE  Onward(steps) \in Seq(Seq(File) \ {<<>>})
<1> DEFINE S == Seq(File) \ {<<>>}
<1>1. Head(steps) \in S /\ Tail(steps) \in Seq(S)
  BY HeadTailProperties
<1>2. CASE Len(Head(steps)) = 1
  BY <1>1, <1>2 DEF Onward
<1>3. CASE Len(Head(steps)) # 1
  <2>1. Head(steps) \in Seq(File) /\ Head(steps) # <<>>
    BY <1>1
  <2>2. /\ Tail(Head(steps)) \in Seq(File)
        /\ Len(Tail(Head(steps))) = Len(Head(steps)) - 1
    BY <2>1, HeadTailProperties
  <2>3. Len(Head(steps)) \in Nat /\ Len(Head(steps)) # 0
    BY <2>1, LenProperties, EmptySeq
  <2>4. Tail(Head(steps)) # <<>>
    <3>1. Len(Tail(Head(steps))) # 0
      BY <1>3, <2>2, <2>3
    <3> QED BY <2>2, <3>1, EmptySeq
  <2>5. Tail(Head(steps)) \in S
    BY <2>2, <2>4
  <2> HIDE DEF S
  <2>6. <<Tail(Head(steps))>> \in Seq(S)
    BY <2>5
  <2>7. <<Tail(Head(steps))>> \o Tail(steps) \in Seq(S)
    BY <1>1, <2>6, ConcatProperties
  <2> QED BY <1>3, <2>7 DEF Onward, S
<1> QED BY <1>2, <1>3

LEMMA CurrentType ==
    ASSUME TypeOK, NEW p \in Proc, todo[p] # <<>>
    PROVE  Current(p) \in File /\ SourceOf(Current(p)) \in {Weekly, Yearly}
<1>1. Head(todo[p]) \in Seq(File) \ {<<>>}
  BY HeadTailProperties DEF TypeOK
<1>2. Head(Head(todo[p])) \in File
  BY <1>1, HeadTailProperties
<1> QED BY <1>2 DEF Current, SourceOf

LEMMA ViewType == TypeOK => \A p \in Proc : View(p) \subseteq Row /\ sales \subseteq Row
<1> SUFFICES ASSUME TypeOK, NEW p \in Proc PROVE View(p) \subseteq Row /\ sales \subseteq Row
  OBVIOUS
<1>1. tx[p] \in Tx
  BY DEF TypeOK
<1> QED BY <1>1 DEF View, Tx, TypeOK

\* Filling rows yields rows that keep them.
LEMMA FilledKeeps ==
    ASSUME NEW table, table \subseteq Row, NEW pick \in Picks(table), NEW r \in Row
    PROVE  Filled(r, table, pick) \in Row /\ Keeps(r, Filled(r, table, pick))
<1>1. pick \in [Parcel -> Nbhd]
  BY DEF Picks
<1>2. Filled(r, table, pick) \in Row /\ SameButNbhd(r, Filled(r, table, pick))
  BY <1>1, FilledRow
<1> QED BY <1>2 DEF SameButNbhd, Keeps, SameKey, SameConveyance, SameLegacy, Row

\* p replaces the rows old by the rows new.
Statement(p, old, new) ==
    /\ UNCHANGED <<sales, records>>
    /\ \A q \in Proc \ {p} : tx'[q] = tx[q] /\ todo'[q] = todo[q]
    /\ tx'[p].add = (tx[p].add \ old) \cup new
    /\ tx'[p].drop = tx[p].drop \cup (old \ tx[p].add)
    /\ old \subseteq View(p) /\ new \subseteq Row
    /\ \A t \in old :
          \/ \E u \in new : Keeps(t, u)
          \/ t.source = Weekly /\ \E y \in View(p) : y.source = Yearly /\ SameConveyance(t, y)
    /\ \A q \in Proc \ {p} : (old \cup new) \cap Wrote(q) = {}

\* A statement that writes no sales.
LEMMA NoWrite ==
    ASSUME NEW p \in Proc, UNCHANGED <<sales, records>>,
           \A q \in Proc \ {p} : tx'[q] = tx[q] /\ todo'[q] = todo[q],
           tx'[p].add = tx[p].add, tx'[p].drop = tx[p].drop
    PROVE  Statement(p, {}, {})
BY DEF Statement

\* How the fields of a transaction change.
LEMMA UpsertRowStep ==
    ASSUME TypeOK, NEW p \in Proc, UpsertRow(p)
    PROVE  \E r \in tx[p].left : \E old, new \in SUBSET Row :
              /\ tx[p].pc = "rows" /\ r \in Brought(p)
              /\ Statement(p, old, new)
              /\ tx'[p] \in Tx /\ tx'[p].pc = "rows" /\ tx'[p].left = tx[p].left \ {r}
              /\ tx'[p].content = tx[p].content
              /\ r \in tx'[p].add \/ \E t \in View(p) : SameKey(r, t)
              /\ tx' \in [Proc -> Tx]
<1>1. PICK r \in tx[p].left :
         /\ Free(p, {r})
         /\ LET old == Conflicting(p, r)
                written == IF old = {} \/ SourceOf(Current(p)) = Yearly
                           THEN Replaced(tx[p], old, {r}) ELSE tx[p]
            IN tx' = [tx EXCEPT ![p] = [written EXCEPT !.left = @ \ {r}]]
  BY DEF UpsertRow
<1>2. tx \in [Proc -> Tx] /\ tx[p] \in Tx /\ tx[p].pc = "rows" /\ UNCHANGED <<sales, records, todo>>
  BY DEF UpsertRow, TypeOK
<1>3. r \in Brought(p) /\ tx[p].content \in Contents /\ todo[p] # <<>>
  BY <1>2 DEF TypeOK, PhaseOK
<1>4. r \in Row /\ r.source = SourceOf(Current(p))
  BY <1>3, CurrentType, BroughtRows DEF Brought
<1> DEFINE old == Conflicting(p, r)
<1>5. old \subseteq View(p) /\ old \subseteq Row /\ \A t \in old : SameKey(t, r)
  BY ViewType DEF Conflicting
<1>6. \A q \in Proc \ {p} : r \notin Wrote(q) /\ old \cap Wrote(q) = {}
  BY <1>1, <1>5 DEF Free, Others, Touches, Wrote, SameKey, SameConveyance, SameLegacy
<1> HIDE DEF old
<1>7. CASE old = {} \/ SourceOf(Current(p)) = Yearly
  <2> DEFINE t == [tx[p] EXCEPT !.drop = @ \cup (old \ tx[p].add), !.add = (@ \ old) \cup {r},
                                !.left = @ \ {r}]
  <2>1. tx' = [tx EXCEPT ![p] = t]
    BY <1>1, <1>2, <1>7 DEF Replaced, old
  <2>2. /\ t \in Tx /\ t.pc = "rows" /\ t.left = tx[p].left \ {r} /\ t.content = tx[p].content
        /\ t.add = (tx[p].add \ old) \cup {r} /\ t.drop = tx[p].drop \cup (old \ tx[p].add)
    BY <1>2, <1>4, <1>5 DEF Tx
  <2> HIDE DEF t
  <2>3. tx'[p] = t /\ tx' \in [Proc -> Tx] /\ \A q \in Proc \ {p} : tx'[q] = tx[q]
    BY <1>2, <2>1, <2>2
  <2>4. \A s \in old : Keeps(s, r)
    BY <1>4, <1>5, <1>7 DEF Keeps
  <2>5. Statement(p, old, {r})
    BY <1>2, <1>4, <1>5, <1>6, <2>2, <2>3, <2>4 DEF Statement
  <2> QED BY <1>2, <1>3, <1>4, <1>5, <2>2, <2>3, <2>5
<1>8. CASE ~(old = {} \/ SourceOf(Current(p)) = Yearly)
  <2> DEFINE t == [tx[p] EXCEPT !.left = @ \ {r}]
  <2>1. tx' = [tx EXCEPT ![p] = t]
    BY <1>1, <1>2, <1>8 DEF old
  <2>2. /\ t \in Tx /\ t.pc = "rows" /\ t.left = tx[p].left \ {r} /\ t.content = tx[p].content
        /\ t.add = tx[p].add /\ t.drop = tx[p].drop
    BY <1>2 DEF Tx
  <2> HIDE DEF t
  <2>3. tx'[p] = t /\ tx' \in [Proc -> Tx] /\ \A q \in Proc \ {p} : tx'[q] = tx[q]
    BY <1>2, <2>1, <2>2
  <2>4. Statement(p, {}, {})
    BY <1>2, <2>2, <2>3, NoWrite
  <2>5. \E s \in View(p) : SameKey(r, s)
    <3>1. PICK s \in old : SameKey(s, r)
      BY <1>5, <1>8
    <3> QED BY <1>4, <1>5, <3>1, SameKeyEquivalence
  <2> QED BY <1>2, <1>3, <2>2, <2>3, <2>4, <2>5
<1> QED BY <1>7, <1>8

\* Pruning and filling.
LEMMA PruneFillStep ==
    ASSUME TypeOK, NEW p \in Proc, Prune(p) \/ Fill(p)
    PROVE  \E old, new \in SUBSET Row :
              /\ tx[p].pc \in {"prune", "fill"}
              /\ Statement(p, old, new)
              /\ tx' \in [Proc -> Tx] /\ tx'[p].pc \in {"fill", "forget"}
              /\ tx'[p].content = tx[p].content
<1>1. /\ tx \in [Proc -> Tx] /\ tx[p] \in Tx /\ UNCHANGED <<sales, records, todo>>
      /\ tx[p].pc \in {"prune", "fill"}
  BY DEF Prune, Fill, TypeOK
<1>2. View(p) \subseteq Row
  BY ViewType
<1>3. ASSUME NEW old \in SUBSET Row, NEW new \in SUBSET Row, NEW pc \in {"fill", "forget"},
             tx' = [tx EXCEPT ![p] = [Replaced(tx[p], old, new) EXCEPT !.pc = pc]],
             old \subseteq View(p),
             \A t \in old :
                \/ \E u \in new : Keeps(t, u)
                \/ t.source = Weekly /\ \E y \in View(p) : y.source = Yearly /\ SameConveyance(t, y),
             \A q \in Proc \ {p} : (old \cup new) \cap Wrote(q) = {}
      PROVE  /\ Statement(p, old, new)
             /\ tx' \in [Proc -> Tx] /\ tx'[p].pc = pc
             /\ tx'[p].content = tx[p].content
  <2> DEFINE t == [tx[p] EXCEPT !.drop = @ \cup (old \ tx[p].add), !.add = (@ \ old) \cup new,
                                !.pc = pc]
  <2>1. tx' = [tx EXCEPT ![p] = t]
    BY <1>1, <1>3 DEF Replaced
  <2>2. /\ t \in Tx /\ t.pc = pc /\ t.content = tx[p].content
        /\ t.add = (tx[p].add \ old) \cup new /\ t.drop = tx[p].drop \cup (old \ tx[p].add)
    BY <1>1 DEF Tx, Phase
  <2> HIDE DEF t
  <2>3. tx'[p] = t /\ tx' \in [Proc -> Tx] /\ \A q \in Proc \ {p} : tx'[q] = tx[q]
    BY <1>1, <2>1, <2>2
  <2> QED BY <1>1, <1>3, <2>2, <2>3 DEF Statement
<1>4. CASE Prune(p)
  <2>1. /\ Free(p, Outdated(p))
        /\ tx' = [tx EXCEPT ![p] = [Replaced(tx[p], Outdated(p), {}) EXCEPT !.pc = "fill"]]
    BY <1>4 DEF Prune
  <2>2. /\ Outdated(p) \subseteq View(p) /\ Outdated(p) \in SUBSET Row
        /\ \A t \in Outdated(p) : t.source = Weekly /\
              \E y \in View(p) : y.source = Yearly /\ SameConveyance(t, y)
    BY <1>2 DEF Outdated, Superseded
  <2>3. \A q \in Proc \ {p} : (Outdated(p) \cup {}) \cap Wrote(q) = {}
    BY <2>1 DEF Free, Others, Touches, Wrote
  <2>4. /\ Statement(p, Outdated(p), {})
        /\ tx' \in [Proc -> Tx] /\ tx'[p].pc = "fill"
        /\ tx'[p].content = tx[p].content
    BY <1>3, <2>1, <2>2, <2>3
  <2> QED BY <1>1, <2>2, <2>4
<1>5. CASE Fill(p)
  <2>1. PICK pick \in Picks(View(p)) :
           tx' = [tx EXCEPT ![p] = [Replaced(tx[p], Unfilled(p),
                                             {Filled(r, View(p), pick) : r \in Unfilled(p)})
                                    EXCEPT !.pc = "forget"]]
    BY <1>5 DEF Fill
  <2> DEFINE new == {Filled(r, View(p), pick) : r \in Unfilled(p)}
  <2>2. Unfilled(p) \subseteq View(p) /\ Unfilled(p) \in SUBSET Row
    BY <1>2 DEF Unfilled
  <2>3. \A r \in Unfilled(p) : /\ Filled(r, View(p), pick) \in Row
                               /\ Keeps(r, Filled(r, View(p), pick))
    BY <1>2, <2>2, FilledKeeps
  <2>4. new \in SUBSET Row /\ \A r \in Unfilled(p) : \E u \in new : Keeps(r, u)
    BY <2>3
  <2>5. \A u \in new : \E r \in Unfilled(p) : SameKey(r, u)
    <3>1. ASSUME NEW r \in Unfilled(p) PROVE SameKey(r, Filled(r, View(p), pick))
      <4>1. r \in Row /\ r.source = Weekly
        BY <2>2 DEF Unfilled
      <4>2. pick \in [Parcel -> Nbhd]
        BY DEF Picks
      <4>3. SameButNbhd(r, Filled(r, View(p), pick))
        BY <1>2, <4>1, <4>2, FilledRow
      <4> QED BY <4>1, <4>3 DEF SameButNbhd, SameKey, SameConveyance, SameLegacy, Row
    <3> QED BY <3>1
  <2> HIDE DEF new
  <2>6. \A q \in Proc \ {p} : (Unfilled(p) \cup new) \cap Wrote(q) = {}
    <3>1. \A q \in Proc \ {p} : \A r \in Unfilled(p) : ~Touches(q, r)
      BY <1>5 DEF Fill, Free, Others
    <3> QED BY <2>5, <3>1 DEF Touches, Wrote
  <2>7. tx' = [tx EXCEPT ![p] = [Replaced(tx[p], Unfilled(p), new) EXCEPT !.pc = "forget"]]
    BY <2>1 DEF new
  <2>8. /\ Statement(p, Unfilled(p), new)
        /\ tx' \in [Proc -> Tx] /\ tx'[p].pc = "forget"
        /\ tx'[p].content = tx[p].content
    BY <1>3, <2>2, <2>4, <2>6, <2>7
  <2> QED BY <1>1, <2>2, <2>4, <2>8
<1> QED BY <1>4, <1>5

-----------------------------------------------------------------------------
(* What is kept.                                                            *)

LEMMA KeepsTransitive ==
    ASSUME NEW r \in Row, NEW s \in Row, NEW t \in Row, Keeps(r, s), Keeps(s, t)
    PROVE  Keeps(r, t)
BY DEF Keeps, SameKey, SameConveyance, SameLegacy, Row

LEMMA KeepsSelf == \A r \in Row : Keeps(r, r)
BY SameKeyEquivalence DEF Keeps

\* A weekly row superseded by a row that is kept by another is superseded by it.
LEMMA YearlyKept ==
    ASSUME NEW t \in Row, NEW y \in Row, NEW z \in Row, t.source = Weekly, y.source = Yearly,
           SameConveyance(t, y), Keeps(y, z)
    PROVE  z.source = Yearly /\ SameConveyance(t, z) /\ Keeps(t, z)
BY DEF Keeps, SameKey, SameConveyance, SameLegacy, Row, Weekly, Yearly

LEMMA WeeklyKept ==
    ASSUME NEW t \in Row, NEW u \in Row, NEW y \in Row, Keeps(t, u),
           u.source = Weekly, y.source = Yearly, SameConveyance(u, y)
    PROVE  t.source = Weekly /\ SameConveyance(t, y)
BY DEF Keeps, SameKey, SameConveyance, SameLegacy, Row, Weekly, Yearly

\* A statement keeps every row that p sees.
LEMMA StatementKeeps ==
    ASSUME TypeOK, NEW p \in Proc, NEW old, NEW new, Statement(p, old, new)
    PROVE  \A t \in View(p) : \E u \in View(p)' : Keeps(t, u)
<1>1. View(p) \subseteq Row /\ View(p) \ old \subseteq View(p)' /\ new \subseteq View(p)'
      /\ old \subseteq View(p) /\ new \subseteq Row
  BY ViewType DEF Statement, View
<1>2. \A t \in old :
         \/ \E u \in new : Keeps(t, u)
         \/ t.source = Weekly /\ \E y \in View(p) : y.source = Yearly /\ SameConveyance(t, y)
  BY DEF Statement
<1>3. ASSUME NEW y \in View(p), y.source = Yearly
      PROVE  \E u \in View(p)' : Keeps(y, u)
  BY <1>1, <1>2, <1>3, KeepsSelf DEF Weekly, Yearly
<1> SUFFICES ASSUME NEW t \in View(p) PROVE \E u \in View(p)' : Keeps(t, u)
  OBVIOUS
<1>4. CASE t \notin old
  BY <1>1, <1>4, KeepsSelf
<1>5. CASE \E u \in new : Keeps(t, u)
  BY <1>1, <1>5
<1>6. ASSUME NEW y \in View(p), t.source = Weekly, y.source = Yearly, SameConveyance(t, y)
      PROVE  \E u \in View(p)' : Keeps(t, u)
  <2>1. y \in Row /\ t \in Row
    BY <1>1
  <2>2. CASE y \notin old
    <3>1. Keeps(t, y)
      BY <1>6 DEF Keeps, Weekly, Yearly
    <3> QED BY <1>1, <2>2, <3>1
  <2>3. CASE y \in old
    <3>1. PICK u \in new : Keeps(y, u)
      BY <1>2, <1>6, <2>3 DEF Weekly, Yearly
    <3> QED BY <1>1, <1>6, <2>1, <3>1, YearlyKept
  <2> QED BY <2>2, <2>3
<1> QED BY <1>2, <1>4, <1>5, <1>6

\* And what it takes away has something that stands for it.
LEMMA StatementStands ==
    ASSUME TypeOK, NEW p \in Proc, NEW old, NEW new, Statement(p, old, new), Stands(p)
    PROVE  Stands(p)'
<1>1. /\ View(p) \subseteq Row /\ tx[p].add \subseteq View(p)
      /\ old \subseteq View(p) /\ new \subseteq Row
      /\ tx[p].drop \subseteq Row /\ tx[p].add \subseteq Row
      /\ View(p) \ old \subseteq View(p)' /\ new \subseteq View(p)'
  <2>1. tx[p] \in Tx
    BY DEF TypeOK
  <2> QED BY <2>1, ViewType DEF Statement, View, Tx
<1>2. /\ tx'[p].add = (tx[p].add \ old) \cup new
      /\ tx'[p].drop = tx[p].drop \cup (old \ tx[p].add)
  BY DEF Statement
<1>3. \A t \in old :
         \/ \E u \in new : Keeps(t, u)
         \/ t.source = Weekly /\ \E y \in View(p) : y.source = Yearly /\ SameConveyance(t, y)
  BY DEF Statement
<1>4. ASSUME NEW t \in Row, t.source = Weekly,
             NEW y \in View(p), y.source = Yearly, SameConveyance(t, y)
      PROVE  \E z \in View(p)' : z.source = Yearly /\ SameConveyance(t, z)
  <2>1. CASE y \notin old
    BY <1>1, <1>4, <2>1
  <2>2. CASE y \in old
    <3>1. PICK u \in new : Keeps(y, u)
      BY <1>3, <1>4, <2>2 DEF Weekly, Yearly
    <3> QED BY <1>1, <1>4, <3>1, YearlyKept
  <2> QED BY <2>1, <2>2
<1>5. ASSUME NEW t \in Row, NEW u \in tx[p].add, Keeps(t, u)
      PROVE  \/ \E v \in tx'[p].add : Keeps(t, v)
             \/ t.source = Weekly /\ \E z \in View(p)' : z.source = Yearly /\ SameConveyance(t, z)
  <2>1. u \in Row
    BY <1>1
  <2>2. CASE u \notin old
    BY <1>2, <1>5, <2>2
  <2>3. ASSUME NEW v \in new, Keeps(u, v)
        PROVE  \E w \in tx'[p].add : Keeps(t, w)
    BY <1>1, <1>2, <1>5, <2>1, <2>3, KeepsTransitive
  <2>4. ASSUME NEW y \in View(p), u.source = Weekly, y.source = Yearly, SameConveyance(u, y)
        PROVE  t.source = Weekly /\ \E z \in View(p)' : z.source = Yearly /\ SameConveyance(t, z)
    <3>1. t.source = Weekly /\ SameConveyance(t, y)
      BY <1>1, <1>5, <2>1, <2>4, WeeklyKept
    <3> QED BY <1>4, <2>4, <3>1
  <2> QED BY <1>3, <2>2, <2>3, <2>4
<1> SUFFICES ASSUME NEW t \in tx'[p].drop
             PROVE  \/ \E u \in tx'[p].add : Keeps(t, u)
                    \/ t.source = Weekly /\
                          \E y \in View(p)' : y.source = Yearly /\ SameConveyance(t, y)
  BY DEF Stands
<1>6. CASE t \in tx[p].drop
  <2>1. \/ \E u \in tx[p].add : Keeps(t, u)
        \/ t.source = Weekly /\ \E y \in View(p) : y.source = Yearly /\ SameConveyance(t, y)
    BY <1>6 DEF Stands
  <2> QED BY <1>1, <1>4, <1>5, <1>6, <2>1
<1>7. CASE t \in old
  BY <1>1, <1>2, <1>3, <1>4, <1>7
<1> QED BY <1>2, <1>6, <1>7
-----------------------------------------------------------------------------
(* Each statement preserves the types.                                      *)

\* A step of p that changes its own transaction only.
LEMMA OwnStep ==
    ASSUME TypeOK, NEW p \in Proc, NEW t \in Tx,
           UNCHANGED <<backend, parcels, sales, records, todo>>,
           tx' = [tx EXCEPT ![p] = t],
           t.pc # "idle" => todo[p] # <<>> /\ t.content \in Contents,
           t.pc = "parcels" => t.left \subseteq Parcel,
           t.pc = "rows" => t.left \subseteq Stored(Collapsed(t.content), SourceOf(Current(p)))
    PROVE  TypeOK' /\ tx'[p] = t /\ \A q \in Proc \ {p} : tx'[q] = tx[q] /\ todo'[q] = todo[q]
<1>1. tx \in [Proc -> Tx] /\ todo' = todo
  BY DEF TypeOK
<1>2. tx'[p] = t /\ tx' \in [Proc -> Tx] /\ \A q \in Proc \ {p} : tx'[q] = tx[q]
  BY <1>1
<1>3. PhaseOK(p)'
  BY <1>1, <1>2 DEF PhaseOK, Brought, Current
<1>4. ASSUME NEW q \in Proc \ {p} PROVE PhaseOK(q)'
  <2>1. tx'[q] = tx[q] /\ todo'[q] = todo[q]
    BY <1>1, <1>2
  <2>2. PhaseOK(q)
    BY DEF TypeOK
  <2> QED BY <2>1, <2>2 DEF PhaseOK, Brought, Current
<1> QED BY <1>1, <1>2, <1>3, <1>4 DEF TypeOK

\* The steps of p that write no sales.
Quiet(p) ==
    \/ Skip(p) \/ Start(p) \/ InsertParcel(p) \/ ParcelsDone(p) \/ RowsDone(p) \/ Forget(p)

LEMMA SkipStep ==
    ASSUME TypeOK, NEW p \in Proc, Skip(p), UNCHANGED backend
    PROVE  TypeOK' /\ Statement(p, {}, {}) /\ tx'[p].pc = "idle"
<1>1. /\ todo \in [Proc -> Seq(Seq(File) \ {<<>>})] /\ tx[p].pc = "idle" /\ todo[p] # <<>>
      /\ todo' = [todo EXCEPT ![p] = Onward(todo[p])]
      /\ UNCHANGED <<parcels, sales, records, tx>>
  BY DEF TypeOK, Skip
<1>2. Onward(todo[p]) \in Seq(Seq(File) \ {<<>>})
  BY <1>1, OnwardType
<1>3. todo' \in [Proc -> Seq(Seq(File) \ {<<>>})] /\ \A q \in Proc \ {p} : todo'[q] = todo[q]
  BY <1>1, <1>2
<1>4. ASSUME NEW q \in Proc PROVE PhaseOK(q)'
  <2>1. PhaseOK(q)
    BY DEF TypeOK
  <2> QED BY <1>1, <1>3, <2>1 DEF PhaseOK, Brought, Current
<1>5. TypeOK'
  BY <1>1, <1>3, <1>4 DEF TypeOK
<1>6. Statement(p, {}, {})
  BY <1>1, <1>3, NoWrite
<1> QED BY <1>1, <1>5, <1>6

LEMMA StartStep ==
    ASSUME TypeOK, NEW p \in Proc, Start(p), UNCHANGED backend
    PROVE  TypeOK' /\ Statement(p, {}, {}) /\ tx'[p].pc = "parcels"
<1>1. tx[p] \in Tx /\ todo[p] # <<>> /\ UNCHANGED <<parcels, sales, records, todo>>
  BY DEF Start, TypeOK
<1>2. PICK content \in Export[Current(p)] :
         tx' = [tx EXCEPT ![p].pc = "parcels", ![p].content = content,
                          ![p].left = ParcelsOf(content)]
  BY DEF Start
<1>3. content \in Contents
  BY <1>1, CurrentType DEF Contents
<1>4. ParcelsOf(content) \subseteq Parcel
  BY <1>3, ContentsType DEF ParcelsOf, Row
<1> DEFINE t == [tx[p] EXCEPT !.pc = "parcels", !.content = content, !.left = ParcelsOf(content)]
<1>5. /\ t \in Tx /\ t.pc = "parcels" /\ t.content = content /\ t.left = ParcelsOf(content)
      /\ t.add = tx[p].add /\ t.drop = tx[p].drop
  BY <1>1, <1>3, <1>4 DEF Tx, Phase
<1>6. tx' = [tx EXCEPT ![p] = t]
  BY <1>2 DEF TypeOK
<1> HIDE DEF t
<1>7. TypeOK' /\ tx'[p] = t /\ \A q \in Proc \ {p} : tx'[q] = tx[q] /\ todo'[q] = todo[q]
  BY <1>1, <1>3, <1>4, <1>5, <1>6, OwnStep
<1> QED BY <1>1, <1>5, <1>7, NoWrite

LEMMA InsertParcelStep ==
    ASSUME TypeOK, NEW p \in Proc, InsertParcel(p), UNCHANGED backend
    PROVE  TypeOK' /\ Statement(p, {}, {}) /\ tx'[p].pc = "parcels"
<1>1. /\ tx[p] \in Tx /\ tx[p].pc = "parcels" /\ PhaseOK(p)
      /\ UNCHANGED <<parcels, sales, records, todo>>
  BY DEF InsertParcel, TypeOK
<1>2. PICK id \in tx[p].left :
         tx' = [tx EXCEPT ![p].left = @ \ {id}, ![p].wrote = TRUE,
                          ![p].newParcels = @ \cup ({id} \ parcels)]
  BY DEF InsertParcel
<1>3. todo[p] # <<>> /\ tx[p].content \in Contents /\ tx[p].left \subseteq Parcel /\ id \in Parcel
  BY <1>1, <1>2 DEF PhaseOK
<1> DEFINE t == [tx[p] EXCEPT !.left = @ \ {id}, !.wrote = TRUE,
                              !.newParcels = @ \cup ({id} \ parcels)]
<1>4. /\ t \in Tx /\ t.pc = "parcels" /\ t.content = tx[p].content
      /\ t.left = tx[p].left \ {id} /\ t.add = tx[p].add /\ t.drop = tx[p].drop
  BY <1>1, <1>3 DEF Tx
<1>5. tx' = [tx EXCEPT ![p] = t]
  BY <1>2 DEF TypeOK
<1> HIDE DEF t
<1>6. TypeOK' /\ tx'[p] = t /\ \A q \in Proc \ {p} : tx'[q] = tx[q] /\ todo'[q] = todo[q]
  BY <1>1, <1>3, <1>4, <1>5, OwnStep
<1> QED BY <1>1, <1>4, <1>6, NoWrite

LEMMA ParcelsDoneStep ==
    ASSUME TypeOK, NEW p \in Proc, ParcelsDone(p), UNCHANGED backend
    PROVE  /\ TypeOK' /\ Statement(p, {}, {})
           /\ tx'[p].pc = "rows" /\ Brought(p)' \subseteq tx'[p].left
<1>1. /\ tx[p] \in Tx /\ tx[p].pc = "parcels" /\ PhaseOK(p)
      /\ UNCHANGED <<parcels, sales, records, todo>>
      /\ tx' = [tx EXCEPT ![p].pc = "rows",
                          ![p].left = Stored(Collapsed(tx[p].content), SourceOf(Current(p)))]
  BY DEF ParcelsDone, TypeOK
<1>2. todo[p] # <<>> /\ tx[p].content \in Contents
  BY <1>1 DEF PhaseOK
<1>3. Brought(p) \subseteq Row
  BY <1>2, BroughtRows, CurrentType DEF Brought
<1> DEFINE t == [tx[p] EXCEPT !.pc = "rows", !.left = Brought(p)]
<1>4. /\ t \in Tx /\ t.pc = "rows" /\ t.content = tx[p].content
      /\ t.left = Brought(p) /\ t.add = tx[p].add /\ t.drop = tx[p].drop
  BY <1>1, <1>3 DEF Tx, Phase
<1>5. tx' = [tx EXCEPT ![p] = t]
  BY <1>1 DEF TypeOK, Brought
<1> HIDE DEF t
<1>6. TypeOK' /\ tx'[p] = t /\ \A q \in Proc \ {p} : tx'[q] = tx[q] /\ todo'[q] = todo[q]
  <2>1. t.left \subseteq Stored(Collapsed(t.content), SourceOf(Current(p)))
    BY <1>4 DEF Brought
  <2> QED BY <1>1, <1>2, <1>4, <1>5, <2>1, OwnStep
<1>7. Brought(p)' = Brought(p)
  BY <1>1, <1>4, <1>6 DEF Brought, Current
<1> QED BY <1>1, <1>4, <1>6, <1>7, NoWrite

LEMMA RowsDoneStep ==
    ASSUME TypeOK, NEW p \in Proc, RowsDone(p), UNCHANGED backend
    PROVE  /\ TypeOK' /\ Statement(p, {}, {})
           /\ tx'[p].pc \in {"prune", "forget"} /\ tx'[p].content = tx[p].content
<1>1. /\ tx[p] \in Tx /\ tx[p].pc = "rows" /\ PhaseOK(p)
      /\ UNCHANGED <<parcels, sales, records, todo>>
      /\ tx' = [tx EXCEPT ![p].pc = IF tx[p].content = <<>> THEN "forget" ELSE "prune"]
  BY DEF RowsDone, TypeOK
<1>2. PICK pc \in {"prune", "forget"} : tx' = [tx EXCEPT ![p].pc = pc]
  BY <1>1
<1> DEFINE t == [tx[p] EXCEPT !.pc = pc]
<1>3. /\ t \in Tx /\ t.pc = pc /\ t.content = tx[p].content
      /\ t.add = tx[p].add /\ t.drop = tx[p].drop
  BY <1>1 DEF Tx, Phase
<1>4. tx' = [tx EXCEPT ![p] = t]
  BY <1>2 DEF TypeOK
<1> HIDE DEF t
<1>5. todo[p] # <<>> /\ tx[p].content \in Contents
  BY <1>1 DEF PhaseOK
<1>6. TypeOK' /\ tx'[p] = t /\ \A q \in Proc \ {p} : tx'[q] = tx[q] /\ todo'[q] = todo[q]
  BY <1>1, <1>3, <1>4, <1>5, OwnStep
<1> QED BY <1>1, <1>3, <1>6, NoWrite

LEMMA ForgetStep ==
    ASSUME TypeOK, NEW p \in Proc, Forget(p), UNCHANGED backend
    PROVE  /\ TypeOK' /\ Statement(p, {}, {})
           /\ tx'[p].pc = "commit" /\ tx'[p].content = tx[p].content
<1>1. /\ tx[p] \in Tx /\ tx[p].pc = "forget" /\ PhaseOK(p)
      /\ UNCHANGED <<parcels, sales, records, todo>>
      /\ tx' = [tx EXCEPT ![p].pc = "commit", ![p].gone = Forgotten(p), ![p].wrote = TRUE]
  BY DEF Forget, TypeOK
<1>2. Forgotten(p) \subseteq Record
  BY DEF Forgotten, TypeOK
<1> DEFINE t == [tx[p] EXCEPT !.pc = "commit", !.gone = Forgotten(p), !.wrote = TRUE]
<1>3. /\ t \in Tx /\ t.pc = "commit" /\ t.content = tx[p].content
      /\ t.add = tx[p].add /\ t.drop = tx[p].drop
  BY <1>1, <1>2 DEF Tx, Phase
<1>4. tx' = [tx EXCEPT ![p] = t]
  BY <1>1 DEF TypeOK
<1> HIDE DEF t
<1>5. todo[p] # <<>> /\ tx[p].content \in Contents
  BY <1>1 DEF PhaseOK
<1>6. TypeOK' /\ tx'[p] = t /\ \A q \in Proc \ {p} : tx'[q] = tx[q] /\ todo'[q] = todo[q]
  BY <1>1, <1>3, <1>4, <1>5, OwnStep
<1> QED BY <1>1, <1>3, <1>6, NoWrite
LEMMA TypedWrites ==
    ASSUME TypeOK, NEW p \in Proc, UpsertRow(p) \/ Prune(p) \/ Fill(p), UNCHANGED backend
    PROVE  TypeOK'
<1>1. /\ UNCHANGED <<backend, parcels, sales, records, todo>> /\ tx' \in [Proc -> Tx]
      /\ \A q \in Proc \ {p} : tx'[q] = tx[q]
      /\ tx[p].pc # "idle" /\ tx'[p].content = tx[p].content
      /\ \/ tx[p].pc = "rows" /\ tx'[p].pc = "rows" /\ tx'[p].left \subseteq tx[p].left
         \/ tx'[p].pc \in {"fill", "forget"}
  <2>1. CASE UpsertRow(p)
    <3>1. UNCHANGED <<parcels, sales, records, todo>>
      BY <2>1 DEF UpsertRow
    <3> QED BY <2>1, <3>1, UpsertRowStep DEF Statement
  <2>2. CASE Prune(p) \/ Fill(p)
    <3>1. UNCHANGED <<parcels, sales, records, todo>>
      BY <2>2 DEF Prune, Fill
    <3> QED BY <2>2, <3>1, PruneFillStep DEF Statement
  <2> QED BY <2>1, <2>2
<1>2. ASSUME NEW q \in Proc PROVE PhaseOK(q)'
  <2>1. PhaseOK(q)
    BY DEF TypeOK
  <2>2. CASE q = p
    BY <1>1, <2>1, <2>2 DEF PhaseOK, Brought, Current
  <2>3. CASE q # p
    BY <1>1, <2>1, <2>3 DEF PhaseOK, Brought, Current
  <2> QED BY <2>2, <2>3
<1> QED BY <1>1, <1>2 DEF TypeOK

\* The end of a file, and of a step.
Ends(p) == Commit(p) \/ Abort(p)

LEMMA EndStep ==
    ASSUME TypeOK, NEW p \in Proc, Ends(p), UNCHANGED backend
    PROVE  /\ TypeOK' /\ tx'[p] = NoTx
           /\ \A q \in Proc \ {p} : tx'[q] = tx[q] /\ todo'[q] = todo[q]
<1>1. /\ todo \in [Proc -> Seq(Seq(File) \ {<<>>})] /\ tx \in [Proc -> Tx] /\ tx[p] \in Tx
      /\ PhaseOK(p) /\ tx[p].pc # "idle" /\ tx' = [tx EXCEPT ![p] = NoTx]
  BY DEF TypeOK, Ends, Commit, Abort, RolledBack
<1>2. NoTx \in Tx /\ NoTx.pc = "idle"
  BY DEF NoTx, Tx, Phase
<1> DEFINE rest == IF Commit(p) THEN Onward(todo[p]) ELSE Tail(todo[p])
<1>3. todo[p] # <<>> /\ tx[p].content \in Contents
  BY <1>1 DEF PhaseOK
<1>4. rest \in Seq(Seq(File) \ {<<>>}) /\ todo' = [todo EXCEPT ![p] = rest]
  <2>1. CASE Commit(p)
    <3>1. Onward(todo[p]) \in Seq(Seq(File) \ {<<>>})
      BY <1>1, <1>3, OnwardType
    <3> QED BY <2>1, <3>1 DEF Commit
  <2>2. CASE ~Commit(p)
    <3>1. Abort(p)
      BY <2>2 DEF Ends
    <3>2. todo' = [todo EXCEPT ![p] = Tail(@)]
      BY <3>1 DEF Abort
    <3>3. Tail(todo[p]) \in Seq(Seq(File) \ {<<>>})
      BY <1>1, <1>3, HeadTailProperties
    <3> QED BY <2>2, <3>2, <3>3
  <2> QED BY <2>1, <2>2
<1> HIDE DEF rest
<1>5. /\ todo' \in [Proc -> Seq(Seq(File) \ {<<>>})] /\ tx' \in [Proc -> Tx] /\ tx'[p] = NoTx
      /\ \A q \in Proc \ {p} : tx'[q] = tx[q] /\ todo'[q] = todo[q]
  BY <1>1, <1>2, <1>4
<1>6. parcels' \subseteq Parcel /\ sales' \subseteq Row /\ records' \subseteq Record
  <2>1. CASE Commit(p)
    <3>1. View(p) \subseteq Row
      BY ViewType
    <3>2. Current(p) \in File
      BY <1>3, CurrentType
    <3> QED BY <1>1, <1>3, <2>1, <3>1, <3>2 DEF Commit, TypeOK, Tx, Record
  <2>2. CASE Abort(p)
    BY <2>2 DEF Abort, TypeOK
  <2> QED BY <2>1, <2>2 DEF Ends
<1>7. ASSUME NEW q \in Proc PROVE PhaseOK(q)'
  <2>1. PhaseOK(q)
    BY DEF TypeOK
  <2>2. CASE q = p
    BY <1>2, <1>5, <2>2 DEF PhaseOK
  <2>3. CASE q # p
    BY <1>5, <2>1, <2>3 DEF PhaseOK, Brought, Current
  <2> QED BY <2>2, <2>3
<1> QED BY <1>5, <1>6, <1>7 DEF TypeOK

-----------------------------------------------------------------------------
(* Each statement preserves what is told.                                   *)

\* What is told of a row stays told while the rows are kept.
LEMMA ToldStays ==
    ASSUME NEW V, V \subseteq Row, NEW W, W \subseteq Row,
           \A t \in V : \E u \in W : Keeps(t, u),
           NEW r \in Row, NEW t \in V, Tells(t, r)
    PROVE  \E u \in W : Tells(u, r)
<1>1. PICK u \in W : Keeps(t, u)
  OBVIOUS
<1> QED BY <1>1, KeepsComposes DEF Tells

\* A statement of p does not concern the others.
LEMMA OthersUnaware ==
    ASSUME NEW p \in Proc, NEW old, NEW new, Statement(p, old, new),
           NEW q \in Proc \ {p}, Stands(q), DoneTold(q)
    PROVE  Stands(q)' /\ DoneTold(q)'
<1>1. tx'[q] = tx[q] /\ todo'[q] = todo[q] /\ sales' = sales
  BY DEF Statement
<1>2. View(q)' = View(q) /\ Brought(q)' = Brought(q)
  BY <1>1 DEF View, Brought, Current
<1> QED BY <1>1, <1>2 DEF Stands, DoneTold

\* The locks keep the writes of open transactions apart.
LEMMA StatementApart ==
    ASSUME WritesApart, NEW p \in Proc, NEW old, NEW new, Statement(p, old, new)
    PROVE  WritesApart'
<1>1. /\ \A q \in Proc \ {p} : Wrote(q)' = Wrote(q)
      /\ Wrote(p)' \subseteq Wrote(p) \cup old \cup new
      /\ \A q \in Proc \ {p} : (old \cup new) \cap Wrote(q) = {}
  BY DEF Statement, Wrote
<1>2. \A q \in Proc \ {p} : Wrote(p) \cap Wrote(q) = {}
  BY DEF WritesApart
<1>3. \A q \in Proc \ {p} : Wrote(p)' \cap Wrote(q)' = {} /\ Wrote(q)' \cap Wrote(p)' = {}
  BY <1>1, <1>2
<1>4. \A q, r \in Proc \ {p} : q # r => Wrote(q)' \cap Wrote(r)' = {}
  BY <1>1 DEF WritesApart
<1> QED BY <1>3, <1>4 DEF WritesApart

\* Once p is past its rows, its whole file is told, and stays told.
LEMMA FileToldStays ==
    ASSUME TypeOK, NEW p \in Proc, NEW old, NEW new, Statement(p, old, new), TypeOK',
           tx[p].pc \in {"prune", "fill", "forget"}, DoneTold(p),
           tx'[p].pc \in {"fill", "forget", "commit"}, tx'[p].content = tx[p].content
    PROVE  DoneTold(p)'
<1>1. tx[p].content \in Contents
  BY DEF TypeOK, PhaseOK
<1>2. View(p) \subseteq Row /\ \A i \in DOMAIN tx[p].content : tx[p].content[i] \in Row
  BY <1>1, ViewType, ContentsType
<1>3. View(p)' \subseteq Row
  <2>1. tx'[p] \in Tx /\ sales' \subseteq Row
    BY DEF TypeOK
  <2> QED BY <2>1 DEF View, Tx
<1>4. \A t \in View(p) : \E u \in View(p)' : Keeps(t, u)
  BY StatementKeeps
<1>5. \A i \in DOMAIN tx[p].content : \E u \in View(p)' : Tells(u, tx[p].content[i])
  <2> SUFFICES ASSUME NEW i \in DOMAIN tx[p].content
               PROVE  \E u \in View(p)' : Tells(u, tx[p].content[i])
    OBVIOUS
  <2>1. PICK t \in View(p) : Tells(t, tx[p].content[i])
    BY DEF DoneTold
  <2> QED BY <1>2, <1>3, <1>4, <2>1, ToldStays
<1> QED BY <1>5 DEF DoneTold

\* A row that is upserted is told.
LEMMA UpsertTold ==
    ASSUME TypeOK, NEW p \in Proc, UpsertRow(p), UNCHANGED backend, DoneTold(p)
    PROVE  DoneTold(p)'
<1>1. PICK r \in tx[p].left : \E old, new \in SUBSET Row :
              /\ tx[p].pc = "rows" /\ r \in Brought(p)
              /\ Statement(p, old, new)
              /\ tx'[p] \in Tx /\ tx'[p].pc = "rows" /\ tx'[p].left = tx[p].left \ {r}
              /\ tx'[p].content = tx[p].content
              /\ r \in tx'[p].add \/ \E t \in View(p) : SameKey(r, t)
              /\ tx' \in [Proc -> Tx]
  BY UpsertRowStep
<1>2. /\ Brought(p)' = Brought(p) /\ Brought(p) \subseteq Row
      /\ View(p) \subseteq Row /\ View(p)' \subseteq Row
  <2>1. tx[p].content \in Contents /\ todo[p] # <<>> /\ tx'[p] \in Tx
    BY <1>1 DEF TypeOK, PhaseOK
  <2>2. UNCHANGED <<todo, sales>>
    BY DEF UpsertRow
  <2>3. Brought(p) \subseteq Row
    BY <2>1, CurrentType, BroughtRows DEF Brought
  <2>4. Brought(p)' = Brought(p)
    BY <1>1, <2>2 DEF Brought, Current
  <2>5. View(p)' \subseteq Row
    BY <2>1, <2>2, ViewType DEF View, Tx
  <2> QED BY <2>3, <2>4, <2>5, ViewType
<1>3. \A t \in View(p) : \E u \in View(p)' : Keeps(t, u)
  BY <1>1, StatementKeeps
<1>4. \A s \in Brought(p) \ tx[p].left : \E t \in View(p)' : Tells(t, s)
  <2> SUFFICES ASSUME NEW s \in Brought(p) \ tx[p].left PROVE \E t \in View(p)' : Tells(t, s)
    OBVIOUS
  <2>1. PICK t \in View(p) : Tells(t, s)
    BY <1>1 DEF DoneTold
  <2> QED BY <1>2, <1>3, <2>1, ToldStays
<1>5. \E t \in View(p)' : Tells(t, r)
  <2>1. CASE r \in tx'[p].add
    BY <1>1, <1>2, <2>1, SameKeyEquivalence DEF Tells, View
  <2>2. CASE \E t \in View(p) : SameKey(r, t)
    <3>1. PICK t \in View(p) : Tells(t, r)
      BY <2>2 DEF Tells
    <3> QED BY <1>1, <1>2, <1>3, <3>1, ToldStays
  <2> QED BY <1>1, <2>1, <2>2
<1> QED BY <1>1, <1>2, <1>4, <1>5 DEF DoneTold

\* When the rows are written, the file is told.
LEMMA RowsTold ==
    ASSUME TypeOK, NEW p \in Proc, RowsDone(p), UNCHANGED backend, DoneTold(p)
    PROVE  DoneTold(p)'
<1>1. /\ TypeOK' /\ Statement(p, {}, {})
      /\ tx'[p].pc \in {"prune", "forget"} /\ tx'[p].content = tx[p].content
      /\ tx[p].pc = "rows" /\ tx[p].left = {}
  BY RowsDoneStep DEF RowsDone
<1>2. tx[p].content \in Contents /\ todo[p] # <<>>
  BY <1>1 DEF TypeOK, PhaseOK
<1>3. View(p)' = View(p) /\ View(p) \subseteq Row
  BY <1>1, ViewType DEF Statement, View
<1>4. /\ Brought(p) \subseteq Row
      /\ \A i \in DOMAIN tx[p].content : \E r \in Brought(p) : SameKey(tx[p].content[i], r)
  BY <1>2, CurrentType, BroughtRows DEF Brought
<1>5. \A i \in DOMAIN tx[p].content : tx[p].content[i] \in Row
  BY <1>2, ContentsType
<1>6. ASSUME NEW i \in DOMAIN tx[p].content
      PROVE  \E t \in View(p) : Tells(t, tx[p].content[i])
  <2>1. PICK r \in Brought(p) : SameKey(tx[p].content[i], r)
    BY <1>4
  <2>2. PICK t \in View(p) : Tells(t, r)
    BY <1>1 DEF DoneTold
  <2>3. r \in Row /\ t \in Row /\ tx[p].content[i] \in Row
    BY <1>3, <1>4, <1>5
  <2>4. Tells(t, tx[p].content[i])
    <3> DEFINE s == tx[p].content[i]
    <3>1. SameKey(s, r) /\ s \in Row
      BY <2>1, <2>3
    <3> HIDE DEF s
    <3>2. Tells(t, s)
      BY <2>2, <2>3, <3>1 DEF Tells, SameKey, SameConveyance, SameLegacy, Row
    <3> QED BY <3>2 DEF s
  <2> QED BY <2>4
<1> QED BY <1>1, <1>3, <1>6 DEF DoneTold
-----------------------------------------------------------------------------
(* A commit.                                                                *)

\* What q sees when p commits keeps every row that q saw before.
LEMMA CommitKeeps ==
    ASSUME TypeOK, WritesApart, NEW p \in Proc, Stands(p),
           NEW q \in Proc \ {p}, Stands(q), Commit(p), tx'[q] = tx[q]
    PROVE  \A t \in View(q) : \E u \in View(q)' : Keeps(t, u)
<1>1. View(q)' = (View(p) \ tx[q].drop) \cup tx[q].add
  BY DEF Commit, View
<1>2. /\ View(p) \subseteq Row /\ View(q) \subseteq Row
      /\ tx[q].add \subseteq Row /\ tx[p].add \subseteq View(p)
      /\ tx[p].add \cap tx[q].drop = {}
  <2>1. tx[q] \in Tx
    BY DEF TypeOK
  <2>2. Wrote(p) \cap Wrote(q) = {}
    BY DEF WritesApart
  <2> QED BY <2>1, <2>2, ViewType DEF Tx, Wrote, View
<1> SUFFICES ASSUME NEW t \in View(q) PROVE \E u \in View(q)' : Keeps(t, u)
  OBVIOUS
<1>3. CASE t \in View(q)'
  BY <1>2, <1>3, KeepsSelf
<1>4. CASE t \in tx[p].drop /\ t \in sales \ tx[q].drop
  <2>1. ASSUME NEW u \in tx[p].add, Keeps(t, u)
        PROVE  \E v \in View(q)' : Keeps(t, v)
    BY <1>1, <1>2, <2>1
  <2>2. ASSUME NEW y \in View(p), t.source = Weekly, y.source = Yearly, SameConveyance(t, y)
        PROVE  \E v \in View(q)' : Keeps(t, v)
    <3>1. y \in Row /\ t \in Row
      BY <1>2
    <3>2. CASE y \notin tx[q].drop
      BY <1>1, <2>2, <3>2 DEF Keeps, Weekly, Yearly
    <3>3. CASE y \in tx[q].drop
      <4>1. PICK v \in tx[q].add : Keeps(y, v)
        BY <2>2, <3>3 DEF Stands, Weekly, Yearly
      <4> QED BY <1>1, <1>2, <2>2, <3>1, <4>1, YearlyKept
    <3> QED BY <3>2, <3>3
  <2> QED BY <1>4, <2>1, <2>2 DEF Stands
<1>5. t \in View(q)' \/ (t \in tx[p].drop /\ t \in sales \ tx[q].drop)
  BY <1>1 DEF View
<1> QED BY <1>3, <1>4, <1>5

\* So what stands and what is told in the transaction of q survives it.
LEMMA CommitUnfelt ==
    ASSUME TypeOK, WritesApart, NEW p \in Proc, Stands(p), Commit(p), TypeOK',
           NEW q \in Proc \ {p}, Stands(q), DoneTold(q), tx'[q] = tx[q], todo'[q] = todo[q]
    PROVE  Stands(q)' /\ DoneTold(q)'
<1>1. \A t \in View(q) : \E u \in View(q)' : Keeps(t, u)
  BY CommitKeeps
<1>2. View(q) \subseteq Row /\ View(q)' \subseteq Row /\ tx[q].drop \subseteq Row
  <2>1. tx[q] \in Tx /\ tx'[q] \in Tx /\ sales' \subseteq Row
    BY DEF TypeOK
  <2> QED BY <2>1, ViewType DEF View, Tx
<1>3. Stands(q)'
  <2>1. ASSUME NEW t \in tx[q].drop, t.source = Weekly,
               NEW y \in View(q), y.source = Yearly, SameConveyance(t, y)
        PROVE  \E z \in View(q)' : z.source = Yearly /\ SameConveyance(t, z)
    <3>1. PICK u \in View(q)' : Keeps(y, u)
      BY <1>1
    <3> QED BY <1>2, <2>1, <3>1, YearlyKept
  <2> QED BY <2>1 DEF Stands
<1>4. Brought(q)' = Brought(q)
  BY DEF Brought, Current
<1>5. tx[q].pc # "idle" => tx[q].content \in Contents /\ todo[q] # <<>>
  BY DEF TypeOK, PhaseOK
<1>6. tx[q].pc = "rows" => \A r \in Brought(q) \ tx[q].left : \E t \in View(q)' : Tells(t, r)
  <2> SUFFICES ASSUME tx[q].pc = "rows", NEW r \in Brought(q) \ tx[q].left
               PROVE  \E t \in View(q)' : Tells(t, r)
    OBVIOUS
  <2>1. r \in Row
    BY <1>5, CurrentType, BroughtRows DEF Brought
  <2>2. PICK t \in View(q) : Tells(t, r)
    BY DEF DoneTold
  <2> QED BY <1>1, <1>2, <2>1, <2>2, ToldStays
<1>7. tx[q].pc \in {"prune", "fill", "forget", "commit"} =>
          \A i \in DOMAIN tx[q].content : \E t \in View(q)' : Tells(t, tx[q].content[i])
  <2> SUFFICES ASSUME tx[q].pc \in {"prune", "fill", "forget", "commit"},
                      NEW i \in DOMAIN tx[q].content
               PROVE  \E t \in View(q)' : Tells(t, tx[q].content[i])
    OBVIOUS
  <2>1. tx[q].content[i] \in Row
    BY <1>5, ContentsType
  <2>2. PICK t \in View(q) : Tells(t, tx[q].content[i])
    BY DEF DoneTold
  <2> QED BY <1>1, <1>2, <2>1, <2>2, ToldStays
<1> QED BY <1>3, <1>4, <1>6, <1>7 DEF DoneTold

\* A commit loses no sale of a recorded file, and records one all of whose sales
\* are told.
LEMMA CommitLosesNone ==
    ASSUME TypeOK, NEW p \in Proc, Stands(p), DoneTold(p), Commit(p), NoSaleLost
    PROVE  NoSaleLost'
<1>1. /\ sales' = View(p) /\ tx[p].pc = "commit"
      /\ records' = (records \ tx[p].gone)
                    \cup {[file |-> Current(p), content |-> tx[p].content, by |-> p]}
  BY DEF Commit
<1>2. sales \subseteq Row /\ View(p) \subseteq Row /\ tx[p].add \subseteq View(p)
  BY ViewType DEF View
<1>3. ASSUME NEW r \in Row, NEW t \in sales, Tells(t, r)
      PROVE  \E u \in View(p) : Tells(u, r)
  <2>1. t \in Row
    BY <1>2
  <2>2. CASE t \notin tx[p].drop
    BY <1>3, <2>2 DEF View
  <2>3. CASE t \in tx[p].drop
    <3>1. PICK u \in View(p) : Keeps(t, u)
      <4>1. ASSUME NEW y \in View(p), t.source = Weekly, y.source = Yearly,
                   SameConveyance(t, y)
            PROVE  Keeps(t, y)
        BY <4>1 DEF Keeps, Weekly, Yearly
      <4> QED BY <1>2, <2>3, <4>1 DEF Stands
    <3> QED BY <1>2, <1>3, <2>1, <3>1, KeepsComposes DEF Tells
  <2> QED BY <2>2, <2>3
<1>4. ASSUME NEW d \in records, NEW i \in DOMAIN d.content
      PROVE  \E t \in View(p) : Tells(t, d.content[i])
  <2>1. d.content \in Contents
    BY DEF TypeOK, Record
  <2>2. d.content[i] \in Row
    BY <2>1, ContentsType
  <2>3. PICK t \in sales : Tells(t, d.content[i])
    BY DEF NoSaleLost, Tells
  <2> QED BY <1>3, <2>2, <2>3
<1>5. \A i \in DOMAIN tx[p].content : \E t \in View(p) : Tells(t, tx[p].content[i])
  BY <1>1 DEF DoneTold
<1> QED BY <1>1, <1>4, <1>5 DEF NoSaleLost, Tells

-----------------------------------------------------------------------------
(* The invariant.                                                           *)

\* It holds at first, and each step of each process preserves it.
LEMMA InitIInv == Init => IInv
<1> SUFFICES ASSUME Init PROVE IInv
  OBVIOUS
<1>1. NoTx \in Tx /\ NoTx.pc = "idle" /\ NoTx.add = {} /\ NoTx.drop = {}
  BY DEF NoTx, Tx, Phase
<1>2. \A p \in Proc : tx[p] = NoTx
  BY DEF Init
<1>3. todo \in [Proc -> Seq(Seq(File) \ {<<>>})]
  BY ConcurrentAssumption DEF Init
<1>4. TypeOK
  BY <1>1, <1>2, <1>3 DEF TypeOK, PhaseOK, Init
<1> QED BY <1>1, <1>2, <1>4 DEF Init, IInv, WritesApart, Wrote, Stands, DoneTold, NoSaleLost

LEMMA StatementIInv ==
    ASSUME IInv, NEW p \in Proc, NEW old, NEW new, Statement(p, old, new), TypeOK', DoneTold(p)'
    PROVE  IInv'
<1>1. WritesApart'
  BY StatementApart DEF IInv
<1>2. Stands(p)'
  BY StatementStands DEF IInv
<1>3. \A q \in Proc \ {p} : Stands(q)' /\ DoneTold(q)'
  BY OthersUnaware DEF IInv
<1>4. NoSaleLost'
  BY DEF IInv, NoSaleLost, Statement
<1> QED BY <1>1, <1>2, <1>3, <1>4 DEF IInv

LEMMA StepIInv ==
    ASSUME IInv, NEW p \in Proc, Step(p)
    PROVE  IInv'
<1>1. UNCHANGED backend /\ TypeOK /\ WritesApart /\ Stands(p) /\ DoneTold(p)
  BY DEF Step, IInv
<1>2. CASE Skip(p)
  <2>1. TypeOK' /\ Statement(p, {}, {}) /\ tx'[p].pc = "idle"
    BY <1>1, <1>2, SkipStep
  <2>2. DoneTold(p)'
    BY <2>1 DEF DoneTold
  <2> QED BY <2>1, <2>2, StatementIInv
<1>3. CASE Start(p)
  <2>1. TypeOK' /\ Statement(p, {}, {}) /\ tx'[p].pc = "parcels"
    BY <1>1, <1>3, StartStep
  <2>2. DoneTold(p)'
    BY <2>1 DEF DoneTold
  <2> QED BY <2>1, <2>2, StatementIInv
<1>4. CASE InsertParcel(p)
  <2>1. TypeOK' /\ Statement(p, {}, {}) /\ tx'[p].pc = "parcels"
    BY <1>1, <1>4, InsertParcelStep
  <2>2. DoneTold(p)'
    BY <2>1 DEF DoneTold
  <2> QED BY <2>1, <2>2, StatementIInv
<1>5. CASE ParcelsDone(p)
  <2>1. /\ TypeOK' /\ Statement(p, {}, {})
        /\ tx'[p].pc = "rows" /\ Brought(p)' \subseteq tx'[p].left
    BY <1>1, <1>5, ParcelsDoneStep
  <2>2. DoneTold(p)'
    BY <2>1 DEF DoneTold
  <2> QED BY <2>1, <2>2, StatementIInv
<1>6. CASE UpsertRow(p)
  <2>1. PICK old, new \in SUBSET Row : Statement(p, old, new)
    BY <1>1, <1>6, UpsertRowStep
  <2>2. TypeOK' /\ DoneTold(p)'
    BY <1>1, <1>6, TypedWrites, UpsertTold
  <2> QED BY <2>1, <2>2, StatementIInv
<1>7. CASE RowsDone(p)
  <2>1. TypeOK' /\ Statement(p, {}, {})
    BY <1>1, <1>7, RowsDoneStep
  <2>2. DoneTold(p)'
    BY <1>1, <1>7, RowsTold
  <2> QED BY <2>1, <2>2, StatementIInv
<1>8. CASE Prune(p) \/ Fill(p)
  <2>1. PICK old, new \in SUBSET Row :
              /\ tx[p].pc \in {"prune", "fill"}
              /\ Statement(p, old, new)
              /\ tx'[p].pc \in {"fill", "forget"}
              /\ tx'[p].content = tx[p].content
    BY <1>1, <1>8, PruneFillStep
  <2>2. TypeOK'
    BY <1>1, <1>8, TypedWrites
  <2>3. DoneTold(p)'
    BY <1>1, <2>1, <2>2, FileToldStays
  <2> QED BY <2>1, <2>2, <2>3, StatementIInv
<1>9. CASE Forget(p)
  <2>1. /\ TypeOK' /\ Statement(p, {}, {})
        /\ tx'[p].pc = "commit" /\ tx'[p].content = tx[p].content
    BY <1>1, <1>9, ForgetStep
  <2>2. tx[p].pc = "forget"
    BY <1>9 DEF Forget
  <2>3. DoneTold(p)'
    BY <1>1, <2>1, <2>2, FileToldStays
  <2> QED BY <2>1, <2>3, StatementIInv
<1>10. CASE Commit(p) \/ Abort(p)
  <2>1. /\ TypeOK' /\ tx'[p] = NoTx
        /\ \A q \in Proc \ {p} : tx'[q] = tx[q] /\ todo'[q] = todo[q]
    BY <1>1, <1>10, EndStep DEF Ends
  <2>2. Wrote(p)' = {} /\ \A q \in Proc \ {p} : Wrote(q)' = Wrote(q)
    BY <2>1 DEF Wrote, NoTx
  <2>3. WritesApart'
    BY <1>1, <2>2 DEF WritesApart
  <2>4. Stands(p)' /\ DoneTold(p)'
    BY <2>1 DEF Stands, DoneTold, NoTx
  <2>5. CASE Commit(p)
    <3>1. \A q \in Proc \ {p} : Stands(q)' /\ DoneTold(q)'
      <4>1. ASSUME NEW q \in Proc \ {p} PROVE Stands(q)' /\ DoneTold(q)'
        <5>1. Stands(q) /\ DoneTold(q)
          BY DEF IInv
        <5> QED BY <1>1, <2>1, <2>5, <5>1, CommitUnfelt
      <4> QED BY <4>1
    <3>2. NoSaleLost'
      BY <1>1, <2>5, CommitLosesNone DEF IInv
    <3> QED BY <2>1, <2>3, <2>4, <3>1, <3>2 DEF IInv
  <2>6. CASE Abort(p)
    <3>1. UNCHANGED <<sales, records>>
      BY <2>6 DEF Abort
    <3>2. ASSUME NEW q \in Proc \ {p} PROVE Stands(q)' /\ DoneTold(q)'
      <4>1. tx'[q] = tx[q] /\ todo'[q] = todo[q] /\ Stands(q) /\ DoneTold(q)
        BY <2>1 DEF IInv
      <4>2. View(q)' = View(q) /\ Brought(q)' = Brought(q)
        BY <3>1, <4>1 DEF View, Brought, Current
      <4> QED BY <4>1, <4>2 DEF Stands, DoneTold
    <3>3. NoSaleLost'
      BY <3>1 DEF IInv, NoSaleLost
    <3> QED BY <2>1, <2>3, <2>4, <3>2, <3>3 DEF IInv
  <2> QED BY <1>10, <2>5, <2>6
<1> QED BY <1>2, <1>3, <1>4, <1>5, <1>6, <1>7, <1>8, <1>9, <1>10 DEF Step

\* Waiting at the end changes nothing.
LEMMA StutterIInv == IInv /\ UNCHANGED vars => IInv'
<1> SUFFICES ASSUME IInv, UNCHANGED vars PROVE IInv'
  OBVIOUS
<1>1. UNCHANGED <<backend, parcels, sales, records, todo, tx>>
  BY DEF vars
<1>2. \A p \in Proc : /\ View(p)' = View(p) /\ Brought(p)' = Brought(p)
                      /\ Wrote(p)' = Wrote(p)
  BY <1>1 DEF View, Brought, Wrote, Current
<1>3. TypeOK'
  BY <1>1, <1>2 DEF IInv, TypeOK, PhaseOK
<1>4. WritesApart' /\ NoSaleLost'
  BY <1>1, <1>2 DEF IInv, WritesApart, NoSaleLost
<1>5. \A p \in Proc : Stands(p)' /\ DoneTold(p)'
  BY <1>1, <1>2 DEF IInv, Stands, DoneTold
<1> QED BY <1>3, <1>4, <1>5 DEF IInv

\* The types, the row locks and, for each open transaction, what a commit of it
\* would leave: the inductive invariant of two ingests at once.
THEOREM Invariance == Spec => []IInv
<1>1. IInv /\ [Next]_vars => IInv'
  BY StepIInv, StutterIInv DEF Next
<1> QED BY InitIInv, <1>1, PTL DEF Spec

\* Two ingests at once, on either database and however their statements are
\* interleaved, waited for or aborted, lose no sale of a recorded file.
THEOREM SalesNeverLost == Spec => []NoSaleLost
<1>1. IInv => NoSaleLost
  BY DEF IInv
<1> QED BY <1>1, Invariance, PTL
-----------------------------------------------------------------------------
(* SQLite: one transaction writes at a time.  It sees the table it found    *)
(* and its own rows, and each of its statements is the statement of         *)
(* SalesRows that ingests one file after another.                           *)

\* A transaction writes a parcel before it writes a sale, and one whose file is
\* empty writes no sale.
Began(p) ==
    /\ ~tx[p].wrote => tx[p].add = {} /\ tx[p].drop = {}
    /\ tx[p].pc \in {"idle", "parcels"} => tx[p].add = {} /\ tx[p].drop = {}
    /\ tx[p].content = <<>> => tx[p].add = {} /\ tx[p].drop = {}
    /\ tx[p].pc = "parcels" => tx[p].wrote \/ tx[p].left = ParcelsOf(tx[p].content)
    /\ tx[p].pc \in {"rows", "prune", "fill", "forget"} =>
          tx[p].wrote \/ tx[p].content = <<>>
    /\ tx[p].pc \in {"prune", "fill"} => tx[p].content # <<>>
    /\ tx[p].pc = "commit" => tx[p].wrote

OneWriter == \A p, q \in Proc : p # q => ~(tx[p].wrote /\ tx[q].wrote)

Unsuperseded(table) == \A r \in table : ~Superseded(r, table)

Reconciled(table) ==
    /\ UniqueKeys(table) /\ Unsuperseded(table)
    /\ \A r \in table : r.source = Weekly /\ r.nbhd = NULL => History(r.parcel, table) = {}

\* A row that p wrote and that is committed too replaced that committed row.
Clean(p) == tx[p].add \cap sales \subseteq tx[p].drop

Serial(p) ==
    /\ Clean(p) /\ UniqueKeys(View(p))
    /\ tx[p].pc \in {"rows", "prune"} =>
          \A r \in View(p) : Superseded(r, View(p)) => InDateRange(r.date, tx[p].content)
    /\ tx[p].pc = "fill" => Unsuperseded(View(p))
    /\ tx[p].pc \in {"forget", "commit"} => Reconciled(View(p))
    /\ tx[p].pc = "commit" => tx[p].gone = Forgotten(p)

SerialInv ==
    /\ \A p \in Proc : Began(p)
    /\ backend = "sqlite" =>
          /\ OneWriter
          /\ Reconciled(sales) /\ OneRecordPerFile
          /\ \A p \in Proc : Serial(p)

\* An empty file brings nothing; another has a parcel.
LEMMA EmptyContent ==
    /\ Parsed(<<>>) = {} /\ Collapsed(<<>>) = {} /\ ParcelsOf(<<>>) = {}
    /\ \A source : Stored(Collapsed(<<>>), source) = {}
    /\ \A d : ~InDateRange(d, <<>>)
    /\ \A c \in Contents : c # <<>> => ParcelsOf(c) # {}
<1>1. Parsed(<<>>) = {}
  BY DEF Parsed
<1>2. ASSUME NEW c \in Contents, c # <<>> PROVE ParcelsOf(c) # {}
  <2>1. c \in Seq(Line) /\ Parsed(c) = DOMAIN c
    BY ContentsType
  <2>2. Len(c) \in Nat /\ DOMAIN c = 1 .. Len(c) /\ Len(c) # 0
    BY <1>2, <2>1, LenProperties, EmptySeq
  <2>3. 1 \in Parsed(c)
    BY <2>1, <2>2
  <2>4. c[1].parcel \in ParcelsOf(c)
    BY <2>3 DEF ParcelsOf
  <2> QED BY <2>4
<1> QED BY <1>1, <1>2 DEF Collapsed, ParcelsOf, Stored, InDateRange

\* The dates of a file's rows are in its period.
LEMMA BroughtInRange ==
    ASSUME TypeOK, NEW p \in Proc, tx[p].pc = "rows", NEW r \in Brought(p)
    PROVE  InDateRange(r.date, tx[p].content)
<1>1. todo[p] # <<>> /\ tx[p].content \in Contents
  BY DEF TypeOK, PhaseOK
<1>2. tx[p].content \in Seq(Line) /\ \A i \in DOMAIN tx[p].content : tx[p].content[i] \in Row
  BY <1>1, ContentsType
<1>3. SourceOf(Current(p)) \in {Weekly, Yearly}
  BY <1>1, CurrentType
<1>4. PICK i \in Parsed(tx[p].content) : r.date = tx[p].content[i].date
  BY <1>2, <1>3, StoredRows DEF Brought
<1>5. tx[p].content[i].date \in Int
  BY <1>2, RowsAssumption DEF Parsed, Row
<1> QED BY <1>4, <1>5 DEF InDateRange

\* How a statement changes what p sees.
LEMMA ViewAfter ==
    ASSUME NEW p \in Proc, NEW old, NEW new, Clean(p), sales' = sales,
           tx'[p].add = (tx[p].add \ old) \cup new,
           tx'[p].drop = tx[p].drop \cup (old \ tx[p].add),
           old \subseteq View(p), new \cap View(p) \subseteq old
    PROVE  View(p)' = (View(p) \ old) \cup new /\ Clean(p)'
BY DEF View, Clean

\* The statements are those of SalesRows.
LEMMA UpsertView ==
    ASSUME TypeOK, NEW p \in Proc, Clean(p), UpsertRow(p)
    PROVE  /\ \E r \in Brought(p) :
                 View(p)' = Upsert(View(p), {r}, SourceOf(Current(p)) = Yearly)
           /\ Clean(p)' /\ tx[p].pc = "rows" /\ tx'[p].pc = "rows"
           /\ tx'[p].content = tx[p].content /\ tx'[p].wrote = tx[p].wrote
<1>1. PICK r \in tx[p].left :
         LET old == Conflicting(p, r)
             written == IF old = {} \/ SourceOf(Current(p)) = Yearly
                        THEN Replaced(tx[p], old, {r}) ELSE tx[p]
         IN tx' = [tx EXCEPT ![p] = [written EXCEPT !.left = @ \ {r}]]
  BY DEF UpsertRow
<1>2. tx \in [Proc -> Tx] /\ tx[p] \in Tx /\ tx[p].pc = "rows" /\ sales' = sales
  BY DEF UpsertRow, TypeOK
<1>3. r \in Brought(p) /\ tx[p].content \in Contents /\ todo[p] # <<>>
  BY <1>2 DEF TypeOK, PhaseOK
<1>4. r \in Row
  BY <1>3, CurrentType, BroughtRows DEF Brought
<1> DEFINE old == Conflicting(p, r)
<1>5. /\ View(p) \subseteq Row /\ old \subseteq View(p)
      /\ \A t \in View(p) : t \in old <=> SameKey(r, t)
      /\ {r} \cap View(p) \subseteq old
  BY <1>4, ViewType, SameKeyEquivalence DEF Conflicting
<1> HIDE DEF old
<1>6. CASE old = {} \/ SourceOf(Current(p)) = Yearly
  <2>1. tx' = [tx EXCEPT ![p] = [Replaced(tx[p], old, {r}) EXCEPT !.left = @ \ {r}]]
    BY <1>1, <1>6 DEF old
  <2> DEFINE t == [tx[p] EXCEPT !.drop = @ \cup (old \ tx[p].add), !.add = (@ \ old) \cup {r},
                                !.left = @ \ {r}]
  <2>2. tx' = [tx EXCEPT ![p] = t]
    BY <1>2, <2>1 DEF Replaced
  <2>3. /\ t.add = (tx[p].add \ old) \cup {r} /\ t.drop = tx[p].drop \cup (old \ tx[p].add)
        /\ t.pc = "rows" /\ t.content = tx[p].content /\ t.wrote = tx[p].wrote
    BY <1>2 DEF Tx
  <2> HIDE DEF t
  <2>4. tx'[p] = t
    BY <1>2, <2>2
  <2>5. View(p)' = (View(p) \ old) \cup {r} /\ Clean(p)'
    BY <1>2, <1>5, <2>3, <2>4, ViewAfter
  <2>6. View(p)' = Upsert(View(p), {r}, SourceOf(Current(p)) = Yearly)
    BY <1>5, <1>6, <2>5 DEF Upsert
  <2> QED BY <1>2, <1>3, <2>3, <2>4, <2>5, <2>6
<1>7. CASE ~(old = {} \/ SourceOf(Current(p)) = Yearly)
  <2> DEFINE t == [tx[p] EXCEPT !.left = @ \ {r}]
  <2>1. tx' = [tx EXCEPT ![p] = t]
    BY <1>1, <1>2, <1>7 DEF old
  <2>2. /\ t.add = tx[p].add /\ t.drop = tx[p].drop
        /\ t.pc = "rows" /\ t.content = tx[p].content /\ t.wrote = tx[p].wrote
    BY <1>2 DEF Tx
  <2> HIDE DEF t
  <2>3. tx'[p] = t
    BY <1>2, <2>1
  <2>4. View(p)' = View(p) /\ Clean(p)'
    BY <1>2, <2>2, <2>3 DEF View, Clean
  <2>5. View(p)' = Upsert(View(p), {r}, SourceOf(Current(p)) = Yearly)
    BY <1>5, <1>7, <2>4 DEF Upsert
  <2> QED BY <1>2, <1>3, <2>2, <2>3, <2>4, <2>5
<1> QED BY <1>6, <1>7

LEMMA PruneView ==
    ASSUME TypeOK, NEW p \in Proc, Clean(p), Prune(p)
    PROVE  /\ View(p)' = PruneSuperseded(View(p), tx[p].content)
           /\ Clean(p)' /\ tx[p].pc = "prune" /\ tx'[p].pc = "fill"
           /\ tx'[p].content = tx[p].content /\ tx'[p].wrote = tx[p].wrote
<1>1. /\ tx \in [Proc -> Tx] /\ tx[p] \in Tx /\ tx[p].pc = "prune" /\ sales' = sales
      /\ tx' = [tx EXCEPT ![p] = [Replaced(tx[p], Outdated(p), {}) EXCEPT !.pc = "fill"]]
  BY DEF Prune, TypeOK
<1> DEFINE old == Outdated(p)
           new == {}
           t == [tx[p] EXCEPT !.drop = @ \cup (old \ tx[p].add), !.add = (@ \ old) \cup new,
                              !.pc = "fill"]
<1>2. /\ old \subseteq View(p) /\ new \cap View(p) \subseteq old
      /\ (View(p) \ old) \cup new = PruneSuperseded(View(p), tx[p].content)
  BY DEF Outdated, PruneSuperseded
<1>3. tx' = [tx EXCEPT ![p] = t]
  BY <1>1 DEF Replaced
<1> HIDE DEF old, new
<1>4. /\ t.add = (tx[p].add \ old) \cup new /\ t.drop = tx[p].drop \cup (old \ tx[p].add)
      /\ t.pc = "fill" /\ t.content = tx[p].content /\ t.wrote = tx[p].wrote
  BY <1>1 DEF Tx
<1> HIDE DEF t
<1>5. tx'[p] = t
  BY <1>1, <1>3
<1>6. View(p)' = (View(p) \ old) \cup new /\ Clean(p)'
  BY <1>1, <1>2, <1>4, <1>5, ViewAfter
<1> QED BY <1>1, <1>2, <1>4, <1>5, <1>6

LEMMA FillView ==
    ASSUME TypeOK, NEW p \in Proc, Clean(p), UniqueKeys(View(p)), Fill(p)
    PROVE  /\ \E pick \in Picks(View(p)) : View(p)' = FillNeighborhood(View(p), pick)
           /\ Clean(p)' /\ tx[p].pc = "fill" /\ tx'[p].pc = "forget"
           /\ tx'[p].content = tx[p].content /\ tx'[p].wrote = tx[p].wrote
<1>1. /\ tx \in [Proc -> Tx] /\ tx[p] \in Tx /\ tx[p].pc = "fill" /\ sales' = sales
  BY DEF Fill, TypeOK
<1>2. PICK pick \in Picks(View(p)) :
         tx' = [tx EXCEPT ![p] = [Replaced(tx[p], Unfilled(p),
                                           {Filled(r, View(p), pick) : r \in Unfilled(p)})
                                  EXCEPT !.pc = "forget"]]
  BY DEF Fill
<1> DEFINE old == Unfilled(p)
           new == {Filled(r, View(p), pick) : r \in old}
           t == [tx[p] EXCEPT !.drop = @ \cup (old \ tx[p].add), !.add = (@ \ old) \cup new,
                              !.pc = "forget"]
<1>3. old \subseteq View(p) /\ View(p) \subseteq Row /\ pick \in [Parcel -> Nbhd]
  BY ViewType DEF Unfilled, Picks
<1>4. \A r \in View(p) : /\ Filled(r, View(p), pick) \in Row
                         /\ SameButNbhd(r, Filled(r, View(p), pick))
  BY <1>3, FilledRow
<1>5. \A r \in View(p) : SameKey(r, Filled(r, View(p), pick))
  BY <1>3, <1>4 DEF SameButNbhd, SameKey, SameConveyance, SameLegacy, Row
<1>6. new \cap View(p) \subseteq old
  BY <1>3, <1>5 DEF UniqueKeys
<1>7. \A r \in View(p) \ old : Filled(r, View(p), pick) = r
  <2> SUFFICES ASSUME NEW r \in View(p) \ old PROVE Filled(r, View(p), pick) = r
    OBVIOUS
  <2>1. r \in Row /\ ~(r.nbhd = NULL /\ r.source = Weekly /\ History(r.parcel, View(p)) # {})
    BY <1>3 DEF Unfilled
  <2> QED BY <1>3, <2>1, FilledRow DEF Row
<1>8. (View(p) \ old) \cup new = FillNeighborhood(View(p), pick)
  BY <1>3, <1>7 DEF FillNeighborhood
<1>9. tx' = [tx EXCEPT ![p] = t]
  BY <1>1, <1>2 DEF Replaced
<1> HIDE DEF old, new
<1>10. /\ t.add = (tx[p].add \ old) \cup new /\ t.drop = tx[p].drop \cup (old \ tx[p].add)
       /\ t.pc = "forget" /\ t.content = tx[p].content /\ t.wrote = tx[p].wrote
  BY <1>1 DEF Tx
<1> HIDE DEF t
<1>11. tx'[p] = t
  BY <1>1, <1>9
<1>12. View(p)' = (View(p) \ old) \cup new /\ Clean(p)'
  BY <1>1, <1>3, <1>6, <1>10, <1>11, ViewAfter
<1> QED BY <1>1, <1>8, <1>10, <1>11, <1>12
\* What the three writing statements leave of the transaction's other fields.
LEMMA WritesFields ==
    ASSUME TypeOK, NEW p \in Proc, UpsertRow(p) \/ Prune(p) \/ Fill(p)
    PROVE  /\ tx'[p].wrote = tx[p].wrote /\ tx'[p].content = tx[p].content
           /\ \/ UpsertRow(p) /\ tx[p].pc = "rows" /\ tx'[p].pc = "rows" /\ tx[p].left # {}
              \/ tx[p].pc = "prune" /\ tx'[p].pc = "fill"
              \/ tx[p].pc = "fill" /\ tx'[p].pc = "forget"
<1>1. tx \in [Proc -> Tx] /\ tx[p] \in Tx
  BY DEF TypeOK
<1>2. CASE UpsertRow(p)
  <2>1. PICK r \in tx[p].left :
           LET old == Conflicting(p, r)
               written == IF old = {} \/ SourceOf(Current(p)) = Yearly
                          THEN Replaced(tx[p], old, {r}) ELSE tx[p]
           IN tx' = [tx EXCEPT ![p] = [written EXCEPT !.left = @ \ {r}]]
    BY <1>2 DEF UpsertRow
  <2>2. tx[p].pc = "rows"
    BY <1>2 DEF UpsertRow
  <2> DEFINE old == Conflicting(p, r)
             new == IF old = {} \/ SourceOf(Current(p)) = Yearly
                    THEN Replaced(tx[p], old, {r}) ELSE tx[p]
  <2>3. new.wrote = tx[p].wrote /\ new.content = tx[p].content /\ new.pc = tx[p].pc
    BY <1>1 DEF Replaced, Tx
  <2>4. /\ [new EXCEPT !.left = @ \ {r}].wrote = new.wrote
        /\ [new EXCEPT !.left = @ \ {r}].content = new.content
        /\ [new EXCEPT !.left = @ \ {r}].pc = new.pc
    BY <1>1 DEF Replaced, Tx
  <2>5. tx'[p] = [new EXCEPT !.left = @ \ {r}]
    BY <1>1, <2>1
  <2> HIDE DEF new, old
  <2> QED BY <1>2, <2>1, <2>2, <2>3, <2>4, <2>5
<1>3. CASE Prune(p)
  <2> DEFINE old == Outdated(p)
  <2>1. /\ tx[p].pc = "prune"
        /\ tx' = [tx EXCEPT ![p] = [Replaced(tx[p], old, {}) EXCEPT !.pc = "fill"]]
    BY <1>3 DEF Prune
  <2> HIDE DEF old
  <2>2. /\ tx'[p].wrote = tx[p].wrote /\ tx'[p].content = tx[p].content
        /\ tx'[p].pc = "fill"
    BY <1>1, <2>1 DEF Replaced, Tx
  <2> QED BY <2>1, <2>2
<1>4. CASE Fill(p)
  <2>1. PICK pick \in Picks(View(p)) :
           tx' = [tx EXCEPT ![p] = [Replaced(tx[p], Unfilled(p),
                                             {Filled(r, View(p), pick) : r \in Unfilled(p)})
                                    EXCEPT !.pc = "forget"]]
    BY <1>4 DEF Fill
  <2> DEFINE old == Unfilled(p)
             new == {Filled(r, View(p), pick) : r \in old}
  <2>2. tx' = [tx EXCEPT ![p] = [Replaced(tx[p], old, new) EXCEPT !.pc = "forget"]]
    BY <2>1
  <2>3. tx[p].pc = "fill"
    BY <1>4 DEF Fill
  <2> HIDE DEF old, new
  <2>4. /\ tx'[p].wrote = tx[p].wrote /\ tx'[p].content = tx[p].content
        /\ tx'[p].pc = "forget"
    BY <1>1, <2>2 DEF Replaced, Tx
  <2> QED BY <2>3, <2>4
<1> QED BY <1>2, <1>3, <1>4

\* A transaction's writes begin with its parcels.
LEMMA BeganStep ==
    ASSUME TypeOK, NEW p \in Proc, Step(p), Began(p)
    PROVE  Began(p)'
<1>1. /\ UNCHANGED backend /\ tx \in [Proc -> Tx] /\ tx[p] \in Tx /\ PhaseOK(p)
  BY DEF Step, TypeOK
<1>2. CASE Skip(p)
  BY <1>2 DEF Skip, Began
<1>3. CASE Start(p)
  BY <1>1, <1>3 DEF Start, Began, Tx
<1>4. CASE InsertParcel(p)
  BY <1>1, <1>4 DEF InsertParcel, Began, Tx
<1>5. CASE ParcelsDone(p)
  <2>1. tx[p].pc = "parcels" /\ tx[p].left = {} /\ tx[p].content \in Contents
    BY <1>1, <1>5 DEF ParcelsDone, PhaseOK
  <2>2. tx[p].wrote \/ tx[p].content = <<>>
    BY <2>1, EmptyContent DEF Began
  <2>3. /\ tx'[p].pc = "rows" /\ tx'[p].content = tx[p].content /\ tx'[p].wrote = tx[p].wrote
        /\ tx'[p].add = tx[p].add /\ tx'[p].drop = tx[p].drop
    BY <1>1, <1>5 DEF ParcelsDone, Tx
  <2> QED BY <2>1, <2>2, <2>3 DEF Began
<1>6. CASE UpsertRow(p) \/ Prune(p) \/ Fill(p)
  <2>1. /\ tx'[p].wrote = tx[p].wrote /\ tx'[p].content = tx[p].content
        /\ \/ UpsertRow(p) /\ tx[p].pc = "rows" /\ tx'[p].pc = "rows" /\ tx[p].left # {}
           \/ tx[p].pc = "prune" /\ tx'[p].pc = "fill"
           \/ tx[p].pc = "fill" /\ tx'[p].pc = "forget"
    BY <1>6, WritesFields
  <2>2. tx[p].content # <<>>
    <3>1. CASE tx[p].pc = "rows" /\ tx[p].left # {}
      <4>1. Brought(p) # {}
        BY <1>1, <3>1 DEF PhaseOK
      <4> QED BY <4>1, EmptyContent DEF Brought
    <3>2. CASE tx[p].pc \in {"prune", "fill"}
      BY <3>2 DEF Began
    <3> QED BY <2>1, <3>1, <3>2
  <2>3. tx[p].wrote
    BY <2>1, <2>2 DEF Began
  <2> QED BY <2>1, <2>2, <2>3 DEF Began
<1>7. CASE RowsDone(p)
  <2>1. /\ tx[p].pc = "rows" /\ tx'[p].content = tx[p].content /\ tx'[p].wrote = tx[p].wrote
        /\ tx'[p].add = tx[p].add /\ tx'[p].drop = tx[p].drop
        /\ tx'[p].pc = IF tx[p].content = <<>> THEN "forget" ELSE "prune"
    BY <1>1, <1>7 DEF RowsDone, Tx
  <2> QED BY <2>1 DEF Began
<1>8. CASE Forget(p)
  BY <1>1, <1>8 DEF Forget, Began, Tx
<1>9. CASE Commit(p) \/ Abort(p)
  <2>1. tx'[p] = NoTx
    BY <1>1, <1>9 DEF Commit, Abort, RolledBack
  <2> QED BY <2>1 DEF NoTx, Began
<1> QED BY <1>2, <1>3, <1>4, <1>5, <1>6, <1>7, <1>8, <1>9 DEF Step

\* Of the transactions of SQLite one writes at a time.
LEMMA OneWriterStep ==
    ASSUME TypeOK, NEW p \in Proc, Step(p), backend = "sqlite", OneWriter
    PROVE  OneWriter'
<1>1. tx \in [Proc -> Tx] /\ tx[p] \in Tx
  BY DEF TypeOK
<1>2. \A q \in Proc \ {p} : tx'[q] = tx[q]
  <2>1. CASE UpsertRow(p) \/ Prune(p) \/ Fill(p)
    BY <2>1, UpsertRowStep, PruneFillStep DEF Statement
  <2>2. CASE Quiet(p) \/ Ends(p)
    BY <1>1, <2>2
       DEF Quiet, Ends, Skip, Start, InsertParcel, ParcelsDone, RowsDone, Forget, Commit, Abort
  <2> QED BY <2>1, <2>2 DEF Step, Quiet, Ends
<1>3. ASSUME tx'[p].wrote, ~tx[p].wrote
      PROVE  \A q \in Others(p) : ~tx[q].wrote
  <2>1. CASE InsertParcel(p) \/ Forget(p)
    BY <2>1 DEF InsertParcel, Forget, MayWrite
  <2>2. CASE UpsertRow(p) \/ Prune(p) \/ Fill(p)
    BY <1>3, <2>2, WritesFields
  <2>3. CASE Skip(p) \/ Start(p) \/ ParcelsDone(p) \/ RowsDone(p)
    <3>1. tx'[p].wrote = tx[p].wrote
      <4>1. CASE Skip(p)
        BY <4>1 DEF Skip
      <4>2. CASE Start(p)
        BY <1>1, <4>2 DEF Start, Tx
      <4>3. CASE ParcelsDone(p)
        BY <1>1, <4>3 DEF ParcelsDone, Tx
      <4>4. CASE RowsDone(p)
        BY <1>1, <4>4 DEF RowsDone, Tx
      <4> QED BY <2>3, <4>1, <4>2, <4>3, <4>4
    <3> QED BY <1>3, <3>1
  <2>4. CASE Commit(p) \/ Abort(p)
    <3>1. tx'[p] = NoTx
      BY <1>1, <2>4 DEF Commit, Abort, RolledBack
    <3> QED BY <1>3, <3>1 DEF NoTx
  <2> QED BY <2>1, <2>2, <2>3, <2>4 DEF Step
<1> QED BY <1>2, <1>3 DEF OneWriter, Others

\* A quiet statement leaves p the table it saw.
LEMMA QuietView ==
    ASSUME NEW p \in Proc, sales' = sales, tx'[p].add = tx[p].add, tx'[p].drop = tx[p].drop
    PROVE  View(p)' = View(p) /\ (Clean(p) => Clean(p)')
BY DEF View, Clean

\* The upsert leaves, of superseded rows, those of the file's period only.
LEMMA UpsertSerial ==
    ASSUME TypeOK, NEW p \in Proc, UpsertRow(p), Serial(p)
    PROVE  Serial(p)'
<1>1. Clean(p) /\ UniqueKeys(View(p))
  BY DEF Serial
<1>2. PICK r \in Brought(p) :
         View(p)' = Upsert(View(p), {r}, SourceOf(Current(p)) = Yearly)
  BY <1>1, UpsertView
<1>3. /\ Clean(p)' /\ tx[p].pc = "rows" /\ tx'[p].pc = "rows"
      /\ tx'[p].content = tx[p].content
  BY <1>1, UpsertView
<1>4. tx[p].content \in Contents /\ todo[p] # <<>>
  BY <1>3 DEF TypeOK, PhaseOK
<1>5. r \in Row /\ SourceOf(Current(p)) \in {Weekly, Yearly} /\ r.source = SourceOf(Current(p))
  BY <1>4, CurrentType, BroughtRows DEF Brought
<1>6. UniqueKeys(View(p)') /\ View(p)' \subseteq View(p) \cup {r}
  <2> DEFINE rows == {r}
  <2>1. rows \subseteq Row /\ UniqueKeys(rows) /\ \A s \in rows : s.source = SourceOf(Current(p))
    BY <1>5 DEF UniqueKeys
  <2> HIDE DEF rows
  <2>2. LET upserted == Upsert(View(p), rows, SourceOf(Current(p)) = Yearly) IN
        upserted \subseteq View(p) \cup rows /\ UniqueKeys(upserted)
    BY <1>1, <1>5, <2>1, ViewType, UpsertTable
  <2> QED BY <1>2, <2>2 DEF rows
<1>7. InDateRange(r.date, tx[p].content)
  BY <1>3, BroughtInRange
<1>8. \A s \in View(p) : Superseded(s, View(p)) => InDateRange(s.date, tx[p].content)
  BY <1>3 DEF Serial
<1>9. ASSUME NEW s \in View(p)', Superseded(s, View(p)')
      PROVE  InDateRange(s.date, tx[p].content)
  <2>1. PICK y \in View(p)' : y.source = Yearly /\ SameConveyance(s, y)
    BY <1>9 DEF Superseded
  <2>2. CASE s = r \/ y = r
    BY <1>7, <2>1, <2>2 DEF SameConveyance
  <2>3. CASE s \in View(p) /\ y \in View(p)
    BY <1>8, <1>9, <2>1, <2>3 DEF Superseded
  <2> QED BY <1>6, <2>2, <2>3
<1> QED BY <1>3, <1>6, <1>9 DEF Serial, UniqueKeys

\* The prune deletes those.
LEMMA PruneSerial ==
    ASSUME TypeOK, NEW p \in Proc, Prune(p), Serial(p)
    PROVE  Serial(p)'
<1>1. /\ View(p)' = PruneSuperseded(View(p), tx[p].content)
      /\ Clean(p)' /\ tx[p].pc = "prune" /\ tx'[p].pc = "fill"
  BY PruneView DEF Serial
<1>2. View(p)' \subseteq View(p) /\ UniqueKeys(View(p))
  BY <1>1 DEF PruneSuperseded, Serial
<1>3. ASSUME NEW r \in View(p)' PROVE ~Superseded(r, View(p)')
  <2>1. ~Superseded(r, View(p))
    BY <1>1, <1>2 DEF PruneSuperseded, Serial
  <2> QED BY <1>2, <2>1 DEF Superseded
<1> QED BY <1>1, <1>2, <1>3 DEF Serial, Unsuperseded, UniqueKeys

\* The fill leaves a table on which all the rules hold.
LEMMA FillSerial ==
    ASSUME TypeOK, NEW p \in Proc, Fill(p), Serial(p)
    PROVE  Serial(p)'
<1>1. Clean(p) /\ UniqueKeys(View(p))
  BY DEF Serial
<1>2. Clean(p)' /\ tx[p].pc = "fill" /\ tx'[p].pc = "forget"
  BY <1>1, FillView
<1>3. PICK pick \in Picks(View(p)) : View(p)' = FillNeighborhood(View(p), pick)
  BY <1>1, FillView
<1>4. Unsuperseded(View(p)) /\ View(p) \subseteq Row
  BY <1>2, ViewType DEF Serial
<1>5. /\ View(p)' \subseteq Row /\ UniqueKeys(View(p)')
      /\ \A t \in View(p)' : \E r \in View(p) : SameButNbhd(r, t)
      /\ \A t \in View(p)' : t.source = Weekly /\ t.nbhd = NULL =>
            History(t.parcel, View(p)') = {}
  <2>1. LET filled == FillNeighborhood(View(p), pick) IN
        /\ filled \subseteq Row /\ UniqueKeys(filled)
        /\ \A t \in filled : \E r \in View(p) : SameButNbhd(r, t)
        /\ \A t \in filled : t.source = Weekly /\ t.nbhd = NULL =>
              History(t.parcel, filled) = {}
    BY <1>1, <1>4, FilledTable
  <2> QED BY <1>3, <2>1
<1>6. ASSUME NEW t \in View(p)' PROVE ~Superseded(t, View(p)')
  <2> SUFFICES ASSUME NEW y \in View(p)', t.source = Weekly, y.source = Yearly,
                      SameConveyance(t, y)
               PROVE  FALSE
    BY DEF Superseded
  <2>1. PICK r \in View(p) : SameButNbhd(r, t)
    BY <1>5
  <2>2. PICK z \in View(p) : SameButNbhd(z, y)
    BY <1>5
  <2>3. Superseded(r, View(p))
    BY <2>1, <2>2 DEF Superseded, SameButNbhd, SameConveyance
  <2> QED BY <1>4, <2>3 DEF Unsuperseded
<1>7. Reconciled(View(p)')
  BY <1>5, <1>6 DEF Reconciled, Unsuperseded
<1> QED BY <1>2, <1>5, <1>7 DEF Serial, Reconciled, Unsuperseded, UniqueKeys, History
\* A statement that writes no sales.
LEMMA QuietSerial ==
    ASSUME TypeOK, NEW p \in Proc, Quiet(p), Began(p), Reconciled(sales), Serial(p)
    PROVE  Serial(p)'
<1>1. tx \in [Proc -> Tx] /\ tx[p] \in Tx /\ sales' = sales /\ records' = records
  BY DEF Quiet, Skip, Start, InsertParcel, ParcelsDone, RowsDone, Forget, TypeOK
<1>2. tx'[p].add = tx[p].add /\ tx'[p].drop = tx[p].drop
  <2>1. CASE Skip(p)
    BY <2>1 DEF Skip
  <2>2. CASE Start(p)
    BY <1>1, <2>2 DEF Start, Tx
  <2>3. CASE InsertParcel(p)
    BY <1>1, <2>3 DEF InsertParcel, Tx
  <2>4. CASE ParcelsDone(p)
    BY <1>1, <2>4 DEF ParcelsDone, Tx
  <2>5. CASE RowsDone(p)
    BY <1>1, <2>5 DEF RowsDone, Tx
  <2>6. CASE Forget(p)
    BY <1>1, <2>6 DEF Forget, Tx
  <2> QED BY <2>1, <2>2, <2>3, <2>4, <2>5, <2>6 DEF Quiet
<1>3. /\ View(p)' = View(p) /\ Clean(p)' /\ UniqueKeys(View(p))
      /\ tx[p].add = {} /\ tx[p].drop = {} => View(p) = sales
  BY <1>1, <1>2, QuietView DEF Serial, View
<1>4. UniqueKeys(View(p)')
  BY <1>3
<1>5. CASE Skip(p) \/ Start(p) \/ InsertParcel(p)
  <2>1. tx'[p].pc \in {"idle", "parcels"}
    <3>1. CASE Skip(p)
      BY <3>1 DEF Skip
    <3>2. CASE Start(p)
      BY <1>1, <3>2 DEF Start, Tx
    <3>3. CASE InsertParcel(p)
      BY <1>1, <3>3 DEF InsertParcel, Tx
    <3> QED BY <1>5, <3>1, <3>2, <3>3
  <2> QED BY <1>3, <1>4, <2>1 DEF Serial, UniqueKeys
<1>6. CASE ParcelsDone(p)
  <2>1. tx[p].pc = "parcels" /\ tx'[p].pc = "rows"
    BY <1>1, <1>6 DEF ParcelsDone, Tx
  <2>2. Unsuperseded(View(p)')
    BY <1>3, <2>1 DEF Began, Reconciled
  <2> QED BY <1>3, <1>4, <2>1, <2>2 DEF Serial, UniqueKeys, Unsuperseded
<1>7. CASE RowsDone(p)
  <2>1. /\ tx[p].pc = "rows" /\ tx'[p].content = tx[p].content
        /\ tx'[p].pc = IF tx[p].content = <<>> THEN "forget" ELSE "prune"
    BY <1>1, <1>7 DEF RowsDone, Tx
  <2>2. CASE tx[p].content = <<>>
    <3>1. Reconciled(View(p)')
      BY <1>3, <2>2 DEF Began
    <3> QED BY <1>3, <1>4, <2>1, <2>2, <3>1
         DEF Serial, UniqueKeys, Reconciled, Unsuperseded, History
  <2>3. CASE tx[p].content # <<>>
    <3>1. \A r \in View(p)' : Superseded(r, View(p)') => InDateRange(r.date, tx'[p].content)
      BY <1>3, <2>1 DEF Serial
    <3> QED BY <1>3, <1>4, <2>1, <2>3, <3>1 DEF Serial, UniqueKeys, Superseded
  <2> QED BY <2>2, <2>3
<1>8. CASE Forget(p)
  <2>1. /\ tx[p].pc = "forget" /\ tx'[p].pc = "commit" /\ tx'[p].gone = Forgotten(p)
        /\ todo' = todo
    BY <1>1, <1>8 DEF Forget, Tx
  <2>2. Reconciled(View(p)')
    BY <1>3, <2>1 DEF Serial
  <2>3. Forgotten(p)' = Forgotten(p)
    BY <1>1, <2>1 DEF Forgotten, Current
  <2> QED BY <1>3, <1>4, <2>1, <2>2, <2>3
       DEF Serial, UniqueKeys, Reconciled, Unsuperseded, History
<1> QED BY <1>5, <1>6, <1>7, <1>8 DEF Quiet

\* A process that neither moves nor sees a commit.
LEMMA SerialStays ==
    ASSUME NEW q \in Proc, tx'[q] = tx[q], todo'[q] = todo[q], sales' = sales, records' = records,
           Serial(q)
    PROVE  Serial(q)'
<1>1. View(q)' = View(q) /\ Forgotten(q)' = Forgotten(q)
  BY DEF View, Forgotten, Current
<1>2. Clean(q)' /\ UniqueKeys(View(q)')
  BY <1>1 DEF Serial, Clean
<1>3. tx'[q].pc \in {"rows", "prune"} =>
          \A r \in View(q)' : Superseded(r, View(q)') => InDateRange(r.date, tx'[q].content)
  BY <1>1 DEF Serial
<1>4. /\ tx'[q].pc = "fill" => Unsuperseded(View(q)')
      /\ tx'[q].pc \in {"forget", "commit"} => Reconciled(View(q)')
  BY <1>1 DEF Serial
<1> QED BY <1>1, <1>2, <1>3, <1>4
     DEF Serial, UniqueKeys, Unsuperseded, Superseded, Reconciled, History

\* A process that has written nothing sees the committed table.
LEMMA SerialAnew ==
    ASSUME NEW q \in Proc, tx'[q].add = {}, tx'[q].drop = {}, tx'[q].pc # "commit",
           Reconciled(sales')
    PROVE  Serial(q)'
<1>1. View(q)' = sales'
  BY DEF View
<1>2. Clean(q)'
  BY DEF Clean
<1> QED BY <1>1, <1>2 DEF Serial, Reconciled, UniqueKeys, Unsuperseded, Superseded, History

\* A commit publishes a table on which all the rules hold.
LEMMA CommitSerial ==
    ASSUME TypeOK, NEW p \in Proc, Commit(p), Serial(p), OneRecordPerFile
    PROVE  Reconciled(sales)' /\ OneRecordPerFile'
<1>1. /\ sales' = View(p) /\ tx[p].pc = "commit"
      /\ records' = (records \ tx[p].gone)
                    \cup {[file |-> Current(p), content |-> tx[p].content, by |-> p]}
  BY DEF Commit
<1>2. Reconciled(View(p)) /\ tx[p].gone = {d \in records : d.file = Current(p)}
  BY <1>1 DEF Serial, Forgotten
<1>3. Reconciled(sales)'
  BY <1>1, <1>2 DEF Reconciled, UniqueKeys, Unsuperseded, Superseded, History
<1>4. OneRecordPerFile'
  BY <1>1, <1>2 DEF OneRecordPerFile
<1> QED BY <1>3, <1>4

LEMMA SerialStep ==
    ASSUME TypeOK, SerialInv, NEW p \in Proc, Step(p)
    PROVE  SerialInv'
<1>1. UNCHANGED backend /\ \A q \in Proc : Began(q)
  BY DEF Step, SerialInv
<1>2. tx \in [Proc -> Tx] /\ todo \in [Proc -> Seq(Seq(File) \ {<<>>})]
  BY DEF TypeOK
<1>3. \A q \in Proc \ {p} : tx'[q] = tx[q] /\ todo'[q] = todo[q]
  <2>1. CASE UpsertRow(p) \/ Prune(p) \/ Fill(p)
    BY <2>1, UpsertRowStep, PruneFillStep DEF Statement
  <2>2. CASE Quiet(p) \/ Ends(p)
    BY <1>2, <2>2
       DEF Quiet, Ends, Skip, Start, InsertParcel, ParcelsDone, RowsDone, Forget, Commit, Abort
  <2> QED BY <2>1, <2>2 DEF Step, Quiet, Ends
<1>4. \A q \in Proc : Began(q)'
  <2>1. Began(p)'
    BY <1>1, BeganStep
  <2>2. ASSUME NEW q \in Proc \ {p} PROVE Began(q)'
    BY <1>1, <1>3 DEF Began
  <2> QED BY <2>1, <2>2
<1>5. CASE backend # "sqlite"
  BY <1>1, <1>4, <1>5 DEF SerialInv
<1>6. CASE backend = "sqlite"
  <2>1. OneWriter /\ Reconciled(sales) /\ OneRecordPerFile /\ \A q \in Proc : Serial(q)
    BY <1>6 DEF SerialInv
  <2>2. OneWriter'
    BY <1>6, <2>1, OneWriterStep
  <2>3. CASE ~Ends(p)
    <3>1. sales' = sales /\ records' = records
      BY <2>3 DEF Step, Ends, Skip, Start, InsertParcel, ParcelsDone, UpsertRow, RowsDone, Prune,
                  Fill, Forget
    <3>2. Serial(p)'
      <4>1. CASE Quiet(p)
        BY <1>1, <2>1, <4>1, QuietSerial
      <4>2. CASE UpsertRow(p)
        BY <2>1, <4>2, UpsertSerial
      <4>3. CASE Prune(p)
        BY <2>1, <4>3, PruneSerial
      <4>4. CASE Fill(p)
        BY <2>1, <4>4, FillSerial
      <4> QED BY <2>3, <4>1, <4>2, <4>3, <4>4 DEF Step, Quiet, Ends
    <3>3. ASSUME NEW q \in Proc \ {p} PROVE Serial(q)'
      BY <1>3, <2>1, <3>1, SerialStays
    <3>4. Reconciled(sales)' /\ OneRecordPerFile'
      BY <2>1, <3>1
         DEF Reconciled, UniqueKeys, Unsuperseded, Superseded, History, OneRecordPerFile
    <3> QED BY <1>4, <2>2, <3>2, <3>3, <3>4 DEF SerialInv
  <2>4. CASE Commit(p)
    <3>1. Reconciled(sales)' /\ OneRecordPerFile'
      BY <2>1, <2>4, CommitSerial
    <3>2. Reconciled(sales')
      BY <3>1 DEF Reconciled, UniqueKeys, Unsuperseded, Superseded, History
    <3>3. tx'[p] = NoTx
      BY <1>2, <2>4 DEF Commit
    <3>4. Serial(p)'
      BY <3>2, <3>3, SerialAnew DEF NoTx
    <3>5. ASSUME NEW q \in Proc \ {p} PROVE Serial(q)'
      <4>1. tx[p].wrote
        BY <1>1, <2>4 DEF Began, Commit
      <4>2. ~tx[q].wrote
        BY <2>1, <4>1 DEF OneWriter
      <4>3. tx[q].add = {} /\ tx[q].drop = {} /\ tx[q].pc # "commit"
        BY <1>1, <4>2 DEF Began
      <4> QED BY <1>3, <3>2, <4>3, SerialAnew
    <3> QED BY <1>4, <2>2, <3>1, <3>4, <3>5 DEF SerialInv
  <2>5. CASE Abort(p)
    <3>1. sales' = sales /\ records' = records /\ tx'[p] = NoTx
      BY <1>2, <2>5 DEF Abort, RolledBack
    <3>2. Serial(p)'
      BY <2>1, <3>1, SerialAnew DEF NoTx
    <3>3. ASSUME NEW q \in Proc \ {p} PROVE Serial(q)'
      BY <1>3, <2>1, <3>1, SerialStays
    <3>4. Reconciled(sales)' /\ OneRecordPerFile'
      BY <2>1, <3>1
         DEF Reconciled, UniqueKeys, Unsuperseded, Superseded, History, OneRecordPerFile
    <3> QED BY <1>4, <2>2, <3>2, <3>3, <3>4 DEF SerialInv
  <2> QED BY <2>3, <2>4, <2>5 DEF Ends
<1> QED BY <1>5, <1>6

\* On either database a transaction's writes begin with its parcels; on SQLite one
\* transaction writes at a time, and what it sees is reconciled when its file is done.
THEOREM SerialInvariance == Spec => []SerialInv
<1>1. Init => SerialInv
  <2> SUFFICES ASSUME Init PROVE SerialInv
    OBVIOUS
  <2>1. sales = {} /\ records = {} /\ \A p \in Proc : tx[p] = NoTx
    BY DEF Init
  <2>2. \A p \in Proc : Began(p)
    BY <2>1 DEF Began, NoTx
  <2>3. OneWriter
    BY <2>1 DEF OneWriter, NoTx
  <2>4. Reconciled(sales) /\ OneRecordPerFile
    BY <2>1 DEF Reconciled, UniqueKeys, Unsuperseded, OneRecordPerFile
  <2>5. \A p \in Proc : Serial(p)
    BY <2>1 DEF Serial, Clean, View, NoTx, UniqueKeys
  <2> QED BY <2>2, <2>3, <2>4, <2>5 DEF SerialInv
<1>2. TypeOK /\ SerialInv /\ UNCHANGED vars => SerialInv'
  <2> SUFFICES ASSUME SerialInv, UNCHANGED vars PROVE SerialInv'
    OBVIOUS
  <2>1. UNCHANGED <<backend, parcels, sales, records, todo, tx>>
    BY DEF vars
  <2>2. \A p \in Proc : Began(p)'
    BY <2>1 DEF SerialInv, Began
  <2>3. (backend = "sqlite") => OneWriter' /\ Reconciled(sales)' /\ OneRecordPerFile'
    BY <2>1 DEF SerialInv, OneWriter, Reconciled, UniqueKeys, Unsuperseded, Superseded,
                History, OneRecordPerFile
  <2>4. backend = "sqlite" => \A p \in Proc : Serial(p)'
    <3>1. ASSUME backend = "sqlite", NEW p \in Proc PROVE Serial(p)'
      BY <2>1, <3>1, SerialStays DEF SerialInv
    <3> QED BY <3>1
  <2> QED BY <2>1, <2>2, <2>3, <2>4 DEF SerialInv
<1>3. TypeOK /\ SerialInv /\ [Next]_vars => SerialInv'
  BY <1>2, SerialStep DEF Next
<1>4. IInv => TypeOK
  BY DEF IInv
<1> QED BY <1>1, <1>3, <1>4, Invariance, PTL DEF Spec

\* On SQLite two ingests at once keep what one after another keeps: no superseded
\* weekly row, one DataFile row per file, no fillable neighborhood left blank.
THEOREM SqliteSerializes == Spec => []SqliteReconciles
<1>1. SerialInv => SqliteReconciles
  BY DEF SerialInv, SqliteReconciles, SupersededWeeklyDeleted, NeighborhoodsFilled,
         Reconciled, Unsuperseded
<1> QED BY <1>1, SerialInvariance, PTL
================================================================================
