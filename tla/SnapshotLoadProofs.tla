-------------------------- MODULE SnapshotLoadProofs --------------------------
(***************************************************************************)
(* Theorems about SnapshotLoad for any kinds of files with any parts, keys *)
(* and lines, any size of chunks and any tolerance.  A load is described   *)
(* by the number of lines its reader has taken: what it has built of a     *)
(* part is what the part's file says of the rows that begin before.        *)
(***************************************************************************)
EXTENDS SnapshotLoad, TLAPS, FiniteSetTheorems, SequenceTheorems

RowType == [key: Key \cup {Bad}, at: Nat, more: Nat]

TableRow == [key: Key, more: Nat, lines: SUBSET Nat]

Tx == [open: BOOLEAN, kind: Kind \cup {"none"},
       file: {<<>>} \cup UNION {File[k] : k \in Kind},
       tables: [Part -> SUBSET TableRow], part: Nat, side: BOOLEAN, rest: Seq(Line),
       row: RowType \cup {None}, total: Nat, bad: Nat,
       group: [key: Key \cup {None}, lines: SUBSET Nat], cards: [Key -> SUBSET Nat],
       chunk: Seq(TableRow)]

\* The part that a load is at, and the lines its reader reads.
PartAt(t) == Parts[t.kind][t.part]
LinesAt(t) == t.file[IF t.side THEN Side[PartAt(t)] ELSE PartAt(t)]

InPart(t) == t.open /\ t.part \in DOMAIN Parts[t.kind]

-----------------------------------------------------------------------------
(* What a reader that has taken n of the lines has built.                   *)

\* The rows begun in the first b lines, and the bad ones.
Begins(lines, b) == {i \in 1 .. b : lines[i] # More}
BadTo(lines, b) == {i \in 1 .. b : lines[i] = Bad}

\* The rows built are those that begin in so many lines.
BuiltTo(t, n) == IF t.row = None THEN n ELSE t.row.at - 1

RowAt(t, lines, n) ==
    /\ n \in 0 .. Len(lines)
    /\ t.row = None => n = Len(lines) \/ \A m \in 1 .. n : lines[m] = More
    /\ t.row # None => /\ t.row.at \in 1 .. n /\ lines[t.row.at] = t.row.key
                       /\ t.row.more = n - t.row.at
                       /\ \A m \in t.row.at + 1 .. n : lines[m] = More
    /\ t.total = Cardinality(Begins(lines, BuiltTo(t, n)))
    /\ t.bad = Cardinality(BadTo(lines, BuiltTo(t, n)))

RestAt(t, lines, n) ==
    Len(t.rest) = Len(lines) - n /\ \A i \in 1 .. Len(t.rest) : t.rest[i] = lines[n + i]

\* The row of the table that begins at line i of part p, and where rows begin.
RowOf(f, p, i) ==
    [key |-> f[p][i], more |-> Cardinality(Overflow(f[p], i)),
     lines |-> IF Side[p] = None THEN {} ELSE At(f[Side[p]], f[p][i])]

Starts(f, p, i) == f[p][i] \in Key /\ (p \in Guarded => i = Min(At(f[p], f[p][i])))

Loaded(f, p, b) == {i \in 1 .. b : Starts(f, p, i)}

Rows(f, p, b) == {RowOf(f, p, i) : i \in Loaded(f, p, b)}

\* The lines of a card, those of the group being read among them.
CardLines(t, k) == t.cards[k] \cup (IF t.group.key = k THEN t.group.lines ELSE {})

\* The rows that begin in the first b lines are with the cards, or in the table.
CardsRight(t, f, p) ==
    \A k \in Key : t.cards[k] = IF Side[p] = None THEN {} ELSE At(f[Side[p]], k)

SideBuilt(t, b) ==
    /\ Side[PartAt(t)] # None /\ t.chunk = <<>>
    /\ \A k \in Key : CardLines(t, k) = {i \in 1 .. b : LinesAt(t)[i] = k}

MainBuilt(t, b) ==
    /\ t.tables[PartAt(t)] \cup Range(t.chunk) = Rows(t.file, PartAt(t), b)
    /\ CardsRight(t, t.file, PartAt(t))
    /\ Side[PartAt(t)] # None => Accepted(t.file[Side[PartAt(t)]])

Built(t, b) == IF t.side THEN SideBuilt(t, b) ELSE MainBuilt(t, b)

ReaderAt(t, n) ==
    /\ RowAt(t, LinesAt(t), n)
    /\ RestAt(t, LinesAt(t), n)
    /\ Built(t, BuiltTo(t, n))

PartOk(t) == InPart(t) => \E n \in 0 .. Len(LinesAt(t)) : ReaderAt(t, n)

\* The tables of the parts done are those of the file.
TableRight(table, f, p) ==
    /\ table = TableOf(f, p)
    /\ Accepted(f[p])
    /\ Side[p] # None => Accepted(f[Side[p]])

PlaceOk(t) ==
    t.open => /\ t.kind \in Kind /\ t.file \in File[t.kind]
              /\ t.part \in 1 .. Len(Parts[t.kind]) + 1

\* The tables of the other kinds are as they were when the load began.
DoneOk(t, before) ==
    t.open => /\ \A i \in DOMAIN Parts[t.kind] :
                    i < t.part => TableRight(t.tables[Parts[t.kind][i]], t.file, Parts[t.kind][i])
              /\ \A k \in Kind \ {t.kind} : \A p \in PartsOf(k) : t.tables[p] = before[p]

TypeOK ==
    /\ tx \in Tx /\ PlaceOk(tx)
    /\ committed \in [Part -> SUBSET TableRow]
    /\ source \in [Kind -> UNION {File[k] \cup {NoFile(k)} : k \in Kind}]
    /\ \A k \in Kind : source[k] \in File[k] \cup {NoFile(k)}

IInv ==
    /\ TypeOK
    /\ PartOk(tx)
    /\ DoneOk(tx, committed)
    /\ OneSnapshot
    /\ GuardedPartsInsert

-----------------------------------------------------------------------------
(* Files.                                                                   *)

LEMMA FileLines ==
    ASSUME NEW k \in Kind, NEW f \in File[k] \cup {NoFile(k)}, NEW p \in PartsOf(k)
    PROVE  /\ f[p] \in Seq(Line)
           /\ Side[p] # None => f[Side[p]] \in Seq(Line)
<1>1. p \in Part
  BY DEF Part
<1>2. Side[p] # None => Side[p] \in SidesOf(k)
  BY DEF SidesOf
<1>3. f \in [PartsOf(k) \cup SidesOf(k) -> Seq(Line)]
  <2>1. NoFile(k) \in [PartsOf(k) \cup SidesOf(k) -> Seq(Line)]
    BY EmptySeq DEF NoFile
  <2> QED BY <2>1, LoadAssumption
<1> QED BY <1>2, <1>3

\* The parts of a kind are a sequence without repetitions.
LEMMA PartsType ==
    ASSUME NEW k \in Kind
    PROVE  /\ Len(Parts[k]) \in Nat /\ DOMAIN Parts[k] = 1 .. Len(Parts[k])
           /\ \A i \in DOMAIN Parts[k] : Parts[k][i] \in PartsOf(k) /\ Parts[k][i] \in Part
           /\ \A i, j \in DOMAIN Parts[k] : Parts[k][i] = Parts[k][j] => i = j
           /\ PartsOf(k) \subseteq Part
<1>1. Parts[k] \in Seq(PartsOf(k)) /\ IsInjective(Parts[k])
  BY LoadAssumption
<1>2. Len(Parts[k]) \in Nat /\ DOMAIN Parts[k] = 1 .. Len(Parts[k])
  BY <1>1, LenProperties
<1>3. PartsOf(k) \subseteq Part
  BY DEF Part
<1> QED BY <1>1, <1>2, <1>3 DEF IsInjective, PartsOf, Range

\* A nonempty set of positions has a first one.
LEMMA FirstPosition ==
    ASSUME NEW n \in Nat, NEW T, T \subseteq 1 .. n, T # {}
    PROVE  Min(T) \in T /\ \A i \in T : Min(T) <= i
<1> DEFINE S == 1 .. n
           F == {1 .. k : k \in T}
           R == StrictSubsetOrdering(S)
<1>1. \A k \in T : 1 .. k \in SUBSET S
  OBVIOUS
<1>2. F \subseteq FiniteSubsetsOf(S)
  <2>1. \A k \in T : IsFiniteSet(1 .. k)
    BY FS_Interval
  <2> QED BY <1>1, <2>1 DEF FiniteSubsetsOf
<1>3. F # {}
  OBVIOUS
<1>4. IsWellFoundedOn(R, FiniteSubsetsOf(S))
  BY FS_StrictSubsetOrderingWellFounded
<1>5. PICK x \in F : \A y \in F : ~(<<y, x>> \in R)
  <2> HIDE DEF R, F, S
  <2> QED BY <1>2, <1>3, <1>4, WFMin
<1>6. PICK m \in T : x = 1 .. m
  OBVIOUS
<1>7. \A k \in T : m <= k
  <2> SUFFICES ASSUME NEW k \in T, ~(m <= k) PROVE FALSE
    OBVIOUS
  <2>1. 1 .. k \in F /\ 1 .. k \subseteq 1 .. m /\ 1 .. k # 1 .. m
    OBVIOUS
  <2>2. <<1 .. k, x>> \in R
    BY <1>1, <1>6, <2>1 DEF StrictSubsetOrdering
  <2> QED BY <1>5, <2>1, <2>2
<1> QED BY <1>7 DEF Min

-----------------------------------------------------------------------------
(* A row is complete.                                                       *)

LEMMA ChunkedFields ==
    ASSUME NEW t \in Tx, NEW row \in RowType, row.key \in Key
    PROVE  LET c == Chunked(t, row)
               r == [key |-> row.key, more |-> row.more, lines |-> t.cards[row.key]]
           IN /\ c \in Tx /\ r \in TableRow
              /\ c.open = t.open /\ c.kind = t.kind /\ c.file = t.file /\ c.tables = t.tables
              /\ c.part = t.part /\ c.side = t.side /\ c.rest = t.rest /\ c.row = t.row
              /\ c.total = t.total /\ c.bad = t.bad /\ c.group = t.group /\ c.cards = t.cards
              /\ IF PartAt(t) \in Guarded /\ Seen(t, row.key) THEN c = t
                 ELSE c.chunk = Append(t.chunk, r) /\ Range(c.chunk) = Range(t.chunk) \cup {r}
<1> DEFINE r == [key |-> row.key, more |-> row.more, lines |-> t.cards[row.key]]
           c == Chunked(t, row)
<1>1. r \in TableRow
  BY DEF Tx, TableRow, RowType
<1> HIDE DEF r
<1>2. t.chunk \in Seq(TableRow)
  BY DEF Tx
<1>3. Append(t.chunk, r) \in Seq(TableRow) /\ Range(Append(t.chunk, r)) = Range(t.chunk) \cup {r}
  <2>1. /\ Append(t.chunk, r) \in Seq(TableRow)
        /\ Len(Append(t.chunk, r)) = Len(t.chunk) + 1
        /\ \A i \in 1 .. Len(t.chunk) : Append(t.chunk, r)[i] = t.chunk[i]
        /\ Append(t.chunk, r)[Len(t.chunk) + 1] = r
    BY <1>1, <1>2, AppendProperties
  <2>2. /\ DOMAIN t.chunk = 1 .. Len(t.chunk) /\ Len(t.chunk) \in Nat
        /\ DOMAIN Append(t.chunk, r) = 1 .. Len(t.chunk) + 1
    BY <1>2, <2>1, LenProperties
  <2> QED BY <2>1, <2>2 DEF Range
<1>4. CASE PartAt(t) \in Guarded /\ Seen(t, row.key)
  BY <1>1, <1>4 DEF Chunked, PartAt, r
<1>5. CASE ~(PartAt(t) \in Guarded /\ Seen(t, row.key))
  <2>1. c = [t EXCEPT !.chunk = Append(t.chunk, r)]
    BY <1>5 DEF Chunked, PartAt, r
  <2>2. c \in Tx /\ c.chunk = Append(t.chunk, r)
    BY <1>3, <2>1 DEF Tx
  <2>3. /\ c.open = t.open /\ c.kind = t.kind /\ c.file = t.file /\ c.tables = t.tables
        /\ c.part = t.part /\ c.side = t.side /\ c.rest = t.rest /\ c.row = t.row
        /\ c.total = t.total /\ c.bad = t.bad /\ c.group = t.group /\ c.cards = t.cards
    BY <2>1 DEF Tx
  <2> QED BY <1>1, <1>3, <1>5, <2>2, <2>3 DEF r
<1> QED BY <1>4, <1>5

\* Storing a card adds its lines to the card's.
LEMMA StoreCardFields ==
    ASSUME NEW t \in Tx
    PROVE  LET c == StoreCard(t)
           IN /\ c \in Tx
              /\ c.open = t.open /\ c.kind = t.kind /\ c.file = t.file /\ c.tables = t.tables
              /\ c.part = t.part /\ c.side = t.side /\ c.rest = t.rest /\ c.row = t.row
              /\ c.total = t.total /\ c.bad = t.bad /\ c.group = t.group /\ c.chunk = t.chunk
              /\ \A k \in Key : c.cards[k] = CardLines(t, k)
<1> DEFINE cards == [k \in Key |-> IF k = t.group.key THEN t.cards[k] \cup t.group.lines
                                   ELSE t.cards[k]]
           c == [t EXCEPT !.cards = cards]
<1>1. cards \in [Key -> SUBSET Nat] /\ \A k \in Key : cards[k] = CardLines(t, k)
  BY DEF Tx, CardLines
<1>2. StoreCard(t) = c
  BY DEF StoreCard, Tx
<1> HIDE DEF cards
<1>3. c \in Tx /\ c.cards = cards
  BY <1>1 DEF Tx
<1>4. /\ c.open = t.open /\ c.kind = t.kind /\ c.file = t.file /\ c.tables = t.tables
      /\ c.part = t.part /\ c.side = t.side /\ c.rest = t.rest /\ c.row = t.row
      /\ c.total = t.total /\ c.bad = t.bad /\ c.group = t.group /\ c.chunk = t.chunk
  BY DEF Tx
<1> QED BY <1>1, <1>2, <1>3, <1>4

\* A line is added to its card, wherever the card's other lines stand.
LEMMA GroupedFields ==
    ASSUME NEW t \in Tx, NEW row \in RowType, row.key \in Key
    PROVE  LET c == Grouped(t, row)
           IN /\ c \in Tx
              /\ c.open = t.open /\ c.kind = t.kind /\ c.file = t.file /\ c.tables = t.tables
              /\ c.part = t.part /\ c.side = t.side /\ c.rest = t.rest /\ c.row = t.row
              /\ c.total = t.total /\ c.bad = t.bad /\ c.chunk = t.chunk
              /\ \A k \in Key : CardLines(c, k) = CardLines(t, k)
                                    \cup (IF k = row.key THEN {row.at} ELSE {})
<1>1. row.at \in Nat /\ t.group \in [key: Key \cup {None}, lines: SUBSET Nat]
  BY DEF RowType, Tx
<1>2. CASE row.key = t.group.key
  <2> DEFINE group == [key |-> t.group.key, lines |-> t.group.lines \cup {row.at}]
             c == [t EXCEPT !.group = group]
  <2>1. Grouped(t, row) = c
    <3>1. [t.group EXCEPT !.lines = @ \cup {row.at}] = group
      BY <1>1
    <3>2. [t EXCEPT !.group.lines = @ \cup {row.at}]
            = [t EXCEPT !.group = [t.group EXCEPT !.lines = @ \cup {row.at}]]
      OBVIOUS
    <3> QED BY <1>2, <3>1, <3>2 DEF Grouped
  <2>2. group \in [key: Key \cup {None}, lines: SUBSET Nat]
    BY <1>1
  <2>3. c \in Tx /\ c.group = group
    BY <2>2 DEF Tx
  <2>4. /\ c.open = t.open /\ c.kind = t.kind /\ c.file = t.file /\ c.tables = t.tables
        /\ c.part = t.part /\ c.side = t.side /\ c.rest = t.rest /\ c.row = t.row
        /\ c.total = t.total /\ c.bad = t.bad /\ c.chunk = t.chunk /\ c.cards = t.cards
    BY DEF Tx
  <2>5. \A k \in Key : CardLines(c, k) = CardLines(t, k)
                            \cup (IF k = row.key THEN {row.at} ELSE {})
    BY <1>2, <2>3, <2>4 DEF CardLines
  <2> QED BY <2>1, <2>3, <2>4, <2>5
<1>3. CASE row.key # t.group.key
  <2> DEFINE s == StoreCard(t)
             group == [key |-> row.key, lines |-> {row.at}]
             c == [s EXCEPT !.group = group]
  <2>1. Grouped(t, row) = c
    BY <1>3 DEF Grouped
  <2>2. /\ s \in Tx
        /\ s.open = t.open /\ s.kind = t.kind /\ s.file = t.file /\ s.tables = t.tables
        /\ s.part = t.part /\ s.side = t.side /\ s.rest = t.rest /\ s.row = t.row
        /\ s.total = t.total /\ s.bad = t.bad /\ s.chunk = t.chunk
        /\ \A k \in Key : s.cards[k] = CardLines(t, k)
    BY StoreCardFields
  <2> HIDE DEF s
  <2>3. group \in [key: Key \cup {None}, lines: SUBSET Nat]
    BY <1>1
  <2>4. c \in Tx /\ c.group = group
    BY <2>2, <2>3 DEF Tx
  <2>5. /\ c.open = t.open /\ c.kind = t.kind /\ c.file = t.file /\ c.tables = t.tables
        /\ c.part = t.part /\ c.side = t.side /\ c.rest = t.rest /\ c.row = t.row
        /\ c.total = t.total /\ c.bad = t.bad /\ c.chunk = t.chunk /\ c.cards = s.cards
    BY <2>2 DEF Tx
  <2>6. \A k \in Key : CardLines(c, k) = CardLines(t, k)
                            \cup (IF k = row.key THEN {row.at} ELSE {})
    BY <2>2, <2>4, <2>5 DEF CardLines
  <2> QED BY <2>1, <2>4, <2>5, <2>6
<1> QED BY <1>2, <1>3
\* Completing a row: one more row, one more bad one, line of a card, or row of the chunk.
LEMMA BuildFields ==
    ASSUME NEW t \in Tx
    PROVE  LET u == Build(t)
               r == [key |-> t.row.key, more |-> t.row.more, lines |-> t.cards[t.row.key]]
           IN /\ u \in Tx /\ u.row = None
              /\ u.open = t.open /\ u.kind = t.kind /\ u.file = t.file /\ u.tables = t.tables
              /\ u.part = t.part /\ u.side = t.side /\ u.rest = t.rest
              /\ t.row = None => u = t
              /\ t.row # None =>
                    /\ t.row \in RowType /\ u.total = t.total + 1
                    /\ u.bad = IF t.row.key = Bad THEN t.bad + 1 ELSE t.bad
              /\ t.row # None /\ t.row.key = Bad =>
                    u.group = t.group /\ u.cards = t.cards /\ u.chunk = t.chunk
              /\ t.row # None /\ t.row.key # Bad /\ t.side =>
                    /\ u.chunk = t.chunk
                    /\ \A k \in Key : CardLines(u, k) = CardLines(t, k)
                                          \cup (IF k = t.row.key THEN {t.row.at} ELSE {})
              /\ t.row # None /\ t.row.key # Bad /\ ~t.side =>
                    /\ u.group = t.group /\ u.cards = t.cards /\ r \in TableRow
                    /\ IF PartAt(t) \in Guarded /\ Seen(t, t.row.key) THEN u.chunk = t.chunk
                       ELSE u.chunk = Append(t.chunk, r)
                            /\ Range(u.chunk) = Range(t.chunk) \cup {r}
<1>1. CASE t.row = None
  BY <1>1 DEF Build
<1>2. CASE t.row # None
  <2> DEFINE b == [t EXCEPT !.row = None, !.total = @ + 1]
             row == t.row
  <2>1. row \in RowType /\ (row.key # Bad => row.key \in Key)
    BY <1>2 DEF Tx, RowType
  <2>2. /\ b \in Tx /\ b.row = None /\ b.total = t.total + 1 /\ b.bad = t.bad
        /\ b.open = t.open /\ b.kind = t.kind /\ b.file = t.file /\ b.tables = t.tables
        /\ b.part = t.part /\ b.side = t.side /\ b.rest = t.rest
        /\ b.group = t.group /\ b.cards = t.cards /\ b.chunk = t.chunk
    <3> DEFINE more == t.total + 1
    <3>1. more \in Nat
      BY DEF Tx
    <3>2. b = [t EXCEPT !.row = None, !.total = more]
      BY DEF Tx
    <3> HIDE DEF more, b
    <3>3. b \in Tx
      BY <3>1, <3>2 DEF Tx
    <3>4. /\ b.row = None /\ b.total = more /\ b.bad = t.bad
          /\ b.open = t.open /\ b.kind = t.kind /\ b.file = t.file /\ b.tables = t.tables
          /\ b.part = t.part /\ b.side = t.side /\ b.rest = t.rest
          /\ b.group = t.group /\ b.cards = t.cards /\ b.chunk = t.chunk
      BY <3>2 DEF Tx
    <3> QED BY <3>3, <3>4 DEF more
  <2>3. Build(t) = IF row.key = Bad THEN [b EXCEPT !.bad = @ + 1]
                   ELSE IF b.side THEN Grouped(b, row) ELSE Chunked(b, row)
    BY <1>2, <2>2 DEF Build
  <2> HIDE DEF b
  <2>4. CASE row.key = Bad
    <3> DEFINE u == [b EXCEPT !.bad = @ + 1]
    <3>1. /\ u \in Tx /\ u.row = None /\ u.total = b.total /\ u.bad = b.bad + 1
          /\ u.open = b.open /\ u.kind = b.kind /\ u.file = b.file /\ u.tables = b.tables
          /\ u.part = b.part /\ u.side = b.side /\ u.rest = b.rest
          /\ u.group = b.group /\ u.cards = b.cards /\ u.chunk = b.chunk
      <4> DEFINE more == b.bad + 1
      <4>1. more \in Nat
        BY <2>2 DEF Tx
      <4>2. u = [b EXCEPT !.bad = more]
        BY <2>2 DEF Tx
      <4> HIDE DEF more, u
      <4>3. u \in Tx
        BY <2>2, <4>1, <4>2 DEF Tx
      <4>4. /\ u.row = None /\ u.total = b.total /\ u.bad = more
            /\ u.open = b.open /\ u.kind = b.kind /\ u.file = b.file /\ u.tables = b.tables
            /\ u.part = b.part /\ u.side = b.side /\ u.rest = b.rest
            /\ u.group = b.group /\ u.cards = b.cards /\ u.chunk = b.chunk
        BY <2>2, <4>2 DEF Tx
      <4> QED BY <4>3, <4>4 DEF more
    <3>2. Build(t) = u
      BY <2>3, <2>4
    <3> HIDE DEF u
    <3> QED BY <1>2, <2>1, <2>2, <2>4, <3>1, <3>2
  <2>5. CASE row.key # Bad /\ t.side
    <3> DEFINE u == Grouped(b, row)
    <3>1. Build(t) = u
      BY <2>2, <2>3, <2>5
    <3>2. /\ u \in Tx /\ u.row = b.row /\ u.total = b.total /\ u.bad = b.bad
          /\ u.open = b.open /\ u.kind = b.kind /\ u.file = b.file /\ u.tables = b.tables
          /\ u.part = b.part /\ u.side = b.side /\ u.rest = b.rest /\ u.chunk = b.chunk
          /\ \A k \in Key : CardLines(u, k) = CardLines(b, k)
                                \cup (IF k = row.key THEN {row.at} ELSE {})
      BY <2>1, <2>2, <2>5, GroupedFields
    <3>3. \A k \in Key : CardLines(b, k) = CardLines(t, k)
      BY <2>2 DEF CardLines
    <3> HIDE DEF u
    <3> QED BY <1>2, <2>1, <2>2, <2>5, <3>1, <3>2, <3>3
  <2>6. CASE row.key # Bad /\ ~t.side
    <3> DEFINE u == Chunked(b, row)
               q == [key |-> row.key, more |-> row.more, lines |-> b.cards[row.key]]
    <3>1. Build(t) = u
      BY <2>2, <2>3, <2>6
    <3>2. /\ u \in Tx /\ q \in TableRow /\ u.row = b.row /\ u.total = b.total /\ u.bad = b.bad
          /\ u.open = b.open /\ u.kind = b.kind /\ u.file = b.file /\ u.tables = b.tables
          /\ u.part = b.part /\ u.side = b.side /\ u.rest = b.rest
          /\ u.group = b.group /\ u.cards = b.cards
          /\ IF PartAt(b) \in Guarded /\ Seen(b, row.key) THEN u = b
             ELSE u.chunk = Append(b.chunk, q) /\ Range(u.chunk) = Range(b.chunk) \cup {q}
      BY <2>1, <2>2, <2>6, ChunkedFields
    <3>3. /\ PartAt(b) = PartAt(t) /\ Seen(b, row.key) = Seen(t, row.key)
          /\ q = [key |-> row.key, more |-> row.more, lines |-> t.cards[row.key]]
      BY <2>2 DEF PartAt, Seen
    <3> HIDE DEF u, q
    <3> QED BY <1>2, <2>1, <2>2, <2>6, <3>1, <3>2, <3>3
  <2> QED BY <2>4, <2>5, <2>6
<1> QED BY <1>1, <1>2

-----------------------------------------------------------------------------
(* What has been built when a row is complete.                              *)

\* The first b lines and one more.
LEMMA OneMore ==
    ASSUME NEW lines \in Seq(Line), NEW a \in 1 .. Len(lines), NEW n \in a .. Len(lines),
           \A m \in a + 1 .. n : lines[m] = More, lines[a] # More
    PROVE  /\ Cardinality(Begins(lines, n)) = Cardinality(Begins(lines, a - 1)) + 1
           /\ Cardinality(BadTo(lines, n)) =
                 IF lines[a] = Bad THEN Cardinality(BadTo(lines, a - 1)) + 1
                 ELSE Cardinality(BadTo(lines, a - 1))
<1>1. Len(lines) \in Nat /\ a \in Nat /\ n \in Nat /\ a - 1 \in Nat
  BY LenProperties
<1>2. Begins(lines, n) = Begins(lines, a - 1) \cup {a} /\ a \notin Begins(lines, a - 1)
  BY <1>1 DEF Begins
<1>3. BadTo(lines, n) = IF lines[a] = Bad THEN BadTo(lines, a - 1) \cup {a}
                        ELSE BadTo(lines, a - 1)
  BY <1>1, LoadAssumption DEF BadTo
<1>4. a \notin BadTo(lines, a - 1)
  BY <1>1 DEF BadTo
<1>5. IsFiniteSet(Begins(lines, a - 1)) /\ IsFiniteSet(BadTo(lines, a - 1))
  <2>1. IsFiniteSet(1 .. a - 1)
    BY <1>1, FS_Interval
  <2>2. Begins(lines, a - 1) \in SUBSET (1 .. a - 1) /\ BadTo(lines, a - 1) \in SUBSET (1 .. a - 1)
    BY DEF Begins, BadTo
  <2> QED BY <2>1, <2>2, FS_Subset
<1> QED BY <1>2, <1>3, <1>4, <1>5, FS_AddElement

\* The counters count every row that begins before the next line.
LEMMA BuildCounts ==
    ASSUME NEW t \in Tx, NEW lines \in Seq(Line), NEW n, RowAt(t, lines, n)
    PROVE  /\ Build(t).total = Cardinality(Begins(lines, n))
           /\ Build(t).bad = Cardinality(BadTo(lines, n))
<1>1. CASE t.row = None
  BY <1>1, BuildFields DEF RowAt, BuiltTo
<1>2. CASE t.row # None
  <2> DEFINE a == t.row.at
  <2>1. Len(lines) \in Nat /\ n \in 0 .. Len(lines) /\ a \in 1 .. n
    BY <1>2, LenProperties DEF RowAt
  <2>2. /\ \A m \in a + 1 .. n : lines[m] = More /\ lines[a] = t.row.key
        /\ t.total = Cardinality(Begins(lines, a - 1))
        /\ t.bad = Cardinality(BadTo(lines, a - 1))
    BY <1>2 DEF RowAt, BuiltTo
  <2>3. lines[a] = t.row.key /\ lines[a] # More
    <3>1. t.row \in RowType
      BY <1>2, BuildFields
    <3> QED BY <1>2, <3>1, LoadAssumption DEF RowType, RowAt
  <2>4. /\ Build(t).total = t.total + 1
        /\ Build(t).bad = IF t.row.key = Bad THEN t.bad + 1 ELSE t.bad
    BY <1>2, BuildFields
  <2>5. a \in 1 .. Len(lines) /\ n \in a .. Len(lines)
    BY <2>1
  <2> HIDE DEF a
  <2>6. /\ Cardinality(Begins(lines, n)) = Cardinality(Begins(lines, a - 1)) + 1
        /\ Cardinality(BadTo(lines, n)) =
                 IF lines[a] = Bad THEN Cardinality(BadTo(lines, a - 1)) + 1
                 ELSE Cardinality(BadTo(lines, a - 1))
    BY <2>2, <2>3, <2>5, OneMore
  <2> QED BY <2>2, <2>3, <2>4, <2>6
<1> QED BY <1>1, <1>2

\* A line of a sketch is with its card when the next begins.
LEMMA BuildSide ==
    ASSUME NEW t \in Tx, NEW lines \in Seq(Line), NEW n, RowAt(t, lines, n), t.side,
           \A k \in Key : CardLines(t, k) = {i \in 1 .. BuiltTo(t, n) : lines[i] = k}
    PROVE  \A k \in Key : CardLines(Build(t), k) = {i \in 1 .. n : lines[i] = k}
<1>1. CASE t.row = None
  <2>1. Build(t) = t
    BY <1>1 DEF Build
  <2>2. BuiltTo(t, n) = n
    BY <1>1 DEF BuiltTo
  <2> QED BY <2>1, <2>2
<1>2. CASE t.row # None
  <2> DEFINE a == t.row.at
  <2>1. /\ Len(lines) \in Nat /\ n \in 0 .. Len(lines) /\ a \in 1 .. n
        /\ \A m \in a + 1 .. n : lines[m] = More
        /\ lines[a] = t.row.key
        /\ \A k \in Key : CardLines(t, k) = {i \in 1 .. a - 1 : lines[i] = k}
    BY <1>2, LenProperties DEF RowAt, BuiltTo
  <2>2. \A k \in Key : k # More /\ k # Bad
    BY LoadAssumption
  <2>3. \A k \in Key : {i \in 1 .. n : lines[i] = k}
                          = {i \in 1 .. a - 1 : lines[i] = k}
                            \cup (IF k = t.row.key THEN {a} ELSE {})
    BY <2>1, <2>2
  <2>4. CASE t.row.key = Bad
    <3>1. Build(t).group = t.group /\ Build(t).cards = t.cards
      BY <1>2, <2>4, BuildFields
    <3>2. \A k \in Key : CardLines(Build(t), k) = CardLines(t, k)
      BY <3>1 DEF CardLines
    <3> QED BY <2>1, <2>2, <2>3, <2>4, <3>2
  <2>5. CASE t.row.key # Bad
    <3>1. \A k \in Key : CardLines(Build(t), k) = CardLines(t, k)
                            \cup (IF k = t.row.key THEN {a} ELSE {})
      BY <1>2, <2>5, BuildFields
    <3> QED BY <2>1, <2>3, <3>1
  <2> QED BY <2>4, <2>5
<1> QED BY <1>1, <1>2

\* The row that begins at a, up to its last line of overflow text.
LEMMA RowComplete ==
    ASSUME NEW lines \in Seq(Line), NEW a \in Nat, NEW n \in Nat, 1 <= a, a <= n,
           n <= Len(lines), \A m \in a + 1 .. n : lines[m] = More,
           n = Len(lines) \/ lines[n + 1] # More
    PROVE  Cardinality(Overflow(lines, a)) = n - a
<1>1. a \in Int /\ n \in Int /\ Len(lines) \in Int
  BY LenProperties
<1>0. \A i : i \in DOMAIN lines <=> i \in Int /\ 1 <= i /\ i <= Len(lines)
  <2>1. DOMAIN lines = 1 .. Len(lines)
    BY LenProperties
  <2>2. \A i : i \in 1 .. Len(lines) <=> i \in Int /\ 1 <= i /\ i <= Len(lines)
    BY <1>1
  <2> QED BY <2>1, <2>2
<1>2. Overflow(lines, a) = a + 1 .. n
  <2>1. ASSUME NEW j \in Overflow(lines, a) PROVE j \in a + 1 .. n
    <3>1. j \in Int /\ j <= Len(lines) /\ j > a /\ \A m \in a + 1 .. j : lines[m] = More
      BY <1>0, <1>1, <2>1 DEF Overflow
    <3>2. CASE j > n
      <4>1. n + 1 \in a + 1 .. j /\ n # Len(lines)
        BY <1>1, <3>1, <3>2
      <4> QED BY <3>1, <4>1
    <3> QED BY <1>1, <3>1, <3>2
  <2>2. ASSUME NEW j \in a + 1 .. n PROVE j \in Overflow(lines, a)
    <3>1. j \in DOMAIN lines /\ j > a
      BY <1>0, <1>1, <2>2
    <3>2. \A m \in a + 1 .. j : m \in a + 1 .. n
      BY <1>1, <2>2
    <3> QED BY <3>1, <3>2 DEF Overflow
  <2> QED BY <2>1, <2>2
<1>3. Cardinality(a + 1 .. n) = IF a + 1 > n THEN 0 ELSE n - (a + 1) + 1
  BY <1>1, FS_Interval
<1> QED BY <1>1, <1>2, <1>3

\* Lines of overflow text begin no row of the table.
LEMMA LoadedMore ==
    ASSUME NEW f, NEW p, NEW a \in Nat, NEW n \in Nat, 1 <= a, a <= n,
           \A m \in a + 1 .. n : f[p][m] = More
    PROVE  Loaded(f, p, n) = Loaded(f, p, a - 1) \cup (IF Starts(f, p, a) THEN {a} ELSE {})
<1>1. \A m \in a + 1 .. n : ~Starts(f, p, m)
  BY LoadAssumption DEF Starts
<1>2. \A i : i \in 1 .. n <=> i \in 1 .. a - 1 \/ i = a \/ i \in a + 1 .. n
  OBVIOUS
<1> QED BY <1>1, <1>2 DEF Loaded

\* Of the rows with one key the first is the one that a guarded load takes.
LEMMA SeenBefore ==
    ASSUME NEW f, NEW p \in Guarded, f[p] \in Seq(Line), NEW a \in Nat, 1 <= a,
           a <= Len(f[p]), f[p][a] \in Key
    PROVE  f[p][a] \in {f[p][i] : i \in Loaded(f, p, a - 1)} <=> ~Starts(f, p, a)
<1> DEFINE lines == f[p]
           T == At(lines, lines[a])
           m == Min(T)
<1>1. lines \in Seq(Line) /\ Len(lines) \in Nat /\ DOMAIN lines = 1 .. Len(lines)
  BY LenProperties
<1>2. T \subseteq 1 .. Len(lines) /\ a \in T /\ \A i \in T : lines[i] = lines[a]
  BY <1>1 DEF At
<1>3. m \in T /\ \A i \in T : m <= i
  <2> HIDE DEF T, lines
  <2> QED BY <1>1, <1>2, FirstPosition
<1>4. m \in Nat /\ 1 <= m /\ m <= a /\ lines[m] = lines[a]
  <2>1. m \in 1 .. Len(lines) /\ m <= a /\ lines[m] = lines[a]
    BY <1>2, <1>3
  <2> HIDE DEF m, lines, T
  <2> QED BY <1>1, <2>1
<1>5. Starts(f, p, a) <=> a = m
  BY DEF Starts
<1>6. Starts(f, p, m)
  <2>1. At(lines, lines[m]) = T
    BY <1>4
  <2> QED BY <1>4, <2>1 DEF Starts
<1>7. ASSUME a # m PROVE f[p][a] \in {f[p][i] : i \in Loaded(f, p, a - 1)}
  <2>1. m \in 1 .. a - 1
    <3> HIDE DEF m, lines, T
    <3> QED BY <1>4, <1>7
  <2>2. m \in Loaded(f, p, a - 1)
    BY <1>6, <2>1 DEF Loaded
  <2> QED BY <1>4, <2>2
<1>8. ASSUME a = m, NEW i \in Loaded(f, p, a - 1), f[p][i] = f[p][a] PROVE FALSE
  <2>1. i \in 1 .. a - 1
    BY <1>8 DEF Loaded
  <2>2. i \in DOMAIN lines
    <3> HIDE DEF m, lines, T
    <3>1. a <= Len(lines)
      BY DEF lines
    <3> QED BY <1>1, <2>1, <3>1
  <2>3. i \in T
    BY <1>8, <2>2 DEF At
  <2>4. a <= i
    BY <1>3, <1>8, <2>3
  <2> QED BY <2>1, <2>4
<1> QED BY <1>5, <1>7, <1>8

\* A row is in the table when the next begins.
LEMMA BuildMain ==
    ASSUME NEW t \in Tx, NEW n, NEW f, NEW p, f = t.file, p = PartAt(t), f[p] \in Seq(Line),
           RowAt(t, f[p], n), ~t.side, CardsRight(t, f, p),
           n = Len(f[p]) \/ f[p][n + 1] # More,
           t.tables[p] \cup Range(t.chunk) = Rows(f, p, BuiltTo(t, n))
    PROVE  t.tables[p] \cup Range(Build(t).chunk) = Rows(f, p, n)
<1>1. CASE t.row = None
  <2>1. Build(t) = t /\ BuiltTo(t, n) = n
    BY <1>1 DEF Build, BuiltTo
  <2> QED BY <2>1
<1>2. CASE t.row # None
  <2> DEFINE a == t.row.at
             k == t.row.key
             old == t.tables[p] \cup Range(t.chunk)
             r == [key |-> t.row.key, more |-> t.row.more, lines |-> t.cards[t.row.key]]
  <2>1. /\ \A m \in a + 1 .. n : f[p][m] = More
        /\ f[p][a] = k /\ t.row.more = n - a
        /\ old = Rows(f, p, a - 1)
    BY <1>2 DEF RowAt, BuiltTo
  <2>2. a \in Nat /\ n \in Nat /\ 1 <= a /\ a <= n /\ n <= Len(f[p])
    <3>1. n \in 0 .. Len(f[p]) /\ a \in 1 .. n /\ Len(f[p]) \in Nat
      BY <1>2, LenProperties DEF RowAt
    <3> HIDE DEF a
    <3> QED BY <3>1
  <2>3. k \in Key \cup {Bad}
    <3>1. t.row \in RowType
      BY <1>2, BuildFields
    <3> QED BY <3>1 DEF RowType
  <2> HIDE DEF a, k, old
  <2>4. Rows(f, p, n) = old \cup (IF Starts(f, p, a) THEN {RowOf(f, p, a)} ELSE {})
    <3>0. \A m \in a + 1 .. n : f[p][m] = More
      BY <2>1
    <3>1. Loaded(f, p, n) = Loaded(f, p, a - 1) \cup (IF Starts(f, p, a) THEN {a} ELSE {})
      BY ONLY <2>2, <3>0, LoadedMore
    <3> QED BY <2>1, <3>1 DEF Rows
  <2>5. CASE k = Bad
    <3>1. Build(t).chunk = t.chunk
      BY <1>2, <2>5, BuildFields DEF k
    <3>2. ~Starts(f, p, a)
      BY <2>1, <2>5, LoadAssumption DEF Starts
    <3> QED BY <2>4, <3>1, <3>2 DEF old
  <2>6. CASE k # Bad
    <3>1. IF p \in Guarded /\ Seen(t, k) THEN Build(t).chunk = t.chunk
          ELSE Range(Build(t).chunk) = Range(t.chunk) \cup {r}
      BY <1>2, <2>6, BuildFields DEF k
    <3>2. r = RowOf(f, p, a)
      <4>1. Cardinality(Overflow(f[p], a)) = n - a
        BY <2>1, <2>2, RowComplete
      <4>2. t.cards[k] = IF Side[p] = None THEN {} ELSE At(f[Side[p]], k)
        BY <2>3, <2>6 DEF CardsRight
      <4> QED BY <2>1, <4>1, <4>2 DEF RowOf, k
    <3>3. p \in Guarded => (Seen(t, k) <=> ~Starts(f, p, a))
      <4>1. Seen(t, k) <=> k \in Keys(old)
        BY DEF Seen, PartAt, old
      <4>2. Keys(old) = {f[p][i] : i \in Loaded(f, p, a - 1)}
        <5>1. \A i : RowOf(f, p, i).key = f[p][i]
          BY DEF RowOf
        <5>2. old = {RowOf(f, p, i) : i \in Loaded(f, p, a - 1)}
          BY <2>1 DEF Rows
        <5>3. Keys(old) = {RowOf(f, p, i).key : i \in Loaded(f, p, a - 1)}
          BY <5>2 DEF Keys
        <5> QED BY <5>1, <5>3
      <4>3. p \in Guarded => (f[p][a] \in {f[p][i] : i \in Loaded(f, p, a - 1)}
                                  <=> ~Starts(f, p, a))
        <5>1. f[p][a] \in Key
          BY <2>1, <2>3, <2>6
        <5> QED BY <2>2, <5>1, SeenBefore
      <4> QED BY <2>1, <4>1, <4>2, <4>3
    <3>4. p \notin Guarded => Starts(f, p, a)
      BY <2>1, <2>3, <2>6 DEF Starts
    <3> HIDE DEF r
    <3> QED BY <2>4, <3>1, <3>2, <3>3, <3>4 DEF old
  <2> QED BY <2>5, <2>6
<1> QED BY <1>1, <1>2

\* A guarded part takes no key that its chunk or its table has.
LEMMA BuildInsertable ==
    ASSUME NEW t \in Tx, ~t.side, PartAt(t) \in Guarded, Insertable(t)
    PROVE  Insertable(Build(t))
<1> DEFINE u == Build(t)
           p == PartAt(t)
           r == [key |-> t.row.key, more |-> t.row.more, lines |-> t.cards[t.row.key]]
<1>1. PartAt(u) = p /\ u.tables = t.tables
  BY BuildFields DEF PartAt
<1>2. CASE u.chunk = t.chunk
  BY <1>1, <1>2 DEF Insertable, PartAt
<1>3. CASE u.chunk # t.chunk
  <2>1. t.row # None /\ t.row.key # Bad /\ ~Seen(t, t.row.key) /\ r \in TableRow
        /\ u.chunk = Append(t.chunk, r) /\ Range(u.chunk) = Range(t.chunk) \cup {r}
    BY <1>3, BuildFields
  <2>2. r.key = t.row.key
    OBVIOUS
  <2> HIDE DEF r, u, p
  <2>3. r.key \notin Keys(Range(t.chunk)) /\ r.key \notin Keys(t.tables[p])
    BY <2>1, <2>2 DEF Seen, Keys, PartAt, p
  <2>4. t.chunk \in Seq(TableRow)
    BY DEF Tx
  <2>5. /\ DOMAIN t.chunk = 1 .. Len(t.chunk) /\ Len(t.chunk) \in Nat
        /\ DOMAIN u.chunk = 1 .. Len(t.chunk) + 1
        /\ \A i \in 1 .. Len(t.chunk) : u.chunk[i] = t.chunk[i]
        /\ u.chunk[Len(t.chunk) + 1] = r
    BY <2>1, <2>4, LenProperties, AppendProperties
  <2>6. \A i \in DOMAIN t.chunk : t.chunk[i].key # r.key
    BY <2>3 DEF Keys, Range
  <2>7. \A i, j \in DOMAIN u.chunk : u.chunk[i].key = u.chunk[j].key => i = j
    <3>1. \A i, j \in DOMAIN t.chunk : t.chunk[i].key = t.chunk[j].key => i = j
      BY DEF Insertable
    <3>2. \A i \in DOMAIN u.chunk : i \in DOMAIN t.chunk \/ i = Len(t.chunk) + 1
      BY <2>5
    <3>3. \A i \in DOMAIN t.chunk : u.chunk[i] = t.chunk[i]
      BY <2>5
    <3> QED BY <2>5, <2>6, <3>1, <3>2, <3>3
  <2>8. Keys(Range(u.chunk)) \cap Keys(u.tables[p]) = {}
    <3>1. Keys(Range(t.chunk)) \cap Keys(t.tables[p]) = {}
      BY DEF Insertable, PartAt, p
    <3>2. Keys(Range(u.chunk)) = Keys(Range(t.chunk)) \cup {r.key}
      BY <2>1 DEF Keys
    <3> QED BY <1>1, <2>3, <3>1, <3>2
  <2> QED BY <1>1, <2>7, <2>8 DEF Insertable, PartAt, u
<1> QED BY <1>2, <1>3

-----------------------------------------------------------------------------
(* The steps of a load.                                                     *)

\* A reader at the first line of a part.
LEMMA ReadingFields ==
    ASSUME NEW t \in Tx, NEW p, t.file[p] \in Seq(Line), NEW side \in BOOLEAN
    PROVE  LET u == Reading(t, p, side)
           IN /\ u \in Tx
              /\ u.open = t.open /\ u.kind = t.kind /\ u.file = t.file /\ u.tables = t.tables
              /\ u.part = t.part /\ u.side = side /\ u.rest = t.file[p] /\ u.row = None
              /\ u.total = 0 /\ u.bad = 0 /\ u.group = t.group /\ u.cards = t.cards
              /\ u.chunk = <<>>
<1> DEFINE lines == t.file[p]
           u == [t EXCEPT !.side = side, !.rest = lines, !.row = None, !.total = 0, !.bad = 0,
                          !.chunk = <<>>]
<1>1. Reading(t, p, side) = u
  BY DEF Reading
<1>2. <<>> \in Seq(TableRow)
  BY EmptySeq
<1> HIDE DEF lines
<1>3. u \in Tx
  BY <1>2 DEF Tx, lines
<1>4. /\ u.open = t.open /\ u.kind = t.kind /\ u.file = t.file /\ u.tables = t.tables
      /\ u.part = t.part /\ u.side = side /\ u.rest = lines /\ u.row = None
      /\ u.total = 0 /\ u.bad = 0 /\ u.group = t.group /\ u.cards = t.cards
      /\ u.chunk = <<>>
  BY DEF Tx
<1> QED BY <1>1, <1>3, <1>4 DEF lines

\* Nothing has been counted of a part at its first line.
LEMMA FirstLine ==
    ASSUME NEW t \in Tx, NEW lines \in Seq(Line), t.rest = lines, t.row = None,
           t.total = 0, t.bad = 0
    PROVE  RowAt(t, lines, 0) /\ RestAt(t, lines, 0) /\ BuiltTo(t, 0) = 0
<1>1. Len(lines) \in Nat
  BY LenProperties
<1>2. Begins(lines, 0) = {} /\ BadTo(lines, 0) = {}
  BY DEF Begins, BadTo
<1>3. Cardinality({}) = 0
  BY FS_EmptySet
<1>4. BuiltTo(t, 0) = 0
  BY DEF BuiltTo
<1>5. 0 \in 0 .. Len(lines) /\ \A m \in 1 .. 0 : lines[m] = More
  BY <1>1
<1>6. RowAt(t, lines, 0)
  BY <1>2, <1>3, <1>4, <1>5 DEF RowAt
<1>7. Len(lines) = Len(lines) - 0 /\ \A i \in 1 .. Len(lines) : lines[i] = lines[0 + i]
  BY <1>1
<1> QED BY <1>4, <1>6, <1>7 DEF RestAt

\* What every step within the parts of a file leaves as it was.
SameLoad(u, t) == u.open = t.open /\ u.kind = t.kind /\ u.file = t.file /\ u.part = t.part

\* The tables other than that of the part at hand.
SameTables(u, t) == \A q \in Part \ {PartAt(t)} : u.tables[q] = t.tables[q]

LEMMA ClearedRight ==
    ASSUME NEW t \in Tx, InPart(t), PlaceOk(t), CardsRight(t, t.file, PartAt(t)),
           Side[PartAt(t)] # None => Accepted(t.file[Side[PartAt(t)]])
    PROVE  LET u == Cleared(t)
           IN /\ u \in Tx /\ SameLoad(u, t) /\ SameTables(u, t) /\ u.chunk = <<>>
              /\ PartOk(u)
<1> DEFINE p == PartAt(t)
           r == Reading(t, p, FALSE)
           u == Cleared(t)
           tables == [r.tables EXCEPT ![p] = {}]
<1>1. p \in Part /\ t.file[p] \in Seq(Line)
  BY PartsType, FileLines DEF PlaceOk, InPart, PartAt
<1>2. /\ r \in Tx
      /\ r.open = t.open /\ r.kind = t.kind /\ r.file = t.file /\ r.tables = t.tables
      /\ r.part = t.part /\ r.side = FALSE /\ r.rest = t.file[p] /\ r.row = None
      /\ r.total = 0 /\ r.bad = 0 /\ r.group = t.group /\ r.cards = t.cards
      /\ r.chunk = <<>>
  BY <1>1, ReadingFields
<1>3. u = [r EXCEPT !.tables[p] = {}]
  BY DEF Cleared, PartAt
<1> HIDE DEF r
<1>4. /\ tables \in [Part -> SUBSET TableRow] /\ tables[p] = {}
      /\ \A q \in Part \ {p} : tables[q] = t.tables[q]
  BY <1>1, <1>2 DEF Tx
<1>5. u = [r EXCEPT !.tables = tables]
  BY <1>2, <1>3
<1> HIDE DEF tables, u
<1>6. u \in Tx
  BY <1>2, <1>4, <1>5 DEF Tx
<1>7. /\ u.open = t.open /\ u.kind = t.kind /\ u.file = t.file /\ u.tables = tables
      /\ u.part = t.part /\ u.side = FALSE /\ u.rest = t.file[p] /\ u.row = None
      /\ u.total = 0 /\ u.bad = 0 /\ u.cards = t.cards /\ u.chunk = <<>>
  BY <1>2, <1>5 DEF Tx
<1>8. PartAt(u) = p /\ LinesAt(u) = t.file[p]
  BY <1>7 DEF PartAt, LinesAt
<1>9. RowAt(u, t.file[p], 0) /\ RestAt(u, t.file[p], 0) /\ BuiltTo(u, 0) = 0
  BY <1>1, <1>6, <1>7, FirstLine
<1>10. MainBuilt(u, 0)
  <2>1. Range(<<>>) = {}
    BY DEF Range
  <2>2. Rows(t.file, p, 0) = {}
    BY DEF Rows, Loaded
  <2>3. CardsRight(u, t.file, p)
    BY <1>7 DEF CardsRight
  <2> QED BY <1>4, <1>7, <1>8, <1>9, <2>1, <2>2, <2>3 DEF MainBuilt
<1>11. PartOk(u)
  <2>1. 0 \in 0 .. Len(t.file[p])
    <3>1. Len(t.file[p]) \in Nat
      BY <1>1, LenProperties
    <3> HIDE DEF p
    <3> QED BY <3>1
  <2>2. ReaderAt(u, 0)
    BY <1>7, <1>8, <1>9, <1>10 DEF ReaderAt, Built
  <2> QED BY <1>8, <2>1, <2>2 DEF PartOk
<1> QED BY <1>4, <1>6, <1>7, <1>11 DEF SameLoad, SameTables, u

\* A part begins with the lines of the part joined to it, or with its own.
LEMMA StartedRight ==
    ASSUME NEW t \in Tx, t.open, t.kind \in Kind, t.file \in File[t.kind],
           NEW i \in 1 .. Len(Parts[t.kind]) + 1
    PROVE  LET u == Started(t, i)
           IN /\ u \in Tx /\ u.open /\ u.kind = t.kind /\ u.file = t.file /\ u.part = i
              /\ \A q \in Part : (i \in DOMAIN Parts[t.kind] /\ q = Parts[t.kind][i])
                                    \/ u.tables[q] = t.tables[q]
              /\ u.chunk = <<>>
              /\ PartOk(u)
<1> DEFINE s == [t EXCEPT !.part = i, !.chunk = <<>>, !.group = NoGroup, !.cards = NoCards]
           u == Started(t, i)
           p == Parts[t.kind][i]
<1>1. Len(Parts[t.kind]) \in Nat /\ DOMAIN Parts[t.kind] = 1 .. Len(Parts[t.kind])
  BY PartsType
<1>2. i \in Nat
  BY <1>1
<1>3. NoGroup \in [key: Key \cup {None}, lines: SUBSET Nat] /\ NoCards \in [Key -> SUBSET Nat]
      /\ <<>> \in Seq(TableRow)
  BY EmptySeq DEF NoGroup, NoCards
<1>4. s \in Tx
  BY <1>2, <1>3 DEF Tx
<1>5. /\ s.open = t.open /\ s.kind = t.kind /\ s.file = t.file /\ s.tables = t.tables
      /\ s.part = i /\ s.group = NoGroup /\ s.cards = NoCards /\ s.chunk = <<>>
  BY DEF Tx
<1>6. u = IF i \notin DOMAIN Parts[s.kind] THEN s
          ELSE IF Side[p] = None THEN Cleared(s) ELSE Reading(s, Side[p], TRUE)
  BY <1>5 DEF Started
<1> HIDE DEF s
<1>7. CASE i \notin DOMAIN Parts[t.kind]
  <2>1. u = s
    BY <1>5, <1>6, <1>7
  <2>2. PartOk(s)
    BY <1>5, <1>7 DEF PartOk, InPart
  <2> HIDE DEF u
  <2> QED BY <1>4, <1>5, <2>1, <2>2 DEF u
<1>8. CASE i \in DOMAIN Parts[t.kind] /\ Side[p] = None
  <2>1. u = Cleared(s)
    BY <1>5, <1>6, <1>8
  <2>2. InPart(s) /\ PlaceOk(s) /\ PartAt(s) = p
    BY <1>5, <1>8 DEF InPart, PlaceOk, PartAt
  <2>3. CardsRight(s, s.file, p)
    BY <1>5, <1>8 DEF CardsRight, NoCards
  <2>4. /\ Cleared(s) \in Tx /\ SameLoad(Cleared(s), s) /\ SameTables(Cleared(s), s)
        /\ Cleared(s).chunk = <<>> /\ PartOk(Cleared(s))
    BY <1>4, <1>8, <2>2, <2>3, ClearedRight
  <2> HIDE DEF u, p
  <2>5. /\ u.open /\ u.kind = t.kind /\ u.file = t.file /\ u.part = i
        /\ \A q \in Part : q = p \/ u.tables[q] = t.tables[q]
    BY <1>5, <2>1, <2>2, <2>4 DEF SameLoad, SameTables
  <2> QED BY <1>8, <2>1, <2>4, <2>5 DEF u, p
<1>9. CASE i \in DOMAIN Parts[t.kind] /\ Side[p] # None
  <2> DEFINE lines == t.file[Side[p]]
  <2>1. u = Reading(s, Side[p], TRUE)
    BY <1>5, <1>6, <1>9
  <2>2. lines \in Seq(Line)
    <3>1. p \in PartsOf(t.kind)
      BY <1>9, PartsType
    <3> QED BY <1>9, <3>1, FileLines
  <2>3. /\ u \in Tx
        /\ u.open = s.open /\ u.kind = s.kind /\ u.file = s.file /\ u.tables = s.tables
        /\ u.part = s.part /\ u.side = TRUE /\ u.rest = lines /\ u.row = None
        /\ u.total = 0 /\ u.bad = 0 /\ u.group = s.group /\ u.cards = s.cards
        /\ u.chunk = <<>>
    <3> DEFINE q == Side[p]
    <3> HIDE DEF p, q, u, lines
    <3>1. s.file[q] \in Seq(Line) /\ u = Reading(s, q, TRUE) /\ s.file[q] = lines
      BY <1>5, <2>1, <2>2 DEF q, lines
    <3> DEFINE w == Reading(s, q, TRUE)
    <3>2. /\ w \in Tx
          /\ w.open = s.open /\ w.kind = s.kind /\ w.file = s.file /\ w.tables = s.tables
          /\ w.part = s.part /\ w.side = TRUE /\ w.rest = s.file[q] /\ w.row = None
          /\ w.total = 0 /\ w.bad = 0 /\ w.group = s.group /\ w.cards = s.cards
          /\ w.chunk = <<>>
      BY <1>4, <3>1, ReadingFields
    <3> HIDE DEF w
    <3> QED BY <3>1, <3>2 DEF w
  <2> HIDE DEF u
  <2>4. PartAt(u) = p /\ LinesAt(u) = lines
    BY <1>5, <2>3 DEF PartAt, LinesAt
  <2> HIDE DEF lines
  <2>5. RowAt(u, lines, 0) /\ RestAt(u, lines, 0) /\ BuiltTo(u, 0) = 0
    BY <2>2, <2>3, FirstLine
  <2>6. SideBuilt(u, 0)
    <3>1. \A k \in Key : CardLines(u, k) = {}
      BY <1>5, <2>3, LoadAssumption DEF CardLines, NoCards, NoGroup
    <3>2. \A k \in Key : {j \in 1 .. 0 : lines[j] = k} = {}
      OBVIOUS
    <3> QED BY <1>9, <2>3, <2>4, <2>5, <3>1, <3>2 DEF SideBuilt
  <2>7. PartOk(u)
    <3>1. 0 \in 0 .. Len(lines)
      <4>1. Len(lines) \in Nat
        BY <2>2, LenProperties
      <4> QED BY <4>1
    <3>2. ReaderAt(u, 0)
      BY <2>3, <2>4, <2>5, <2>6 DEF ReaderAt, Built
    <3> QED BY <2>4, <3>1, <3>2 DEF PartOk
  <2> QED BY <1>5, <2>3, <2>7 DEF u
<1> QED BY <1>7, <1>8, <1>9

\* A load in place reads lines of a file.
LEMMA PlaceType ==
    ASSUME NEW t \in Tx, InPart(t), PlaceOk(t), t.side => Side[PartAt(t)] # None
    PROVE  /\ PartAt(t) \in Part /\ PartAt(t) \in PartsOf(t.kind)
           /\ t.file[PartAt(t)] \in Seq(Line)
           /\ Side[PartAt(t)] # None => t.file[Side[PartAt(t)]] \in Seq(Line)
           /\ LinesAt(t) \in Seq(Line) /\ Len(LinesAt(t)) \in Nat
<1>1. PartAt(t) \in Part /\ PartAt(t) \in PartsOf(t.kind)
  BY PartsType DEF PlaceOk, InPart, PartAt
<1>2. /\ t.file[PartAt(t)] \in Seq(Line)
      /\ Side[PartAt(t)] # None => t.file[Side[PartAt(t)]] \in Seq(Line)
  BY <1>1, FileLines DEF PlaceOk, InPart
<1>3. LinesAt(t) \in Seq(Line)
  BY <1>2 DEF LinesAt
<1> QED BY <1>1, <1>2, <1>3, LenProperties

\* What has been handed on does not depend on the row that is being read.
LEMMA Carried ==
    ASSUME NEW t, NEW u, SameLoad(u, t), u.tables = t.tables, u.side = t.side,
           u.group = t.group, u.cards = t.cards, u.chunk = t.chunk, NEW b
    PROVE  /\ PartAt(u) = PartAt(t) /\ LinesAt(u) = LinesAt(t)
           /\ Built(t, b) => Built(u, b)
           /\ Insertable(t) => Insertable(u)
<1>1. PartAt(u) = PartAt(t) /\ LinesAt(u) = LinesAt(t)
  BY DEF PartAt, LinesAt, SameLoad
<1>2. \A k : CardLines(u, k) = CardLines(t, k)
  BY DEF CardLines
<1>3. ASSUME Built(t, b), t.side PROVE Built(u, b)
  BY <1>1, <1>2, <1>3 DEF Built, SideBuilt
<1>4. ASSUME Built(t, b), ~t.side PROVE Built(u, b)
  BY <1>1, <1>4 DEF Built, MainBuilt, CardsRight, SameLoad
<1>5. Insertable(t) => Insertable(u)
  BY DEF Insertable, SameLoad
<1> QED BY <1>1, <1>3, <1>4, <1>5

\* A row that is complete is handed on.
LEMMA RowHandedOn ==
    ASSUME NEW t \in Tx, InPart(t), PlaceOk(t), NEW n, RowAt(t, LinesAt(t), n),
           Built(t, BuiltTo(t, n)), n = Len(LinesAt(t)) \/ LinesAt(t)[n + 1] # More
    PROVE  LET u == Build(t)
           IN /\ u \in Tx /\ SameLoad(u, t) /\ u.tables = t.tables /\ u.side = t.side
              /\ u.rest = t.rest /\ u.row = None
              /\ u.total = Cardinality(Begins(LinesAt(t), n))
              /\ u.bad = Cardinality(BadTo(LinesAt(t), n))
              /\ Built(u, n)
              /\ ~t.side /\ PartAt(t) \in Guarded /\ Insertable(t) => Insertable(u)
<1> DEFINE u == Build(t)
           p == PartAt(t)
<1>1. t.side => Side[p] # None
  BY DEF Built, SideBuilt
<1>2. LinesAt(t) \in Seq(Line) /\ t.file[p] \in Seq(Line)
  BY <1>1, PlaceType
<1>3. /\ u \in Tx /\ u.row = None
      /\ u.open = t.open /\ u.kind = t.kind /\ u.file = t.file /\ u.tables = t.tables
      /\ u.part = t.part /\ u.side = t.side /\ u.rest = t.rest
  BY BuildFields
<1>4. u.total = Cardinality(Begins(LinesAt(t), n)) /\ u.bad = Cardinality(BadTo(LinesAt(t), n))
  BY <1>2, BuildCounts
<1>5. PartAt(u) = p /\ LinesAt(u) = LinesAt(t)
  BY <1>3 DEF PartAt, LinesAt
<1>6. ASSUME t.side PROVE Built(u, n)
  <2>1. \A k \in Key : CardLines(t, k) = {i \in 1 .. BuiltTo(t, n) : LinesAt(t)[i] = k}
    BY <1>6 DEF Built, SideBuilt
  <2>2. \A k \in Key : CardLines(u, k) = {i \in 1 .. n : LinesAt(t)[i] = k}
    BY <1>2, <1>6, <2>1, BuildSide
  <2>3. u.chunk = t.chunk
    BY <1>6, BuildFields
  <2> HIDE DEF u
  <2> QED BY <1>1, <1>3, <1>5, <1>6, <2>2, <2>3 DEF Built, SideBuilt
<1>7. ASSUME ~t.side PROVE Built(u, n)
  <2>1. LinesAt(t) = t.file[p]
    BY <1>7 DEF LinesAt
  <2>2. /\ t.tables[p] \cup Range(t.chunk) = Rows(t.file, p, BuiltTo(t, n))
        /\ CardsRight(t, t.file, p)
        /\ Side[p] # None => Accepted(t.file[Side[p]])
    BY <1>7 DEF Built, MainBuilt
  <2>3. t.tables[p] \cup Range(u.chunk) = Rows(t.file, p, n)
    <3> DEFINE f == t.file
    <3>1. f[p] \in Seq(Line) /\ RowAt(t, f[p], n) /\ (n = Len(f[p]) \/ f[p][n + 1] # More)
      BY <1>2, <2>1
    <3> QED BY <1>7, <2>2, <3>1, BuildMain
  <2>4. u.cards = t.cards
    BY <1>7, BuildFields
  <2> HIDE DEF u
  <2> QED BY <1>3, <1>5, <1>7, <2>2, <2>3, <2>4 DEF Built, MainBuilt, CardsRight
<1>8. ~t.side /\ p \in Guarded /\ Insertable(t) => Insertable(u)
  BY BuildInsertable
<1> HIDE DEF u
<1> QED BY <1>3, <1>4, <1>6, <1>7, <1>8 DEF SameLoad, u

\* The load when its reader has taken one more line.
Rest(t) == [t EXCEPT !.rest = Tail(@)]

Advanced(t) ==
    IF Head(t.rest) # More
    THEN [Build(Rest(t)) EXCEPT !.row = [key |-> Head(t.rest),
                                         at |-> Len(LinesAt(t)) - Len(t.rest) + 1, more |-> 0]]
    ELSE IF t.row = None THEN Rest(t) ELSE [Rest(t) EXCEPT !.row.more = @ + 1]

LEMMA RestFields ==
    ASSUME NEW t \in Tx, t.rest # <<>>
    PROVE  LET u == Rest(t)
           IN /\ u \in Tx /\ u.rest = Tail(t.rest)
              /\ u.open = t.open /\ u.kind = t.kind /\ u.file = t.file /\ u.tables = t.tables
              /\ u.part = t.part /\ u.side = t.side /\ u.row = t.row
              /\ u.total = t.total /\ u.bad = t.bad /\ u.group = t.group /\ u.cards = t.cards
              /\ u.chunk = t.chunk
<1> DEFINE rest == Tail(t.rest)
           u == [t EXCEPT !.rest = rest]
<1>1. rest \in Seq(Line)
  BY HeadTailProperties DEF Tx
<1>2. Rest(t) = u
  BY DEF Rest, Tx
<1> HIDE DEF rest
<1>3. u \in Tx
  BY <1>1 DEF Tx
<1>4. /\ u.rest = rest
      /\ u.open = t.open /\ u.kind = t.kind /\ u.file = t.file /\ u.tables = t.tables
      /\ u.part = t.part /\ u.side = t.side /\ u.row = t.row
      /\ u.total = t.total /\ u.bad = t.bad /\ u.group = t.group /\ u.cards = t.cards
      /\ u.chunk = t.chunk
  BY DEF Tx
<1> QED BY <1>2, <1>3, <1>4 DEF rest

\* The line that the reader takes is the next of the part.
LEMMA NextLine ==
    ASSUME NEW t \in Tx, t.rest # <<>>, NEW lines \in Seq(Line), NEW n \in 0 .. Len(lines),
           RestAt(t, lines, n)
    PROVE  /\ n + 1 \in 0 .. Len(lines) /\ n \in Nat
           /\ Head(t.rest) = lines[n + 1] /\ Head(t.rest) \in Line
           /\ Len(lines) - Len(t.rest) + 1 = n + 1
           /\ \A u : u.rest = Tail(t.rest) => RestAt(u, lines, n + 1)
<1>1. /\ t.rest \in Seq(Line) /\ Len(t.rest) \in Nat /\ t.rest[1] = Head(t.rest)
      /\ Len(t.rest) # 0 /\ Head(t.rest) \in Line
      /\ Len(Tail(t.rest)) = Len(t.rest) - 1
      /\ \A i \in 1 .. Len(Tail(t.rest)) : Tail(t.rest)[i] = t.rest[i + 1]
  <2>1. t.rest \in Seq(Line)
    BY DEF Tx
  <2>2. Len(t.rest) \in Nat /\ Len(t.rest) # 0
    BY <2>1, LenProperties, EmptySeq
  <2> QED BY <2>1, <2>2, HeadTailProperties
<1>2. Len(t.rest) = Len(lines) - n /\ \A i \in 1 .. Len(t.rest) : t.rest[i] = lines[n + i]
  BY DEF RestAt
<1>3. Len(lines) \in Nat
  BY LenProperties
<1>4. n \in Nat /\ n + 1 \in 0 .. Len(lines) /\ Len(lines) - Len(t.rest) + 1 = n + 1
  BY <1>1, <1>2, <1>3
<1>5. Head(t.rest) = lines[n + 1]
  BY <1>1, <1>2
<1>6. \A i \in 1 .. Len(Tail(t.rest)) : Tail(t.rest)[i] = lines[n + 1 + i]
  <2> SUFFICES ASSUME NEW i \in 1 .. Len(Tail(t.rest)) PROVE Tail(t.rest)[i] = lines[n + 1 + i]
    OBVIOUS
  <2>1. i + 1 \in 1 .. Len(t.rest) /\ n + (i + 1) = n + 1 + i
    BY <1>1, <1>4
  <2> QED BY <1>1, <1>2, <2>1
<1>7. Len(Tail(t.rest)) = Len(lines) - (n + 1)
  BY <1>1, <1>2, <1>3, <1>4
<1> QED BY <1>1, <1>4, <1>5, <1>6, <1>7 DEF RestAt

\* Taking a line, the reader is where it should be, one line further on.
LEMMA LineTaken ==
    ASSUME NEW t \in Tx, InPart(t), PlaceOk(t), t.rest # <<>>,
           NEW n \in 0 .. Len(LinesAt(t)), ReaderAt(t, n)
    PROVE  LET u == Advanced(t)
           IN /\ u \in Tx /\ SameLoad(u, t) /\ u.tables = t.tables /\ u.side = t.side
              /\ PartOk(u)
              /\ ~t.side /\ PartAt(t) \in Guarded /\ Insertable(t) => Insertable(u)
<1> DEFINE lines == LinesAt(t)
           u == Advanced(t)
           s == Rest(t)
<1>1. lines \in Seq(Line) /\ Len(lines) \in Nat
  BY PlaceType DEF ReaderAt, Built, SideBuilt
<1>2. /\ n + 1 \in 0 .. Len(lines) /\ n \in Nat
      /\ Head(t.rest) = lines[n + 1] /\ Head(t.rest) \in Line
      /\ Len(lines) - Len(t.rest) + 1 = n + 1
      /\ \A v : v.rest = Tail(t.rest) => RestAt(v, lines, n + 1)
  BY <1>1, NextLine DEF ReaderAt
<1>3. /\ s \in Tx /\ s.rest = Tail(t.rest)
      /\ s.open = t.open /\ s.kind = t.kind /\ s.file = t.file /\ s.tables = t.tables
      /\ s.part = t.part /\ s.side = t.side /\ s.row = t.row
      /\ s.total = t.total /\ s.bad = t.bad /\ s.group = t.group /\ s.cards = t.cards
      /\ s.chunk = t.chunk
  BY RestFields
<1> HIDE DEF s
<1>4. /\ SameLoad(s, t) /\ PartAt(s) = PartAt(t) /\ LinesAt(s) = lines
      /\ InPart(s) /\ PlaceOk(s)
      /\ (Insertable(t) => Insertable(s))
  BY <1>3 DEF SameLoad, PartAt, LinesAt, InPart, PlaceOk, Insertable
<1>5. BuiltTo(s, n) = BuiltTo(t, n) /\ Built(s, BuiltTo(t, n))
  <2>1. BuiltTo(s, n) = BuiltTo(t, n)
    BY <1>3 DEF BuiltTo
  <2>2. Built(t, BuiltTo(t, n))
    BY DEF ReaderAt
  <2> QED BY <1>3, <1>4, <2>1, <2>2, Carried
<1>6. RowAt(s, lines, n)
  BY <1>3, <1>5 DEF ReaderAt, RowAt
<1>7. CASE Head(t.rest) # More
  <2> DEFINE b == Build(s)
             row == [key |-> Head(t.rest), at |-> n + 1, more |-> 0]
  <2>1. /\ b \in Tx /\ SameLoad(b, s) /\ b.tables = s.tables /\ b.side = s.side
        /\ b.rest = s.rest /\ b.row = None
        /\ b.total = Cardinality(Begins(lines, n))
        /\ b.bad = Cardinality(BadTo(lines, n))
        /\ Built(b, n)
        /\ (~s.side /\ PartAt(s) \in Guarded /\ Insertable(s) => Insertable(b))
    BY <1>2, <1>3, <1>4, <1>5, <1>6, <1>7, RowHandedOn
  <2>2. row \in RowType
    BY <1>2, <1>7 DEF RowType, Line
  <2> HIDE DEF b, row
  <2>3. u = [b EXCEPT !.row = row]
    BY <1>2, <1>7 DEF Advanced, b, row, s, u
  <2>4. u \in Tx /\ u.row = row
    BY <2>1, <2>2, <2>3 DEF Tx
  <2>5. /\ u.open = b.open /\ u.kind = b.kind /\ u.file = b.file /\ u.tables = b.tables
        /\ u.part = b.part /\ u.side = b.side /\ u.rest = b.rest /\ u.total = b.total
        /\ u.bad = b.bad /\ u.group = b.group /\ u.cards = b.cards /\ u.chunk = b.chunk
    BY <2>1, <2>3 DEF Tx
  <2>6. row # None /\ row.at = n + 1 /\ row.key = lines[n + 1] /\ row.more = 0
    BY <1>2, <2>2, LoadAssumption DEF row, RowType
  <2> HIDE DEF u
  <2>7. SameLoad(u, b) /\ Built(u, n) /\ LinesAt(u) = lines /\ (Insertable(b) => Insertable(u))
    <3>1. SameLoad(u, b)
      BY <2>5 DEF SameLoad
    <3>2. LinesAt(b) = lines
      BY <1>3, <1>4, <2>1 DEF SameLoad, LinesAt, PartAt
    <3> QED BY <2>1, <2>5, <3>1, <3>2, Carried
  <2>8. BuiltTo(u, n + 1) = n
    BY <1>2, <2>4, <2>6 DEF BuiltTo
  <2>9. RowAt(u, lines, n + 1)
    <3>1. u.row # None /\ u.row.at = n + 1 /\ lines[u.row.at] = u.row.key /\ u.row.more = 0
      BY <2>4, <2>6
    <3>2. /\ u.row.at \in 1 .. n + 1 /\ u.row.more = n + 1 - u.row.at
          /\ \A m \in u.row.at + 1 .. n + 1 : lines[m] = More
      BY <1>2, <3>1
    <3> QED BY <1>2, <2>1, <2>5, <2>8, <3>1, <3>2 DEF RowAt
  <2>10. ReaderAt(u, n + 1)
    BY <1>2, <1>3, <2>1, <2>5, <2>7, <2>8, <2>9 DEF ReaderAt
  <2>11. PartOk(u)
    BY <1>2, <2>7, <2>10 DEF PartOk
  <2> QED BY <1>3, <1>4, <2>1, <2>4, <2>5, <2>7, <2>11 DEF SameLoad, u
<1>8. CASE Head(t.rest) = More /\ t.row = None
  <2>1. u = s
    BY <1>8 DEF Advanced, s
  <2>2. n # Len(lines) /\ \A m \in 1 .. n + 1 : lines[m] = More
    <3>1. n + 1 <= Len(lines) /\ n # Len(lines)
      BY <1>1, <1>2
    <3>2. \A m \in 1 .. n : lines[m] = More
      BY <1>6, <1>3, <1>8, <3>1 DEF RowAt
    <3>3. \A m \in 1 .. n + 1 : m \in 1 .. n \/ m = n + 1
      BY <1>2
    <3> QED BY <1>2, <1>8, <3>1, <3>2, <3>3
  <2>3. BuiltTo(t, n) = n /\ BuiltTo(s, n + 1) = n + 1
    BY <1>3, <1>8 DEF BuiltTo
  <2>4. Begins(lines, n + 1) = Begins(lines, n) /\ BadTo(lines, n + 1) = BadTo(lines, n)
    <3>1. 1 .. n + 1 = (1 .. n) \cup {n + 1} /\ lines[n + 1] = More
      BY <1>2, <1>8
    <3> QED BY <3>1, LoadAssumption DEF Begins, BadTo
  <2>5. RowAt(s, lines, n + 1)
    <3>1. /\ s.total = Cardinality(Begins(lines, n)) /\ s.bad = Cardinality(BadTo(lines, n))
      BY <1>5, <1>6, <2>3 DEF RowAt
    <3> QED BY <1>2, <1>3, <1>8, <2>2, <2>3, <2>4, <3>1 DEF RowAt
  <2>6. Built(s, n + 1)
    <3>1. Built(s, n)
      BY <1>5, <2>3
    <3>2. \A k \in Key : {i \in 1 .. n + 1 : lines[i] = k} = {i \in 1 .. n : lines[i] = k}
      <4>1. 1 .. n + 1 = (1 .. n) \cup {n + 1} /\ \A k \in Key : lines[n + 1] # k
        BY <1>2, <1>8, LoadAssumption
      <4> QED BY <4>1
    <3>3. ~s.side => Rows(s.file, PartAt(s), n + 1) = Rows(s.file, PartAt(s), n)
      <4> SUFFICES ASSUME ~s.side
                   PROVE  Rows(s.file, PartAt(s), n + 1) = Rows(s.file, PartAt(s), n)
        OBVIOUS
      <4>1. lines = s.file[PartAt(s)]
        BY <1>4 DEF LinesAt
      <4>2. 1 .. n + 1 = (1 .. n) \cup {n + 1} /\ ~Starts(s.file, PartAt(s), n + 1)
        BY <1>2, <1>8, <4>1, LoadAssumption DEF Starts
      <4> QED BY <4>2 DEF Rows, Loaded
    <3> QED BY <1>4, <3>1, <3>2, <3>3 DEF Built, SideBuilt, MainBuilt
  <2>7. ReaderAt(s, n + 1)
    BY <1>2, <1>3, <1>4, <2>3, <2>5, <2>6 DEF ReaderAt
  <2>8. PartOk(s)
    BY <1>2, <1>4, <2>7 DEF PartOk
  <2> HIDE DEF u
  <2> QED BY <1>3, <1>4, <2>1, <2>8 DEF u
<1>9. CASE Head(t.rest) = More /\ t.row # None
  <2> DEFINE row == [t.row EXCEPT !.more = @ + 1]
  <2>1. t.row \in RowType /\ t.row.more + 1 \in Nat
    BY <1>9 DEF Tx, RowType
  <2>2. row \in RowType /\ row.key = t.row.key /\ row.at = t.row.at
        /\ row.more = t.row.more + 1
    BY <2>1 DEF RowType
  <2>3. u = [s EXCEPT !.row = row]
    BY <1>3, <1>9 DEF Advanced, s
  <2> HIDE DEF row
  <2>4. u \in Tx /\ u.row = row /\ row # None
    BY <1>3, <2>2, <2>3, LoadAssumption DEF Tx, RowType
  <2>5. /\ u.open = s.open /\ u.kind = s.kind /\ u.file = s.file /\ u.tables = s.tables
        /\ u.part = s.part /\ u.side = s.side /\ u.rest = s.rest /\ u.total = s.total
        /\ u.bad = s.bad /\ u.group = s.group /\ u.cards = s.cards /\ u.chunk = s.chunk
    BY <1>3, <2>3 DEF Tx
  <2> HIDE DEF u
  <2>6. BuiltTo(u, n + 1) = BuiltTo(s, n)
    BY <1>3, <1>9, <2>2, <2>4 DEF BuiltTo
  <2>7. /\ SameLoad(u, s) /\ Built(u, BuiltTo(s, n)) /\ LinesAt(u) = lines
        /\ (Insertable(s) => Insertable(u))
    <3>1. SameLoad(u, s)
      BY <2>5 DEF SameLoad
    <3> QED BY <1>4, <1>5, <2>5, <3>1, Carried
  <2>8. RowAt(u, lines, n + 1)
    <3>1. /\ t.row.at \in 1 .. n /\ lines[t.row.at] = t.row.key
          /\ t.row.more = n - t.row.at
          /\ \A m \in t.row.at + 1 .. n : lines[m] = More
      BY <1>3, <1>6, <1>9 DEF RowAt
    <3>2. t.row.at \in Nat
      BY <2>1 DEF RowType
    <3>3. u.row.at \in 1 .. n + 1 /\ u.row.more = n + 1 - u.row.at
      BY <1>2, <2>2, <2>4, <3>1, <3>2
    <3>4. \A m \in u.row.at + 1 .. n + 1 : m \in t.row.at + 1 .. n \/ m = n + 1
      BY <1>2, <2>2, <2>4, <3>2
    <3>5. \A m \in u.row.at + 1 .. n + 1 : lines[m] = More
      BY <1>2, <1>9, <3>1, <3>4
    <3>6. u.total = Cardinality(Begins(lines, BuiltTo(s, n)))
          /\ u.bad = Cardinality(BadTo(lines, BuiltTo(s, n)))
      BY <1>6, <2>5 DEF RowAt
    <3>7. u.row # None /\ lines[u.row.at] = u.row.key
      BY <2>2, <2>4, <3>1
    <3> QED BY <1>2, <2>6, <3>3, <3>5, <3>6, <3>7 DEF RowAt
  <2>9. ReaderAt(u, n + 1)
    BY <1>2, <1>3, <2>5, <2>6, <2>7, <2>8 DEF ReaderAt
  <2>10. PartOk(u)
    BY <1>2, <2>7, <2>9 DEF PartOk
  <2> QED BY <1>3, <1>4, <2>4, <2>5, <2>7, <2>10 DEF SameLoad, u
<1> QED BY <1>7, <1>8, <1>9

\* The last row is complete at the end of the part.
LEMMA LastRowBuilt ==
    ASSUME NEW t \in Tx, InPart(t), PlaceOk(t), PartOk(t), t.rest = <<>>
    PROVE  LET u == Build(t)
           IN /\ u \in Tx /\ SameLoad(u, t) /\ u.tables = t.tables /\ u.side = t.side
              /\ PartOk(u)
              /\ ~t.side /\ PartAt(t) \in Guarded /\ Insertable(t) => Insertable(u)
<1> DEFINE u == Build(t)
           lines == LinesAt(t)
<1>1. PICK n \in 0 .. Len(lines) : ReaderAt(t, n)
  BY DEF PartOk
<1>2. lines \in Seq(Line) /\ Len(lines) \in Nat
  BY <1>1, PlaceType DEF ReaderAt, Built, SideBuilt
<1>3. n = Len(lines)
  <2>1. Len(t.rest) = Len(lines) - n
    BY <1>1 DEF ReaderAt, RestAt
  <2>2. Len(t.rest) = 0
    BY EmptySeq
  <2> HIDE DEF lines
  <2> QED BY <1>2, <2>1, <2>2
<1>4. /\ u \in Tx /\ SameLoad(u, t) /\ u.tables = t.tables /\ u.side = t.side
      /\ u.rest = t.rest /\ u.row = None
      /\ u.total = Cardinality(Begins(lines, n))
      /\ u.bad = Cardinality(BadTo(lines, n))
      /\ Built(u, n)
      /\ (~t.side /\ PartAt(t) \in Guarded /\ Insertable(t) => Insertable(u))
  BY <1>1, <1>3, RowHandedOn DEF ReaderAt
<1> HIDE DEF u
<1>5. LinesAt(u) = lines
  BY <1>4 DEF LinesAt, PartAt, SameLoad
<1>6. BuiltTo(u, n) = n
  BY <1>4 DEF BuiltTo
<1>7. RowAt(u, lines, n)
  BY <1>3, <1>4, <1>6 DEF RowAt
<1>8. RestAt(u, lines, n)
  BY <1>1, <1>4 DEF ReaderAt, RestAt
<1>9. PartOk(u)
  BY <1>4, <1>5, <1>6, <1>7, <1>8 DEF PartOk, ReaderAt
<1> QED BY <1>4, <1>9 DEF u

\* At its end a part has all its rows, and few enough bad ones to be accepted.
LEMMA PartEnd ==
    ASSUME NEW t \in Tx, InPart(t), PlaceOk(t), PartOk(t), t.rest = <<>>, t.row = None,
           ~(t.bad * Tolerance > t.total)
    PROVE  /\ Accepted(LinesAt(t)) /\ Built(t, Len(LinesAt(t)))
           /\ LinesAt(t) \in Seq(Line) /\ DOMAIN LinesAt(t) = 1 .. Len(LinesAt(t))
<1> DEFINE lines == LinesAt(t)
<1>1. PICK n \in 0 .. Len(lines) : ReaderAt(t, n)
  BY DEF PartOk
<1>2. lines \in Seq(Line) /\ Len(lines) \in Nat
  BY <1>1, PlaceType DEF ReaderAt, Built, SideBuilt
<1>3. n = Len(lines)
  <2>1. Len(t.rest) = Len(lines) - n
    BY <1>1 DEF ReaderAt, RestAt
  <2>2. Len(t.rest) = 0
    BY EmptySeq
  <2> HIDE DEF lines
  <2> QED BY <1>2, <2>1, <2>2
<1>4. BuiltTo(t, n) = n
  BY DEF BuiltTo
<1>5. /\ t.total = Cardinality(Begins(lines, n)) /\ t.bad = Cardinality(BadTo(lines, n))
      /\ Built(t, n)
  BY <1>1, <1>4 DEF ReaderAt, RowAt
<1> HIDE DEF lines
<1>6. DOMAIN lines = 1 .. Len(lines)
  BY <1>2, LenProperties
<1>7. /\ Begins(lines, n) = {i \in DOMAIN lines : lines[i] # More}
      /\ BadTo(lines, n) = At(lines, Bad)
  BY <1>3, <1>6 DEF Begins, BadTo, At
<1>8. t.bad * Tolerance <= t.total
  <2>1. t.bad \in Nat /\ t.total \in Nat /\ Tolerance \in Nat
    BY LoadAssumption DEF Tx
  <2>2. t.bad * Tolerance \in Nat
    BY <2>1
  <2> QED BY <2>1, <2>2
<1>9. Accepted(lines)
  BY <1>5, <1>7, <1>8 DEF Accepted
<1> QED BY <1>2, <1>3, <1>5, <1>6, <1>9 DEF lines

\* The part joined to another has been read: all its lines are with their cards.
LEMMA SideEnd ==
    ASSUME NEW t \in Tx, InPart(t), PlaceOk(t), PartOk(t), t.rest = <<>>, t.row = None,
           ~(t.bad * Tolerance > t.total), t.side
    PROVE  LET u == Cleared(StoreCard(t))
           IN /\ u \in Tx /\ SameLoad(u, t) /\ SameTables(u, t) /\ u.chunk = <<>>
              /\ PartOk(u)
<1> DEFINE s == StoreCard(t)
           p == PartAt(t)
           lines == LinesAt(t)
<1>1. /\ s \in Tx
      /\ s.open = t.open /\ s.kind = t.kind /\ s.file = t.file /\ s.tables = t.tables
      /\ s.part = t.part /\ \A k \in Key : s.cards[k] = CardLines(t, k)
  BY StoreCardFields
<1>2. Accepted(lines) /\ Built(t, Len(lines)) /\ DOMAIN lines = 1 .. Len(lines)
  BY PartEnd
<1>3. Side[p] # None /\ lines = t.file[Side[p]]
  BY <1>2 DEF Built, SideBuilt, LinesAt
<1>4. \A k \in Key : CardLines(t, k) = At(lines, k)
  <2>1. \A k \in Key : CardLines(t, k) = {i \in 1 .. Len(lines) : lines[i] = k}
    BY <1>2 DEF Built, SideBuilt
  <2> HIDE DEF lines
  <2> QED BY <1>2, <2>1 DEF At
<1> HIDE DEF s, lines
<1>5. PartAt(s) = p /\ InPart(s) /\ PlaceOk(s)
  BY <1>1 DEF PartAt, InPart, PlaceOk
<1>6. CardsRight(s, s.file, p)
  BY <1>1, <1>3, <1>4 DEF CardsRight
<1>7. Side[p] # None => Accepted(s.file[Side[p]])
  BY <1>1, <1>2, <1>3
<1>8. LET u == Cleared(s)
      IN /\ u \in Tx /\ SameLoad(u, s) /\ SameTables(u, s) /\ u.chunk = <<>> /\ PartOk(u)
  BY <1>1, <1>5, <1>6, <1>7, ClearedRight
<1>9. \A u : SameLoad(u, s) /\ SameTables(u, s) => SameLoad(u, t) /\ SameTables(u, t)
  BY <1>1, <1>5 DEF SameLoad, SameTables
<1> QED BY <1>8, <1>9 DEF s

\* The rows of all the lines of a part are its table.
LEMMA AllRows ==
    ASSUME NEW f, NEW p, DOMAIN f[p] = 1 .. Len(f[p])
    PROVE  Rows(f, p, Len(f[p])) = TableOf(f, p)
BY DEF Rows, Loaded, Starts, RowOf, TableOf

\* A step within a part leaves the parts done and the other kinds alone.
LEMMA DoneKept ==
    ASSUME NEW t, NEW u, NEW before, InPart(t), PlaceOk(t), DoneOk(t, before),
           SameLoad(u, t), SameTables(u, t)
    PROVE  PlaceOk(u) /\ DoneOk(u, before)
<1>1. PlaceOk(u)
  BY DEF SameLoad, PlaceOk
<1>2. t.open /\ t.kind \in Kind /\ t.part \in DOMAIN Parts[t.kind]
  BY DEF InPart, PlaceOk
<1>3. ASSUME NEW i \in DOMAIN Parts[t.kind], i < t.part
      PROVE  u.tables[Parts[t.kind][i]] = t.tables[Parts[t.kind][i]]
  <2>1. i # t.part
    BY <1>2, <1>3, PartsType
  <2>2. Parts[t.kind][i] \in Part /\ Parts[t.kind][i] # PartAt(t)
    BY <1>2, <2>1, PartsType DEF PartAt
  <2> QED BY <2>2 DEF SameTables
<1>4. ASSUME NEW k \in Kind \ {t.kind}, NEW q \in PartsOf(k)
      PROVE  u.tables[q] = t.tables[q]
  <2>1. q \in Part /\ PartAt(t) \in PartsOf(t.kind) /\ q \notin PartsOf(t.kind)
    BY <1>2, PartsType, LoadAssumption DEF PartAt
  <2> QED BY <2>1 DEF SameTables
<1> QED BY <1>1, <1>2, <1>3, <1>4 DEF DoneOk, SameLoad

\* A chunk goes into its table.
LEMMA ChunkInserted ==
    ASSUME NEW t \in Tx, InPart(t), PlaceOk(t), PartOk(t), Len(t.chunk) = ChunkSize
    PROVE  LET u == [t EXCEPT !.chunk = <<>>, !.tables[PartAt(t)] = @ \cup Range(t.chunk)]
           IN u \in Tx /\ SameLoad(u, t) /\ SameTables(u, t) /\ u.chunk = <<>> /\ PartOk(u)
<1> DEFINE p == PartAt(t)
           u == [t EXCEPT !.chunk = <<>>, !.tables[p] = @ \cup Range(t.chunk)]
           tables == [t.tables EXCEPT ![p] = @ \cup Range(t.chunk)]
<1>1. PICK n \in 0 .. Len(LinesAt(t)) : ReaderAt(t, n)
  BY DEF PartOk
<1>2. ~t.side
  <2>1. t.chunk # <<>>
    <3>1. Len(<<>>) = 0 /\ ChunkSize # 0
      BY EmptySeq, LoadAssumption
    <3> QED BY <3>1
  <2> QED BY <1>1, <2>1 DEF ReaderAt, Built, SideBuilt
<1>3. p \in Part
  BY <1>2, PlaceType
<1>4. Range(t.chunk) \in SUBSET TableRow
  <2>1. t.chunk \in Seq(TableRow)
    BY DEF Tx
  <2> QED BY <2>1, LenProperties DEF Range
<1>5. /\ tables \in [Part -> SUBSET TableRow] /\ tables[p] = t.tables[p] \cup Range(t.chunk)
      /\ \A q \in Part \ {p} : tables[q] = t.tables[q]
  BY <1>3, <1>4 DEF Tx
<1>6. u = [t EXCEPT !.chunk = <<>>, !.tables = tables]
  BY DEF Tx
<1>7. <<>> \in Seq(TableRow) /\ Range(<<>>) = {}
  BY EmptySeq DEF Range
<1> HIDE DEF tables, u
<1>8. u \in Tx
  BY <1>5, <1>6, <1>7 DEF Tx
<1>9. /\ u.open = t.open /\ u.kind = t.kind /\ u.file = t.file /\ u.tables = tables
      /\ u.part = t.part /\ u.side = t.side /\ u.rest = t.rest /\ u.row = t.row
      /\ u.total = t.total /\ u.bad = t.bad /\ u.cards = t.cards /\ u.chunk = <<>>
  BY <1>6 DEF Tx
<1>10. PartAt(u) = p /\ LinesAt(u) = LinesAt(t) /\ SameLoad(u, t) /\ SameTables(u, t)
  BY <1>5, <1>9 DEF PartAt, LinesAt, SameLoad, SameTables
<1>11. BuiltTo(u, n) = BuiltTo(t, n)
  BY <1>9 DEF BuiltTo
<1>12. Built(u, BuiltTo(t, n))
  <2>1. MainBuilt(t, BuiltTo(t, n))
    BY <1>1, <1>2 DEF ReaderAt, Built
  <2>2. u.tables[p] \cup Range(u.chunk) = t.tables[p] \cup Range(t.chunk)
    BY <1>5, <1>7, <1>9
  <2> QED BY <1>2, <1>9, <1>10, <2>1, <2>2 DEF Built, MainBuilt, CardsRight
<1>13. RowAt(u, LinesAt(t), n) /\ RestAt(u, LinesAt(t), n)
  BY <1>1, <1>9, <1>11 DEF ReaderAt, RowAt, RestAt
<1>14. PartOk(u)
  BY <1>10, <1>11, <1>12, <1>13 DEF PartOk, ReaderAt
<1> QED BY <1>8, <1>9, <1>10, <1>14 DEF u

\* A part has been loaded: its table is that of the file, and the next part begins.
LEMMA PartLoaded ==
    ASSUME NEW t \in Tx, InPart(t), PlaceOk(t), PartOk(t), NEW before, DoneOk(t, before),
           t.rest = <<>>, t.row = None, ~(t.bad * Tolerance > t.total), ~t.side
    PROVE  LET s == [t EXCEPT !.tables[PartAt(t)] = @ \cup Range(t.chunk)]
               u == Started(s, t.part + 1)
           IN u \in Tx /\ PlaceOk(u) /\ PartOk(u) /\ DoneOk(u, before) /\ u.chunk = <<>>
<1> DEFINE p == PartAt(t)
           s == [t EXCEPT !.tables[p] = @ \cup Range(t.chunk)]
           u == Started(s, t.part + 1)
           tables == [t.tables EXCEPT ![p] = @ \cup Range(t.chunk)]
           parts == Parts[t.kind]
<1>1. p \in Part /\ t.open /\ t.kind \in Kind /\ t.file \in File[t.kind]
      /\ t.part \in DOMAIN parts
  BY PlaceType DEF InPart, PlaceOk
<1>2. Range(t.chunk) \in SUBSET TableRow
  <2>1. t.chunk \in Seq(TableRow)
    BY DEF Tx
  <2> QED BY <2>1, LenProperties DEF Range
<1>3. /\ tables \in [Part -> SUBSET TableRow] /\ tables[p] = t.tables[p] \cup Range(t.chunk)
      /\ \A q \in Part \ {p} : tables[q] = t.tables[q]
  BY <1>1, <1>2 DEF Tx
<1>4. s = [t EXCEPT !.tables = tables]
  BY DEF Tx
<1> HIDE DEF tables, s
<1>5. /\ s \in Tx /\ s.tables = tables /\ s.open /\ s.kind = t.kind /\ s.file = t.file
  BY <1>1, <1>3, <1>4 DEF Tx
<1>6. /\ DOMAIN parts = 1 .. Len(parts) /\ Len(parts) \in Nat
      /\ \A i \in DOMAIN parts : parts[i] \in Part /\ parts[i] \in PartsOf(t.kind)
      /\ \A i, j \in DOMAIN parts : parts[i] = parts[j] => i = j
  BY <1>1, PartsType
<1>7. t.part + 1 \in 1 .. Len(parts) + 1 /\ t.part \in Nat
  BY <1>1, <1>6
<1>8. /\ u \in Tx /\ u.open /\ u.kind = t.kind /\ u.file = t.file /\ u.part = t.part + 1
      /\ \A q \in Part : (t.part + 1 \in DOMAIN parts /\ q = parts[t.part + 1])
                              \/ u.tables[q] = tables[q]
      /\ u.chunk = <<>> /\ PartOk(u)
  <2> HIDE DEF u
  <2>1. LET v == Started(s, t.part + 1)
        IN /\ v \in Tx /\ v.open /\ v.kind = s.kind /\ v.file = s.file /\ v.part = t.part + 1
           /\ \A q \in Part : (t.part + 1 \in DOMAIN Parts[s.kind] /\ q = Parts[s.kind][t.part + 1])
                                 \/ v.tables[q] = s.tables[q]
           /\ v.chunk = <<>>
           /\ PartOk(v)
    BY <1>1, <1>5, <1>7, StartedRight
  <2> QED BY <1>5, <2>1 DEF u
<1> HIDE DEF u
<1>9. PlaceOk(u)
  BY <1>1, <1>7, <1>8 DEF PlaceOk
<1>10. TableRight(tables[p], t.file, p)
  <2>1. LinesAt(t) = t.file[p]
    BY DEF LinesAt
  <2>2. /\ Accepted(t.file[p]) /\ DOMAIN t.file[p] = 1 .. Len(t.file[p])
        /\ MainBuilt(t, Len(t.file[p]))
    BY <2>1, PartEnd DEF Built
  <2>3. tables[p] = TableOf(t.file, p)
    BY <1>3, <2>2, AllRows DEF MainBuilt
  <2> QED BY <2>2, <2>3 DEF TableRight, MainBuilt
<1>11. ASSUME NEW i \in DOMAIN parts, i < t.part + 1
       PROVE  TableRight(u.tables[parts[i]], t.file, parts[i])
  <2>1. i # t.part + 1
    BY <1>6, <1>7, <1>11
  <2>2. u.tables[parts[i]] = tables[parts[i]]
    BY <1>6, <1>8, <2>1
  <2>3. CASE i = t.part
    BY <1>10, <2>2, <2>3 DEF PartAt
  <2>4. CASE i # t.part
    <3>1. i < t.part /\ parts[i] # p
      BY <1>1, <1>6, <1>7, <1>11, <2>4 DEF PartAt
    <3>2. TableRight(t.tables[parts[i]], t.file, parts[i])
      BY <1>1, <3>1 DEF DoneOk
    <3> QED BY <1>3, <1>6, <2>2, <3>1, <3>2
  <2> QED BY <2>3, <2>4
<1>12. ASSUME NEW k \in Kind \ {t.kind}, NEW q \in PartsOf(k)
       PROVE  u.tables[q] = before[q]
  <2>1. q \in Part /\ q \notin PartsOf(t.kind)
    BY <1>1, PartsType, LoadAssumption
  <2>2. u.tables[q] = tables[q] /\ tables[q] = t.tables[q]
    BY <1>1, <1>3, <1>6, <1>8, <2>1 DEF PartAt
  <2> QED BY <1>1, <2>2 DEF DoneOk
<1>13. DoneOk(u, before)
  BY <1>8, <1>11, <1>12 DEF DoneOk
<1> QED BY <1>8, <1>9, <1>13 DEF u, s

-----------------------------------------------------------------------------
(* Invariance.                                                              *)

\* What IInv says of the load under way.
GuardOk(t) == InPart(t) /\ ~t.side /\ PartAt(t) \in Guarded => Insertable(t)

TxOk(t, before) == t \in Tx /\ PlaceOk(t) /\ PartOk(t) /\ DoneOk(t, before) /\ GuardOk(t)

TablesOk ==
    /\ committed \in [Part -> SUBSET TableRow]
    /\ source \in [Kind -> UNION {File[k] \cup {NoFile(k)} : k \in Kind}]
    /\ \A k \in Kind : source[k] \in File[k] \cup {NoFile(k)}

LEMMA IInvParts == IInv <=> TxOk(tx, committed) /\ TablesOk /\ OneSnapshot
<1>1. GuardedPartsInsert <=> GuardOk(tx)
  BY DEF GuardedPartsInsert, GuardOk, Loading, InPart, Now, PartAt
<1> QED BY <1>1 DEF IInv, TypeOK, TxOk, TablesOk

\* No load is under way.
LEMMA ClosedOk ==
    ASSUME NEW before
    PROVE  TxOk(Closed, before)
<1>1. Closed \in Tx
  <2>1. <<>> \in Seq(Line) /\ <<>> \in Seq(TableRow)
    BY EmptySeq
  <2>2. /\ Empty \in [Part -> SUBSET TableRow] /\ NoCards \in [Key -> SUBSET Nat]
        /\ NoGroup \in [key: Key \cup {None}, lines: SUBSET Nat]
    BY DEF Empty, NoCards, NoGroup
  <2>3. <<>> \in {<<>>} \cup UNION {File[k] : k \in Kind} /\ "none" \in Kind \cup {"none"}
    OBVIOUS
  <2> QED BY <2>1, <2>2, <2>3 DEF Closed, Tx
<1>2. ~Closed.open
  BY DEF Closed
<1> QED BY <1>1, <1>2 DEF TxOk, PlaceOk, PartOk, DoneOk, GuardOk, InPart

\* An empty chunk can be inserted.
LEMMA EmptyChunk ==
    ASSUME NEW t, t.chunk = <<>>
    PROVE  GuardOk(t)
<1>1. Range(<<>>) = {} /\ DOMAIN <<>> = {}
  BY DEF Range
<1> QED BY <1>1 DEF GuardOk, Insertable, Keys

LEMMA InitInvariant == Init => IInv
<1> SUFFICES ASSUME Init PROVE IInv
  OBVIOUS
<1>1. TxOk(tx, committed)
  BY ClosedOk DEF Init
<1>2. TablesOk
  BY DEF Init, TablesOk, Empty
<1>3. OneSnapshot
  <2> SUFFICES ASSUME NEW k \in Kind, NEW p \in PartsOf(k)
               PROVE  /\ committed[p] = TableOf(source[k], p)
                      /\ Accepted(source[k][p])
                      /\ Side[p] # None => Accepted(source[k][Side[p]])
    BY DEF OneSnapshot
  <2>1. source[k] = NoFile(k) /\ p \in Part /\ committed[p] = {}
    BY DEF Init, Part, Empty
  <2>2. source[k][p] = <<>> /\ (Side[p] # None => source[k][Side[p]] = <<>>)
    BY <2>1 DEF NoFile, SidesOf
  <2>3. Accepted(<<>>)
    <3>1. At(<<>>, Bad) = {} /\ {i \in DOMAIN <<>> : <<>>[i] # More} = {}
      BY DEF At
    <3>2. Cardinality({}) = 0 /\ 0 * Tolerance <= 0
      BY FS_EmptySet, LoadAssumption
    <3> QED BY <3>1, <3>2 DEF Accepted
  <2>4. TableOf(source[k], p) = {}
    BY <2>2 DEF TableOf
  <2> QED BY <2>1, <2>2, <2>3, <2>4
<1> QED BY <1>1, <1>2, <1>3, IInvParts

\* A load begins at the first part of a file.
LEMMA BeginStep == ASSUME IInv, Begin PROVE TxOk(tx', committed)
<1>0. PICK k \in Kind : \E f \in File[k] :
         tx' = Started([Closed EXCEPT !.open = TRUE, !.kind = k, !.file = f,
                                      !.tables = committed], 1)
  BY DEF Begin
<1>1. PICK f \in File[k] :
         tx' = Started([Closed EXCEPT !.open = TRUE, !.kind = k, !.file = f,
                                      !.tables = committed], 1)
  BY <1>0
<1> DEFINE t == [Closed EXCEPT !.open = TRUE, !.kind = k, !.file = f, !.tables = committed]
<1>2. Closed \in Tx /\ committed \in [Part -> SUBSET TableRow]
  BY ClosedOk, IInvParts DEF TxOk, TablesOk
<1>3. t \in Tx /\ t.open /\ t.kind = k /\ t.file = f /\ t.tables = committed
  <2>1. f \in {<<>>} \cup UNION {File[j] : j \in Kind}
    OBVIOUS
  <2>2. t \in Tx
    BY <1>2, <2>1 DEF Tx
  <2>3. t.open /\ t.kind = k /\ t.file = f /\ t.tables = committed
    BY <1>2 DEF Tx
  <2> QED BY <2>2, <2>3
<1> HIDE DEF t
<1>4. /\ DOMAIN Parts[k] = 1 .. Len(Parts[k]) /\ Len(Parts[k]) \in Nat
      /\ \A i \in DOMAIN Parts[k] : Parts[k][i] \in PartsOf(k)
      /\ PartsOf(k) \subseteq Part
  BY PartsType
<1>5. 1 \in 1 .. Len(Parts[k]) + 1
  BY <1>4
<1> DEFINE u == Started(t, 1)
<1>6. /\ u \in Tx /\ u.open /\ u.kind = k /\ u.file = f /\ u.part = 1
      /\ \A q \in Part : (1 \in DOMAIN Parts[k] /\ q = Parts[k][1]) \/ u.tables[q] = committed[q]
      /\ u.chunk = <<>> /\ PartOk(u)
  <2> HIDE DEF u
  <2>1. LET v == Started(t, 1)
        IN /\ v \in Tx /\ v.open /\ v.kind = t.kind /\ v.file = t.file /\ v.part = 1
           /\ \A q \in Part : (1 \in DOMAIN Parts[t.kind] /\ q = Parts[t.kind][1])
                                 \/ v.tables[q] = t.tables[q]
           /\ v.chunk = <<>>
           /\ PartOk(v)
    BY <1>3, <1>5, StartedRight
  <2> QED BY <1>3, <2>1 DEF u
<1>7. tx' = u
  BY <1>1 DEF t
<1> HIDE DEF u
<1>8. PlaceOk(u)
  BY <1>5, <1>6 DEF PlaceOk
<1>9. DoneOk(u, committed)
  <2>1. \A i \in DOMAIN Parts[k] : ~(i < 1)
    BY <1>4
  <2>2. ASSUME NEW l \in Kind \ {k}, NEW q \in PartsOf(l) PROVE u.tables[q] = committed[q]
    <3>1. q \in Part /\ q \notin PartsOf(k)
      BY PartsType, LoadAssumption
    <3> QED BY <1>4, <1>6, <3>1
  <2> QED BY <1>6, <2>1, <2>2 DEF DoneOk
<1> QED BY <1>6, <1>7, <1>8, <1>9, EmptyChunk DEF TxOk

LEMMA ReadLineStep == ASSUME IInv, ReadLine PROVE TxOk(tx', committed)
<1>1. TxOk(tx, committed) /\ InPart(tx) /\ tx.rest # <<>>
  BY IInvParts DEF ReadLine, Loading, InPart
<1>2. tx' = Advanced(tx)
  BY DEF ReadLine, Advanced, Rest, LinesAt, PartAt, Now
<1>3. PICK n \in 0 .. Len(LinesAt(tx)) : ReaderAt(tx, n)
  BY <1>1 DEF TxOk, PartOk
<1> DEFINE u == Advanced(tx)
<1>4. /\ u \in Tx /\ SameLoad(u, tx) /\ u.tables = tx.tables /\ u.side = tx.side
      /\ PartOk(u)
      /\ (~tx.side /\ PartAt(tx) \in Guarded /\ Insertable(tx) => Insertable(u))
  BY <1>1, <1>3, LineTaken DEF TxOk
<1> HIDE DEF u
<1>5. PlaceOk(u) /\ DoneOk(u, committed)
  BY <1>1, <1>4, DoneKept DEF TxOk, SameTables
<1>6. GuardOk(u)
  BY <1>1, <1>4 DEF TxOk, GuardOk, InPart, PartAt, SameLoad
<1> QED BY <1>2, <1>4, <1>5, <1>6 DEF TxOk, u

LEMMA ReadLastRowStep == ASSUME IInv, ReadLastRow PROVE TxOk(tx', committed)
<1>1. TxOk(tx, committed) /\ InPart(tx) /\ tx.rest = <<>>
  BY IInvParts DEF ReadLastRow, Loading, InPart
<1> DEFINE u == Build(tx)
<1>2. /\ u \in Tx /\ SameLoad(u, tx) /\ u.tables = tx.tables /\ u.side = tx.side
      /\ PartOk(u)
      /\ (~tx.side /\ PartAt(tx) \in Guarded /\ Insertable(tx) => Insertable(u))
  BY <1>1, LastRowBuilt DEF TxOk
<1>3. tx' = u
  BY DEF ReadLastRow
<1> HIDE DEF u
<1>4. PlaceOk(u) /\ DoneOk(u, committed)
  BY <1>1, <1>2, DoneKept DEF TxOk, SameTables
<1>5. GuardOk(u)
  BY <1>1, <1>2 DEF TxOk, GuardOk, InPart, PartAt, SameLoad
<1> QED BY <1>2, <1>3, <1>4, <1>5 DEF TxOk

LEMMA InsertChunkStep == ASSUME IInv, InsertChunk PROVE TxOk(tx', committed)
<1>1. TxOk(tx, committed) /\ InPart(tx) /\ Len(tx.chunk) = ChunkSize
  BY IInvParts DEF InsertChunk, Loading, InPart
<1> DEFINE u == [tx EXCEPT !.chunk = <<>>, !.tables[PartAt(tx)] = @ \cup Range(tx.chunk)]
<1>2. u \in Tx /\ SameLoad(u, tx) /\ SameTables(u, tx) /\ u.chunk = <<>> /\ PartOk(u)
  BY <1>1, ChunkInserted DEF TxOk
<1>3. tx' = u
  BY DEF InsertChunk, Now, PartAt
<1> HIDE DEF u
<1>4. PlaceOk(u) /\ DoneOk(u, committed)
  BY <1>1, <1>2, DoneKept DEF TxOk
<1> QED BY <1>2, <1>3, <1>4, EmptyChunk DEF TxOk

LEMMA EndSideStep == ASSUME IInv, EndSide PROVE TxOk(tx', committed)
<1>1. /\ TxOk(tx, committed) /\ InPart(tx) /\ tx.rest = <<>> /\ tx.row = None
      /\ ~(tx.bad * Tolerance > tx.total) /\ tx.side
  BY IInvParts DEF EndSide, AtEnd, TooManyBad, Loading, InPart
<1> DEFINE u == Cleared(StoreCard(tx))
<1>2. u \in Tx /\ SameLoad(u, tx) /\ SameTables(u, tx) /\ u.chunk = <<>> /\ PartOk(u)
  BY <1>1, SideEnd DEF TxOk
<1>3. tx' = u
  BY DEF EndSide
<1> HIDE DEF u
<1>4. PlaceOk(u) /\ DoneOk(u, committed)
  BY <1>1, <1>2, DoneKept DEF TxOk
<1> QED BY <1>2, <1>3, <1>4, EmptyChunk DEF TxOk

LEMMA EndPartStep == ASSUME IInv, EndPart PROVE TxOk(tx', committed)
<1>1. /\ TxOk(tx, committed) /\ InPart(tx) /\ tx.rest = <<>> /\ tx.row = None
      /\ ~(tx.bad * Tolerance > tx.total) /\ ~tx.side
  BY IInvParts DEF EndPart, AtEnd, TooManyBad, Loading, InPart
<1> DEFINE u == Started([tx EXCEPT !.tables[PartAt(tx)] = @ \cup Range(tx.chunk)], tx.part + 1)
<1>2. u \in Tx /\ PlaceOk(u) /\ PartOk(u) /\ DoneOk(u, committed) /\ u.chunk = <<>>
  BY <1>1, PartLoaded DEF TxOk
<1>3. tx' = u
  BY DEF EndPart, Now, PartAt
<1> HIDE DEF u
<1> QED BY <1>2, <1>3, EmptyChunk DEF TxOk

\* The tables that a load commits are those of its file and of the other kinds' files.
LEMMA CommitStep == ASSUME IInv, Commit PROVE TablesOk' /\ OneSnapshot'
<1>1. TxOk(tx, committed) /\ TablesOk /\ OneSnapshot
  BY IInvParts
<1>2. /\ tx.open /\ tx.kind \in Kind /\ tx.file \in File[tx.kind]
      /\ tx.part = Len(Parts[tx.kind]) + 1
      /\ committed' = tx.tables /\ source' = [source EXCEPT ![tx.kind] = tx.file]
  BY <1>1 DEF Commit, TxOk, PlaceOk
<1>3. source'[tx.kind] = tx.file /\ \A k \in Kind \ {tx.kind} : source'[k] = source[k]
  BY <1>1, <1>2 DEF TablesOk
<1>4. TablesOk'
  <2>1. tx.tables \in [Part -> SUBSET TableRow]
    BY <1>1 DEF TxOk, Tx
  <2>2. \A k \in Kind : source'[k] \in File[k] \cup {NoFile(k)}
    BY <1>1, <1>2, <1>3 DEF TablesOk
  <2>3. source' \in [Kind -> UNION {File[k] \cup {NoFile(k)} : k \in Kind}]
    <3>1. tx.file \in UNION {File[k] \cup {NoFile(k)} : k \in Kind}
      BY <1>2
    <3> QED BY <1>1, <1>2, <3>1 DEF TablesOk
  <2> QED BY <1>2, <2>1, <2>2, <2>3 DEF TablesOk
<1>5. ASSUME NEW k \in Kind, NEW p \in PartsOf(k)
      PROVE  /\ tx.tables[p] = TableOf(source'[k], p)
             /\ Accepted(source'[k][p])
             /\ Side[p] # None => Accepted(source'[k][Side[p]])
  <2>1. CASE k = tx.kind
    <3>1. PICK i \in DOMAIN Parts[k] : p = Parts[k][i]
      BY DEF PartsOf, Range
    <3>2. i < tx.part
      BY <1>2, <2>1, PartsType
    <3>3. TableRight(tx.tables[p], tx.file, p)
      BY <1>1, <1>2, <2>1, <3>1, <3>2 DEF TxOk, DoneOk
    <3> QED BY <1>3, <2>1, <3>3 DEF TableRight
  <2>2. CASE k # tx.kind
    <3>1. tx.tables[p] = committed[p]
      BY <1>1, <1>2, <2>2 DEF TxOk, DoneOk
    <3> QED BY <1>1, <1>3, <2>2, <3>1 DEF OneSnapshot
  <2> QED BY <2>1, <2>2
<1>6. OneSnapshot'
  BY <1>2, <1>5 DEF OneSnapshot
<1> QED BY <1>4, <1>6

LEMMA StepInvariant == IInv /\ [Next]_vars => IInv'
<1> SUFFICES ASSUME IInv, [Next]_vars PROVE IInv'
  OBVIOUS
<1>1. TablesOk /\ OneSnapshot
  BY IInvParts
<1>2. ASSUME TxOk(tx', committed'), TablesOk', OneSnapshot' PROVE IInv'
  <2>1. GuardedPartsInsert'
    BY <1>2 DEF TxOk, GuardOk, GuardedPartsInsert, Loading, InPart, Now, PartAt
  <2>2. PlaceOk(tx)' /\ PartOk(tx)' /\ DoneOk(tx, committed)'
    BY <1>2 DEF TxOk
  <2> QED BY <1>2, <2>1, <2>2 DEF IInv, TypeOK, TxOk, TablesOk
<1>3. ASSUME UNCHANGED <<committed, source>>, TxOk(tx', committed) PROVE IInv'
  <2>1. TablesOk' /\ OneSnapshot'
    BY <1>1, <1>3 DEF TablesOk, OneSnapshot
  <2> QED BY <1>2, <1>3, <2>1
<1>4. CASE Begin
  BY <1>3, <1>4, BeginStep DEF Begin
<1>5. CASE ReadLine
  BY <1>3, <1>5, ReadLineStep DEF ReadLine
<1>6. CASE ReadLastRow
  BY <1>3, <1>6, ReadLastRowStep DEF ReadLastRow
<1>7. CASE InsertChunk
  BY <1>3, <1>7, InsertChunkStep DEF InsertChunk
<1>8. CASE EndSide
  BY <1>3, <1>8, EndSideStep DEF EndSide
<1>9. CASE EndPart
  BY <1>3, <1>9, EndPartStep DEF EndPart
<1>10. CASE Commit
  BY <1>2, <1>10, CommitStep, ClosedOk DEF Commit
<1>11. CASE Raise
  BY <1>3, <1>11, ClosedOk DEF Raise
<1>12. CASE UNCHANGED vars
  BY <1>3, <1>12, IInvParts DEF vars
<1> QED BY <1>4, <1>5, <1>6, <1>7, <1>8, <1>9, <1>10, <1>11, <1>12 DEF Next, Load

\* The reader of a part has handed on what its lines so far say, a part that is
\* done has the table of its file, and readers see one file of each kind.
THEOREM Invariance == Spec => []IInv
<1> QED BY InitInvariant, StepInvariant, PTL DEF Spec

\* "Snapshot tables are replaced wholesale": whatever files the county publishes,
\* the tables that readers see hold the rows of one file of each kind, each with
\* all its overflow text and all its joined lines, and no part of it had too many
\* bad rows, however it was cut into chunks and whichever loads failed.
THEOREM SnapshotsWhole == Spec => []OneSnapshot
<1>1. IInv => OneSnapshot
  BY DEF IInv
<1> QED BY <1>1, Invariance, PTL

\* "guard so one duplicate cannot abort the whole load": no repeated key ever keeps
\* a chunk of a guarded part from being inserted.
THEOREM GuardedInsert == Spec => []GuardedPartsInsert
<1>1. IInv => GuardedPartsInsert
  BY DEF IInv
<1> QED BY <1>1, Invariance, PTL
================================================================================
