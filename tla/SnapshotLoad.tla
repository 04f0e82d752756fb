----------------------------- MODULE SnapshotLoad -----------------------------
(***************************************************************************)
(* How a county file replaces what an earlier one left in the tables:      *)
(* src/src/ingest/bulk.py and the loads built on it.  A CAMA file has many *)
(* parts, each loaded into a table of its own, a tax roll has one.  The    *)
(* rows of a part are parsed in a worker thread a chunk at a time, each    *)
(* chunk is inserted on the open transaction, and only at the end of the   *)
(* part does the reader look at its count of bad rows.  The parts of a     *)
(* file are loaded in one transaction, one after the other.                *)
(*                                                                         *)
(* A part is a sequence of lines.  A row begins with a line that is its    *)
(* key here, or Bad when a value of the row does not parse, and takes in   *)
(* the lines of overflow text after it (More).  It is complete only when   *)
(* the next row begins.  The rows of some parts are joined to those of     *)
(* another, which is read whole before: a dwelling's with the lines of its *)
(* sketch.  (The values of the reappraisal join in the same way, summed.)  *)
(***************************************************************************)
EXTENDS Integers, SequencesExt, FiniteSetsExt

CONSTANTS
    Kind,           \* the kinds of files: CAMA exports, tax rolls
    Parts,          \* Parts[k]: the parts with a table, in the order they are loaded
    Side,           \* Side[p]: the part that is joined to the rows of p, or None
    Key,            \* primary keys of rows
    File,           \* File[k]: the files of a kind the county may publish
    Bad, More, None,
    Guarded,        \* parts whose load skips a repeated key: the tax roll
    ChunkSize,
    Tolerance       \* one bad row in so many is accepted: 100 in the code

PartsOf(k) == Range(Parts[k])
Part == UNION {PartsOf(k) : k \in Kind}
SidesOf(k) == {Side[p] : p \in PartsOf(k)} \ {None}
Line == Key \cup {Bad, More}

ASSUME LoadAssumption ==
    /\ Bad # More /\ {Bad, More, None} \cap Key = {}
    /\ None \notin [key: Key \cup {Bad}, at: Nat, more: Nat]
    /\ Guarded \subseteq Part /\ DOMAIN Side = Part
    /\ \A k \in Kind : /\ Parts[k] \in Seq(PartsOf(k)) /\ IsInjective(Parts[k])
                       /\ File[k] \subseteq [PartsOf(k) \cup SidesOf(k) -> Seq(Line)]
    /\ \A k, l \in Kind : k # l => PartsOf(k) \cap PartsOf(l) = {}
    /\ ChunkSize \in Nat \ {0} /\ Tolerance \in Nat \ {0}

NoFile(k) == [p \in PartsOf(k) \cup SidesOf(k) |-> <<>>]
Empty == [p \in Part |-> {}]
NoCards == [k \in Key |-> {}]
NoGroup == [key |-> None, lines |-> {}]

VARIABLES
    committed,  \* the tables as readers see them
    source,     \* source[k]: the file of kind k they were loaded from; at first,
                \* one without lines
    tx          \* the load under way

vars == <<committed, source, tx>>

\* part: the position in the file's parts; side: whether the part joined to it is
\* being read; rest: lines the reader has not reached; row: the one it has begun;
\* total, bad: rows so far; group: the sketch lines of the card being read; cards:
\* those of the cards before it; chunk: rows parsed and not yet inserted.
Closed == [open |-> FALSE, kind |-> "none", file |-> <<>>, tables |-> Empty, part |-> 1,
           side |-> FALSE, rest |-> <<>>, row |-> None, total |-> 0, bad |-> 0,
           group |-> NoGroup, cards |-> NoCards, chunk |-> <<>>]

Now == Parts[tx.kind][tx.part]

Keys(rows) == {row.key : row \in rows}

-----------------------------------------------------------------------------
(* The reader of a part.                                                    *)

Reading(t, p, side) ==
    [t EXCEPT !.side = side, !.rest = t.file[p], !.row = None, !.total = 0, !.bad = 0,
              !.chunk = <<>>]

\* Mutant: a card's lines take the place of those it had.
StoreCardAnew(t) ==
    [t EXCEPT !.cards = [k \in Key |-> IF k = t.group.key THEN t.group.lines ELSE @[k]]]

\* The lines of a card may be split across the file.
StoreCard(t) ==
    [t EXCEPT !.cards = [k \in Key |-> IF k = t.group.key THEN @[k] \cup t.group.lines
                                       ELSE @[k]]]

Grouped(t, row) ==
    IF row.key = t.group.key THEN [t EXCEPT !.group.lines = @ \cup {row.at}]
    ELSE [StoreCard(t) EXCEPT !.group = [key |-> row.key, lines |-> {row.at}]]

\* Mutant: only the keys of the current chunk are remembered.
SeenInChunk(t, k) == k \in Keys(Range(t.chunk))

Seen(t, k) == k \in Keys(Range(t.chunk) \cup t.tables[Parts[t.kind][t.part]])

Chunked(t, row) ==
    IF Parts[t.kind][t.part] \in Guarded /\ Seen(t, row.key) THEN t
    ELSE [t EXCEPT !.chunk = Append(@, [key |-> row.key, more |-> row.more,
                                        lines |-> t.cards[row.key]])]

\* The row that was begun is complete: it is counted and handed on.
Build(t) ==
    LET built == [t EXCEPT !.row = None, !.total = @ + 1]
    IN IF t.row = None THEN t
       ELSE IF t.row.key = Bad THEN [built EXCEPT !.bad = @ + 1]
       ELSE IF t.side THEN Grouped(built, t.row) ELSE Chunked(built, t.row)

-----------------------------------------------------------------------------
(* The load.                                                                *)

\* A part starts with its table empty and its reader at the first line.
Cleared(t) ==
    LET p == Parts[t.kind][t.part]
    IN [Reading(t, p, FALSE) EXCEPT !.tables[p] = {}]

Started(t, i) ==
    LET next == [t EXCEPT !.part = i, !.chunk = <<>>, !.group = NoGroup, !.cards = NoCards]
    IN IF i \notin DOMAIN Parts[t.kind] THEN next
       ELSE IF Side[Parts[t.kind][i]] = None THEN Cleared(next)
       ELSE Reading(next, Side[Parts[t.kind][i]], TRUE)

Begin ==
    /\ ~tx.open
    /\ \E k \in Kind : \E f \in File[k] :
          tx' = Started([Closed EXCEPT !.open = TRUE, !.kind = k, !.file = f,
                                       !.tables = committed], 1)
    /\ UNCHANGED <<committed, source>>

Loading == tx.open /\ tx.part \in DOMAIN Parts[tx.kind]

\* The worker thread advances the reader until it has a full chunk.
ReadLine ==
    /\ Loading /\ tx.rest # <<>> /\ Len(tx.chunk) < ChunkSize
    /\ LET line == Head(tx.rest)
           at == Len(tx.file[IF tx.side THEN Side[Now] ELSE Now]) - Len(tx.rest) + 1
           next == [tx EXCEPT !.rest = Tail(@)]
       IN tx' = IF line # More
                THEN [Build(next) EXCEPT !.row = [key |-> line, at |-> at, more |-> 0]]
                ELSE IF tx.row = None THEN next ELSE [next EXCEPT !.row.more = @ + 1]
    /\ UNCHANGED <<committed, source>>

ReadLastRow ==
    /\ Loading /\ tx.rest = <<>> /\ tx.row # None /\ Len(tx.chunk) < ChunkSize
    /\ tx' = Build(tx)
    /\ UNCHANGED <<committed, source>>

\* The chunk's rows have keys of their own.
Insertable(t) ==
    /\ \A i, j \in DOMAIN t.chunk : t.chunk[i].key = t.chunk[j].key => i = j
    /\ Keys(Range(t.chunk)) \cap Keys(t.tables[Parts[t.kind][t.part]]) = {}

InsertChunk ==
    /\ Loading /\ Len(tx.chunk) = ChunkSize /\ Insertable(tx)
    /\ tx' = [tx EXCEPT !.chunk = <<>>, !.tables[Now] = @ \cup Range(tx.chunk)]
    /\ UNCHANGED <<committed, source>>

TooManyBad == tx.bad * Tolerance > tx.total

AtEnd == Loading /\ tx.rest = <<>> /\ tx.row = None /\ Len(tx.chunk) < ChunkSize

EndSide ==
    /\ AtEnd /\ tx.side /\ ~TooManyBad
    /\ tx' = Cleared(StoreCard(tx))
    /\ UNCHANGED <<committed, source>>

EndPart ==
    /\ AtEnd /\ ~tx.side /\ ~TooManyBad /\ Insertable(tx)
    /\ tx' = Started([tx EXCEPT !.tables[Now] = @ \cup Range(tx.chunk)], tx.part + 1)
    /\ UNCHANGED <<committed, source>>

\* Too many bad rows, two rows with one key, or a connection that is lost: the
\* exception leaves the transaction's block, which rolls back.
Raise == tx.open /\ tx' = Closed /\ UNCHANGED <<committed, source>>

Commit ==
    /\ tx.open /\ tx.part = Len(Parts[tx.kind]) + 1
    /\ committed' = tx.tables /\ source' = [source EXCEPT ![tx.kind] = tx.file]
    /\ tx' = Closed

Init == committed = Empty /\ source = [k \in Kind |-> NoFile(k)] /\ tx = Closed

Load == ReadLine \/ ReadLastRow \/ InsertChunk \/ EndSide \/ EndPart \/ Commit

Next == Begin \/ Load \/ Raise

Spec == Init /\ [][Next]_vars

-----------------------------------------------------------------------------
(* Properties.                                                              *)

\* The lines of overflow text of the row that begins at line i.
Overflow(lines, i) ==
    {j \in DOMAIN lines : j > i /\ \A m \in i + 1 .. j : lines[m] = More}

At(lines, k) == {i \in DOMAIN lines : lines[i] = k}

\* The table a part of a file stands for.
TableOf(f, p) ==
    {[key |-> f[p][i], more |-> Cardinality(Overflow(f[p], i)),
      lines |-> IF Side[p] = None THEN {} ELSE At(f[Side[p]], f[p][i])] :
        i \in {j \in DOMAIN f[p] : /\ f[p][j] \in Key
                                   /\ p \in Guarded => j = Min(At(f[p], f[p][j]))}}

Accepted(lines) ==
    Cardinality(At(lines, Bad)) * Tolerance
        <= Cardinality({i \in DOMAIN lines : lines[i] # More})

\* "Snapshot tables are replaced wholesale": readers see one file of each kind.
\* Every table holds the rows of its part that parse, with all text and all lines
\* that belong to them, however the part was cut into chunks and wherever the
\* lines stood, and no row of another file; and no part of that file, also none
\* that is only joined, had too many bad rows.
OneSnapshot ==
    \A k \in Kind : \A p \in PartsOf(k) :
        /\ committed[p] = TableOf(source[k], p)
        /\ Accepted(source[k][p])
        /\ Side[p] # None => Accepted(source[k][Side[p]])

\* "guard so one duplicate cannot abort the whole load": in a guarded part no
\* repeated key, in one chunk or over several, keeps a chunk from being inserted.
GuardedPartsInsert == Loading /\ ~tx.side /\ Now \in Guarded => Insertable(tx)
===============================================================================
