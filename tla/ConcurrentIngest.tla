--------------------------- MODULE ConcurrentIngest ---------------------------
(***************************************************************************)
(* Two processes ingesting sales at once: the server's population loop and *)
(* a command of src/src/cli.py.  Each file is one transaction of           *)
(* src/src/db/ingestors.py, broken here into its statements.               *)
(*                                                                         *)
(* The database is what the code runs on.  On PostgreSQL (READ COMMITTED)  *)
(* a statement sees the rows committed when it runs and its transaction's  *)
(* own; one that meets a row another open transaction wrote waits for that *)
(* transaction, and of two that wait for each other one is aborted.  A     *)
(* statement that has to wait sees here what is committed when it goes on. *)
(* On SQLite one transaction writes at a time, and one that waits too long *)
(* for it is aborted.                                                      *)
(***************************************************************************)
EXTENDS SalesRows, FiniteSets

CONSTANTS
    Backend,        \* what the code may run on: "postgresql", "sqlite"
    Proc,           \* the server and a command
    YearlyFile,     \* names of the yearly CSV files
    WeeklyFile,     \* names of the weekly ZIP files
    Export,         \* Export[f]: the contents file f may be read with
    Works           \* the steps each process may set out on: the files of one kind,
                    \* in order

File == YearlyFile \cup WeeklyFile

SourceOf(f) == IF f \in YearlyFile THEN Yearly ELSE Weekly

Contents == UNION {Export[f] : f \in File}

ASSUME ConcurrentAssumption ==
    /\ Backend \subseteq {"postgresql", "sqlite"}
    /\ YearlyFile \cap WeeklyFile = {}
    /\ Contents \subseteq Seq({r \in Row : r.source = Weekly})
    /\ \A f \in WeeklyFile : Cardinality(Export[f]) = 1 /\ <<>> \notin Export[f]
    /\ Works \subseteq [Proc -> Seq(Seq(File) \ {<<>>})]

VARIABLES
    backend,    \* the database both processes use
    parcels,    \* committed rows of the parcel table
    sales,      \* committed rows of the transaction table
    records,    \* committed rows of the datafile table
    todo,       \* todo[p]: the steps p has yet to take, the first from the file it is at
    tx          \* tx[p]: the file p is at, and what its transaction wrote

vars == <<backend, parcels, sales, records, todo, tx>>

Record == [file: File, content: Contents, by: Proc]

\* left: the ids or rows the current statements have yet to write; add, drop:
\* rows written and rows deleted or replaced; newParcels, gone: parcels
\* inserted and DataFile rows deleted; wrote: the transaction has begun to write.
NoTx == [pc |-> "idle", content |-> <<>>, left |-> {}, wrote |-> FALSE,
         newParcels |-> {}, add |-> {}, drop |-> {}, gone |-> {}]

Current(p) == Head(Head(todo[p]))

\* The file p is at is dealt with.
Onward(steps) ==
    IF Len(Head(steps)) = 1 THEN Tail(steps) ELSE <<Tail(Head(steps))>> \o Tail(steps)

\* What a statement of p sees.
View(p) == (sales \ tx[p].drop) \cup tx[p].add

Replaced(t, old, new) ==
    [t EXCEPT !.drop = @ \cup (old \ t.add), !.add = (@ \ old) \cup new]

-----------------------------------------------------------------------------
(* What the statements of p write next.                                     *)

\* ON CONFLICT: the row that has the key of r.
Conflicting(p, r) == {t \in View(p) : SameKey(t, r)}

\* Mutant: every weekly row of the period is taken to be superseded.
OutdatedAll(p) ==
    {r \in View(p) : r.source = Weekly /\ InDateRange(r.date, tx[p].content)}

Outdated(p) ==
    {r \in View(p) : Superseded(r, View(p)) /\ InDateRange(r.date, tx[p].content)}

\* Mutant: only the file's own rows are filled.
UnfilledInPeriod(p) ==
    {r \in View(p) : /\ r.nbhd = NULL /\ r.source = Weekly
                     /\ InDateRange(r.date, tx[p].content)
                     /\ History(r.parcel, View(p)) # {}}

Unfilled(p) ==
    {r \in View(p) : r.nbhd = NULL /\ r.source = Weekly /\ History(r.parcel, View(p)) # {}}

Forgotten(p) == {d \in records : d.file = Current(p)}

NextRows(p) ==
    CASE tx[p].pc = "rows"  -> tx[p].left
      [] tx[p].pc = "prune" -> Outdated(p)
      [] tx[p].pc = "fill"  -> Unfilled(p)
      [] OTHER              -> {}

-----------------------------------------------------------------------------
(* Waiting for another transaction.                                         *)

Others(p) == Proc \ {p}

\* The transaction of q wrote r, or another row with its key.
Touches(q, r) == \E s \in tx[q].add \cup tx[q].drop : r = s \/ SameKey(r, s)

Free(p, rows) == \A q \in Others(p) : \A r \in rows : ~Touches(q, r)

MayWrite(p) == backend = "sqlite" => \A q \in Others(p) : ~tx[q].wrote

\* The transaction of q wrote something that p may write next.
Blocks(q, p) ==
    \/ tx[p].pc = "parcels" /\ tx[p].left \cap tx[q].newParcels # {}
    \/ \E r \in NextRows(p) : Touches(q, r)
    \/ tx[p].pc = "forget" /\ Forgotten(p) \cap tx[q].gone # {}

-----------------------------------------------------------------------------
(* The statements of one file, in their order.                              *)

\* Is the file in DataFile, a yearly one with the content it now has?
Recorded(p, content) ==
    \E d \in records : /\ d.file = Current(p)
                       /\ d.file \in YearlyFile => d.content = content

Skip(p) ==
    /\ tx[p].pc = "idle" /\ todo[p] # <<>>
    /\ \E content \in Export[Current(p)] : Recorded(p, content)
    /\ todo' = [todo EXCEPT ![p] = Onward(@)]
    /\ UNCHANGED <<parcels, sales, records, tx>>

Start(p) ==
    /\ tx[p].pc = "idle" /\ todo[p] # <<>>
    /\ \E content \in Export[Current(p)] :
          /\ ~Recorded(p, content)
          /\ tx' = [tx EXCEPT ![p].pc = "parcels", ![p].content = content,
                              ![p].left = ParcelsOf(content)]
    /\ UNCHANGED <<parcels, sales, records, todo>>

\* DO NOTHING when the parcel is there.
InsertParcel(p) ==
    /\ tx[p].pc = "parcels" /\ MayWrite(p)
    /\ \E id \in tx[p].left :
          /\ \A q \in Others(p) : id \notin tx[q].newParcels
          /\ tx' = [tx EXCEPT ![p].left = @ \ {id}, ![p].wrote = TRUE,
                              ![p].newParcels = @ \cup ({id} \ parcels)]
    /\ UNCHANGED <<parcels, sales, records, todo>>

ParcelsDone(p) ==
    /\ tx[p].pc = "parcels" /\ tx[p].left = {}
    /\ tx' = [tx EXCEPT ![p].pc = "rows",
                        ![p].left = Stored(Collapsed(tx[p].content), SourceOf(Current(p)))]
    /\ UNCHANGED <<parcels, sales, records, todo>>

\* A yearly row replaces the row that has its key, a weekly row yields to it.
UpsertRow(p) ==
    /\ tx[p].pc = "rows"
    /\ \E r \in tx[p].left :
          /\ Free(p, {r})
          /\ LET old == Conflicting(p, r)
                 written == IF old = {} \/ SourceOf(Current(p)) = Yearly
                            THEN Replaced(tx[p], old, {r}) ELSE tx[p]
             IN tx' = [tx EXCEPT ![p] = [written EXCEPT !.left = @ \ {r}]]
    /\ UNCHANGED <<parcels, sales, records, todo>>

\* A file without rows is only recorded.
RowsDone(p) ==
    /\ tx[p].pc = "rows" /\ tx[p].left = {}
    /\ tx' = [tx EXCEPT ![p].pc = IF tx[p].content = <<>> THEN "forget" ELSE "prune"]
    /\ UNCHANGED <<parcels, sales, records, todo>>

Prune(p) ==
    /\ tx[p].pc = "prune" /\ Free(p, Outdated(p))
    /\ tx' = [tx EXCEPT ![p] = [Replaced(tx[p], Outdated(p), {}) EXCEPT !.pc = "fill"]]
    /\ UNCHANGED <<parcels, sales, records, todo>>

Fill(p) ==
    /\ tx[p].pc = "fill" /\ Free(p, Unfilled(p))
    /\ \E pick \in Picks(View(p)) :
          tx' = [tx EXCEPT ![p] = [Replaced(tx[p], Unfilled(p),
                                            {Filled(r, View(p), pick) : r \in Unfilled(p)})
                                   EXCEPT !.pc = "forget"]]
    /\ UNCHANGED <<parcels, sales, records, todo>>

Forget(p) ==
    /\ tx[p].pc = "forget" /\ MayWrite(p)
    /\ \A q \in Others(p) : Forgotten(p) \cap tx[q].gone = {}
    /\ tx' = [tx EXCEPT ![p].pc = "commit", ![p].gone = Forgotten(p),
                        ![p].wrote = TRUE]
    /\ UNCHANGED <<parcels, sales, records, todo>>

\* The new DataFile row is flushed by the commit.
Commit(p) ==
    /\ tx[p].pc = "commit"
    /\ parcels' = parcels \cup tx[p].newParcels
    /\ sales' = View(p)
    /\ records' = (records \ tx[p].gone)
                  \cup {[file |-> Current(p), content |-> tx[p].content, by |-> p]}
    /\ tx' = [tx EXCEPT ![p] = NoTx]
    /\ todo' = [todo EXCEPT ![p] = Onward(@)]

\* Mutant: the failed session is left open.
LeftOpen(t) == [t EXCEPT !.pc = "idle"]

\* Leaving the session's async with block rolls back.
RolledBack(t) == NoTx

\* The database aborts a statement of p: one of two that wait for each other,
\* or one that has waited too long.  The exception ends the step, and with it
\* its other files.
Abort(p) ==
    /\ tx[p].pc # "idle"
    /\ \E q \in Others(p) :
          IF backend = "sqlite" THEN tx[q].wrote ELSE Blocks(q, p) /\ Blocks(p, q)
    /\ tx' = [tx EXCEPT ![p] = RolledBack(tx[p])]
    /\ todo' = [todo EXCEPT ![p] = Tail(@)]
    /\ UNCHANGED <<parcels, sales, records>>

Step(p) ==
    /\ \/ Skip(p) \/ Start(p)
       \/ InsertParcel(p) \/ ParcelsDone(p)
       \/ UpsertRow(p) \/ RowsDone(p)
       \/ Prune(p) \/ Fill(p) \/ Forget(p) \/ Commit(p)
       \/ Abort(p)
    /\ UNCHANGED backend

Finished == \A p \in Proc : todo[p] = <<>>

Init ==
    /\ backend \in Backend
    /\ parcels = {} /\ sales = {} /\ records = {}
    /\ todo \in Works
    /\ tx = [p \in Proc |-> NoTx]

Next ==
    \/ \E p \in Proc : Step(p)
    \/ Finished /\ UNCHANGED vars

\* Each process runs, and the database breaks a mutual wait.
Spec == Init /\ [][Next]_vars /\ \A p \in Proc : WF_vars(Step(p))

-----------------------------------------------------------------------------
(* Properties, of committed states.                                         *)

\* A sale of a recorded file is in the table, by its key or as the yearly row
\* of its conveyance: neither process prunes or yields to a row that the other
\* then takes away.
NoSaleLost ==
    \A d \in records : \A i \in DOMAIN d.content :
        \E t \in sales : \/ SameKey(d.content[i], t)
                         \/ t.source = Yearly /\ SameConveyance(d.content[i], t)

\* "A weekly row is deleted once a yearly row exists for the same conveyance":
\* no committed state has both.
SupersededWeeklyDeleted ==
    \A r \in sales : ~Superseded(r, sales)

\* "One DataFile row per file name, describing the latest ingested content."
OneRecordPerFile ==
    \A c, d \in records : c.file = d.file => c = d

\* A weekly row lacks a neighborhood only while its parcel's history does.
NeighborhoodsFilled ==
    \A r \in sales :
        r.source = Weekly /\ r.nbhd = NULL => History(r.parcel, sales) = {}

\* SQLite's writers exclude each other, and there the rules that were written
\* for one file after another hold for two processes too, although the check
\* for an ingested file comes before the write lock.
SqliteReconciles ==
    backend = "sqlite" =>
        SupersededWeeklyDeleted /\ OneRecordPerFile /\ NeighborhoodsFilled

\* Neither process waits forever for the other: both get through their files.
ProcessesFinish == <>Finished
===============================================================================
