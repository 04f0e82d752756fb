----------------------------- MODULE SchemaRepair -----------------------------
(***************************************************************************)
(* The startup repair of src/src/db/maintenance.py: a database that older  *)
(* code wrote, in which one sale may have several rows, is brought under   *)
(* the present keys, and the sales files are then ingested into it again.  *)
(* The server may stop between any two statements, or when it serves, and  *)
(* start again.                                                            *)
(*                                                                         *)
(* On PostgreSQL the repair is one transaction.  On SQLite the driver      *)
(* opens the transaction at the first statement that writes rows, so the   *)
(* columns added before it stay although the repair did not finish.  Both  *)
(* are allowed here.                                                       *)
(***************************************************************************)
EXTENDS SalesReconciliation

CONSTANTS
    Legacy,         \* the old databases: their sales, the oldest row first, and
                    \* the content of the weekly ZIPs they have in DataFile
    MaxCrashes      \* bound: times the server stops

VARIABLES
    old,            \* the rows of the old table, in the order of their ids
    schema,         \* columns and unique indexes of the transaction table
    saved,          \* what a crash brings back: the sales and the schema
    step,           \* the next statement of the repair, "down" or "serving"
    crashes

repairVars == <<old, schema, saved, step, crashes>>

Columns == {"source", "content_hash"}
Keys == {"uq_transaction_conveyance", "uq_transaction_legacy"}
Retired == "uq_transaction_natural"

\* The rows an old table may hold: its own key told apart buyers and prices.
SameNatural(r, s) ==
    /\ r.parcel = s.parcel /\ r.date = s.date /\ r.price = s.price
    /\ r.seller = s.seller /\ r.buyer = s.buyer /\ r.conv = s.conv

ASSUME RepairAssumption ==
    /\ \A t \in Legacy :
          /\ t.rows \in Seq({r \in Row : r.source = Weekly})
          /\ \A i, j \in DOMAIN t.rows : SameNatural(t.rows[i], t.rows[j]) => i = j
          /\ \A f \in WeeklyFile : t.zips[f] \in WeeklyContent[f] \cup {NotIngested}
    /\ MaxCrashes \in Nat

-----------------------------------------------------------------------------
(* The statements, each of which looks before it acts.                      *)

\* Mutant: the rows are deduplicated when the columns are new.
MissingWithColumns == IF Columns \subseteq saved.schema THEN {} ELSE Keys

Missing == Keys \ schema

Older(r, s) ==
    \E i, j \in DOMAIN old : i < j /\ old[i] = r /\ old[j] = s

\* Mutant: the key of a conveyance is taken to have no seller.
OldestOfConveyance(rows) ==
    {r \in rows : \A k \in rows :
        (SameConveyance(k, r) \/ (SameLegacy(k, r) /\ k.seller = r.seller)) => ~Older(k, r)}

\* The oldest row of each key is kept.
Oldest(rows) == {r \in rows : \A k \in rows : SameKey(k, r) => ~Older(k, r)}

WithoutRetired(columnsAndKeys) == columnsAndKeys \ {Retired}

StartRepair ==
    /\ step = "down"
    /\ step' = "columns"
    /\ UNCHANGED <<sales, schema, saved>>

AddColumn(c) ==
    /\ step = "columns" /\ c \notin schema
    /\ schema' = schema \cup {c}
    /\ saved' \in {saved, [saved EXCEPT !.schema = schema']}
    /\ UNCHANGED <<sales, step>>

\* Yearly files without a hash are forgotten; on SQLite the transaction begins.
ForgetYearly ==
    /\ step = "columns" /\ Columns \subseteq schema
    /\ step' = "dedupe"
    /\ UNCHANGED <<sales, schema, saved>>

Dedupe ==
    /\ step = "dedupe"
    /\ sales' = IF Missing # {} THEN Oldest(sales) ELSE sales
    /\ step' = "keys"
    /\ UNCHANGED <<schema, saved>>

Violates(k, rows) ==
    \E r, s \in rows : r # s /\ SameKey(r, s) /\ (r.conv = NULL <=> k = "uq_transaction_legacy")

\* Creating a unique index raises where two rows have one key.
CreateKey(k) ==
    /\ step = "keys" /\ k \notin schema /\ ~Violates(k, sales)
    /\ schema' = schema \cup {k}
    /\ UNCHANGED <<sales, saved, step>>

CommitRepair ==
    /\ step = "keys" /\ Keys \subseteq schema
    /\ schema' = WithoutRetired(schema)
    /\ saved' = [sales |-> sales, schema |-> schema']
    /\ step' = "serving"
    /\ UNCHANGED sales

\* The server stops, or the repair raises, which stops the server.
Crash ==
    /\ step # "down" /\ crashes < MaxCrashes
    /\ sales' = saved.sales /\ schema' = saved.schema
    /\ step' = "down" /\ crashes' = crashes + 1
    /\ UNCHANGED <<saved, old, parcels, dataFile>>

Repair ==
    /\ \/ StartRepair \/ ForgetYearly \/ Dedupe \/ CommitRepair
       \/ \E c \in Columns : AddColumn(c)
       \/ \E k \in Keys : CreateKey(k)
    /\ UNCHANGED <<old, crashes, parcels, dataFile>>

\* The population loop starts once the repair is done; it commits each file.
Serve ==
    /\ step = "serving"
    /\ Next
    /\ saved' = [saved EXCEPT !.sales = sales']
    /\ UNCHANGED <<old, schema, step, crashes>>

\* The old table has no source column: its rows will get the default.  Yearly
\* files were recorded by their path, which is no record of their name.
RepairInit ==
    /\ \E t \in Legacy :
          /\ old = t.rows
          /\ dataFile = [f \in File |-> IF f \in WeeklyFile THEN t.zips[f] ELSE NotIngested]
    /\ sales = {old[i] : i \in DOMAIN old}
    /\ parcels = {r.parcel : r \in sales}
    /\ schema = {Retired}
    /\ saved = [sales |-> sales, schema |-> schema]
    /\ step = "down" /\ crashes = 0

RepairNext == Repair \/ Crash \/ Serve

RepairSpec == RepairInit /\ [][RepairNext]_<<vars, repairVars>>

-----------------------------------------------------------------------------
(* Properties.                                                              *)

\* "Safe to run on any database": whatever duplicates the old code left, and
\* wherever earlier repairs stopped, the unique indexes can be built, and no
\* file ingested afterwards breaks one.
KeysCanBeCreated ==
    step \in {"keys", "serving"} => \A k \in Keys : ~Violates(k, sales)

\* Deduplication loses no sale: each row of the old table has a row with its
\* key, or the yearly row of its conveyance, as long as the server serves.
OldSalesKept == \A i \in DOMAIN old : Represented(old[i])
===============================================================================
