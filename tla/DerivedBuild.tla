----------------------------- MODULE DerivedBuild -----------------------------
(***************************************************************************)
(* rebuild_derived of src/src/derived/summary.py up to its commit: the     *)
(* derived tables and the data_version that names them.                    *)
(*                                                                         *)
(* Only how much of the ingested data a table reflects matters, so data is *)
(* counted: sales is the number of ingests committed so far, and a derived *)
(* table is the number its statement saw.  The whole build is one database *)
(* transaction, but its statements read what is committed when each runs   *)
(* (a command-line ingest may commit between two of them).  There is one   *)
(* builder, the population loop.  MapPublication and CachedReads extend    *)
(* this module with what is published and who reads it.                    *)
(***************************************************************************)
EXTENDS Integers, FiniteSets, Sequences

CONSTANTS
    MaxSales,       \* bound: ingests
    MaxVersion,     \* bound: committed builds
    MaxFaults       \* bound: failed builds and restarts

ASSUME BuildAssumption ==
    /\ MaxSales \in Nat
    /\ MaxVersion \in Nat \ {0}
    /\ MaxFaults \in Nat

VARIABLES
    sales,      \* ingests committed
    db,         \* the committed derived tables and their version
    build,      \* where the builder is, and what it has read
    faults      \* faults so far

buildVars == <<sales, db, build, faults>>

Stamp == 0 .. MaxSales
Version == 0 .. MaxVersion

Idle == [pc |-> "idle", parcels |-> 0, hoods |-> 0]

\* The last build of the bounded model runs undisturbed: no ingest and no
\* fault from its start.
LastBuild ==
    \/ db.version = MaxVersion
    \/ db.version = MaxVersion - 1 /\ build.pc # "idle"

\* Any ingest step, of the loop or of the command line, commits.
Ingest ==
    /\ sales < MaxSales /\ ~LastBuild
    /\ sales' = sales + 1
    /\ UNCHANGED <<db, build, faults>>

\* build_parcel_summary, in a new transaction.
BuildParcelSummary ==
    /\ build.pc = "idle"
    /\ db.version < MaxVersion
    /\ build' = [Idle EXCEPT !.pc = "parcels", !.parcels = sales]
    /\ UNCHANGED <<sales, db, faults>>

\* build_neighborhood_summary, from the transaction's own parcel summary and
\* the sales committed by now.
BuildNeighborhoodSummary ==
    /\ build.pc = "parcels"
    /\ build' = [build EXCEPT !.pc = "hoods", !.hoods = sales]
    /\ UNCHANGED <<sales, db, faults>>

\* Mutant: the version is not bumped.
UnchangedVersion == IF db.version = 0 THEN 1 ELSE db.version

NextVersion == db.version + 1

\* bump_data_version and the commit that publishes version and tables at once.
CommitBuild ==
    /\ build.pc = "hoods"
    /\ db' = [version |-> NextVersion, parcels |-> build.parcels, hoods |-> build.hoods]
    /\ build' = [build EXCEPT !.pc = "committed"]
    /\ UNCHANGED <<sales, faults>>

\* The step raises, and _run_step logs it: an open transaction is rolled back,
\* and what follows the commit is left undone.
FailBuild ==
    /\ build.pc # "idle"
    /\ faults < MaxFaults /\ ~LastBuild
    /\ faults' = faults + 1
    /\ build' = Idle
    /\ UNCHANGED <<sales, db>>

BuildInit ==
    /\ sales = 0
    /\ db = [version |-> 0, parcels |-> 0, hoods |-> 0]
    /\ build = Idle
    /\ faults = 0

BuildStep ==
    \/ Ingest
    \/ BuildParcelSummary
    \/ BuildNeighborhoodSummary
    \/ CommitBuild
    \/ FailBuild

\* The loop starts a build again and again, and a build that is not failed
\* goes on.
BuildFairness ==
    /\ WF_buildVars(BuildParcelSummary)
    /\ WF_buildVars(BuildNeighborhoodSummary)
    /\ WF_buildVars(CommitBuild)
===============================================================================
