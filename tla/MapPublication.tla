---------------------------- MODULE MapPublication ----------------------------
(***************************************************************************)
(* The map binary: rebuild_derived after its commit, write_map_binary and  *)
(* latest_map_binary of src/src/derived/mapbinary.py, and the endpoint of  *)
(* src/src/api/routers/map.py that serves the file.                        *)
(*                                                                         *)
(* The builder commits a version, reads the parcel summary back on another *)
(* connection, puts the file in place and deletes the files it replaces,   *)
(* while requests look up the newest file and open it later.  Files        *)
(* outlive the server, which may stop between any two of these steps, and  *)
(* even the database: one that is replaced counts its versions from 1      *)
(* again.  epoch numbers the databases; the code has no such number.       *)
(***************************************************************************)
EXTENDS DerivedBuild

CONSTANTS
    Client,         \* browsers, each with at most one copy of the map
    MaxEpoch        \* bound: databases

ASSUME MapAssumption == MaxEpoch \in Nat

VARIABLES
    epoch,      \* the database in use
    files,      \* the files parcels-v<version>.bin in DERIVED_DIR
    stale,      \* files the running publication has yet to delete
    request,    \* request[c]: the file a request of c resolved, not yet opened
    copy        \* copy[c]: the file c keeps, with its ETag

vars == <<buildVars, epoch, files, stale, request, copy>>

File == [version: Version, parcels: Stamp, epoch: 0 .. MaxEpoch]
NoFile == [version |-> -1, parcels |-> 0, epoch |-> 0]

Newest(f, dir) == f \in dir /\ \A g \in dir : g.version <= f.version

-----------------------------------------------------------------------------
(* The builder, after its commit.                                           *)

\* build_map_binary: the rows of the parcel summary, on a new connection.
EncodeMap ==
    /\ build.pc = "committed"
    /\ build' = [build EXCEPT !.pc = "encoded", !.parcels = db.parcels]
    /\ UNCHANGED <<sales, db, faults, epoch, files, stale, request, copy>>

\* Mutant: no older file is kept.
KeepNone(dir, version) == {f \in dir : f.version # version}

\* Mutant: files of a replaced database are left alone.
OlderOnly(dir, version) ==
    {f \in dir : f.version < version /\ ~Newest(f, {g \in dir : g.version < version})}

\* Mutant: the file just written counts as newer than itself.
StaleFromTarget(dir, version) ==
    {f \in dir : f.version < version /\ ~Newest(f, {g \in dir : g.version < version})}
    \cup {f \in dir : f.version >= version}

\* All but the newest of the older files, and every newer one.
StaleFiles(dir, version) ==
    {f \in dir : f.version < version /\ ~Newest(f, {g \in dir : g.version < version})}
    \cup {f \in dir : f.version > version}

\* The .part file is written whole and renamed over its target.
Placed(file) == {f \in files : f.version # file.version} \cup {file}

PlaceFile ==
    /\ build.pc = "encoded"
    /\ LET file == [version |-> db.version, parcels |-> build.parcels, epoch |-> epoch]
       IN /\ files' = Placed(file)
          /\ stale' = StaleFiles(files', file.version)
    /\ build' = [build EXCEPT !.pc = "pruning"]
    /\ UNCHANGED <<sales, db, faults, epoch, request, copy>>

\* unlink, oldest first; then the publication is over.
DeleteStale ==
    /\ build.pc = "pruning" /\ stale # {}
    /\ \E f \in stale :
          /\ \A g \in stale : f.version <= g.version
          /\ files' = files \ {f}
          /\ stale' = stale \ {f}
    /\ UNCHANGED <<buildVars, epoch, request, copy>>

EndPublication ==
    /\ build.pc = "pruning" /\ stale = {}
    /\ build' = Idle
    /\ UNCHANGED <<sales, db, faults, epoch, files, stale, request, copy>>

-----------------------------------------------------------------------------
(* The endpoint.                                                            *)

\* parcels_bin when the client's ETag is that of the newest file: it is told to
\* go on using its copy.
NotModified(c) ==
    /\ request[c] = NoFile
    /\ \E f \in files : Newest(f, files) /\ copy[c].version = f.version
    /\ UNCHANGED vars

\* Otherwise the file is sent later, from its path.  (503 while there is none.)
Resolve(c) ==
    /\ request[c] = NoFile
    /\ \E f \in files :
          /\ Newest(f, files)
          /\ copy[c].version # f.version
          /\ request' = [request EXCEPT ![c] = f]
    /\ UNCHANGED <<buildVars, epoch, files, stale, copy>>

\* FileResponse opens the path: the file that has the name by now, or an error
\* when none has.
Send(c) ==
    /\ request[c] # NoFile
    /\ \/ \E f \in files :
             /\ f.version = request[c].version
             /\ copy' = [copy EXCEPT ![c] = f]
       \/ /\ \A f \in files : f.version # request[c].version
          /\ UNCHANGED copy
    /\ request' = [request EXCEPT ![c] = NoFile]
    /\ UNCHANGED <<buildVars, epoch, files, stale>>

-----------------------------------------------------------------------------

\* The publication raises (a full disk, a lost connection): what it did stays.
FailPublication == FailBuild /\ stale' = {} /\ UNCHANGED <<epoch, files, request, copy>>

Stop ==
    /\ faults < MaxFaults /\ ~LastBuild
    /\ faults' = faults + 1
    /\ build' = Idle
    /\ stale' = {}
    /\ request' = [c \in Client |-> NoFile]

\* The server stops and starts again.
Restart ==
    /\ Stop
    /\ UNCHANGED <<sales, db, epoch, files, copy>>

\* It starts again on another database, which has other sales and nothing
\* derived from them.
RestartOnNewDatabase ==
    /\ Stop
    /\ epoch < MaxEpoch /\ sales < MaxSales
    /\ epoch' = epoch + 1
    /\ sales' = sales + 1
    /\ db' = [version |-> 0, parcels |-> 0, hoods |-> 0]
    /\ UNCHANGED <<files, copy>>

Init ==
    /\ BuildInit
    /\ epoch = 0
    /\ files = {}
    /\ stale = {}
    /\ request = [c \in Client |-> NoFile]
    /\ copy = [c \in Client |-> NoFile]

Publish == EncodeMap \/ PlaceFile \/ DeleteStale \/ EndPublication

Next ==
    \/ (Ingest \/ BuildParcelSummary \/ BuildNeighborhoodSummary \/ CommitBuild)
       /\ UNCHANGED <<epoch, files, stale, request, copy>>
    \/ Publish
    \/ FailPublication
    \/ Restart
    \/ RestartOnNewDatabase
    \/ \E c \in Client : Resolve(c) \/ NotModified(c) \/ Send(c)

Fairness ==
    /\ BuildFairness
    /\ WF_vars(Publish)

Spec == Init /\ [][Next]_vars /\ Fairness

-----------------------------------------------------------------------------

\* "A request that resolved the previous path just before this write may still
\* be opening it": its file is there until a second version is in place above
\* it, unless it was left by a database that was replaced.
ResolvedFileStays ==
    \A c \in Client :
        LET f == request[c]
        IN \/ f = NoFile
           \/ f.epoch # epoch
           \/ \E g \in files : g.version = f.version
           \/ Cardinality({g \in files : g.version > f.version}) >= 2

\* A version names one content, in files and in browsers: the ETag that turns a
\* request into a 304 never stands for two maps of one database, wherever the
\* server stopped between the commit, the write and the deletions.
Held == files \cup {copy[c] : c \in Client}

VersionNamesContent ==
    \A f, g \in Held :
        f.version = g.version /\ f.epoch = g.epoch => f.parcels = g.parcels

\* A publication that runs to its end leaves its own file the newest, also over
\* files of a replaced database, and at most one other.
PublicationPrevails ==
    [][EndPublication =>
          /\ \E f \in files : Newest(f, files) /\ f.version = db.version
                              /\ f.epoch = epoch /\ f.parcels = db.parcels
          /\ Cardinality(files) <= 2]_vars

\* Once ingests and faults stop, the file that is served reflects every ingest,
\* although any number of builds were cut off between commit and file.
MapCatchesUp ==
    <>[](\E f \in files : Newest(f, files) /\ f.parcels = sales)
================================================================================
