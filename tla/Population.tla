------------------------------ MODULE Population ------------------------------
(***************************************************************************)
(* The population loop of src/src/services/populate.py: what a pass does,  *)
(* in which order, what a failure of one part leaves undone, and what the  *)
(* next pass makes up for.  The sales steps are modelled in full, with the *)
(* downloads of src/src/services/data_retrieval.py and the file loops of   *)
(* src/src/db/ingestors.py; the county datasets and the geocoder only as   *)
(* steps that end well or fail.                                            *)
(*                                                                         *)
(* A yearly file is told by its revision, the number of times the county   *)
(* has exported it.  Years are numbered from the first one on the site.    *)
(***************************************************************************)
EXTENDS Integers, Sequences, FiniteSets

CONSTANTS
    FirstYear, LastYear,    \* the calendar years the model runs through
    MaxRevision,            \* bound: exports of one year
    Index,                  \* the weekly ZIPs, in the order of the index page
    Archive,                \* those that are on it from the start
    Kind,                   \* Kind[z]: "good", "unreadable", "empty" or "ragged"
    RaggedExport,           \* <<year, revision>> of exports with a ragged line
    MaxRestarts             \* bound: restarts of the server

Year == 1 .. LastYear
Zip == {Index[i] : i \in DOMAIN Index}

ASSUME PopulationAssumption ==
    /\ FirstYear \in Nat \ {0} /\ LastYear \in Nat /\ FirstYear <= LastYear
    /\ MaxRevision \in Nat \ {0}
    /\ Archive \subseteq Zip
    /\ Kind \in [Zip -> {"good", "unreadable", "empty", "ragged"}]
    /\ RaggedExport \subseteq Year \X (1 .. MaxRevision)
    /\ MaxRestarts \in Nat

VARIABLES
    year,       \* the current calendar year
    exports,    \* exports[y]: revision of y on the county's site, 0 for none
    published,  \* weekly ZIPs on the index page
    disk,       \* disk[y]: revision of y in DATA_DIR, 0 for none
    ingested,   \* ingested[y]: revision of y in the database, 0 for none
    done,       \* weekly ZIPs in DataFile
    derived,    \* what the derived tables were last built from
    pass,       \* where the pass is, and what its step has yet to do
    restarts

county == <<year, exports, published>>
store == <<disk, ingested, done, derived>>
vars == <<county, store, pass, restarts>>

-----------------------------------------------------------------------------
(* The county and the calendar.                                             *)

\* The file of a year is exported again until the next year is over.
Export(y) ==
    /\ y \in {year, year - 1} /\ exports[y] < MaxRevision
    /\ exports' = [exports EXCEPT ![y] = @ + 1]
    /\ UNCHANGED <<year, published, store, pass, restarts>>

PublishZip(z) ==
    /\ z \notin published
    /\ published' = published \cup {z}
    /\ UNCHANGED <<year, exports, store, pass, restarts>>

\* Assumed of the deployment: a year does not end before the final export of
\* the year before it has been fetched.
NewYear ==
    /\ year < LastYear
    /\ year > 1 => exports[year - 1] = MaxRevision /\ disk[year - 1] = MaxRevision
    /\ year' = year + 1
    /\ UNCHANGED <<exports, published, store, pass, restarts>>

-----------------------------------------------------------------------------
(* The pass.                                                                *)

Steps == <<"yearly", "weekly", "cama", "neighborhood_names", "taxroll", "geocode", "derived">>

\* fetch: the year the yearly download is at; files: years whose file is yet
\* to be ingested; queue: downloaded ZIPs yet to be ingested.
Begin(step) == [step |-> step, phase |-> "start", fetch |-> 0, files |-> {}, queue |-> <<>>]

Sleeping == Begin("sleep")

After(step) ==
    IF step = "derived" THEN Sleeping
    ELSE Begin(Steps[1 + CHOOSE n \in DOMAIN Steps : Steps[n] = step])

In(step, phase) == pass.step = step /\ pass.phase = phase

\* _run_step logs a failure, and the pass goes on with the next step.
AfterFailure(step) == After(step)

\* The step raises: it leaves undone what it had yet to do.
Raise == pass' = AfterFailure(pass.step) /\ UNCHANGED <<county, store, restarts>>

StartPass ==
    /\ pass = Sleeping
    /\ pass' = Begin("yearly")
    /\ UNCHANGED <<county, store, restarts>>

(* The yearly step. *)

StartFetch ==
    /\ In("yearly", "start")
    /\ pass' = [pass EXCEPT !.phase = "fetch", !.fetch = year]
    /\ UNCHANGED <<county, store, restarts>>

\* Mutant: only the current year's file is fetched again.
WantedIfCurrent(y) == disk[y] = 0 \/ y >= year

\* Not on disk, or of the current or the previous year.
Wanted(y) == disk[y] = 0 \/ y >= year - 1

Fetching(y) == In("yearly", "fetch") /\ pass.fetch = y

Fetched(y) ==
    /\ Fetching(y) /\ Wanted(y) /\ exports[y] > 0
    /\ disk' = [disk EXCEPT ![y] = exports[y]]
    /\ pass' = [pass EXCEPT !.fetch = y - 1]
    /\ UNCHANGED <<county, ingested, done, derived, restarts>>

\* The year is on disk, has no file yet, or any HTTP error is returned for it.
NotFetched(y) ==
    /\ Fetching(y)
    /\ pass' = [pass EXCEPT !.fetch = y - 1]
    /\ UNCHANGED <<county, store, restarts>>

\* No answer, or one that is not a ZIP.
FetchRaises(y) == Fetching(y) /\ Wanted(y) /\ Raise

\* glob lists what is on disk; the files are taken in any order.
ListFiles ==
    /\ Fetching(0)
    /\ pass' = [pass EXCEPT !.phase = "files", !.files = {y \in Year : disk[y] > 0}]
    /\ UNCHANGED <<county, store, restarts>>

RaggedFile(y) == <<y, disk[y]>> \in RaggedExport

\* A file whose content is in the database is passed over.
IngestFile(y) ==
    /\ In("yearly", "files") /\ y \in pass.files
    /\ ingested[y] = disk[y] \/ ~RaggedFile(y)
    /\ ingested' = [ingested EXCEPT ![y] = disk[y]]
    /\ pass' = [pass EXCEPT !.files = @ \ {y}]
    /\ UNCHANGED <<county, disk, done, derived, restarts>>

FileRaises(y) ==
    /\ In("yearly", "files") /\ y \in pass.files
    /\ ingested[y] # disk[y] /\ RaggedFile(y)
    /\ Raise

EndYearly ==
    /\ In("yearly", "files") /\ pass.files = {}
    /\ pass' = After("yearly")
    /\ UNCHANGED <<county, store, restarts>>

(* The weekly step. *)

New(z) == z \in published /\ z \notin done

\* Downloads that fail are dropped, the others keep the order of the page.
Download(got) ==
    /\ In("weekly", "start")
    /\ got \subseteq {z \in Zip : New(z)}
    /\ pass' = [pass EXCEPT !.phase = "queue",
                            !.queue = SelectSeq(Index, LAMBDA z : z \in got)]
    /\ UNCHANGED <<county, store, restarts>>

\* The index page cannot be read.
IndexRaises == In("weekly", "start") /\ Raise

HasZip(kinds) == In("weekly", "queue") /\ pass.queue # <<>> /\ Kind[Head(pass.queue)] \in kinds

IngestZip ==
    /\ HasZip({"good"})
    /\ done' = done \cup {Head(pass.queue)}
    /\ pass' = [pass EXCEPT !.queue = Tail(@)]
    /\ UNCHANGED <<county, disk, ingested, derived, restarts>>

\* One that cannot be read, or has no row, is left unrecorded.
PassOverZip ==
    /\ HasZip({"unreadable", "empty"})
    /\ pass' = [pass EXCEPT !.queue = Tail(@)]
    /\ UNCHANGED <<county, store, restarts>>

ZipRaises == HasZip({"ragged"}) /\ Raise

EndWeekly ==
    /\ In("weekly", "queue") /\ pass.queue = <<>>
    /\ pass' = After("weekly")
    /\ UNCHANGED <<county, store, restarts>>

(* The other steps. *)

\* COUNTY_INGEST or GEOCODE off, the step done, or failed.
OtherStep ==
    /\ pass.step \in {"cama", "neighborhood_names", "taxroll", "geocode"}
    /\ pass' = After(pass.step)
    /\ UNCHANGED <<county, store, restarts>>

Derive ==
    /\ In("derived", "start")
    /\ derived' = [years |-> ingested, zips |-> done]
    /\ pass' = Sleeping
    /\ UNCHANGED <<county, disk, ingested, done, restarts>>

DeriveRaises == In("derived", "start") /\ Raise

\* The server stops, cancelling the loop, and starts a pass when it is back.
Restart ==
    /\ restarts < MaxRestarts
    /\ restarts' = restarts + 1
    /\ pass' = Begin("yearly")
    /\ UNCHANGED <<county, store>>

Init ==
    /\ year = FirstYear
    /\ exports = [y \in Year |-> IF y < FirstYear - 1 THEN MaxRevision ELSE 0]
    /\ published = Archive
    /\ disk = [y \in Year |-> 0]
    /\ ingested = [y \in Year |-> 0]
    /\ done = {}
    /\ derived = [years |-> ingested, zips |-> done]
    /\ pass = Begin("yearly")
    /\ restarts = 0

CountyStep ==
    \/ \E y \in Year : Export(y)
    \/ \E z \in Zip : PublishZip(z)
    \/ NewYear

YearlyStep ==
    \/ StartFetch \/ ListFiles \/ EndYearly
    \/ \E y \in Year : \/ Fetched(y) \/ NotFetched(y) \/ FetchRaises(y)
                       \/ IngestFile(y) \/ FileRaises(y)

WeeklyStep ==
    \/ \E got \in SUBSET Zip : Download(got)
    \/ IndexRaises \/ IngestZip \/ PassOverZip \/ ZipRaises \/ EndWeekly

Loop == StartPass \/ YearlyStep \/ WeeklyStep \/ OtherStep \/ Derive \/ DeriveRaises

Next == CountyStep \/ Loop \/ Restart

\* The loop runs on; the county publishes what it has to and the years pass;
\* and what is tried again and again (a download, the derived step) succeeds
\* again and again.
Fairness ==
    /\ WF_vars(CountyStep)
    /\ WF_vars(Loop)
    /\ \A y \in Year : SF_vars(Fetched(y))
    /\ \A z \in Zip : SF_vars(\E got \in SUBSET Zip : z \in got /\ Download(got))
    /\ SF_vars(Derive)

Spec == Init /\ [][Next]_vars /\ Fairness

-----------------------------------------------------------------------------

\* The last export of every year ends up in the derived tables, also of the
\* years that were last downloaded while they were still current.
YearlyServed ==
    \A y \in Year : <>[](derived.years[y] = MaxRevision)

\* z has been downloaded, and no ZIP that raises lies ahead of it.
Clear(z) ==
    \E i \in DOMAIN pass.queue :
        pass.queue[i] = z /\ \A j \in 1 .. i - 1 : Kind[pass.queue[j]] # "ragged"

\* "Download all new weekly sales ZIPs and insert their records into the DB":
\* a ZIP that has rows and can be read is ingested and derived from.  Only a
\* ragged one ahead of it on the index page can keep it back, by raising out of the
\* queue in every pass; once that one fails to be downloaded, it gets its turn.
WeeklyServed ==
    \A z \in Zip : Kind[z] = "good" =>
        \/ <>(z \in derived.zips)
        \/ /\ \E i, j \in DOMAIN Index : i < j /\ Index[j] = z /\ Kind[Index[i]] = "ragged"
           /\ <>[] ~Clear(z)

\* "One broken step must not starve the others": whatever fails, in the steps of a
\* pass or between two of them, the derived tables end up with every year's last
\* export and with every ZIP that is not kept back within its own step.
ExportsServed == YearlyServed /\ WeeklyServed
================================================================================
