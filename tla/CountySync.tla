------------------------------ MODULE CountySync ------------------------------
(***************************************************************************)
(* src/src/services/county_sync.py: keeping the newest file of each county *)
(* dataset downloaded and ingested, through failures and restarts between  *)
(* any two steps.  A file is told by its date, which its name carries; the *)
(* ingest of one file is a single transaction of src/src/ingest/.          *)
(***************************************************************************)
EXTENDS Integers, Sequences, FiniteSetsExt

CONSTANTS
    Order,          \* the datasets, in the order a pass syncs them
    LastDay,        \* bound: days the model runs through
    Published,      \* Published[d]: the dates of the files of d
    MinAge,         \* MinAge[d]: min_age_days of d's sync
    Rejected,       \* <<d, f>>: files with too many rows that do not parse
    Disturbed,      \* <<d, f>>: files for which the site may answer an error page
    MaxCrashes      \* bound: restarts of the server

Dataset == {Order[i] : i \in DOMAIN Order}
Day == 1 .. LastDay

ASSUME SyncAssumption ==
    /\ LastDay \in Nat \ {0} /\ MaxCrashes \in Nat
    /\ Order \in Seq(Dataset)
    /\ Published \in [Dataset -> SUBSET Day]
    /\ MinAge \in [Dataset -> Nat]
    /\ Rejected \cup Disturbed \subseteq Dataset \X Day

Nothing == 0

VARIABLES
    day,        \* today
    disk,       \* disk[d]: downloads of d, and whether each is the file itself
    done,       \* done[d]: dates of d's files in DataFile
    held,       \* held[d]: date of the file the tables of d were loaded from
    sync,       \* the sync under way: its place in Order, its step and its file
    crashes

vars == <<day, disk, done, held, sync, crashes>>

Download == [file: Day, whole: BOOLEAN]

Steps == {"idle", "list", "download", "ingest", "record", "unlink"}

Idle == [at |-> 0, step |-> "idle", file |-> Nothing]

Start(i) == IF i \in DOMAIN Order THEN [at |-> i, step |-> "list", file |-> Nothing] ELSE Idle

At(d, step) == sync.step = step /\ Order[sync.at] = d

To(step) == sync' = [sync EXCEPT !.step = step]

\* The sync of a dataset returns or raises: the pass goes on with the next.
Leave == sync' = Start(sync.at + 1)

-----------------------------------------------------------------------------
Listed(d) == {f \in Published[d] : f <= day}

Newest(d) == Max(Listed(d))

\* Mutant: one day less is enough.
TooSoonByOne(d) ==
    MinAge[d] # 0 /\ done[d] # {} /\ Newest(d) - Max(done[d]) < MinAge[d] - 1

TooSoon(d) == MinAge[d] # 0 /\ done[d] # {} /\ Newest(d) - Max(done[d]) < MinAge[d]

\* Mutant: a dataset that has been ingested is up to date.
UpToDateOnceDone(d) == Listed(d) = {} \/ done[d] # {}

UpToDate(d) == Listed(d) = {} \/ Newest(d) \in done[d] \/ TooSoon(d)

NextDay ==
    /\ day < LastDay
    /\ day' = day + 1
    /\ UNCHANGED <<disk, done, held, sync, crashes>>

StartPass ==
    /\ sync = Idle
    /\ sync' = Start(1)
    /\ UNCHANGED <<day, disk, done, held, crashes>>

Skip(d) ==
    /\ At(d, "list") /\ UpToDate(d)
    /\ Leave
    /\ UNCHANGED <<day, disk, done, held, crashes>>

Choose(d) ==
    /\ At(d, "list") /\ ~UpToDate(d)
    /\ sync' = [sync EXCEPT !.step = "download", !.file = Newest(d)]
    /\ UNCHANGED <<day, disk, done, held, crashes>>

OnDisk(d, f) == \E x \in disk[d] : x.file = f

\* A file that is on disk is not fetched again.
UseDownload(d) ==
    /\ At(d, "download") /\ OnDisk(d, sync.file)
    /\ To("ingest")
    /\ UNCHANGED <<day, disk, done, held, crashes>>

Fetched(d, whole) ==
    /\ At(d, "download") /\ ~OnDisk(d, sync.file)
    /\ whole \/ <<d, sync.file>> \in Disturbed
    /\ disk' = [disk EXCEPT ![d] = @ \cup {[file |-> sync.file, whole |-> whole]}]
    /\ To("ingest")
    /\ UNCHANGED <<day, done, held, crashes>>

\* The index or the file cannot be had; a partial download is removed.
SiteFails(d) ==
    /\ At(d, "list") \/ (At(d, "download") /\ ~OnDisk(d, sync.file))
    /\ Leave
    /\ UNCHANGED <<day, disk, done, held, crashes>>

Loadable(d) ==
    [file |-> sync.file, whole |-> TRUE] \in disk[d] /\ <<d, sync.file>> \notin Rejected

Ingest(d) ==
    /\ At(d, "ingest") /\ Loadable(d)
    /\ held' = [held EXCEPT ![d] = sync.file]
    /\ To("record")
    /\ UNCHANGED <<day, disk, done, crashes>>

\* Mutant: a failed ingest is logged, and the file recorded.
RecordsAnyway(d) ==
    /\ At(d, "ingest") /\ ~Loadable(d)
    /\ To("record")
    /\ UNCHANGED <<day, disk, done, held, crashes>>

\* The transaction is rolled back.
IngestRaises(d) ==
    /\ At(d, "ingest")
    /\ Leave
    /\ UNCHANGED <<day, disk, done, held, crashes>>

Record(d) ==
    /\ At(d, "record")
    /\ done' = [done EXCEPT ![d] = @ \cup {sync.file}]
    /\ To("unlink")
    /\ UNCHANGED <<day, disk, held, crashes>>

Unlink(d) ==
    /\ At(d, "unlink")
    /\ \E old \in disk[d] :
          /\ old.file # sync.file
          /\ disk' = [disk EXCEPT ![d] = @ \ {old}]
    /\ UNCHANGED <<day, done, held, sync, crashes>>

EndSync(d) ==
    /\ At(d, "unlink") /\ \A x \in disk[d] : x.file = sync.file
    /\ Leave
    /\ UNCHANGED <<day, disk, done, held, crashes>>

\* The server stops, wherever it is, and begins a pass when it is back.
Crash ==
    /\ crashes < MaxCrashes
    /\ crashes' = crashes + 1
    /\ sync' = Idle
    /\ UNCHANGED <<day, disk, done, held>>

Init ==
    /\ day = 1
    /\ disk = [d \in Dataset |-> {}]
    /\ done = [d \in Dataset |-> {}]
    /\ held = [d \in Dataset |-> Nothing]
    /\ sync = Idle
    /\ crashes = 0

SyncStep(d) ==
    \/ Skip(d) \/ Choose(d)
    \/ UseDownload(d) \/ (\E whole \in BOOLEAN : Fetched(d, whole)) \/ SiteFails(d)
    \/ Ingest(d) \/ IngestRaises(d) \/ Record(d) \/ Unlink(d) \/ EndSync(d)

Next == NextDay \/ StartPass \/ Crash \/ \E d \in Dataset : SyncStep(d)

\* Days pass and passes run; a request, and an ingest that can succeed, does
\* so when it is tried again and again.
Fairness ==
    /\ WF_vars(NextDay) /\ WF_vars(StartPass)
    /\ \A d \in Dataset :
          /\ WF_vars(SyncStep(d))
          /\ SF_vars(Choose(d)) /\ SF_vars(Fetched(d, TRUE)) /\ SF_vars(Ingest(d))

Spec == Init /\ [][Next]_vars /\ Fairness

-----------------------------------------------------------------------------
(* Properties.                                                              *)

\* What is recorded or held has been published.
TypeOK ==
    /\ day \in Day /\ crashes \in 0 .. MaxCrashes
    /\ disk \in [Dataset -> SUBSET Download]
    /\ done \in [Dataset -> SUBSET Day] /\ held \in [Dataset -> Day \cup {Nothing}]
    /\ \A d \in Dataset :
          done[d] \subseteq Listed(d) /\ held[d] \in Listed(d) \cup {Nothing}
    /\ sync \in [at: 0 .. Len(Order), step: Steps, file: Day \cup {Nothing}]
    /\ sync.at = 0 <=> sync.step = "idle"

\* A file is recorded only once the tables hold it or a newer one, wherever
\* the server stops between the ingest, the record and the clean-up.
RecordedIsHeld ==
    \A d \in Dataset : \A f \in done[d] : f <= held[d]

\* "A weekly refresh is plenty": two recorded files of a dataset are at least
\* its minimum age apart, although a crash may repeat an ingest on a later day.
RefreshesSpaced ==
    \A d \in Dataset : \A f, g \in done[d] : f < g => g - f >= MinAge[d]

\* The database fills itself: the tables end up with a file that is newer than
\* the last one less the minimum age.
HeldCatchesUp ==
    \A d \in Dataset :
        <>[](held[d] > Nothing /\ held[d] + Max({1, MinAge[d]}) > Max(Published[d]))
===============================================================================
