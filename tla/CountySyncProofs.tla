--------------------------- MODULE CountySyncProofs ---------------------------
(***************************************************************************)
(* Theorems about CountySync for any datasets, days and minimum ages.  The *)
(* inductive invariant adds to the two properties what a sync under way    *)
(* has established about its file.                                         *)
(***************************************************************************)
EXTENDS CountySync, TLAPS, FiniteSetTheorems

\* The file being synced is published, newer than those recorded by at least
\* the minimum age, and no older than what the tables hold; at "record" the
\* tables hold it.
FileIsNext ==
    sync.step \in {"download", "ingest", "record"} =>
        LET d == Order[sync.at]
        IN /\ sync.file \in Listed(d) /\ held[d] <= sync.file
           /\ \A g \in done[d] : g < sync.file /\ sync.file - g >= MinAge[d]
           /\ sync.step = "record" => held[d] = sync.file

IInv == TypeOK /\ FileIsNext /\ RecordedIsHeld /\ RefreshesSpaced

-----------------------------------------------------------------------------
(* Dates.                                                                   *)

\* A nonempty set of dates has a last one.
LEMMA LastDate ==
    ASSUME NEW S, S \subseteq Day, S # {}
    PROVE  Max(S) \in S /\ \A f \in S : f <= Max(S)
<1> DEFINE F == {k .. LastDay : k \in S}
           R == StrictSubsetOrdering(Day)
<1>1. S \subseteq Int /\ LastDay \in Int
  BY SyncAssumption DEF Day
<1>2. F \subseteq FiniteSubsetsOf(Day) /\ F # {}
  <2>1. \A k \in S : IsFiniteSet(k .. LastDay)
    BY <1>1, FS_Interval
  <2>2. \A k \in S : k .. LastDay \subseteq Day
    BY <1>1 DEF Day
  <2> QED BY <2>1, <2>2 DEF FiniteSubsetsOf
<1>3. IsWellFoundedOn(R, FiniteSubsetsOf(Day))
  BY FS_StrictSubsetOrderingWellFounded
<1>4. PICK x \in F : \A y \in F : ~(<<y, x>> \in R)
  <2> HIDE DEF R, F
  <2> QED BY <1>2, <1>3, WFMin
<1>5. PICK m \in S : x = m .. LastDay
  OBVIOUS
<1>6. ASSUME NEW k \in S, ~(k <= m) PROVE FALSE
  <2>1. k .. LastDay \in F /\ k .. LastDay \subseteq m .. LastDay
    BY <1>1, <1>6
  <2>2. k .. LastDay # m .. LastDay
    <3>1. m \in m .. LastDay /\ m \notin k .. LastDay
      BY <1>1, <1>6 DEF Day
    <3> QED BY <3>1
  <2>3. <<k .. LastDay, x>> \in R
    BY <1>2, <1>5, <2>1, <2>2 DEF StrictSubsetOrdering, FiniteSubsetsOf
  <2> QED BY <1>4, <2>1, <2>3
<1>7. \E n \in S : \A k \in S : n >= k
  BY <1>1, <1>6
<1>8. Max(S) \in S /\ \A k \in S : Max(S) >= k
  BY <1>7 DEF Max
<1> QED BY <1>1, <1>8

\* A file that is chosen is published, newer than all that were recorded, and
\* by the minimum age.
LEMMA ChosenFile ==
    ASSUME TypeOK, NEW d \in Dataset, ~UpToDate(d)
    PROVE  /\ Newest(d) \in Listed(d)
           /\ \A f \in Listed(d) : f <= Newest(d)
           /\ \A g \in done[d] : g < Newest(d) /\ Newest(d) - g >= MinAge[d]
<1>1. Listed(d) # {} /\ Listed(d) \subseteq Day /\ Day \subseteq Int /\ MinAge[d] \in Nat
  BY SyncAssumption DEF UpToDate, Listed, Day
<1>2. Newest(d) \in Listed(d) /\ \A f \in Listed(d) : f <= Newest(d)
  BY <1>1, LastDate DEF Newest
<1>3. ASSUME NEW g \in done[d]
      PROVE  g < Newest(d) /\ Newest(d) - g >= MinAge[d]
  <2>1. done[d] \subseteq Listed(d) /\ Newest(d) \notin done[d]
    BY DEF TypeOK, UpToDate
  <2>2. g \in Int /\ Newest(d) \in Int /\ g < Newest(d)
    <3>1. g \in Listed(d) /\ g # Newest(d) /\ g <= Newest(d)
      BY <1>2, <2>1
    <3>2. g \in Int /\ Newest(d) \in Int
      BY <1>1, <1>2, <3>1
    <3> QED BY <3>1, <3>2
  <2>3. CASE MinAge[d] = 0
    BY <2>2, <2>3
  <2>4. CASE MinAge[d] # 0
    <3>1. Max(done[d]) \in done[d] /\ g <= Max(done[d])
      BY <1>1, <2>1, LastDate
    <3>2. ~(Newest(d) - Max(done[d]) < MinAge[d])
      BY <2>4 DEF UpToDate, TooSoon
    <3>3. Max(done[d]) \in Int
      BY <1>1, <2>1, <3>1
    <3> QED BY <1>1, <2>2, <3>1, <3>2, <3>3
  <2> QED BY <2>3, <2>4
<1> QED BY <1>2, <1>3

\* Only the calendar changes the day, and only a crash the count of crashes.
LEMMA DayAndCrashes ==
    ASSUME [Next]_vars
    PROVE  /\ UNCHANGED day \/ NextDay
           /\ UNCHANGED crashes \/ Crash
<1>1. ASSUME NEW d \in Dataset, SyncStep(d)
      PROVE  UNCHANGED <<day, crashes>>
  BY <1>1 DEF SyncStep, Skip, Choose, UseDownload, Fetched, SiteFails, Ingest, IngestRaises,
              Record, Unlink, EndSync
<1>2. CASE StartPass \/ UNCHANGED vars
  BY <1>2 DEF StartPass, vars
<1> QED BY <1>1, <1>2 DEF Next, NextDay, Crash

\* As days pass more files are listed, and none fewer.
LEMMA ListedGrows ==
    ASSUME TypeOK, [Next]_vars, NEW d \in Dataset
    PROVE  Listed(d) \subseteq Listed(d)'
<1>1. day' = day \/ (day \in Int /\ day' = day + 1)
  BY DayAndCrashes DEF TypeOK, Day, NextDay
<1>2. Published[d] \subseteq Int
  BY SyncAssumption DEF Day
<1> QED BY <1>1, <1>2 DEF Listed

-----------------------------------------------------------------------------
(* Where a pass is.                                                         *)

SyncType == [at: 0 .. Len(Order), step: Steps, file: Day \cup {Nothing}]

LEMMA PositionOfStep ==
    ASSUME TypeOK, NEW step \in Steps \ {"idle"}, NEW d \in Dataset, At(d, step)
    PROVE  /\ sync.at \in 1 .. Len(Order) /\ DOMAIN Order = 1 .. Len(Order)
           /\ Order[sync.at] = d /\ sync.step = step
BY SyncAssumption DEF TypeOK, At

LEMMA StartType ==
    ASSUME NEW i \in Nat
    PROVE  /\ Start(i) \in SyncType
           /\ Start(i).step \in {"idle", "list"}
           /\ Start(i).at = 0 <=> Start(i).step = "idle"
<1>1. DOMAIN Order = 1 .. Len(Order) /\ Len(Order) \in Nat
  BY SyncAssumption
<1> QED BY <1>1 DEF Start, Idle, SyncType, Steps, Nothing

\* Every step leaves a place in the pass that is one.
LEMMA SyncTypeStep ==
    ASSUME TypeOK, [Next]_vars
    PROVE  sync' \in SyncType /\ (sync'.at = 0 <=> sync'.step = "idle")
<1>1. sync \in SyncType /\ sync.at \in Nat /\ (sync.at = 0 <=> sync.step = "idle")
  BY SyncAssumption DEF TypeOK, SyncType
<1>2. CASE UNCHANGED sync
  BY <1>1, <1>2
<1>3. CASE sync' = Idle
  BY <1>3, StartType, SyncAssumption DEF Idle, SyncType, Steps
<1>4. CASE \E i \in Nat : sync' = Start(i)
  BY <1>4, StartType
<1>5. CASE \E step \in Steps \ {"idle"} : sync.step # "idle" /\ To(step)
  BY <1>1, <1>5 DEF To, SyncType
<1>6. ASSUME NEW d \in Dataset, Choose(d)
      PROVE  sync' \in SyncType /\ (sync'.at = 0 <=> sync'.step = "idle")
  <2>1. Newest(d) \in Day
    BY <1>6, ChosenFile, SyncAssumption DEF Choose, Listed
  <2> QED BY <1>1, <1>6, <2>1 DEF Choose, At, SyncType, Steps
<1>7. ASSUME NEW d \in Dataset, SyncStep(d), ~Choose(d)
      PROVE  \/ UNCHANGED sync
             \/ \E i \in Nat : sync' = Start(i)
             \/ \E step \in Steps \ {"idle"} : sync.step # "idle" /\ To(step)
  BY <1>1, <1>7 DEF SyncStep, Skip, UseDownload, Fetched, SiteFails, Ingest, IngestRaises, Record,
                    Unlink, EndSync, At, Leave, Steps
<1> QED BY <1>2, <1>3, <1>4, <1>5, <1>6, <1>7 DEF Next, vars, NextDay, StartPass, Crash

LEMMA TypeStep == ASSUME TypeOK, FileIsNext, [Next]_vars PROVE TypeOK'
<1>1. sync' \in SyncType /\ (sync'.at = 0 <=> sync'.step = "idle")
  BY SyncTypeStep
<1>2. day' \in Day /\ crashes' \in 0 .. MaxCrashes
  BY DayAndCrashes, SyncAssumption DEF TypeOK, Day, NextDay, Crash
<1>3. disk' \in [Dataset -> SUBSET Download]
  <2>1. ASSUME NEW d \in Dataset, NEW whole \in BOOLEAN, Fetched(d, whole)
        PROVE  disk' \in [Dataset -> SUBSET Download]
    <3>1. Order[sync.at] = d /\ sync.step = "download"
      BY <2>1 DEF Fetched, At
    <3>2. sync.file \in Day
      BY <3>1, SyncAssumption DEF FileIsNext, Listed
    <3>3. [file |-> sync.file, whole |-> whole] \in Download
      BY <3>2 DEF Download
    <3> QED BY <2>1, <3>3 DEF Fetched, TypeOK
  <2>2. ASSUME NEW d \in Dataset, Unlink(d)
        PROVE  disk' \in [Dataset -> SUBSET Download]
    BY <2>2 DEF Unlink, TypeOK
  <2>3. ASSUME UNCHANGED disk
        PROVE  disk' \in [Dataset -> SUBSET Download]
    BY <2>3 DEF TypeOK
  <2> QED BY <2>1, <2>2, <2>3 DEF Next, vars, NextDay, StartPass, Crash, SyncStep, Skip, Choose,
             UseDownload, SiteFails, Ingest, IngestRaises, Record, EndSync
<1>4. /\ done' \in [Dataset -> SUBSET Day] /\ held' \in [Dataset -> Day \cup {Nothing}]
      /\ \A d \in Dataset :
            done'[d] \subseteq Listed(d)' /\ held'[d] \in Listed(d)' \cup {Nothing}
  <2>0. \A d \in Dataset : Listed(d) \subseteq Listed(d)' /\ Listed(d) \subseteq Day
    BY ListedGrows, SyncAssumption DEF Listed
  <2>1. ASSUME NEW d \in Dataset, Ingest(d)
        PROVE  <1>4!:
    <3>1. sync.file \in Listed(d)
      BY <2>1 DEF Ingest, At, FileIsNext
    <3>2. held' = [held EXCEPT ![d] = sync.file] /\ done' = done
      BY <2>1 DEF Ingest
    <3> QED BY <2>0, <3>1, <3>2 DEF TypeOK
  <2>2. ASSUME NEW d \in Dataset, Record(d)
        PROVE  <1>4!:
    <3>1. sync.file \in Listed(d)
      BY <2>2 DEF Record, At, FileIsNext
    <3>2. done' = [done EXCEPT ![d] = @ \cup {sync.file}] /\ held' = held
      BY <2>2 DEF Record
    <3> QED BY <2>0, <3>1, <3>2 DEF TypeOK
  <2>3. ASSUME UNCHANGED <<done, held>>
        PROVE  <1>4!:
    BY <2>0, <2>3 DEF TypeOK
  <2> QED BY <2>1, <2>2, <2>3 DEF Next, vars, NextDay, StartPass, Crash, SyncStep, Skip, Choose,
             UseDownload, Fetched, SiteFails, IngestRaises, Unlink, EndSync
<1> QED BY <1>1, <1>2, <1>3, <1>4 DEF TypeOK, SyncType

-----------------------------------------------------------------------------
(* The invariant.                                                           *)

\* Outside the three steps in which it speaks of a file, and as long as
\* nothing it reads changes, FileIsNext stays.
LEMMA FileIsNextStep == ASSUME IInv, [Next]_vars PROVE FileIsNext'
<1> USE DEF IInv
<1> DEFINE Holds(d, step, file) ==
             /\ file \in Listed(d)' /\ held'[d] <= file
             /\ \A g \in done'[d] : g < file /\ file - g >= MinAge[d]
             /\ step = "record" => held'[d] = file
<1>0. \A d \in Dataset : Listed(d) \subseteq Listed(d)'
  BY ListedGrows
<1>1. CASE sync'.step \notin {"download", "ingest", "record"}
  BY <1>1 DEF FileIsNext
<1>2. CASE UNCHANGED <<done, held, sync>>
  <2>1. sync.step \in {"download", "ingest", "record"} => Order[sync.at] \in Dataset
    BY SyncAssumption DEF TypeOK
  <2> QED BY <1>0, <1>2, <2>1 DEF FileIsNext
<1>3. ASSUME NEW d \in Dataset, Choose(d)
      PROVE  FileIsNext'
  <2>1. /\ sync' = [sync EXCEPT !.step = "download", !.file = Newest(d)]
        /\ Order[sync.at] = d /\ UNCHANGED <<done, held>>
    BY <1>3 DEF Choose, At
  <2>2. sync'.at = sync.at /\ sync'.file = Newest(d) /\ sync'.step = "download"
    BY <2>1 DEF TypeOK
  <2>3. held[d] \in Listed(d) \cup {0} /\ Listed(d) \subseteq Day /\ Newest(d) \in Day
    BY <1>3, ChosenFile, SyncAssumption DEF Choose, TypeOK, Listed, Nothing
  <2>4. held[d] <= Newest(d)
    BY <1>3, <2>3, ChosenFile DEF Choose, Day
  <2> QED BY <1>0, <1>3, <2>1, <2>2, <2>4, ChosenFile DEF Choose, FileIsNext
<1>4. ASSUME NEW d \in Dataset, UseDownload(d) \/ \E whole \in BOOLEAN : Fetched(d, whole)
      PROVE  FileIsNext'
  <2>1. /\ sync' = [sync EXCEPT !.step = "ingest"] /\ sync.step = "download"
        /\ Order[sync.at] = d /\ UNCHANGED <<done, held>>
    BY <1>4 DEF UseDownload, Fetched, At, To
  <2>2. sync'.at = sync.at /\ sync'.file = sync.file /\ sync'.step = "ingest"
    BY <2>1 DEF TypeOK
  <2> QED BY <1>0, <2>1, <2>2 DEF FileIsNext
<1>5. ASSUME NEW d \in Dataset, Ingest(d)
      PROVE  FileIsNext'
  <2>1. /\ sync' = [sync EXCEPT !.step = "record"] /\ sync.step = "ingest"
        /\ Order[sync.at] = d /\ held' = [held EXCEPT ![d] = sync.file] /\ UNCHANGED done
    BY <1>5 DEF Ingest, At, To
  <2>2. sync'.at = sync.at /\ sync'.file = sync.file /\ sync'.step = "record"
    BY <2>1 DEF TypeOK
  <2>3. held'[d] = sync.file
    BY <2>1 DEF TypeOK
  <2>4. sync.file \in Int
    BY <2>1, SyncAssumption DEF FileIsNext, Listed, Day
  <2> QED BY <1>0, <2>1, <2>2, <2>3, <2>4 DEF FileIsNext
<1>6. ASSUME NEW d \in Dataset, SyncStep(d), ~Choose(d), ~UseDownload(d),
             ~\E whole \in BOOLEAN : Fetched(d, whole), ~Ingest(d)
      PROVE  \/ sync'.step \in {"idle", "list", "unlink"}
             \/ UNCHANGED <<done, held, sync>>
  <2>1. sync.at + 1 \in Nat
    BY SyncAssumption DEF TypeOK
  <2>2. CASE Leave
    BY <2>1, <2>2, StartType DEF Leave
  <2>3. CASE Record(d)
    BY <2>3 DEF Record, To, TypeOK
  <2>4. CASE Unlink(d)
    BY <2>4 DEF Unlink
  <2> QED BY <1>6, <2>2, <2>3, <2>4 DEF SyncStep, Skip, SiteFails, IngestRaises, EndSync
<1>7. CASE NextDay \/ UNCHANGED vars
  BY <1>2, <1>7 DEF NextDay, vars
<1>8. CASE StartPass
  BY <1>1, <1>8, StartType DEF StartPass
<1>9. CASE Crash
  BY <1>1, <1>9 DEF Crash, Idle
<1> QED BY <1>1, <1>2, <1>3, <1>4, <1>5, <1>6, <1>7, <1>8, <1>9 DEF Next

\* What a step does to the tables and to the record.
LEMMA DoneAndHeld ==
    ASSUME TypeOK, [Next]_vars
    PROVE  \/ UNCHANGED <<done, held>>
           \/ \E d \in Dataset :
                 /\ sync.step = "ingest" /\ Order[sync.at] = d
                 /\ held' = [held EXCEPT ![d] = sync.file] /\ UNCHANGED done
           \/ \E d \in Dataset :
                 /\ sync.step = "record" /\ Order[sync.at] = d
                 /\ done' = [done EXCEPT ![d] = @ \cup {sync.file}] /\ UNCHANGED held
<1>1. ASSUME NEW d \in Dataset, SyncStep(d), ~Ingest(d), ~Record(d)
      PROVE  UNCHANGED <<done, held>>
  BY <1>1 DEF SyncStep, Skip, Choose, UseDownload, Fetched, SiteFails, IngestRaises, Unlink, EndSync
<1>2. CASE NextDay \/ StartPass \/ Crash \/ UNCHANGED vars
  BY <1>2 DEF NextDay, StartPass, Crash, vars
<1> QED BY <1>1, <1>2 DEF Next, Ingest, Record, At

LEMMA RecordedStep == ASSUME IInv, [Next]_vars PROVE RecordedIsHeld'
<1> USE DEF IInv
<1>1. CASE UNCHANGED <<done, held>>
  BY <1>1 DEF RecordedIsHeld
<1>2. ASSUME NEW d \in Dataset, sync.step = "ingest", Order[sync.at] = d,
             held' = [held EXCEPT ![d] = sync.file], UNCHANGED done
      PROVE  RecordedIsHeld'
  <2>1. held'[d] = sync.file /\ \A e \in Dataset \ {d} : held'[e] = held[e]
    BY <1>2 DEF TypeOK
  <2>2. sync.file \in Int /\ done[d] \subseteq Int
    <3>1. sync.file \in Day
      BY <1>2, SyncAssumption DEF FileIsNext, Listed
    <3>2. done[d] \subseteq Day
      BY DEF TypeOK
    <3> QED BY <3>1, <3>2 DEF Day
  <2>3. \A g \in done[d] : g <= sync.file
    BY <1>2, <2>2 DEF FileIsNext
  <2> QED BY <1>2, <2>1, <2>3 DEF RecordedIsHeld
<1>3. ASSUME NEW d \in Dataset, sync.step = "record", Order[sync.at] = d,
             done' = [done EXCEPT ![d] = @ \cup {sync.file}], UNCHANGED held
      PROVE  RecordedIsHeld'
  <2>1. done'[d] = done[d] \cup {sync.file} /\ \A e \in Dataset \ {d} : done'[e] = done[e]
    BY <1>3 DEF TypeOK
  <2>2. sync.file <= held[d]
    BY <1>3, SyncAssumption DEF FileIsNext, Listed, Day
  <2> QED BY <1>3, <2>1, <2>2 DEF RecordedIsHeld
<1> QED BY <1>1, <1>2, <1>3, DoneAndHeld

LEMMA SpacedStep == ASSUME IInv, [Next]_vars PROVE RefreshesSpaced'
<1> USE DEF IInv
<1>1. CASE UNCHANGED done
  BY <1>1 DEF RefreshesSpaced
<1>2. ASSUME NEW d \in Dataset, sync.step = "record", Order[sync.at] = d,
             done' = [done EXCEPT ![d] = @ \cup {sync.file}]
      PROVE  RefreshesSpaced'
  <2>1. done'[d] = done[d] \cup {sync.file} /\ \A e \in Dataset \ {d} : done'[e] = done[e]
    BY <1>2 DEF TypeOK
  <2>2. sync.file \in Int /\ done[d] \subseteq Int
    <3>1. sync.file \in Day
      BY <1>2, SyncAssumption DEF FileIsNext, Listed
    <3>2. done[d] \subseteq Day
      BY DEF TypeOK
    <3> QED BY <3>1, <3>2 DEF Day
  <2>3. \A g \in done[d] : g < sync.file /\ sync.file - g >= MinAge[d]
    BY <1>2 DEF FileIsNext
  <2>4. \A f, g \in done'[d] : f < g => g - f >= MinAge[d]
    BY <2>1, <2>2, <2>3 DEF RefreshesSpaced
  <2> QED BY <2>1, <2>4 DEF RefreshesSpaced
<1> QED BY <1>1, <1>2, DoneAndHeld

LEMMA InitInvariant == Init => IInv
<1> SUFFICES ASSUME Init PROVE IInv
  OBVIOUS
<1>1. TypeOK
  BY SyncAssumption DEF Init, TypeOK, Day, Idle, Steps, Nothing
<1>2. FileIsNext /\ RecordedIsHeld /\ RefreshesSpaced
  BY DEF Init, FileIsNext, RecordedIsHeld, RefreshesSpaced, Idle
<1> QED BY <1>1, <1>2 DEF IInv

\* Whatever the county publishes, the site answers and an ingest meets, and
\* wherever the server stops: a recorded file is held, or a newer one is, and
\* recorded files are the minimum age apart.
THEOREM Invariance == Spec => []IInv
<1>1. IInv /\ [Next]_vars => IInv'
  BY TypeStep, FileIsNextStep, RecordedStep, SpacedStep DEF IInv
<1> QED BY InitInvariant, <1>1, PTL DEF Spec

\* A failed ingest is not recorded: the record never runs ahead of the tables.
THEOREM RecordsHeld == Spec => []RecordedIsHeld
<1>1. IInv => RecordedIsHeld
  BY DEF IInv
<1> QED BY Invariance, <1>1, PTL

\* min_age_days keeps the refreshes of a dataset apart, through every crash.
THEOREM RefreshesApart == Spec => []RefreshesSpaced
<1>1. IInv => RefreshesSpaced
  BY DEF IInv
<1> QED BY Invariance, <1>1, PTL

\* The tables never go back to an older file: neither a rejected newer one, nor
\* a crash between an ingest and its record, lets one be loaded again.
THEOREM NeverOlder == Spec => [][\A d \in Dataset : held'[d] >= held[d]]_vars
<1>1. ASSUME IInv, [Next]_vars
      PROVE  [\A d \in Dataset : held'[d] >= held[d]]_vars
  <2>1. \A d \in Dataset : held[d] \in Int
    BY <1>1 DEF IInv, TypeOK, Day, Nothing
  <2>2. ASSUME NEW d \in Dataset, sync.step = "ingest", Order[sync.at] = d,
               held' = [held EXCEPT ![d] = sync.file], NEW e \in Dataset
        PROVE  held'[e] >= held[e]
    <3>1. sync.file \in Int /\ held[d] <= sync.file
      BY <1>1, <2>2, SyncAssumption DEF IInv, FileIsNext, Listed, Day
    <3> QED BY <1>1, <2>1, <2>2, <3>1 DEF IInv, TypeOK
  <2>3. CASE UNCHANGED held
    BY <2>1, <2>3
  <2> QED BY <1>1, <2>2, <2>3, DoneAndHeld DEF IInv
<1> QED BY Invariance, <1>1, PTL DEF Spec
===============================================================================
