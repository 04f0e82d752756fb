-------------------------- MODULE DerivedReadsProofs --------------------------
(***************************************************************************)
(* Theorems about the two ways in which the derived tables are read, the   *)
(* cached answers of CachedReads and the map files of MapPublication, for  *)
(* any number of requests, browsers, versions, faults and replaced         *)
(* databases and any size of the cache.                                    *)
(*                                                                         *)
(* A version names one content of the derived tables; the code keeps no    *)
(* record of which, so the invariant of the cache says it of the requests  *)
(* and entries that carry the same version.  That of the map says where    *)
(* the files of the present database stand to its version, and which of    *)
(* them a publication keeps.                                               *)
(***************************************************************************)
EXTENDS CachedReads, MapPublication, TLAPS, FiniteSetTheorems, SequenceTheorems, WellFoundedInduction

-----------------------------------------------------------------------------
(* Cached answers.                                                          *)

Request == [pc: {"idle", "versioned", "computing", "computed", "answered"},
            version: Version, answer: Answer, asked: Answer]

BuildType ==
    /\ sales \in Stamp /\ faults \in 0 .. MaxFaults
    /\ db \in [version: Version, parcels: Stamp, hoods: Stamp]
    /\ build \in [pc: {"idle", "parcels", "hoods", "committed"}, parcels: Stamp, hoods: Stamp]
    /\ build.pc \in {"parcels", "hoods"} => db.version < MaxVersion

CacheTypeOK ==
    /\ BuildType
    /\ cache \in Seq(Entry) /\ Len(cache) <= MaxSize
    /\ serving \in [Reader -> Request]

\* A build never takes the tables back.
BuildAdvances ==
    /\ db.hoods <= sales
    /\ build.pc = "hoods" => db.hoods <= build.hoods /\ build.hoods <= sales

Started == {r \in Reader : serving[r].pc # "idle"}

\* Requests that read one version asked for one content; if it is the present
\* version, for the present content.
RequestsAgree ==
    \A r \in Started :
        /\ serving[r].version <= db.version /\ serving[r].asked.derived <= db.hoods
        /\ serving[r].version = db.version => serving[r].asked.derived = db.hoods
        /\ \A s \in Started : serving[s].version = serving[r].version =>
              serving[s].asked.derived = serving[r].asked.derived

\* An answer is no older than what the request asked for.
AnswersFresh ==
    \A r \in Started : serving[r].pc \in {"computed", "answered"} =>
        serving[r].answer.derived >= serving[r].asked.derived

\* Nor is an entry, for any request that may find it, now or later.
Fresh(e) ==
    /\ e.version <= db.version
    /\ e.version = db.version => e.answer.derived >= db.hoods
    /\ \A r \in Started : serving[r].version = e.version =>
          e.answer.derived >= serving[r].asked.derived

EntriesFresh == \A i \in 1 .. Len(cache) : Fresh(cache[i])

CacheIInv == CacheTypeOK /\ BuildAdvances /\ RequestsAgree /\ AnswersFresh /\ EntriesFresh

-----------------------------------------------------------------------------
(* The cache as a sequence.                                                 *)

LEMMA UsedEntries ==
    ASSUME cache \in Seq(Entry), NEW i \in 1 .. Len(cache)
    PROVE  /\ Used(i) \in Seq(Entry) /\ Len(Used(i)) = Len(cache)
           /\ \A j \in 1 .. Len(Used(i)) : \E k \in 1 .. Len(cache) : Used(i)[j] = cache[k]
<1> DEFINE before == SubSeq(cache, 1, i - 1)
           after == SubSeq(cache, i + 1, Len(cache))
<1>1. /\ Len(cache) \in Nat /\ cache[i] \in Entry
      /\ \A j \in 1 .. Len(cache) : cache[j] \in Entry
  BY LenProperties, ElementOfSeq
<1>2. /\ before \in Seq(Entry) /\ Len(before) = i - 1
      /\ \A j \in 1 .. i - 1 : before[j] = cache[j]
  BY <1>1, SubSeqProperties
<1>3. /\ after \in Seq(Entry) /\ Len(after) = Len(cache) - i
      /\ \A j \in 1 .. Len(cache) - i : after[j] = cache[i + j]
  BY <1>1, SubSeqProperties
<1> HIDE DEF before, after
<1> DEFINE rest == before \o after
<1>4. /\ rest \in Seq(Entry) /\ Len(rest) = Len(cache) - 1
      /\ \A j \in 1 .. Len(cache) - 1 :
            rest[j] = IF j <= i - 1 THEN before[j] ELSE after[j - (i - 1)]
  <2>1. Len(before) + Len(after) = Len(cache) - 1
    BY <1>1, <1>2, <1>3
  <2>2. /\ rest \in Seq(Entry) /\ Len(rest) = Len(before) + Len(after)
        /\ \A j \in 1 .. Len(before) + Len(after) :
              rest[j] = IF j <= Len(before) THEN before[j] ELSE after[j - Len(before)]
    BY <1>2, <1>3, ConcatProperties
  <2> HIDE DEF rest
  <2> QED BY <1>2, <2>1, <2>2
<1>5. Used(i) = Append(rest, cache[i])
  BY DEF Used, RemoveAt, rest, before, after
<1> HIDE DEF rest
<1>6. \A j \in 1 .. Len(cache) - 1 : \E k \in 1 .. Len(cache) : rest[j] = cache[k]
  <2> SUFFICES ASSUME NEW j \in 1 .. Len(cache) - 1
               PROVE  \E k \in 1 .. Len(cache) : rest[j] = cache[k]
    OBVIOUS
  <2>1. CASE j <= i - 1
    BY <1>1, <1>2, <1>4, <2>1
  <2>2. CASE j > i - 1
    <3>1. j - (i - 1) \in 1 .. Len(cache) - i /\ i + (j - (i - 1)) = j + 1
      BY <1>1, <2>2
    <3>2. rest[j] = cache[j + 1] /\ j + 1 \in 1 .. Len(cache)
      BY <1>1, <1>3, <1>4, <2>2, <3>1
    <3> QED BY <3>2
  <2> QED BY <1>1, <2>1, <2>2
<1> QED BY <1>1, <1>4, <1>5, <1>6

LEMMA EvictedEntries ==
    ASSUME NEW entries \in Seq(Entry), Len(entries) <= MaxSize + 1
    PROVE  /\ Evicted(entries) \in Seq(Entry) /\ Len(Evicted(entries)) <= MaxSize
           /\ \A j \in 1 .. Len(Evicted(entries)) :
                 \E k \in 1 .. Len(entries) : Evicted(entries)[j] = entries[k]
<1>1. Len(entries) \in Nat /\ MaxSize \in Nat \ {0}
  BY CacheAssumption, LenProperties
<1>2. CASE Len(entries) <= MaxSize
  BY <1>1, <1>2 DEF Evicted
<1>3. CASE Len(entries) > MaxSize
  <2> DEFINE kept == SubSeq(entries, Len(entries) - MaxSize + 1, Len(entries))
  <2>1. Len(entries) = MaxSize + 1
    BY <1>1, <1>3
  <2>2. \A j \in 2 .. Len(entries) : entries[j] \in Entry
    BY ElementOfSeq, <1>1
  <2>3. /\ kept \in Seq(Entry) /\ Len(kept) = MaxSize
        /\ \A j \in 1 .. MaxSize : kept[j] = entries[j + 1]
    BY <1>1, <2>1, <2>2, SubSeqProperties
  <2>4. Evicted(entries) = kept
    BY <1>3 DEF Evicted
  <2> HIDE DEF kept
  <2>5. \A j \in 1 .. MaxSize : j + 1 \in 1 .. Len(entries)
    BY <1>1, <2>1
  <2> QED BY <1>1, <2>3, <2>4, <2>5
<1> QED BY <1>1, <1>2, <1>3

-----------------------------------------------------------------------------
(* Steps of the builder, and restarts.                                      *)

LEMMA BuildTypeStep ==
    ASSUME BuildType, [CacheNext]_cacheVars
    PROVE  BuildType'
<1> USE BuildAssumption DEF BuildType, Stamp, Version
<1>1. CASE Ingest
  BY <1>1 DEF Ingest
<1>2. CASE BuildParcelSummary
  <2>1. build' = [pc |-> "parcels", parcels |-> sales, hoods |-> 0]
    BY <1>2 DEF BuildParcelSummary, Idle
  <2> QED BY <1>2, <2>1 DEF BuildParcelSummary
<1>3. CASE BuildNeighborhoodSummary
  BY <1>3 DEF BuildNeighborhoodSummary
<1>4. CASE CommitBuild
  BY <1>4 DEF CommitBuild, NextVersion
<1>5. CASE FailBuild \/ CacheRestart \/ EndBuild
  BY <1>5 DEF FailBuild, CacheRestart, EndBuild, Idle
<1>6. CASE UNCHANGED buildVars
  BY <1>6 DEF buildVars
<1> QED BY <1>1, <1>2, <1>3, <1>4, <1>5, <1>6 DEF CacheNext, BuildStep, cacheVars, ReadVersion, Serve, Hit, Miss,
           Compute, Store, Finish

\* The version grows with every commit, and the tables with the version.
LEMMA DbStep ==
    ASSUME CacheTypeOK, BuildAdvances, [CacheNext]_cacheVars
    PROVE  /\ BuildAdvances'
           /\ \/ UNCHANGED db
              \/ /\ db'.version = db.version + 1 /\ db'.hoods >= db.hoods
                 /\ UNCHANGED <<cache, serving>>
<1> USE DEF CacheTypeOK, BuildType, Stamp, Version, BuildAdvances
<1>1. CASE Ingest /\ UNCHANGED <<cache, serving>>
  BY <1>1 DEF Ingest
<1>2. CASE BuildParcelSummary
  BY <1>2 DEF BuildParcelSummary, Idle
<1>3. CASE BuildNeighborhoodSummary
  BY <1>3 DEF BuildNeighborhoodSummary
<1>4. CASE CommitBuild /\ UNCHANGED <<cache, serving>>
  <2>1. /\ db' = [version |-> db.version + 1, parcels |-> build.parcels, hoods |-> build.hoods]
        /\ build.pc = "hoods" /\ build'.pc = "committed" /\ sales' = sales
    BY <1>4 DEF CommitBuild, NextVersion
  <2> QED BY <1>4, <2>1
<1>5. CASE FailBuild \/ CacheRestart \/ EndBuild
  BY <1>5 DEF FailBuild, CacheRestart, EndBuild, Idle
<1>6. CASE UNCHANGED buildVars
  BY <1>6 DEF buildVars
<1> QED BY <1>1, <1>2, <1>3, <1>4, <1>5, <1>6 DEF CacheNext, BuildStep, cacheVars, ReadVersion, Serve, Hit, Miss,
           Compute, Store, Finish

-----------------------------------------------------------------------------
(* Steps of requests.                                                       *)

\* One request alone goes on, from what it read or by reading what is committed:
\* requests still agree, answers and entries are still fresh.
LEMMA OneRequest ==
    ASSUME CacheTypeOK, RequestsAgree, AnswersFresh, UNCHANGED db,
           NEW r \in Reader, NEW q \in Request, serving' = [serving EXCEPT ![r] = q],
           \/ q.pc = "idle"
           \/ q.version = db.version /\ q.asked.derived = db.hoods
           \/ r \in Started /\ q.version = serving[r].version /\ q.asked = serving[r].asked,
           q.pc \in {"computed", "answered"} => q.answer.derived >= q.asked.derived
    PROVE  /\ serving' \in [Reader -> Request] /\ RequestsAgree' /\ AnswersFresh'
           /\ \A e \in Entry : Fresh(e) => Fresh(e)'
<1>1. /\ serving \in [Reader -> Request] /\ serving' \in [Reader -> Request]
      /\ serving'[r] = q
      /\ \A s \in Reader \ {r} : serving'[s] = serving[s]
  BY DEF CacheTypeOK
<1>2. Started' \ {r} = Started \ {r}
  BY <1>1 DEF Started
<1>3. /\ db.version \in Int /\ db.hoods \in Int
      /\ \A s \in Reader : /\ serving[s].version \in Int /\ serving[s].asked.derived \in Int
                           /\ serving[s].answer.derived \in Int
  <2>1. db.version \in Int /\ db.hoods \in Int
    BY BuildAssumption DEF CacheTypeOK, BuildType, Stamp, Version
  <2>2. ASSUME NEW s \in Reader
        PROVE  /\ serving[s].version \in Int /\ serving[s].asked.derived \in Int
               /\ serving[s].answer.derived \in Int
    <3>1. serving[s] \in Request
      BY <1>1
    <3> QED BY <3>1, BuildAssumption DEF Request, Answer, Stamp, Version
  <2> QED BY <2>1, <2>2
<1>4. q.version \in Int /\ q.asked.derived \in Int /\ q.answer.derived \in Int
  BY BuildAssumption DEF Request, Answer, Stamp, Version
<1>5. q.pc # "idle" =>
         /\ q.version <= db.version /\ q.asked.derived <= db.hoods
         /\ q.version = db.version => q.asked.derived = db.hoods
         /\ \A s \in Started : serving[s].version = q.version =>
               serving[s].asked.derived = q.asked.derived
  BY <1>3, <1>4 DEF RequestsAgree, Started
<1>6. r \in Started' => q.pc # "idle"
  BY <1>1 DEF Started
<1>7. RequestsAgree'
  <2> SUFFICES ASSUME NEW s \in Started'
               PROVE  /\ serving'[s].version <= db'.version
                      /\ serving'[s].asked.derived <= db'.hoods
                      /\ serving'[s].version = db'.version => serving'[s].asked.derived = db'.hoods
                      /\ \A t \in Started' : serving'[t].version = serving'[s].version =>
                            serving'[t].asked.derived = serving'[s].asked.derived
    BY DEF RequestsAgree
  <2>1. CASE s = r
    BY <1>1, <1>2, <1>5, <1>6, <2>1 DEF Started
  <2>2. CASE s # r
    <3>1. s \in Started /\ serving'[s] = serving[s]
      BY <1>1, <1>2, <2>2 DEF Started
    <3>2. /\ serving[s].version <= db.version /\ serving[s].asked.derived <= db.hoods
          /\ serving[s].version = db.version => serving[s].asked.derived = db.hoods
          /\ \A t \in Started : serving[t].version = serving[s].version =>
                serving[t].asked.derived = serving[s].asked.derived
      BY <3>1 DEF RequestsAgree
    <3> QED BY <1>1, <1>2, <1>5, <1>6, <3>1, <3>2 DEF Started
  <2> QED BY <2>1, <2>2
<1>8. AnswersFresh'
  BY <1>1, <1>2 DEF AnswersFresh, Started
<1>9. \A e \in Entry : Fresh(e) => Fresh(e)'
  <2> SUFFICES ASSUME NEW e \in Entry, Fresh(e), NEW s \in Started', serving'[s].version = e.version
               PROVE  e.answer.derived >= serving'[s].asked.derived
    BY DEF Fresh
  <2>1. CASE s # r
    BY <1>1, <1>2, <2>1 DEF Fresh, Started
  <2>2. CASE s = r
    BY <1>1, <1>6, <2>2 DEF Fresh
  <2> QED BY <2>1, <2>2
<1> QED BY <1>1, <1>7, <1>8, <1>9

\* Every entry after a step was one before it, or is a fresh one.
LEMMA EntriesStay ==
    ASSUME cache \in Seq(Entry), EntriesFresh, cache' \in Seq(Entry),
           \A e \in Entry : Fresh(e) => Fresh(e)',
           \A j \in 1 .. Len(cache') : Fresh(cache'[j]) \/ \E k \in 1 .. Len(cache) : cache'[j] = cache[k]
    PROVE  EntriesFresh'
<1>1. \A j \in 1 .. Len(cache') : cache'[j] \in Entry
  BY ElementOfSeq
<1>2. ASSUME NEW j \in 1 .. Len(cache'), NEW e \in Entry, e = cache'[j]
      PROVE  Fresh(e)'
  <2>1. Fresh(e)
    BY <1>2 DEF EntriesFresh
  <2> QED BY <2>1
<1> QED BY <1>1, <1>2 DEF EntriesFresh

\* What the steps of requests keep.
CacheKept ==
    /\ cache \in Seq(Entry) /\ Len(cache) <= MaxSize
    /\ serving \in [Reader -> Request]
    /\ RequestsAgree /\ AnswersFresh /\ EntriesFresh

\* A request starts, or waits for its turn to compute, or is done.
LEMMA CacheKeptStep ==
    ASSUME CacheIInv, NEW r \in Reader, ReadVersion(r) \/ Miss(r) \/ Compute(r) \/ Finish(r)
    PROVE  CacheKept'
<1>1. UNCHANGED <<db, cache>>
  BY DEF ReadVersion, Miss, Compute, Finish, buildVars
<1>2. CacheTypeOK /\ RequestsAgree /\ AnswersFresh /\ EntriesFresh /\ serving[r] \in Request
  BY DEF CacheIInv, CacheTypeOK
<1>3. NoAnswer \in Answer /\ Current \in Answer
  BY <1>2, BuildAssumption DEF NoAnswer, Current, Answer, CacheTypeOK, BuildType, Stamp
<1>4. db.version \in Version /\ 0 \in Version /\ db.hoods \in Int
  BY <1>2, BuildAssumption DEF CacheTypeOK, BuildType, Version, Stamp
<1>5. \E q \in Request :
         /\ serving' = [serving EXCEPT ![r] = q]
         /\ \/ q.pc = "idle"
            \/ q.version = db.version /\ q.asked.derived = db.hoods
            \/ r \in Started /\ q.version = serving[r].version /\ q.asked = serving[r].asked
         /\ q.pc \in {"computed", "answered"} => q.answer.derived >= q.asked.derived
  <2>1. CASE ReadVersion(r)
    <3> DEFINE q == [NoRequest EXCEPT !.pc = "versioned", !.version = db.version,
                                      !.asked = Current]
    <3>1. NoRequest \in Request
      BY <1>3, <1>4 DEF NoRequest, Request
    <3>2. serving' = [serving EXCEPT ![r] = q]
      BY <2>1 DEF ReadVersion
    <3>3. q \in Request /\ q.pc = "versioned" /\ q.version = db.version /\ q.asked = Current
      BY <1>3, <1>4, <3>1 DEF Request
    <3> HIDE DEF q
    <3>4. q.asked.derived = db.hoods
      BY <3>3 DEF Current
    <3> QED BY <3>2, <3>3, <3>4
  <2>2. CASE Miss(r)
    <3> DEFINE q == [serving[r] EXCEPT !.pc = "computing"]
    <3>1. serving' = [serving EXCEPT ![r] = q]
      BY <2>2 DEF Miss
    <3>2. /\ q \in Request /\ q.pc = "computing" /\ r \in Started
          /\ q.version = serving[r].version /\ q.asked = serving[r].asked
      BY <1>2, <2>2 DEF Request, Miss, Started
    <3> QED BY <3>1, <3>2
  <2>3. CASE Compute(r)
    <3> DEFINE q == [serving[r] EXCEPT !.pc = "computed", !.answer = Current]
    <3>1. serving' = [serving EXCEPT ![r] = q]
      BY <2>3 DEF Compute
    <3>2. /\ q \in Request /\ q.answer = Current /\ r \in Started
          /\ q.version = serving[r].version /\ q.asked = serving[r].asked
      BY <1>2, <1>3, <2>3 DEF Request, Compute, Started
    <3>3. q.answer.derived = db.hoods /\ q.asked.derived \in Int
      BY <1>2, <3>2, BuildAssumption DEF Current, Request, Answer, Stamp
    <3>4. q.answer.derived >= q.asked.derived
      BY <1>2, <1>4, <3>2, <3>3 DEF RequestsAgree
    <3> QED BY <3>1, <3>2, <3>4
  <2>4. CASE Finish(r)
    <3>1. NoRequest \in Request /\ NoRequest.pc = "idle"
      BY <1>3, <1>4 DEF NoRequest, Request
    <3> QED BY <2>4, <3>1 DEF Finish
  <2> QED BY <2>1, <2>2, <2>3, <2>4
<1>6. /\ serving' \in [Reader -> Request] /\ RequestsAgree' /\ AnswersFresh'
      /\ \A e \in Entry : Fresh(e) => Fresh(e)'
  <2>1. PICK q \in Request :
         /\ serving' = [serving EXCEPT ![r] = q]
         /\ \/ q.pc = "idle"
            \/ q.version = db.version /\ q.asked.derived = db.hoods
            \/ r \in Started /\ q.version = serving[r].version /\ q.asked = serving[r].asked
         /\ q.pc \in {"computed", "answered"} => q.answer.derived >= q.asked.derived
    BY <1>5
  <2> QED BY <1>1, <1>2, <2>1, OneRequest
<1>7. cache' \in Seq(Entry) /\ Len(cache') <= MaxSize
  BY <1>1, <1>2 DEF CacheTypeOK
<1>8. EntriesFresh'
  BY <1>1, <1>2, <1>6, <1>7, EntriesStay
<1> QED BY <1>6, <1>7, <1>8 DEF CacheKept

\* A request is answered from the cache.
LEMMA HitStep ==
    ASSUME CacheIInv, NEW r \in Reader, Hit(r)
    PROVE  CacheKept'
<1>1. db' = db
  BY DEF Hit, buildVars
<1>2. /\ CacheTypeOK /\ RequestsAgree /\ AnswersFresh /\ EntriesFresh
      /\ serving[r] \in Request /\ cache \in Seq(Entry) /\ Len(cache) <= MaxSize
  BY DEF CacheIInv, CacheTypeOK
<1>3. PICK i \in DOMAIN cache :
         /\ cache[i].version = serving[r].version
         /\ serving' = [serving EXCEPT ![r].pc = "answered", ![r].answer = cache[i].answer]
         /\ cache' = Used(i)
  BY DEF Hit, Entries
<1>4. i \in 1 .. Len(cache) /\ cache[i] \in Entry /\ Fresh(cache[i])
  <2>1. i \in 1 .. Len(cache)
    BY <1>2, LenProperties
  <2> QED BY <1>2, <2>1, ElementOfSeq DEF EntriesFresh
<1> DEFINE q == [serving[r] EXCEPT !.pc = "answered", !.answer = cache[i].answer]
<1>5. serving' = [serving EXCEPT ![r] = q]
  BY <1>2, <1>3
<1>6. /\ q \in Request /\ r \in Started /\ q.answer = cache[i].answer
      /\ q.version = serving[r].version /\ q.asked = serving[r].asked
  BY <1>2, <1>4, <1>3 DEF Request, Entry, Hit, Started
<1>7. q.answer.derived >= q.asked.derived
  BY <1>3, <1>4, <1>6 DEF Fresh
<1> HIDE DEF q
<1>8. /\ serving' \in [Reader -> Request] /\ RequestsAgree' /\ AnswersFresh'
      /\ \A e \in Entry : Fresh(e) => Fresh(e)'
  BY <1>1, <1>2, <1>5, <1>6, <1>7, OneRequest
<1>9. /\ Used(i) \in Seq(Entry) /\ Len(Used(i)) = Len(cache)
      /\ \A j \in 1 .. Len(Used(i)) : \E k \in 1 .. Len(cache) : Used(i)[j] = cache[k]
  BY <1>2, <1>4, UsedEntries
<1>10. /\ cache' \in Seq(Entry) /\ Len(cache') <= MaxSize
       /\ \A j \in 1 .. Len(cache') : \E k \in 1 .. Len(cache) : cache'[j] = cache[k]
  BY <1>2, <1>3, <1>9
<1>11. EntriesFresh'
  BY <1>2, <1>8, <1>10, EntriesStay
<1> QED BY <1>8, <1>10, <1>11 DEF CacheKept

\* A request stores what it computed.
LEMMA StoreStep ==
    ASSUME CacheIInv, NEW r \in Reader, Store(r)
    PROVE  CacheKept'
<1>1. db' = db
  BY DEF Store, buildVars
<1>2. /\ CacheTypeOK /\ RequestsAgree /\ AnswersFresh /\ EntriesFresh
      /\ serving[r] \in Request /\ cache \in Seq(Entry) /\ Len(cache) <= MaxSize
  BY DEF CacheIInv, CacheTypeOK
<1> DEFINE entry == [version |-> serving[r].version, answer |-> serving[r].answer]
           q == [serving[r] EXCEPT !.pc = "answered"]
<1>3. entry \in Entry /\ entry.version = serving[r].version /\ entry.answer = serving[r].answer
  BY <1>2 DEF Request, Entry
<1>4. /\ serving[r].pc = "computed" /\ r \in Started
      /\ serving' = [serving EXCEPT ![r] = q]
      /\ q \in Request /\ q.answer = serving[r].answer
      /\ q.version = serving[r].version /\ q.asked = serving[r].asked
  BY <1>2 DEF Store, Started, Request
<1>5. cache' = IF Entries(entry.version) # {}
               THEN [i \in DOMAIN cache |-> IF i \in Entries(entry.version) THEN entry ELSE cache[i]]
               ELSE Evicted(Append(cache, entry))
  BY DEF Store
<1> HIDE DEF entry, q
<1>6. q.answer.derived >= q.asked.derived
  BY <1>2, <1>4 DEF AnswersFresh
<1>7. /\ serving' \in [Reader -> Request] /\ RequestsAgree' /\ AnswersFresh'
      /\ \A e \in Entry : Fresh(e) => Fresh(e)'
  BY <1>1, <1>2, <1>4, <1>6, OneRequest
<1>8. Fresh(entry)
  BY <1>2, <1>3, <1>4, <1>6 DEF Fresh, RequestsAgree
<1>9. /\ cache' \in Seq(Entry) /\ Len(cache') <= MaxSize
      /\ \A j \in 1 .. Len(cache') : cache'[j] = entry \/ \E k \in 1 .. Len(cache) : cache'[j] = cache[k]
  <2>1. Len(cache) \in Nat /\ DOMAIN cache = 1 .. Len(cache)
        /\ \A j \in 1 .. Len(cache) : cache[j] \in Entry
    BY <1>2, LenProperties, ElementOfSeq
  <2>2. CASE Entries(entry.version) # {}
    <3>1. cache' = [i \in 1 .. Len(cache) |-> IF i \in Entries(entry.version) THEN entry ELSE cache[i]]
      BY <1>5, <2>1, <2>2
    <3>2. cache' \in [1 .. Len(cache) -> Entry]
      BY <1>3, <2>1, <3>1
    <3>3. cache' \in Seq(Entry) /\ Len(cache') = Len(cache)
      BY <2>1, <3>2, SeqDef, LenProperties
    <3> QED BY <1>2, <2>1, <3>1, <3>3
  <2>3. CASE Entries(entry.version) = {}
    <3> DEFINE longer == Append(cache, entry)
    <3>1. /\ longer \in Seq(Entry) /\ Len(longer) = Len(cache) + 1
          /\ longer[Len(cache) + 1] = entry
          /\ \A j \in 1 .. Len(cache) : longer[j] = cache[j]
      BY <1>2, <1>3, AppendProperties
    <3>2. cache' = Evicted(longer)
      BY <1>5, <2>3
    <3> HIDE DEF longer
    <3>3. Len(longer) <= MaxSize + 1
      BY <1>2, <2>1, <3>1, CacheAssumption
    <3>4. /\ cache' \in Seq(Entry) /\ Len(cache') <= MaxSize
          /\ \A j \in 1 .. Len(cache') : \E k \in 1 .. Len(longer) : cache'[j] = longer[k]
      BY <3>1, <3>2, <3>3, EvictedEntries
    <3>5. \A k \in 1 .. Len(longer) : k = Len(cache) + 1 \/ k \in 1 .. Len(cache)
      BY <2>1, <3>1
    <3> QED BY <3>1, <3>4, <3>5
  <2> QED BY <2>2, <2>3
<1>10. \A j \in 1 .. Len(cache') : Fresh(cache'[j]) \/ \E k \in 1 .. Len(cache) : cache'[j] = cache[k]
  BY <1>8, <1>9
<1>11. EntriesFresh'
  BY <1>2, <1>7, <1>9, <1>10, EntriesStay
<1> QED BY <1>7, <1>9, <1>11 DEF CacheKept

-----------------------------------------------------------------------------
(* Theorems.                                                                *)

LEMMA StepKept ==
    ASSUME CacheIInv, [CacheNext]_cacheVars
    PROVE  CacheIInv'
<1>1. /\ CacheTypeOK /\ BuildAdvances /\ RequestsAgree /\ AnswersFresh /\ EntriesFresh
      /\ cache \in Seq(Entry) /\ Len(cache) <= MaxSize /\ serving \in [Reader -> Request]
  BY DEF CacheIInv, CacheTypeOK
<1>2. BuildType'
  BY <1>1, BuildTypeStep DEF CacheTypeOK
<1>3. /\ BuildAdvances'
      /\ \/ UNCHANGED db
         \/ db'.version = db.version + 1 /\ db'.hoods >= db.hoods /\ UNCHANGED <<cache, serving>>
  BY <1>1, DbStep
<1>4. ASSUME UNCHANGED <<cache, serving>>
      PROVE  CacheKept'
  <2>1. CASE UNCHANGED db
    BY <1>1, <1>4, <2>1 DEF CacheKept, RequestsAgree, AnswersFresh, EntriesFresh, Started, Fresh
  <2>2. CASE db'.version = db.version + 1 /\ db'.hoods >= db.hoods
    <3>1. /\ db.version \in Int /\ db.hoods \in Int /\ db'.version \in Int /\ db'.hoods \in Int
      BY <1>1, <1>2, BuildAssumption DEF CacheTypeOK, BuildType, Stamp, Version
    <3>2. \A s \in Reader : serving[s].version \in Int /\ serving[s].asked.derived \in Int
      <4>1. \A s \in Reader : serving[s] \in Request
        BY <1>1
      <4> QED BY <4>1, BuildAssumption DEF Request, Answer, Stamp, Version
    <3>3. \A e \in Entry : e.version \in Int
      BY BuildAssumption DEF Entry, Version
    <3>4. Started' = Started
      BY <1>4 DEF Started
    <3>5. RequestsAgree'
      BY <1>1, <1>4, <2>2, <3>1, <3>2, <3>4 DEF RequestsAgree, Started
    <3>6. AnswersFresh'
      BY <1>1, <1>4, <3>4 DEF AnswersFresh
    <3>7. \A e \in Entry : Fresh(e) => Fresh(e)'
      BY <1>4, <2>2, <3>1, <3>3, <3>4 DEF Fresh
    <3>8. EntriesFresh'
      BY <1>1, <1>4, <3>7, EntriesStay
    <3> QED BY <1>1, <1>4, <3>5, <3>6, <3>8 DEF CacheKept
  <2> QED BY <1>3, <2>1, <2>2
<1>5. ASSUME CacheRestart
      PROVE  CacheKept'
  <2>1. cache' = <<>> /\ serving' = [r \in Reader |-> NoRequest]
    BY <1>5 DEF CacheRestart
  <2>2. NoRequest \in Request
    BY BuildAssumption DEF NoRequest, NoAnswer, Request, Answer, Stamp, Version
  <2>3. Started' = {} /\ serving' \in [Reader -> Request]
    BY <2>1, <2>2 DEF Started, NoRequest
  <2>4. cache' \in Seq(Entry) /\ Len(cache') = 0
    BY <2>1, EmptySeq
  <2> QED BY <2>3, <2>4, CacheAssumption DEF CacheKept, RequestsAgree, AnswersFresh, EntriesFresh
<1>6. CacheKept'
  BY <1>4, <1>5, CacheKeptStep, HitStep, StoreStep DEF CacheNext, BuildStep, Serve, EndBuild, cacheVars
<1> QED BY <1>2, <1>3, <1>6 DEF CacheIInv, CacheTypeOK, CacheKept

\* The types of the state, and with them: requests that read one version asked
\* for one content of the derived tables, and no entry is older than what a
\* request that may find it asked for (VersionedCache.get_or_compute).
THEOREM CacheInvariance == CacheSpec => []CacheIInv
<1>1. CacheInit => CacheIInv
  <2> SUFFICES ASSUME CacheInit PROVE CacheIInv
    OBVIOUS
  <2>1. BuildType /\ BuildAdvances
    BY BuildAssumption DEF CacheInit, BuildInit, BuildType, BuildAdvances, Idle, Stamp, Version
  <2>2. NoRequest \in Request
    BY BuildAssumption DEF NoRequest, NoAnswer, Request, Answer, Stamp, Version
  <2>3. Started = {} /\ serving \in [Reader -> Request]
    BY <2>2 DEF CacheInit, Started, NoRequest
  <2>4. cache \in Seq(Entry) /\ Len(cache) = 0
    BY EmptySeq DEF CacheInit
  <2> QED BY <2>1, <2>3, <2>4, CacheAssumption
             DEF CacheIInv, CacheTypeOK, RequestsAgree, AnswersFresh, EntriesFresh
<1> QED BY <1>1, StepKept, PTL DEF CacheSpec

\* Whatever the interleaving of requests, builds, failures and restarts, a
\* request is answered from derived tables at least as new as those committed
\* when it started.
THEOREM NeverStale == CacheSpec => []DerivedNeverStale
<1>1. CacheIInv => DerivedNeverStale
  BY DEF CacheIInv, AnswersFresh, Started, DerivedNeverStale
<1> QED BY <1>1, CacheInvariance, PTL

-----------------------------------------------------------------------------
(* Map files.                                                               *)

TypeOK ==
    /\ sales \in Stamp /\ faults \in 0 .. MaxFaults /\ epoch \in 0 .. MaxEpoch
    /\ db \in [version: Version, parcels: Stamp, hoods: Stamp]
    /\ build \in [pc: {"idle", "parcels", "hoods", "committed", "encoded", "pruning"},
                  parcels: Stamp, hoods: Stamp]
    /\ build.pc \in {"parcels", "hoods"} => db.version < MaxVersion
    /\ files \subseteq File /\ IsFiniteSet(files)
    /\ stale \subseteq files
    /\ request \in [Client -> File \cup {NoFile}]
    /\ copy \in [Client -> File \cup {NoFile}]

\* A version is one file's name.
OneFilePerVersion == \A f, g \in files : f.version = g.version => f = g

\* No file is ahead of the database it was made from, and the file of the
\* version in force shows the tables in force.
FilesFollow ==
    \A f \in Held :
        /\ f.epoch <= epoch
        /\ f.epoch = epoch => f.version <= db.version
        /\ f.epoch = epoch /\ f.version = db.version => f.parcels = db.parcels

\* What is read back after the commit is what was committed.
EncodesCommitted == build.pc = "encoded" => build.parcels = db.parcels

\* While files are deleted: the file just placed stays, and the newest of the
\* older ones, and no other.
Kept == files \ stale

PrunesRest ==
    build.pc = "pruning" =>
        /\ \E f \in Kept : f.version = db.version /\ f.epoch = epoch /\ f.parcels = db.parcels
        /\ \A f \in Kept : f.version <= db.version
        /\ \A f, g \in Kept : f.version < db.version /\ g.version < db.version => f = g
        /\ \A f \in stale : f.version >= db.version \/
              \E g \in Kept : f.version < g.version /\ g.version < db.version
        /\ \A f \in stale : f.version # db.version

\* Two files stand above f.
TwoAbove(f) == \E g, h \in files : f.version < g.version /\ g.version < h.version

\* A file that was resolved was the newest then: only this database has put files
\* above it, and it goes when there are two.
ResolvedStays ==
    \A c \in Client :
        LET f == request[c]
        IN f # NoFile /\ f.epoch = epoch =>
              /\ \A g \in files : g.version > f.version => g.epoch = epoch
              /\ (\E g \in files : g.version = f.version) \/ TwoAbove(f)
              /\ f.version <= db.version

IInv ==
    /\ TypeOK
    /\ OneFilePerVersion
    /\ FilesFollow
    /\ EncodesCommitted
    /\ VersionNamesContent
    /\ PrunesRest
    /\ ResolvedStays

-----------------------------------------------------------------------------
(* Directories of files.                                                    *)

\* A nonempty set of versions has a last one.
LEMMA LastVersion ==
    ASSUME NEW T, T \subseteq Version, T # {}
    PROVE  \E m \in T : \A k \in T : k <= m
<1> DEFINE F == {k .. MaxVersion : k \in T}
           R == StrictSubsetOrdering(Version)
<1>1. \A k \in T : k \in Int /\ k <= MaxVersion /\ k .. MaxVersion \in SUBSET Version
  BY BuildAssumption DEF Version
<1>2. F \subseteq FiniteSubsetsOf(Version)
  <2>1. \A k \in T : IsFiniteSet(k .. MaxVersion)
    BY <1>1, BuildAssumption, FS_Interval
  <2> QED BY <1>1, <2>1 DEF FiniteSubsetsOf
<1>3. IsWellFoundedOn(R, FiniteSubsetsOf(Version))
  <2>1. IsFiniteSet(Version)
    BY BuildAssumption, FS_Interval DEF Version
  <2> QED BY <2>1, FS_StrictSubsetOrderingWellFounded
<1>4. PICK x \in F : \A y \in F : ~(<<y, x>> \in R)
  <2>1. F # {}
    OBVIOUS
  <2> HIDE DEF R, F
  <2> QED BY <1>2, <1>3, <2>1, WFMin
<1>5. PICK m \in T : x = m .. MaxVersion
  OBVIOUS
<1>6. ASSUME NEW k \in T, ~(k <= m) PROVE FALSE
  <2>1. k .. MaxVersion \in F /\ k .. MaxVersion \subseteq m .. MaxVersion
        /\ k .. MaxVersion # m .. MaxVersion
    BY <1>1, <1>6, BuildAssumption
  <2>2. <<k .. MaxVersion, x>> \in R
    BY <1>1, <1>5, <2>1 DEF StrictSubsetOrdering
  <2> QED BY <1>4, <2>1, <2>2
<1> QED BY <1>6

LEMMA FileFields ==
    \A f \in File : /\ f.version \in Version /\ f.version \in Nat /\ f.version # NoFile.version
                    /\ f.epoch \in 0 .. MaxEpoch /\ f.epoch \in Nat /\ f.parcels \in Stamp
BY BuildAssumption, MapAssumption DEF File, Version, NoFile

LEMMA NewestExists ==
    ASSUME NEW dir, dir \subseteq File, dir # {}
    PROVE  \E f \in dir : Newest(f, dir)
<1> DEFINE T == {f.version : f \in dir}
<1>1. T \subseteq Version /\ T # {}
  BY FileFields
<1> HIDE DEF T
<1>2. PICK m \in T : \A k \in T : k <= m
  BY <1>1, LastVersion
<1> QED BY <1>2 DEF T, Newest

\* What is kept of a directory when v is published: v, and the newest file below it.
LEMMA StaleSplits ==
    ASSUME NEW dir, dir \subseteq File, NEW v \in Version,
           \A f, g \in dir : f.version = g.version => f = g
    PROVE  LET old == StaleFiles(dir, v) IN
           /\ old \subseteq dir
           /\ \A f \in dir : f.version = v => f \notin old
           /\ \A f \in dir \ old : f.version <= v
           /\ \A f, g \in dir \ old : f.version < v /\ g.version < v => f = g
           /\ \A f \in old : f.version >= v \/
                 \E g \in dir \ old : f.version < g.version /\ g.version < v
           /\ \A f \in old : f.version # v
<1> DEFINE older == {g \in dir : g.version < v}
           old == StaleFiles(dir, v)
<1>1. \A f \in dir : f.version \in Int /\ f.version \in Version
  BY FileFields
<1>2. v \in Int
  BY BuildAssumption DEF Version
<1>3. \A f \in dir : f \in old <=> (f.version < v /\ ~Newest(f, older)) \/ f.version > v
  BY DEF StaleFiles
<1>4. old \subseteq dir
  BY DEF StaleFiles
<1>5. \A f, g \in dir \ old : f.version < v /\ g.version < v => f = g
  <2> SUFFICES ASSUME NEW f \in dir \ old, NEW g \in dir \ old, f.version < v, g.version < v
               PROVE  f = g
    OBVIOUS
  <2>1. Newest(f, older) /\ Newest(g, older)
    BY <1>3
  <2>2. f.version = g.version
    BY <1>1, <2>1 DEF Newest
  <2> QED BY <2>2
<1>6. ASSUME NEW f \in old, f.version < v
      PROVE  \E g \in dir \ old : f.version < g.version /\ g.version < v
  <2>1. f \in older /\ ~Newest(f, older)
    BY <1>1, <1>2, <1>3, <1>4, <1>6
  <2>2. PICK g \in older : Newest(g, older)
    BY <2>1, NewestExists
  <2>3. g \in dir \ old /\ g.version < v
    BY <1>1, <1>2, <1>3, <2>2
  <2>4. f.version < g.version
    <3>1. f.version <= g.version
      BY <2>1, <2>2 DEF Newest
    <3>2. f.version # g.version
      BY <2>1, <2>2
    <3> QED BY <1>1, <1>4, <2>3, <3>1, <3>2
  <2> QED BY <2>3, <2>4
<1> HIDE DEF old, older
<1>7. \A f \in dir : f.version = v => f \notin old
  BY <1>1, <1>2, <1>3
<1>8. \A f \in dir \ old : f.version <= v
  BY <1>1, <1>2, <1>3
<1>9. \A f \in old : f.version >= v \/
         \E g \in dir \ old : f.version < g.version /\ g.version < v
  <2>1. \A f \in old : f.version < v \/ f.version >= v
    BY <1>1, <1>2, <1>4
  <2> QED BY <1>6, <2>1
<1>10. \A f \in old : f.version # v
  BY <1>4, <1>7
<1> QED BY <1>4, <1>5, <1>7, <1>8, <1>9, <1>10 DEF old

-----------------------------------------------------------------------------
(* One lemma for each conjunct of the invariant.                            *)

LEMMA TypeStep == ASSUME TypeOK, [Next]_vars PROVE TypeOK'
<1> USE BuildAssumption, MapAssumption DEF TypeOK, Stamp, Version
<1>1. CASE Ingest /\ UNCHANGED <<epoch, files, stale, request, copy>>
  BY <1>1 DEF Ingest
<1>2. CASE BuildParcelSummary /\ UNCHANGED <<epoch, files, stale, request, copy>>
  <2>1. build' = [pc |-> "parcels", parcels |-> sales, hoods |-> 0]
    BY <1>2 DEF BuildParcelSummary, Idle
  <2> QED BY <1>2, <2>1 DEF BuildParcelSummary
<1>3. CASE BuildNeighborhoodSummary /\ UNCHANGED <<epoch, files, stale, request, copy>>
  BY <1>3 DEF BuildNeighborhoodSummary
<1>4. CASE CommitBuild /\ UNCHANGED <<epoch, files, stale, request, copy>>
  BY <1>4 DEF CommitBuild, NextVersion
<1>5. CASE EncodeMap
  BY <1>5 DEF EncodeMap
<1>6. CASE PlaceFile
  <2> DEFINE file == [version |-> db.version, parcels |-> build.parcels, epoch |-> epoch]
  <2>1. file \in File
    BY DEF File
  <2>2. files' = {f \in files : f.version # file.version} \cup {file}
    BY <1>6 DEF PlaceFile, Placed
  <2>3. files' \subseteq File /\ IsFiniteSet(files')
    <3>1. IsFiniteSet({f \in files : f.version # file.version})
      BY FS_Subset
    <3> QED BY <2>1, <2>2, <3>1, FS_AddElement
  <2>4. stale' \subseteq files'
    BY <1>6 DEF PlaceFile, StaleFiles
  <2> QED BY <1>6, <2>3, <2>4 DEF PlaceFile
<1>7. CASE DeleteStale
  <2>1. PICK f \in stale : files' = files \ {f} /\ stale' = stale \ {f}
    BY <1>7 DEF DeleteStale
  <2>2. IsFiniteSet(files')
    BY <2>1, FS_Subset
  <2> QED BY <1>7, <2>1, <2>2 DEF DeleteStale, buildVars
<1>8. CASE EndPublication
  BY <1>8 DEF EndPublication, Idle
<1>9. CASE FailPublication
  BY <1>9 DEF FailPublication, FailBuild, Idle
<1>10. CASE Restart \/ RestartOnNewDatabase
  BY <1>10 DEF Restart, RestartOnNewDatabase, Stop, Idle
<1>11. ASSUME NEW c \in Client, Resolve(c) \/ NotModified(c) \/ Send(c)
       PROVE  TypeOK'
  BY <1>11 DEF Resolve, NotModified, Send, vars, buildVars
<1>12. CASE UNCHANGED vars
  BY <1>12 DEF vars, buildVars
<1> QED BY <1>1, <1>2, <1>3, <1>4, <1>5, <1>6, <1>7, <1>8, <1>9, <1>10, <1>11, <1>12
        DEF Next, Publish

\* What each step does to the files, what is held, and the database.
LEMMA StepEffect ==
    ASSUME TypeOK, [Next]_vars
    PROVE  \/ PlaceFile
           \/ RestartOnNewDatabase
           \/ CommitBuild /\ UNCHANGED <<epoch, files, stale, request, copy>>
           \/ DeleteStale
           \/ /\ UNCHANGED <<db, epoch, files>>
              /\ build'.pc = "encoded" => EncodeMap \/ UNCHANGED build
              /\ build'.pc = "pruning" => UNCHANGED <<stale, build>>
              /\ \A c \in Client : copy'[c] \in Held /\ request'[c] \in {request[c], NoFile} \cup files
              /\ \A c \in Client : request'[c] # request[c] /\ request'[c] # NoFile =>
                    Newest(request'[c], files)
<1> USE DEF TypeOK
<1>1. CASE (Ingest \/ BuildParcelSummary \/ BuildNeighborhoodSummary)
           /\ UNCHANGED <<epoch, files, stale, request, copy>>
  BY <1>1 DEF Ingest, BuildParcelSummary, BuildNeighborhoodSummary, Idle, Held
<1>2. CASE EncodeMap \/ EndPublication \/ FailPublication
  <2>1. UNCHANGED <<db, epoch, files, request, copy>>
    BY <1>2 DEF EncodeMap, EndPublication, FailPublication, FailBuild
  <2>2. EncodeMap \/ build'.pc = "idle"
    BY <1>2 DEF EndPublication, FailPublication, FailBuild, Idle
  <2>3. EncodeMap => build'.pc = "encoded"
    BY DEF EncodeMap
  <2> QED BY <2>1, <2>2, <2>3 DEF Held
<1>3. CASE Restart
  BY <1>3 DEF Restart, Stop, Idle, Held
<1>4. ASSUME NEW c \in Client, Resolve(c)
      PROVE  /\ UNCHANGED <<db, build, stale, epoch, files>>
             /\ \A d \in Client : copy'[d] \in Held
             /\ \A d \in Client : request'[d] = request[d] \/ (request'[d] \in files /\ Newest(request'[d], files))
  BY <1>4 DEF Resolve, buildVars, Held
<1>5. ASSUME NEW c \in Client, Send(c)
      PROVE  /\ UNCHANGED <<db, build, stale, epoch, files>>
             /\ \A d \in Client : copy'[d] \in Held
             /\ \A d \in Client : request'[d] = request[d] \/ request'[d] = NoFile
  BY <1>5 DEF Send, buildVars, Held
<1>6. CASE UNCHANGED vars
  BY <1>6 DEF vars, buildVars, Held
<1> QED BY <1>1, <1>2, <1>3, <1>4, <1>5, <1>6 DEF Next, Publish, NotModified

LEMMA HeldType ==
    ASSUME TypeOK
    PROVE  \A f \in Held : f.version \in Int /\ f.epoch \in Int /\ f.parcels \in Int
<1>1. \A f \in File : f.version \in Int /\ f.epoch \in Int /\ f.parcels \in Int
  BY FileFields, BuildAssumption DEF Stamp
<1>2. NoFile.version \in Int /\ NoFile.epoch \in Int /\ NoFile.parcels \in Int
  BY DEF NoFile
<1>3. Held \subseteq File \cup {NoFile}
  BY DEF Held, TypeOK
<1> QED BY <1>1, <1>2, <1>3

\* The file a publication puts in place.
Target == [version |-> db.version, parcels |-> build.parcels, epoch |-> epoch]

LEMMA PlaceEffect ==
    ASSUME TypeOK, EncodesCommitted, PlaceFile
    PROVE  /\ Target \in File /\ Target.version = db.version /\ Target.epoch = epoch
           /\ Target.parcels = db.parcels
           /\ files' = {f \in files : f.version # db.version} \cup {Target}
           /\ stale' = StaleFiles(files', db.version)
           /\ build'.pc = "pruning"
           /\ UNCHANGED <<db, epoch, request, copy>>
           /\ Held' \subseteq Held \cup {Target}
<1>1. Target \in File
  BY DEF TypeOK, Target, File
<1>2. Target.version = db.version /\ Target.epoch = epoch /\ Target.parcels = build.parcels
  BY DEF Target
<1>3. build.parcels = db.parcels
  BY DEF EncodesCommitted, PlaceFile
<1>4. /\ files' = Placed(Target) /\ stale' = StaleFiles(files', Target.version)
      /\ UNCHANGED <<db, epoch, request, copy>>
  BY DEF PlaceFile, Target
<1>5. build'.pc = "pruning"
  BY DEF PlaceFile, TypeOK
<1> QED BY <1>1, <1>2, <1>3, <1>4, <1>5 DEF Placed, Held

LEMMA OneFileStep ==
    ASSUME TypeOK, OneFilePerVersion, EncodesCommitted, [Next]_vars
    PROVE  OneFilePerVersion'
<1>1. CASE PlaceFile
  BY <1>1, PlaceEffect DEF OneFilePerVersion
<1>2. CASE files' \subseteq files
  BY <1>2 DEF OneFilePerVersion
<1> QED BY <1>1, <1>2, StepEffect DEF RestartOnNewDatabase, DeleteStale

\* Apart from a placed file, no file appears, and no browser gets one that was
\* not there.
LEMMA HeldStep ==
    ASSUME TypeOK, [Next]_vars, ~PlaceFile
    PROVE  Held' \subseteq Held /\ files' \subseteq files
<1>1. CASE RestartOnNewDatabase
  BY <1>1 DEF RestartOnNewDatabase, Held
<1>2. CASE CommitBuild /\ UNCHANGED <<epoch, files, stale, request, copy>>
  BY <1>2 DEF Held
<1>3. CASE DeleteStale
  BY <1>3 DEF DeleteStale, Held
<1>4. CASE UNCHANGED files /\ \A c \in Client : copy'[c] \in Held
  BY <1>4 DEF Held
<1> QED BY <1>1, <1>2, <1>3, <1>4, StepEffect

LEMMA FollowStep ==
    ASSUME TypeOK, FilesFollow, EncodesCommitted, [Next]_vars
    PROVE  FilesFollow'
<1>1. \A f \in Held : f.version \in Int /\ f.epoch \in Int
  BY HeldType
<1>2. db.version \in Int /\ epoch \in Int
  BY BuildAssumption, MapAssumption DEF TypeOK, Version
<1>3. CASE PlaceFile
  <2>1. /\ Target.epoch = epoch /\ Target.version = db.version /\ Target.parcels = db.parcels
        /\ UNCHANGED <<db, epoch>> /\ Held' \subseteq Held \cup {Target}
    BY <1>3, PlaceEffect
  <2> QED BY <1>2, <2>1 DEF FilesFollow
<1>4. CASE ~PlaceFile /\ RestartOnNewDatabase
  <2>1. epoch' = epoch + 1 /\ Held' \subseteq Held
    BY <1>4, HeldStep DEF RestartOnNewDatabase
  <2>2. \A f \in Held' : f.epoch < epoch'
    BY <1>1, <1>2, <2>1 DEF FilesFollow
  <2>3. epoch' \in Int
    BY <1>2, <2>1
  <2> QED BY <1>1, <2>1, <2>2, <2>3 DEF FilesFollow
<1>5. CASE ~PlaceFile /\ CommitBuild /\ UNCHANGED <<epoch, files, stale, request, copy>>
  <2>1. db'.version = db.version + 1 /\ epoch' = epoch /\ Held' \subseteq Held
    BY <1>5, HeldStep DEF CommitBuild, NextVersion
  <2>2. db'.version \in Int
    BY <1>2, <2>1
  <2> QED BY <1>1, <1>2, <2>1, <2>2 DEF FilesFollow
<1>6. CASE ~PlaceFile /\ UNCHANGED <<db, epoch>>
  <2>1. Held' \subseteq Held
    BY <1>6, HeldStep
  <2> QED BY <1>6, <2>1 DEF FilesFollow
<1> QED BY <1>3, <1>4, <1>5, <1>6, StepEffect DEF DeleteStale, buildVars

LEMMA EncodesStep ==
    ASSUME TypeOK, EncodesCommitted, [Next]_vars
    PROVE  EncodesCommitted'
<1>1. CASE PlaceFile
  BY <1>1, PlaceEffect DEF EncodesCommitted
<1>2. CASE RestartOnNewDatabase
  BY <1>2 DEF RestartOnNewDatabase, Stop, Idle, EncodesCommitted
<1>3. CASE CommitBuild
  BY <1>3 DEF CommitBuild, EncodesCommitted, TypeOK
<1>4. CASE DeleteStale
  BY <1>4 DEF DeleteStale, buildVars, EncodesCommitted
<1>5. CASE EncodeMap
  BY <1>5 DEF EncodeMap, EncodesCommitted, TypeOK
<1>6. CASE UNCHANGED db /\ (build'.pc = "encoded" => UNCHANGED build)
  BY <1>6 DEF EncodesCommitted
<1> QED BY <1>1, <1>2, <1>3, <1>4, <1>5, <1>6, StepEffect

LEMMA NamesStep ==
    ASSUME TypeOK, FilesFollow, EncodesCommitted, VersionNamesContent, [Next]_vars
    PROVE  VersionNamesContent'
<1>1. CASE PlaceFile
  <2>1. /\ Target.version = db.version /\ Target.epoch = epoch /\ Target.parcels = db.parcels
        /\ Held' \subseteq Held \cup {Target}
    BY <1>1, PlaceEffect
  <2>2. \A f \in Held : f.version = Target.version /\ f.epoch = Target.epoch => f.parcels = Target.parcels
    BY <2>1 DEF FilesFollow
  <2> QED BY <2>1, <2>2 DEF VersionNamesContent
<1>2. CASE ~PlaceFile
  BY <1>2, HeldStep DEF VersionNamesContent
<1> QED BY <1>1, <1>2

LEMMA PrunesStep ==
    ASSUME TypeOK, OneFilePerVersion, EncodesCommitted, PrunesRest, [Next]_vars
    PROVE  PrunesRest'
<1>1. CASE PlaceFile
  <2>1. /\ Target \in File /\ Target.version = db.version /\ Target.epoch = epoch
        /\ Target.parcels = db.parcels /\ Target \in files'
        /\ stale' = StaleFiles(files', db.version)
        /\ UNCHANGED <<db, epoch>>
    BY <1>1, PlaceEffect
  <2>2. TypeOK' /\ OneFilePerVersion'
    BY TypeStep, OneFileStep
  <2>3. files' \subseteq File /\ db.version \in Version
    BY <2>2 DEF TypeOK
  <2>4. \A f, g \in files' : f.version = g.version => f = g
    BY <2>2 DEF OneFilePerVersion
  <2> DEFINE old == StaleFiles(files', db.version)
  <2>5. /\ \A f \in files' : f.version = db.version => f \notin old
        /\ \A f \in files' \ old : f.version <= db.version
        /\ \A f, g \in files' \ old : f.version < db.version /\ g.version < db.version => f = g
        /\ \A f \in old : f.version >= db.version \/
              \E g \in files' \ old : f.version < g.version /\ g.version < db.version
        /\ \A f \in old : f.version # db.version
    BY <2>3, <2>4, StaleSplits
  <2> HIDE DEF old
  <2>6. stale' = old /\ Kept' = files' \ old
    BY <2>1 DEF Kept, old
  <2>7. Target \in Kept'
    BY <2>1, <2>5, <2>6
  <2> QED BY <2>1, <2>5, <2>6, <2>7 DEF PrunesRest
<1>2. CASE DeleteStale
  <2>1. /\ UNCHANGED <<db, epoch, build>> /\ stale' \subseteq stale
        /\ Kept' = Kept /\ build.pc = "pruning"
    BY <1>2 DEF DeleteStale, buildVars, Kept, TypeOK
  <2> QED BY <2>1 DEF PrunesRest
<1>3. CASE build'.pc # "pruning"
  BY <1>3 DEF PrunesRest
<1>4. CASE UNCHANGED <<db, epoch, files, stale, build>>
  BY <1>4 DEF PrunesRest, Kept
<1>5. RestartOnNewDatabase \/ CommitBuild => build'.pc # "pruning"
  BY DEF RestartOnNewDatabase, Stop, Idle, CommitBuild, TypeOK
<1> QED BY <1>1, <1>2, <1>3, <1>4, <1>5, StepEffect

\* What ResolvedStays says of one resolved file.
Stays(f) ==
    f # NoFile /\ f.epoch = epoch =>
        /\ \A g \in files : g.version > f.version => g.epoch = epoch
        /\ (\E g \in files : g.version = f.version) \/ TwoAbove(f)
        /\ f.version <= db.version

\* Two files are placed above a resolved file before its own is deleted.
LEMMA ResolvedStep ==
    ASSUME TypeOK, FilesFollow, EncodesCommitted, PrunesRest, ResolvedStays, [Next]_vars
    PROVE  ResolvedStays'
<1>1. \A f \in files : f \in Held /\ f.version \in Int /\ f.epoch \in Int
  BY HeldType DEF Held
<1>2. db.version \in Int /\ epoch \in Int
  BY BuildAssumption, MapAssumption DEF TypeOK, Version
<1>3. \A c \in Client : Stays(request[c])
  BY DEF ResolvedStays, Stays
<1>4. \A c \in Client : request[c].version \in Int
  BY FileFields DEF TypeOK, NoFile
<1>5. CASE RestartOnNewDatabase
  BY <1>5 DEF RestartOnNewDatabase, Stop, ResolvedStays
<1>6. CASE PlaceFile
  <2>1. /\ files' = {g \in files : g.version # db.version} \cup {Target}
        /\ Target.version = db.version /\ Target.epoch = epoch
        /\ UNCHANGED <<db, epoch, request>>
    BY <1>6, PlaceEffect
  <2>2. \A g \in files : \E h \in files' : h.version = g.version
    BY <2>1
  <2>3. ASSUME NEW c \in Client
        PROVE  Stays(request[c])'
    <3>1. Stays(request[c])
      BY <1>3
    <3>2. TwoAbove(request[c]) => TwoAbove(request[c])'
      BY <2>1, <2>2 DEF TwoAbove
    <3> QED BY <2>1, <2>2, <3>1, <3>2 DEF Stays
  <2> QED BY <2>3 DEF ResolvedStays, Stays
<1>7. CASE CommitBuild /\ UNCHANGED <<epoch, files, stale, request, copy>>
  <2>1. db'.version = db.version + 1
    BY <1>7 DEF CommitBuild, NextVersion
  <2>2. \A c \in Client : Stays(request[c])'
    BY <1>2, <1>3, <1>4, <1>7, <2>1 DEF Stays, TwoAbove
  <2> QED BY <2>2 DEF ResolvedStays, Stays
<1>8. CASE DeleteStale
  <2>1. PICK k \in stale : files' = files \ {k} /\ UNCHANGED <<db, epoch, request>>
    BY <1>8 DEF DeleteStale, buildVars
  <2>2. k \in files /\ k \in Held /\ k.version \in Int
    BY <1>1 DEF TypeOK
  <2>3. /\ \E t \in Kept : t.version = db.version
        /\ k.version >= db.version \/ \E n \in Kept : k.version < n.version /\ n.version < db.version
        /\ k.version # db.version
    BY <1>8 DEF DeleteStale, PrunesRest
  <2>4. Kept \subseteq files'
    BY <2>1 DEF Kept
  <2>5. \A v \in Int : v <= k.version /\ k.version <= db.version =>
            \E g, h \in files' : v < g.version /\ g.version < h.version
    <3> SUFFICES ASSUME NEW v \in Int, v <= k.version, k.version <= db.version
                 PROVE  \E g, h \in files' : v < g.version /\ g.version < h.version
      OBVIOUS
    <3>1. PICK n \in Kept, t \in Kept : /\ k.version < n.version /\ n.version < db.version
                                        /\ t.version = db.version
      BY <1>2, <2>2, <2>3
    <3>2. n \in files' /\ t \in files' /\ n.version \in Int
      BY <1>1, <2>4, <3>1 DEF Kept
    <3> QED BY <2>2, <3>1, <3>2
  <2>6. ASSUME NEW c \in Client, request[c] # NoFile, request[c].epoch = epoch
        PROVE  (\E g \in files' : g.version = request[c].version) \/ TwoAbove(request[c])'
    <3> DEFINE f == request[c]
    <3>1. f.version \in Int /\ f.version <= db.version
          /\ \A g \in files : g.version > f.version => g.epoch = epoch
      BY <1>3, <1>4, <2>6 DEF Stays
    <3>2. (\E g \in files : g.version = f.version) \/ TwoAbove(f)
      BY <1>3, <2>6 DEF Stays
    <3>3. k.version > f.version => k.version <= db.version
      BY <2>2, <3>1 DEF FilesFollow
    <3>4. CASE f.version <= k.version
      <4>1. k.version <= db.version
        BY <2>2, <3>1, <3>3, <3>4
      <4>2. request'[c] = f
        BY <2>1
      <4>3. \E g, h \in files' : f.version < g.version /\ g.version < h.version
        BY <2>5, <3>1, <3>4, <4>1
      <4> QED BY <4>2, <4>3 DEF TwoAbove
    <3>5. CASE f.version > k.version
      BY <1>1, <2>1, <2>2, <3>1, <3>2, <3>5 DEF TwoAbove
    <3> QED BY <2>2, <3>1, <3>4, <3>5
  <2> QED BY <1>3, <2>1, <2>6 DEF ResolvedStays, Stays
<1>9. CASE UNCHANGED <<db, epoch, files>> /\ \A c \in Client :
              request'[c] \in {request[c], NoFile} \/ (request'[c] \in files /\ Newest(request'[c], files))
  <2>1. \A f \in files : Newest(f, files) => Stays(f)
    BY <1>1 DEF Newest, Stays, FilesFollow
  <2>2. \A c \in Client : Stays(request'[c])
    <3>1. Stays(NoFile)
      BY DEF Stays
    <3> QED BY <1>3, <1>9, <2>1, <3>1
  <2> QED BY <1>9, <2>2 DEF ResolvedStays, Stays, TwoAbove
<1> QED BY <1>5, <1>6, <1>7, <1>8, <1>9, StepEffect

-----------------------------------------------------------------------------
(* Theorems.                                                                *)

\* The invariant: files and browsers' copies follow the database, a publication
\* keeps the two newest files, and what was resolved stays below them.
THEOREM Invariance == Spec => []IInv
<1>1. Init => IInv
  <2> SUFFICES ASSUME Init PROVE IInv
    OBVIOUS
  <2>1. TypeOK
    BY BuildAssumption, MapAssumption, FS_EmptySet
       DEF Init, BuildInit, TypeOK, Idle, Stamp, Version
  <2>2. Held \subseteq {NoFile}
    BY DEF Init, Held
  <2>3. FilesFollow /\ VersionNamesContent
    BY <2>2 DEF Init, BuildInit, FilesFollow, VersionNamesContent, NoFile
  <2>4. OneFilePerVersion /\ EncodesCommitted /\ PrunesRest /\ ResolvedStays
    BY DEF Init, BuildInit, Idle, OneFilePerVersion, EncodesCommitted, PrunesRest, ResolvedStays
  <2> QED BY <2>1, <2>3, <2>4 DEF IInv
<1>2. IInv /\ [Next]_vars => IInv'
  BY TypeStep, OneFileStep, FollowStep, EncodesStep, NamesStep, PrunesStep, ResolvedStep DEF IInv
<1> QED BY <1>1, <1>2, PTL DEF Spec

\* An ETag names one map of one database, in files and in browsers, wherever
\* the server stopped between commit, write and deletions.
THEOREM ETagNamesMap == Spec => []VersionNamesContent
<1>1. IInv => VersionNamesContent
  BY DEF IInv
<1> QED BY <1>1, Invariance, PTL

\* Two distinct members make a finite set two large.
LEMMA AtLeastTwo ==
    ASSUME NEW S, IsFiniteSet(S), NEW g \in S, NEW h \in S, g # h
    PROVE  Cardinality(S) >= 2
<1>1. IsFiniteSet({g}) /\ Cardinality({g}) = 1
  BY FS_Singleton
<1>2. Cardinality({g} \cup {h}) = 2
  BY <1>1, FS_AddElement
<1>3. Cardinality({g} \cup {h}) <= Cardinality(S) /\ Cardinality(S) \in Nat
  BY FS_Subset, FS_CardinalityType
<1> QED BY <1>2, <1>3

\* The file a request resolved is there until two newer ones are, whatever
\* publications, failures and restarts come before the request opens it.
THEOREM ResolvedFilesStay == Spec => []ResolvedFileStays
<1>1. IInv => ResolvedFileStays
  <2> SUFFICES ASSUME IInv, NEW c \in Client, request[c] # NoFile, request[c].epoch = epoch,
                      ~ \E g \in files : g.version = request[c].version
               PROVE  Cardinality({g \in files : g.version > request[c].version}) >= 2
    BY DEF ResolvedFileStays
  <2> DEFINE f == request[c]
             above == {g \in files : g.version > f.version}
  <2>1. TwoAbove(f)
    BY DEF IInv, ResolvedStays
  <2>2. f.version \in Int /\ \A g \in files : g.version \in Int
    BY FileFields DEF IInv, TypeOK, NoFile
  <2>3. PICK g \in files, h \in files : f.version < g.version /\ g.version < h.version
    BY <2>1 DEF TwoAbove
  <2>4. g \in above /\ h \in above /\ g # h
    BY <2>2, <2>3
  <2>5. IsFiniteSet(above)
    BY FS_Subset DEF IInv, TypeOK
  <2> HIDE DEF above
  <2>6. Cardinality(above) >= 2
    BY <2>4, <2>5, AtLeastTwo
  <2> QED BY <2>6 DEF above
<1> QED BY <1>1, Invariance, PTL

\* A publication that runs to its end leaves its own file the newest and at most
\* one other, also over files of a replaced database.
THEOREM LastPublicationPrevails == Spec => PublicationPrevails
<1>1. IInv /\ [Next]_vars => [EndPublication =>
          /\ \E f \in files : Newest(f, files) /\ f.version = db.version
                              /\ f.epoch = epoch /\ f.parcels = db.parcels
          /\ Cardinality(files) <= 2]_vars
  <2> SUFFICES ASSUME IInv, EndPublication
               PROVE  /\ \E f \in files : Newest(f, files) /\ f.version = db.version
                                          /\ f.epoch = epoch /\ f.parcels = db.parcels
                      /\ Cardinality(files) <= 2
    OBVIOUS
  <2>1. Kept = files /\ build.pc = "pruning"
    BY DEF EndPublication, Kept
  <2>2. /\ \E f \in files : f.version = db.version /\ f.epoch = epoch /\ f.parcels = db.parcels
        /\ \A f \in files : f.version <= db.version
        /\ \A f, g \in files : f.version < db.version /\ g.version < db.version => f = g
    BY <2>1 DEF IInv, PrunesRest
  <2>3. PICK t \in files : t.version = db.version /\ t.epoch = epoch /\ t.parcels = db.parcels
    BY <2>2
  <2>4. Newest(t, files)
    BY <2>2, <2>3 DEF Newest
  <2>5. \A f \in files : f.version \in Int
    BY FileFields DEF IInv, TypeOK
  <2>6. db.version \in Int
    BY <2>3, <2>5
  <2>7. \A f \in files : f = t \/ f.version < db.version
    BY <2>2, <2>3, <2>5, <2>6 DEF IInv, OneFilePerVersion
  <2>8. \E n \in files : files = {t} \cup {n}
    <3>1. CASE \A f \in files : f = t
      BY <3>1
    <3>2. ASSUME NEW n \in files, n # t
          PROVE  files = {t} \cup {n}
      BY <2>2, <2>7, <3>2
    <3> QED BY <3>1, <3>2
  <2>9. Cardinality(files) <= 2
    <3>1. PICK n \in files : files = {t} \cup {n}
      BY <2>8
    <3>2. IsFiniteSet({t}) /\ Cardinality({t}) = 1
      BY FS_Singleton
    <3>3. Cardinality({t} \cup {n}) \in {1, 2}
      BY <3>2, FS_AddElement
    <3> QED BY <3>1, <3>3
  <2> QED BY <2>3, <2>4, <2>9
<1> QED BY <1>1, Invariance, PTL DEF Spec, PublicationPrevails
===============================================================================
