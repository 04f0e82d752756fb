------------------------------ MODULE CachedReads ------------------------------
(***************************************************************************)
(* VersionedCache of src/src/api/cache.py and the endpoints that answer    *)
(* through it: requests read data_version, look their key up under that    *)
(* version, and compute and store the answer when it is not there.         *)
(*                                                                         *)
(* The requests here all have one key; several versions of its answer may  *)
(* be cached.  An answer is what it was computed from: the derived tables  *)
(* (some endpoints aggregate those) and the sales themselves (others scan  *)
(* the transaction table).  Between any two steps of a request, every      *)
(* other request, the builder and an ingest may run.                       *)
(***************************************************************************)
EXTENDS DerivedBuild, SequencesExt

CONSTANTS
    Reader,     \* requests being served at once
    MaxSize     \* the cache's maxsize

ASSUME CacheAssumption == MaxSize \in Nat \ {0}

VARIABLES
    cache,      \* the OrderedDict, as entries in order, least recent first
    serving     \* serving[r]: how far r has come

cacheVars == <<buildVars, cache, serving>>

Answer == [derived: Stamp, sales: Stamp]
Entry == [version: Version, answer: Answer]

NoAnswer == [derived |-> 0, sales |-> 0]
NoRequest == [pc |-> "idle", version |-> 0, answer |-> NoAnswer, asked |-> NoAnswer]

\* What a request started now may expect to see.
Current == [derived |-> db.hoods, sales |-> sales]

\* Mutant: the key leaves the version out.
AnyEntry(version) == {i \in DOMAIN cache : TRUE}

Entries(version) == {i \in DOMAIN cache : cache[i].version = version}

\* move_to_end
Used(i) == Append(RemoveAt(cache, i), cache[i])

\* popitem(last=False) while the cache is too large.
Evicted(entries) ==
    IF Len(entries) > MaxSize
    THEN SubSeq(entries, Len(entries) - MaxSize + 1, Len(entries))
    ELSE entries

ReadVersion(r) ==
    /\ serving[r].pc = "idle"
    /\ serving' = [serving EXCEPT ![r] = [NoRequest EXCEPT
                      !.pc = "versioned", !.version = db.version, !.asked = Current]]
    /\ UNCHANGED <<buildVars, cache>>

Hit(r) ==
    /\ serving[r].pc = "versioned"
    /\ \E i \in Entries(serving[r].version) :
          /\ serving' = [serving EXCEPT ![r].pc = "answered", ![r].answer = cache[i].answer]
          /\ cache' = Used(i)
    /\ UNCHANGED buildVars

Miss(r) ==
    /\ serving[r].pc = "versioned"
    /\ Entries(serving[r].version) = {}
    /\ serving' = [serving EXCEPT ![r].pc = "computing"]
    /\ UNCHANGED <<buildVars, cache>>

\* await compute(): its queries see what is committed when they run.
Compute(r) ==
    /\ serving[r].pc = "computing"
    /\ serving' = [serving EXCEPT ![r].pc = "computed", ![r].answer = Current]
    /\ UNCHANGED <<buildVars, cache>>

\* An entry another request stored meanwhile is replaced in its place.
Store(r) ==
    /\ serving[r].pc = "computed"
    /\ LET entry == [version |-> serving[r].version, answer |-> serving[r].answer]
           old == Entries(entry.version)
       IN cache' = IF old # {} THEN [i \in DOMAIN cache |-> IF i \in old THEN entry ELSE cache[i]]
                               ELSE Evicted(Append(cache, entry))
    /\ serving' = [serving EXCEPT ![r].pc = "answered"]
    /\ UNCHANGED buildVars

Finish(r) ==
    /\ serving[r].pc = "answered"
    /\ serving' = [serving EXCEPT ![r] = NoRequest]
    /\ UNCHANGED <<buildVars, cache>>

\* The map file that follows the commit is MapPublication's subject.
EndBuild ==
    /\ build.pc = "committed"
    /\ build' = Idle
    /\ UNCHANGED <<sales, db, faults, cache, serving>>

\* The server stops and starts: the cache and the requests are gone, an open
\* build is rolled back.
CacheRestart ==
    /\ faults < MaxFaults /\ ~LastBuild
    /\ faults' = faults + 1
    /\ build' = Idle
    /\ cache' = <<>>
    /\ serving' = [r \in Reader |-> NoRequest]
    /\ UNCHANGED <<sales, db>>

CacheInit ==
    /\ BuildInit
    /\ cache = <<>>
    /\ serving = [r \in Reader |-> NoRequest]

Serve(r) == Hit(r) \/ Miss(r) \/ Compute(r) \/ Store(r) \/ Finish(r)

CacheNext ==
    \/ BuildStep /\ UNCHANGED <<cache, serving>>
    \/ EndBuild
    \/ CacheRestart
    \/ \E r \in Reader : ReadVersion(r) \/ Serve(r)

\* A started request is served; nothing makes clients send another.
CacheFairness ==
    /\ BuildFairness
    /\ WF_cacheVars(EndBuild)
    /\ \A r \in Reader : WF_cacheVars(Serve(r))

CacheSpec == CacheInit /\ [][CacheNext]_cacheVars /\ CacheFairness

-----------------------------------------------------------------------------

\* A request is never answered from derived tables older than those committed
\* when it started, although a slow computation may store its answer under a
\* version that has been superseded meanwhile.
DerivedNeverStale ==
    \A r \in Reader :
        serving[r].pc = "answered" => serving[r].answer.derived >= serving[r].asked.derived

\* Once ingests stop and a build completes, every answer reflects all of them:
\* an entry computed from fewer is never served again.
AnswersCatchUp ==
    <>[](\A r \in Reader : serving[r].pc = "answered" => serving[r].answer.sales = sales)
================================================================================
