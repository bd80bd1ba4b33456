------------------------------ MODULE SearchCache ------------------------------
(***************************************************************************)
(* The result cache of the lexical search (SearchHandle), keyed by query   *)
(* and reload epoch: searches run on blocking threads while the writer     *)
(* reloads the reader, and a search that was superseded still fills in     *)
(* its result when it ends.                                                *)
(***************************************************************************)
EXTENDS Integers, FiniteSets

CONSTANTS
    CrSearchers,    \* searches in flight
    CrQueries,
    CrCapacity,     \* RESULT_CACHE_MAX
    CrPermits,      \* searches that run at a time
    CrMaxReloads

ASSUME CrAssumption == CrCapacity \in Nat \ {0} /\ CrPermits \in Nat \ {0} /\ CrMaxReloads \in Nat

VARIABLES
    crGen,          \* the generation the reader shows
    crEpoch,        \* reload_epoch
    crCache,        \* the cached results: [q, epoch, gen]
    crSearch        \* each search: [pc, q, epoch, gen, since]

crVars == <<crGen, crEpoch, crCache, crSearch>>

CrIdle == [pc |-> "idle"]

CrInit ==
    /\ crGen = 0 /\ crEpoch = 0 /\ crCache = {}
    /\ crSearch = [s \in CrSearchers |-> CrIdle]

\* reload, first half: the reader shows the last commit.
ReaderReloads ==
    /\ crGen < CrMaxReloads /\ crGen = crEpoch
    /\ crGen' = crGen + 1
    /\ UNCHANGED <<crEpoch, crCache, crSearch>>

\* reload, second half: the epoch follows.
EpochFollows ==
    /\ crEpoch < crGen
    /\ crEpoch' = crEpoch + 1
    /\ UNCHANGED <<crGen, crCache, crSearch>>

\* ResultCache::get.
Cached(q, epoch) == {e \in crCache : e.q = q /\ e.epoch = epoch}

\* A search takes its key and looks it up; since is the epoch announced by then.
CrBegin(s, q) ==
    /\ crSearch[s].pc = "idle"
    /\ crSearch' = [crSearch EXCEPT ![s] =
           IF Cached(q, crEpoch) # {}
           THEN [pc |-> "done", gen |-> (CHOOSE e \in Cached(q, crEpoch) : TRUE).gen, since |-> crEpoch]
           ELSE [pc |-> "waits", q |-> q, epoch |-> crEpoch, since |-> crEpoch]]
    /\ UNCHANGED <<crGen, crEpoch, crCache>>

\* run_blocking: with a permit, the reader as it is now is searched.
CrRuns(s) ==
    /\ crSearch[s].pc = "waits"
    /\ Cardinality({t \in CrSearchers : crSearch[t].pc = "found"}) < CrPermits
    /\ crSearch' = [crSearch EXCEPT ![s] = [pc |-> "found", q |-> @.q, epoch |-> @.epoch, since |-> @.since, gen |-> crGen]]
    /\ UNCHANGED <<crGen, crEpoch, crCache>>

\* The key an answer is kept under.
CrKey_now(s) == crEpoch

CrKey(s) == crSearch[s].epoch

\* A full cache is emptied before an answer is put into it.
MadeRoom_late(cache) == IF Cardinality(cache) > CrCapacity THEN {} ELSE cache

MadeRoom(cache) == IF Cardinality(cache) >= CrCapacity THEN {} ELSE cache

\* ResultCache::put.
CrPut(s) ==
    /\ crSearch[s].pc = "found"
    /\ LET old == {e \in crCache : e.q = crSearch[s].q /\ e.epoch = CrKey(s)}
           had == MadeRoom(crCache) \ old
       IN  crCache' = had \cup {[q |-> crSearch[s].q, epoch |-> CrKey(s), gen |-> crSearch[s].gen]}
    /\ crSearch' = [crSearch EXCEPT ![s] = [pc |-> "done", gen |-> @.gen, since |-> @.since]]
    /\ UNCHANGED <<crGen, crEpoch>>

CrReturn(s) ==
    /\ crSearch[s].pc = "done"
    /\ crSearch' = [crSearch EXCEPT ![s] = CrIdle]
    /\ UNCHANGED <<crGen, crEpoch, crCache>>

CrNext ==
    \/ ReaderReloads \/ EpochFollows
    \/ \E s \in CrSearchers : CrRuns(s) \/ CrPut(s) \/ CrReturn(s) \/ \E q \in CrQueries : CrBegin(s, q)

CrSpec == CrInit /\ [][CrNext]_crVars

CrTypeOK ==
    /\ crEpoch =< crGen /\ crGen =< CrMaxReloads
    /\ Cardinality(crCache) =< CrCapacity
    /\ crSearch \in [CrSearchers -> [pc : {"idle"}] \cup [pc : {"waits"}, q : CrQueries, epoch : Nat, since : Nat]
           \cup [pc : {"found"}, q : CrQueries, epoch : Nat, since : Nat, gen : Nat] \cup [pc : {"done"}, gen : Nat, since : Nat]]

\* A search never answers with less than the index had announced when it was
\* asked: whichever search filled the cache, on whichever side of a reload,
\* the entry is at least as new as its key.
CacheNotStale == \A s \in CrSearchers : crSearch[s].pc = "done" => crSearch[s].gen >= crSearch[s].since
================================================================================
