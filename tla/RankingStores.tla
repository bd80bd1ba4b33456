----------------------------- MODULE RankingStores -----------------------------
(***************************************************************************)
(* What the daemon learns from its user, and where it is kept: visits      *)
(* (frecency), latches, the query log and the blocklist, each a JSON file  *)
(* in the state directory, and beside them the directory of the index,     *)
(* opened or rebuilt at every start.  Requests of two clients, a shutdown  *)
(* that saves while they go on, crashes between any two steps.             *)
(*                                                                         *)
(* A crash is one of the process: what was written stays written.  Writes  *)
(* do not fail.                                                            *)
(***************************************************************************)
EXTENDS Integers, Sequences, FiniteSets, SequencesExt

CONSTANTS
    RsDocs,         \* documents: numbers, in the order of their ids
    RsClients,      \* connections
    RsRing,         \* MAX_VISITS_PER_DOC (10)
    RsLatchMax,     \* MAX_COUNT (50)
    RsLogMax,       \* entries the query log keeps (100)
    RsDays,         \* how many days pass, at most
    RsMaxRequests, RsMaxBoots

ASSUME RsAssumption ==
    /\ RsDocs \subseteq Nat /\ RsClients \cap {"main", "none"} = {}
    /\ RsRing \in Nat \ {0} /\ RsLatchMax \in Nat \ {0} /\ RsLogMax \in Nat \ {0}
    /\ RsMaxRequests \in Nat /\ RsMaxBoots \in Nat

VARIABLES
    rsUp,       \* down | opening | wiped | created | versioned | up
    rsStop,     \* the shutdown: no | the store it saves next | done
    rsMem,      \* the stores in memory: [visits, latch, log, block]
    rsDisk,     \* the files
    rsTmp,      \* the .tmp file of each store: written and not yet renamed
    rsReq,      \* each client's request under way
    rsDay,      \* today
    rsDir,      \* the index directory: [meta, version, print, schema]
    rsSchema,   \* the program that runs: its INDEX_VERSION and the fields of its plugins
    rsPromise,  \* what acknowledged requests promised: [hide, reset, click]
    rsLeft      \* requests and boots left

rsVars == <<rsUp, rsStop, rsMem, rsDisk, rsTmp, rsReq, rsDay, rsDir, rsSchema, rsPromise, rsLeft>>

RsNoReq == [op |-> "none"]
RsEmpty == [visits |-> [d \in RsDocs |-> <<>>], latch |-> [d \in RsDocs |-> 0], log |-> <<>>, block |-> {}]

-----------------------------------------------------------------------------
\* The stores.

\* bucket_weight, in tenths.
bucket_weight(age) ==
    CASE age =< 4 -> 10 [] age > 4 /\ age =< 14 -> 7 [] age > 14 /\ age =< 31 -> 5
      [] age > 31 /\ age =< 90 -> 3 [] OTHER -> 1

Raw(d) == FoldLeft(LAMBDA sum, day : sum + bucket_weight(rsDay - day), 0, rsMem.visits[d])

record_click(visits, d) ==
    LET v == Append(visits[d], rsDay)
    IN  [visits EXCEPT ![d] = SubSeq(v, IF Len(v) > RsRing THEN 2 ELSE 1, Len(v))]

remove_doc(visits, d) == [visits EXCEPT ![d] = <<>>]

\* top_docs: best first, ties by id.
top_docs(n) ==
    LET ids == {d \in RsDocs : Raw(d) > 0}
        s   == SetToSortSeq(ids, LAMBDA a, b : Raw(a) > Raw(b) \/ (Raw(a) = Raw(b) /\ a < b))
    IN  SubSeq(s, 1, IF Len(s) < n THEN Len(s) ELSE n)

\* A latch counts the clicks of a query on a document.
latch_record(latch, d) == [latch EXCEPT ![d] = IF @ < RsLatchMax THEN @ + 1 ELSE @]

latch_remove(latch, d) == [latch EXCEPT ![d] = 0]

\* The log moves a repeated query to its front.
record_query(log, q) ==
    LET l == <<q>> \o SelectSeq(log, LAMBDA e : e # q)
    IN  SubSeq(l, 1, IF Len(l) < RsLogMax THEN Len(l) ELSE RsLogMax)

-----------------------------------------------------------------------------
\* Files.  A save runs under the lock of its store.

RsStores == {"visits", "latch", "log", "block"}
NoTmp == [by |-> "none"]

\* save: the content goes to a .tmp file, which is then renamed.
SaveBegins_in_place(store, who, value) ==
    /\ rsTmp[store] = NoTmp
    /\ rsTmp' = [rsTmp EXCEPT ![store] = [by |-> who, value |-> value]]
    /\ rsDisk' = [rsDisk EXCEPT ![store] = RsEmpty[store]]

SaveBegins(store, who, value) ==
    /\ rsTmp[store] = NoTmp
    /\ rsTmp' = [rsTmp EXCEPT ![store] = [by |-> who, value |-> value]]
    /\ UNCHANGED rsDisk

SaveEnds(store, who) ==
    /\ rsTmp[store].by = who
    /\ rsDisk' = [rsDisk EXCEPT ![store] = rsTmp[store].value]
    /\ rsTmp' = [rsTmp EXCEPT ![store] = NoTmp]

NoDir == [meta |-> FALSE, version |-> 0, print |-> <<>>, schema |-> <<>>]

RsInit ==
    /\ rsUp = "down" /\ rsStop = "no" /\ rsMem = RsEmpty /\ rsDisk = RsEmpty
    /\ rsTmp = [s \in RsStores |-> NoTmp]
    /\ rsReq = [c \in RsClients |-> RsNoReq] /\ rsDay = 0
    /\ rsDir \in {NoDir, [meta |-> TRUE, version |-> 1, print |-> <<1, 2>>, schema |-> <<1, 2>>]}
    /\ rsSchema = <<1, 1>>
    /\ rsPromise = [hide |-> {}, reset |-> {}, click |-> {}]
    /\ rsLeft = [requests |-> RsMaxRequests, boots |-> RsMaxBoots]

-----------------------------------------------------------------------------
\* Start: the index directory (create_or_open_with_plugins), then the stores.

\* What is stamped by another version is wiped and made again.
NeedsRebuild_by_version == rsDir.version # rsSchema[1] \/ ~rsDir.meta

NeedsRebuild == rsDir.version # rsSchema[1] \/ rsDir.print # rsSchema \/ ~rsDir.meta

\* The program starts; it may be another version, or have other plugins.
RsBoot ==
    /\ rsUp = "down" /\ rsLeft.boots > 0
    /\ rsLeft' = [rsLeft EXCEPT !.boots = @ - 1]
    /\ \E schema \in {<<1, 1>>, <<1, 2>>, <<2, 1>>} : rsSchema' = schema
    /\ rsUp' = "opening" /\ rsStop' = "no"
    /\ UNCHANGED <<rsMem, rsDisk, rsTmp, rsReq, rsDay, rsDir, rsPromise>>

\* recreate_index_dir, Index::create and the two stamps: the process may die
\* after each of them, and the stamps come last.
IndexWiped_stamped ==
    /\ rsUp = "opening" /\ NeedsRebuild
    /\ rsDir' = [rsDir EXCEPT !.version = rsSchema[1], !.print = rsSchema]
    /\ rsUp' = "wiped"
    /\ UNCHANGED <<rsStop, rsMem, rsDisk, rsTmp, rsReq, rsDay, rsSchema, rsPromise, rsLeft>>

IndexWiped ==
    /\ rsUp = "opening" /\ NeedsRebuild
    /\ rsDir' = NoDir
    /\ rsUp' = "wiped"
    /\ UNCHANGED <<rsStop, rsMem, rsDisk, rsTmp, rsReq, rsDay, rsSchema, rsPromise, rsLeft>>

IndexCreated ==
    /\ rsUp = "wiped"
    /\ rsDir' = [rsDir EXCEPT !.meta = TRUE, !.schema = rsSchema]
    /\ rsUp' = "created"
    /\ UNCHANGED <<rsStop, rsMem, rsDisk, rsTmp, rsReq, rsDay, rsSchema, rsPromise, rsLeft>>

VersionStamped ==
    /\ rsUp = "created"
    /\ rsDir' = [rsDir EXCEPT !.version = rsSchema[1]]
    /\ rsUp' = "versioned"
    /\ UNCHANGED <<rsStop, rsMem, rsDisk, rsTmp, rsReq, rsDay, rsSchema, rsPromise, rsLeft>>

\* load: a file that is not there is an empty store.
Load == rsMem' = rsDisk

IndexReady ==
    /\ \/ rsUp = "opening" /\ ~NeedsRebuild /\ UNCHANGED rsDir
       \/ rsUp = "versioned" /\ rsDir' = [rsDir EXCEPT !.print = rsSchema]
    /\ rsUp' = "up" /\ Load
    /\ UNCHANGED <<rsStop, rsDisk, rsTmp, rsReq, rsDay, rsSchema, rsPromise, rsLeft>>

-----------------------------------------------------------------------------
\* Requests: a client has one under way; locks are the stores' own.

Locked(store) == rsTmp[store] # NoTmp

RsTake ==
    /\ rsUp = "up" /\ rsLeft.requests > 0
    /\ rsLeft' = [rsLeft EXCEPT !.requests = @ - 1]

\* What a click takes back: a promised reset, and one that is under way.
Known(d) ==
    /\ rsPromise' = [rsPromise EXCEPT !.reset = @ \ {d}]
    /\ rsReq' = [c \in RsClients |-> IF rsReq[c].op \in {"reset", "reset2"} /\ rsReq[c].doc = d
                                     THEN [rsReq[c] EXCEPT !.again = TRUE] ELSE rsReq[c]]

\* The stores in memory, no file.
RecordClick(d) ==
    /\ RsTake /\ ~Locked("visits") /\ Known(d)
    /\ rsMem' = [rsMem EXCEPT !.visits = record_click(@, d)]
    /\ UNCHANGED <<rsUp, rsStop, rsDisk, rsTmp, rsDay, rsDir, rsSchema>>

\* The query is the document's name here: the log keeps queries apart.
RecordQueryClick(d) ==
    /\ RsTake /\ ~Locked("latch") /\ ~Locked("log") /\ Known(d)
    /\ rsMem' = [rsMem EXCEPT !.latch = latch_record(@, d), !.log = record_query(@, d)]
    /\ UNCHANGED <<rsUp, rsStop, rsDisk, rsTmp, rsDay, rsDir, rsSchema>>

\* SetDocHidden: saved at once when it changed anything.
SetDocHidden(c, d, hidden) ==
    LET block == IF hidden THEN rsMem.block \cup {d} ELSE rsMem.block \ {d}
    IN  /\ RsTake /\ rsReq[c] = RsNoReq
        /\ block # rsMem.block
        /\ SaveBegins("block", c, block)
        /\ rsMem' = [rsMem EXCEPT !.block = block]
        /\ rsReq' = [rsReq EXCEPT ![c] = [op |-> "hide", doc |-> d, hidden |-> hidden]]
        /\ UNCHANGED <<rsUp, rsStop, rsDay, rsDir, rsSchema, rsPromise>>

HideSaved(c) ==
    /\ rsReq[c].op = "hide" /\ SaveEnds("block", c)
    /\ rsPromise' = [rsPromise EXCEPT !.hide = IF rsReq[c].hidden THEN @ \cup {rsReq[c].doc} ELSE @ \ {rsReq[c].doc}]
    /\ rsReq' = [rsReq EXCEPT ![c] = RsNoReq]
    /\ UNCHANGED <<rsUp, rsStop, rsMem, rsDay, rsDir, rsSchema, rsLeft>>

\* ResetDocRanking: visits, then latches, each saved when it changed.
ResetVisits(c, d) ==
    /\ RsTake /\ rsReq[c] = RsNoReq /\ ~Locked("visits")
    /\ rsMem' = [rsMem EXCEPT !.visits = remove_doc(@, d)]
    /\ IF rsMem.visits[d] # <<>> THEN SaveBegins("visits", c, rsMem'.visits) ELSE UNCHANGED <<rsTmp, rsDisk>>
    /\ rsReq' = [rsReq EXCEPT ![c] = [op |-> "reset", doc |-> d, again |-> FALSE]]
    /\ rsPromise' = [rsPromise EXCEPT !.click = @ \ {d}]
    /\ UNCHANGED <<rsUp, rsStop, rsDay, rsDir, rsSchema>>

ResetVisitsSaved(c) ==
    /\ rsReq[c].op = "reset" /\ SaveEnds("visits", c)
    /\ UNCHANGED <<rsUp, rsStop, rsMem, rsReq, rsDay, rsDir, rsSchema, rsPromise, rsLeft>>

ResetLatch_memory(c) ==
    /\ rsReq[c].op = "reset" /\ rsTmp["visits"].by # c /\ ~Locked("latch")
    /\ rsMem' = [rsMem EXCEPT !.latch = latch_remove(@, rsReq[c].doc)]
    /\ rsReq' = [rsReq EXCEPT ![c].op = "reset2"]
    /\ UNCHANGED <<rsUp, rsStop, rsDisk, rsTmp, rsDay, rsDir, rsSchema, rsPromise, rsLeft>>

ResetLatch(c) ==
    /\ rsReq[c].op = "reset" /\ rsTmp["visits"].by # c /\ ~Locked("latch")
    /\ rsMem' = [rsMem EXCEPT !.latch = latch_remove(@, rsReq[c].doc)]
    /\ IF rsMem.latch[rsReq[c].doc] > 0 THEN SaveBegins("latch", c, rsMem'.latch) ELSE UNCHANGED <<rsTmp, rsDisk>>
    /\ rsReq' = [rsReq EXCEPT ![c].op = "reset2"]
    /\ UNCHANGED <<rsUp, rsStop, rsDay, rsDir, rsSchema, rsPromise, rsLeft>>

\* The answer.
ResetDone(c) ==
    /\ rsReq[c].op = "reset2"
    /\ IF rsTmp["latch"].by = c THEN SaveEnds("latch", c) ELSE UNCHANGED <<rsDisk, rsTmp>>
    /\ rsPromise' = [rsPromise EXCEPT !.reset =
           IF rsReq[c].again THEN @ ELSE @ \cup {rsReq[c].doc}]
    /\ rsReq' = [rsReq EXCEPT ![c] = RsNoReq]
    /\ UNCHANGED <<rsUp, rsStop, rsMem, rsDay, rsDir, rsSchema, rsLeft>>

\* Recents: two pages' worth, without the hidden and the dead, then cut.
Recents_one_page(live, limit) == SelectSeq(top_docs(limit), LAMBDA d : d \notin rsMem.block /\ d \in live)

Recents(live, limit) ==
    LET ids == SelectSeq(top_docs(2 * limit), LAMBDA d : d \notin rsMem.block /\ d \in live)
    IN  SubSeq(ids, 1, IF Len(ids) < limit THEN Len(ids) ELSE limit)

-----------------------------------------------------------------------------
\* Shutdown: visits, latches and the log are saved one after the other, while
\* the clients are still served; then the process ends.
RsShutdown ==
    /\ rsUp = "up" /\ rsStop = "no" /\ rsStop' = "visits"
    /\ rsPromise' = [rsPromise EXCEPT !.click = {d \in RsDocs : rsMem.visits[d] # <<>>}]
    /\ UNCHANGED <<rsUp, rsMem, rsDisk, rsTmp, rsReq, rsDay, rsDir, rsSchema, rsLeft>>

ShutdownSaves ==
    /\ rsUp = "up" /\ rsStop \in {"visits", "latch", "log"}
    /\ SaveBegins(rsStop, "main", rsMem[rsStop])
    /\ UNCHANGED <<rsUp, rsStop, rsMem, rsReq, rsDay, rsDir, rsSchema, rsPromise, rsLeft>>

ShutdownSaved ==
    /\ rsUp = "up" /\ rsStop \in {"visits", "latch", "log"}
    /\ SaveEnds(rsStop, "main")
    /\ rsStop' = CASE rsStop = "visits" -> "latch" [] rsStop = "latch" -> "log" [] OTHER -> "done"
    /\ UNCHANGED <<rsUp, rsMem, rsReq, rsDay, rsDir, rsSchema, rsPromise, rsLeft>>

\* The process ends, in order or not; a .tmp file left behind is never read.
ProcessEnds ==
    /\ rsUp # "down"
    /\ rsUp' = "down" /\ rsTmp' = [s \in RsStores |-> NoTmp] /\ rsMem' = RsEmpty
    /\ rsReq' = [c \in RsClients |-> RsNoReq]
    /\ rsPromise' = [rsPromise EXCEPT !.click = IF rsStop = "done" THEN @ ELSE {}]
    /\ UNCHANGED <<rsStop, rsDisk, rsDay, rsDir, rsSchema, rsLeft>>

DayPasses ==
    /\ rsUp = "up" /\ rsDay < RsDays /\ rsDay' = rsDay + 5
    /\ UNCHANGED <<rsUp, rsStop, rsMem, rsDisk, rsTmp, rsReq, rsDir, rsSchema, rsPromise, rsLeft>>

RsNext ==
    \/ RsBoot \/ IndexWiped \/ IndexCreated \/ VersionStamped \/ IndexReady
    \/ \E d \in RsDocs : RecordClick(d) \/ RecordQueryClick(d)
    \/ \E c \in RsClients :
           \/ \E d \in RsDocs : ResetVisits(c, d) \/ \E h \in BOOLEAN : SetDocHidden(c, d, h)
           \/ HideSaved(c) \/ ResetVisitsSaved(c) \/ ResetLatch(c) \/ ResetDone(c)
    \/ RsShutdown \/ ShutdownSaves \/ ShutdownSaved \/ ProcessEnds \/ DayPasses

RsSpec == RsInit /\ [][RsNext]_rsVars

-----------------------------------------------------------------------------
RsTypeOK ==
    /\ rsUp \in {"down", "opening", "wiped", "created", "versioned", "up"}
    /\ rsStop \in {"no", "visits", "latch", "log", "done"}
    /\ \A d \in RsDocs : Len(rsMem.visits[d]) =< RsRing
    /\ Len(rsMem.log) =< RsLogMax
    /\ rsMem.latch \in [RsDocs -> 0 .. RsLatchMax] /\ rsMem.block \subseteq RsDocs

\* A document whose hiding was acknowledged is hidden after every crash, and
\* one that was unhidden is not: requests of other clients, resets and the
\* saves of a shutdown never bring an older list back.
HiddenForGood == rsDisk.block = rsPromise.hide

\* A reset that was acknowledged is on disk whole: no later save of either
\* store, a concurrent shutdown's included, restores what it removed.
ResetForGood == \A d \in rsPromise.reset : rsDisk.visits[d] = <<>> /\ rsDisk.latch[d] = 0

\* What had been learnt when a shutdown began is on disk when it has ended,
\* but for what was reset on the way.
LearntIsKept == rsStop = "done" => \A d \in rsPromise.click : rsDisk.visits[d] # <<>>

\* The index that is served has the schema of the program that serves it,
\* wherever an earlier rebuild was cut off.
IndexIsOurs == rsUp = "up" => rsDir.meta /\ rsDir.schema = rsSchema

\* One hidden or deleted document among the best does not empty a page of one
\* recent document: the best that can be shown is shown.
RecentsFilled ==
    \A live \in SUBSET RsDocs :
        LET frecent == {d \in RsDocs : rsMem.visits[d] # <<>>}
            shown   == (frecent \cap live) \ rsMem.block
        IN  Cardinality(frecent \ shown) =< 1 /\ shown # {} =>
                \E d \in shown : Recents(live, 1) = <<d>> /\ \A e \in shown : Raw(e) =< Raw(d)

\* What the user taught the daemon outlives every end of the process.
StoresDurable == HiddenForGood /\ ResetForGood /\ LearntIsKept /\ IndexIsOurs

\* The five together: what the user taught the daemon is kept, and used.
StoresKept == StoresDurable /\ RecentsFilled
================================================================================
