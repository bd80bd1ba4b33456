------------------------------ MODULE IndexWriter ------------------------------
(***************************************************************************)
(* The index writer service: the task writer_loop of                       *)
(* crates/lixun-indexer/src/index_service.rs, the only owner of the        *)
(* Tantivy writer.  Producers (watcher, crawler, sources, OCR) queue       *)
(* mutations on a bounded channel; the loop applies them to the writer,    *)
(* commits on a timer or on request, reloads the reader, answers the       *)
(* waiting calls and hands the batch to the broadcaster.                   *)
(*                                                                         *)
(* The Tantivy index is three functions from document ids to documents:    *)
(* staged (what the writer would commit), durable (what is on disk) and    *)
(* visible (what the reader serves).  Data is cut down to what the code    *)
(* decides on: a document is its mtime and its body.                       *)
(***************************************************************************)
EXTENDS Naturals, Sequences, FiniteSets

CONSTANTS
    Ids,              \* document ids, each the sequence of its path components
    Instances,        \* source instances
    InstanceOf,       \* the source instance of each id
    Mtimes,           \* file modification times
    Bodies,           \* extracted or OCR texts
    NoBody, NoDoc, NoMtime,
    ChannelCapacity,  \* of the mutation channel (4096 in the code)
    InitialContents,  \* what the index may hold when the service starts
    Menu,             \* the mutations producers may send
    MaxSends,         \* bound: how many of them are sent
    Faults            \* which fallible calls may fail, and whether the process may die

Docs == [mtime : Mtimes, body : Bodies \cup {NoBody}]

Contents == [Ids -> Docs \cup {NoDoc}]

FaultKinds == {"upsert", "scan", "read", "commit", "reload", "crash"}

(***************************************************************************)
(* enum Mutation.  Upsert and Delete are the one-element cases of          *)
(* UpsertMany and DeleteMany; the documents of one UpsertMany have         *)
(* different ids, so it is a function on a set of ids.                     *)
(***************************************************************************)
UpsertMutation  == [op : {"upsert"}, docs : UNION {[D -> Docs] : D \in SUBSET Ids}]
DeleteMutation  == [op : {"delete"}, ids : SUBSET Ids]
SubtreeMutation == [op : {"delete_subtree"}, prefix : Ids]
PurgeMutation   == [op : {"delete_source_instance"}, instance : Instances]
BodyMutation    == [op : {"upsert_body"}, id : Ids, body : Bodies,
                    expected : Mtimes \cup {NoMtime}]
RequestMutation == [op : {"barrier", "applied", "commit_now"}]
ShutdownMutation == [op : {"shutdown"}]

Mutation == UpsertMutation \cup DeleteMutation \cup SubtreeMutation
            \cup PurgeMutation \cup BodyMutation \cup RequestMutation
            \cup ShutdownMutation

Calls == 1..MaxSends

ASSUME WriterAssumption ==
    /\ NoDoc \notin Docs
    /\ InstanceOf \in [Ids -> Instances]
    /\ Mtimes \subseteq Nat
    /\ NoMtime \notin Mtimes
    /\ NoBody \notin Bodies
    /\ ChannelCapacity \in Nat \ {0}
    /\ MaxSends \in Nat
    /\ InitialContents \subseteq Contents
    /\ Menu \subseteq Mutation
    /\ Faults \subseteq FaultKinds

VARIABLES
    \* the channel
    queue,        \* mutations sent and not yet received
    sent,         \* how many were sent; numbers the calls
    \* the task
    phase,        \* "running", "draining", "finishing" or "stopped"
    dirty,        \* applied mutations await a commit
    generation,   \* successful commits of this process
    barriers,     \* pending_barriers: calls waiting for a commit
    acked,        \* calls that got a generation as reply
    upserts,      \* pending_batch.upserts: per id, the documents in order
    deletes,      \* pending_batch.deletes
    tombstones,   \* subtree_tombstones
    \* the index
    staged, durable, visible,
    \* the broadcaster
    outbox,       \* batches handed to spawn_blocking and not yet consumed
    purged        \* history: ids removed by instance since the last publication

channelVars == <<queue, sent>>
batchVars   == <<upserts, deletes, purged>>
indexVars   == <<durable, visible>>
vars == <<queue, sent, phase, dirty, generation, barriers, acked, upserts,
          deletes, tombstones, staged, durable, visible, outbox, purged>>

--------------------------------------------------------------------------------
(***************************************************************************)
(* Helpers of the loop.                                                    *)
(***************************************************************************)

\* id equals the prefix or continues it with a '/'.
id_in_subtree(id, prefix) ==
    /\ Len(prefix) <= Len(id)
    /\ SubSeq(id, 1, Len(prefix)) = prefix

id_tombstoned(id) == \E p \in tombstones : id_in_subtree(id, p)

\* Mutant: the batch is forgotten.
collect_subtree_ids_committed_only(prefix, scanned) ==
    {id \in Ids : id_in_subtree(id, prefix) /\ scanned /\ visible[id] # NoDoc}

\* Ids under the prefix that the reader serves or the batch upserts.  When
\* all_doc_ids() fails (scanned is FALSE) only the batch is looked at.
collect_subtree_ids(prefix, scanned) ==
    {id \in Ids : /\ id_in_subtree(id, prefix)
                  /\ \/ scanned /\ visible[id] # NoDoc
                     \/ upserts[id] # <<>>}

Fallible(kind) == IF kind \in Faults THEN BOOLEAN ELSE {TRUE}

NoUpserts == [id \in Ids |-> <<>>]

BatchIsEmpty == upserts = NoUpserts /\ deletes = {}

\* LixunIndex::upsert deletes the id's term first, so a document that is
\* rejected afterwards (an unregistered plugin field, a closed writer) leaves
\* the id without a document.
WithUpserts(docs, added, rejected) ==
    [id \in Ids |-> IF id \in added THEN docs[id]
                    ELSE IF id \in rejected THEN NoDoc
                    ELSE staged[id]]

\* Mutant: an upsert is applied and not recorded in the batch.
WithPushed_unrecorded(docs, added) == upserts

WithPushed(docs, added) ==
    [id \in Ids |-> IF id \in added THEN Append(upserts[id], docs[id])
                    ELSE upserts[id]]

Without(ids) == [id \in Ids |-> IF id \in ids THEN NoDoc ELSE staged[id]]

--------------------------------------------------------------------------------
(***************************************************************************)
(* Applying a mutation.  writer_loop and the shutdown drain apply the same *)
(* calls; the drain marks the writer dirty for every mutation, also one    *)
(* that was dropped or failed.                                             *)
(***************************************************************************)
Draining == phase = "draining"

Upsert(m) ==
    \E rejected \in IF "upsert" \in Faults THEN SUBSET DOMAIN m.docs ELSE {{}} :
        LET live  == {id \in DOMAIN m.docs : ~ id_tombstoned(id)}
            added == live \ rejected
        IN  /\ staged' = WithUpserts(m.docs, added, live \cap rejected)
            /\ upserts' = WithPushed(m.docs, added)
            /\ dirty' = (dirty \/ added # {} \/ (Draining /\ DOMAIN m.docs # {}))
            /\ UNCHANGED <<deletes, tombstones, purged>>

\* Mutant: a delete is applied and not recorded in the batch.
Delete_unrecorded(m) ==
    /\ staged' = Without(m.ids)
    /\ dirty' = (dirty \/ m.ids # {})
    /\ UNCHANGED <<upserts, deletes, tombstones, purged>>

Delete(m) ==
    /\ staged' = Without(m.ids)
    /\ deletes' = deletes \cup m.ids
    /\ dirty' = (dirty \/ m.ids # {})
    /\ UNCHANGED <<upserts, tombstones, purged>>

DeleteSubtree(m) ==
    \E scanned \in Fallible("scan") :
        LET matched == collect_subtree_ids(m.prefix, scanned)
        IN  /\ upserts' = [id \in Ids |-> IF id_in_subtree(id, m.prefix)
                                          THEN <<>> ELSE upserts[id]]
            /\ staged' = Without(matched)
            /\ deletes' = deletes \cup matched
            /\ dirty' = (dirty \/ matched # {})
            /\ tombstones' = tombstones \cup {m.prefix}
            /\ UNCHANGED purged

\* Mutant: the instance is broadcast as if it were a document id.
DeleteSourceInstance_broadcast(m) ==
    LET gone == {id \in Ids : InstanceOf[id] = m.instance}
    IN  /\ staged' = Without(gone)
        /\ purged' = purged \cup gone
        /\ deletes' = deletes \cup {m.instance}
        /\ dirty' = TRUE
        /\ UNCHANGED <<upserts, tombstones>>

\* No broadcast: the ids are not known here.
DeleteSourceInstance(m) ==
    LET gone == {id \in Ids : InstanceOf[id] = m.instance}
    IN  /\ staged' = Without(gone)
        /\ purged' = purged \cup gone
        /\ dirty' = TRUE
        /\ UNCHANGED <<upserts, deletes, tombstones>>

\* The stale-snapshot guard of apply_upsert_body.
StaleBody(m) ==
    /\ m.expected # NoMtime
    /\ \/ visible[m.id].mtime > m.expected
       \/ \E k \in DOMAIN upserts[m.id] : upserts[m.id][k].mtime > m.expected

\* Mutant: the batch gets the document as it was before its body was set.
apply_upsert_body_old_copy(m, added) ==
    LET doc == [visible[m.id] EXCEPT !.body = m.body]
        one == IF added THEN {m.id} ELSE {}
    IN  /\ staged' = WithUpserts([id \in {m.id} |-> doc], one, {m.id} \ one)
        /\ upserts' = WithPushed(visible, one)
        /\ dirty' = (dirty \/ added)
        /\ UNCHANGED <<deletes, tombstones, purged>>

\* Read-modify-write against the reader's copy of the document.
apply_upsert_body(m, added) ==
    LET doc == [visible[m.id] EXCEPT !.body = m.body]
        one == IF added THEN {m.id} ELSE {}
    IN  /\ staged' = WithUpserts([id \in {m.id} |-> doc], one, {m.id} \ one)
        /\ upserts' = WithPushed([id \in {m.id} |-> doc], one)
        /\ dirty' = (dirty \/ added)
        /\ UNCHANGED <<deletes, tombstones, purged>>

UpsertBodySkipped(m) ==
    /\ \/ id_tombstoned(m.id)
       \/ visible[m.id] = NoDoc
       \/ visible[m.id] # NoDoc /\ StaleBody(m)
       \/ "read" \in Faults
    /\ UNCHANGED <<staged, upserts, dirty, deletes, tombstones, purged>>

UpsertBodyApplied(m) ==
    /\ ~ id_tombstoned(m.id)
    /\ visible[m.id] # NoDoc
    /\ ~ StaleBody(m)
    /\ \E added \in Fallible("upsert") : apply_upsert_body(m, added)

UpsertBody(m) == UpsertBodySkipped(m) \/ UpsertBodyApplied(m)

Apply(m) ==
    \/ m.op = "upsert" /\ Upsert(m)
    \/ m.op = "delete" /\ Delete(m)
    \/ m.op = "delete_subtree" /\ DeleteSubtree(m)
    \/ m.op = "delete_source_instance" /\ DeleteSourceInstance(m)
    \/ m.op = "upsert_body" /\ UpsertBody(m)

--------------------------------------------------------------------------------
(***************************************************************************)
(* do_commit followed by flush_post_commit.                                *)
(***************************************************************************)

\* Mutant: the reader is not reloaded before the calls are answered.
do_commit_ok_no_reload(waiting) ==
    /\ durable' = staged
    /\ UNCHANGED visible
    /\ generation' = generation + 1
    /\ dirty' = FALSE
    /\ tombstones' = {}
    /\ acked' = acked \cup waiting
    /\ barriers' = {}

\* Commit and reload succeed: the waiting calls (pending_barriers, plus the
\* caller of commit_now) are answered after the reload.
do_commit_ok(waiting) ==
    /\ durable' = staged
    /\ visible' = staged
    /\ generation' = generation + 1
    /\ dirty' = FALSE
    /\ tombstones' = {}
    /\ acked' = acked \cup waiting
    /\ barriers' = {}

\* Mutant: the flag is cleared although the commit failed.
do_commit_failed_clean(waiting) ==
    /\ \/ "commit" \in Faults /\ UNCHANGED durable
       \/ "reload" \in Faults /\ durable' = staged
    /\ barriers' = waiting
    /\ dirty' = FALSE
    /\ UNCHANGED <<visible, generation, tombstones, acked>>

\* Mutant: the calls are answered although the commit failed.
do_commit_failed_acks(waiting) ==
    /\ \/ "commit" \in Faults /\ UNCHANGED durable
       \/ "reload" \in Faults /\ durable' = staged
    /\ barriers' = {}
    /\ acked' = acked \cup waiting
    /\ UNCHANGED <<visible, generation, dirty, tombstones>>

\* An error of either call returns early and keeps the rest for a retry.
do_commit_failed(waiting) ==
    /\ \/ "commit" \in Faults /\ UNCHANGED durable
       \/ "reload" \in Faults /\ durable' = staged
    /\ barriers' = waiting
    /\ UNCHANGED <<visible, generation, dirty, tombstones, acked>>

flush_post_commit(gen) ==
    /\ outbox' = IF BatchIsEmpty THEN outbox
                 ELSE outbox \cup {[generation |-> gen, upserts |-> upserts,
                                    deletes |-> deletes]}
    /\ upserts' = NoUpserts
    /\ deletes' = {}
    /\ purged' = {}

CommitAttempt(waiting) ==
    /\ \/ do_commit_ok(waiting) /\ flush_post_commit(generation + 1)
       \/ do_commit_failed(waiting) /\ UNCHANGED <<batchVars, outbox>>
    /\ UNCHANGED staged

--------------------------------------------------------------------------------
(***************************************************************************)
(* Actions.                                                                *)
(***************************************************************************)

\* A producer's send(): waits for room, fails once the task is gone.
Send(m) ==
    /\ phase # "stopped"
    /\ sent < MaxSends
    /\ Len(queue) < ChannelCapacity
    /\ queue' = Append(queue, [m |-> m, call |-> sent + 1])
    /\ sent' = sent + 1
    /\ UNCHANGED <<phase, dirty, generation, barriers, acked, upserts, deletes,
                   tombstones, staged, indexVars, outbox, purged>>

Receive(op) ==
    /\ queue # <<>>
    /\ Head(queue).m.op = op
    /\ queue' = Tail(queue)
    /\ UNCHANGED sent

\* One of the mutations that change the index.
RecvMutation(op) ==
    /\ phase \in {"running", "draining"}
    /\ Receive(op)
    /\ Apply(Head(queue).m)
    /\ UNCHANGED <<phase, generation, barriers, acked, indexVars, outbox>>

\* Mutant: every barrier is parked, also when there is nothing to commit.
RecvBarrier_always_parks ==
    /\ phase = "running"
    /\ Receive("barrier")
    /\ barriers' = barriers \cup {Head(queue).call}
    /\ UNCHANGED <<phase, acked, dirty, generation, batchVars, tombstones, staged,
                   indexVars, outbox>>

RecvBarrier ==
    /\ phase = "running"
    /\ Receive("barrier")
    /\ IF dirty
       THEN barriers' = barriers \cup {Head(queue).call} /\ UNCHANGED acked
       ELSE acked' = acked \cup {Head(queue).call} /\ UNCHANGED barriers
    /\ UNCHANGED <<phase, dirty, generation, batchVars, tombstones, staged,
                   indexVars, outbox>>

RecvApplied ==
    /\ phase \in {"running", "draining"}
    /\ Receive("applied")
    /\ UNCHANGED <<phase, dirty, generation, barriers, acked, batchVars,
                   tombstones, staged, indexVars, outbox>>

RecvCommitNow ==
    /\ phase = "running"
    /\ Receive("commit_now")
    /\ CommitAttempt(barriers \cup {Head(queue).call})
    /\ UNCHANGED phase

RecvShutdown ==
    /\ phase = "running"
    /\ Receive("shutdown")
    /\ phase' = "draining"
    /\ UNCHANGED <<dirty, generation, barriers, acked, batchVars, tombstones,
                   staged, indexVars, outbox>>

\* The commit timer, polled only when the channel is empty (biased select).
CommitTick ==
    /\ phase = "running"
    /\ queue = <<>>
    /\ dirty
    /\ CommitAttempt(barriers)
    /\ UNCHANGED <<phase, channelVars>>

\* In the drain every call waits for the last commit.
DrainRequest ==
    /\ phase = "draining"
    /\ \/ Receive("barrier") \/ Receive("commit_now")
    /\ barriers' = barriers \cup {Head(queue).call}
    /\ UNCHANGED <<phase, dirty, generation, acked, batchVars, tombstones,
                   staged, indexVars, outbox>>

DrainShutdown ==
    /\ phase = "draining"
    /\ Receive("shutdown")
    /\ UNCHANGED <<phase, dirty, generation, barriers, acked, batchVars,
                   tombstones, staged, indexVars, outbox>>

\* try_recv() finds the channel empty.
DrainEnd ==
    /\ phase = "draining"
    /\ queue = <<>>
    /\ phase' = "finishing"
    /\ UNCHANGED <<channelVars, dirty, generation, barriers, acked, batchVars,
                   tombstones, staged, indexVars, outbox>>

\* The last commit, whose result is ignored: the batch is flushed and every
\* waiting call answered in either case.  Dropping the receiver discards what
\* was sent since the drain ended.
FinishCommit ==
    \/ ~ dirty /\ UNCHANGED <<durable, visible, generation, dirty, tombstones,
                              batchVars, outbox>>
       /\ barriers' = {} /\ acked' = acked \cup barriers
    \/ dirty /\ do_commit_ok(barriers) /\ flush_post_commit(generation + 1)
    \/ /\ dirty
       /\ \/ "commit" \in Faults /\ UNCHANGED durable
          \/ "reload" \in Faults /\ durable' = staged
       /\ UNCHANGED <<visible, generation, dirty, tombstones>>
       /\ flush_post_commit(generation)
       /\ barriers' = {} /\ acked' = acked \cup barriers

Finish ==
    /\ phase = "finishing"
    /\ FinishCommit
    /\ phase' = "stopped"
    /\ queue' = <<>>
    /\ UNCHANGED <<sent, staged>>

\* The broadcaster consumes one of the batches; the blocking pool runs them
\* in no particular order.
Broadcast ==
    \E b \in outbox :
        /\ outbox' = outbox \ {b}
        /\ UNCHANGED <<channelVars, phase, dirty, generation, barriers, acked,
                       batchVars, tombstones, staged, indexVars>>

Boot ==
    /\ queue' = <<>>
    /\ phase' = "running"
    /\ dirty' = FALSE
    /\ generation' = 0
    /\ barriers' = {}
    /\ upserts' = NoUpserts
    /\ deletes' = {}
    /\ tombstones' = {}
    /\ staged' = durable
    /\ visible' = durable
    /\ outbox' = {}
    /\ purged' = {}
    /\ UNCHANGED <<sent, acked, durable>>

\* The process is killed, or stops and is started again: all that is left is
\* what Tantivy committed.
Restart ==
    /\ "crash" \in Faults \/ phase = "stopped"
    /\ Boot

Init ==
    /\ queue = <<>>
    /\ sent = 0
    /\ phase = "running"
    /\ dirty = FALSE
    /\ generation = 0
    /\ barriers = {}
    /\ acked = {}
    /\ upserts = NoUpserts
    /\ deletes = {}
    /\ tombstones = {}
    /\ staged \in InitialContents
    /\ durable = staged
    /\ visible = staged
    /\ outbox = {}
    /\ purged = {}

MutationOps == {"upsert", "delete", "delete_subtree", "delete_source_instance",
                "upsert_body"}

WriterStep ==
    \/ \E op \in MutationOps : RecvMutation(op)
    \/ RecvBarrier
    \/ RecvApplied
    \/ RecvCommitNow
    \/ RecvShutdown
    \/ CommitTick
    \/ DrainRequest
    \/ DrainShutdown
    \/ DrainEnd
    \/ Finish

Next ==
    \/ \E m \in Menu : Send(m)
    \/ WriterStep
    \/ Broadcast
    \/ Restart

Spec == Init /\ [][Next]_vars

\* tokio runs the task as long as a branch of its select! is ready, and the
\* timer keeps firing; a failed commit is retried on a later tick, so it is
\* enough that the retries do not fail for ever.
SuccessfulTick == CommitTick /\ generation' = generation + 1

FairSpec == Spec /\ WF_vars(WriterStep) /\ WF_vars(SuccessfulTick)

--------------------------------------------------------------------------------
(***************************************************************************)
(* Properties.                                                             *)
(***************************************************************************)

Entry == [m : Menu, call : Calls]

Batch == [generation : Nat, upserts : [Ids -> Seq(Docs)], deletes : SUBSET Ids]

\* Every variable has the shape the code's types give it.
TypeOK ==
    /\ queue \in Seq(Entry)
    /\ sent \in 0..MaxSends
    /\ phase \in {"running", "draining", "finishing", "stopped"}
    /\ dirty \in BOOLEAN
    /\ generation \in Nat
    /\ barriers \subseteq Calls
    /\ acked \subseteq Calls
    /\ upserts \in [Ids -> Seq(Docs)]
    /\ deletes \subseteq Ids
    /\ tombstones \subseteq Ids
    /\ staged \in Contents
    /\ durable \in Contents
    /\ visible \in Contents
    /\ outbox \subseteq Batch
    /\ purged \subseteq Ids

\* While the dirty flag is clear the writer holds nothing back: a Barrier that
\* finds it clear may answer at once (writer_loop's `if !dirty`).
CleanIsPublished == ~ dirty => staged = visible /\ durable = visible

\* What the writer would commit is known to the reader or to the batch, which
\* is all that collect_subtree_ids looks at.
StagedIsKnown ==
    phase # "stopped" =>
        \A id \in Ids : staged[id] # NoDoc => visible[id] # NoDoc \/ upserts[id] # <<>>

\* Between a DeleteSubtree and the commit that publishes it nothing lives under
\* the deleted prefix, whatever was staged before or queued behind it: the
\* orphan the subtree_tombstones of writer_loop are there to prevent.
TombstonedIsGone == \A id \in Ids : id_tombstoned(id) => staged[id] = NoDoc

\* A barrier() or commit_now() reply is given only when every mutation received
\* before is durable and visible to the next searcher ("Ordering is
\* load-bearing" in do_commit).
AckMeansVisible ==
    [][acked' # acked => staged' = visible' /\ durable' = visible']_vars

\* A commit that changes what searches see for an id names the id in the batch
\* it hands to the broadcaster, unless the id went with its source instance.
ChangesAreAnnounced ==
    [][generation' > generation =>
         \A id \in Ids :
            visible'[id] # visible[id] =>
                \/ id \in purged
                \/ \E b \in outbox' \ outbox :
                      b.upserts[id] # <<>> \/ id \in b.deletes]_vars

\* A document a batch announces (and does not also delete) is the one searches
\* now see: batches are handed out "after every successful commit" only.
AnnouncedIsVisible ==
    [][\A b \in outbox' \ outbox : \A id \in Ids \ (b.deletes \cup purged) :
         b.upserts[id] # <<>> =>
             visible'[id] = b.upserts[id][Len(b.upserts[id])]]_vars

\* The service implements the snapshot index.
Snapshot == INSTANCE SnapshotIndex
              WITH current <- staged, saved <- durable, published <- visible

ImplementsSnapshotIndex == Snapshot!SSpec

Queued(c, ops) == \E k \in DOMAIN queue : queue[k].call = c /\ queue[k].m.op \in ops

\* A call that has neither a reply nor a closed channel.
Waiting(c) == c \in barriers \/ Queued(c, {"barrier", "applied", "commit_now"})

\* No caller of barrier() or applied() waits for ever, once the producers pause:
\* a commit that fails is retried, and a shutdown answers or drops the call.
BarrierReturns == \A c \in Calls : Queued(c, {"barrier", "applied"}) ~> ~ Waiting(c)

--------------------------------------------------------------------------------
(***************************************************************************)
(* What comments of the code say and the code does not do.                 *)
(***************************************************************************)

BodyStep(id) ==
    /\ queue # <<>>
    /\ queue' = Tail(queue)
    /\ Head(queue).m.op = "upsert_body"
    /\ Head(queue).m.id = id
    /\ phase \in {"running", "draining"}

\* index_service.rs: the expected_mtime guard keeps the write-back from
\* clobbering "any newer upsert for the same doc that landed between enqueue and
\* apply - whether already committed or still staged in the current batch".
BodyKeepsNewerUpsert ==
    [][\A id \in Ids :
         BodyStep(id) /\ Head(queue).m.expected # NoMtime
         /\ staged[id] # NoDoc /\ staged'[id] # NoDoc
            => staged'[id].mtime >= staged[id].mtime]_vars
================================================================================
