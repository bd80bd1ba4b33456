--------------------------- MODULE IndexWriterProofs ---------------------------
(***************************************************************************)
(* Theorems about the index writer service, for every set of documents,    *)
(* every menu of mutations and every channel capacity.                     *)
(***************************************************************************)
EXTENDS IndexWriter, SequenceTheorems, TLAPS

\* The fields of a mutation, by its constructor.
LEMMA MutationFields ==
    ASSUME NEW m \in Menu
    PROVE  /\ m.op = "upsert" =>
                 /\ DOMAIN m.docs \subseteq Ids
                 /\ \A id \in DOMAIN m.docs : m.docs[id] \in Docs
           /\ m.op = "delete" => m.ids \subseteq Ids
           /\ m.op = "delete_subtree" => m.prefix \in Ids
           /\ m.op = "upsert_body" => m.id \in Ids /\ m.body \in Bodies
  <1>1. m \in Mutation
    BY WriterAssumption
  <1>2. CASE m \in UpsertMutation
    <2>1. PICK D \in SUBSET Ids : m.docs \in [D -> Docs]
      BY <1>2 DEF UpsertMutation
    <2> QED
      BY <1>2, <2>1 DEF UpsertMutation
  <1>3. CASE m \in DeleteMutation
    BY <1>3 DEF DeleteMutation
  <1>4. CASE m \in SubtreeMutation
    BY <1>4 DEF SubtreeMutation
  <1>5. CASE m \in PurgeMutation
    BY <1>5 DEF PurgeMutation
  <1>6. CASE m \in BodyMutation
    BY <1>6 DEF BodyMutation
  <1>7. CASE m \in RequestMutation \cup ShutdownMutation
    BY <1>7 DEF RequestMutation, ShutdownMutation
  <1> QED
    BY <1>1, <1>2, <1>3, <1>4, <1>5, <1>6, <1>7 DEF Mutation

\* What a received entry is.
LEMMA HeadIsEntry ==
    ASSUME TypeOK, queue # <<>>
    PROVE  /\ Head(queue) \in Entry
           /\ Head(queue).m \in Menu
           /\ Head(queue).call \in Calls
           /\ Tail(queue) \in Seq(Entry)
  <1>1. queue \in Seq(Entry)
    BY DEF TypeOK
  <1>2. Head(queue) \in Entry /\ Tail(queue) \in Seq(Entry)
    BY <1>1, HeadTailProperties
  <1> QED
    BY <1>2 DEF Entry

\* The contents helpers stay within the contents.
LEMMA WithUpsertsType ==
    ASSUME staged \in Contents, NEW docs, NEW added, NEW rejected,
           \A id \in added : docs[id] \in Docs
    PROVE  WithUpserts(docs, added, rejected) \in Contents
  BY DEF WithUpserts, Contents

\* What a mutation pushes onto the batch keeps the batch's lists of documents.
LEMMA WithPushedType ==
    ASSUME upserts \in [Ids -> Seq(Docs)], NEW docs, NEW added,
           \A id \in added : docs[id] \in Docs
    PROVE  WithPushed(docs, added) \in [Ids -> Seq(Docs)]
  BY DEF WithPushed

\* Deleting documents from the staged contents leaves contents.
LEMMA WithoutType ==
    ASSUME staged \in Contents, NEW ids
    PROVE  Without(ids) \in Contents
  BY DEF Without, Contents

\* A document read back from the reader and given a body is a document.
LEMMA BodyDocType ==
    ASSUME visible \in Contents, NEW id \in Ids, visible[id] # NoDoc, NEW b \in Bodies
    PROVE  [visible[id] EXCEPT !.body = b] \in Docs
  BY DEF Contents, Docs

--------------------------------------------------------------------------------
(***************************************************************************)
(* Type correctness.                                                       *)
(***************************************************************************)

\* Applying a mutation keeps the types of what it may change.
LEMMA ApplyType ==
    ASSUME TypeOK, NEW m \in Menu, Apply(m)
    PROVE  /\ staged' \in Contents
           /\ upserts' \in [Ids -> Seq(Docs)]
           /\ deletes' \subseteq Ids
           /\ tombstones' \subseteq Ids
           /\ dirty' \in BOOLEAN
           /\ purged' \subseteq Ids
  <1> USE DEF TypeOK
  <1>1. CASE m.op = "upsert" /\ Upsert(m)
    <2>1. /\ DOMAIN m.docs \subseteq Ids
          /\ \A id \in DOMAIN m.docs : m.docs[id] \in Docs
      BY <1>1, MutationFields
    <2>2. PICK rejected :
             LET live  == {id \in DOMAIN m.docs : ~ id_tombstoned(id)}
                 added == live \ rejected
             IN  /\ staged' = WithUpserts(m.docs, added, live \cap rejected)
                 /\ upserts' = WithPushed(m.docs, added)
                 /\ dirty' \in BOOLEAN
                 /\ UNCHANGED <<deletes, tombstones, purged>>
      BY <1>1 DEF Upsert
    <2> DEFINE live  == {id \in DOMAIN m.docs : ~ id_tombstoned(id)}
               added == live \ rejected
    <2>3. \A id \in added : m.docs[id] \in Docs
      BY <2>1
    <2>4. WithUpserts(m.docs, added, live \cap rejected) \in Contents
      BY <2>3, WithUpsertsType
    <2>5. WithPushed(m.docs, added) \in [Ids -> Seq(Docs)]
      BY <2>3, WithPushedType
    <2> QED
      BY <2>2, <2>4, <2>5
  <1>2. CASE m.op = "delete" /\ Delete(m)
    BY <1>2, MutationFields, WithoutType DEF Delete
  <1>3. CASE m.op = "delete_subtree" /\ DeleteSubtree(m)
    <2>1. PICK scanned :
             LET matched == collect_subtree_ids(m.prefix, scanned)
             IN  /\ upserts' = [id \in Ids |-> IF id_in_subtree(id, m.prefix)
                                               THEN <<>> ELSE upserts[id]]
                 /\ staged' = Without(matched)
                 /\ deletes' = deletes \cup matched
                 /\ dirty' \in BOOLEAN
                 /\ tombstones' = tombstones \cup {m.prefix}
                 /\ UNCHANGED purged
      BY <1>3 DEF DeleteSubtree
    <2>2. collect_subtree_ids(m.prefix, scanned) \subseteq Ids
      BY DEF collect_subtree_ids
    <2>3. upserts' \in [Ids -> Seq(Docs)]
      BY <2>1
    <2> QED
      BY <1>3, <2>1, <2>2, <2>3, MutationFields, WithoutType
  <1>4. CASE m.op = "delete_source_instance" /\ DeleteSourceInstance(m)
    BY <1>4, WithoutType DEF DeleteSourceInstance
  <1>5. CASE m.op = "upsert_body" /\ UpsertBodySkipped(m)
    BY <1>5 DEF UpsertBodySkipped
  <1>6. CASE m.op = "upsert_body" /\ UpsertBodyApplied(m)
    <2>1. m.id \in Ids /\ m.body \in Bodies
      BY <1>6, MutationFields
    <2>2. visible[m.id] # NoDoc
      BY <1>6 DEF UpsertBodyApplied
    <2>3. PICK ok \in BOOLEAN : apply_upsert_body(m, ok)
      BY <1>6 DEF UpsertBodyApplied, Fallible
    <2> DEFINE doc == [visible[m.id] EXCEPT !.body = m.body]
               one == IF ok THEN {m.id} ELSE {}
               docs == [id \in {m.id} |-> doc]
    <2>4. doc \in Docs
      BY <2>1, <2>2, BodyDocType
    <2>5. \A id \in one : docs[id] \in Docs
      BY <2>4
    <2>6. WithUpserts(docs, one, {m.id} \ one) \in Contents
      BY <2>5, WithUpsertsType
    <2>7. WithPushed(docs, one) \in [Ids -> Seq(Docs)]
      BY <2>5, WithPushedType
    <2>8. /\ staged' = WithUpserts(docs, one, {m.id} \ one)
          /\ upserts' = WithPushed(docs, one)
          /\ dirty' \in BOOLEAN
          /\ UNCHANGED <<deletes, tombstones, purged>>
      BY <2>3 DEF apply_upsert_body
    <2> QED
      BY <2>6, <2>7, <2>8
  <1> QED
    BY <1>1, <1>2, <1>3, <1>4, <1>5, <1>6 DEF Apply, UpsertBody

\* A successful commit keeps the types.
LEMMA CommitOkType ==
    ASSUME TypeOK, NEW waiting \in SUBSET Calls, do_commit_ok(waiting)
    PROVE  /\ durable' \in Contents
           /\ visible' \in Contents
           /\ generation' \in Nat
           /\ dirty' \in BOOLEAN
           /\ tombstones' \subseteq Ids
           /\ acked' \subseteq Calls
           /\ barriers' \subseteq Calls
  <1>1. dirty' \in BOOLEAN
    BY Zenon DEF do_commit_ok
  <1>2. generation' \in Nat
    BY DEF TypeOK, do_commit_ok
  <1> QED
    BY <1>1, <1>2 DEF TypeOK, do_commit_ok

\* So does the flush, in the batch and the outbox.
LEMMA FlushType ==
    ASSUME TypeOK, NEW gen \in Nat, flush_post_commit(gen)
    PROVE  /\ outbox' \subseteq Batch
           /\ upserts' \in [Ids -> Seq(Docs)]
           /\ deletes' \subseteq Ids
           /\ purged' \subseteq Ids
  <1>1. [generation |-> gen, upserts |-> upserts, deletes |-> deletes] \in Batch
    BY DEF TypeOK, Batch
  <1>2. NoUpserts \in [Ids -> Seq(Docs)]
    BY DEF NoUpserts
  <1> QED
    BY <1>1, <1>2 DEF TypeOK, flush_post_commit

\* An attempt to commit keeps the types, whatever its outcome.
LEMMA AttemptType ==
    ASSUME TypeOK, NEW waiting \in SUBSET Calls, CommitAttempt(waiting)
    PROVE  /\ durable' \in Contents
           /\ visible' \in Contents
           /\ staged' \in Contents
           /\ generation' \in Nat
           /\ dirty' \in BOOLEAN
           /\ tombstones' \subseteq Ids
           /\ acked' \subseteq Calls
           /\ barriers' \subseteq Calls
           /\ outbox' \subseteq Batch
           /\ upserts' \in [Ids -> Seq(Docs)]
           /\ deletes' \subseteq Ids
           /\ purged' \subseteq Ids
  <1>1. staged' \in Contents
    BY DEF TypeOK, CommitAttempt
  <1>2. CASE do_commit_ok(waiting) /\ flush_post_commit(generation + 1)
    <2>1. generation + 1 \in Nat
      BY DEF TypeOK
    <2> QED
      BY <1>1, <1>2, <2>1, CommitOkType, FlushType
  <1>3. CASE do_commit_failed(waiting) /\ UNCHANGED <<batchVars, outbox>>
    BY <1>1, <1>3 DEF TypeOK, do_commit_failed, batchVars
  <1> QED
    BY <1>2, <1>3 DEF CommitAttempt

\* The last commit of a shutdown keeps the types.
LEMMA FinishType ==
    ASSUME TypeOK, FinishCommit
    PROVE  /\ durable' \in Contents
           /\ visible' \in Contents
           /\ generation' \in Nat
           /\ dirty' \in BOOLEAN
           /\ tombstones' \subseteq Ids
           /\ acked' \subseteq Calls
           /\ barriers' \subseteq Calls
           /\ outbox' \subseteq Batch
           /\ upserts' \in [Ids -> Seq(Docs)]
           /\ deletes' \subseteq Ids
           /\ purged' \subseteq Ids
  <1>1. generation \in Nat /\ generation + 1 \in Nat /\ barriers \in SUBSET Calls
    BY DEF TypeOK
  <1>2. CASE ~ dirty /\ UNCHANGED <<durable, visible, generation, dirty,
                                    tombstones, batchVars, outbox>>
             /\ barriers' = {} /\ acked' = acked \cup barriers
    BY <1>2 DEF TypeOK, batchVars
  <1>3. CASE do_commit_ok(barriers) /\ flush_post_commit(generation + 1)
    BY <1>1, <1>3, CommitOkType, FlushType
  <1>4. CASE /\ UNCHANGED durable \/ durable' = staged
             /\ UNCHANGED <<visible, generation, dirty, tombstones>>
             /\ flush_post_commit(generation)
             /\ barriers' = {} /\ acked' = acked \cup barriers
    <2>1. /\ outbox' \subseteq Batch
          /\ upserts' \in [Ids -> Seq(Docs)]
          /\ deletes' \subseteq Ids
          /\ purged' \subseteq Ids
      BY <1>1, <1>4, FlushType
    <2> QED
      BY <1>4, <2>1 DEF TypeOK
  <1> QED
    BY <1>2, <1>3, <1>4 DEF FinishCommit

\* TypeOK is inductive.
LEMMA TypeStep == TypeOK /\ [Next]_vars => TypeOK'
  <1> SUFFICES ASSUME TypeOK, [Next]_vars PROVE TypeOK'
    OBVIOUS
  <1>0. CASE UNCHANGED vars
    BY <1>0 DEF TypeOK, vars, Entry, Batch, Contents, Docs, Calls
  <1>1. ASSUME NEW m \in Menu, Send(m) PROVE TypeOK'
    <2>1. sent + 1 \in Calls /\ sent' \in 0..MaxSends
      BY <1>1, WriterAssumption DEF TypeOK, Send, Calls
    <2>2. [m |-> m, call |-> sent + 1] \in Entry
      BY <2>1 DEF Entry
    <2>3. queue' \in Seq(Entry)
      BY <1>1, <2>2, AppendProperties DEF TypeOK, Send
    <2> QED
      BY <1>1, <2>1, <2>3 DEF TypeOK, Send, indexVars
  <1>2. ASSUME NEW op \in MutationOps, RecvMutation(op) PROVE TypeOK'
    <2>1. /\ Apply(Head(queue).m)
          /\ queue # <<>> /\ queue' = Tail(queue)
          /\ UNCHANGED <<sent, phase, generation, barriers, acked, durable, visible, outbox>>
      BY <1>2 DEF RecvMutation, Receive, indexVars
    <2>2. Head(queue).m \in Menu /\ queue' \in Seq(Entry)
      BY <2>1, HeadIsEntry
    <2> QED
      BY <2>1, <2>2, ApplyType DEF TypeOK
  <1>3. CASE RecvBarrier
    <2>1. queue' \in Seq(Entry) /\ Head(queue).call \in Calls
      BY <1>3, HeadIsEntry DEF RecvBarrier, Receive
    <2> QED
      BY <1>3, <2>1 DEF TypeOK, RecvBarrier, Receive, batchVars, indexVars
  <1>4. CASE RecvApplied
    <2>1. queue' \in Seq(Entry)
      BY <1>4, HeadIsEntry DEF RecvApplied, Receive
    <2> QED
      BY <1>4, <2>1 DEF TypeOK, RecvApplied, Receive, batchVars, indexVars
  <1>5. CASE RecvCommitNow
    <2>1. queue' \in Seq(Entry) /\ Head(queue).call \in Calls
      BY <1>5, HeadIsEntry DEF RecvCommitNow, Receive
    <2>2. barriers \cup {Head(queue).call} \in SUBSET Calls
      BY <2>1 DEF TypeOK
    <2>3. CommitAttempt(barriers \cup {Head(queue).call}) /\ UNCHANGED <<sent, phase>>
      BY <1>5 DEF RecvCommitNow, Receive
    <2> QED
      BY <2>1, <2>2, <2>3, AttemptType DEF TypeOK
  <1>6. CASE RecvShutdown
    <2>1. queue' \in Seq(Entry)
      BY <1>6, HeadIsEntry DEF RecvShutdown, Receive
    <2> QED
      BY <1>6, <2>1 DEF TypeOK, RecvShutdown, Receive, batchVars, indexVars
  <1>7. CASE CommitTick
    <2>1. CommitAttempt(barriers) /\ UNCHANGED <<queue, sent, phase>>
      BY <1>7 DEF CommitTick, channelVars
    <2>2. barriers \in SUBSET Calls
      BY DEF TypeOK
    <2> QED
      BY <2>1, <2>2, AttemptType DEF TypeOK
  <1>8. CASE DrainRequest
    <2>1. queue' \in Seq(Entry) /\ Head(queue).call \in Calls
      BY <1>8, HeadIsEntry DEF DrainRequest, Receive
    <2> QED
      BY <1>8, <2>1 DEF TypeOK, DrainRequest, Receive, batchVars, indexVars
  <1>9. CASE DrainShutdown
    <2>1. queue' \in Seq(Entry)
      BY <1>9, HeadIsEntry DEF DrainShutdown, Receive
    <2> QED
      BY <1>9, <2>1 DEF TypeOK, DrainShutdown, Receive, batchVars, indexVars
  <1>10. CASE DrainEnd
    BY <1>10 DEF TypeOK, DrainEnd, channelVars, batchVars, indexVars
  <1>11. CASE Finish
    <2>1. /\ FinishCommit
          /\ phase' = "stopped" /\ queue' = <<>> /\ UNCHANGED <<sent, staged>>
      BY <1>11 DEF Finish
    <2> QED
      BY <2>1, FinishType DEF TypeOK
  <1>12. CASE Broadcast
    BY <1>12 DEF TypeOK, Broadcast, channelVars, batchVars, indexVars
  <1>13. CASE Restart
    <2>1. NoUpserts \in [Ids -> Seq(Docs)]
      BY DEF NoUpserts
    <2>2. dirty' \in BOOLEAN
      BY <1>13, Zenon DEF Restart, Boot
    <2> QED
      BY <1>13, <2>1, <2>2 DEF TypeOK, Restart, Boot
  <1> QED
    BY <1>0, <1>1, <1>2, <1>3, <1>4, <1>5, <1>6, <1>7, <1>8, <1>9, <1>10,
       <1>11, <1>12, <1>13 DEF Next, WriterStep

\* A fresh start of the service is well typed.
LEMMA TypeInit == Init => TypeOK
  <1> SUFFICES ASSUME Init PROVE TypeOK
    OBVIOUS
  <1>1. staged \in Contents /\ durable \in Contents /\ visible \in Contents
    BY WriterAssumption DEF Init
  <1>2. upserts \in [Ids -> Seq(Docs)] /\ queue \in Seq(Entry)
    BY DEF Init, NoUpserts
  <1>3. dirty \in BOOLEAN
    BY Zenon DEF Init
  <1>4. sent \in 0..MaxSends /\ generation \in Nat
    BY WriterAssumption DEF Init
  <1> QED
    BY <1>1, <1>2, <1>3, <1>4 DEF Init, TypeOK

\* Every reachable state of the service is well typed.
THEOREM TypeCorrect == Spec => []TypeOK
  BY TypeInit, TypeStep, PTL DEF Spec

--------------------------------------------------------------------------------
(***************************************************************************)
(* Nothing lives under a tombstone.  TombstonedIsGone is not inductive:    *)
(* DeleteSubtree removes what the reader or the batch knows, so the proof  *)
(* needs that they know all that is staged, which is StagedIsKnown.        *)
(***************************************************************************)

\* Applying a mutation keeps every staged document known.
LEMMA ApplyKnown ==
    ASSUME TypeOK, NEW m \in Menu, Apply(m), UNCHANGED visible,
           \A id \in Ids : staged[id] # NoDoc => visible[id] # NoDoc \/ upserts[id] # <<>>
    PROVE  \A id \in Ids : staged'[id] # NoDoc => visible'[id] # NoDoc \/ upserts'[id] # <<>>
  <1> SUFFICES ASSUME NEW id \in Ids, staged'[id] # NoDoc, visible[id] = NoDoc
               PROVE  upserts'[id] # <<>>
    OBVIOUS
  <1>0. upserts \in [Ids -> Seq(Docs)]
    BY DEF TypeOK
  <1>1. CASE m.op = "upsert" /\ Upsert(m)
    <2>1. PICK added, gone : /\ added \subseteq DOMAIN m.docs
                             /\ staged' = WithUpserts(m.docs, added, gone)
                             /\ upserts' = WithPushed(m.docs, added)
      BY <1>1 DEF Upsert
    <2>2. CASE id \in added
      <3>1. m.docs[id] \in Docs
        BY <1>1, <2>1, <2>2, MutationFields
      <3>2. upserts'[id] = Append(upserts[id], m.docs[id])
        BY <2>1, <2>2 DEF WithPushed
      <3> QED
        BY <1>0, <3>1, <3>2, AppendProperties
    <2>3. CASE id \notin added
      BY <2>1, <2>3 DEF WithUpserts, WithPushed
    <2> QED
      BY <2>2, <2>3
  <1>2. CASE m.op = "delete" /\ Delete(m)
    BY <1>2 DEF Delete, Without
  <1>3. CASE m.op = "delete_subtree" /\ DeleteSubtree(m)
    <2>1. PICK scanned :
             /\ upserts' = [i \in Ids |-> IF id_in_subtree(i, m.prefix)
                                          THEN <<>> ELSE upserts[i]]
             /\ staged' = Without(collect_subtree_ids(m.prefix, scanned))
      BY <1>3 DEF DeleteSubtree
    <2>2. id \notin collect_subtree_ids(m.prefix, scanned) /\ staged[id] # NoDoc
      BY <2>1 DEF Without
    <2>3. upserts[id] # <<>>
      BY <2>2
    <2>4. ~ id_in_subtree(id, m.prefix)
      BY <2>2, <2>3 DEF collect_subtree_ids
    <2> QED
      BY <2>1, <2>3, <2>4
  <1>4. CASE m.op = "delete_source_instance" /\ DeleteSourceInstance(m)
    BY <1>4 DEF DeleteSourceInstance, Without
  <1>5. CASE m.op = "upsert_body" /\ UpsertBodySkipped(m)
    BY <1>5 DEF UpsertBodySkipped
  <1>6. CASE m.op = "upsert_body" /\ UpsertBodyApplied(m)
    <2>1. id # m.id
      BY <1>6 DEF UpsertBodyApplied
    <2>2. staged'[id] = staged[id] /\ upserts'[id] = upserts[id]
      BY <1>6, <2>1 DEF UpsertBodyApplied, apply_upsert_body, WithUpserts, WithPushed
    <2> QED
      BY <2>2
  <1> QED
    BY <1>1, <1>2, <1>3, <1>4, <1>5, <1>6 DEF Apply, UpsertBody

\* Every step of writer_loop leaves each staged document known to the reader or
\* the batch.
LEMMA KnownStep == TypeOK /\ StagedIsKnown /\ [Next]_vars => StagedIsKnown'
  <1> SUFFICES ASSUME TypeOK, StagedIsKnown, [Next]_vars, phase' # "stopped"
               PROVE  \A id \in Ids :
                        staged'[id] # NoDoc => visible'[id] # NoDoc \/ upserts'[id] # <<>>
    BY DEF StagedIsKnown
  <1>0. CASE UNCHANGED vars
    BY <1>0 DEF StagedIsKnown, vars
  <1>1. ASSUME NEW m \in Menu, Send(m)
        PROVE  UNCHANGED <<staged, visible, upserts, phase>>
    BY <1>1 DEF Send, indexVars
  <1>2. ASSUME NEW op \in MutationOps, RecvMutation(op)
        PROVE  \A id \in Ids :
                 staged'[id] # NoDoc => visible'[id] # NoDoc \/ upserts'[id] # <<>>
    <2>1. Apply(Head(queue).m) /\ queue # <<>> /\ UNCHANGED visible /\ phase # "stopped"
      BY <1>2 DEF RecvMutation, Receive, indexVars
    <2>2. Head(queue).m \in Menu
      BY <2>1, HeadIsEntry
    <2> QED
      BY <2>1, <2>2, ApplyKnown DEF StagedIsKnown
  <1>3. CASE RecvBarrier \/ RecvApplied \/ RecvShutdown \/ DrainRequest
             \/ DrainShutdown \/ DrainEnd \/ Broadcast
    <2>1. UNCHANGED <<staged, visible, upserts>>
      BY <1>3 DEF RecvBarrier, RecvApplied, RecvShutdown, DrainRequest,
                  DrainShutdown, DrainEnd, Broadcast, batchVars, indexVars
    <2>2. phase # "stopped"
      BY <1>3 DEF RecvBarrier, RecvApplied, RecvShutdown, DrainRequest,
                  DrainShutdown, DrainEnd, Broadcast
    <2> QED
      BY <2>1, <2>2 DEF StagedIsKnown
  <1>4. ASSUME NEW waiting, CommitAttempt(waiting), phase # "stopped"
        PROVE  \A id \in Ids :
                 staged'[id] # NoDoc => visible'[id] # NoDoc \/ upserts'[id] # <<>>
    <2>1. CASE do_commit_ok(waiting)
      BY <1>4, <2>1 DEF CommitAttempt, do_commit_ok
    <2>2. CASE do_commit_failed(waiting) /\ UNCHANGED <<batchVars, outbox>>
      BY <1>4, <2>2 DEF CommitAttempt, do_commit_failed, batchVars, StagedIsKnown
    <2> QED
      BY <1>4, <2>1, <2>2 DEF CommitAttempt
  <1>5. CASE RecvCommitNow
    BY <1>4, <1>5 DEF RecvCommitNow
  <1>6. CASE CommitTick
    BY <1>4, <1>6 DEF CommitTick
  <1>7. CASE Finish
    BY <1>7 DEF Finish
  <1>8. CASE Restart
    BY <1>8 DEF Restart, Boot
  <1> QED
    BY <1>0, <1>1, <1>2, <1>3, <1>5, <1>6, <1>7, <1>8 DEF Next, WriterStep, StagedIsKnown

\* Applying a mutation leaves nothing under a tombstone, old or new.
LEMMA ApplyGone ==
    ASSUME TypeOK, NEW m \in Menu, Apply(m), "scan" \notin Faults, TombstonedIsGone,
           \A id \in Ids : staged[id] # NoDoc => visible[id] # NoDoc \/ upserts[id] # <<>>
    PROVE  TombstonedIsGone'
  <1> SUFFICES ASSUME NEW id \in Ids, NEW p \in tombstones', id_in_subtree(id, p)
               PROVE  staged'[id] = NoDoc
    BY DEF TombstonedIsGone, id_tombstoned
  <1>0. p \in tombstones => id_tombstoned(id) /\ staged[id] = NoDoc
    BY DEF TombstonedIsGone, id_tombstoned
  <1>1. CASE m.op = "upsert" /\ Upsert(m)
    <2>1. PICK rejected :
             LET live  == {i \in DOMAIN m.docs : ~ id_tombstoned(i)}
             IN  /\ staged' = WithUpserts(m.docs, live \ rejected, live \cap rejected)
                 /\ UNCHANGED tombstones
      BY <1>1 DEF Upsert
    <2> QED
      BY <1>0, <2>1 DEF WithUpserts
  <1>2. CASE m.op = "delete" /\ Delete(m)
    BY <1>0, <1>2 DEF Delete, Without
  <1>3. CASE m.op = "delete_subtree" /\ DeleteSubtree(m)
    <2>1. /\ staged' = Without(collect_subtree_ids(m.prefix, TRUE))
          /\ tombstones' = tombstones \cup {m.prefix}
      BY <1>3 DEF DeleteSubtree, Fallible
    <2>2. CASE p \in tombstones
      BY <1>0, <2>1, <2>2 DEF Without
    <2>3. CASE p = m.prefix
      <3>1. staged[id] # NoDoc => id \in collect_subtree_ids(m.prefix, TRUE)
        BY <2>3 DEF collect_subtree_ids
      <3> QED
        BY <2>1, <3>1 DEF Without
    <2> QED
      BY <2>1, <2>2, <2>3
  <1>4. CASE m.op = "delete_source_instance" /\ DeleteSourceInstance(m)
    BY <1>0, <1>4 DEF DeleteSourceInstance, Without
  <1>5. CASE m.op = "upsert_body" /\ UpsertBodySkipped(m)
    BY <1>0, <1>5 DEF UpsertBodySkipped
  <1>6. CASE m.op = "upsert_body" /\ UpsertBodyApplied(m)
    <2>1. ~ id_tombstoned(m.id) /\ UNCHANGED tombstones
      BY <1>6 DEF UpsertBodyApplied, apply_upsert_body
    <2>2. id # m.id
      BY <1>0, <2>1
    <2>3. staged'[id] = staged[id]
      BY <1>6, <2>2 DEF UpsertBodyApplied, apply_upsert_body, WithUpserts
    <2> QED
      BY <1>0, <2>1, <2>3
  <1> QED
    BY <1>1, <1>2, <1>3, <1>4, <1>5, <1>6 DEF Apply, UpsertBody

\* No step brings a document back under a deleted prefix, as long as collecting
\* the subtree does not fail.
LEMMA GoneStep ==
    ASSUME "scan" \notin Faults
    PROVE  TypeOK /\ StagedIsKnown /\ TombstonedIsGone /\ [Next]_vars => TombstonedIsGone'
  <1> SUFFICES ASSUME TypeOK, StagedIsKnown, TombstonedIsGone, [Next]_vars
               PROVE  TombstonedIsGone'
    OBVIOUS
  <1>0. ASSUME UNCHANGED <<staged, tombstones>> PROVE TombstonedIsGone'
    BY <1>0 DEF TombstonedIsGone, id_tombstoned
  <1>1. ASSUME tombstones' = {} PROVE TombstonedIsGone'
    BY <1>1 DEF TombstonedIsGone, id_tombstoned
  <1>2. ASSUME NEW op \in MutationOps, RecvMutation(op) PROVE TombstonedIsGone'
    <2>1. Apply(Head(queue).m) /\ queue # <<>> /\ phase # "stopped"
      BY <1>2 DEF RecvMutation, Receive
    <2>2. Head(queue).m \in Menu
      BY <2>1, HeadIsEntry
    <2> QED
      BY <2>1, <2>2, ApplyGone DEF StagedIsKnown
  <1>3. ASSUME NEW waiting, CommitAttempt(waiting) PROVE TombstonedIsGone'
    BY <1>0, <1>1, <1>3 DEF CommitAttempt, do_commit_ok, do_commit_failed
  <1>4. CASE Finish
    BY <1>0, <1>1, <1>4 DEF Finish, FinishCommit, do_commit_ok
  <1>5. CASE Restart
    BY <1>1, <1>5 DEF Restart, Boot
  <1>6. CASE RecvBarrier \/ RecvApplied \/ RecvShutdown \/ DrainRequest
             \/ DrainShutdown \/ DrainEnd \/ Broadcast
    BY <1>0, <1>6 DEF RecvBarrier, RecvApplied, RecvShutdown, DrainRequest,
                      DrainShutdown, DrainEnd, Broadcast
  <1>7. ASSUME NEW m \in Menu, Send(m) PROVE TombstonedIsGone'
    BY <1>0, <1>7 DEF Send
  <1>8. CASE UNCHANGED vars
    BY <1>0, <1>8 DEF vars
  <1> QED
    BY <1>2, <1>3, <1>4, <1>5, <1>6, <1>7, <1>8
       DEF Next, WriterStep, RecvCommitNow, CommitTick

\* The reader and the batch together know every document the writer has staged,
\* whichever calls fail: what DeleteSubtree relies on.
THEOREM KnownSafe == Spec => []StagedIsKnown
  <1>1. Init => StagedIsKnown
    BY DEF Init, StagedIsKnown
  <1> QED
    BY <1>1, TypeCorrect, KnownStep, PTL DEF Spec

\* As long as the ids can be listed, no document survives or reappears under a
\* deleted prefix before the deletion is committed.
THEOREM TombstoneSafe ==
    ASSUME "scan" \notin Faults
    PROVE  Spec => []TombstonedIsGone
  <1>1. Init => TombstonedIsGone
    BY DEF Init, TombstonedIsGone, id_tombstoned
  <1> QED
    BY <1>1, TypeCorrect, KnownSafe, GoneStep, PTL DEF Spec

--------------------------------------------------------------------------------
(***************************************************************************)
(* The service implements the snapshot index, if no upsert is rejected     *)
(* after its id's term was deleted, and if no commit of a shutdown fails.  *)
(* The invariant is CleanIsPublished: the dirty flag is the only thing     *)
(* RecvBarrier looks at before it answers.                                 *)
(***************************************************************************)

\* A mutation that leaves the dirty flag clear left the contents alone.
LEMMA CleanApply ==
    ASSUME TypeOK, "upsert" \notin Faults, NEW m, Apply(m), ~ dirty'
    PROVE  ~ dirty /\ staged' = staged
  <1>0. Without({}) = staged /\ \A docs : WithUpserts(docs, {}, {}) = staged
    BY DEF TypeOK, Contents, Without, WithUpserts
  <1>1. CASE m.op = "upsert" /\ Upsert(m)
    <2> DEFINE live == {id \in DOMAIN m.docs : ~ id_tombstoned(id)}
    <2>1. /\ staged' = WithUpserts(m.docs, live \ {}, live \cap {})
          /\ dirty' = (dirty \/ live \ {} # {} \/ (Draining /\ DOMAIN m.docs # {}))
      BY <1>1 DEF Upsert
    <2>2. live = {} /\ ~ dirty
      BY <2>1
    <2>3. live \ {} = {} /\ live \cap {} = {}
      BY <2>2
    <2> QED
      BY <1>0, <2>1, <2>2, <2>3
  <1>2. CASE m.op = "delete" /\ Delete(m)
    BY <1>0, <1>2 DEF Delete
  <1>3. CASE m.op = "delete_subtree" /\ DeleteSubtree(m)
    BY <1>0, <1>3 DEF DeleteSubtree
  <1>4. CASE m.op = "delete_source_instance" /\ DeleteSourceInstance(m)
    BY <1>4 DEF DeleteSourceInstance
  <1>5. CASE m.op = "upsert_body" /\ UpsertBodySkipped(m)
    BY <1>5 DEF UpsertBodySkipped
  <1>6. CASE m.op = "upsert_body" /\ UpsertBodyApplied(m)
    BY <1>6 DEF UpsertBodyApplied, Fallible, apply_upsert_body
  <1> QED
    BY <1>1, <1>2, <1>3, <1>4, <1>5, <1>6 DEF Apply, UpsertBody

\* No step clears the dirty flag while something is unpublished, as long as
\* upserts do not fail half-way.
LEMMA CleanStep ==
    ASSUME "upsert" \notin Faults
    PROVE  TypeOK /\ CleanIsPublished /\ [Next]_vars => CleanIsPublished'
  <1> SUFFICES ASSUME TypeOK, CleanIsPublished, [Next]_vars, ~ dirty'
               PROVE  staged' = visible' /\ durable' = visible'
    BY DEF CleanIsPublished
  <1>0. ASSUME UNCHANGED <<dirty, staged, durable, visible>>
        PROVE  staged' = visible' /\ durable' = visible'
    BY <1>0 DEF CleanIsPublished
  <1>1. ASSUME NEW op \in MutationOps, RecvMutation(op)
        PROVE  staged' = visible' /\ durable' = visible'
    <2>1. Apply(Head(queue).m) /\ UNCHANGED <<durable, visible>>
      BY <1>1 DEF RecvMutation, indexVars
    <2> QED
      BY <2>1, CleanApply DEF CleanIsPublished
  <1>2. ASSUME NEW waiting, CommitAttempt(waiting)
        PROVE  staged' = visible' /\ durable' = visible'
    <2>1. CASE do_commit_ok(waiting)
      BY <1>2, <2>1 DEF CommitAttempt, do_commit_ok
    <2>2. CASE do_commit_failed(waiting)
      BY <1>2, <2>2 DEF CommitAttempt, do_commit_failed, CleanIsPublished
    <2> QED
      BY <1>2, <2>1, <2>2 DEF CommitAttempt
  <1>3. CASE Finish
    BY <1>0, <1>3 DEF Finish, FinishCommit, do_commit_ok, CleanIsPublished
  <1>4. CASE Restart
    BY <1>4 DEF Restart, Boot
  <1>5. CASE RecvBarrier \/ RecvApplied \/ RecvShutdown \/ DrainRequest
             \/ DrainShutdown \/ DrainEnd \/ Broadcast
    BY <1>0, <1>5 DEF RecvBarrier, RecvApplied, RecvShutdown, DrainRequest,
                      DrainShutdown, DrainEnd, Broadcast, indexVars
  <1>6. ASSUME NEW m \in Menu, Send(m)
        PROVE  staged' = visible' /\ durable' = visible'
    BY <1>0, <1>6 DEF Send, indexVars
  <1>7. CASE UNCHANGED vars
    BY <1>0, <1>7 DEF vars
  <1> QED
    BY <1>1, <1>2, <1>3, <1>4, <1>5, <1>6, <1>7
       DEF Next, WriterStep, RecvCommitNow, CommitTick

\* With no rejected upsert, a clear dirty flag means that everything received is
\* durable and visible, whatever commits failed and whenever the process died.
THEOREM CleanSafe ==
    ASSUME "upsert" \notin Faults
    PROVE  Spec => []CleanIsPublished
  <1>1. Init => CleanIsPublished
    BY DEF Init, CleanIsPublished
  <1> QED
    BY <1>1, TypeCorrect, CleanStep, PTL DEF Spec

\* Commits do not fail, or nobody asks the task to stop.
OrderlyShutdown ==
    \/ Faults \cap {"commit", "reload"} = {}
    \/ \A m \in Menu : m.op # "shutdown"

\* writer_loop has not been told to stop.
Running == phase = "running"

\* Without a shutdown the task never leaves its loop.
LEMMA RunningStep ==
    ASSUME \A m \in Menu : m.op # "shutdown"
    PROVE  TypeOK /\ Running /\ [Next]_vars => Running'
  <1> SUFFICES ASSUME TypeOK, phase = "running", [Next]_vars PROVE phase' = "running"
    BY DEF Running
  <1>1. CASE RecvShutdown
    <2>1. queue # <<>> /\ Head(queue).m.op = "shutdown"
      BY <1>1 DEF RecvShutdown, Receive
    <2> QED
      BY <2>1, HeadIsEntry
  <1> QED
    BY <1>1 DEF Next, WriterStep, vars, Send, RecvMutation, RecvBarrier, RecvApplied,
       RecvCommitNow, CommitTick, DrainRequest, DrainShutdown, DrainEnd, Finish,
       Broadcast, Restart, Boot

\* Nobody sends a shutdown: writer_loop runs for ever.
LEMMA RunningSafe ==
    ASSUME \A m \in Menu : m.op # "shutdown"
    PROVE  Spec => []Running
  <1>1. Init => Running
    BY DEF Init, Running
  <1> QED
    BY <1>1, TypeCorrect, RunningStep, PTL DEF Spec

\* Either no commit can fail, or the task is in its loop: the last commit of a
\* shutdown, whose result is ignored, publishes what it flushes.
LEMMA SoundShutdown ==
    ASSUME OrderlyShutdown
    PROVE  Spec => [](Faults \cap {"commit", "reload"} = {} \/ Running)
  <1>1. CASE Faults \cap {"commit", "reload"} = {}
    <2>1. Faults \cap {"commit", "reload"} = {} \/ Running
      BY <1>1
    <2> QED
      BY <2>1, PTL
  <1>2. CASE \A m \in Menu : m.op # "shutdown"
    <2>1. Running => Faults \cap {"commit", "reload"} = {} \/ Running
      OBVIOUS
    <2>2. Spec => []Running
      BY <1>2, RunningSafe
    <2> QED
      BY <2>1, <2>2, PTL
  <1> QED
    BY <1>1, <1>2 DEF OrderlyShutdown

\* A step of the service is a step of the snapshot index or none.
LEMMA SnapshotStep ==
    ASSUME TypeOK, TypeOK', CleanIsPublished, [Next]_vars,
           Faults \cap {"commit", "reload"} = {} \/ phase = "running"
    PROVE  [Snapshot!SNext]_(Snapshot!svars)
  <1> USE DEF Snapshot!SNext, Snapshot!svars
  <1>0. ASSUME UNCHANGED <<staged, durable, visible, acked>>
        PROVE  [Snapshot!SNext]_(Snapshot!svars)
    BY <1>0
  <1>1. ASSUME NEW op \in MutationOps, RecvMutation(op) PROVE Snapshot!Change
    BY <1>1 DEF RecvMutation, indexVars, TypeOK, Snapshot!Change
  <1>2. ASSUME NEW waiting, CommitAttempt(waiting)
        PROVE  [Snapshot!SNext]_(Snapshot!svars)
    <2>1. acked' \in SUBSET Calls
      BY DEF TypeOK
    <2>2. CASE do_commit_ok(waiting)
      BY <1>2, <2>1, <2>2 DEF CommitAttempt, do_commit_ok, Snapshot!Publish
    <2>3. CASE do_commit_failed(waiting)
      BY <1>0, <1>2, <2>3 DEF CommitAttempt, do_commit_failed, Snapshot!Save
    <2> QED
      BY <1>2, <2>2, <2>3 DEF CommitAttempt
  <1>3. CASE RecvBarrier
    <2>1. acked' \in SUBSET Calls
      BY DEF TypeOK
    <2>2. CASE dirty
      BY <1>0, <1>3, <2>2 DEF RecvBarrier, indexVars
    <2>3. CASE ~ dirty
      BY <1>3, <2>1, <2>3 DEF RecvBarrier, indexVars, CleanIsPublished, Snapshot!Ack
    <2> QED
      BY <2>2, <2>3
  <1>4. CASE Finish
    <2>1. acked' \in SUBSET Calls /\ UNCHANGED staged
      BY <1>4 DEF TypeOK, Finish
    <2>2. Faults \cap {"commit", "reload"} = {}
      BY <1>4 DEF Finish
    <2>3. CASE ~ dirty
      BY <1>4, <2>1, <2>3 DEF Finish, FinishCommit, CleanIsPublished, Snapshot!Ack
    <2>4. CASE dirty
      <3>1. do_commit_ok(barriers)
        BY <1>4, <2>2, <2>4 DEF Finish, FinishCommit
      <3> QED
        BY <2>1, <3>1 DEF do_commit_ok, Snapshot!Publish
    <2> QED
      BY <2>3, <2>4
  <1>5. CASE Restart
    BY <1>5 DEF Restart, Boot, Snapshot!Restart
  <1>6. CASE RecvApplied \/ RecvShutdown \/ DrainRequest \/ DrainShutdown
             \/ DrainEnd \/ Broadcast
    BY <1>0, <1>6 DEF RecvApplied, RecvShutdown, DrainRequest, DrainShutdown,
                      DrainEnd, Broadcast, indexVars
  <1>7. ASSUME NEW m \in Menu, Send(m) PROVE [Snapshot!SNext]_(Snapshot!svars)
    BY <1>0, <1>7 DEF Send, indexVars
  <1>8. CASE UNCHANGED vars
    BY <1>0, <1>8 DEF vars
  <1> QED
    BY <1>1, <1>2, <1>3, <1>4, <1>5, <1>6, <1>7, <1>8
       DEF Next, WriterStep, RecvCommitNow, CommitTick

\* Searches see only durable snapshots, and a reply to barrier() or commit_now()
\* means that every mutation before it is durable and visible: the service
\* implements SnapshotIndex, through failed commits, failed reloads and crashes.
THEOREM SnapshotRefinement ==
    ASSUME "upsert" \notin Faults, OrderlyShutdown
    PROVE  Spec => ImplementsSnapshotIndex
  <1>1. Init => Snapshot!SInit
    BY WriterAssumption DEF Init, Snapshot!SInit
  <1>2. Spec => []TypeOK /\ []CleanIsPublished
    BY TypeCorrect, CleanSafe
  <1>3. Spec => [](Faults \cap {"commit", "reload"} = {} \/ Running)
    BY SoundShutdown
  <1>4. TypeOK /\ TypeOK' /\ CleanIsPublished /\ [Next]_vars
        /\ (Faults \cap {"commit", "reload"} = {} \/ Running)
          => [Snapshot!SNext]_(Snapshot!svars)
    BY SnapshotStep DEF Running
  <1> QED
    BY <1>1, <1>2, <1>3, <1>4, PTL DEF Spec, ImplementsSnapshotIndex, Snapshot!SSpec

\* The same for the replies alone.
THEOREM AckSafe ==
    ASSUME "upsert" \notin Faults, OrderlyShutdown
    PROVE  Spec => AckMeansVisible
  <1>1. [Snapshot!SNext]_(Snapshot!svars) =>
          (acked' # acked => staged' = visible' /\ durable' = visible')
    BY DEF Snapshot!SNext, Snapshot!svars, Snapshot!Change, Snapshot!Save,
           Snapshot!Publish, Snapshot!Ack, Snapshot!Restart
  <1>2. [Snapshot!SNext]_(Snapshot!svars) =>
          [acked' # acked => staged' = visible' /\ durable' = visible']_vars
    BY <1>1
  <1>3. Spec => [][Snapshot!SNext]_(Snapshot!svars)
    BY SnapshotRefinement, PTL DEF ImplementsSnapshotIndex, Snapshot!SSpec
  <1> QED
    BY <1>2, <1>3, PTL DEF AckMeansVisible

--------------------------------------------------------------------------------
(***************************************************************************)
(* What the broadcaster is told.  The invariant is about the batch that is *)
(* still being collected: it names every id the next commit will change,   *)
(* and what it announces of an id is what is staged for it.  Neither       *)
(* survives a rejected upsert, which deletes the id's term and records     *)
(* nothing.                                                                *)
(***************************************************************************)

\* What searches do not see yet is in the pending batch, or went with its source
\* instance.
Collected(id) ==
    staged[id] # visible[id] => upserts[id] # <<>> \/ id \in deletes \/ id \in purged

\* The last document the pending batch has for an id is the one staged for it,
\* unless the batch also deletes the id.
LastIsStaged(id) ==
    upserts[id] # <<>> /\ id \notin deletes \cup purged
        => staged[id] = upserts[id][Len(upserts[id])]

BatchFaithful ==
    phase # "stopped" => \A id \in Ids : Collected(id) /\ LastIsStaged(id)

\* The batches handed out are of commits that were made.
BatchesArePast == \A b \in outbox : b.generation <= generation

\* A mutation that leaves an id's document and its batch entries alone, or only
\* adds the id to what is deleted or purged, keeps the batch faithful about it.
LEMMA ApplyElsewhere ==
    ASSUME NEW id \in Ids, Collected(id), LastIsStaged(id),
           staged'[id] = staged[id], visible' = visible, upserts'[id] = upserts[id],
           deletes \subseteq deletes', purged \subseteq purged'
    PROVE  Collected(id)' /\ LastIsStaged(id)'
  BY DEF Collected, LastIsStaged

\* Applying a mutation keeps the batch faithful.
LEMMA ApplyFaithful ==
    ASSUME TypeOK, NEW m \in Menu, Apply(m), "upsert" \notin Faults, visible' = visible,
           \A id \in Ids : Collected(id) /\ LastIsStaged(id),
           NEW id \in Ids
    PROVE  Collected(id)' /\ LastIsStaged(id)'
  <1>0. upserts \in [Ids -> Seq(Docs)] /\ Collected(id) /\ LastIsStaged(id)
    BY DEF TypeOK
  <1>a. ASSUME NEW d \in Docs, staged'[id] = d, upserts'[id] = Append(upserts[id], d)
        PROVE  Collected(id)' /\ LastIsStaged(id)'
    <2>1. /\ Len(upserts'[id]) = Len(upserts[id]) + 1
          /\ upserts'[id][Len(upserts'[id])] = d
          /\ upserts'[id] # <<>>
      BY <1>0, <1>a, AppendProperties
    <2> QED
      BY <1>a, <2>1 DEF Collected, LastIsStaged
  <1>1. CASE m.op = "upsert" /\ Upsert(m)
    <2> DEFINE live == {i \in DOMAIN m.docs : ~ id_tombstoned(i)}
               added == live \ {}
               gone == live \cap {}
    <2>1. /\ staged' = WithUpserts(m.docs, added, gone)
          /\ upserts' = WithPushed(m.docs, added)
          /\ UNCHANGED <<deletes, purged>>
      BY <1>1 DEF Upsert
    <2>2. CASE id \in added
      <3>1. m.docs[id] \in Docs
        BY <1>1, <2>2, MutationFields
      <3>2. staged'[id] = m.docs[id] /\ upserts'[id] = Append(upserts[id], m.docs[id])
        BY <2>1, <2>2 DEF WithUpserts, WithPushed
      <3> QED
        BY <1>a, <3>1, <3>2
    <2>3. CASE id \notin added
      <3>1. staged'[id] = staged[id] /\ upserts'[id] = upserts[id]
        BY <2>1, <2>3 DEF WithUpserts, WithPushed
      <3> QED
        BY <1>0, <2>1, <3>1, ApplyElsewhere
    <2> QED
      BY <2>2, <2>3
  <1>2. CASE m.op = "delete" /\ Delete(m)
    <2>1. CASE id \in m.ids
      BY <1>2, <2>1 DEF Delete, Collected, LastIsStaged
    <2>2. CASE id \notin m.ids
      <3>1. /\ staged'[id] = staged[id] /\ upserts'[id] = upserts[id]
            /\ deletes \subseteq deletes' /\ purged' = purged
        BY <1>2, <2>2 DEF Delete, Without
      <3> QED
        BY <1>0, <3>1, ApplyElsewhere
    <2> QED
      BY <2>1, <2>2
  <1>3. CASE m.op = "delete_subtree" /\ DeleteSubtree(m)
    <2>1. PICK scanned :
             /\ upserts' = [i \in Ids |-> IF id_in_subtree(i, m.prefix)
                                          THEN <<>> ELSE upserts[i]]
             /\ staged' = Without(collect_subtree_ids(m.prefix, scanned))
             /\ deletes' = deletes \cup collect_subtree_ids(m.prefix, scanned)
             /\ UNCHANGED purged
      BY <1>3 DEF DeleteSubtree
    <2>2. CASE id \in collect_subtree_ids(m.prefix, scanned)
      BY <2>1, <2>2 DEF Collected, LastIsStaged
    <2>3. CASE id \notin collect_subtree_ids(m.prefix, scanned)
      <3>1. upserts'[id] = upserts[id]
        BY <2>1, <2>3 DEF collect_subtree_ids
      <3>2. staged'[id] = staged[id]
        BY <2>1, <2>3 DEF Without
      <3> QED
        BY <1>0, <2>1, <3>1, <3>2, ApplyElsewhere
    <2> QED
      BY <2>2, <2>3
  <1>4. CASE m.op = "delete_source_instance" /\ DeleteSourceInstance(m)
    <2>1. CASE InstanceOf[id] = m.instance
      BY <1>4, <2>1 DEF DeleteSourceInstance, Collected, LastIsStaged
    <2>2. CASE InstanceOf[id] # m.instance
      <3>1. /\ staged'[id] = staged[id] /\ upserts'[id] = upserts[id]
            /\ purged \subseteq purged' /\ deletes' = deletes
        BY <1>4, <2>2 DEF DeleteSourceInstance, Without
      <3> QED
        BY <1>0, <3>1, ApplyElsewhere
    <2> QED
      BY <2>1, <2>2
  <1>5. CASE m.op = "upsert_body" /\ UpsertBodySkipped(m)
    <2>1. UNCHANGED <<staged, upserts, deletes, purged>>
      BY <1>5 DEF UpsertBodySkipped
    <2> QED
      BY <1>0, <2>1, ApplyElsewhere
  <1>6. CASE m.op = "upsert_body" /\ UpsertBodyApplied(m)
    <2> DEFINE doc == [visible[m.id] EXCEPT !.body = m.body]
    <2>1. /\ staged' = WithUpserts([i \in {m.id} |-> doc], {m.id}, {m.id} \ {m.id})
          /\ upserts' = WithPushed([i \in {m.id} |-> doc], {m.id})
          /\ UNCHANGED <<deletes, purged>>
      BY <1>6 DEF UpsertBodyApplied, Fallible, apply_upsert_body
    <2>2. doc \in Docs
      <3>1. m.id \in Ids /\ m.body \in Bodies /\ visible[m.id] # NoDoc /\ visible \in Contents
        BY <1>6, MutationFields DEF UpsertBodyApplied, TypeOK
      <3> QED
        BY <3>1, BodyDocType
    <2> HIDE DEF doc
    <2>3. CASE id = m.id
      <3>1. staged'[id] = doc /\ upserts'[id] = Append(upserts[id], doc)
        BY <2>1, <2>3 DEF WithUpserts, WithPushed
      <3> QED
        BY <1>a, <2>2, <3>1
    <2>4. CASE id # m.id
      <3>1. staged'[id] = staged[id] /\ upserts'[id] = upserts[id]
        BY <2>1, <2>4 DEF WithUpserts, WithPushed
      <3> QED
        BY <1>0, <2>1, <3>1, ApplyElsewhere
    <2> QED
      BY <2>3, <2>4
  <1> QED
    BY <1>1, <1>2, <1>3, <1>4, <1>5, <1>6 DEF Apply, UpsertBody

\* No step makes the pending batch say less than will be published, or something
\* else.
LEMMA FaithfulStep ==
    ASSUME "upsert" \notin Faults
    PROVE  TypeOK /\ BatchFaithful /\ [Next]_vars => BatchFaithful'
  <1> SUFFICES ASSUME TypeOK, BatchFaithful, [Next]_vars, phase' # "stopped"
               PROVE  \A id \in Ids : Collected(id)' /\ LastIsStaged(id)'
    BY DEF BatchFaithful
  <1> DEFINE Kept == \A id \in Ids : Collected(id)' /\ LastIsStaged(id)'
  <1>0. ASSUME UNCHANGED <<staged, visible, upserts, deletes, purged>>, phase # "stopped"
        PROVE  Kept
    BY <1>0 DEF BatchFaithful, Collected, LastIsStaged
  <1>a. ASSUME staged' = visible', upserts' = NoUpserts PROVE Kept
    BY <1>a DEF Collected, LastIsStaged, NoUpserts
  <1>1. ASSUME NEW m \in Menu, Send(m) PROVE Kept
    BY <1>0, <1>1 DEF Send, indexVars
  <1>2. ASSUME NEW op \in MutationOps, RecvMutation(op) PROVE Kept
    <2>1. Apply(Head(queue).m) /\ queue # <<>> /\ visible' = visible /\ phase # "stopped"
      BY <1>2 DEF RecvMutation, Receive, indexVars
    <2>2. Head(queue).m \in Menu
      BY <2>1, HeadIsEntry
    <2>3. \A id \in Ids : Collected(id) /\ LastIsStaged(id)
      BY <2>1 DEF BatchFaithful
    <2> QED
      BY <2>1, <2>2, <2>3, ApplyFaithful
  <1>3. CASE RecvBarrier \/ RecvApplied \/ RecvShutdown \/ DrainRequest
             \/ DrainShutdown \/ DrainEnd \/ Broadcast
    <2>1. UNCHANGED <<staged, visible, upserts, deletes, purged>>
      BY <1>3 DEF RecvBarrier, RecvApplied, RecvShutdown, DrainRequest,
                  DrainShutdown, DrainEnd, Broadcast, batchVars, indexVars
    <2>2. phase # "stopped"
      BY <1>3 DEF RecvBarrier, RecvApplied, RecvShutdown, DrainRequest,
                  DrainShutdown, DrainEnd, Broadcast
    <2> QED
      BY <1>0, <2>1, <2>2
  <1>4. ASSUME NEW waiting, CommitAttempt(waiting), phase # "stopped" PROVE Kept
    <2>1. CASE do_commit_ok(waiting) /\ flush_post_commit(generation + 1)
      BY <1>a, <1>4, <2>1 DEF CommitAttempt, do_commit_ok, flush_post_commit
    <2>2. CASE do_commit_failed(waiting) /\ UNCHANGED <<batchVars, outbox>>
      BY <1>0, <1>4, <2>2 DEF CommitAttempt, do_commit_failed, batchVars
    <2> QED
      BY <1>4, <2>1, <2>2 DEF CommitAttempt
  <1>5. CASE RecvCommitNow \/ CommitTick
    BY <1>4, <1>5 DEF RecvCommitNow, CommitTick
  <1>6. CASE Finish
    BY <1>6 DEF Finish
  <1>7. CASE Restart
    BY <1>a, <1>7 DEF Restart, Boot
  <1>8. CASE UNCHANGED vars
    BY <1>0, <1>8 DEF vars
  <1> QED
    BY <1>1, <1>2, <1>3, <1>5, <1>6, <1>7, <1>8 DEF Next, WriterStep

\* A flush hands out at most the pending batch, under the generation it is given.
LEMMA FlushOne ==
    ASSUME NEW gen, flush_post_commit(gen), NEW b \in outbox' \ outbox
    PROVE  b = [generation |-> gen, upserts |-> upserts, deletes |-> deletes]
  BY DEF flush_post_commit

\* Only a commit, or the last flush of a shutdown, hands out a batch.
LEMMA HandedOut ==
    ASSUME TypeOK, [Next]_vars
    PROVE  \/ \E w : /\ do_commit_ok(w)
                     /\ flush_post_commit(generation + 1)
                     /\ staged' = staged
                     /\ phase # "stopped"
           \/ Finish /\ flush_post_commit(generation) /\ generation' = generation
              /\ Faults \cap {"commit", "reload"} # {}
           \/ outbox' \subseteq outbox /\ generation' = generation
           \/ outbox' = {} /\ generation' = 0
  <1>1. ASSUME NEW w, CommitAttempt(w)
        PROVE  \/ do_commit_ok(w) /\ flush_post_commit(generation + 1) /\ staged' = staged
               \/ outbox' = outbox /\ generation' = generation
    BY <1>1 DEF CommitAttempt, do_commit_failed
  <1>2. CASE RecvCommitNow
    BY <1>1, <1>2 DEF RecvCommitNow
  <1>3. CASE CommitTick
    BY <1>1, <1>3 DEF CommitTick
  <1>4. CASE Finish
    BY <1>4 DEF Finish, FinishCommit
  <1>5. CASE Broadcast
    BY <1>5 DEF Broadcast
  <1>6. CASE Restart
    BY <1>6 DEF Restart, Boot
  <1>7. CASE RecvBarrier \/ RecvApplied \/ RecvShutdown \/ DrainRequest
             \/ DrainShutdown \/ DrainEnd \/ UNCHANGED vars
    BY <1>7 DEF RecvBarrier, RecvApplied, RecvShutdown, DrainRequest,
                DrainShutdown, DrainEnd, vars
  <1>8. ASSUME NEW op \in MutationOps, RecvMutation(op)
        PROVE  outbox' = outbox /\ generation' = generation
    BY <1>8 DEF RecvMutation
  <1>9. ASSUME NEW m \in Menu, Send(m) PROVE outbox' = outbox /\ generation' = generation
    BY <1>9 DEF Send
  <1> QED
    BY <1>2, <1>3, <1>4, <1>5, <1>6, <1>7, <1>8, <1>9 DEF Next, WriterStep

\* The generations of the outbox stay behind the service's.
LEMMA PastStep == TypeOK /\ BatchesArePast /\ [Next]_vars => BatchesArePast'
  <1> SUFFICES ASSUME TypeOK, BatchesArePast, [Next]_vars, NEW b \in outbox'
               PROVE  b.generation <= generation'
    BY DEF BatchesArePast
  <1>0. generation \in Nat /\ (b \in outbox => b.generation \in Nat /\ b.generation <= generation)
    BY DEF TypeOK, Batch, BatchesArePast
  <1>1. ASSUME NEW w, do_commit_ok(w), flush_post_commit(generation + 1)
        PROVE  b.generation <= generation'
    <2>1. generation' = generation + 1
      BY <1>1 DEF do_commit_ok
    <2>2. CASE b \in outbox
      BY <1>0, <2>1, <2>2
    <2>3. CASE b \notin outbox
      <3>1. b.generation = generation + 1
        BY <1>1, <2>3, FlushOne
      <3> QED
        BY <1>0, <2>1, <3>1
    <2> QED
      BY <2>2, <2>3
  <1>2. CASE flush_post_commit(generation) /\ generation' = generation
    <2>1. b \notin outbox => b.generation = generation
      BY <1>2, FlushOne
    <2> QED
      BY <1>0, <1>2, <2>1
  <1>3. CASE outbox' \subseteq outbox /\ generation' = generation
    BY <1>0, <1>3
  <1>4. CASE outbox' = {}
    BY <1>4
  <1> QED
    BY <1>1, <1>2, <1>3, <1>4, HandedOut

\* Both facts about the batches hold in every state.
LEMMA BatchesSafe ==
    ASSUME "upsert" \notin Faults
    PROVE  Spec => [](TypeOK /\ BatchFaithful /\ BatchesArePast)
  <1>1. Init => BatchFaithful
    BY DEF Init, BatchFaithful, Collected, LastIsStaged, NoUpserts
  <1>2. Init => BatchesArePast
    BY DEF Init, BatchesArePast
  <1> QED
    BY <1>1, <1>2, TypeCorrect, FaithfulStep, PastStep, PTL DEF Spec

\* The batch of a commit is one nobody was handed before.
LEMMA FreshBatch ==
    ASSUME TypeOK, BatchesArePast, flush_post_commit(generation + 1), ~ BatchIsEmpty
    PROVE  [generation |-> generation + 1, upserts |-> upserts, deletes |-> deletes]
              \in outbox' \ outbox
  <1>1. generation \in Nat
    BY DEF TypeOK
  <1>2. \A b \in outbox : b.generation # generation + 1
    BY <1>1 DEF TypeOK, Batch, BatchesArePast
  <1> QED
    BY <1>2 DEF flush_post_commit

\* Every id whose document a commit changes for searches is named in the batch
\* the broadcaster gets (the result cache and the embedding worker depend on it),
\* or went with its source instance: through failed commits, failed scans,
\* shutdowns and crashes.
THEOREM EveryChangeAnnounced ==
    ASSUME "upsert" \notin Faults
    PROVE  Spec => ChangesAreAnnounced
  <1>1. ASSUME TypeOK, BatchFaithful, BatchesArePast, [Next]_vars, generation' > generation,
               NEW id \in Ids, visible'[id] # visible[id], id \notin purged
        PROVE  \E b \in outbox' \ outbox : b.upserts[id] # <<>> \/ id \in b.deletes
    <2>0. generation \in Nat
      BY <1>1 DEF TypeOK
    <2>1. PICK w : /\ do_commit_ok(w) /\ flush_post_commit(generation + 1)
                   /\ phase # "stopped"
      BY <1>1, <2>0, HandedOut
    <2>2. visible'[id] = staged[id]
      BY <2>1 DEF do_commit_ok
    <2>3. upserts[id] # <<>> \/ id \in deletes
      BY <1>1, <2>1, <2>2 DEF BatchFaithful, Collected
    <2>4. ~ BatchIsEmpty
      BY <1>1, <2>3 DEF BatchIsEmpty, NoUpserts
    <2> DEFINE b == [generation |-> generation + 1, upserts |-> upserts, deletes |-> deletes]
    <2>5. b \in outbox' \ outbox
      BY <1>1, <2>1, <2>4, FreshBatch
    <2>6. b.upserts[id] # <<>> \/ id \in b.deletes
      BY <2>3
    <2> QED
      BY <2>5, <2>6
  <1> DEFINE Named == generation' > generation =>
                 \A id \in Ids :
                    visible'[id] # visible[id] =>
                        \/ id \in purged
                        \/ \E b \in outbox' \ outbox :
                              b.upserts[id] # <<>> \/ id \in b.deletes
  <1>2. TypeOK /\ BatchFaithful /\ BatchesArePast /\ [Next]_vars => [Named]_vars
    BY <1>1
  <1> QED
    BY <1>2, BatchesSafe, PTL DEF Spec, ChangesAreAnnounced

\* A batch never announces a document that searches do not find: what it names
\* and does not also delete is what the reader serves from that step on.
THEOREM AnnouncedFound ==
    ASSUME "upsert" \notin Faults, OrderlyShutdown
    PROVE  Spec => AnnouncedIsVisible
  <1>1. ASSUME TypeOK, BatchFaithful, [Next]_vars,
               Faults \cap {"commit", "reload"} = {} \/ phase = "running",
               NEW b \in outbox' \ outbox, NEW id \in Ids \ (b.deletes \cup purged),
               b.upserts[id] # <<>>
        PROVE  visible'[id] = b.upserts[id][Len(b.upserts[id])]
    <2>1. PICK w : /\ do_commit_ok(w) /\ flush_post_commit(generation + 1)
                   /\ phase # "stopped"
      <3>1. ~ (Finish /\ Faults \cap {"commit", "reload"} # {})
        BY <1>1 DEF Finish
      <3> QED
        BY <1>1, <3>1, HandedOut
    <2>2. b.upserts = upserts /\ b.deletes = deletes
      BY <1>1, <2>1, FlushOne
    <2>3. staged[id] = upserts[id][Len(upserts[id])]
      BY <1>1, <2>1, <2>2 DEF BatchFaithful, LastIsStaged
    <2> QED
      BY <2>1, <2>2, <2>3 DEF do_commit_ok
  <1> DEFINE Found == \A b \in outbox' \ outbox : \A id \in Ids \ (b.deletes \cup purged) :
                         b.upserts[id] # <<>> =>
                             visible'[id] = b.upserts[id][Len(b.upserts[id])]
             Sound == Faults \cap {"commit", "reload"} = {} \/ Running
  <1>2. TypeOK /\ BatchFaithful /\ Sound /\ [Next]_vars => [Found]_vars
    BY <1>1 DEF Running
  <1>3. Spec => []Sound
    BY SoundShutdown
  <1> QED
    BY <1>2, <1>3, BatchesSafe, PTL DEF Spec, AnnouncedIsVisible
================================================================================
