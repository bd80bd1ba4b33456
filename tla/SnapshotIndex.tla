----------------------------- MODULE SnapshotIndex -----------------------------
(***************************************************************************)
(* What the index writer service promises to the rest of the daemon, with  *)
(* the channel, the dirty flag, the tombstones and the batch left out:     *)
(*                                                                         *)
(*   - searches see a published snapshot of the index, and a snapshot is   *)
(*     always one that was made durable first;                             *)
(*   - a reply to barrier() or commit_now() is given only when everything  *)
(*     accepted so far is durable and published;                           *)
(*   - a crash takes the index back to the last durable snapshot.          *)
(***************************************************************************)

CONSTANT Contents   \* the possible contents of an index
CONSTANT Calls      \* names of the barrier() and commit_now() calls

VARIABLES
    current,    \* the contents with every accepted mutation applied
    saved,      \* the contents of the last durable commit
    published,  \* the contents the searcher sees
    acked       \* the calls that got a reply

svars == <<current, saved, published, acked>>

SInit ==
    /\ current \in Contents
    /\ saved = current
    /\ published = current
    /\ acked = {}

\* A mutation is accepted: nothing becomes durable or visible yet.
Change ==
    /\ current' \in Contents
    /\ UNCHANGED <<saved, published, acked>>

\* A commit whose reload failed: durable, not yet visible, nobody is told.
Save ==
    /\ saved' = current
    /\ UNCHANGED <<current, published, acked>>

\* A commit and the reload after it; the waiting calls may be answered.
Publish ==
    /\ saved' = current
    /\ published' = current
    /\ acked' \in SUBSET Calls
    /\ acked \subseteq acked'
    /\ UNCHANGED current

\* Calls may be answered without a commit when there is nothing to commit.
Ack ==
    /\ published = current
    /\ saved = current
    /\ acked' \in SUBSET Calls
    /\ acked \subseteq acked'
    /\ UNCHANGED <<current, saved, published>>

\* The process dies and is started again.
Restart ==
    /\ current' = saved
    /\ published' = saved
    /\ UNCHANGED <<saved, acked>>

SNext == Change \/ Save \/ Publish \/ Ack \/ Restart

SSpec == SInit /\ [][SNext]_svars
================================================================================
