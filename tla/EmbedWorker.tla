------------------------------ MODULE EmbedWorker ------------------------------
(***************************************************************************)
(* The road of a document into the semantic index: the daemon's stub       *)
(* broadcasts every committed batch over a bounded queue, the worker's     *)
(* main loop hands the commands to the embed thread, and that thread       *)
(* flushes text, images and deletions to the vector store and writes down  *)
(* in a journal what it has embedded.  A backfill walks the lexical index  *)
(* and submits what the journal lacks.  Store and journal are two files: a *)
(* worker that dies between them leaves them apart.                        *)
(***************************************************************************)
EXTENDS Naturals, Sequences, SequencesExt, FiniteSets

CONSTANTS
    EwDocs,        \* document ids
    EwChannelsOf,  \* the channels a document's content may ask for
    EwMaxVer,      \* bound: versions of the documents
    EwMaxCommits,  \* bound: broadcasts
    EwMaxFaults,   \* bound: failures and deaths of the worker
    EwMaxBackfills,\* bound: backfills asked for
    EwWireCap,     \* WRITER_QUEUE_CAPACITY, and what the socket holds
    EwJobCap,      \* QUEUE_CAPACITY
    EwBatch        \* the batch size of the embed thread

EwVectors == {"text", "image"}

ASSUME EwAssumption ==
    /\ EwChannelsOf \in [EwDocs -> SUBSET (EwVectors \cup {"skip"})]
    /\ EwMaxVer \in Nat /\ EwMaxCommits \in Nat /\ EwMaxFaults \in Nat
    /\ EwMaxBackfills \in Nat /\ EwWireCap \in Nat \ {0} /\ EwJobCap \in Nat \ {0}
    /\ EwBatch \in Nat \ {0}

VARIABLES
    lex,      \* the lexical index: per document [mt, ver, ch], or EwNone
    wire,     \* commands on their way to the worker's main loop
    late,     \* commands whose task waits for room in the queue
    jobs,     \* the embed thread's queue
    pend,     \* pending_text, pending_images and pending_deletes
    flush,    \* where the embed thread is, and the batch it has in hand
    timed,    \* the next wait for a job ends with the flush period
    vec,      \* the two tables of the vector store
    journal,  \* per document and channel the mtime recorded, or EwNone
    bf,       \* the backfill under way
    excused,  \* history: documents an embedding of which was lost or overtaken
    torn,     \* history: documents the store lost and the journal kept
    ewCount   \* what the bounds count

ewVars == <<lex, wire, late, jobs, pend, flush, timed, vec, journal, bf, excused, torn, ewCount>>

EwNone == [none |-> TRUE]
Row(mt, ver, ch) == [mt |-> mt, ver |-> ver, ch |-> ch]

Embed(d, row) == [op |-> "embed", doc |-> d, row |-> row]
EmbedDelete(d)     == [op |-> "delete", doc |-> d, row |-> EwNone]

NoPending == [text |-> <<>>, image |-> <<>>, deletes |-> {}]
EwIdle    == [at |-> "idle", batch |-> <<>>]
NoBackfill == [at |-> "none", left |-> {}, doc |-> EwNone, row |-> EwNone]

\* Each document is absent, or indexed and embedded by an earlier run.
EwInit ==
    /\ lex \in [EwDocs -> {EwNone} \cup {Row(1, 0, c) : c \in EwVectors}]
    /\ \A d \in EwDocs : lex[d] # EwNone => lex[d].ch \in EwChannelsOf[d]
    /\ vec = [d \in EwDocs |-> [c \in EwVectors |-> IF lex[d] = Row(1, 0, c) THEN lex[d] ELSE EwNone]]
    /\ journal = [d \in EwDocs |-> [c \in EwVectors |-> IF vec[d][c] = EwNone THEN EwNone ELSE Row(1, 0, c)]]
    /\ wire = <<>> /\ late = {} /\ jobs = <<>>
    /\ pend = NoPending /\ flush = EwIdle /\ timed = TRUE
    /\ bf = NoBackfill /\ excused = {} /\ torn = {}
    /\ ewCount = [commits |-> 0, faults |-> 0, backfills |-> 0, up |-> TRUE]

--------------------------------------------------------------------------------
(***************************************************************************)
(* The daemon's side.  SemanticIpcBroadcaster::broadcast sends the upserts *)
(* of a batch and then its deletions; a command that finds the queue full  *)
(* is left to a task of its own, and one that finds no connection, or a    *)
(* closed one, is dropped.                                                 *)
(***************************************************************************)
DocsOf(cmds) == {c.doc : c \in cmds}

\* Mutant: a full queue takes the command all the same.
Forward_unbounded(s, cmd) == [s EXCEPT !.wire = Append(@, cmd)]

Forward(s, cmd) ==
    IF ~ewCount.up
    THEN [s EXCEPT !.excused = @ \cup {cmd.doc}]
    ELSE LET overtaken == s.excused \cup (DocsOf(s.late) \cap {cmd.doc})
         IN  IF Len(s.wire) < EwWireCap
             THEN [s EXCEPT !.wire = Append(@, cmd), !.excused = overtaken]
             ELSE [s EXCEPT !.late = @ \cup {cmd}, !.excused = overtaken]

Sending(unlucky) == [wire |-> wire, late |-> late, excused |-> excused \cup unlucky]

broadcast(s) == wire' = s.wire /\ late' = s.late /\ excused' = s.excused

Committed == ewCount.commits < EwMaxCommits /\ ewCount' = [ewCount EXCEPT !.commits = @ + 1]

\* A generation with an upsert: of a changed file, whose mtime may be that of
\* the same second, or of an unchanged one (a reindex).  What a change within
\* a second, or one of the channel, leaves behind is not found again.
CommitUpsert(d) ==
    /\ Committed
    /\ \E ch \in EwChannelsOf[d], later \in BOOLEAN :
          LET old == lex[d]
              new == IF old = EwNone THEN Row(1, ewCount.commits + 1, ch)
                     ELSE Row(IF later THEN old.mt + 1 ELSE old.mt, ewCount.commits + 1, ch)
          IN  /\ new.mt <= EwMaxVer
              /\ lex' = [lex EXCEPT ![d] = new]
              /\ LET unlucky == IF old # EwNone /\ (new.mt = old.mt \/ new.ch # old.ch) THEN {d} ELSE {}
                 IN  broadcast(Forward(Sending(unlucky), Embed(d, new)))
    /\ UNCHANGED <<jobs, pend, flush, timed, vec, journal, bf, torn>>

CommitReindex(d) ==
    /\ Committed /\ lex[d] # EwNone
    /\ broadcast(Forward(Sending({}), Embed(d, lex[d])))
    /\ UNCHANGED <<lex, jobs, pend, flush, timed, vec, journal, bf, torn>>

CommitDelete(d) ==
    /\ Committed /\ lex[d] # EwNone
    /\ lex' = [lex EXCEPT ![d] = EwNone]
    /\ broadcast(Forward(Sending({}), EmbedDelete(d)))
    /\ UNCHANGED <<jobs, pend, flush, timed, vec, journal, bf, torn>>

\* Deleted and added again in one generation: the deletion is sent last.
CommitReplace(d) ==
    /\ Committed /\ lex[d] # EwNone
    /\ broadcast(Forward(Forward(Sending({d}), Embed(d, lex[d])), EmbedDelete(d)))
    /\ UNCHANGED <<lex, jobs, pend, flush, timed, vec, journal, bf, torn>>

\* A waiting task gets its room; the tasks wait in no order.
LateSend ==
    /\ Len(wire) < EwWireCap
    /\ \E cmd \in late : late' = late \ {cmd} /\ wire' = Append(wire, cmd)
    /\ UNCHANGED <<lex, jobs, pend, flush, timed, vec, journal, bf, excused, torn, ewCount>>

--------------------------------------------------------------------------------
(***************************************************************************)
(* The worker.  Its main loop waits for room in the embed thread's queue.  *)
(***************************************************************************)
Running == ewCount.up

DispatchEmbed ==
    /\ Running /\ wire # <<>> /\ Len(jobs) < EwJobCap
    /\ jobs' = Append(jobs, Head(wire)) /\ wire' = Tail(wire)
    /\ UNCHANGED <<lex, late, pend, flush, timed, vec, journal, bf, excused, torn, ewCount>>

\* BackfillJournal::is_current: the same mtime, and one that is known.
is_current(d, row) == row.mt # 0 /\ journal[d][row.ch] = Row(row.mt, 0, row.ch)

Full(p) == Len(p.text) >= EwBatch \/ Len(p.image) >= EwBatch \/ Cardinality(p.deletes) >= EwBatch

\* The embed thread takes a job.  An upsert for which a deletion is pending
\* is about to be deleted: the deletions are flushed last.
handle_job(p, job) ==
    CASE job.op = "delete" -> [p EXCEPT !.deletes = @ \cup {job.doc}]
      [] job.op = "embed" /\ (job.row.ch = "skip" \/ is_current(job.doc, job.row)) -> p
      [] OTHER -> [p EXCEPT ![job.row.ch] = Append(@, job)]

\* The wait for the next job ends with the period, unless the period is over
\* already: then it is a wait without an end.
TakeJob ==
    /\ Running /\ flush = EwIdle /\ jobs # <<>>
    /\ LET job == Head(jobs)
           p   == handle_job(pend, job)
       IN  /\ pend' = p
           /\ flush' = IF Full(p) THEN [EwIdle EXCEPT !.at = "text"] ELSE EwIdle
           /\ excused' = IF job.op = "embed" /\ job.doc \in pend.deletes
                         THEN excused \cup {job.doc} ELSE excused
    /\ jobs' = Tail(jobs)
    /\ timed' \in {timed, FALSE}
    /\ UNCHANGED <<lex, wire, late, vec, journal, bf, torn, ewCount>>

FlushPeriod ==
    /\ Running /\ flush = EwIdle /\ timed
    /\ pend # NoPending
    /\ flush' = [EwIdle EXCEPT !.at = "text"]
    /\ UNCHANGED <<lex, wire, late, jobs, pend, timed, vec, journal, bf, excused, torn, ewCount>>

\* Mutant: the first of several upserts of a document is kept.
dedup_by_doc_id_first(batch) ==
    SelectSeq(batch, LAMBDA j : \A i \in DOMAIN batch : batch[i].doc = j.doc => batch[i].row.ver >= j.row.ver)

\* The last upsert of a document counts.
LastOf(batch, d) == batch[CHOOSE i \in DOMAIN batch :
                             /\ batch[i].doc = d
                             /\ \A k \in DOMAIN batch : batch[k].doc = d => k <= i]

dedup_by_doc_id(batch) == SetToSeq({LastOf(batch, d) : d \in DocsOf(Range(batch))})

After(at) == CASE at = "text" -> "image" [] at = "image" -> "deletes"

EwFault == ewCount.faults < EwMaxFaults /\ ewCount' = [ewCount EXCEPT !.faults = @ + 1]

\* flush_text and flush_images as far as the store: the batch is taken, and
\* dropped when a model does not load, an embedding or the store fails, or an
\* image does not decode and the counts differ.  flush_text restarts the
\* period before the work, so a flush of the three may use it up.
FlushStore(c) ==
    /\ Running /\ flush.at = c
    /\ pend' = [pend EXCEPT ![c] = <<>>]
    /\ timed' \in IF c = "text" THEN BOOLEAN ELSE {timed}
    /\ LET batch == dedup_by_doc_id(pend[c])
       IN  \/ /\ batch # <<>>
              /\ vec' = [d \in EwDocs |->
                            IF d \in DocsOf(Range(batch))
                            THEN [vec[d] EXCEPT ![c] = LastOf(batch, d).row]
                            ELSE vec[d]]
              /\ flush' = [at |-> "record", batch |-> batch]
              /\ UNCHANGED <<excused, ewCount>>
           \/ /\ batch = <<>>
              /\ flush' = [EwIdle EXCEPT !.at = After(c)]
              /\ UNCHANGED <<vec, excused, ewCount>>
           \/ /\ batch # <<>> /\ EwFault
              /\ flush' = [EwIdle EXCEPT !.at = After(c)]
              /\ excused' = excused \cup DocsOf(Range(batch))
              /\ UNCHANGED vec
    /\ UNCHANGED <<lex, wire, late, jobs, journal, bf, torn>>

flush_text   == FlushStore("text")
flush_images == FlushStore("image")

\* The journal is told of the batch once the store has it.
record ==
    /\ Running /\ flush.at = "record"
    /\ LET c == flush.batch[1].row.ch
       IN  /\ journal' = [d \in EwDocs |->
                             IF d \in DocsOf(Range(flush.batch))
                             THEN [journal[d] EXCEPT ![c] = Row(LastOf(flush.batch, d).row.mt, 0, c)]
                             ELSE journal[d]]
           /\ flush' = [EwIdle EXCEPT !.at = After(c)]
    /\ UNCHANGED <<lex, wire, late, jobs, pend, timed, vec, bf, excused, torn, ewCount>>

\* flush_deletes: both tables, then the journal.  A store that fails keeps
\* the image vectors, or all of them, and the ids are not tried again.
flush_deletes ==
    /\ Running /\ flush.at = "deletes"
    /\ pend' = [pend EXCEPT !.deletes = {}]
    /\ LET ids == pend.deletes
           Without(tables) == [d \in EwDocs |->
                                 IF d \in ids
                                 THEN [c \in EwVectors |-> IF c \in tables THEN EwNone ELSE vec[d][c]]
                                 ELSE vec[d]]
       IN  \/ /\ vec' = Without(EwVectors)
              /\ flush' = IF ids = {} THEN EwIdle ELSE [at |-> "forget", batch |-> ids]
              /\ UNCHANGED <<excused, torn, ewCount>>
           \/ /\ ids # {} /\ EwFault
              /\ \E tables \in {{}, {"text"}} :
                    /\ vec' = Without(tables)
                    /\ torn' = IF tables = {} THEN torn ELSE torn \cup ids
              /\ excused' = excused \cup ids
              /\ flush' = EwIdle
    /\ UNCHANGED <<lex, wire, late, jobs, timed, journal, bf>>

\* Mutant: only the rows of text embeddings are forgotten.
forget_text ==
    /\ Running /\ flush.at = "forget"
    /\ journal' = [d \in EwDocs |-> IF d \in flush.batch THEN [journal[d] EXCEPT !["text"] = EwNone] ELSE journal[d]]
    /\ flush' = EwIdle
    /\ UNCHANGED <<lex, wire, late, jobs, pend, timed, vec, bf, excused, torn, ewCount>>

forget ==
    /\ Running /\ flush.at = "forget"
    /\ journal' = [d \in EwDocs |-> IF d \in flush.batch THEN [c \in EwVectors |-> EwNone] ELSE journal[d]]
    /\ flush' = EwIdle
    /\ UNCHANGED <<lex, wire, late, jobs, pend, timed, vec, bf, excused, torn, ewCount>>

--------------------------------------------------------------------------------
(***************************************************************************)
(* The backfill, a task of the worker that asks the daemon for the ids and *)
(* for each document.                                                      *)
(***************************************************************************)
all_doc_ids == {d \in EwDocs : lex[d] # EwNone}

\* The document as the daemon has it, without an mtime; nothing when it is
\* gone or the daemon answers with an error.
hydrate_doc(d) == IF lex[d] = EwNone THEN EwNone ELSE [lex[d] EXCEPT !.mt = 0]

\* was_embedded for both channels.
PassedOver(d) == \A c \in EwVectors : journal[d][c] # EwNone

BackfillStart ==
    /\ Running /\ bf.at = "none" /\ ewCount.backfills < EwMaxBackfills
    /\ bf' = [NoBackfill EXCEPT !.at = "walk", !.left = all_doc_ids]
    /\ ewCount' = [ewCount EXCEPT !.backfills = @ + 1]
    /\ UNCHANGED <<lex, wire, late, jobs, pend, flush, timed, vec, journal, excused, torn>>

Walked(d) == bf.left \ {d}

\* An id both of whose channels are recorded is passed over, and so is a
\* document that is gone or that cannot be had.
BackfillNext ==
    /\ Running /\ bf.at = "walk" /\ bf.left # {}
    /\ \E d \in bf.left :
          \/ /\ PassedOver(d) \/ hydrate_doc(d) = EwNone
             /\ bf' = [bf EXCEPT !.left = Walked(d)]
             /\ UNCHANGED ewCount
          \/ EwFault /\ bf' = [bf EXCEPT !.left = Walked(d)]
          \/ /\ ~PassedOver(d) /\ hydrate_doc(d) # EwNone
             /\ bf' = [at |-> "send", left |-> Walked(d), doc |-> d, row |-> hydrate_doc(d)]
             /\ UNCHANGED ewCount
    /\ UNCHANGED <<lex, wire, late, jobs, pend, flush, timed, vec, journal, excused, torn>>

\* The document was read a while ago: what was committed since may be ahead of it.
BackfillSend ==
    /\ Running /\ bf.at = "send" /\ Len(jobs) < EwJobCap
    /\ jobs' = Append(jobs, Embed(bf.doc, bf.row))
    /\ excused' = IF lex[bf.doc] = EwNone THEN excused \cup {bf.doc}
                  ELSE IF lex[bf.doc].ver # bf.row.ver THEN excused \cup {bf.doc}
                  ELSE excused
    /\ bf' = [NoBackfill EXCEPT !.at = "walk", !.left = bf.left]
    /\ UNCHANGED <<lex, wire, late, pend, flush, timed, vec, journal, torn, ewCount>>

BackfillDone ==
    /\ Running /\ bf.at = "walk" /\ bf.left = {}
    /\ bf' = NoBackfill
    /\ UNCHANGED <<lex, wire, late, jobs, pend, flush, timed, vec, journal, excused, torn, ewCount>>

--------------------------------------------------------------------------------
(***************************************************************************)
(* The worker ends, of a signal or by a fault: the main loop lets go of    *)
(* the embed thread and does not join it, so what is queued or pending is  *)
(* lost either way.                                                        *)
(***************************************************************************)
WorkerEnds ==
    /\ Running /\ ewCount.faults < EwMaxFaults
    /\ ewCount' = [ewCount EXCEPT !.faults = @ + 1, !.up = FALSE]
    /\ excused' = excused \cup DocsOf(Range(wire) \cup late \cup Range(jobs)
                                      \cup Range(pend.text) \cup Range(pend.image))
                          \cup pend.deletes
    /\ torn' = IF flush.at = "forget" THEN torn \cup flush.batch ELSE torn
    /\ wire' = <<>> /\ late' = {} /\ jobs' = <<>> /\ pend' = NoPending
    /\ flush' = EwIdle /\ bf' = NoBackfill
    /\ UNCHANGED <<lex, timed, vec, journal>>

\* The worker is started again.  A store that does not open is set aside and
\* begun anew; the journal is kept.
WorkerStarts ==
    /\ ~Running
    /\ ewCount' = [ewCount EXCEPT !.up = TRUE]
    /\ timed' = TRUE
    /\ \/ UNCHANGED <<vec, excused, torn>>
       \/ /\ vec' = [d \in EwDocs |-> [c \in EwVectors |-> EwNone]]
          /\ excused' = EwDocs /\ torn' = EwDocs
    /\ UNCHANGED <<lex, wire, late, jobs, pend, flush, journal, bf>>

--------------------------------------------------------------------------------
EwCommits == \E d \in EwDocs : CommitUpsert(d) \/ CommitReindex(d) \/ CommitDelete(d) \/ CommitReplace(d)
EwThread  == TakeJob \/ FlushPeriod \/ flush_text \/ flush_images \/ record
             \/ flush_deletes \/ forget
EwBackfill == BackfillNext \/ BackfillSend \/ BackfillDone

EwNext == EwCommits \/ LateSend \/ DispatchEmbed \/ EwThread \/ BackfillStart \/ EwBackfill
          \/ WorkerEnds \/ WorkerStarts

EwSpec     == EwInit /\ [][EwNext]_ewVars
EwFairSpec == /\ EwSpec
              /\ WF_ewVars(LateSend) /\ WF_ewVars(DispatchEmbed)
              /\ WF_ewVars(EwThread) /\ WF_ewVars(EwBackfill)

--------------------------------------------------------------------------------
(***************************************************************************)
(* Properties.                                                             *)
(***************************************************************************)

\* Type correctness, and the bounds of the two queues: WRITER_QUEUE_CAPACITY
\* of the supervisor and QUEUE_CAPACITY of the embed thread.
EwTypeOK ==
    /\ Len(wire) <= EwWireCap /\ Len(jobs) <= EwJobCap
    /\ \A d \in EwDocs : lex[d] = EwNone \/ lex[d].ch \in EwChannelsOf[d]
    /\ DOMAIN vec = EwDocs /\ DOMAIN journal = EwDocs
    /\ flush.at \in {"idle", "text", "image", "record", "deletes", "forget"}
    /\ bf.at \in {"none", "walk", "send"} /\ excused \subseteq EwDocs /\ torn \subseteq EwDocs

\* What the journal calls embedded is in the store, so that passing over a
\* document loses nothing (already_embedded, start_backfill): also when the
\* worker dies between store and journal, or a batch fails.  The exceptions
\* are a deletion cut in two and a store that was set aside.
JournalNotAhead ==
    \A d \in EwDocs, c \in EwVectors :
        journal[d][c] # EwNone =>
            \/ vec[d][c] # EwNone
            \/ d \in torn
            \/ flush.at = "forget" /\ d \in flush.batch

\* When nothing is under way the store has the vector of a document's last
\* version, and none of a document that is gone (flush_text, flush_deletes,
\* dedup_by_doc_id), unless one of its commands was lost, overtaken by
\* another, or came for a change that mtime and channel do not show.
EwQuiet == /\ wire = <<>> /\ late = {} /\ jobs = <<>> /\ pend = NoPending
           /\ flush = EwIdle /\ bf = NoBackfill
VectorsFollow ==
    EwQuiet => \A d \in EwDocs \ (excused \cup torn) :
        IF lex[d] = EwNone THEN \A c \in EwVectors : vec[d][c] = EwNone
        ELSE lex[d].ch # "skip" => /\ vec[d][lex[d].ch] # EwNone
                                   /\ vec[d][lex[d].ch].ver = lex[d].ver

\* The vector store and its journal agree with the documents.
VectorsSafe == JournalNotAhead /\ VectorsFollow

--------------------------------------------------------------------------------
(***************************************************************************)
(* What comments of the code say and the code does not do.                 *)
(***************************************************************************)

\* "skips ids whose channel is already recorded in the journal"
\* (start_backfill): a document the journal has for the channel its content
\* asks for is not submitted again.
BackfillResumes ==
    [][\A d \in EwDocs : bf'.at = "send" /\ bf.at = "walk" /\ bf'.doc = d
                         /\ lex[d].ch \in EwVectors => journal[d][lex[d].ch] = EwNone]_ewVars

\* "flush_ms is 2s [...] so the first hit should land within ~5s after the
\* last submit": what is pending in the embed thread is flushed some time.
PendingIsFlushed == pend # NoPending ~> pend = NoPending

================================================================================
