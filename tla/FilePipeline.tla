------------------------------ MODULE FilePipeline ------------------------------
(***************************************************************************)
(* From a file on disk to its document, around the index writer: the boot  *)
(* crawl and the full reindex with their manifest (lixun-indexer           *)
(* indexer.rs, lixun-sources fs.rs and manifest.rs), the refresh of a      *)
(* file the watcher reports (watcher.rs, index_file), the persistent OCR   *)
(* queue (lixun-extract ocr_queue.rs) and the OCR worker (ocr_tick.rs).    *)
(* The composition is with the writer itself: every mutation goes through  *)
(* the channel of IndexWriter.                                             *)
(*                                                                         *)
(* A version of a file is its mtime; it stands for the size and the bytes  *)
(* too, and the text of version v, extracted or recognised, is the body v. *)
(* All files are OCR candidates.  A crawl batch is one file.               *)
(***************************************************************************)
EXTENDS IndexWriter

CONSTANTS
    TextLayer,     \* versions whose text extract_content finds without OCR
    Unreadable,    \* versions on which OCR fails or finds nothing
    MaxAttempts,   \* OCR_MAX_ATTEMPTS
    Resolvers,     \* watcher workers; none when the watcher could not start
    Env,           \* what may happen, see EnvKinds
    InitialFiles,  \* what may be on disk when the service starts
    LastReindex,   \* bound: a reindex is requested before this many sends only
    LastCrash,     \* bound: the daemon dies before this many sends only
    Free, NoRow, NoJob

EnvKinds == {"boot", "write", "unlink", "rescan", "reindex", "idle", "pressure"}

Gone == NoMtime

Crawlers == {"incremental", "full"}

Row == [mtime : Mtimes, attempts : 0..MaxAttempts]

Job == [file : Ids, mtime : Mtimes, text : Bodies \cup {NoBody},
        stage : {"picked", "read", "checked", "sent"}]

UpsertOf(f, doc) == [op |-> "upsert", docs |-> [id \in {f} |-> doc]]
DeleteOf(ids) == [op |-> "delete", ids |-> ids]
SubtreeOf(f) == [op |-> "delete_subtree", prefix |-> f]
BodyOf(f, text, expected) ==
    [op |-> "upsert_body", id |-> f, body |-> text, expected |-> expected]
CommitNow == [op |-> "commit_now"]

FileUpserts == {UpsertOf(f, doc) : f \in Ids, doc \in Docs}
SubtreeDeletes == {SubtreeOf(f) : f \in Ids}

\* The mutations of the pipeline.
PipelineMenu ==
    FileUpserts
    \cup SubtreeDeletes
    \cup {DeleteOf(ids) : ids \in SUBSET Ids}
    \cup {BodyOf(f, text, seen) : f \in Ids, text \in Bodies, seen \in Mtimes}
    \cup {CommitNow}

ASSUME PipelineAssumption ==
    /\ Bodies = Mtimes
    /\ TextLayer \subseteq Mtimes
    /\ Unreadable \subseteq Mtimes
    /\ MaxAttempts \in Nat \ {0}
    /\ Env \subseteq EnvKinds
    /\ InitialFiles \subseteq [Ids -> (Mtimes \cap {1}) \cup {Gone}]
    /\ \A c \in InitialContents, f \in Ids : c[f] # NoDoc => c[f].mtime = 1
    /\ LastReindex \in Nat /\ LastCrash \in Nat
    /\ NoRow \notin Row /\ NoJob \notin Job
    /\ Free \notin PipelineMenu
    /\ PipelineMenu \subseteq Menu
    /\ \A f, g \in Ids : id_in_subtree(f, g) => f = g  \* no file lies below another

VARIABLES
    file,      \* the disk: the version of each file, or Gone
    clock,     \* the last version written
    manifest,  \* manifest.json: per path the mtime a crawl last indexed
    rows,      \* the ocr_queue table, keyed by doc_id
    events,    \* paths with a refresh job in the watcher's queue
    held,      \* per resolver, the mutation it is about to send
    crawl,     \* the crawls, one of each kind at most
    job        \* the OCR worker's current job

diskVars  == <<file, clock>>
stateVars == <<manifest, rows>>
taskVars  == <<events, held, crawl, job>>
pvars == <<vars, diskVars, stateVars, taskVars>>

--------------------------------------------------------------------------------
(***************************************************************************)
(* Files and what indexing one of them does.                               *)
(***************************************************************************)

\* A file is created or rewritten.  The kernel's event reaches the watcher.
Write(f) ==
    /\ "write" \in Env
    /\ clock + 1 \in Mtimes
    /\ clock' = clock + 1
    /\ file' = [file EXCEPT ![f] = clock + 1]
    /\ events' = IF Resolvers = {} THEN events ELSE events \cup {f}
    /\ UNCHANGED <<vars, stateVars, held, crawl, job>>

Unlink(f) ==
    /\ "unlink" \in Env
    /\ file[f] # Gone
    /\ file' = [file EXCEPT ![f] = Gone]
    /\ events' = IF Resolvers = {} THEN events ELSE events \cup {f}
    /\ UNCHANGED <<vars, clock, stateVars, held, crawl, job>>

\* SearchHandleBodyChecker: looks at what the reader serves.
has_body(f) == visible[f] # NoDoc /\ visible[f].body # NoBody

\* Another event for a file that did not change: an attribute, a rescan after an
\* overflow.
Rescan(f) ==
    /\ "rescan" \in Env
    /\ Resolvers # {}
    /\ file[f] # Gone
    /\ events' = events \cup {f}
    /\ UNCHANGED <<vars, diskVars, stateVars, held, crawl, job>>

extract_content(f) == IF file[f] \in TextLayer THEN file[f] ELSE NoBody

\* Called when there is no text to extract.  INSERT OR IGNORE: a row that is
\* there already stays as it is.
maybe_enqueue_ocr(f) ==
    IF file[f] \in TextLayer \cup {Gone} \/ has_body(f) \/ rows[f] # NoRow
    THEN rows
    ELSE [rows EXCEPT ![f] = [mtime |-> file[f], attempts |-> 0]]

\* Mutant: the body the live index has is not kept.
index_file_clobbers(f) == [mtime |-> file[f], body |-> extract_content(f)]

\* Without text of its own the document keeps the body the live index has.
index_file(f) ==
    [mtime |-> file[f],
     body  |-> IF file[f] \notin TextLayer /\ has_body(f) THEN visible[f].body
               ELSE extract_content(f)]

--------------------------------------------------------------------------------
(***************************************************************************)
(* The watcher's resolvers: resolver_task and resolve_refresh on a file.   *)
(***************************************************************************)
ResolveFile(r, f) ==
    /\ file[f] # Gone
    /\ held' = [held EXCEPT ![r] = UpsertOf(f, index_file(f))]
    /\ rows' = maybe_enqueue_ocr(f)

ResolveGone(r, f) ==
    /\ file[f] = Gone
    /\ held' = [held EXCEPT ![r] = SubtreeOf(f)]
    /\ UNCHANGED rows

Resolve(r) ==
    \E f \in events :
        /\ held[r] = Free
        /\ events' = events \ {f}
        /\ ResolveFile(r, f) \/ ResolveGone(r, f)
        /\ UNCHANGED <<vars, diskVars, manifest, crawl, job>>

Forward(r) ==
    /\ held[r] # Free
    /\ Send(held[r])
    /\ held' = [held EXCEPT ![r] = Free]
    /\ UNCHANGED <<diskVars, stateVars, events, crawl, job>>

--------------------------------------------------------------------------------
(***************************************************************************)
(* The crawls: run_incremental at boot and reindex_full on request.  Both  *)
(* walk the roots with index_incremental_batched, the latter with an empty *)
(* manifest and an empty list of indexed ids.                              *)
(***************************************************************************)
NoManifest == [f \in Ids |-> NoMtime]

NoFiles == [f \in {} |-> NoMtime]

Crawl(stage, todo, found, deleted) ==
    [stage |-> stage, todo |-> todo, found |-> found, deleted |-> deleted,
     worked |-> FALSE, saved |-> FALSE, batch |-> Free, call |-> 0]

Off  == Crawl("off", NoFiles, NoManifest, {})
Walk == Crawl("walk", NoFiles, NoManifest, {})

Advance(k, c) == crawl' = [crawl EXCEPT ![k] = c]

\* reindex_full is one at a time (reindex_in_progress); it deletes the manifest
\* before it starts.
Reindex ==
    /\ "reindex" \in Env
    /\ sent <= LastReindex
    /\ crawl["full"].stage = "off"
    /\ manifest' = NoManifest
    /\ Advance("full", Walk)
    /\ UNCHANGED <<vars, diskVars, rows, events, held, job>>

\* A file is skipped when the manifest has its mtime and the index has it.
Unchanged(k, f, known) ==
    known[f] = file[f] /\ k = "incremental" /\ visible[f] # NoDoc

CrawlWalk(k) ==
    LET known   == IF k = "full" THEN NoManifest ELSE manifest
        changed == {f \in Ids : file[f] # Gone /\ ~ Unchanged(k, f, known)}
        deleted == {f \in Ids : file[f] = Gone /\ known[f] # NoMtime}
    IN  /\ crawl[k].stage = "walk"
        /\ Advance(k, Crawl("extract",
                            [f \in changed |-> file[f]],
                            [f \in Ids |-> IF f \in deleted THEN NoMtime ELSE known[f]],
                            deleted))
        /\ UNCHANGED <<vars, diskVars, stateVars, events, held, job>>

Rest(fn, f) == [g \in DOMAIN fn \ {f} |-> fn[g]]

\* The mtime is the one the walk saw; the text is read now, and so is the mtime
\* of the OCR row.  A body the index has is not kept here.
CrawlExtract(k) ==
    \E f \in DOMAIN crawl[k].todo :
        LET seen == crawl[k].todo[f]
            doc  == [mtime |-> seen, body |-> extract_content(f)]
        IN  /\ crawl[k].stage = "extract"
            /\ rows' = maybe_enqueue_ocr(f)
            /\ Advance(k, [crawl[k] EXCEPT !.stage = "send",
                                           !.todo = Rest(@, f),
                                           !.found = [@ EXCEPT ![f] = seen],
                                           !.batch = UpsertOf(f, doc)])
            /\ UNCHANGED <<vars, diskVars, manifest, events, held, job>>

CrawlSend(k) ==
    /\ crawl[k].stage = "send"
    /\ Send(crawl[k].batch)
    /\ Advance(k, [crawl[k] EXCEPT !.stage = "extract", !.worked = TRUE,
                                   !.batch = Free])
    /\ UNCHANGED <<diskVars, stateVars, events, held, job>>

\* reindex_full: the walking thread saves the manifest once it has handed over
\* its last batch, which may still wait to be sent.
FullSave ==
    /\ crawl["full"].stage \in {"extract", "send"}
    /\ DOMAIN crawl["full"].todo = {}
    /\ ~ crawl["full"].saved
    /\ manifest' = crawl["full"].found
    /\ Advance("full", [crawl["full"] EXCEPT !.saved = TRUE])
    /\ UNCHANGED <<vars, diskVars, rows, events, held, job>>

\* run_incremental ignores no deletion; reindex_full finds none to send.
CrawlDelete ==
    /\ crawl["incremental"].stage = "extract"
    /\ DOMAIN crawl["incremental"].todo = {}
    /\ crawl["incremental"].deleted # {}
    /\ Send(DeleteOf(crawl["incremental"].deleted))
    /\ Advance("incremental",
               [crawl["incremental"] EXCEPT !.deleted = {}, !.worked = TRUE])
    /\ UNCHANGED <<diskVars, stateVars, events, held, job>>

CrawlCommit(k) ==
    /\ crawl[k].stage = "extract"
    /\ DOMAIN crawl[k].todo = {}
    /\ crawl[k].deleted = {}
    /\ IF k = "full" THEN crawl[k].saved ELSE crawl[k].worked
    /\ Send(CommitNow)
    /\ Advance(k, [crawl[k] EXCEPT !.stage = "wait", !.call = sent + 1])
    /\ UNCHANGED <<diskVars, stateVars, events, held, job>>

\* Mutant: the manifest is saved without waiting for the commit.
CommitAnswered_at_once(k) == crawl[k].stage = "wait"

CommitAnswered(k) == crawl[k].stage = "wait" /\ crawl[k].call \in acked

\* Mutant: a crawl that found nothing to do waits for a commit.
CrawlEnd_after_commit_only(k) ==
    /\ CommitAnswered(k)
    /\ manifest' = IF k = "full" THEN manifest ELSE crawl[k].found
    /\ Advance(k, Off)
    /\ UNCHANGED <<vars, diskVars, rows, events, held, job>>

\* The end: run_incremental saves the manifest now.
CrawlEnd(k) ==
    /\ \/ CommitAnswered(k)
       \/ /\ k = "incremental"
          /\ crawl[k].stage = "extract"
          /\ DOMAIN crawl[k].todo = {}
          /\ ~ crawl[k].worked
          /\ crawl[k].deleted = {}
    /\ manifest' = IF k = "full" THEN manifest ELSE crawl[k].found
    /\ Advance(k, Off)
    /\ UNCHANGED <<vars, diskVars, rows, events, held, job>>

CrawlStep(k) ==
    \/ CrawlWalk(k)
    \/ CrawlExtract(k)
    \/ CrawlSend(k)
    \/ k = "full" /\ FullSave
    \/ k = "incremental" /\ CrawlDelete
    \/ CrawlCommit(k)
    \/ CrawlEnd(k)

--------------------------------------------------------------------------------
(***************************************************************************)
(* The OCR worker, tick_once: one job at a time.  Its row stays in the     *)
(* queue until the job ends.                                               *)
(***************************************************************************)

\* StatsIdleGate, and the pressure gate that may close at any time.
is_idle == "idle" \in Env /\ crawl["full"].stage = "off"

\* Mutant: a row is tried once too often.
Pending_off_by_one(f) == rows[f] # NoRow /\ rows[f].attempts <= MaxAttempts

Pending(f) == rows[f] # NoRow /\ rows[f].attempts < MaxAttempts

\* peek_next: fewest attempts first, then by age, which is left open.
peek_next(f) ==
    /\ Pending(f)
    /\ \A g \in Ids : Pending(g) => rows[f].attempts <= rows[g].attempts

TickPick ==
    \E f \in Ids :
        /\ job = NoJob
        /\ is_idle
        /\ peek_next(f)
        /\ job' = [file |-> f, mtime |-> rows[f].mtime, stage |-> "picked",
                   text |-> NoBody]
        /\ UNCHANGED <<vars, diskVars, stateVars, events, held, crawl>>

\* Mutant: a failure is not counted.
mark_failure_uncounted(f) == rows

mark_failure(f) ==
    IF rows[f] = NoRow THEN rows ELSE [rows EXCEPT ![f].attempts = @ + 1]

remove(f) == [rows EXCEPT ![f] = NoRow]

\* run_ocr reads the file as it is now.  The content filter and every error of
\* the OCR run count as a failure.
TickOcr ==
    /\ job # NoJob
    /\ job.stage = "picked"
    /\ IF file[job.file] \in Unreadable \cup {Gone}
       THEN rows' = mark_failure(job.file) /\ job' = NoJob
       ELSE job' = [job EXCEPT !.stage = "read", !.text = file[job.file]]
            /\ UNCHANGED rows
    /\ UNCHANGED <<vars, diskVars, manifest, events, held, crawl>>

\* The gate closed meanwhile: the row is kept.
TickKeep ==
    /\ job # NoJob
    /\ job.stage = "read"
    /\ ~ is_idle \/ "pressure" \in Env
    /\ job' = NoJob
    /\ UNCHANGED <<vars, diskVars, stateVars, events, held, crawl>>

\* Mutant: the file is not looked at again.
SameFile_unchecked(j) == TRUE

SameFile(j) == file[j.file] = j.mtime

TickCheck ==
    /\ job # NoJob
    /\ job.stage = "read"
    /\ is_idle
    /\ SameFile(job)
    /\ job' = [job EXCEPT !.stage = "checked"]
    /\ UNCHANGED <<vars, diskVars, stateVars, events, held, crawl>>

\* StaleSkipped: the file changed or is gone.
TickStale ==
    /\ job # NoJob
    /\ job.stage = "read"
    /\ is_idle
    /\ ~ SameFile(job)
    /\ rows' = remove(job.file)
    /\ job' = NoJob
    /\ UNCHANGED <<vars, diskVars, manifest, events, held, crawl>>

TickWriteBack ==
    /\ job # NoJob
    /\ job.stage = "checked"
    /\ Send(BodyOf(job.file, job.text, job.mtime))
    /\ job' = [job EXCEPT !.stage = "sent"]
    /\ UNCHANGED <<diskVars, stateVars, events, held, crawl>>

TickRemove ==
    /\ job # NoJob
    /\ job.stage = "sent"
    /\ rows' = remove(job.file)
    /\ job' = NoJob
    /\ UNCHANGED <<vars, diskVars, manifest, events, held, crawl>>

\* The worker past its gate.
TickGated == TickCheck \/ TickStale

TickStep == TickPick \/ TickOcr \/ TickWriteBack \/ TickRemove

\* Mutant: age alone decides.
Reapable_old(f) == rows[f] # NoRow

\* The row has used up its attempts; its age is left open.
Reapable(f) == rows[f] # NoRow /\ rows[f].attempts >= MaxAttempts

\* The cache sweep deletes given-up rows.
reap_zombies ==
    \E f \in Ids :
        /\ Reapable(f)
        /\ rows' = remove(f)
        /\ UNCHANGED <<vars, diskVars, manifest, taskVars>>

--------------------------------------------------------------------------------
(***************************************************************************)
(* The whole.  A restart of the daemon keeps the disk, the manifest, the   *)
(* queue's database and the committed index.                               *)
(***************************************************************************)
BootCrawl == [k \in Crawlers |-> IF k = "incremental" THEN Walk ELSE Off]

DaemonRestart ==
    /\ Restart
    /\ sent <= LastCrash
    /\ events' = {}
    /\ held' = [r \in Resolvers |-> Free]
    /\ crawl' = BootCrawl
    /\ job' = NoJob
    /\ UNCHANGED <<diskVars, stateVars>>

\* The start of a daemon, or, without "boot", a later moment at which its crawl
\* has nothing left to do.
PInit ==
    /\ Init
    /\ file \in InitialFiles
    /\ clock = IF \E f \in Ids : file[f] # Gone \/ staged[f] # NoDoc THEN 1 ELSE 0
    /\ manifest = [f \in Ids |-> IF staged[f] = NoDoc THEN NoMtime ELSE staged[f].mtime]
    /\ rows = [f \in Ids |-> NoRow]
    /\ events = {}
    /\ held = [r \in Resolvers |-> Free]
    /\ crawl = IF "boot" \in Env THEN BootCrawl ELSE [k \in Crawlers |-> Off]
    /\ job = NoJob

WriterTask == WriterStep /\ UNCHANGED <<diskVars, stateVars, taskVars>>

PNext ==
    \/ \E f \in Ids : Write(f) \/ Unlink(f) \/ Rescan(f)
    \/ \E r \in Resolvers : Resolve(r) \/ Forward(r)
    \/ Reindex
    \/ \E k \in Crawlers : CrawlStep(k)
    \/ TickStep \/ TickKeep \/ TickGated
    \/ reap_zombies
    \/ WriterTask
    \/ Broadcast /\ UNCHANGED <<diskVars, stateVars, taskVars>>
    \/ DaemonRestart

PSpec == PInit /\ [][PNext]_pvars

\* Every task runs while it can; the OCR timer keeps firing and the gate is not
\* closed after every job.  The daemon does not die for ever.
PFairSpec ==
    /\ PSpec
    /\ WF_pvars(WriterTask)
    /\ WF_pvars(\E k \in Crawlers : CrawlStep(k))
    /\ \A r \in Resolvers : WF_pvars(Resolve(r) \/ Forward(r))
    /\ WF_pvars(TickStep)
    /\ SF_pvars(TickGated)
    /\ <>[][~ DaemonRestart]_pvars

--------------------------------------------------------------------------------
(***************************************************************************)
(* Properties.                                                             *)
(***************************************************************************)

Version == Mtimes \cup {Gone}

CrawlState ==
    [stage : {"off", "walk", "extract", "send", "wait"},
     todo : UNION {[D -> Mtimes] : D \in SUBSET Ids}, found : [Ids -> Version],
     deleted : SUBSET Ids, worked : BOOLEAN, saved : BOOLEAN,
     batch : {Free} \cup FileUpserts, call : 0..MaxSends]

\* Every variable has the shape the code's types give it; attempts stay within
\* the retry budget.
PTypeOK ==
    /\ file \in [Ids -> Version]
    /\ clock \in Nat
    /\ manifest \in [Ids -> Version]
    /\ rows \in [Ids -> Row \cup {NoRow}]
    /\ events \subseteq Ids
    /\ held \in [Resolvers -> {Free} \cup FileUpserts \cup SubtreeDeletes]
    /\ crawl \in [Crawlers -> CrawlState]
    /\ job \in Job \cup {NoJob}

\* The row of the job in flight is still the one it was picked for, whatever the
\* crawls, the watcher and the cache sweep do meanwhile: so that remove and
\* mark_failure, which name the doc_id only, act on the row that was tried
\* (reap_zombies: "reaping does not race with in-flight OCR").
InFlightRowStays ==
    job # NoJob => Pending(job.file) /\ rows[job.file].mtime = job.mtime

\* A write-back carries the text of the very bytes whose mtime it names, however
\* the file changed between the enqueue, the OCR run and the second stat.
WriteBackIsOfItsBytes ==
    \A k \in DOMAIN queue : LET m == queue[k].m IN
        m.op = "upsert_body" => m.body = m.expected

\* The document of the file as it is now, with its text.
Current(f) == [mtime |-> file[f], body |-> file[f]]

\* The mutations that producers are about to send or have sent.
OnTheWay ==
    ({held[r] : r \in Resolvers} \ {Free}) \cup {queue[k].m : k \in DOMAIN queue}

\* Those that would leave f with another document, or with none.
Displaces(m, f) ==
    \/ m.op = "upsert" /\ f \in DOMAIN m.docs /\ m.docs[f] # Current(f)
    \/ m.op = "delete" /\ f \in m.ids
    \/ m.op = "delete_subtree" /\ id_in_subtree(f, m.prefix)
    \/ m.op = "delete_source_instance" /\ InstanceOf[f] = m.instance

\* The text is indexed, saved and searchable, and nothing prepared earlier is
\* about to displace it.
TextKept(f) ==
    /\ file[f] # Gone
    /\ staged[f] = Current(f) /\ durable[f] = Current(f) /\ visible[f] = Current(f)
    /\ \A m \in OnTheWay : ~ Displaces(m, f)

\* A crawl is about to index or delete the file.
TakenUp(f) ==
    \E k \in Crawlers :
        \/ f \in DOMAIN crawl[k].todo \cup crawl[k].deleted
        \/ crawl[k].batch # Free /\ f \in DOMAIN crawl[k].batch.docs

\* Whatever is refreshed, recognised, written back, committed or lost in a crash
\* after the text of a version became searchable keeps that text, as long as the
\* file stays as it is.  What was prepared before may take it away, and so may a
\* crawl (see NoTextForgotten), or Tantivy by rejecting the document.
RecognisedTextStays ==
    [][\A f \in Ids :
         TextKept(f) /\ ~ TakenUp(f) /\ file'[f] = file[f]
         => \/ TextKept(f)'
            \/ "upsert" \in Faults /\ staged'[f] = NoDoc]_pvars

\* The saved manifest never names a version newer than the one the committed
\* index has of a document ("so the manifest never claims work the index hasn't
\* persisted", run_incremental): such a file would be skipped at every boot.
ManifestNotAhead ==
    \A f \in Ids : manifest[f] # NoMtime /\ durable[f] # NoDoc
                      => manifest[f] <= durable[f].mtime

\* Nothing is under way.
Settled ==
    /\ queue = <<>> /\ ~ dirty
    /\ events = {} /\ held = [r \in Resolvers |-> Free]
    /\ \A k \in Crawlers : crawl[k].stage = "off"
    /\ job = NoJob

\* The same seen from the search: once nothing is under way, an indexed file that
\* the next crawl will skip is indexed as it is on disk.
SkippedIsCurrent ==
    Settled =>
        \A f \in Ids : visible[f] # NoDoc /\ file[f] # Gone /\ manifest[f] = file[f]
                          => visible[f].mtime = file[f]

\* Every queued row is recognised, dropped or given up.
RowsDrain == \A f \in Ids : Pending(f) ~> ~ Pending(f)

\* A crawl ends.
CrawlEnds == \A k \in Crawlers : crawl[k].stage # "off" ~> crawl[k].stage = "off"

--------------------------------------------------------------------------------
(***************************************************************************)
(* What comments of the code say and the code does not do.                 *)
(***************************************************************************)

\* index_file, on keeping the body: "reindex_full wipes the manifest so every file
\* looks changed; without this guard the OCR-recovered text would be lost and then
\* re-enqueued on the next pass".  So a scan whose document is up to date has, once
\* nothing is under way, its text or a row in the queue, after a full reindex too.
NoTextForgotten ==
    Settled =>
        \A f \in Ids :
            /\ visible[f] # NoDoc /\ visible[f].mtime = file[f]
            /\ file[f] \notin TextLayer \cup Unreadable
            => has_body(f) \/ rows[f] # NoRow

\* ocr_tick.rs, when the file changed during the OCR run: "drop the result and
\* let the watcher's next reindex re-enqueue with fresh metadata".  So that
\* reindex is still to come.
WatcherWillRequeue ==
    [][\A f \in Ids : TickStale /\ job.file = f /\ file[f] # Gone => f \in events]_pvars

\* index_service.rs, when a refreshed file yields no text: "preserve any body the
\* live index already has rather than clobbering it to None".  So text recognised
\* for the file as it is now stays searchable while the file stays as it is.  The
\* live index is the committed one: a refresh prepared before the text was
\* committed, and sent after, clobbers it.
OcrTextSurvives ==
    [][\A f \in Ids :
         /\ has_body(f) /\ visible[f] = Current(f)
         /\ file' = file
         => visible'[f] # NoDoc /\ visible'[f].body = visible[f].body]_pvars
================================================================================
