# A TLA+ verification of lixun

lixun is a desktop search: a daemon (`lixund`) keeps a Tantivy index of files,
applications and mail up to date and answers the launcher's queries, starts
preview processes and, optionally, a semantic worker. This directory models the
parts whose correctness depends on order, failure and concurrency. It is written
against the Rust sources under `src/crates`; every definition that models code is
listed in `PROJECT.json` ("map") with the lines it stands for.

Contents: 1 the system, 2 the modules, 3 the runs, 4 the proofs, 5 what the code
does otherwise than it says, 6 what is not modelled, 7 the plan.

## 1. The system

### Components

| component | state | operations | properties that make it correct |
|---|---|---|---|
| index writer service (`lixun-indexer/index_service.rs`) | mutation channel, dirty flag, generation, parked barriers, pending batch, subtree tombstones; the staged, committed and reader-visible index | upsert, delete, delete subtree, purge of a source instance, OCR body write-back, barrier, applied, commit_now, shutdown; the commit timer | a reply means durable and visible; searches see durable snapshots; nothing lives under a deleted subtree; a batch tells its consumers what changed; callers are answered |
| broadcaster (`lixun-mutation`) | the batches handed to blocking tasks | broadcast after each commit | batches announce what searches see |
| index wrapper (`lixun-index`) | Tantivy writer and reader, version file, schema fingerprint | open or rebuild, upsert, delete, commit, reload | commit before reload; an index of another schema is never accepted |
| crawler and manifest (`indexer.rs`, `fs.rs`, `manifest.rs`) | the walk's progress, manifest.json | boot crawl, full reindex | the manifest never claims what the index does not have; a crawl ends |
| watcher (`watcher.rs`) | raw events, debounce window, refresh jobs, directory watches, alias map | coalesce, refresh, remove, overflow rescan | what is on disk ends up in the index |
| OCR queue and worker (`ocr_queue.rs`, `ocr_tick.rs`) | the SQLite table; the job in flight | enqueue, peek, OCR, write back, remove, charge a failure, reap | text is written to the version it came from; rows are recognised or given up; recognised text is kept |
| extraction and its cache (`lixun-extract`, `cache_sweep.rs`) | cache entries, temporary files, a converter's process group | extract through the cache, run a converter, sweep | a text is whole, current and of the engine in use; limits hold; nothing is left behind |
| plugin watcher, scheduler, mail sources | debounce and cooldown per instance; cursor, maildir and mbox files | ticks, events, reindex | no message is passed over; instances stay apart |
| request handling (`lixun-daemon/main.rs`) | one search slot per connection, reindex guard | search, cancel, record a click, hide, reindex, shutdown | a search ends in exactly one final answer, of its own hits |
| results (`lixun-fusion`, `scoring.rs`, `top_hit.rs`) | two chunks per search | lexical page, fusion, multipliers, hiding, plugins, top hit | a document once per page; hidden ones never; only habits overturn a better match on a fused page |
| result cache (`SearchHandle`) | results by reload epoch | search, reload | no result of an older snapshot under a newer epoch |
| ranking stores | visits, latches, query log, blocklist and their files | click, hide, reset, save, load | what was acknowledged survives a crash |
| settings (`lixun-config`) | config.toml, the live profile | read, persist one key, switch the profile | no other setting is lost; what the user pinned is kept |
| launcher and preview control (`gui_control.rs`, `preview_spawn.rs`) | launcher pid; preview lifecycle, buffered command, epoch | toggle, preview, hide, supervise, restart, quit | one process of each kind, always watched; callers return; the launcher comes back |
| launcher client (`lixun-gui/ipc.rs`) | last request sent, reader and watchdog | search, reconnect | every search is answered or reported |
| launcher window and rows (`lixun-gui`) | query, rows, timers, preview mode; recycled widgets, menus, icons, toasts, children | keys, replies, timers, commands | what is shown is about the query on screen and acts on the hit it shows |
| preview process and its viewers (`lixun-preview-*`) | window size and mount; panes, caches, render thread | show, update, close, zoom, search, select | the document shown is the one asked for; caches keep their budget |
| semantic side (`semantic_supervisor.rs`, the stub source, the worker) | pending requests, job buffers, journal, vector store, model slots | broadcast, embed, flush, backfill, search, restart with backoff | the journal claims no vector the store lacks; requests end; sessions do not mix |
| host services (hotkeys, battery, session environment) | listener status, profile in force | subscribe, follow the battery, discover | the status reported is the true one |
| command line and dashboard | focus, lists, logs, connection | one command; keys, polls, restarts | exit status and screen say what happened |

### How they interact

Crawler, watcher, plugin sources and the OCR worker are producers: they send
`Mutation`s through one bounded channel to the writer task, the only writer of
the index. The crawler and request handlers call `commit_now()` and `barrier()`
and wait for the reply. Searches read the snapshot of the last reload, and so
do `has_body` and the preservation of text in `index_file`, so what a producer
decides depends on what has been *committed*, not on what has been sent. After a
commit the batch goes to the broadcaster, whose consumers (the semantic stub)
forward it to another process. The OCR queue is a table that producers insert
into and the worker and the cache sweep delete from. The launcher and preview
processes talk to the daemon over sockets and pipes, with epochs to tell an old
session's messages from the current one's.

### What is hard

- two tasks deciding on the same document from the committed snapshot while each
  other's mutations are still in the channel;
- commits, reloads and upserts that fail one by one, with callers parked on them;
- a crash between any two of: send, apply, commit, reload, manifest save;
- files that change between the enqueue, the OCR run and the write-back;
- retries that must be counted and must not block the queue;
- queues at their limit (raw events, refresh jobs, semantic chunks);
- processes that die while a command is buffered for them, and answers of the
  old process that arrive after the new one was started;
- callbacks of one GTK thread in an order nobody wrote down: timers, idle
  callbacks, replies, recycled widgets;
- several writers of one settings file, several readers of one cache directory.

`PROJECT.json` lists the hazards at the lines where they bite, with the property
that would catch each one, or a note where the code does not keep it.

## 2. The modules

| module | models | part of |
|---|---|---|
| `SnapshotIndex` | abstract specification: what the writer promises. Three snapshots (current, saved, published) and the answered calls | |
| `IndexWriter` | `writer_loop` and what it calls, one action per select branch and mutation | `MCIndexWriter` |
| `IndexWriterProofs` | theorems about `IndexWriter`, and its refinement of `SnapshotIndex` | |
| `FilePipeline` | the writer composed with disk, manifest, crawls, watcher resolvers, OCR queue and worker | `MCFilePipeline`, `MCContents` (boot crawl) |
| `FilePipelineProofs` | theorems about the composition: types, the OCR job's row, the text of a write-back, the text that stays | |
| `PreviewSession` | Quick Look: launcher, preview control of the daemon, preview processes | `MCPreviewSession` |
| `PreviewSessionProofs` | theorems about it | |
| `SearchSession` | a search from the launcher's threads to the daemon's tasks and back | `MCSearchSession` |
| `SearchSessionProofs` | theorems about it, and about `SearchCache` and `RankingStores` | |
| `LauncherControl` | `GuiControl` and the launcher processes it starts, adopts and ends | `MCServices` |
| `DaemonHost` | hotkey listener, battery watcher, discovery of the session's environment | `MCServices` |
| `SemanticSession` | supervisor, sessions and pending requests of the semantic worker; model slots | `MCServices` |
| `ServicesProofs` | theorems about the three above and the whole of `MCServices` | |
| `FileWatcher` | the watcher from inotify to mutations | `MCSurfaces` |
| `SurfacesProofs` | theorems about the watcher and the whole of `MCSurfaces` | |
| `EmbedWorker` | a committed batch on its way into vector store and journal | `MCSurfaces` |
| `EmbedProofs` | theorems about it | |
| `LauncherWindow` | the launcher's controller under keys, timers, replies and commands | `MCSurfaces` |
| `LauncherProofs` | theorems about it, and about `ResultRows` | |
| `ResultRows` | result rows, icons, status bar, launched processes | `MCSurfaces` |
| `SearchResults` | what the chunks of one search contain | `MCContents` |
| `SearchCache` | the result cache under reloads | `MCContents` |
| `RankingStores` | visits, latches, query log, blocklist, opening of the index | `MCContents` |
| `Settings` | config.toml, its readers and writers, the live profile | `MCSettings`, `MCContents` |
| `TextExtraction` | extraction through the cache, converters, limits, OCR pages, sweep | `MCContents` |
| `MailSources` | Thunderbird's database, maildirs, attachments, plugin watcher and factories | `MCContents` |
| `PdfViewer`, `ImageViewer`, `DocumentPanes`, `PreviewWindow` | what the preview process shows | `MCContents` |
| `CommandLine` | `lixun-cli` and its dashboard | `MCContents` |

`IndexWriter` is composed with its producers in `FilePipeline`, where every mutation
goes through the real channel. The parts of `MCServices`, `MCSurfaces` and
`MCContents` share no variable: a behaviour of such a module belongs to the one part
its initial state picks, and the others rest, so one run of TLC is the sum of the
runs of its parts and not their product. Their properties are conjunctions, one
conjunct per part, each named and commented in the part's module.

### IndexWriter

`queue` is the mutation channel, `sent` numbers the calls, `phase` says where the
task is: in its loop, draining the channel after a shutdown, finishing, stopped.
`dirty`, `generation`, `barriers`, `upserts`/`deletes` and `tombstones` are the
locals `dirty`, `generation`, `pending_barriers`, `pending_batch` and
`subtree_tombstones`. The Tantivy index is three contents: `staged` (what the
writer would commit), `durable` (what a restart finds) and `visible` (what the
reader serves). `outbox` holds the batches given to `spawn_blocking`, which are
consumed in any order.

Each `Recv...` action is one iteration of the loop, with the whole handler: the
mutation, the batch and the tombstones it changes, and for `CommitNow` the commit
attempt. `CommitAttempt` has the three outcomes of `do_commit`: commit and reload
succeed, the reload fails after the commit, the commit fails. `Faults` says which
fallible calls may fail in an instance: `upsert` (a rejected document, after its
term was deleted), `scan` (`all_doc_ids`), `read` (the committed copy in
`apply_upsert_body`), `commit`, `reload`, and `crash` (the process may die
between any two steps and be started again).

Data are reduced to what the properties tell apart: an id is the sequence of its
path components (so that `id_in_subtree` is the prefix relation it is in the code,
separator included), a document is its mtime and body.

### SnapshotIndex

What the rest of the daemon may rely on: mutations change `current` only; a commit
saves before it publishes; a reply is given only when everything accepted is
saved and published; a crash returns to what was saved. The mapping is
current = `staged`, saved = `durable`, published = `visible`.

### FilePipeline

It EXTENDS `IndexWriter`: mutations of the crawls, the resolvers and the OCR worker
go through the real channel and are applied by the real writer actions.

| variable | code |
|---|---|
| `file`, `clock` | the disk; versions are handed out in increasing order |
| `manifest` | `manifest.json` |
| `rows` | the `ocr_queue` table: mtime at enqueue, failed attempts |
| `events` | refresh jobs the watcher has queued |
| `held` | per resolver, the mutation built and not yet sent |
| `crawl` | per crawl: stage, files to do, what the walk found, deletions, the batch, the awaited `commit_now` |
| `job` | the OCR worker's row, its text and where `tick_once` is |

Actions: `Write`, `Unlink`, `Rescan` (the environment); `Resolve`, `Forward`
(`resolver_task`: decide from the disk and the reader, then send); `Reindex`;
`CrawlWalk`, `CrawlExtract`, `CrawlSend`, `CrawlDelete`, `FullSave`,
`CrawlCommit`, `CrawlEnd` (the two crawls; the full one saves its manifest before
its commit, the incremental one after it); `TickPick`, `TickOcr`, `TickCheck` with
`TickStale`, `TickWriteBack`, `TickRemove`, `TickKeep`, `TickGated` (`tick_once`
around its awaits); `reap_zombies`; `DaemonRestart`.

Abstractions, and what they leave out:

- a version stands for mtime, size and bytes, and every write gets a version of
  its own. The code compares sizes and mtimes in whole seconds (`ocr_tick.rs:254-256`), so
  two writes of one size within a second are outside the model; the hazard at
  `ocr_tick.rs:252` says so;
- extraction does not fail. `index_file` builds the document of a file whose extraction
  fails without a text, and does not keep the one the index has;
- the text of version v is the body v, so that a text under the wrong version can
  be told; `TextLayer` are the versions with extractable text, `Unreadable` those
  OCR gets nothing from, an error of the engine and a text the content filter
  rejects alike;
- a batch is one file; the walk of a tree and `index_file` on one file are one step
  each; the pacing of the crawl with `applied()` is left out (it delays sends and
  changes nothing else);
- the order in which `peek_next` takes rows with equal attempts, and the age test of
  `reap_zombies`, are left open: any candidate may be taken.

`Rescan` is a further event for an unchanged file: an attribute, an overflow. It happens at
any time, also while the OCR job of the file is in flight or its write-back in the channel,
and two resolvers may look at the file before the text is committed and send afterwards.
`OcrTextSurvives`, that text recognised for the present version stays searchable, is
therefore refuted (section 5). What holds is `RecognisedTextStays`: once the text is staged,
saved and searchable, and nothing prepared before is on its way to displace it, no refresh,
late write-back, commit, crash or restart takes it away while the file stays as it is,
unless a crawl takes the file up or Tantivy rejects the document.

### PreviewSession

Three programs and the sockets between them. `gui` and `mode` are the launcher's
window and its `preview_mode_active`; `requests` are its fire-and-forget requests,
each on a connection of its own, so that the daemon serves them in any order.
`epoch`, `geometry` and `life` are the fields of `PreviewSpawner`. Per process:
`sup` is its supervisor task (where it is, the buffered commands it took under the
lock and has yet to send, the commands it has yet to dispatch to the launcher),
`chan` and `writer` the queue and the writer task; `proc`, `view`, `inbox` and `out`
are the process, its `PreviewState`, and the two directions of the socket.

`NewEpoch` is the `fetch_add` before the lock, `Serve` what happens under it. A
supervisor step is one iteration between two awaits: `Connect`, `ConnectTimeout`,
`ReadEvent`, `Drain`, `TellLauncher`, `Eof`, `JoinWriter`, `reset_to_dead` and
`Terminate`. `WriterEnds` needs every sender dropped (`Senders`), as `recv` does.

Left out: pids that are used again, frames that do not decode, `shutdown()` of
`PreviewSpawner` (nothing calls it), a launcher process that dies (`GuiControl`
would start another one), and hiding the launcher without dismissing the preview
through its close action. Whether launcher and preview fit on one screen is open in
every step that asks. `Env` says what may happen in an instance, `Animated` whether
hiding is immediate or takes a timer of 120 ms.

### SearchSession

The launcher's sending thread (`ipc.rs`), a reader thread with its watchdog per
connection, the daemon's task per connection with its search slot, the search tasks
and the writer task. A search is named by the session epoch it was asked in. The
two threads of the launcher meet in `reader_alive` and the pending entry; the daemon
cancels the search in its slot when the next one arrives, and both chunks of a
cancelled search may still be on their way. `MaxFaults` counts deaths of the daemon and
frames that do not decode. `SearchesInOrder`: a final answer is given once, and only
by the search in the slot. `EverySearchReported`: each first search of the session on the
screen, and each one sent again after a failure, is followed by its final answer, a failure
or a timeout; `mark` tells what was reported before it was sent. Two cases are excepted. A
search may be written while its reader is leaving (`unread`). And "Show more results" sends
again in the epoch of an answered search: `pending_epoch` names epochs only and is `None`
after the first Final, so nobody reports the loss of the second search. Without the second
exception the formula is `RepeatsReported`, which TLC refutes (section 5). `MaxSends`
bounds the requests of one session and of all of them (`Sends`): the user stops asking.

### LauncherControl, DaemonHost, SemanticSession (`MCServices`)

`LauncherControl`: `GcEnter`, `GcProbe`, `GcSpawn`, `GcWait` and `GcSend` are the steps of a dispatch under the lock,
the probe of the socket, spawn, wait for the bind; `on_child_exit` is the waiter's
task, `ShutdownBegins` to `ShutdownWaits` the shutdown. A process is ours or adopted; the socket belongs to
whoever bound it last. `LauncherOwned`: a launcher of ours is always tracked, and a
shutdown ends it. `attempt` is the launcher from which `wait_for_ready` reads its Pong. The
deadline is looked at between attempts, and an attempt has none (`gui_control.rs:206-226`):
`RequestsReturn` says that a request ends unless such a launcher lives on for ever without
answering. A stopped process does so; a busy GTK thread does not, since the launcher's
server answers for it after 500 ms (`gui_server.rs:165`). Then the caller, be it the
daemon's main loop, never returns (`RequestsAlwaysReturn`, refuted).

`DaemonHost` has three parts that do not meet: the listener's status (bound exactly
while it can hear, an error exactly when it gave up), the profile that follows the
battery unless a client chose one, and an environment without half a display.

`SemanticSession`: one connection object outlives the sessions, so requests of one
session can meet the writer and the table of another. `NoCrossTalk`, `WriterIsCurrent`
and `SemanticRequestsEnd` say that they do not, and that each ends. The queue to a worker
holds `SmQueue` commands (256 in the code), and the send into it is outside the timeout
(`source.rs:84-87`, 222, 289): a request may wait there as long as the worker lives and
reads nothing, which is the one exception of `SemanticRequestsEnd` and what refutes
`SemanticRequestsReturn`. A worker that ends closes the queue and frees it. The embedder slot
has double-checked loading (`EmbedderLoadedOnce`).

### FileWatcher, EmbedWorker (`MCSurfaces`)

`FileWatcher` runs on the smallest tree in which everything matters: a root with a
file, a directory with a file, a linked file. Raw events, the pending map of the
coalescer, the jobs, what each resolver is doing and the requests for new watches are
bounded queues of the model with the code's behaviour when full: dropped with the
overflow flag set, waited for, or dropped and retried. `NothingUnnoticed` speaks of
the moment when everything has drained: every directory is watched and every file
is indexed as it is, the excused ones aside. `waExcused` names the cases in which the
code does lose something (section 5).

`EmbedWorker` follows a document that may change between text, image and neither: the
stub's bounded queue and its overflow tasks, the worker's main loop, the thread's
three buffers, store, journal and backfill, with failures and deaths between any two
writes. `JournalNotAhead`: what the journal claims, the store has. `VectorsFollow`: a
vector is of the last version of its document, and gone with it, when
nothing is under way and nothing of it was lost or overtaken.

### LauncherWindow, ResultRows (`MCSurfaces`)

`LauncherWindow` is one record and one operator per method, composed as the code
composes its calls; its actions are the callbacks of the main loop. `LauncherHonest`:
rows answer the text in the entry, unless a search for it is under way; the slide
beside a preview is undone with it; no preview outlives its mode; a spinner turns only
while something is awaited. Two corners of the code are named by history fields instead of
hidden by a bound. `over`: a command's output, or keys during the fade, may set a text while
the launcher is away; the next show restores the snapshot over it without stopping that
text's search, whose answer is then drawn under the restored query. `cut`: a soft hide before
the debounce fires leaves `last_query` behind the text, also in the snapshot's session and
after a category chip, so an empty answer offers the web row of the query before.

`ResultRows` lets GTK bind, rebind and unbind rows in any order inside every change of
the model, with menus open, and runs the icon loader and the reaper as threads.
Character folding for highlights is done on small strings, category jumps on all short
lists.

### SearchResults, SearchCache, RankingStores, Settings (`MCContents`)

`SearchResults` keeps scores as integers (a multiple of 1.0 for which every
reciprocal rank in use is exact). A search takes its lexical page, sends the first
chunk, waits for two semantic answers while documents are hidden, visited or deleted,
fuses, filters and sends the second. Without a semantic worker, which is the default, the
lexical page is the only chunk, a final one (`handle.rs:76-86`). `ResultsHonest`: once per page
and never hidden; on a fused page only visits and latches overturn a better text match; an
explanation is of its hit; the top hit leads. The lexical page promises no such order: its
scores do not know the tiers, and the daemon sorts by them, so that a partial match may
stand above a full one without a habit (`FullMatchesFirst`, refuted).

`SearchCache` is `SearchHandle::search`: permit, epoch, lookup, search on a blocking
thread, insert. `CacheNotStale`: an answer is at least as new as the last reload before
the search was asked.

`RankingStores` has every save as two steps (temporary file, rename; the log in place)
and a crash between any two steps of two clients, the shutdown and the boot.

`Settings` treats a document as a function from keys to small numbers, reads it with
the code's defaults, clamps and warnings, and lets the daemon, dashboards and the user
write it. `ExplicitBeatsProfile` holds at the start of the daemon; that the OCR worker
keeps it is refuted (section 5).

### TextExtraction, MailSources (`MCContents`)

`TextExtraction` has workers that extract the same file through the cache while it
changes, the daemon comes back with other converters and the sweep evicts; four
scenes follow one extraction inside (runner, RTF reader, ZIP reader, OCR of a PDF).
A text is the engine that made it and the version it was made of.

`MailSources` has scenes for the message database with ticks and a reindex, for a
maildir under events with debounce and cooldown, for attachments cut out of an mbox
(bytes are symbols, so an offset off by one is seen) and for the factories.

### PdfViewer, ImageViewer, DocumentPanes, PreviewWindow, CommandLine (`MCContents`)

`PdfViewer`: the main thread (session with pending renders and the byte-counted
cache, canvas, search, selection) and the host thread with its queue of commands.
Textures remember the document they were rendered from. `ImageViewer`: zoom, turns and
marquee in exact fractions, against layout and idle callbacks. `DocumentPanes`: which
plugin takes a hit, panes that load in threads, the office cache, caps of listings.
`PreviewWindow`: whose size the window has, where the document is mounted, whether the
launcher stays beside it. `CommandLine`: verbs and exit codes; the dashboard's loop.

## 3. The runs

Passing runs (`tlc -config <cfg> <module>`):

| run | question | bounds |
|---|---|---|
| `writer_mutations` | does any sequence of mutations and commits leave an orphan, announce something else than it published, or show searches something not durable? Is every barrier answered, also when a shutdown overtakes it? | 3 ids, 2 mtimes, 4 sends of a menu of 13, channel of 2, failing reads |
| `writer_faults` | do replies keep their meaning when commits and reloads fail and the process dies, and does every caller return? | 4 sends of a menu of 8, faults commit, reload, crash |
| `pipeline_ocr` | does the OCR worker act on the row and the bytes it thinks it does, while the file changes under it and two resolvers, the boot crawl and a crash interfere? Is searchable text kept? | 1 file, there or not, new or recognised, 2 versions, 2 resolvers, the boot crawl, a channel of 1, 3 sends, a crash before the second, rescans at any time, both gates |
| `pipeline_liveness` | does the OCR queue drain and does each crawl end? | 1 file, there or gone, scanned or new to the index, 2 versions, 7 sends, a full reindex, both gates, crashes before the first send |
| `preview_session` | is there ever a second window, or a process nobody watches? Does the launcher come back? | 2 processes, 2 requests of 6 kinds, a queue of 1, every fault of the environment, animations |
| `search_session` | is every search answered or reported, once and by itself? | 2 epochs, 2 searches, 2 connections, 1 fault, write queue of 1, hybrid |
| `services` | is the launcher owned, does every caller of launcher and semantic worker return, are host services truthful, is a model loaded once? | 3 launcher processes, 3 commands, 1 fault; 2 presses, 3 battery changes, 1 impact request; 3 sessions, 2 requests, a queue of 1; 2 users of a slot |
| `surfaces` | does the index follow the disk, the store the documents, the launcher its query and the rows their hits? | 2 files, queues of 2, 2 and 1, 2 resolvers, 3 changes; 1 document, faults and a backfill; 2 queries, 4 epochs (`WindowHonest` is for any number); 3 hits on 2 rows |
| `contents` | is what is found, kept and shown what it should be? Does a boot crawl leave its manifest behind the index, through failed commits and crashes at every step? | per part, in `Contents.cfg`: a crawl of 2 files in 2 versions with 7 sends; 3 documents, with and without a semantic worker; 2 searchers, 2 reloads; 2 clients and 2 boots; 2 PDFs, a cache of 3; a picture of 4 by 2; 22 kinds of files; 2 extracting workers; 2 messages; 3 settings files |

Violation runs, each with a finding: `pipeline_reindex_crash`, `pipeline_reindex_text`
and `settings_pins` (section 5).

Why these bounds are enough to mean something. Four sends hold the longest
interactions the loop can have with one document: upsert, delete of its subtree,
upsert again, commit; with a channel of two the sender also blocks. A directory,
a file in it and a sibling with a common prefix are what tells the subtree test
apart from a string prefix test. Two versions let a file change before, during or
after the OCR run, and three sends are a refresh of each resolver and a write-back in every
order. Two files are needed in the crawl
because one must be done while the other still waits when the process dies.
Two processes and two requests are a preview and its successor: the second request
meets the first process at every point of its life, and a queue of one is full at
once. The same reasoning sets the others: two searches and two connections are a
search and its successor before and after a reconnection; three sessions are one that
fails, one that is served and one after the backoff; two resolvers and a queue of two
can block each other; two rows for three hits force GTK to recycle; two clients are
what interleaves in the stores; a cache of three units with bitmaps of one and two
evicts at the second page. `MaxEvents`, `PwBound`, `ClMaxEvents` and their like cap
what the environment does and are named in the modules' CONSTANTS. `MaxSends` bounds
the writer's runs. `LastReindex` and `LastCrash` keep reindex requests and crashes out of
the tail of the liveness run, where too few sends would be left to finish: a reindex, a
boot crawl and the OCR jobs of the rows they leave take at most seven. A file deleted
while the daemon was down, and the crawl begun again after a crash, are part of it;
crashes at every later step are `contents`' and `writer_faults`', and the theorems hold
for every value of both. Workers that nothing
tells apart are symmetric in `contents`, which checks no liveness. Deadlock checking
is off because producers stop at their bounds and a stopped service may stay stopped.

Every property has a mutant in `PROJECT.json`: a definition of the model changed as
a plausible bug would change the code, under which TLC finds the property violated.
The conjunctions of `surfaces` and `contents` have at least one for every part.

### Fairness

- `WF(WriterStep)`: tokio polls the task while its channel or its timer is ready.
- `WF(SuccessfulTick)`: the interval keeps firing and commits do not fail for ever.
  The select is biased towards the channel, so sustained traffic may starve the
  timer; the runs' finite number of sends is the assumption that bursts end.
- `WF` on the crawls, each resolver and the OCR worker's steps: their tasks are
  scheduled.
- `SF(TickGated)`: the idle and pressure gates open again and again and are not
  closed after each job. With weak fairness only, pressure that returns at every
  tick keeps the queue full, as the code intends.
- `<>[][~ DaemonRestart]`: the daemon does not die for ever. A daemon killed during each
  of its boot crawls ends none of them.
- In `PreviewSession`: `WF` on each supervisor, writer task and GTK main loop, on the
  serving of requests and on the timers of 100 and 120 ms. Nothing is assumed of
  the user, of crashes, or of the idle timer, which any further request cancels.
- In `SearchSession`: `WF` on the launcher's two threads and on the daemon's tasks while it
  lives; the watchdog's timer fires. Nothing is assumed of the daemon's survival.
- In `services`: `WF` on each caller's own steps, on the supervisor, and on a writer task whose
  worker is gone (its socket fails). Nothing is assumed of launcher and worker, which may
  live and do nothing: a caller that reads the launcher's Pong, or waits for room in the
  worker's queue, is then held for ever, and the properties say so. The other waits in
  `gui_control.rs` and `source.rs` have a timeout, which is a step of the caller.

## 4. The proofs

`IndexWriterProofs` (for every set of ids and documents, channel size and menu):

| theorem | states | under |
|---|---|---|
| `TypeCorrect` | `TypeOK` | |
| `KnownSafe` | `StagedIsKnown` | |
| `TombstoneSafe` | `TombstonedIsGone` | `all_doc_ids` does not fail |
| `CleanSafe` | `CleanIsPublished` | upserts are not rejected |
| `SnapshotRefinement` | `IndexWriter` implements `SnapshotIndex` | upserts are not rejected; commits do not fail or there is no shutdown |
| `AckSafe` | `AckMeansVisible` | the same |
| `EveryChangeAnnounced` | `ChangesAreAnnounced`, an action property | upserts are not rejected |
| `AnnouncedFound` | `AnnouncedIsVisible`, an action property | upserts are not rejected; commits and reloads do not fail or there is no shutdown |

The assumptions are where the code really falls short, not where the proof does:
a failed scan makes `collect_subtree_ids` miss committed documents, a rejected
upsert has already deleted the old document and leaves the flag clear, and the
shutdown path ignores a failed commit (section 5).

The argument: `TombstonedIsGone` alone is not inductive, since a `DeleteSubtree`
establishes it only for the ids `collect_subtree_ids` finds, in the reader and in the
batch. `StagedIsKnown` says these are all that can be staged; it is inductive
together with the types, because an upsert enters the batch in the step that stages
it, a delete unstages what it takes from the batch, and the batch is cleared only
when what is staged becomes visible. `CleanIsPublished` carries the barrier that is
answered at once; with it every step of the writer is a step of `SnapshotIndex`
or a stutter. What the broadcaster is told rests on `BatchFaithful`: whatever a commit would
change for searches is in the batch, among its upserts or deletes or as a purged source
instance, and the last upsert of an id that is not deleted after it is what is staged.

`FilePipelineProofs`: `PipelineTypeCorrect` (`PTypeOK`, the retry budget included),
`InFlightSafe` (`InFlightRowStays`) and `WriteBackSafe` (`WriteBackIsOfItsBytes`),
all from `PipelineSafe`, without assumptions on failures. The inductive invariant
`PipelineInv` adds to these three

- `BatchIsReady`: a crawl about to send holds a batch;
- `NothingFromTheFuture`: no row, job or file is newer than the clock. A version is
  therefore never given to a file twice, so "the mtime I read is the mtime of the
  row" means "these are the bytes of the row";
- `TextIsOfTheRow`: text that passed the second stat is of the version of its row,
  which is what `WriteBackIsOfItsBytes` sends on.

The retry budget rests on `InFlightRowStays`: `mark_failure` adds one to a row by its
document id, and stays within the budget only because the row is the pending one
that was picked. `WriterInside` shows that every step of the composition is a step
of the writer or leaves it alone, so the writer's types carry over.

In the same module, on top of `PipelineInv`: `RecognisedTextSafe` (`RecognisedTextStays`), an
action property, with any number of files, versions and resolvers, both crawls, the OCR
worker, and every fault and crash. One step at a time, what has to be shown is that

- whatever a producer sends or a resolver picks up next leaves the text alone
  (`SendKeeps`, `RefreshKeeps`): a refresh of the file sees the searchable text and keeps it;
- what the writer receives leaves the staged document as it is (`ReceiptKeeps`). Here the
  upsert of the text itself may be rejected by Tantivy, whose delete has happened: the one
  exception of the property;
- commits, failed commits, crashes and restarts move one of three equal copies to another
  (`StoredStays`).

The write-back is the step that needs an invariant. `upsert_body` merges its text into the
committed copy unless that is newer than the version it names. `WriteBacksArePast`: rows, the job and
write-backs in the channel name versions that were handed out and are no newer than the
file. Versions are handed out in increasing order and the committed copy is of the version
on disk, so that a write-back which meets it is of this version, and by
`WriteBackIsOfItsBytes` brings this text; one of an older version is skipped. No file is
below another one (`PipelineAssumption`), so that the removal of a path is of that file only.

What the theorem does not say is that the text becomes searchable, or that nothing was
prepared before: a refresh that read the index before the text was committed and is sent
after it takes the text away, with one resolver or two (`OcrTextSurvives`, refuted). Nor is
there a theorem about the manifest. `ManifestNotAhead` is checked for the boot crawl alone
(`contents`); beside the watcher or the OCR worker it does not hold. A resolver that read the
file before the crawl did may send its document after it, and a write-back may put the older
committed copy over a newer staged one (`BodyKeepsNewerUpsert`, section 5).

`ServicesProofs`, for any number of clients, processes, sessions, requests and faults:

| theorem | states |
|---|---|
| `LauncherTyped`, `LauncherOwnedAlways` | `GcTypeOK`, `LauncherOwned` |
| `HostTyped`, `HostSafeAlways` | `HostTypeOK`, `HostSafe` |
| `SessionsApart` | `SessionsKeptApart` |
| `LoadedOnce` | `EmbedderLoadedOnce`, an action property |
| `ServicesTyped` | `ServicesTypeOK`, of the composition |

`LauncherOwned` needs `LockIsHeld` (one dispatch between its probe and its spawn, which
holds the lock) and `PidsKnown` (a spawn finds nothing tracked, and a watcher that clears
the pid speaks of a process that was reaped): without the first a second spawn would
overwrite the pid of a live launcher. `SessionsKeptApart` needs `ConnFollows` (the
connection is remembered from the session that installed it and writes to the one being
served), `IdsUnique` (an id belongs to one request, also after a restart, because the
counter lives in the connection and not in the session) and `QueuesKnown` (what a session
was sent has an id, what it answers bears the id of its request). `HostSafe` needs
`SignalsTell`: the battery's state is the last signal under way, or what the watcher heard
if there is none. In the slot, a caller that holds the gate is the only one that loads.

`PreviewSessionProofs`, for any number of processes, requests and events: `PreviewTyped`
(`TypeOK`), `OneWindowAlways` (`OneWindow`), `AlwaysWatched` (`ProcessIsWatched`). `ServedInv`
ties the tasks of a process together: one that shows a window, or has a command anywhere
between the spawner and its inbox, is the process the lifecycle names as ready; its
supervisor reads and its writer writes as long as it is up. `OneWindow` follows because the
lifecycle names one process. `LauncherInv` counts epochs against requests, on which the
bound of the epoch in `TypeOK` rests.

`SearchSessionProofs`, for any number of epochs, connections, requests and faults:
`SearchTyped` (`SsTypeOK`), `OneSearchPerConnection` (`OnlyTheSlotSearches`) and
`AnsweredInOrder` (`SearchesInOrder`, which adds `AnsweredOnce`). `SlotInv` says that a
connection gives each search a generation of its own and that, while the next is being
installed, none is left uncancelled. `AnsweredOnce` counts answers over both sides of the
socket; an invariant that adds up what all connections can still bring would need an
induction over connections. `LedgerInv` says instead that there is a ledger: shares of the
searches asked for in an epoch, one for what no connection has (delivered answers, the
sending thread, its queue), one for each connection, as prefix sums `f[0]`, ..,
`f[MaxConns]` that grow and end at what was asked for at most. The share of a connection
covers its Finals on the wire and in the queue, its unfinished searches, the request being
installed and those not read yet; and each Initial has fewer Finals before it than the share
is large, so that its own is still to come. `Rebalanced` is the one lemma about sums: it
moves an amount between two shares by shifting the ledger up to the c-th connection, as
`Ask`, `WriteSearch` and the delivery of a Final do; every other step keeps the ledger.
Of the result cache, for any capacity and number of searches and reloads:
`CacheFresh` (`CacheNotStale`) and `CacheTyped` (`CrTypeOK`); `CrInv` says that the reader is
never behind the epoch, that an entry is at least as new as its key, and that a search
keeps the epoch it was asked in until it puts its result.
Of the ranking stores, for any number of documents, clients, requests and starts:
`StoresSurvive` (`StoresDurable`, the part of `MemoryKept` that is about the disk), with a crash
between any two steps. `SavesAreCurrent`: a store under its lock does not change, so the
`.tmp` file has what the store holds. `ForgottenOnDisk`: a store that is not being saved has
forgotten on disk what it has forgotten in memory; without it a reset that finds nothing
to remove, and so saves nothing, could be acknowledged over an older file. `ResetsUnderWay`
says how far a reset has come that no click took back, `LearntInv` follows the visits through
a shutdown in which clients are still served, and `StampsAreLast` says of the index directory
that the fingerprint, written last, speaks of the fields the index was made with.

`SurfacesProofs`, for any capacities of the watcher's queues, any number of resolvers and of
changes on disk: `WatcherTyped` (`WaTypeOK`) and `NothingMissed` (`NothingUnnoticed`). The
invariant, `WatcherInv`, follows each file from both ends. `PresentFollowed`: a file on disk
has a refresh of itself, its directory or the root somewhere in event queue, pending map,
outbox, job queue or a resolver's hands, after every deletion of it, unless the index shows
it and nothing under way says otherwise. `AbsentFollowed`: a file that is gone has a deletion
ahead, unless the index has none and no resolver will write one. Both speak of files without
an excuse, which is not inductive: a walk that finds a file ends its excuse, so what that walk
relies on must hold of excused files as well. That is `Answered`: no deletion the coalescer
still has is newer than the refresh that answers it, also for the directory and for a file
written in a directory that is not watched yet. `DirRequested` is the same for the watch of
the directory. The assumption on the constants is that the files are among the three the tree
has; the tree itself is fixed. `SurfacesTyped` (`SurfacesTypeOK`) and `LauncherSoundAlways`
(`LauncherSound`) are of the composed instance: its four parts share no variable, so that a
behaviour of it is one of each (`SurfacesApart`), and what is a theorem of each is one of it.

`LauncherProofs`, for any set of queries and any number of epochs, edits, previews and other
requests: `WindowTyped` (`LwTypeOK`) and `WindowHonest` (`LauncherHonest`). `RowsAnswerTheText`
needs `LwKept`: of the searches under way, the buffered chunk and the debounced text, those
of the current epoch are for the text in the entry, and the snapshot's rows are those of its
query or known to be cut off. A change of the text starts an epoch, which is what lets every
method keep it. The preview's part is apart: no method touches fields of both.

Of the rows, for any hits, answers, number of rows, icons, toasts and processes: `RowsTyped`
(`RwTypeOK`) and `RowsAlwaysSound` (`RowsSound`). One part moves at a time, and `RwInv` has an
invariant for each:

- `RwListInv`, `RwSlotInv`, `RwDressedInv`: the list holds no document twice nor one it is
  still to append; the registry is exactly the inverse of the documents of the rows; until
  the hits are dropped ahead of the rows (an emptied entry), every row is dressed as its item
  and every listed document is a cached hit. The second is what lets a row that GTK recycles
  late be forgotten without forgetting the row that has taken over its document;
- `RwPopoverInv`: the counter is the number of popovers mapped;
- `RwIconInv`: an icon's file is decoded once, from the time the one loader takes it from the
  queue, and its slot is filled for good after that, so a second entry in the queue is passed;
- `RwBarInv`: of the timers that run, one of the present epoch is that of the toast shown;
- `RwKidsInv`: a started process is tracked, or being pushed, until it is reaped.

`RowsSound` also states two pure algorithms for every input the constants admit.
`RwHighlightsTrue`: the ranges `highlight_ranges` returns are places of the token in the folded
title, in order and apart, and there are none only if the token occurs nowhere.
`RwJumpsCycle`: repeated jumps visit every category of the list and come back. Both definitions
are recursive; the proofs take the least place at which the function would not exist, or would
not be what it should (`LeastNat`), which stands in for an induction.

`RwAssumption` asks of the constants that the mark for "none" is no row, document, icon or
process; that an answer names no document twice (fusion collects hits by their id; TLC checks
this of the answers as `OncePerPage` of `SearchResults`); that what `Open With` is offered for
has a type or a path (`fs.rs:559` is the one source that offers it, and its hits are files);
that titles and tokens are sequences of numbers, and bounds numbers.

`EmbedProofs`, for any documents, any capacities and batch sizes and any number of versions,
deaths and faults: `EmbedTyped` (`EwTypeOK`) and `VectorsAgree` (`VectorsSafe`). A command for a
document travels late replies, wire, jobs, buffer and batch to the store. `EwInv` orders them:

- `RoadFits`, `PendFits`, `BatchFits`: each command fits what follows it on the way, an older one
  being of an earlier life of the document or no newer; the last one says what the index says;
- `StoreFits`: where nothing is under way for a document the store has what the index has;
- `JournalFits`: a row of the journal is of the present life and no newer than the index, and if
  it is as new the store has that version and nothing ahead says otherwise. This is what makes
  it safe that `handle_job` skips a version the journal calls current;
- `NotAhead`: the journal never has what the store does not, since `flush_text` and
  `flush_images` record after they store.

Documents one of whose embeddings was lost or overtaken (`excused`) are exempt from what is
said of each document, though not from `NotAhead`; those of a deletion that reached the store
and not the journal (`torn`) are exempt from both. The property exempts the same ones.

Only model-checked: liveness (`BarrierReturns`, `RowsDrain`, `CrawlEnds`, `LauncherReturns`,
`EverySearchReported`, `CallersReturn`), which is beyond this prover; and the modules of
`MCContents` but for the crawl's types, the result cache and what the stores keep on disk
(the manifest, `ManifestNotAhead`, is model-checked for the boot crawl). What a fold or a recursive function computes for every input is proved only for the highlight and
the jumps of the rows, by the least counterexample: the induction theorems of the library take
an operator as a parameter, which these provers cannot instantiate.

## 5. What the code does otherwise than it says

Three runs end with a counterexample, and a finding quotes the line:

- `pipeline_reindex_crash`: a full reindex saves its manifest before it commits; after
  a crash in between, the changed file is skipped at every boot;
- `pipeline_reindex_text`: a crawl does not keep the text the live index has of a scan,
  as `index_file` does (`fs.rs:405`, `index_service.rs:975-984`), and the same text, still
  visible, keeps `maybe_enqueue_ocr` from queueing the file again: after a full reindex
  the recognised text is gone for good;
- `settings_pins`: an explicit `[ocr]` key governs the OCR worker until its first tick,
  which takes jobs, interval, nice level and throttle from the impact profile
  (`main.rs:2260`), although the configuration promises that explicit keys override.

Formulas that TLC refutes and that are kept in the modules under that heading; adding
the name to the configuration of the module's run shows the counterexample:

| definition | module | what happens |
|---|---|---|
| `BodyKeepsNewerUpsert` | `IndexWriter` | OCR text for the staged version puts the committed, older document back (`index_service.rs:819`; 87-90 promises otherwise) |
| `OcrTextSurvives` | `FilePipeline` | `index_file` keeps the text of the live index, which is the committed one: a refresh that looked before the OCR text was committed, and is sent after it, replaces the document by one without text (`index_service.rs:980`, `watcher.rs:121`) |
| `WatcherWillRequeue` | `FilePipeline` | the stale row is dropped in the expectation of a reindex that has already happened (`ocr_tick.rs:250`, 282) |
| `ExitIsNoticed` | `PreviewSession` | the supervisor of a dead preview waits for its own writer task, whose channel the Ready state keeps open (`preview_spawn.rs:865`); the next commands are lost and a launcher that stepped aside stays away. `LauncherReturns` speaks of behaviours without crashes |
| `RepeatsReported` | `SearchSession` | "Show more results" searches again in the epoch of an answered search (`window.rs:1971`); a second search that is lost is reported by neither TransportFailed nor SearchTimeout (`ipc.rs:45-58`, 244-260) |
| `RequestsAlwaysReturn` | `LauncherControl` | the deadline of `wait_for_ready` is looked at between attempts; a launcher that has the socket and never answers holds its caller (`gui_control.rs:206-226`) |
| `SemanticRequestsReturn` | `SemanticSession` | the send of a request has no timeout; with the queue full it waits as long as the worker lives and does not read (`source.rs:84-87`, 222, 289) |
| `OverflowRecovers`, `LinksLeaveNoGhost` | `FileWatcher` | deletions recorded before an overflow rescan remove what it found (`watcher.rs:324`); a removed link leaves its document (`watcher.rs:354`) |
| `BackfillResumes`, `PendingIsFlushed` | `EmbedWorker` | a backfill resubmits what the journal has; a batch short of its size waits for the next job, without a timeout (`worker.rs:136`) |
| `FullMatchesFirst`, `RrfOrderKept` | `SearchResults` | the order the comments of `lixun-index` and `handle.rs` promise is changed by the daemon, which sorts each chunk by score (`main.rs:1221-1236`): in an initial chunk and in the only chunk of a lexical search a partial match may stand above a full one; on a fused page ties are broken by id |
| `MenuKeepsItsHit` | `ResultRows` | an open row menu stays while a late answer rebinds its row: "Hide from Results" acts on the new hit (`factory.rs:1262`) |
| `NoSettingEverLost` | `Settings` | two overlapping edits of config.toml lose one of them |
| `NeverPanics`, `SelectionVisible`, `HitsShownOnce`, `ConnectionHonest`, `EditsTheFocused`, `ErrorsExitNonzero` | `CommandLine` | a search that returns fewer rows than the list was scrolled by makes the next drawing slice past the end (`results_list.rs:37`, `app.rs:634`); Initial and Final chunks are both appended; `connected` is never cleared by a failed poll; a click keeps editing mode on; an error response exits with 0 |
| `ShutdownIsHeard`, `BytesAreOfTheCache` | `PdfViewer` | a text search swallows the commands it takes between pages (`poppler_host.rs:450`); the cache's limit of 512 entries evicts without subtracting the bytes (`document_session.rs:388`) |
| `ZoomAnchored` | `ImageViewer` | a second zoom before the idle callback drifts |
| `NeverCovered`, `AnyUserSizeKept` | `PreviewWindow` | a launch leaves `launcher_hidden_by_us` set; a resize while a sizing settles is taken for the host's |
| `FolderUncontested`, `ImageSpinnerEnds`, `OnlyCutTextSaysSo`, `LargeTarListed` | `DocumentPanes` | a folder named x.png goes to the image viewer; a panic of the decoder leaves the spinner; a file of exactly the cap is called truncated; a tar damaged past the cap is not listed |
| `PagesAreFound`, `KillClosesPipes` | `TextExtraction` | page numbers are padded by the limit and not by the number of pages (`ocr.rs:272`); a process that left the group keeps the pipes open (`shell.rs:102`) |
| `MaildirCatchesUp`, `TextArrives`, `AttachmentsStay` | `MailSources` | events of a cooldown are lost; rows below the cursor are never read again; offsets are stale after a compaction |

Seen while modelling, without a formula of their own.

*Index and files.* A shutdown whose commit fails answers the parked barriers as if it
had succeeded and broadcasts its batch (`index_service.rs:698`, 701), which is why
`AckMeansVisible` is checked under faults without a shutdown; deleting an empty subtree
leaves a tombstone with no commit due, which later drops the files of a directory of
the same name (515); a write-back brings a document back that was deleted in the same
batch, and one that comes before the first commit of its document is dropped (804) and its row
removed all the same, another way to forget a text; a
`commit_now` whose commit fails on a clean writer stays parked until the next mutation
(427), which is why `BarrierReturns` does not speak of it; generations restart at 0
with the process (380); after an ordinary restart the boot crawl replaces a recognised
document that only the watcher has indexed by one without text; a file whose row is lost with a corrupt queue
database is not queued again (`fs.rs:312`); an event for an unchanged file that races
with a write-back overwrites the text (980, `OcrTextSurvives`). The watcher's losses are the ones
`waExcused` names: a deletion dropped on overflow, a file written between the walk of a
new directory and its watch, a directory that is back before its deletion is flushed,
two resolvers at one file; and both resolvers may wait for room in the queue only they
drain (`watcher.rs:479`).

*Extraction and mail.* The cache key is taken before the file is read, so a text may be
filed under an older mtime; "LRU" is by the entry's own mtime; `cache_max_mb = 0` also
turns off the reaping of OCR rows; the cursor of Thunderbird's database is written after
the emit and before the commit, so a crash loses messages; a tick that overlaps a reindex
given up as busy leaves its old cursor; an event during a reindex leaves a ghost.

*Search and ranking.* The top hit is chosen before the category filter; claimed hits of
plugins ignore the blocklist; dead ids leave a page short; `SetDocHidden` is acknowledged
when its save fails; a reset is half done after a crash; clicks after the shutdown's save
are lost; the query log is written in place; a lexical-only error ends a search without
an answer; a search written while its reader is leaving is neither answered nor reported
(`ipc.rs:146-160`, the exception in `EverySearchReported`); `read_request` inside `select!`
is not cancellation-safe (`main.rs:1549`).

*Semantic side.* Batches announced while the worker is down are dropped; a full queue
reorders chunks; a delete and an upsert in one flush window delete the live vector; a
document that changes channel keeps its old vector; the backoff is never reset.
`VectorsFollow` excuses documents such a loss has befallen.

*Processes and windows.* A second request on a cold start kills the first one's slow
launcher; a request during shutdown starts a launcher that outlives the daemon; a
SIGTERM may go to a reaped pid; two launchers race between unlink and bind. A launcher told
to step aside and to come back within 120 ms stays away (`window.rs:266`, excluded from
`LauncherReturns`); commands may reach the preview in another order than their epochs
(`preview_spawn.rs:217`, 663); a soft hide cancels the debounced search and keeps the older
rows; a late reply of the recents replaces the history list. A battery change between
the first look and the subscription is missed; presses between two hotkey streams are
lost. `run_and_capture_blocking` reads a child's output after its exit, so output larger
than the pipe times out.

*Settings and previews.* `fs::write` of config.toml is not atomic, and an empty file is
all defaults without an error; an ImpactSet whose save fails answers an error and keeps
the level live; a second ImpactSet reports no restart although one is still due;
`opacity = nan` passes the clamp; `ocr.content_filter` is known and ignored. A stale render
result frees the pending slot of the new document; the fit buttons use the first
document's page size; temporary directories of failed office conversions stay.

## 6. What is not modelled

- **Data.** File formats, message parsing, Tantivy's query evaluation, embeddings,
  floating-point scores (replaced by exact integers of the same order), fonts, colours
  and pixel drawing. What the daemon decides *because* of such data is a choice or a
  constant of the model.
- **Codecs** (`lixun-ipc`, `lixun-semantic-proto`): the models exchange decoded messages.
- **Functions of their input**: the calculator, command, keyword and shell sources,
  excludes, desktop entries, normalisation, tokenizers.
- **Appearance and integration**: styling, blur, positions, portal identity, Hyprland
  bindings, scheduling priorities.
- **Time** is order: a timer may fire at any later step. Decay of visits counts days.
- **In modelled parts**: the left-out operations are named in `PROJECT.json`
  ("components") and at the head of each module. Pids are never used again, except that
  the effect of a signal to a reaped pid is described in section 5.

## 7. The plan

Done: `SnapshotIndex`, `IndexWriter`, `FilePipeline` and their proofs; `PreviewSession`;
`SearchSession`, `LauncherControl`, `DaemonHost`, `SemanticSession`; `FileWatcher`,
`EmbedWorker`, `LauncherWindow`, `ResultRows`; `SearchResults`, `SearchCache`,
`RankingStores`, `Settings`, `TextExtraction`, `MailSources`; `PdfViewer`,
`ImageViewer`, `DocumentPanes`, `PreviewWindow`, `CommandLine`.

Proved: the writer and its refinement, the pipeline's types and OCR safety, the recognised
text that stays, launcher control, host services, semantic sessions, preview
sessions, the search sessions of launcher and daemon, the result cache, the stores on disk, the
file watcher, the launcher window and its rows, the vector store and its journal.

Theorems worth proving next, in this order:

1. `ContentsTypeOK` of `MCContents`, part by part, and of `MemoryKept` the settings
   (`SettingsSound`); its `RecentsFilled` sorts a set and folds over visits, which is induction.
2. The pure parts of `SearchResults` (`ResultsHonest`), by the least counterexample as for the
   highlight of the rows.
