--------------------------- MODULE FilePipelineProofs ---------------------------
(***************************************************************************)
(* Theorems about the file pipeline, for any number of files, versions,    *)
(* resolvers, retries and menus, with the crawls, the watcher and the OCR  *)
(* worker side by side: its types, the row of the OCR job in flight, the   *)
(* text that a write-back carries, and the text of a scan once it is       *)
(* searchable.                                                             *)
(***************************************************************************)
EXTENDS FilePipeline, IndexWriterProofs

\* maybe_enqueue_ocr leaves the rows that are there alone, and a new row names the
\* version on disk.
LEMMA EnqueueType ==
    ASSUME PTypeOK, NEW f \in Ids
    PROVE  /\ maybe_enqueue_ocr(f) \in [Ids -> Row \cup {NoRow}]
           /\ \A g \in Ids : rows[g] # NoRow => maybe_enqueue_ocr(f)[g] = rows[g]
           /\ \A g \in Ids : rows[g] = NoRow =>
                 \/ maybe_enqueue_ocr(f)[g] = NoRow
                 \/ file[g] # Gone /\ maybe_enqueue_ocr(f)[g].mtime = file[g]
  <1>1. rows \in [Ids -> Row \cup {NoRow}] /\ file \in [Ids -> Version]
    BY DEF PTypeOK
  <1>2. CASE file[f] \in TextLayer \cup {Gone} \/ has_body(f) \/ rows[f] # NoRow
    BY <1>1, <1>2 DEF maybe_enqueue_ocr
  <1>3. CASE ~ (file[f] \in TextLayer \cup {Gone} \/ has_body(f) \/ rows[f] # NoRow)
    <2>1. file[f] \in Mtimes
      BY <1>1, <1>3 DEF Version
    <2>2. [mtime |-> file[f], attempts |-> 0] \in Row
      BY <2>1, PipelineAssumption DEF Row
    <2>3. maybe_enqueue_ocr(f) = [rows EXCEPT ![f] = [mtime |-> file[f], attempts |-> 0]]
      BY <1>3 DEF maybe_enqueue_ocr
    <2> QED
      BY <1>1, <1>3, <2>2, <2>3
  <1> QED
    BY <1>2, <1>3

\* The document index_file builds of a file on disk is a document.
LEMMA IndexFileType ==
    ASSUME TypeOK, PTypeOK, NEW f \in Ids, file[f] # Gone
    PROVE  index_file(f) \in Docs
  <1>1. file[f] \in Mtimes
    BY DEF PTypeOK, Version
  <1>2. has_body(f) => visible[f].body \in Bodies \cup {NoBody}
    BY DEF TypeOK, Contents, has_body, Docs
  <1>3. extract_content(f) \in Bodies \cup {NoBody}
    BY <1>1, PipelineAssumption DEF extract_content
  <1> QED
    BY <1>1, <1>2, <1>3 DEF index_file, Docs

\* The start of a crawl's stage is a crawl's state.
LEMMA CrawlType ==
    ASSUME NEW stage \in {"off", "walk", "extract"},
           NEW todo \in UNION {[D -> Mtimes] : D \in SUBSET Ids},
           NEW found \in [Ids -> Version], NEW deleted \in SUBSET Ids
    PROVE  Crawl(stage, todo, found, deleted) \in CrawlState
  <1>1. 0 \in 0..MaxSends
    BY WriterAssumption
  <1> QED
    BY <1>1 DEF Crawl, CrawlState

\* A crawl that is off and one about to walk are states of a crawl.
LEMMA OffType == Off \in CrawlState /\ Walk \in CrawlState
  <1>1. NoFiles \in [{} -> Mtimes]
    BY DEF NoFiles
  <1>2. NoFiles \in UNION {[D -> Mtimes] : D \in SUBSET Ids}
    BY <1>1
  <1>3. NoManifest \in [Ids -> Version]
    BY DEF NoManifest, Version, Gone
  <1> QED
    BY <1>2, <1>3, CrawlType DEF Off, Walk

\* A list of changed files without one of them is such a list.
LEMMA RestType ==
    ASSUME NEW fn \in UNION {[D -> Mtimes] : D \in SUBSET Ids}, NEW f
    PROVE  Rest(fn, f) \in UNION {[D -> Mtimes] : D \in SUBSET Ids}
  <1>1. PICK D \in SUBSET Ids : fn \in [D -> Mtimes]
    OBVIOUS
  <1>2. Rest(fn, f) \in [D \ {f} -> Mtimes]
    BY <1>1 DEF Rest
  <1> QED
    BY <1>1, <1>2

\* One crawl moves on: the table of crawls keeps its type.
LEMMA AdvanceType ==
    ASSUME PTypeOK, NEW k \in Crawlers, NEW c \in CrawlState, Advance(k, c)
    PROVE  crawl' \in [Crawlers -> CrawlState]
  BY DEF PTypeOK, Advance

--------------------------------------------------------------------------------
(***************************************************************************)
(* Types.  That attempts stay within the budget rests on InFlightRowStays: *)
(* a failure is charged to a row that was pending when it was picked and   *)
(* still is.                                                               *)
(***************************************************************************)

\* What a step of one group of actions leaves of the type invariant.
LEMMA TypeFrame ==
    ASSUME PTypeOK,
           \/ UNCHANGED diskVars
           \/ file' \in [Ids -> Version] /\ clock' \in Nat,
           UNCHANGED manifest \/ manifest' \in [Ids -> Version],
           UNCHANGED rows \/ rows' \in [Ids -> Row \cup {NoRow}],
           UNCHANGED events \/ events' \subseteq Ids,
           UNCHANGED held
             \/ held' \in [Resolvers -> {Free} \cup FileUpserts \cup SubtreeDeletes],
           UNCHANGED crawl \/ crawl' \in [Crawlers -> CrawlState],
           UNCHANGED job \/ job' \in Job \cup {NoJob}
    PROVE  PTypeOK'
  <1>1. file' \in [Ids -> Version] /\ clock' \in Nat
    BY DEF PTypeOK, diskVars
  <1>2. manifest' \in [Ids -> Version] /\ rows' \in [Ids -> Row \cup {NoRow}]
    BY DEF PTypeOK
  <1>3. events' \subseteq Ids
    BY DEF PTypeOK
  <1>4. held' \in [Resolvers -> {Free} \cup FileUpserts \cup SubtreeDeletes]
    BY DEF PTypeOK
  <1>5. crawl' \in [Crawlers -> CrawlState] /\ job' \in Job \cup {NoJob}
    BY DEF PTypeOK
  <1> QED
    BY <1>1, <1>2, <1>3, <1>4, <1>5 DEF PTypeOK

\* Files written, removed or rescanned keep the types.
LEMMA DiskType ==
    ASSUME PTypeOK, NEW f \in Ids, Write(f) \/ Unlink(f) \/ Rescan(f)
    PROVE  PTypeOK'
  <1>1. file' \in [Ids -> Version] /\ clock' \in Nat
    BY DEF PTypeOK, Write, Unlink, Rescan, diskVars, Version
  <1>2. events' \subseteq Ids
    BY DEF PTypeOK, Write, Unlink, Rescan
  <1>3. UNCHANGED <<stateVars, held, crawl, job>>
    BY DEF Write, Unlink, Rescan
  <1> QED
    BY <1>1, <1>2, <1>3, TypeFrame DEF stateVars

\* A resolver that looks at a file or sends its mutation keeps the types.
LEMMA ResolverType ==
    ASSUME TypeOK, PTypeOK, NEW r \in Resolvers, Resolve(r) \/ Forward(r)
    PROVE  PTypeOK'
  <1>1. ASSUME NEW f \in events, ResolveFile(r, f), events' = events \ {f},
               UNCHANGED <<diskVars, manifest, crawl, job>>
        PROVE  PTypeOK'
    <2>1. f \in Ids /\ file[f] # Gone
      BY <1>1 DEF PTypeOK, ResolveFile
    <2>2. UpsertOf(f, index_file(f)) \in FileUpserts
      BY <2>1, IndexFileType DEF FileUpserts
    <2>3. held' \in [Resolvers -> {Free} \cup FileUpserts \cup SubtreeDeletes]
      BY <1>1, <2>2 DEF ResolveFile, PTypeOK
    <2>4. rows' \in [Ids -> Row \cup {NoRow}]
      BY <1>1, <2>1, EnqueueType DEF ResolveFile
    <2>5. events' \subseteq Ids
      BY <1>1 DEF PTypeOK
    <2> QED
      BY <1>1, <2>3, <2>4, <2>5, TypeFrame
  <1>2. ASSUME NEW f \in events, ResolveGone(r, f), events' = events \ {f},
               UNCHANGED <<diskVars, manifest, crawl, job>>
        PROVE  PTypeOK'
    <2>1. SubtreeOf(f) \in SubtreeDeletes
      BY DEF PTypeOK, SubtreeDeletes
    <2>2. held' \in [Resolvers -> {Free} \cup FileUpserts \cup SubtreeDeletes]
      BY <1>2, <2>1 DEF ResolveGone, PTypeOK
    <2>3. events' \subseteq Ids
      BY <1>2 DEF PTypeOK
    <2> QED
      BY <1>2, <2>2, <2>3, TypeFrame DEF ResolveGone
  <1>3. CASE Forward(r)
    <2>1. held' \in [Resolvers -> {Free} \cup FileUpserts \cup SubtreeDeletes]
      BY <1>3 DEF Forward, PTypeOK
    <2> QED
      BY <1>3, <2>1, TypeFrame DEF Forward, stateVars
  <1> QED
    BY <1>1, <1>2, <1>3 DEF Resolve

\* Every step of a crawl keeps the types.
LEMMA CrawlerType ==
    ASSUME TypeOK, PTypeOK, NEW k \in Crawlers, CrawlStep(k)
    PROVE  PTypeOK'
  <1> DEFINE c == crawl[k]
  <1>0. c \in CrawlState
    BY DEF PTypeOK
  <1>1. CASE CrawlWalk(k)
    <2> DEFINE known   == IF k = "full" THEN NoManifest ELSE manifest
               changed == {f \in Ids : file[f] # Gone /\ ~ Unchanged(k, f, known)}
               deleted == {f \in Ids : file[f] = Gone /\ known[f] # NoMtime}
               todo    == [f \in changed |-> file[f]]
               found   == [f \in Ids |-> IF f \in deleted THEN NoMtime ELSE known[f]]
    <2>1. known \in [Ids -> Version]
      BY DEF PTypeOK, NoManifest, Version, Gone
    <2>2. todo \in [changed -> Mtimes] /\ changed \in SUBSET Ids
      BY DEF PTypeOK, Version
    <2>3. todo \in UNION {[D -> Mtimes] : D \in SUBSET Ids}
      BY <2>2
    <2>4. found \in [Ids -> Version] /\ deleted \in SUBSET Ids
      BY <2>1 DEF Version, Gone
    <2>5. Advance(k, Crawl("extract", todo, found, deleted))
      BY <1>1 DEF CrawlWalk
    <2>6. Crawl("extract", todo, found, deleted) \in CrawlState
      BY <2>3, <2>4, CrawlType
    <2>7. crawl' \in [Crawlers -> CrawlState]
      BY <2>5, <2>6, AdvanceType
    <2> QED
      BY <1>1, <2>7, TypeFrame DEF CrawlWalk, stateVars
  <1>2. CASE CrawlExtract(k)
    <2>1. PICK f \in DOMAIN c.todo :
             /\ rows' = maybe_enqueue_ocr(f)
             /\ Advance(k, [c EXCEPT !.stage = "send",
                                     !.todo = Rest(@, f),
                                     !.found = [@ EXCEPT ![f] = c.todo[f]],
                                     !.batch = UpsertOf(f, [mtime |-> c.todo[f],
                                                            body |-> extract_content(f)])])
             /\ UNCHANGED <<vars, diskVars, manifest, events, held, job>>
      BY <1>2 DEF CrawlExtract
    <2>2. f \in Ids /\ c.todo[f] \in Mtimes
      BY <1>0, <2>1 DEF CrawlState
    <2>3. extract_content(f) \in Bodies \cup {NoBody}
      BY <2>2, PipelineAssumption DEF extract_content, PTypeOK, Version
    <2>4. UpsertOf(f, [mtime |-> c.todo[f], body |-> extract_content(f)]) \in FileUpserts
      BY <2>2, <2>3 DEF FileUpserts, Docs
    <2>5. Rest(c.todo, f) \in UNION {[D -> Mtimes] : D \in SUBSET Ids}
      BY <1>0, RestType DEF CrawlState
    <2>6. [c.found EXCEPT ![f] = c.todo[f]] \in [Ids -> Version]
      BY <1>0, <2>2 DEF CrawlState, Version
    <2>7. [c EXCEPT !.stage = "send",
                    !.todo = Rest(@, f),
                    !.found = [@ EXCEPT ![f] = c.todo[f]],
                    !.batch = UpsertOf(f, [mtime |-> c.todo[f],
                                           body |-> extract_content(f)])] \in CrawlState
      BY <1>0, <2>4, <2>5, <2>6 DEF CrawlState
    <2>8. crawl' \in [Crawlers -> CrawlState]
      BY <2>1, <2>7, AdvanceType
    <2>9. rows' \in [Ids -> Row \cup {NoRow}]
      BY <2>1, <2>2, EnqueueType
    <2> QED
      BY <2>1, <2>8, <2>9, TypeFrame
  <1>3. CASE CrawlSend(k)
    <2>1. [c EXCEPT !.stage = "extract", !.worked = TRUE, !.batch = Free] \in CrawlState
      BY <1>0 DEF CrawlState
    <2>2. crawl' \in [Crawlers -> CrawlState]
      BY <1>3, <2>1, AdvanceType DEF CrawlSend
    <2> QED
      BY <1>3, <2>2, TypeFrame DEF CrawlSend, stateVars
  <1>4. CASE k = "full" /\ FullSave
    <2>1. [c EXCEPT !.saved = TRUE] \in CrawlState /\ c.found \in [Ids -> Version]
      BY <1>0 DEF CrawlState
    <2>2. crawl' \in [Crawlers -> CrawlState] /\ manifest' \in [Ids -> Version]
      BY <1>4, <2>1, AdvanceType DEF FullSave
    <2> QED
      BY <1>4, <2>2, TypeFrame DEF FullSave
  <1>5. CASE k = "incremental" /\ CrawlDelete
    <2>1. [c EXCEPT !.deleted = {}, !.worked = TRUE] \in CrawlState
      BY <1>0 DEF CrawlState
    <2>2. crawl' \in [Crawlers -> CrawlState]
      BY <1>5, <2>1, AdvanceType DEF CrawlDelete
    <2> QED
      BY <1>5, <2>2, TypeFrame DEF CrawlDelete, stateVars
  <1>6. CASE CrawlCommit(k)
    <2>1. sent + 1 \in 0..MaxSends
      BY <1>6, WriterAssumption DEF CrawlCommit, Send, TypeOK
    <2>2. [c EXCEPT !.stage = "wait", !.call = sent + 1] \in CrawlState
      BY <1>0, <2>1 DEF CrawlState
    <2>3. crawl' \in [Crawlers -> CrawlState]
      BY <1>6, <2>2, AdvanceType DEF CrawlCommit
    <2> QED
      BY <1>6, <2>3, TypeFrame DEF CrawlCommit, stateVars
  <1>7. CASE CrawlEnd(k)
    <2>1. crawl' \in [Crawlers -> CrawlState]
      BY <1>7, OffType, AdvanceType DEF CrawlEnd
    <2>2. manifest' \in [Ids -> Version]
      BY <1>0, <1>7 DEF CrawlEnd, CrawlState, PTypeOK
    <2> QED
      BY <1>7, <2>1, <2>2, TypeFrame DEF CrawlEnd
  <1> QED
    BY <1>1, <1>2, <1>3, <1>4, <1>5, <1>6, <1>7 DEF CrawlStep

\* A request for a full reindex keeps the types.
LEMMA ReindexType ==
    ASSUME PTypeOK, Reindex
    PROVE  PTypeOK'
  <1>1. manifest' \in [Ids -> Version]
    BY DEF Reindex, NoManifest, Version, Gone
  <1>2. crawl' \in [Crawlers -> CrawlState]
    BY OffType, AdvanceType DEF Reindex, Crawlers
  <1> QED
    BY <1>1, <1>2, TypeFrame DEF Reindex

\* Every step of the OCR worker, and the sweep of given-up rows, keeps the types:
\* a failure is charged to a row that had an attempt left.
LEMMA OcrType ==
    ASSUME PTypeOK, InFlightRowStays,
           TickStep \/ TickKeep \/ TickGated \/ reap_zombies
    PROVE  PTypeOK'
  <1> USE DEF stateVars
  <1>0. job # NoJob => job \in Job /\ job.file \in Ids
    BY DEF PTypeOK, Job
  <1>1. CASE TickPick
    <2>1. job' \in Job
      BY <1>1 DEF TickPick, peek_next, Pending, PTypeOK, Row, Job
    <2> QED
      BY <1>1, <2>1, TypeFrame DEF TickPick
  <1>2. CASE TickOcr
    <2>1. rows[job.file] \in Row /\ rows[job.file].attempts < MaxAttempts
      BY <1>0, <1>2 DEF TickOcr, InFlightRowStays, Pending, PTypeOK
    <2>2. rows[job.file].attempts + 1 \in 0..MaxAttempts
      BY <2>1, PipelineAssumption DEF Row
    <2>3. mark_failure(job.file) \in [Ids -> Row \cup {NoRow}]
      BY <1>0, <1>2, <2>1, <2>2 DEF mark_failure, TickOcr, PTypeOK, Row
    <2>4. UNCHANGED rows \/ rows' \in [Ids -> Row \cup {NoRow}]
      BY <1>2, <2>3 DEF TickOcr
    <2>5. file[job.file] \notin Unreadable \cup {Gone} => file[job.file] \in Bodies
      BY <1>0, <1>2, PipelineAssumption DEF TickOcr, PTypeOK, Version
    <2>6. job' \in Job \cup {NoJob}
      BY <1>0, <1>2, <2>5 DEF TickOcr, Job
    <2> QED
      BY <1>2, <2>4, <2>6, TypeFrame DEF TickOcr
  <1>3. ASSUME rows' = rows \/ \E f \in Ids : rows' = remove(f),
               job' = NoJob \/ job' = job,
               UNCHANGED <<diskVars, manifest, events, held, crawl>>
        PROVE  PTypeOK'
    <2>1. UNCHANGED rows \/ rows' \in [Ids -> Row \cup {NoRow}]
      BY <1>3 DEF remove, PTypeOK
    <2> QED
      BY <1>3, <2>1, TypeFrame
  <1>4. CASE TickKeep \/ TickStale \/ TickRemove \/ reap_zombies
    BY <1>0, <1>3, <1>4 DEF TickKeep, TickStale, TickRemove, reap_zombies, taskVars
  <1>5. CASE TickCheck \/ TickWriteBack
    <2>1. job' \in Job
      BY <1>0, <1>5 DEF TickCheck, TickWriteBack, Job
    <2> QED
      BY <1>5, <2>1, TypeFrame DEF TickCheck, TickWriteBack
  <1> QED
    BY <1>1, <1>2, <1>4, <1>5 DEF TickStep, TickGated

\* A restart of the daemon keeps the types.
LEMMA RestartType ==
    ASSUME PTypeOK, DaemonRestart
    PROVE  PTypeOK'
  <1>1. crawl' \in [Crawlers -> CrawlState]
    BY OffType DEF DaemonRestart, BootCrawl
  <1>2. events' \subseteq Ids /\ job' \in Job \cup {NoJob}
    BY DEF DaemonRestart
  <1>3. held' \in [Resolvers -> {Free} \cup FileUpserts \cup SubtreeDeletes]
    BY DEF DaemonRestart
  <1> QED
    BY <1>1, <1>2, <1>3, TypeFrame DEF DaemonRestart, stateVars

\* Every step of the pipeline keeps the types.
LEMMA PTypeStep ==
    ASSUME TypeOK, PTypeOK, InFlightRowStays, [PNext]_pvars
    PROVE  PTypeOK'
  <1>1. CASE \/ UNCHANGED pvars \/ WriterTask
             \/ Broadcast /\ UNCHANGED <<diskVars, stateVars, taskVars>>
    BY <1>1, TypeFrame DEF WriterTask, pvars, stateVars, taskVars
  <1>2. CASE \E f \in Ids : Write(f) \/ Unlink(f) \/ Rescan(f)
    BY <1>2, DiskType
  <1>3. CASE \E r \in Resolvers : Resolve(r) \/ Forward(r)
    BY <1>3, ResolverType
  <1>4. CASE \E k \in Crawlers : CrawlStep(k)
    BY <1>4, CrawlerType
  <1>5. CASE TickStep \/ TickKeep \/ TickGated \/ reap_zombies
    BY <1>5, OcrType
  <1> QED
    BY <1>1, <1>2, <1>3, <1>4, <1>5, ReindexType, RestartType DEF PNext

--------------------------------------------------------------------------------
(***************************************************************************)
(* The row of the job in flight.                                           *)
(***************************************************************************)
LEMMA InFlightFrame ==
    ASSUME PTypeOK, InFlightRowStays, UNCHANGED job,
           job # NoJob => rows'[job.file] = rows[job.file]
    PROVE  InFlightRowStays'
  BY DEF InFlightRowStays, Pending

\* An enqueue ignores a document whose row is there, so the row in flight stays.
LEMMA InFlightEnqueue ==
    ASSUME PTypeOK, InFlightRowStays, UNCHANGED job,
           NEW f \in Ids, rows' = maybe_enqueue_ocr(f)
    PROVE  InFlightRowStays'
  <1>1. job # NoJob => job.file \in Ids /\ rows[job.file] # NoRow
    BY DEF PTypeOK, Job, InFlightRowStays, Pending
  <1>2. job # NoJob => rows'[job.file] = rows[job.file]
    BY <1>1, EnqueueType
  <1> QED
    BY <1>2, InFlightFrame

\* No step of a crawl, a resolver or the sweep touches the row in flight.
LEMMA InFlightStep ==
    ASSUME PTypeOK, InFlightRowStays, [PNext]_pvars
    PROVE  InFlightRowStays'
  <1> USE DEF stateVars, taskVars
  <1>0. job # NoJob => job \in Job /\ job.file \in Ids
    BY DEF PTypeOK, Job
  <1>1. CASE UNCHANGED <<rows, job>>
    BY <1>1, InFlightFrame
  <1>2. ASSUME NEW f \in Ids, Write(f) \/ Unlink(f) \/ Rescan(f)
        PROVE  InFlightRowStays'
    BY <1>1, <1>2 DEF Write, Unlink, Rescan
  <1>3. ASSUME NEW r \in Resolvers, Resolve(r) \/ Forward(r)
        PROVE  InFlightRowStays'
    <2>1. CASE Forward(r)
      BY <1>1, <2>1 DEF Forward
    <2>2. CASE Resolve(r)
      <3>1. PICK f \in events : (ResolveFile(r, f) \/ ResolveGone(r, f)) /\ UNCHANGED job
        BY <2>2 DEF Resolve
      <3>2. f \in Ids
        BY <3>1 DEF PTypeOK
      <3> QED
        BY <1>1, <3>1, <3>2, InFlightEnqueue DEF ResolveFile, ResolveGone
    <2> QED
      BY <1>3, <2>1, <2>2
  <1>4. ASSUME NEW k \in Crawlers, CrawlStep(k)
        PROVE  InFlightRowStays'
    <2>1. CASE CrawlExtract(k)
      <3>1. PICK f \in DOMAIN crawl[k].todo : rows' = maybe_enqueue_ocr(f) /\ UNCHANGED job
        BY <2>1 DEF CrawlExtract
      <3>2. f \in Ids
        BY <3>1 DEF PTypeOK, CrawlState
      <3> QED
        BY <3>1, <3>2, InFlightEnqueue
    <2>2. CASE ~ CrawlExtract(k)
      <3>1. UNCHANGED <<rows, job>>
        BY <1>4, <2>2 DEF CrawlStep, CrawlWalk, CrawlSend, FullSave, CrawlDelete,
                          CrawlCommit, CrawlEnd
      <3> QED
        BY <1>1, <3>1
    <2> QED
      BY <2>1, <2>2
  <1>5. CASE TickPick
    BY <1>5 DEF TickPick, peek_next, Pending, InFlightRowStays
  <1>6. CASE TickOcr \/ TickCheck \/ TickWriteBack
    <2>1. job' = NoJob \/ /\ UNCHANGED rows
                          /\ job'.file = job.file /\ job'.mtime = job.mtime
      BY <1>0, <1>6 DEF TickOcr, TickCheck, TickWriteBack, Job
    <2>2. job # NoJob
      BY <1>6 DEF TickOcr, TickCheck, TickWriteBack
    <2> QED
      BY <2>1, <2>2 DEF InFlightRowStays, Pending
  <1>7. CASE TickKeep \/ TickStale \/ TickRemove \/ DaemonRestart
    BY <1>7 DEF TickKeep, TickStale, TickRemove, DaemonRestart, InFlightRowStays
  <1>8. CASE reap_zombies
    <2>1. PICK f \in Ids : Reapable(f) /\ rows' = remove(f) /\ UNCHANGED job
      BY <1>8 DEF reap_zombies
    <2>2. job # NoJob => job.file # f
      BY <1>0, <2>1, PipelineAssumption
      DEF Reapable, InFlightRowStays, Pending, PTypeOK, Row
    <2>3. job # NoJob => rows'[job.file] = rows[job.file]
      BY <1>0, <2>1, <2>2 DEF remove, PTypeOK
    <2> QED
      BY <2>1, <2>3, InFlightFrame
  <1>9. CASE \/ UNCHANGED pvars \/ WriterTask \/ Reindex
             \/ Broadcast /\ UNCHANGED <<diskVars, stateVars, taskVars>>
    BY <1>1, <1>9 DEF WriterTask, Reindex, pvars
  <1> QED
    BY <1>2, <1>3, <1>4, <1>5, <1>6, <1>7, <1>8, <1>9 DEF PNext, TickStep, TickGated

--------------------------------------------------------------------------------
(***************************************************************************)
(* The text of a write-back.  SameFile compares the file with the mtime of *)
(* the row, not with the one the OCR run read, so the proof needs that an  *)
(* mtime once overwritten does not come back: nothing is from the future.  *)
(***************************************************************************)
NothingFromTheFuture ==
    /\ \A f \in Ids : file[f] # Gone => file[f] <= clock
    /\ \A f \in Ids : rows[f] # NoRow => rows[f].mtime <= clock
    /\ job # NoJob => job.mtime <= clock

\* The job's text is of the version its row names, or the file has changed since
\* and the second look will see it (tick_once).
TextIsOfTheRow ==
    job # NoJob =>
        /\ job.stage = "read" => job.text = job.mtime \/ file[job.file] # job.mtime
        /\ job.stage \in {"checked", "sent"} => job.text = job.mtime

\* A crawl that is about to send has a batch.
BatchIsReady == \A k \in Crawlers : crawl[k].stage = "send" => crawl[k].batch \in FileUpserts

\* A step that only enqueues or removes rows makes no row of a version not yet
\* written.
LEMMA FutureFrame ==
    ASSUME PTypeOK, NothingFromTheFuture, UNCHANGED <<diskVars, job>>,
           \/ UNCHANGED rows
           \/ \E f \in Ids : rows' = maybe_enqueue_ocr(f)
           \/ \E f \in Ids : rows' = remove(f)
    PROVE  NothingFromTheFuture'
  <1> USE DEF diskVars
  <1>1. CASE UNCHANGED rows
    BY <1>1 DEF NothingFromTheFuture
  <1>2. ASSUME NEW f \in Ids, rows' = maybe_enqueue_ocr(f) PROVE NothingFromTheFuture'
    <2>1. ASSUME NEW g \in Ids, rows'[g] # NoRow PROVE rows'[g].mtime <= clock
      BY <1>2, <2>1, EnqueueType DEF NothingFromTheFuture
    <2> QED
      BY <2>1 DEF NothingFromTheFuture
  <1>3. ASSUME NEW f \in Ids, rows' = remove(f) PROVE NothingFromTheFuture'
    BY <1>3 DEF NothingFromTheFuture, remove, PTypeOK
  <1> QED
    BY <1>1, <1>2, <1>3

\* No step makes a row or a job of a version that was not written yet.
LEMMA FutureStep ==
    ASSUME PTypeOK, NothingFromTheFuture, [PNext]_pvars
    PROVE  NothingFromTheFuture'
  <1> USE DEF stateVars, taskVars
  <1>0. job # NoJob => job \in Job /\ job.file \in Ids
    BY DEF PTypeOK, Job
  <1>1. ASSUME NEW f \in Ids, Write(f) PROVE NothingFromTheFuture'
    <2>1. clock \in Nat /\ clock' = clock + 1
      BY <1>1 DEF Write, PTypeOK
    <2>2. /\ \A g \in Ids : file[g] # Gone => file[g] \in Nat
          /\ \A g \in Ids : rows[g] # NoRow => rows[g].mtime \in Nat
          /\ job # NoJob => job.mtime \in Nat
      BY WriterAssumption DEF PTypeOK, Version, Row, Job
    <2>3. \A g \in Ids : file'[g] = IF g = f THEN clock + 1 ELSE file[g]
      BY <1>1 DEF Write, PTypeOK
    <2>4. \A g \in Ids : file'[g] # Gone => file'[g] <= clock'
      BY <2>1, <2>2, <2>3 DEF NothingFromTheFuture
    <2>5. UNCHANGED <<rows, job>>
      BY <1>1 DEF Write
    <2> QED
      BY <2>1, <2>2, <2>4, <2>5 DEF NothingFromTheFuture
  <1>2. ASSUME NEW f \in Ids, Unlink(f) PROVE NothingFromTheFuture'
    BY <1>2 DEF Unlink, NothingFromTheFuture, PTypeOK
  <1>3. ASSUME NEW r \in Resolvers, Resolve(r) \/ Forward(r) PROVE NothingFromTheFuture'
    <2>1. UNCHANGED <<diskVars, job>>
      BY <1>3 DEF Resolve, Forward
    <2>2. UNCHANGED rows \/ \E f \in Ids : rows' = maybe_enqueue_ocr(f)
      BY <1>3 DEF Resolve, Forward, ResolveFile, ResolveGone, PTypeOK
    <2> QED
      BY <2>1, <2>2, FutureFrame
  <1>4. ASSUME NEW k \in Crawlers, CrawlStep(k) PROVE NothingFromTheFuture'
    <2>1. UNCHANGED <<diskVars, job>>
      BY <1>4 DEF CrawlStep, CrawlWalk, CrawlExtract, CrawlSend, FullSave, CrawlDelete,
                  CrawlCommit, CrawlEnd
    <2>2. CASE CrawlExtract(k)
      <3>1. PICK f \in DOMAIN crawl[k].todo : rows' = maybe_enqueue_ocr(f)
        BY <2>2 DEF CrawlExtract
      <3>2. f \in Ids
        BY <3>1 DEF PTypeOK, CrawlState
      <3> QED
        BY <2>1, <3>1, <3>2, FutureFrame
    <2>3. CASE ~ CrawlExtract(k)
      <3>1. UNCHANGED rows
        BY <1>4, <2>3 DEF CrawlStep, CrawlWalk, CrawlSend, FullSave, CrawlDelete,
                          CrawlCommit, CrawlEnd
      <3> QED
        BY <2>1, <3>1, FutureFrame
    <2> QED
      BY <2>2, <2>3
  <1>5. CASE TickPick
    BY <1>5 DEF TickPick, peek_next, Pending, NothingFromTheFuture, diskVars
  <1>6. CASE TickOcr
    <2>1. UNCHANGED diskVars /\ (job' = NoJob \/ job'.mtime = job.mtime) /\ job # NoJob
      BY <1>0, <1>6 DEF TickOcr, Job
    <2>2. \A f \in Ids : rows'[f] # NoRow => rows[f] # NoRow /\ rows'[f].mtime = rows[f].mtime
      BY <1>0, <1>6 DEF TickOcr, mark_failure, PTypeOK, Row
    <2> QED
      BY <2>1, <2>2 DEF NothingFromTheFuture, diskVars
  <1>7. CASE TickCheck \/ TickWriteBack \/ TickKeep
    <2>1. /\ UNCHANGED <<diskVars, rows>> /\ job # NoJob
          /\ job' = NoJob \/ job'.mtime = job.mtime
      BY <1>0, <1>7 DEF TickCheck, TickWriteBack, TickKeep, Job
    <2> QED
      BY <2>1 DEF NothingFromTheFuture, diskVars
  <1>8. CASE TickStale \/ TickRemove \/ DaemonRestart
    <2>1. UNCHANGED diskVars /\ job' = NoJob
      BY <1>8 DEF TickStale, TickRemove, DaemonRestart
    <2>2. \A f \in Ids : rows'[f] # NoRow => rows'[f] = rows[f]
      BY <1>0, <1>8 DEF TickStale, TickRemove, DaemonRestart, remove, PTypeOK
    <2> QED
      BY <2>1, <2>2 DEF NothingFromTheFuture, diskVars
  <1>9. CASE reap_zombies
    BY <1>9, FutureFrame DEF reap_zombies
  <1>10. CASE \/ UNCHANGED pvars \/ WriterTask \/ Reindex \/ \E f \in Ids : Rescan(f)
              \/ Broadcast /\ UNCHANGED <<diskVars, stateVars, taskVars>>
    BY <1>10, FutureFrame DEF WriterTask, Reindex, Rescan, pvars
  <1> QED
    BY <1>1, <1>2, <1>3, <1>4, <1>5, <1>6, <1>7, <1>8, <1>9, <1>10
    DEF PNext, TickStep, TickGated

\* No step parts the job's text from its row without the file having changed.
LEMMA TextStep ==
    ASSUME PTypeOK, NothingFromTheFuture, TextIsOfTheRow, [PNext]_pvars
    PROVE  TextIsOfTheRow'
  <1> USE DEF stateVars, taskVars
  <1>0. job # NoJob => job \in Job /\ job.file \in Ids
    BY DEF PTypeOK, Job
  <1>1. CASE UNCHANGED <<file, job>>
    BY <1>1 DEF TextIsOfTheRow
  <1>2. ASSUME NEW f \in Ids, Write(f) PROVE TextIsOfTheRow'
    <2>1. \A g \in Ids : file'[g] = IF g = f THEN clock + 1 ELSE file[g]
      BY <1>2 DEF Write, PTypeOK
    <2>2. job # NoJob => job.mtime # clock + 1
      BY WriterAssumption DEF NothingFromTheFuture, PTypeOK, Job
    <2>3. UNCHANGED job
      BY <1>2 DEF Write
    <2> QED
      BY <1>0, <2>1, <2>2, <2>3 DEF TextIsOfTheRow
  <1>3. ASSUME NEW f \in Ids, Unlink(f) PROVE TextIsOfTheRow'
    <2>1. \A g \in Ids : file'[g] = IF g = f THEN Gone ELSE file[g]
      BY <1>3 DEF Unlink, PTypeOK
    <2>2. job # NoJob => job.mtime # Gone
      BY WriterAssumption DEF PTypeOK, Job, Gone
    <2>3. UNCHANGED job
      BY <1>3 DEF Unlink
    <2> QED
      BY <1>0, <2>1, <2>2, <2>3 DEF TextIsOfTheRow
  <1>4. ASSUME NEW r \in Resolvers, Resolve(r) \/ Forward(r) PROVE TextIsOfTheRow'
    BY <1>1, <1>4 DEF Resolve, Forward, diskVars
  <1>5. ASSUME NEW k \in Crawlers, CrawlStep(k) PROVE TextIsOfTheRow'
    <2>1. UNCHANGED <<file, job>>
      BY <1>5 DEF CrawlStep, CrawlWalk, CrawlExtract, CrawlSend, FullSave, CrawlDelete,
                  CrawlCommit, CrawlEnd, diskVars
    <2> QED
      BY <1>1, <2>1
  <1>6. CASE TickPick
    BY <1>6 DEF TickPick, TextIsOfTheRow
  <1>7. CASE TickOcr
    BY <1>0, <1>7 DEF TickOcr, TextIsOfTheRow, Job, diskVars
  <1>8. CASE TickCheck
    BY <1>0, <1>8 DEF TickCheck, TextIsOfTheRow, SameFile, Job, diskVars
  <1>9. CASE TickWriteBack
    BY <1>0, <1>9 DEF TickWriteBack, TextIsOfTheRow, Job, diskVars
  <1>10. CASE TickKeep \/ TickStale \/ TickRemove \/ DaemonRestart
    BY <1>10 DEF TickKeep, TickStale, TickRemove, DaemonRestart, TextIsOfTheRow
  <1>11. CASE \/ UNCHANGED pvars \/ WriterTask \/ Reindex \/ reap_zombies
              \/ \E f \in Ids : Rescan(f)
              \/ Broadcast /\ UNCHANGED <<diskVars, stateVars, taskVars>>
    BY <1>1, <1>11 DEF WriterTask, Reindex, reap_zombies, Rescan, pvars, diskVars
  <1> QED
    BY <1>2, <1>3, <1>4, <1>5, <1>6, <1>7, <1>8, <1>9, <1>10, <1>11
    DEF PNext, TickStep, TickGated

\* A crawl turns to sending only with a batch in its hands.
LEMMA BatchStep ==
    ASSUME TypeOK, PTypeOK, BatchIsReady, [PNext]_pvars
    PROVE  BatchIsReady'
  <1> USE DEF stateVars, taskVars
  <1>1. CASE UNCHANGED crawl
    BY <1>1 DEF BatchIsReady
  <1>2. ASSUME NEW k \in Crawlers, NEW c, Advance(k, c),
               c.stage = "send" => c.batch \in FileUpserts
        PROVE  BatchIsReady'
    BY <1>2 DEF Advance, BatchIsReady, PTypeOK
  <1>3. ASSUME NEW k \in Crawlers, CrawlStep(k) PROVE BatchIsReady'
    <2>0. crawl[k] \in CrawlState
      BY DEF PTypeOK
    <2>1. CASE CrawlWalk(k) \/ CrawlEnd(k)
      BY <1>2, <2>1 DEF CrawlWalk, CrawlEnd, Crawl, Off
    <2>2. CASE CrawlExtract(k)
      <3>1. PICK f \in DOMAIN crawl[k].todo :
               Advance(k, [crawl[k] EXCEPT
                             !.stage = "send",
                             !.todo = Rest(@, f),
                             !.found = [@ EXCEPT ![f] = crawl[k].todo[f]],
                             !.batch = UpsertOf(f, [mtime |-> crawl[k].todo[f],
                                                    body |-> extract_content(f)])])
        BY <2>2 DEF CrawlExtract
      <3>2. f \in Ids /\ crawl[k].todo[f] \in Mtimes
        BY <2>0, <3>1 DEF CrawlState
      <3>3. extract_content(f) \in Bodies \cup {NoBody}
        BY <3>2, PipelineAssumption DEF extract_content, PTypeOK, Version
      <3>4. UpsertOf(f, [mtime |-> crawl[k].todo[f], body |-> extract_content(f)])
              \in FileUpserts
        BY <3>2, <3>3 DEF FileUpserts, Docs
      <3> QED
        BY <1>2, <2>0, <3>1, <3>4 DEF CrawlState
    <2>3. CASE CrawlSend(k)
      <3>1. [crawl[k] EXCEPT !.stage = "extract", !.worked = TRUE, !.batch = Free].stage
              = "extract"
        BY <2>0 DEF CrawlState
      <3> QED
        BY <1>2, <2>3, <3>1 DEF CrawlSend
    <2>4. CASE k = "full" /\ FullSave
      <3>1. LET c == [crawl[k] EXCEPT !.saved = TRUE]
            IN  c.stage = crawl[k].stage /\ c.batch = crawl[k].batch
        BY <2>0 DEF CrawlState
      <3> QED
        BY <1>2, <2>4, <3>1 DEF FullSave, BatchIsReady
    <2>5. CASE k = "incremental" /\ CrawlDelete
      <3>1. LET c == [crawl[k] EXCEPT !.deleted = {}, !.worked = TRUE]
            IN  c.stage = crawl[k].stage /\ c.batch = crawl[k].batch
        BY <2>0 DEF CrawlState
      <3> QED
        BY <1>2, <2>5, <3>1 DEF CrawlDelete, BatchIsReady
    <2>6. CASE CrawlCommit(k)
      <3>1. [crawl[k] EXCEPT !.stage = "wait", !.call = sent + 1].stage = "wait"
        BY <2>0 DEF CrawlState
      <3> QED
        BY <1>2, <2>6, <3>1 DEF CrawlCommit
    <2> QED
      BY <1>3, <2>1, <2>2, <2>3, <2>4, <2>5, <2>6 DEF CrawlStep
  <1>4. CASE Reindex
    BY <1>2, <1>4 DEF Reindex, Walk, Crawl, Crawlers
  <1>5. CASE DaemonRestart
    BY <1>5 DEF DaemonRestart, BootCrawl, Walk, Off, Crawl, BatchIsReady
  <1>6. ASSUME NEW f \in Ids, Write(f) \/ Unlink(f) \/ Rescan(f) PROVE BatchIsReady'
    BY <1>1, <1>6 DEF Write, Unlink, Rescan
  <1>7. ASSUME NEW r \in Resolvers, Resolve(r) \/ Forward(r) PROVE BatchIsReady'
    BY <1>1, <1>7 DEF Resolve, Forward
  <1>8. CASE TickStep \/ TickKeep \/ TickGated \/ reap_zombies
    BY <1>1, <1>8 DEF TickStep, TickPick, TickOcr, TickWriteBack, TickRemove, TickKeep,
                      TickGated, TickCheck, TickStale, reap_zombies
  <1>9. CASE \/ UNCHANGED pvars \/ WriterTask
             \/ Broadcast /\ UNCHANGED <<diskVars, stateVars, taskVars>>
    BY <1>1, <1>9 DEF WriterTask, pvars
  <1> QED
    BY <1>3, <1>4, <1>5, <1>6, <1>7, <1>8, <1>9 DEF PNext

--------------------------------------------------------------------------------
(***************************************************************************)
(* The writer inside the pipeline.  Every step of the pipeline is a step   *)
(* of the writer or leaves it alone, so what is proved of the writer holds *)
(* in the composition.                                                     *)
(***************************************************************************)
HonestBody(m) == m.op = "upsert_body" => m.body = m.expected

\* What a producer has in its hands.
Ready(m) ==
    \/ \E r \in Resolvers : m = held[r] /\ m # Free
    \/ \E k \in Crawlers : crawl[k].stage = "send" /\ m = crawl[k].batch
    \/ m = DeleteOf(crawl["incremental"].deleted)
    \/ m = CommitNow
    \/ job # NoJob /\ m = BodyOf(job.file, job.text, job.mtime)

\* What the pipeline sends is on the menu and comes from a producer's hands, and a
\* write-back among it is honest.
LEMMA SendsOfThePipeline ==
    ASSUME TypeOK, PTypeOK, BatchIsReady, TextIsOfTheRow, PNext
    PROVE  \/ \E m \in Menu : Send(m) /\ HonestBody(m) /\ Ready(m)
           \/ UNCHANGED vars
           \/ WriterStep \/ Broadcast \/ Restart
  <1>0. PipelineMenu \subseteq Menu
    BY PipelineAssumption
  <1>1. ASSUME NEW m \in FileUpserts \cup SubtreeDeletes PROVE m \in Menu /\ HonestBody(m)
    <2>1. m \in Menu
      BY <1>0, <1>1 DEF PipelineMenu
    <2>2. CASE m \in FileUpserts
      <3>1. PICK f \in Ids, doc \in Docs : m = UpsertOf(f, doc)
        BY <2>2 DEF FileUpserts
      <3>2. m.op = "upsert"
        BY <3>1 DEF UpsertOf
      <3> QED
        BY <2>1, <3>2 DEF HonestBody
    <2>3. CASE m \in SubtreeDeletes
      <3>1. PICK f \in Ids : m = SubtreeOf(f)
        BY <2>3 DEF SubtreeDeletes
      <3>2. m.op = "delete_subtree"
        BY <3>1 DEF SubtreeOf
      <3> QED
        BY <2>1, <3>2 DEF HonestBody
    <2> QED
      BY <1>1, <2>2, <2>3
  <1>2. ASSUME NEW f \in Ids, Write(f) \/ Unlink(f) \/ Rescan(f) PROVE UNCHANGED vars
    BY <1>2 DEF Write, Unlink, Rescan
  <1>3. ASSUME NEW r \in Resolvers, Resolve(r) \/ Forward(r)
        PROVE  UNCHANGED vars \/ \E m \in Menu : Send(m) /\ HonestBody(m) /\ Ready(m)
    <2>1. CASE Resolve(r)
      BY <2>1 DEF Resolve
    <2>2. CASE Forward(r)
      <3>1. held[r] \in FileUpserts \cup SubtreeDeletes
        BY <2>2 DEF Forward, PTypeOK
      <3> QED
        BY <1>1, <2>2, <3>1 DEF Forward, Ready
    <2> QED
      BY <1>3, <2>1, <2>2
  <1>4. ASSUME NEW k \in Crawlers, CrawlStep(k)
        PROVE  UNCHANGED vars \/ \E m \in Menu : Send(m) /\ HonestBody(m) /\ Ready(m)
    <2>1. CASE CrawlWalk(k) \/ CrawlExtract(k) \/ FullSave \/ CrawlEnd(k)
      BY <2>1 DEF CrawlWalk, CrawlExtract, FullSave, CrawlEnd
    <2>2. CASE CrawlSend(k)
      BY <1>1, <2>2 DEF CrawlSend, BatchIsReady, Ready
    <2>3. CASE CrawlDelete
      <3>1. crawl["incremental"].deleted \in SUBSET Ids
        BY DEF PTypeOK, Crawlers, CrawlState
      <3>2. DeleteOf(crawl["incremental"].deleted) \in Menu
        BY <1>0, <3>1 DEF PipelineMenu
      <3>3. HonestBody(DeleteOf(crawl["incremental"].deleted))
        BY DEF HonestBody, DeleteOf
      <3> QED
        BY <2>3, <3>2, <3>3 DEF CrawlDelete, Ready
    <2>4. CASE CrawlCommit(k)
      <3>1. CommitNow \in Menu /\ HonestBody(CommitNow)
        BY <1>0 DEF PipelineMenu, HonestBody, CommitNow
      <3> QED
        BY <2>4, <3>1 DEF CrawlCommit, Ready
    <2> QED
      BY <1>4, <2>1, <2>2, <2>3, <2>4 DEF CrawlStep
  <1>5. CASE TickWriteBack
    <2>1. /\ job \in Job /\ job.text = job.mtime
          /\ Send(BodyOf(job.file, job.text, job.mtime))
      BY <1>5 DEF TickWriteBack, TextIsOfTheRow, PTypeOK
    <2>2. job.file \in Ids /\ job.mtime \in Mtimes /\ job.text \in Bodies
      BY <2>1, PipelineAssumption DEF Job
    <2>3. BodyOf(job.file, job.text, job.mtime) \in Menu
      BY <1>0, <2>2 DEF PipelineMenu
    <2>4. HonestBody(BodyOf(job.file, job.text, job.mtime))
      BY <2>1 DEF HonestBody, BodyOf
    <2> QED
      BY <1>5, <2>1, <2>3, <2>4 DEF TickWriteBack, Ready
  <1>6. CASE TickPick \/ TickOcr \/ TickRemove \/ TickKeep \/ TickGated \/ reap_zombies \/ Reindex
    BY <1>6 DEF TickPick, TickOcr, TickRemove, TickKeep, TickGated, TickCheck, TickStale,
                reap_zombies, Reindex
  <1> QED
    BY <1>2, <1>3, <1>4, <1>5, <1>6 DEF PNext, TickStep, WriterTask, DaemonRestart

\* A step of the pipeline is a step of the index writer or leaves it alone.
LEMMA WriterInside ==
    ASSUME TypeOK, PTypeOK, BatchIsReady, TextIsOfTheRow, [PNext]_pvars
    PROVE  [Next]_vars
  BY SendsOfThePipeline DEF Next, pvars

\* The writer takes from its channel and adds nothing.
LEMMA WriterTakes ==
    ASSUME TypeOK, WriterStep \/ Broadcast \/ Restart
    PROVE  \/ UNCHANGED queue
           \/ queue # <<>> /\ queue' = Tail(queue)
           \/ queue' = <<>>
  BY DEF WriterStep, RecvMutation, RecvBarrier, RecvApplied, RecvCommitNow, RecvShutdown,
         CommitTick, DrainRequest, DrainShutdown, DrainEnd, Finish, Receive, Broadcast,
         Restart, Boot, channelVars

\* Only the OCR worker adds a write-back to the channel, and what it adds carries
\* the text of its version.
LEMMA QueueStep ==
    ASSUME TypeOK, PTypeOK, BatchIsReady, TextIsOfTheRow, WriteBackIsOfItsBytes, [PNext]_pvars
    PROVE  WriteBackIsOfItsBytes'
  <1> DEFINE Honest(q) == \A i \in DOMAIN q : HonestBody(q[i].m)
  <1>0. WriteBackIsOfItsBytes = Honest(queue) /\ WriteBackIsOfItsBytes' = Honest(queue')
    BY DEF WriteBackIsOfItsBytes, HonestBody
  <1>1. queue \in Seq(Entry)
    BY DEF TypeOK
  <1>2. ASSUME NEW m \in Menu, Send(m), HonestBody(m) PROVE Honest(queue')
    <2>1. queue' = Append(queue, [m |-> m, call |-> sent + 1])
      BY <1>2 DEF Send
    <2> DEFINE e == [m |-> m, call |-> sent + 1]
    <2>2. /\ DOMAIN queue = 1..Len(queue)
          /\ DOMAIN queue' = 1..(Len(queue) + 1)
          /\ \A i \in 1..Len(queue) : queue'[i] = queue[i]
          /\ queue'[Len(queue) + 1] = e
      BY <1>1, <2>1
    <2>3. e.m = m
      OBVIOUS
    <2> SUFFICES ASSUME NEW i \in DOMAIN queue' PROVE HonestBody(queue'[i].m)
      OBVIOUS
    <2>4. CASE i \in 1..Len(queue)
      <3>1. HonestBody(queue[i].m)
        BY <1>0, <2>2, <2>4
      <3> QED
        BY <2>2, <2>4, <3>1
    <2>5. CASE i = Len(queue) + 1
      BY <1>2, <2>2, <2>3, <2>5
    <2>6. Len(queue) \in Nat
      BY <1>1
    <2> QED
      BY <2>2, <2>4, <2>5, <2>6
  <1>3. CASE queue # <<>> /\ queue' = Tail(queue)
    <2>0. /\ Len(queue) \in Nat /\ DOMAIN queue = 1..Len(queue)
          /\ Len(queue') = Len(queue) - 1 /\ DOMAIN queue' = 1..Len(queue')
          /\ \A i \in 1..Len(queue') : queue'[i] = queue[i + 1]
      BY <1>1, <1>3, HeadTailProperties
    <2>1. \A i \in 1..Len(queue') : queue'[i] = queue[i + 1] /\ i + 1 \in DOMAIN queue
      BY <2>0
    <2>2. DOMAIN queue' = 1..Len(queue')
      BY <2>0
    <2> QED
      BY <1>0, <2>1, <2>2
  <1>4. CASE UNCHANGED queue \/ queue' = <<>>
    <2>1. CASE UNCHANGED queue
      BY <1>0, <2>1
    <2>2. CASE queue' = <<>>
      <3>1. DOMAIN queue' = {}
        BY <2>2
      <3> QED
        BY <1>0, <3>1
    <2> QED
      BY <1>4, <2>1, <2>2
  <1>5. CASE UNCHANGED vars
    BY <1>0, <1>5 DEF vars
  <1> QED
    BY <1>0, <1>2, <1>3, <1>4, <1>5, SendsOfThePipeline, WriterTakes DEF pvars

--------------------------------------------------------------------------------
(***************************************************************************)
(* The theorems.                                                           *)
(***************************************************************************)
PipelineInv ==
    /\ TypeOK
    /\ PTypeOK
    /\ InFlightRowStays
    /\ BatchIsReady
    /\ NothingFromTheFuture
    /\ TextIsOfTheRow
    /\ WriteBackIsOfItsBytes

\* The start of the daemon satisfies the inductive invariant.
LEMMA PipelineInit == PInit => PipelineInv
  <1> SUFFICES ASSUME PInit PROVE PipelineInv
    OBVIOUS
  <1>1. TypeOK
    BY TypeInit DEF PInit
  <1>2. file \in [Ids -> (Mtimes \cap {1}) \cup {Gone}]
    BY PipelineAssumption DEF PInit
  <1>3. PTypeOK
    <2>1. manifest \in [Ids -> Version]
      BY <1>1 DEF PInit, TypeOK, Contents, Docs, Version, Gone
    <2>2. crawl \in [Crawlers -> CrawlState]
      BY OffType DEF PInit, BootCrawl
    <2>3. file \in [Ids -> Version] /\ clock \in Nat
      BY <1>2 DEF PInit, Version
    <2>4. /\ rows \in [Ids -> Row \cup {NoRow}]
          /\ held \in [Resolvers -> {Free} \cup FileUpserts \cup SubtreeDeletes]
      BY DEF PInit
    <2>5. events \subseteq Ids /\ job \in Job \cup {NoJob}
      BY DEF PInit
    <2> QED
      BY <2>1, <2>2, <2>3, <2>4, <2>5 DEF PTypeOK
  <1>4. InFlightRowStays /\ TextIsOfTheRow
    BY DEF PInit, InFlightRowStays, TextIsOfTheRow
  <1>5. BatchIsReady
    BY DEF PInit, BatchIsReady, BootCrawl, Walk, Off, Crawl
  <1>6. NothingFromTheFuture
    <2>1. \A f \in Ids : file[f] # Gone => file[f] = 1 /\ clock = 1
      BY <1>2 DEF PInit
    <2> QED
      BY <2>1 DEF PInit, NothingFromTheFuture
  <1>7. WriteBackIsOfItsBytes
    BY DEF PInit, Init, WriteBackIsOfItsBytes
  <1> QED
    BY <1>1, <1>3, <1>4, <1>5, <1>6, <1>7 DEF PipelineInv

\* Every step of the pipeline keeps the inductive invariant.
LEMMA PipelineStep == PipelineInv /\ [PNext]_pvars => PipelineInv'
  <1> SUFFICES ASSUME PipelineInv, [PNext]_pvars PROVE PipelineInv'
    OBVIOUS
  <1>1. TypeOK'
    BY WriterInside, TypeStep DEF PipelineInv
  <1>2. PTypeOK' /\ InFlightRowStays'
    BY PTypeStep, InFlightStep DEF PipelineInv
  <1>3. BatchIsReady' /\ NothingFromTheFuture' /\ TextIsOfTheRow'
    BY BatchStep, FutureStep, TextStep DEF PipelineInv
  <1>4. WriteBackIsOfItsBytes'
    BY QueueStep DEF PipelineInv
  <1> QED
    BY <1>1, <1>2, <1>3, <1>4 DEF PipelineInv

\* The inductive invariant holds in every reachable state: of the writer, the
\* watcher's resolvers, both crawls and the OCR worker together.
THEOREM PipelineSafe == PSpec => []PipelineInv
  BY PipelineInit, PipelineStep, PTL DEF PSpec

\* No row is ever tried more often than OCR_MAX_ATTEMPTS, and every variable of
\* the pipeline keeps the shape the code's types give it.
THEOREM PipelineTypeCorrect == PSpec => []PTypeOK
  BY PipelineSafe, PTL DEF PipelineInv

\* Whatever the crawls, the resolvers, the cache sweep and the writer do while
\* the OCR worker is busy, remove and mark_failure act on the row it picked.
THEOREM InFlightSafe == PSpec => []InFlightRowStays
  BY PipelineSafe, PTL DEF PipelineInv

\* A write-back on its way to the writer carries the text of the very version
\* whose mtime it names, however often the file was rewritten meanwhile.
THEOREM WriteBackSafe == PSpec => []WriteBackIsOfItsBytes
  BY PipelineSafe, PTL DEF PipelineInv

--------------------------------------------------------------------------------
(***************************************************************************)
(* The text of a recognised scan.  A write-back replaces the text of the   *)
(* document the reader serves, so the proof needs that it is never of a    *)
(* version that the file has yet to get: one of an older version is stale, *)
(* and one of the version on disk carries its text.                        *)
(***************************************************************************)
Past(f, v) == v \in Mtimes /\ v <= clock /\ (file[f] # Gone => v <= file[f])

PastBody(m) == m.op = "upsert_body" => m.id \in Ids /\ Past(m.id, m.expected)

WriteBacksArePast ==
    /\ \A f \in Ids : rows[f] # NoRow => Past(f, rows[f].mtime)
    /\ job # NoJob => Past(job.file, job.mtime)
    /\ \A k \in DOMAIN queue : PastBody(queue[k].m)

\* What is past stays so: a file only ever gets newer versions.
LEMMA PastStays ==
    ASSUME PipelineInv, [PNext]_pvars, NEW f \in Ids, NEW v, Past(f, v)
    PROVE  Past(f, v)'
  <1>1. CASE UNCHANGED diskVars
    BY <1>1 DEF Past, diskVars
  <1>2. ASSUME NEW g \in Ids, Write(g) PROVE Past(f, v)'
    <2>1. clock \in Nat /\ v \in Nat /\ clock' = clock + 1
      BY <1>2, WriterAssumption DEF Write, Past, PipelineInv, PTypeOK
    <2>2. file'[f] = IF g = f THEN clock + 1 ELSE file[f]
      BY <1>2 DEF Write, PipelineInv, PTypeOK
    <2> QED
      BY <2>1, <2>2 DEF Past
  <1>3. ASSUME NEW g \in Ids, Unlink(g) PROVE Past(f, v)'
    BY <1>3 DEF Unlink, Past, PipelineInv, PTypeOK
  <1>4. \/ UNCHANGED diskVars
        \/ \E g \in Ids : Write(g) \/ Unlink(g)
    BY DEF PNext, Rescan, Resolve, Forward, Reindex, CrawlStep, CrawlWalk, CrawlExtract,
           CrawlSend, FullSave, CrawlDelete, CrawlCommit, CrawlEnd, TickStep, TickPick,
           TickOcr, TickWriteBack, TickRemove, TickKeep, TickGated, TickCheck, TickStale,
           reap_zombies, WriterTask, DaemonRestart, pvars
  <1> QED
    BY <1>1, <1>2, <1>3, <1>4

\* A row is the one that was there or names the version on disk.
LEMMA RowsMove ==
    ASSUME PipelineInv, [PNext]_pvars, NEW f \in Ids, rows'[f] # NoRow
    PROVE  \/ rows[f] # NoRow /\ rows'[f].mtime = rows[f].mtime
           \/ file[f] # Gone /\ rows'[f].mtime = file[f]
  <1> USE DEF stateVars
  <1>0. PTypeOK /\ (job # NoJob => job \in Job /\ job.file \in Ids)
    BY DEF PipelineInv, PTypeOK, Job
  <1>1. CASE UNCHANGED rows
    BY <1>1
  <1>2. ASSUME NEW g \in Ids, rows' = maybe_enqueue_ocr(g)
        PROVE  \/ rows[f] # NoRow /\ rows'[f].mtime = rows[f].mtime
               \/ file[f] # Gone /\ rows'[f].mtime = file[f]
    BY <1>0, <1>2, EnqueueType
  <1>3. ASSUME NEW g \in Ids, rows' = remove(g) \/ rows' = mark_failure(g)
        PROVE  rows[f] # NoRow /\ rows'[f].mtime = rows[f].mtime
    BY <1>0, <1>3 DEF remove, mark_failure, PTypeOK, Row
  <1>4. \/ UNCHANGED rows
        \/ \E g \in Ids : rows' = maybe_enqueue_ocr(g)
        \/ \E g \in Ids : rows' = remove(g) \/ rows' = mark_failure(g)
    <2>1. ASSUME NEW r \in Resolvers, Resolve(r) PROVE <1>4!1 \/ <1>4!2
      BY <1>0, <2>1 DEF Resolve, ResolveFile, ResolveGone, PTypeOK
    <2>2. ASSUME NEW k \in Crawlers, CrawlExtract(k) PROVE <1>4!2
      BY <1>0, <2>2 DEF CrawlExtract, PTypeOK, CrawlState
    <2>3. CASE TickStep \/ TickKeep \/ TickGated \/ reap_zombies
      BY <1>0, <2>3 DEF TickStep, TickPick, TickOcr, TickWriteBack, TickRemove, TickKeep,
                        TickGated, TickCheck, TickStale, reap_zombies
    <2>4. ASSUME NEW k \in Crawlers, CrawlStep(k), ~ CrawlExtract(k) PROVE UNCHANGED rows
      BY <2>4 DEF CrawlStep, CrawlWalk, CrawlSend, FullSave, CrawlDelete, CrawlCommit, CrawlEnd
    <2>5. CASE \/ \E g \in Ids : Write(g) \/ Unlink(g) \/ Rescan(g)
               \/ \E r \in Resolvers : Forward(r)
               \/ Reindex \/ WriterTask \/ DaemonRestart \/ UNCHANGED pvars
               \/ Broadcast /\ UNCHANGED <<diskVars, stateVars, taskVars>>
      BY <2>5 DEF Write, Unlink, Rescan, Forward, Reindex, WriterTask, DaemonRestart, pvars
    <2> QED
      BY <2>1, <2>2, <2>3, <2>4, <2>5 DEF PNext
  <1> QED
    BY <1>1, <1>2, <1>3, <1>4

\* A job is the one that was there or is of a row.
LEMMA JobMoves ==
    ASSUME PipelineInv, [PNext]_pvars, job' # NoJob
    PROVE  \/ job # NoJob /\ job'.file = job.file /\ job'.mtime = job.mtime
           \/ job'.file \in Ids /\ rows[job'.file] # NoRow /\ job'.mtime = rows[job'.file].mtime
  <1> USE DEF stateVars, taskVars
  <1>0. job # NoJob => job \in Job
    BY DEF PipelineInv, PTypeOK
  <1>1. CASE UNCHANGED job
    BY <1>1
  <1>2. CASE TickPick
    BY <1>2 DEF TickPick, peek_next, Pending
  <1>3. CASE TickOcr \/ TickCheck \/ TickWriteBack
    BY <1>0, <1>3 DEF TickOcr, TickCheck, TickWriteBack, Job
  <1>4. UNCHANGED job \/ TickPick \/ TickOcr \/ TickCheck \/ TickWriteBack
    BY DEF PNext, Write, Unlink, Rescan, Resolve, Forward, Reindex, CrawlStep, CrawlWalk,
           CrawlExtract, CrawlSend, FullSave, CrawlDelete, CrawlCommit, CrawlEnd, TickStep,
           TickRemove, TickKeep, TickGated, TickStale, reap_zombies, WriterTask,
           DaemonRestart, pvars
  <1> QED
    BY <1>1, <1>2, <1>3, <1>4

\* An entry of the channel was there before or has just been sent.
LEMMA ChannelMoves ==
    ASSUME PipelineInv, [PNext]_pvars, NEW k \in DOMAIN queue'
    PROVE  \/ \E j \in DOMAIN queue : queue'[k] = queue[j]
           \/ \E m \in Menu : Send(m) /\ HonestBody(m) /\ Ready(m) /\ queue'[k].m = m
  <1>1. queue \in Seq(Entry)
    BY DEF PipelineInv, TypeOK
  <1>2. ASSUME NEW m \in Menu, Send(m)
        PROVE  (\E j \in DOMAIN queue : queue'[k] = queue[j]) \/ queue'[k].m = m
    <2>1. queue' = Append(queue, [m |-> m, call |-> sent + 1])
      BY <1>2 DEF Send
    <2>2. /\ Len(queue) \in Nat /\ DOMAIN queue = 1..Len(queue)
          /\ DOMAIN queue' = 1..(Len(queue) + 1)
          /\ \A i \in 1..Len(queue) : queue'[i] = queue[i]
          /\ queue'[Len(queue) + 1] = [m |-> m, call |-> sent + 1]
      BY <1>1, <2>1
    <2>3. CASE k \in 1..Len(queue)
      BY <2>2, <2>3
    <2>4. CASE k = Len(queue) + 1
      <3>1. [m |-> m, call |-> sent + 1].m = m
        OBVIOUS
      <3> QED
        BY <2>2, <2>4, <3>1
    <2> QED
      BY <2>2, <2>3, <2>4
  <1>3. CASE queue # <<>> /\ queue' = Tail(queue)
    <2>1. /\ Len(queue) \in Nat /\ DOMAIN queue = 1..Len(queue)
          /\ Len(queue') = Len(queue) - 1 /\ DOMAIN queue' = 1..Len(queue')
          /\ \A i \in 1..Len(queue') : queue'[i] = queue[i + 1]
      BY <1>1, <1>3, HeadTailProperties
    <2>2. k + 1 \in DOMAIN queue /\ queue'[k] = queue[k + 1]
      BY <2>1
    <2> QED
      BY <2>2
  <1>4. CASE UNCHANGED queue \/ queue' = <<>>
    BY <1>4
  <1>5. CASE UNCHANGED vars
    BY <1>5 DEF vars
  <1>6. TypeOK /\ PTypeOK /\ BatchIsReady /\ TextIsOfTheRow
    BY DEF PipelineInv
  <1> QED
    BY <1>2, <1>3, <1>4, <1>5, <1>6, SendsOfThePipeline, WriterTakes DEF pvars

\* Of what producers have in their hands only the OCR worker's is a write-back.
LEMMA ReadyBody ==
    ASSUME PipelineInv, NEW m, Ready(m), m.op = "upsert_body"
    PROVE  job # NoJob /\ m = BodyOf(job.file, job.text, job.mtime)
  <1>1. ASSUME NEW n \in FileUpserts \cup SubtreeDeletes PROVE n.op # "upsert_body"
    <2>1. ASSUME NEW f \in Ids, NEW doc \in Docs, n = UpsertOf(f, doc) PROVE n.op = "upsert"
      BY <2>1 DEF UpsertOf
    <2>2. ASSUME NEW f \in Ids, n = SubtreeOf(f) PROVE n.op = "delete_subtree"
      BY <2>2 DEF SubtreeOf
    <2> QED
      BY <1>1, <2>1, <2>2 DEF FileUpserts, SubtreeDeletes
  <1>2. ASSUME NEW r \in Resolvers, m = held[r], m # Free PROVE FALSE
    BY <1>1, <1>2 DEF PipelineInv, PTypeOK
  <1>3. ASSUME NEW k \in Crawlers, crawl[k].stage = "send", m = crawl[k].batch PROVE FALSE
    BY <1>1, <1>3 DEF PipelineInv, BatchIsReady
  <1>4. m # CommitNow /\ m # DeleteOf(crawl["incremental"].deleted)
    BY DEF CommitNow, DeleteOf
  <1> QED
    BY <1>2, <1>3, <1>4 DEF Ready

\* No step makes a write-back of a version that the file has yet to get.
LEMMA WriteBacksStayPast ==
    ASSUME PipelineInv, WriteBacksArePast, [PNext]_pvars
    PROVE  WriteBacksArePast'
  <1>1. ASSUME NEW f \in Ids, NEW v, rows'[f] # NoRow, v = rows'[f].mtime PROVE Past(f, v)'
    <2>1. CASE rows[f] # NoRow /\ v = rows[f].mtime
      BY <2>1, PastStays DEF WriteBacksArePast
    <2>2. CASE file[f] # Gone /\ v = file[f]
      <3>1. v \in Mtimes /\ v <= clock /\ v <= v
        BY <2>2, WriterAssumption DEF PipelineInv, PTypeOK, Version, NothingFromTheFuture
      <3> QED
        BY <2>2, <3>1, PastStays DEF Past
    <2> QED
      BY <1>1, <2>1, <2>2, RowsMove
  <1>2. job # NoJob => job.file \in Ids
    BY DEF PipelineInv, PTypeOK, Job
  <1>3. ASSUME NEW f, NEW v, job' # NoJob, f = job'.file, v = job'.mtime PROVE Past(f, v)'
    <2>1. f \in Ids /\ Past(f, v)
      BY <1>2, <1>3, JobMoves DEF WriteBacksArePast
    <2> QED
      BY <2>1, PastStays
  <1>4. ASSUME NEW k \in DOMAIN queue', NEW m, m = queue'[k].m PROVE PastBody(m)'
    <2> SUFFICES ASSUME m.op = "upsert_body" PROVE m.id \in Ids /\ Past(m.id, m.expected)'
      BY DEF PastBody
    <2>1. m.id \in Ids /\ Past(m.id, m.expected)
      <3>1. CASE \E j \in DOMAIN queue : queue'[k] = queue[j]
        BY <1>4, <3>1 DEF WriteBacksArePast, PastBody
      <3>2. CASE Ready(m)
        <4>1. job # NoJob /\ m = BodyOf(job.file, job.text, job.mtime)
          BY <3>2, ReadyBody
        <4>2. m.id = job.file /\ m.expected = job.mtime
          BY <4>1 DEF BodyOf
        <4> QED
          BY <1>2, <4>1, <4>2 DEF WriteBacksArePast
      <3> QED
        BY <1>4, <3>1, <3>2, ChannelMoves
    <2> QED
      BY <2>1, PastStays
  <1> QED
    BY <1>1, <1>3, <1>4 DEF WriteBacksArePast

\* What a resolver holds was in its hands, or is of the file it has just looked at.
LEMMA HeldMoves ==
    ASSUME PipelineInv, [PNext]_pvars, NEW r \in Resolvers
    PROVE  \/ held'[r] \in {Free, held[r]}
           \/ \E g \in Ids : file[g] # Gone /\ held'[r] = UpsertOf(g, index_file(g))
           \/ \E g \in Ids : file[g] = Gone /\ held'[r] = SubtreeOf(g)
  <1> USE DEF stateVars, taskVars
  <1>0. PTypeOK
    BY DEF PipelineInv
  <1>1. CASE UNCHANGED held
    BY <1>1
  <1>2. ASSUME NEW q \in Resolvers, Resolve(q)
        PROVE  \/ held'[r] = held[r]
               \/ \E g \in Ids : file[g] # Gone /\ held'[r] = UpsertOf(g, index_file(g))
               \/ \E g \in Ids : file[g] = Gone /\ held'[r] = SubtreeOf(g)
    <2>1. PICK g \in events : ResolveFile(q, g) \/ ResolveGone(q, g)
      BY <1>2 DEF Resolve
    <2>2. g \in Ids
      BY <1>0, <2>1 DEF PTypeOK
    <2> QED
      BY <1>0, <2>1, <2>2 DEF ResolveFile, ResolveGone, PTypeOK
  <1>3. ASSUME NEW q \in Resolvers, Forward(q) PROVE held'[r] \in {Free, held[r]}
    BY <1>0, <1>3 DEF Forward, PTypeOK
  <1>4. CASE DaemonRestart
    BY <1>4 DEF DaemonRestart
  <1>5. \/ UNCHANGED held \/ DaemonRestart
        \/ \E q \in Resolvers : Resolve(q) \/ Forward(q)
    BY DEF PNext, Write, Unlink, Rescan, Reindex, CrawlStep, CrawlWalk, CrawlExtract,
           CrawlSend, FullSave, CrawlDelete, CrawlCommit, CrawlEnd, TickStep, TickPick,
           TickOcr, TickWriteBack, TickRemove, TickKeep, TickGated, TickCheck, TickStale,
           reap_zombies, WriterTask, pvars
  <1> QED
    BY <1>1, <1>2, <1>3, <1>4, <1>5

\* A refresh of a file whose text is indexed brings that text again, and one of
\* another file leaves it alone.
LEMMA RefreshKeeps ==
    ASSUME PipelineInv, NEW f \in Ids, TextKept(f), NEW g \in Ids
    PROVE  /\ file[g] # Gone => ~ Displaces(UpsertOf(g, index_file(g)), f)
           /\ file[g] = Gone => ~ Displaces(SubtreeOf(g), f)
  <1>1. ASSUME file[g] # Gone PROVE ~ Displaces(UpsertOf(g, index_file(g)), f)
    <2> DEFINE m == UpsertOf(g, index_file(g))
    <2>1. m.op = "upsert" /\ DOMAIN m.docs = {g} /\ m.docs[g] = index_file(g)
      BY DEF UpsertOf
    <2> HIDE DEF m
    <2>2. f = g => index_file(f) = Current(f)
      <3>1. file[f] \in Bodies /\ visible[f] = [mtime |-> file[f], body |-> file[f]]
        BY PipelineAssumption DEF TextKept, Current, PipelineInv, PTypeOK, Version
      <3>2. visible[f] # NoDoc
        BY <3>1, PipelineAssumption, WriterAssumption DEF Docs
      <3>3. visible[f].body = file[f] /\ file[f] # NoBody
        BY <3>1, WriterAssumption
      <3>4. has_body(f)
        BY <3>2, <3>3 DEF has_body
      <3> QED
        BY <3>3, <3>4 DEF index_file, extract_content, Current
    <2>3. ~ Displaces(m, f)
      BY <2>1, <2>2 DEF Displaces
    <2> QED
      BY <2>3 DEF m
  <1>2. ASSUME file[g] = Gone PROVE ~ Displaces(SubtreeOf(g), f)
    <2>1. f # g
      BY <1>2 DEF TextKept
    <2>2. ~ id_in_subtree(f, g)
      BY <2>1, PipelineAssumption
    <2> QED
      BY <2>2 DEF Displaces, SubtreeOf
  <1> QED
    BY <1>1, <1>2

\* Nothing that is sent displaces the text.
LEMMA SendKeeps ==
    ASSUME PipelineInv, NEW f \in Ids, TextKept(f), ~ TakenUp(f), NEW m, Ready(m)
    PROVE  ~ Displaces(m, f)
  <1>1. ASSUME NEW r \in Resolvers, m = held[r], m # Free PROVE ~ Displaces(m, f)
    BY <1>1 DEF TextKept, OnTheWay
  <1>2. ASSUME NEW k \in Crawlers, crawl[k].stage = "send", m = crawl[k].batch
        PROVE  ~ Displaces(m, f)
    <2>1. PICK g \in Ids, doc \in Docs : m = UpsertOf(g, doc)
      BY <1>2 DEF PipelineInv, BatchIsReady, FileUpserts
    <2>2. m.op = "upsert"
      BY <2>1 DEF UpsertOf
    <2>3. m # Free
      BY <2>1, PipelineAssumption DEF PipelineMenu, FileUpserts
    <2>4. f \notin DOMAIN m.docs
      BY <1>2, <2>3 DEF TakenUp
    <2> QED
      BY <2>2, <2>4 DEF Displaces
  <1>3. CASE m = DeleteOf(crawl["incremental"].deleted)
    <2>1. f \notin crawl["incremental"].deleted
      BY DEF TakenUp, Crawlers
    <2> QED
      BY <1>3, <2>1 DEF Displaces, DeleteOf
  <1>4. CASE m = CommitNow
    BY <1>4 DEF Displaces, CommitNow
  <1>5. CASE m = BodyOf(job.file, job.text, job.mtime)
    BY <1>5 DEF Displaces, BodyOf
  <1> QED
    BY <1>1, <1>2, <1>3, <1>4, <1>5 DEF Ready

\* Nothing on its way to the writer displaces the text afterwards.
LEMMA WayStaysClear ==
    ASSUME PipelineInv, [PNext]_pvars,
           NEW f \in Ids, TextKept(f), ~ TakenUp(f), file'[f] = file[f]
    PROVE  \A m \in OnTheWay' : ~ Displaces(m, f)'
  <1>1. \A m : Displaces(m, f)' = Displaces(m, f)
    BY DEF Displaces, Current
  <1>2. ASSUME NEW r \in Resolvers, NEW m, m = held'[r], m # Free PROVE ~ Displaces(m, f)
    <2>1. CASE m = held[r]
      BY <1>2, <2>1 DEF TextKept, OnTheWay
    <2>2. CASE m # held[r]
      BY <1>2, <2>2, HeldMoves, RefreshKeeps
    <2> QED
      BY <2>1, <2>2
  <1>3. ASSUME NEW k \in DOMAIN queue', NEW m, m = queue'[k].m
        PROVE  ~ Displaces(m, f)
    <2>1. CASE \E j \in DOMAIN queue : queue'[k] = queue[j]
      BY <1>3, <2>1 DEF TextKept, OnTheWay
    <2>2. CASE Ready(m)
      BY <2>2, SendKeeps
    <2> QED
      BY <1>3, <2>1, <2>2, ChannelMoves
  <1>4. \A m \in OnTheWay' : ~ Displaces(m, f)
    BY <1>2, <1>3 DEF OnTheWay
  <1> QED
    BY <1>1, <1>4

\* A received mutation leaves the staged document alone or writes the same; Tantivy
\* may reject it.
LEMMA ReceiptKeeps ==
    ASSUME PipelineInv, WriteBacksArePast, NEW f \in Ids, TextKept(f),
           queue # <<>>, Apply(Head(queue).m)
    PROVE  staged'[f] = staged[f] \/ ("upsert" \in Faults /\ staged'[f] = NoDoc)
  <1> DEFINE m == Head(queue).m
  <1>0. TypeOK /\ queue \in Seq(Entry)
    BY DEF PipelineInv, TypeOK
  <1>1. 1 \in DOMAIN queue /\ Head(queue) = queue[1] /\ m \in Mutation
    BY <1>0, HeadIsEntry, WriterAssumption
  <1>2. PastBody(m) /\ HonestBody(m)
    BY <1>1 DEF PipelineInv, WriteBackIsOfItsBytes, WriteBacksArePast, HonestBody
  <1>4. ~ Displaces(m, f)
    BY <1>1 DEF TextKept, OnTheWay
  <1> HIDE DEF m
  <1>5. CASE m.op = "upsert" /\ Upsert(m)
    BY <1>4, <1>5 DEF Upsert, Displaces, WithUpserts, TextKept
  <1>6. CASE m.op = "delete" /\ Delete(m)
    BY <1>4, <1>6 DEF Delete, Displaces, Without
  <1>7. CASE m.op = "delete_subtree" /\ DeleteSubtree(m)
    BY <1>4, <1>7 DEF DeleteSubtree, Displaces, Without, collect_subtree_ids
  <1>8. CASE m.op = "delete_source_instance" /\ DeleteSourceInstance(m)
    BY <1>4, <1>8 DEF DeleteSourceInstance, Displaces, Without
  <1>9. CASE m.op = "upsert_body" /\ UpsertBody(m)
    <2>1. CASE UpsertBodySkipped(m)
      BY <2>1 DEF UpsertBodySkipped
    <2>2. CASE m.id # f /\ UpsertBodyApplied(m)
      BY <2>2 DEF UpsertBodyApplied, apply_upsert_body, WithUpserts
    <2>3. CASE m.id = f /\ UpsertBodyApplied(m)
      <3>1. /\ m.expected \in Nat /\ m.expected <= file[f] /\ m.expected # NoMtime
            /\ m.body = m.expected
        BY <1>2, <1>9, <2>3, WriterAssumption DEF PastBody, Past, HonestBody, TextKept
      <3>2. file[f] \in Mtimes /\ file[f] \in Nat
        BY WriterAssumption DEF TextKept, PipelineInv, PTypeOK, Version
      <3>3. visible[f] = [mtime |-> file[f], body |-> file[f]]
        BY DEF TextKept, Current
      <3>4. ~ (visible[f].mtime > m.expected)
        BY <2>3, <3>1 DEF UpsertBodyApplied, StaleBody
      <3>5. m.body = file[f]
        BY <3>1, <3>2, <3>3, <3>4
      <3>6. [visible[f] EXCEPT !.body = m.body] = staged[f]
        BY <3>3, <3>5 DEF TextKept, Current
      <3>7. PICK added \in Fallible("upsert") : apply_upsert_body(m, added)
        BY <2>3 DEF UpsertBodyApplied
      <3>8. CASE added
        BY <2>3, <3>6, <3>7, <3>8 DEF apply_upsert_body, WithUpserts
      <3>9. CASE ~ added
        BY <2>3, <3>7, <3>9 DEF apply_upsert_body, WithUpserts, Fallible
      <3> QED
        BY <3>8, <3>9
    <2> QED
      BY <1>9, <2>1, <2>2, <2>3 DEF UpsertBody
  <1> QED
    BY <1>5, <1>6, <1>7, <1>8, <1>9 DEF Apply, m

\* A commit, one that fails, the end of the writer and a restart leave the text where
\* it is saved and searchable.
LEMMA StoredStays ==
    ASSUME PipelineInv, [PNext]_pvars, NEW f \in Ids, TextKept(f)
    PROVE  /\ durable'[f] \in {durable[f], staged[f]}
           /\ visible'[f] \in {visible[f], staged[f], durable[f]}
           /\ \/ staged'[f] \in {staged[f], durable[f]}
              \/ queue # <<>> /\ Apply(Head(queue).m)
  <1>1. CASE UNCHANGED vars
    BY <1>1 DEF vars
  <1>2. ASSUME NEW m \in Menu, Send(m)
        PROVE  UNCHANGED <<staged, durable, visible>>
    BY <1>2 DEF Send, indexVars
  <1>3. ASSUME NEW op \in MutationOps, RecvMutation(op)
        PROVE  UNCHANGED <<durable, visible>> /\ queue # <<>> /\ Apply(Head(queue).m)
    BY <1>3 DEF RecvMutation, Receive, indexVars
  <1>4. CASE RecvBarrier \/ RecvApplied \/ RecvShutdown \/ DrainRequest \/ DrainShutdown \/ DrainEnd
    BY <1>4 DEF RecvBarrier, RecvApplied, RecvShutdown, DrainRequest, DrainShutdown, DrainEnd,
                indexVars
  <1>5. CASE RecvCommitNow \/ CommitTick \/ Finish
    BY <1>5 DEF RecvCommitNow, CommitTick, CommitAttempt, do_commit_ok, do_commit_failed,
                Finish, FinishCommit
  <1>6. CASE Broadcast
    BY <1>6 DEF Broadcast, indexVars
  <1>7. CASE Restart
    BY <1>7 DEF Restart, Boot
  <1>8. TypeOK /\ PTypeOK /\ BatchIsReady /\ TextIsOfTheRow
    BY DEF PipelineInv
  <1> QED
    BY <1>1, <1>2, <1>3, <1>4, <1>5, <1>6, <1>7, <1>8, SendsOfThePipeline DEF WriterStep, pvars

\* Every step of the pipeline keeps the text of a file that is not taken up.
LEMMA TextStays ==
    ASSUME PipelineInv, WriteBacksArePast, [PNext]_pvars,
           NEW f \in Ids, TextKept(f), ~ TakenUp(f), file'[f] = file[f]
    PROVE  TextKept(f)' \/ ("upsert" \in Faults /\ staged'[f] = NoDoc)
  <1>1. /\ staged[f] = Current(f) /\ durable[f] = Current(f) /\ visible[f] = Current(f)
        /\ file[f] # Gone
    BY DEF TextKept
  <1>2. Current(f)' = Current(f)
    BY DEF Current
  <1>3. durable'[f] = Current(f) /\ visible'[f] = Current(f)
    BY <1>1, StoredStays
  <1>4. staged'[f] = Current(f) \/ ("upsert" \in Faults /\ staged'[f] = NoDoc)
    BY <1>1, StoredStays, ReceiptKeeps
  <1>5. \A m \in OnTheWay' : ~ Displaces(m, f)'
    BY WayStaysClear
  <1> QED
    BY <1>1, <1>2, <1>3, <1>4, <1>5 DEF TextKept

\* The text recognised for a scan, once it is searchable and nothing prepared before
\* that is on its way, is neither overwritten by refreshes and late write-backs nor
\* lost in a commit, a crash or a restart, with any number of resolvers, during
\* crawls and reindexes of other files, as long as the file stays as it is.
THEOREM RecognisedTextSafe == PSpec => RecognisedTextStays
  <1>1. PInit => PipelineInv /\ WriteBacksArePast
    <2>1. PInit => WriteBacksArePast
      BY DEF PInit, Init, WriteBacksArePast
    <2> QED
      BY <2>1, PipelineInit
  <1>2. PipelineInv /\ WriteBacksArePast /\ [PNext]_pvars => (PipelineInv /\ WriteBacksArePast)'
    BY PipelineStep, WriteBacksStayPast
  <1> DEFINE Kept ==
        \A f \in Ids :
            TextKept(f) /\ ~ TakenUp(f) /\ file'[f] = file[f]
            => \/ TextKept(f)'
               \/ "upsert" \in Faults /\ staged'[f] = NoDoc
  <1>3. PipelineInv /\ WriteBacksArePast /\ [PNext]_pvars => [Kept]_pvars
    BY TextStays
  <1>4. RecognisedTextStays <=> [][Kept]_pvars
    BY PTL DEF RecognisedTextStays
  <1> QED
    BY <1>1, <1>2, <1>3, <1>4, PTL DEF PSpec
================================================================================
