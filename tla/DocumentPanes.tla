---------------------------- MODULE DocumentPanes ----------------------------
(***************************************************************************)
(* What the preview shows of a hit: the plugin that is chosen for it       *)
(* (crates/lixun-preview), the panes the plugins build or update, and the  *)
(* threads behind the slow ones: office conversion with its cache, image   *)
(* decoding, archive and folder listings                                   *)
(* (crates/lixun-preview-{office,image,archive,folder,text,code,...}).     *)
(*                                                                         *)
(* A file is a record of what the plugins look at; its content is the      *)
(* number of times it was written.                                         *)
(***************************************************************************)
EXTENDS Integers, SequencesExt

CONSTANTS
    DpFiles,      \* name |-> what the file is
    DpScenes,     \* the files one user steps through
    DpSoffice,    \* whether find_soffice finds a LibreOffice
    DpRowCap,     \* ENTRY_CAP of the listings
    DpTextCap,    \* DISPLAY_CAP_BYTES of the text panes
    DpSizeCap,    \* preview.max_file_size_mb
    DpShows, DpEdits   \* bounds: documents shown, writes to files

ASSUME DpAssumption ==
    /\ DpSoffice \in BOOLEAN
    /\ {DpRowCap, DpTextCap, DpSizeCap, DpShows, DpEdits} \subseteq Nat

VARIABLES
    dpHits,     \* the files this user steps through
    dpHit,      \* the hit shown, "none" at first
    dpPane,     \* the widget mounted
    dpJobs,     \* threads at work for a pane, and outcomes on their way
    dpVersion,  \* file |-> how often it was written
    dpCache,    \* office cache: <<file, version by its mtime>> |-> version converted
    dpShown     \* shows so far, and the version that was there at the last

dpVars == <<dpHits, dpHit, dpPane, dpJobs, dpVersion, dpCache, dpShown>>

NoRows == [rows |-> <<>>, truncated |-> FALSE, files |-> 0, dirs |-> 0]
NoPane == [no |-> 0, plugin |-> "none", state |-> "none", file |-> "none", seen |-> 0, list |-> NoRows]

-----------------------------------------------------------------------------
(* Which plugin *)

PluginIds == <<"archive", "av", "code", "email", "folder", "image", "info", "office", "pdf", "text">>
Strong ==
    [archive |-> {"zip", "tar", "7z"}, av |-> {"mp4", "ts"}, code |-> {"rs", "md", "ts"}, email |-> {"eml"},
     image |-> {"png", "svg", "gif"}, office |-> {"odt", "rtf"}, pdf |-> {"pdf"},
     text |-> {"txt", "rs", "md", "ts"}, folder |-> {}, info |-> {}]

Knows(plugin, f) == f.path /\ f.ext \in Strong[plugin]
Otherwise(plugin, f, strong, mime, weak) ==
    IF ~f.path THEN 0 ELSE IF Knows(plugin, f) THEN strong ELSE IF f.mime = mime THEN weak ELSE 0

\* A file without a known extension or type is taken for text if its first
\* 4 KiB read as UTF-8 with few control characters: a head cut inside a
\* character does not.
sniff_looks_like_text(f) == f.head = "text"

score_pdf(f) == Otherwise("pdf", f, 90, "pdf", 70)
score_email(f) == IF Knows("email", f) THEN 85 ELSE IF f.path /\ f.maildir THEN 70 ELSE IF f.mail THEN 60 ELSE 0
score_image(f) == Otherwise("image", f, 80, "image", 50)
score_av(f) == Otherwise("av", f, 80, "video", 60)
score_archive(f) == IF f.folder THEN 0 ELSE Otherwise("archive", f, 80, "never", 0)
score_folder(f) == IF f.folder THEN 80 ELSE 0
score_office(f) == Otherwise("office", f, 75, "never", 0)
score_code(f) == Otherwise("code", f, 70, "never", 0)
score_text(f) ==
    IF f.path /\ ~Knows("text", f) /\ f.mime # "text" /\ sniff_looks_like_text(f) THEN 10
    ELSE Otherwise("text", f, 50, "text", 30)
\* MUTANT: the card that knows nothing outbids the guess from the content.
score_info_twenty(f) == 20
score_info(f) == 1

match_score(plugin, f) ==
    CASE plugin = "pdf" -> score_pdf(f) [] plugin = "email" -> score_email(f)
      [] plugin = "image" -> score_image(f) [] plugin = "av" -> score_av(f)
      [] plugin = "archive" -> score_archive(f) [] plugin = "folder" -> score_folder(f)
      [] plugin = "office" -> score_office(f) [] plugin = "code" -> score_code(f)
      [] plugin = "text" -> score_text(f) [] plugin = "info" -> score_info(f)

\* The highest score, and among equals the last id.
select_plugin(f) ==
    PluginIds[CHOOSE i \in DOMAIN PluginIds : \A j \in DOMAIN PluginIds :
            LET s == match_score(PluginIds[i], f) t == match_score(PluginIds[j], f)
            IN  s > t \/ (s = t /\ i >= j)]

-----------------------------------------------------------------------------
(* Listings *)

Least(a, b) == IF a < b THEN a ELSE b
Failed == [NoRows EXCEPT !.files = -1]
Listed(rows, truncated) == [NoRows EXCEPT !.rows = rows, !.truncated = truncated]

\* A zip or 7z tells its number of entries; a tar is read entry by entry, and
\* a bad entry fails the listing even if it is the one past the cap.
list_zip(entries) ==
    LET take == Least(Len(entries), DpRowCap)
    IN  IF \E i \in 1 .. take : entries[i].kind = "bad" THEN Failed
        ELSE Listed(SubSeq(entries, 1, take), Len(entries) > take)

\* MUTANT: a full page counts as a truncated one.
list_tar_full(entries) ==
    LET take == Least(Len(entries), DpRowCap)
    IN  Listed(SubSeq(entries, 1, take), take >= DpRowCap)
list_tar(entries) ==
    LET read == Least(Len(entries), DpRowCap + 1)
    IN  IF \E i \in 1 .. read : entries[i].kind = "bad" THEN Failed
        ELSE Listed(SubSeq(entries, 1, Least(read, DpRowCap)), read > DpRowCap)
list_entries(f) == IF f.ext = "tar" THEN list_tar(f.entries) ELSE list_zip(f.entries)

GroupKey(e) == IF e.kind = "dir" THEN 0 ELSE 1
DirsFirst(a, b) == GroupKey(a) < GroupKey(b) \/ (GroupKey(a) = GroupKey(b) /\ a.name < b.name)
Counted(f, rows) ==
    [rows |-> rows, truncated |-> Len(f.entries) > DpRowCap,
     files |-> Len(SelectSeq(f.entries, LAMBDA e : e.kind = "file")),
     dirs |-> Len(SelectSeq(f.entries, LAMBDA e : e.kind = "dir"))]

\* MUTANT: the page is cut before it is sorted.
list_dir_cut(f) ==
    Counted(f, SortSeq(SubSeq(f.entries, 1, Least(Len(f.entries), DpRowCap)), DirsFirst))
list_dir(f) ==
    Counted(f, SubSeq(SortSeq(f.entries, DirsFirst), 1, Least(Len(f.entries), DpRowCap)))

\* Text and code panes: one read of the cap's length, and a notice when it is full.
read_capped(f) == [NoRows EXCEPT !.rows = <<Least(f.size, DpTextCap)>>, !.truncated = f.size >= DpTextCap]

-----------------------------------------------------------------------------
(* Panes *)

exceeds_size_cap(f) == DpSizeCap # 0 /\ f.size > DpSizeCap
compute_cache_key(name) == <<name, dpVersion[name]>>

Pane(plugin, state, name, seen, list) ==
    [no |-> dpShown.count + 1, plugin |-> plugin, state |-> state, file |-> name, seen |-> seen, list |-> list]
PaneJob(plugin, name) ==
    [pane |-> dpShown.count + 1, plugin |-> plugin, file |-> name, key |-> compute_cache_key(name),
     step |-> "work", read |-> 0, list |-> NoRows]
Loading(plugin, name) ==
    /\ dpPane' = Pane(plugin, "loading", name, 0, NoRows)
    /\ dpJobs' = dpJobs \cup {PaneJob(plugin, name)}
AtOnce(plugin, state, name, seen, list) ==
    /\ dpPane' = Pane(plugin, state, name, seen, list)
    /\ UNCHANGED dpJobs

\* OfficePreview::build: the converted document if the cache has it, else a
\* spinner and a conversion whose key was taken before it began.
build_office(name) ==
    IF ~DpSoffice THEN AtOnce("office", "error", name, 0, NoRows)
    ELSE IF compute_cache_key(name) \in DOMAIN dpCache
         THEN AtOnce("office", "rendered", name, dpCache[compute_cache_key(name)], NoRows)
         ELSE Loading("office", name)
\* ImagePreview::build
build_image(name) ==
    IF exceeds_size_cap(DpFiles[name]) THEN AtOnce("image", "refused", name, 0, NoRows)
    ELSE IF DpFiles[name].ext \in {"svg", "gif"} THEN AtOnce("image", "rendered", name, dpVersion[name], NoRows)
    ELSE Loading("image", name)
\* EmailPreview::build: of a file its text, or the HTML as text if it has no
\* other, and its attachments; of a mail without a file what the hit carries.
\* A file over the cap is cut without a word; one that does not parse is said so.
pick_body_text(f) == IF f.body = "none" THEN "notice" ELSE f.body
build_email(name) ==
    LET f == DpFiles[name]
    IN  AtOnce("email", IF f.path /\ f.head = "broken" THEN "error" ELSE "rendered", name, dpVersion[name],
               [NoRows EXCEPT !.rows = <<pick_body_text(f)>>, !.files = IF f.path THEN Len(f.entries) ELSE 0])
\* AvPreview::build: the stream opens later, in GTK.
build_av(name) == AtOnce("av", "rendered", name, dpVersion[name], NoRows)
\* InfoPreview::build: the card of the hit's own fields, no file is read.
build_info(name) == AtOnce("info", "rendered", name, dpVersion[name], NoRows)
build_pdf(name) == AtOnce("pdf", "rendered", name, dpVersion[name], NoRows)
build_text(name) == AtOnce("text", "rendered", name, dpVersion[name], read_capped(DpFiles[name]))
build_code(name) == AtOnce("code", "rendered", name, dpVersion[name], read_capped(DpFiles[name]))
build_archive(name) == Loading("archive", name)
build_folder(name) == Loading("folder", name)
build(plugin, name) ==
    CASE plugin = "office" -> build_office(name) [] plugin = "image" -> build_image(name)
      [] plugin = "archive" -> build_archive(name) [] plugin = "folder" -> build_folder(name)
      [] plugin = "text" -> build_text(name) [] plugin = "code" -> build_code(name)
      [] plugin = "email" -> build_email(name) [] plugin = "av" -> build_av(name)
      [] plugin = "pdf" -> build_pdf(name) [] plugin = "info" -> build_info(name)

\* MUTANT: a pane that is still loading is updated too.
CanUpdate_loading(plugin, name) ==
    plugin = dpPane.plugin /\ plugin = "office" /\ compute_cache_key(name) \in DOMAIN dpCache
\* OfficePreview::update takes only what is in the cache, and only over a pane
\* that has rendered; PdfPreview::update takes any path; the rest none.
CanUpdate(plugin, name) ==
    /\ plugin = dpPane.plugin
    /\ \/ plugin = "pdf"
       \/ /\ plugin = "office" /\ dpPane.state = "rendered"
          /\ compute_cache_key(name) \in DOMAIN dpCache

show_hit ==
    /\ dpShown.count < DpShows  \* bound
    /\ \E name \in dpHits :
        LET plugin == select_plugin(DpFiles[name])
        IN  /\ dpHit' = name
            /\ dpShown' = [count |-> dpShown.count + 1, version |-> dpVersion[name]]
            /\ IF CanUpdate(plugin, name)
               THEN /\ dpPane' = [dpPane EXCEPT !.file = name, !.state = "rendered",
                                    !.seen = IF plugin = "pdf" THEN dpVersion[name]
                                             ELSE dpCache[compute_cache_key(name)]]
                    /\ UNCHANGED dpJobs
               ELSE build(plugin, name)
    /\ UNCHANGED <<dpHits, dpVersion, dpCache>>

\* Someone writes to one of the files.
Edit ==
    /\ \E name \in dpHits :
        /\ dpVersion[name] <= DpEdits  \* bound
        /\ \A other \in dpHits \ {name} : dpVersion[other] = 1
        /\ dpVersion' = [dpVersion EXCEPT ![name] = @ + 1]
    /\ UNCHANGED <<dpHits, dpHit, dpPane, dpJobs, dpCache, dpShown>>

-----------------------------------------------------------------------------
(* Threads *)

Becomes(job, new) == dpJobs' = (dpJobs \ {job}) \cup {new}

\* run_soffice_convert: LibreOffice reads the file, whatever it holds by now,
\* and ends with a document, an error, nothing, or after 30 s by a kill.
Convert ==
    /\ \E job \in {j \in dpJobs : j.plugin = "office" /\ j.step = "work"} :
        \/ Becomes(job, [job EXCEPT !.step = "store", !.read = dpVersion[job.file]])
        \/ Becomes(job, [job EXCEPT !.step = "failed"])
    /\ UNCHANGED <<dpHits, dpHit, dpPane, dpVersion, dpCache, dpShown>>

\* MUTANT: the name in the cache is made from the time stamp found at the end.
DestOf_late(job) == compute_cache_key(job.file)
DestOf(job) == job.key
\* The document is renamed to its place in the cache.
StoreConverted ==
    /\ \E job \in {j \in dpJobs : j.step = "store"} :
        /\ dpCache' = [k \in DOMAIN dpCache \cup {DestOf(job)} |-> IF k = DestOf(job) THEN job.read ELSE dpCache[k]]
        /\ Becomes(job, [job EXCEPT !.step = "done"])
    /\ UNCHANGED <<dpHits, dpHit, dpPane, dpVersion, dpShown>>

\* decode_scaled: a texture, or an error that falls back to GTK's own reader.
\* A decoder that panics takes the sender with it.
Decode ==
    /\ \E job \in {j \in dpJobs : j.plugin = "image" /\ j.step = "work"} :
        \/ Becomes(job, [job EXCEPT !.step = "done", !.read = dpVersion[job.file]])
        \/ dpJobs' = dpJobs \ {job}
    /\ UNCHANGED <<dpHits, dpHit, dpPane, dpVersion, dpCache, dpShown>>

\* spawn_listing of archives and folders; an archive over the cap is refused,
\* and a task that dies is an error like others.
List ==
    /\ \E job \in {j \in dpJobs : j.plugin \in {"archive", "folder"} /\ j.step = "work"} :
        LET f == DpFiles[job.file]
            list == IF job.plugin = "folder" THEN list_dir(f)
                    ELSE IF exceeds_size_cap(f) THEN Failed ELSE list_entries(f)
        IN  \/ Becomes(job, [job EXCEPT !.step = IF list = Failed THEN "failed" ELSE "done",
                                        !.read = dpVersion[job.file], !.list = list])
            \/ Becomes(job, [job EXCEPT !.step = "failed"])
    /\ UNCHANGED <<dpHits, dpHit, dpPane, dpVersion, dpCache, dpShown>>

\* The outcome reaches its pane, if that is still the one mounted.
Deliver ==
    /\ \E job \in {j \in dpJobs : j.step \in {"done", "failed"}} :
        /\ dpJobs' = dpJobs \ {job}
        /\ dpPane' = IF dpPane.no # job.pane THEN dpPane
                     ELSE [dpPane EXCEPT !.state = IF job.step = "done" THEN "rendered" ELSE "error",
                                         !.file = job.file, !.seen = job.read, !.list = job.list]
    /\ UNCHANGED <<dpHits, dpHit, dpVersion, dpCache, dpShown>>

DpInit ==
    /\ dpHits \in DpScenes
    /\ dpHit = "none" /\ dpPane = NoPane /\ dpJobs = {}
    /\ dpVersion = [f \in DOMAIN DpFiles |-> 1]
    /\ dpCache = [k \in {} |-> 0]
    /\ dpShown = [count |-> 0, version |-> 0]

DpNext == show_hit \/ Edit \/ Convert \/ StoreConverted \/ Decode \/ List \/ Deliver

DpSpec == DpInit /\ [][DpNext]_dpVars

-----------------------------------------------------------------------------
(* Properties *)

DpTypeOK ==
    /\ dpHit \in dpHits \cup {"none"}
    /\ dpPane.state \in {"none", "loading", "rendered", "error", "refused"}
    /\ \A j \in dpJobs : j.pane \in 1 .. DpShows /\ j.step \in {"work", "store", "done", "failed"}

\* What is mounted is of the hit shown, and what it renders is no older than
\* the file was when it was asked for, whichever threads end in between.
PaneOfHit ==
    /\ dpHit # "none" => dpPane.file = dpHit
    /\ (dpPane.state = "rendered") => dpPane.seen >= dpShown.version

\* A document in the office cache is never older than the time stamp it is
\* filed under: a stale one would be shown until the file changes again.
CacheNotOlder == \A k \in DOMAIN dpCache : dpCache[k] >= k[2]

\* A spinner has a thread behind it, or an outcome on its way (for images, see
\* ImageSpinnerEnds).
SpinnerEnds ==
    (dpPane.state = "loading" /\ dpPane.plugin # "image") => \E j \in dpJobs : j.pane = dpPane.no

\* Every hit gets a viewer that knows its extension if there is one, and the
\* card that knows nothing only when no viewer wants it.
ViewerKnowsFile ==
    \A name \in dpHits :
        LET f == DpFiles[name] p == select_plugin(f)
        IN  /\ match_score(p, f) > 0
            /\ ((\E q \in DOMAIN Strong : Knows(q, f)) /\ ~f.folder) => Knows(p, f)
            /\ p = "info" => \A q \in DOMAIN Strong \ {"info"} : match_score(q, f) = 0

\* A list shows all entries or says that it does not, a folder's directories
\* come before any file is shown, and its counts are those of the folder.
ListingHonest ==
    (dpPane.state = "rendered" /\ dpPane.plugin \in {"archive", "folder"}) =>
        LET f == DpFiles[dpPane.file] list == dpPane.list
        IN  /\ Len(list.rows) = Least(Len(f.entries), DpRowCap)
            /\ list.truncated <=> Len(list.rows) < Len(f.entries)
            /\ dpPane.plugin = "folder" =>
                   /\ (\E i \in DOMAIN list.rows : list.rows[i].kind # "dir") =>
                          Len(SelectSeq(list.rows, LAMBDA e : e.kind = "dir")) = list.dirs
                   /\ list.files + list.dirs = Len(SelectSeq(f.entries, LAMBDA e : e.kind \in {"file", "dir"}))
\* A text that is cut says so.
CutTextSaysSo ==
    (dpPane.state = "rendered" /\ dpPane.plugin \in {"text", "code"}) =>
        (DpFiles[dpPane.file].size > DpTextCap => dpPane.list.truncated)

DpSound ==
    /\ PaneOfHit /\ CacheNotOlder /\ SpinnerEnds
    /\ ViewerKnowsFile /\ ListingHonest /\ CutTextSaysSo

\* Refuted: folder/src/lib.rs:20-21 "the archive plugin declines folder hits so
\* ownership is uncontested": a directory named x.png goes to the image viewer.
FolderUncontested == \A name \in dpHits : DpFiles[name].folder => select_plugin(DpFiles[name]) = "folder"
\* Refuted: a panic of the decoder leaves the image's spinner turning.
ImageSpinnerEnds == dpPane.state = "loading" => \E j \in dpJobs : j.pane = dpPane.no
\* Refuted: a file of exactly the cap's length is said to be truncated
\* (text/src/lib.rs:147, code/src/lib.rs:179).
OnlyCutTextSaysSo ==
    (dpPane.state = "rendered" /\ dpPane.plugin \in {"text", "code"}) =>
        (dpPane.list.truncated => DpFiles[dpPane.file].size > DpTextCap)
\* Refuted: archive/src/lib.rs:25-27 lists a large archive "up to this point and
\* flagged as truncated"; a tar damaged past the cap is not listed at all.
LargeTarListed ==
    (dpPane.state = "error" /\ dpPane.plugin = "archive") => Len(DpFiles[dpPane.file].entries) <= DpRowCap
==============================================================================
