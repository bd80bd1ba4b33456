----------------------------- MODULE TextExtraction -----------------------------
(***************************************************************************)
(* lixun-extract and the sweep of its cache.  Workers of the crawl and of  *)
(* the watcher extract one file through the cache on disk while the file   *)
(* changes, the daemon restarts with other converters installed, and the   *)
(* sweep evicts.  Four scenes of their own follow one extraction inside:   *)
(* the runner of a converter, the RTF reader, the ZIP reader and the OCR   *)
(* of a PDF.  A text is what made it and the version it was made of.       *)
(***************************************************************************)
EXTENDS Integers, Sequences, FiniteSets, FiniteSetsExt

CONSTANTS
    ExWorkers,    \* threads that extract
    ExKinds,      \* [ext, how]: extensions, extracted from a path or from bytes
    ExTools,      \* converters that may or may not be installed
    ExWrites,     \* bound: versions of the file
    ExBoots,      \* bound: starts of the daemon
    ExClock,      \* bound: seconds that pass
    ExEntryBytes, \* size of a cache entry
    ExCacheBytes, \* [extract].cache_max_mb
    ExStreamBytes,\* MAX_CAPTURED_STREAM_BYTES
    ExRtf,        \* input, tokens, depth, stuck, out and check: the limits of the RTF reader
    ExZip,        \* entries, entry, total and out: the limits of the ZIP readers
    ExArchives,   \* archives, as sequences of [part, size, real, text]
    ExBase,       \* the base page numbers are written in
    ExScans,      \* PDFs to recognise: [total, max, texts]
    ExImages      \* images to recognise: [w, h, parts]

VARIABLES
    exDisk,  \* the file's version, the tools found at the last start, the clock
    exStore, \* entries of the cache and its temporary files
    exJob,   \* per worker, its extraction
    exSweep, \* the sweep's list and progress
    exWork   \* the extraction a scene follows, or what may happen around the cache

exVars == <<exDisk, exStore, exJob, exSweep, exWork>>

ExIdle == [pc |-> "idle"]
ExResting == [pc |-> "idle", list |-> {}, gone |-> {}, stuck |-> {}]

--------------------------------------------------------------------------------
(* Engines *)

\* shell.rs: the converter of each format it calls out for.
Converter == [pdf |-> "pdftotext", doc |-> "antiword", xls |-> "catdoc", ppt |-> "libreoffice"]

\* What turns a file into text, given the tools that were found at start.
extractor_for_ext(ext, caps) ==
    CASE ext \in {"docx", "xlsx", "pptx", "odt", "rtf"} -> ext
      [] ext \in DOMAIN Converter /\ Converter[ext] \in caps -> Converter[ext]
      [] OTHER -> "none"

\* The engine's name in the key of the cache.
engine_tag_for_ext_static(ext, caps) ==
    IF ext \in {"docx", "xlsx", "pptx"} THEN "ooxml" ELSE ext

engine_tag_for_ext(ext, caps) ==
    CASE ext \in {"docx", "xlsx", "pptx"} -> "ooxml"
      [] ext \in {"odt", "rtf"} -> ext
      [] ext \in DOMAIN Converter /\ Converter[ext] \in caps -> Converter[ext]
      [] OTHER -> "utf8-sniff"

\* ExtractorCapabilities::probe_with: tesseract without a language is no tesseract.
probe_with(found, langs) == found \ (IF langs = {} THEN {"tesseract"} ELSE {})

\* parse_tesseract_langs: what looks like a language, on either stream.
parse_tesseract_langs(stdout, stderr) == {l \in stdout \cup stderr : l \in {"eng", "rus"}}

\* probe_tesseract_langs_system: nothing when it fails or takes five seconds.
probe_tesseract_langs(outcome) ==
    IF outcome = "listed" THEN parse_tesseract_langs({"eng", "List of available languages (1):"}, {})
    ELSE {}

--------------------------------------------------------------------------------
(* The cache *)

CacheEntry(key) == {e \in exStore.entries : e.key = key}

\* The canonical path, the time and the size of the file stand for its version.
key_for_path(ext) == [tag |-> engine_tag_for_ext(ext, exDisk.caps), ver |-> exDisk.ver, how |-> "path"]

\* The bytes are in the caller's hands: they are the key and the text's source.
key_for_bytes(ext) == [tag |-> engine_tag_for_ext(ext, exDisk.caps), ver |-> exDisk.ver, how |-> "bytes"]

\* cached_extract_path, cached_extract_bytes: the key is taken first.
ExBegins(w, kind) ==
    /\ exWork.kind = "cache" /\ exJob[w].pc \in {"idle", "done"}
    /\ kind.how = "path" \/ "tools" \in exWork.may
    /\ exJob' = [exJob EXCEPT ![w] =
           [pc |-> "keyed", kind |-> kind, since |-> exDisk.ver,
            key |-> IF kind.how = "path" THEN key_for_path(kind.ext) ELSE key_for_bytes(kind.ext)]]
    /\ UNCHANGED <<exDisk, exStore, exSweep, exWork>>

\* cache_get: an entry that does not decode is removed and not used.
cache_get(w) ==
    /\ exJob[w].pc = "keyed"
    /\ LET hit == CacheEntry(exJob[w].key)
           bad == {e \in hit : e.bad}
       IN  /\ exStore' = [exStore EXCEPT !.entries = @ \ bad]
           /\ exJob' = [exJob EXCEPT ![w] =
                  IF hit \ bad # {}
                  THEN [pc |-> "done", kind |-> @.kind, since |-> @.since, text |-> (CHOOSE e \in hit : TRUE).text]
                  ELSE [pc |-> "missed", kind |-> @.kind, since |-> @.since, key |-> @.key]]
    /\ UNCHANGED <<exDisk, exSweep, exWork>>

\* extract_path, extract_bytes: the file as it is now, or the bytes as they
\* were; a parser's error or panic ends a path's extraction without a text.
ExExtracts(w) ==
    /\ exJob[w].pc = "missed"
    /\ \E ok \in BOOLEAN :
           exJob' = [exJob EXCEPT ![w] =
               IF ok THEN [pc |-> "read", kind |-> @.kind, since |-> @.since, key |-> @.key,
                           text |-> [engine |-> extractor_for_ext(@.kind.ext, exDisk.caps),
                                     ver |-> IF @.kind.how = "path" THEN exDisk.ver ELSE @.since]]
               ELSE ExIdle]
    /\ UNCHANGED <<exDisk, exStore, exSweep, exWork>>

\* cache_put writes a file of its own first; a write that fails is only logged,
\* and leaves what it wrote.
PutBegins_in_place(w) ==
    /\ exJob[w].pc = "read"
    /\ exStore' = [exStore EXCEPT !.entries =
           {e \in @ : e.key # exJob[w].key}
           \cup {[key |-> exJob[w].key, at |-> exDisk.clock, bad |-> FALSE,
                  text |-> [engine |-> "torn", ver |-> exJob[w].text.ver]]}]
    /\ exJob' = [exJob EXCEPT ![w].pc = "tmp"]
    /\ UNCHANGED <<exDisk, exSweep, exWork>>

PutBegins(w) ==
    /\ exJob[w].pc = "read"
    /\ \/ /\ exStore' = [exStore EXCEPT !.tmps = @ \cup {[w |-> w, at |-> exDisk.clock]}]
          /\ exJob' = [exJob EXCEPT ![w].pc = "tmp"]
       \/ /\ exJob' = [exJob EXCEPT ![w] = [pc |-> "done", kind |-> @.kind, since |-> @.since, text |-> @.text]]
          /\ exStore' = [exStore EXCEPT !.tmps = @ \cup {[w |-> "nobody", at |-> exDisk.clock]}]
    /\ UNCHANGED <<exDisk, exSweep, exWork>>

\* The rename; the sweep may have taken the file away, which is logged too.
PutEnds(w) ==
    /\ exJob[w].pc = "tmp"
    /\ LET mine == {t \in exStore.tmps : t.w = w}
       IN  exStore' = [tmps |-> exStore.tmps \ mine,
                       entries |-> IF mine = {} THEN exStore.entries
                                   ELSE {e \in exStore.entries : e.key # exJob[w].key}
                                        \cup {[key |-> exJob[w].key, at |-> exDisk.clock, bad |-> FALSE, text |-> exJob[w].text]}]
    /\ exJob' = [exJob EXCEPT ![w] = [pc |-> "done", kind |-> @.kind, since |-> @.since, text |-> @.text]]
    /\ UNCHANGED <<exDisk, exSweep, exWork>>

\* The file is written again, time passes, an entry rots.
Outside ==
    /\ exWork.kind = "cache"
    /\ \/ exDisk.ver < ExWrites /\ exDisk' = [exDisk EXCEPT !.ver = @ + 1] /\ UNCHANGED exStore
       \/ "sweep" \in exWork.may /\ exDisk.clock < ExClock /\ exDisk' = [exDisk EXCEPT !.clock = @ + 1] /\ UNCHANGED exStore
       \/ "tools" \in exWork.may /\ exDisk.boots < ExBoots /\ UNCHANGED exDisk
          /\ \E e \in exStore.entries : ~e.bad /\ exStore' = [exStore EXCEPT !.entries = (@ \ {e}) \cup {[e EXCEPT !.bad = TRUE]}]
    /\ UNCHANGED <<exJob, exSweep, exWork>>

\* The daemon ends at any point and starts again, with other tools installed
\* perhaps: init_capabilities keeps what is probed now, and what its threads had not renamed stays behind.
Restarts ==
    /\ exWork.kind = "cache" /\ "tools" \in exWork.may /\ exDisk.boots < ExBoots
    /\ \E tools \in SUBSET ExTools, outcome \in {"listed", "failed"} :
           exDisk' = [exDisk EXCEPT !.boots = @ + 1, !.caps = probe_with(tools, probe_tesseract_langs(outcome))]
    /\ exStore' = [exStore EXCEPT !.tmps = {[t EXCEPT !.w = "nobody"] : t \in @}]
    /\ exJob' = [w \in ExWorkers |-> ExIdle] /\ exSweep' = ExResting
    /\ UNCHANGED exWork

--------------------------------------------------------------------------------
(* The sweep *)

\* The walk, and at once the temporary files that are old enough.
SweepWalks ==
    /\ exWork.kind = "cache" /\ "sweep" \in exWork.may /\ exSweep.pc = "idle"
    /\ exSweep' = [pc |-> "evicts", list |-> {[key |-> e.key, at |-> e.at] : e \in exStore.entries}, gone |-> {}, stuck |-> {}]
    /\ exStore' = [exStore EXCEPT !.tmps = {t \in @ : exDisk.clock = t.at}]
    /\ UNCHANGED <<exDisk, exJob, exWork>>

Bytes(list) == ExEntryBytes * Cardinality(list)

\* Oldest first among what it has not tried.
NextVictims_newest == LET left == exSweep.list \ (exSweep.gone \cup exSweep.stuck) IN {f \in left : \A g \in left : f.at >= g.at}

NextVictims == LET left == exSweep.list \ (exSweep.gone \cup exSweep.stuck) IN {f \in left : \A g \in left : f.at =< g.at}

\* One eviction: whatever is at the path now goes, a file that is gone counts as
\* evicted and one that cannot be removed does not.
SweepEvicts ==
    /\ exSweep.pc = "evicts" /\ Bytes(exSweep.list \ exSweep.gone) > ExCacheBytes
    /\ \E f \in NextVictims :
           \/ /\ exStore' = [exStore EXCEPT !.entries = {e \in @ : e.key # f.key}]
              /\ exSweep' = [exSweep EXCEPT !.gone = @ \cup {f}]
           \/ exSweep' = [exSweep EXCEPT !.stuck = @ \cup {f}] /\ UNCHANGED exStore
    /\ UNCHANGED <<exDisk, exJob, exWork>>

\* The list is done or fits; the next tick walks again.
SweepEnds ==
    /\ exSweep.pc = "evicts"
    /\ Bytes(exSweep.list \ exSweep.gone) =< ExCacheBytes \/ NextVictims = {}
    /\ exSweep' = [exSweep EXCEPT !.pc = "idle"]
    /\ UNCHANGED <<exDisk, exStore, exJob, exWork>>

--------------------------------------------------------------------------------
(* SystemRunner::run *)

\* spawn, with a temporary file for the input and two threads on the pipes.
Spawned(timeout) ==
    [kind |-> "run", pc |-> "waits", child |-> "runs", kin |-> "none", pipe |-> FALSE, kept |-> 0, sent |-> 0,
     timeout |-> timeout, timed |-> FALSE, temp |-> TRUE, result |-> "none"]

\* What a converter may do: write, start a process that shares its pipes, end.
ChildSteps ==
    /\ exWork.kind = "run" /\ exWork.child = "runs"
    /\ \/ exWork.sent < ExStreamBytes + 1
          /\ exWork' = [exWork EXCEPT !.sent = @ + 1, !.kept = IF @ < ExStreamBytes THEN @ + 1 ELSE @]
       \/ exWork.kin = "none" /\ exWork' = [exWork EXCEPT !.kin = "in", !.pipe = TRUE]
       \/ \E how \in {"ok", "bad"} : exWork' = [exWork EXCEPT !.child = how]
    /\ UNCHANGED <<exDisk, exStore, exJob, exSweep>>

\* What the process it started may do: leave the group, close the pipe, end.
KinSteps ==
    /\ exWork.kind = "run" /\ exWork.kin \in {"in", "out"}
    /\ \/ exWork.kin = "in" /\ exWork' = [exWork EXCEPT !.kin = "out"]
       \/ exWork.pipe /\ exWork' = [exWork EXCEPT !.pipe = FALSE]
       \/ exWork' = [exWork EXCEPT !.kin = "none", !.pipe = FALSE]
    /\ UNCHANGED <<exDisk, exStore, exJob, exSweep>>

\* wait_timeout passes: the group is killed, the child reaped.
KillGroup_child_only(work) == [work EXCEPT !.child = "bad", !.timed = TRUE, !.pc = "joins"]

KillGroup(work) ==
    [work EXCEPT !.child = "bad", !.timed = TRUE, !.pc = "joins",
                 !.kin = IF @ = "in" THEN "none" ELSE @, !.pipe = @ /\ work.kin # "in"]

\* The child ends by itself, or is ended.
RunnerWaits ==
    /\ exWork.kind = "run" /\ exWork.pc = "waits"
    /\ \/ exWork.child # "runs" /\ exWork' = [exWork EXCEPT !.pc = "joins"]
       \/ exWork.child = "runs" /\ exWork.timeout /\ exWork' = KillGroup(exWork)
    /\ UNCHANGED <<exDisk, exStore, exJob, exSweep>>

\* The reader threads end when nobody holds the pipes; the temporary file goes.
RunnerJoins ==
    /\ exWork.kind = "run" /\ exWork.pc = "joins" /\ ~exWork.pipe
    /\ exWork' = [exWork EXCEPT !.pc = "returned", !.temp = FALSE,
                                !.result = IF ~exWork.timed /\ exWork.child = "ok" THEN "text" ELSE "error"]
    /\ UNCHANGED <<exDisk, exStore, exJob, exSweep>>

--------------------------------------------------------------------------------
(* extract_rtf_with_reader *)

RtfBegun == [kind |-> "rtf", pc |-> "reads", left |-> ExRtf.input, tokens |-> 0, depth |-> 0, stuck |-> 0, out |-> 0, turns |-> 0]

\* A turn without progress counts against a limit of its own.
NoProgress_uncounted(work) == work

NoProgress(work) == [work EXCEPT !.stuck = @ + 1, !.pc = IF work.stuck + 1 > ExRtf.stuck THEN "error" ELSE @]

\* push_capped_bytes, push_capped_str.
push_capped(work, n) == IF work.out + n > ExRtf.out THEN [work EXCEPT !.pc = "error"] ELSE [work EXCEPT !.out = @ + n]

\* A token of n bytes, within the caps on tokens, nesting and output.
Token(work, n, token) ==
    LET on == [work EXCEPT !.stuck = 0, !.left = @ - n, !.tokens = @ + 1]
    IN  CASE on.tokens > ExRtf.tokens -> [on EXCEPT !.pc = "error"]
          [] token = "start" /\ on.tokens =< ExRtf.tokens ->
                 [on EXCEPT !.depth = @ + 1, !.pc = IF on.depth + 1 > ExRtf.depth THEN "error" ELSE @]
          [] token = "end" /\ on.tokens =< ExRtf.tokens -> [on EXCEPT !.depth = IF @ = 0 THEN 0 ELSE @ - 1]
          [] token = "text" /\ on.tokens =< ExRtf.tokens -> push_capped(on, n)
          [] token = "other" /\ on.tokens =< ExRtf.tokens -> on

\* One turn of the loop: the deadline, every so many tokens, then the tokenizer,
\* which may fail, stand still or return a token.
RtfTurn ==
    /\ exWork.kind = "rtf" /\ exWork.pc = "reads"
    /\ IF exWork.left = 0 THEN exWork' = [exWork EXCEPT !.pc = "text"]
       ELSE LET turn == [exWork EXCEPT !.turns = @ + 1]
            IN  \/ exWork.tokens % ExRtf.check = 0 /\ exWork' = [turn EXCEPT !.pc = "error"]
                \/ exWork' = [turn EXCEPT !.pc = "error"]
                \/ exWork' = NoProgress(turn)
                \/ \E n \in 1 .. exWork.left, token \in {"start", "end", "text", "other"} : exWork' = Token(turn, n, token)
    /\ UNCHANGED <<exDisk, exStore, exJob, exSweep>>

--------------------------------------------------------------------------------
(* OoxmlExtractor, OdtExtractor *)

ZipBegun(archive) == [kind |-> "zip", pc |-> "validates", zip |-> archive, at |-> 1, part |-> "document", read |-> 0, out |-> 0, from |-> {}]

\* validate_zip_archive: the entries' number, each one's size, and the sum.
validate_zip_archive_each(zip) ==
    Len(zip) =< ExZip.entries /\ \A i \in 1 .. Len(zip) : zip[i].size =< ExZip.entry

validate_zip_archive(zip) ==
    /\ Len(zip) =< ExZip.entries
    /\ \A i \in 1 .. Len(zip) : zip[i].size =< ExZip.entry
    /\ MapThenSumSet(LAMBDA i : zip[i].size, 1 .. Len(zip)) =< ExZip.total

\* read_zip_file_to_string: one byte past what the entry declares at most.
read_zip_file(entry) == IF entry.real =< entry.size + 1 THEN entry.real ELSE entry.size + 1

\* The document; only without its text the worksheets, only without theirs the slides.
NextPart == [document |-> "sheet", sheet |-> "slide", slide |-> "none"]

\* Checks first, then entry after entry of the part that is looked for.
ZipSteps ==
    /\ exWork.kind = "zip"
    /\ \/ exWork.pc = "validates" /\ exWork' = [exWork EXCEPT !.pc = IF validate_zip_archive(exWork.zip) THEN "reads" ELSE "error"]
       \/ /\ exWork.pc = "reads" /\ exWork.at =< Len(exWork.zip)
          /\ LET e == exWork.zip[exWork.at]
                 text == IF e.text =< read_zip_file(e) THEN e.text ELSE read_zip_file(e)
             IN  exWork' = IF e.part # exWork.part THEN [exWork EXCEPT !.at = @ + 1]
                           ELSE IF exWork.out + text > ExZip.out
                                THEN [exWork EXCEPT !.read = @ + read_zip_file(e), !.pc = "error"]
                                ELSE [exWork EXCEPT !.at = @ + 1, !.read = @ + read_zip_file(e), !.out = @ + text,
                                                    !.from = @ \cup (IF text > 0 THEN {e.part} ELSE {})]
       \/ /\ exWork.pc = "reads" /\ exWork.at > Len(exWork.zip)
          /\ exWork' = IF exWork.out = 0 /\ NextPart[exWork.part] # "none"
                       THEN [exWork EXCEPT !.at = 1, !.part = NextPart[exWork.part]]
                       ELSE [exWork EXCEPT !.pc = "text"]
    /\ UNCHANGED <<exDisk, exStore, exJob, exSweep>>

--------------------------------------------------------------------------------
(* OCR *)

\* image_too_small, asked before an image is queued; a header that does not
\* decode (no sides) is let through.
image_too_small(image, min) == min > 0 /\ image.w \in 1 .. min - 1 /\ image.h < min

\* content_filter_check: enough components of the size and shape of a letter.
content_filter_check(image, min) == Cardinality({c \in image.parts : c.area \in 8 .. 5000 /\ c.side >= 4 /\ c.square}) >= min

\* ocr_image_with: the worker looks at the sides again, and fails without them.
ocr_image_with(image, min) ==
    CASE min > 0 /\ image.w = 0 -> {"error"}
      [] min > 0 /\ image.w > 0 /\ image.w < min /\ image.h < min -> {"none"}
      [] min = 0 \/ image.w >= min \/ image.h >= min -> {"error", "none", "text"}

ImageBegun(image, min) == [kind |-> "image", pc |-> "filters", image |-> image, min |-> min]

\* The worker's filter, then run_ocr_job_with on an image.
ImageSteps ==
    /\ exWork.kind = "image"
    /\ \/ exWork.pc = "filters" /\ exWork' = [exWork EXCEPT !.pc = IF content_filter_check(exWork.image, 1) THEN "reads" ELSE "none"]
       \/ exWork.pc = "reads" /\ \E r \in ocr_image_with(exWork.image, exWork.min) : exWork' = [exWork EXCEPT !.pc = r]
    /\ UNCHANGED <<exDisk, exStore, exJob, exSweep>>

\* The digits of the largest page number: how pdftoppm names a page's file.
Width(n) == IF n < ExBase THEN 1 ELSE 2

\* probe_pdf_page_count and the limit: a limit of zero is none.
OcrLimit(scan) == IF scan.max = 0 \/ scan.max > scan.total THEN scan.total ELSE scan.max

OcrBegun(scan) == [kind |-> "ocr", pc |-> "pages", scan |-> scan, page |-> 1, out |-> <<>>, failed |-> FALSE, dir |-> TRUE]

\* The file the next page is looked for in has the digits of the limit.
pdftoppm_output_width(scan) == Width(OcrLimit(scan))

\* ocr_pdf_pages_with, one page: rasterised, read, kept when it has text.  A
\* tool may fail, and tesseract fails on a file pdftoppm named otherwise.
OcrPage ==
    /\ exWork.kind = "ocr" /\ exWork.pc = "pages" /\ exWork.page =< OcrLimit(exWork.scan)
    /\ \/ exWork' = [exWork EXCEPT !.pc = "error", !.failed = TRUE, !.dir = FALSE]
       \/ exWork' = IF pdftoppm_output_width(exWork.scan) # Width(exWork.scan.total)
                    THEN [exWork EXCEPT !.pc = "error", !.dir = FALSE]
                    ELSE [exWork EXCEPT !.page = @ + 1,
                                        !.out = IF exWork.page \in exWork.scan.texts THEN Append(@, exWork.page) ELSE @]
    /\ UNCHANGED <<exDisk, exStore, exJob, exSweep>>

\* The pages that had text, joined; none when no page had.
OcrEnds ==
    /\ exWork.kind = "ocr" /\ exWork.pc = "pages" /\ exWork.page > OcrLimit(exWork.scan)
    /\ exWork' = [exWork EXCEPT !.pc = IF @ = "pages" /\ exWork.out = <<>> THEN "none" ELSE "text", !.dir = FALSE]
    /\ UNCHANGED <<exDisk, exStore, exJob, exSweep>>

--------------------------------------------------------------------------------

ExInit ==
    /\ exDisk = [ver |-> 1, clock |-> 0, boots |-> 1, caps |-> probe_with(ExTools, probe_tesseract_langs("listed"))]
    /\ exStore = [entries |-> {}, tmps |-> {}]
    /\ exJob = [w \in ExWorkers |-> ExIdle] /\ exSweep = ExResting
    /\ exWork \in {[kind |-> "cache", may |-> {"tools"}], [kind |-> "cache", may |-> {"sweep"}], RtfBegun} \cup {Spawned(t) : t \in BOOLEAN} \cup {ZipBegun(a) : a \in ExArchives}
                  \cup {OcrBegun(s) : s \in ExScans} \cup {ImageBegun(i, m) : i \in ExImages, m \in {0, 2}}

ExNext ==
    \/ \E w \in ExWorkers : cache_get(w) \/ ExExtracts(w) \/ PutBegins(w) \/ PutEnds(w) \/ \E k \in ExKinds : ExBegins(w, k)
    \/ Outside \/ Restarts \/ SweepWalks \/ SweepEvicts \/ SweepEnds
    \/ ChildSteps \/ KinSteps \/ RunnerWaits \/ RunnerJoins
    \/ RtfTurn \/ ZipSteps \/ OcrPage \/ OcrEnds \/ ImageSteps

ExSpec == ExInit /\ [][ExNext]_exVars

ExTypeOK ==
    /\ exDisk \in [ver : 1 .. ExWrites, clock : 0 .. ExClock, boots : 1 .. ExBoots, caps : SUBSET ExTools]
    /\ \A w \in ExWorkers : exJob[w].pc \in {"idle", "keyed", "missed", "read", "tmp", "done"}
    /\ exSweep.pc \in {"idle", "evicts"} /\ exSweep.gone \subseteq exSweep.list
    /\ exWork.kind \in {"cache", "run", "rtf", "zip", "ocr", "image"}

--------------------------------------------------------------------------------
(* Properties *)

\* A finished extraction returns the whole text of a version the file had since
\* it was asked, made by the engine the daemon would use now: not by the tools
\* of an earlier start, and not half of another worker's entry, whatever the
\* sweep removed meanwhile.
TextIsCurrent ==
    \A w \in ExWorkers : exJob[w].pc = "done" =>
        /\ exJob[w].text.ver \in exJob[w].since .. exDisk.ver
        /\ exJob[w].text.engine = extractor_for_ext(exJob[w].kind.ext, exDisk.caps)

\* When the sweep has ended, what it kept of its list fits the limit unless a
\* file could not be removed, nothing it evicted was younger than what it kept,
\* and it evicted no more than it had to.
SweepIsFair ==
    exSweep.pc = "idle" =>
        LET kept == exSweep.list \ exSweep.gone
        IN  /\ exSweep.stuck = {} => Bytes(kept) =< ExCacheBytes
            /\ \A f \in exSweep.gone, g \in kept \ exSweep.stuck : f.at =< g.at
            /\ exSweep.gone # {} => Bytes(kept) + ExEntryBytes > ExCacheBytes

\* A run that returned holds no more than the cap, has removed its temporary
\* file, succeeds only with the converter, and after a timeout has left no
\* process of the converter's group behind.
RunsCleanUp ==
    exWork.kind = "run" =>
        /\ exWork.kept =< ExStreamBytes
        /\ exWork.pc = "returned" =>
               /\ ~exWork.temp /\ (exWork.result = "text") = (exWork.child = "ok")
               /\ exWork.timed => exWork.kin # "in"

\* The readers of untrusted formats end and stay within their limits: the RTF
\* reader in so many turns per byte, the ZIP readers within the declared total
\* plus a byte per entry, and a text comes from one kind of part.
ReadersBounded ==
    /\ exWork.kind = "rtf" =>
           /\ exWork.turns =< (ExRtf.input + 1) * (ExRtf.stuck + 1)
           /\ exWork.out =< ExRtf.out /\ (exWork.pc # "error" => exWork.depth =< ExRtf.depth)
    /\ exWork.kind = "zip" =>
           /\ exWork.read =< ExZip.total + Len(exWork.zip)
           /\ exWork.out =< ExZip.out /\ Cardinality(exWork.from) =< 1

\* An OCR run that ends returns every page with text up to the limit, in order,
\* and says there is none only when there is none; its directory is removed.
\* Runs cut across a change of digits never get that far (see PagesAreFound).
PagesInOrder ==
    exWork.kind = "ocr" /\ exWork.pc # "pages" =>
        /\ ~exWork.dir
        /\ exWork.pc \in {"text", "none"} =>
               /\ \A i \in 1 .. Len(exWork.out) - 1 : exWork.out[i] < exWork.out[i + 1]
               /\ {exWork.out[i] : i \in 1 .. Len(exWork.out)} = exWork.scan.texts \cap 1 .. OcrLimit(exWork.scan)
               /\ (exWork.pc = "none") = (exWork.out = <<>>)

\* The check before the queue drops no image the worker would have read: the two
\* look at the sides apart from each other.
NothingDroppedEarly == exWork.kind = "image" /\ exWork.pc = "text" => ~image_too_small(exWork.image, exWork.min)

ExtractionSound == NothingDroppedEarly /\ TextIsCurrent /\ SweepIsFair /\ RunsCleanUp /\ ReadersBounded /\ PagesInOrder

\* ocr.rs:280 "Mirror that rule so the tesseract read step finds the file
\* pdftoppm actually wrote": refuted, the rule is applied to the limit and not
\* to the number of pages.
PagesAreFound == exWork.kind = "ocr" /\ exWork.pc = "error" => exWork.failed

\* shell.rs:102 "Killing the child closes the pipes, so the worker threads will
\* return": refuted, a process that left the group keeps them open.
KillClosesPipes == exWork.kind = "run" /\ exWork.timed => ~exWork.pipe
================================================================================
