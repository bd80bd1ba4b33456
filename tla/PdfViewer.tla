----------------------------- MODULE PdfViewer -----------------------------
(***************************************************************************)
(* The PDF preview (lixun-preview-pdf): the main thread's DocumentSession, *)
(* canvas and search bar, and the thread of PopplerHost, which serves one  *)
(* queue of commands: render a page, find a text, change the path, end.    *)
(*                                                                         *)
(* A page has a texture per zoom bucket; a texture is remembered with the  *)
(* document it was rendered from.  While it looks for a text the host      *)
(* takes commands off the queue between two pages and does not put them    *)
(* back: pvLost remembers the kinds of command that were lost so.          *)
(***************************************************************************)
EXTENDS Integers, Sequences, FiniteSets

CONSTANTS PvPages,       \* the documents, each with its number of pages
          PvTopBucket,   \* the largest zoom bucket of a page of a document
          PvFound,       \* matches of the query on each page of a document
          PvFirst,       \* the document of the first preview
          PvFit,         \* the zoom at which a page of a document fits
          PvBudget,      \* CACHE_BUDGET_BYTES (a texture of bucket b has b bytes)
          PvSingle,      \* MAX_SINGLE_ENTRY_BYTES
          PvSlots,       \* entries the LRU cache holds
          PvScenes,      \* bound: what a user does in one behaviour, a set of sets
          PvQueueMax,    \* bound on the commands waiting when a page is drawn
          PvReplaceMax,  \* bound on the hits previewed after the first
          PvTypeMax      \* bound on the queries typed

PvDocs == DOMAIN PvPages
PvBuckets == 1 .. 2

ASSUME PvBounds == PvSlots > 0 /\ PvSingle <= PvBudget /\ PvFirst \in PvDocs

VARIABLES pvSess,    \* the session: document, epoch, pages being rendered
          pvCache,   \* its textures, the most recently used first, and bytes counted
          pvView,    \* page in sight, page counted as current, whether the page entry
                     \* has the focus, zoom, selection, "up" or "closing"
          pvFind,    \* the query state of the search bar and what the canvas marks
          pvQueue,   \* commands sent to the host
          pvHost,    \* the host: path, epoch, generation, open document, scan
          pvDone,    \* render results on their way to the canvas
          pvHits,    \* page search results on their way to the bar
          pvLost     \* kinds of command a scan took and dropped

pvVars == <<pvSess, pvCache, pvView, pvFind, pvQueue, pvHost, pvDone, pvHits, pvLost>>

NPages == PvPages[pvSess.doc]
PageIds(d) == 0 .. PvPages[d] - 1
NoScan == [gen |-> 0, page |-> 0, n |-> 0]
NoSelection == <<>>
EmptyQuery(gen) ==
    [gen |-> gen, text |-> FALSE, results |-> {}, total |-> 0, finished |-> 0,
     current |-> <<>>, open |-> FALSE]

OpenedSession(d, epoch) == [doc |-> d, epoch |-> epoch, pending |-> {}]

SpawnedHost(d) ==
    [doc |-> d, epoch |-> 1, gen |-> 0, open |-> "none", scan |-> NoScan, alive |-> TRUE]

PvInit ==
    /\ pvSess = OpenedSession(PvFirst, 1)
    /\ pvCache = [lru |-> <<>>, bytes |-> 0]
    /\ \E scene \in PvScenes :
         pvView = [top |-> 0, page |-> 0, entry |-> FALSE, zoom |-> 1, sel |-> NoSelection,
                   at |-> "up", may |-> scene]
    /\ pvFind = EmptyQuery(0)
    /\ pvQueue = <<>>
    /\ pvHost = SpawnedHost(PvFirst)
    /\ pvDone = <<>> /\ pvHits = <<>> /\ pvLost = {}

----------------------------------------------------------------------------
(* The session's cache.                                                    *)

\* The largest bucket whose texture a page of this document may have.
canonical_bucket_for_page(b) ==
    IF b > PvTopBucket[pvSess.doc] THEN PvTopBucket[pvSess.doc] ELSE b

KeyOf(e) == <<e.page, e.bucket>>
Held(lru, key) == \E i \in 1 .. Len(lru) : KeyOf(lru[i]) = key
SumBytes(lru) ==
    LET f[i \in 0 .. Len(lru)] == IF i = 0 THEN 0 ELSE f[i - 1] + lru[i].bucket
    IN f[Len(lru)]
Others(lru, key) == SelectSeq(lru, LAMBDA e : KeyOf(e) # key)

\* get: the entry becomes the most recently used one.
get_cached(lru, key) ==
    IF Held(lru, key)
    THEN SelectSeq(lru, LAMBDA e : KeyOf(e) = key) \o Others(lru, key)
    ELSE lru

\* pop_lru until the bytes counted fit the budget or nothing is left.
Evicted(lru, bytes) ==
    LET Left(k) == bytes - (SumBytes(lru) - SumBytes(SubSeq(lru, 1, k)))
        fits == {k \in 0 .. Len(lru) : Left(k) <= PvBudget}
        keep == IF fits = {} THEN 0 ELSE CHOOSE k \in fits : \A j \in fits : j <= k
    IN [lru |-> SubSeq(lru, 1, keep), bytes |-> IF Left(keep) < 0 THEN 0 ELSE Left(keep)]

insert_cached_uncounted(cache, e) ==
    Evicted(<<e>> \o Others(cache.lru, KeyOf(e)), cache.bytes)

\* A cache that is full by number drops its oldest entry, whose bytes stay
\* counted: put returns an entry only when it had the same key.
insert_cached(cache, e) ==
    LET same == SelectSeq(cache.lru, LAMBDA x : KeyOf(x) = KeyOf(e))
        rest == Others(cache.lru, KeyOf(e))
        room == IF Len(rest) >= PvSlots THEN SubSeq(rest, 1, PvSlots - 1) ELSE rest
    IN IF e.bucket > PvSingle THEN cache
       ELSE Evicted(<<e>> \o room, cache.bytes - SumBytes(same) + e.bucket)

----------------------------------------------------------------------------
(* What the user does; the main thread runs one callback at a time.        *)

Up == pvView.at = "up"
Does(activity) == Up /\ activity \in pvView.may

\* DocumentSession::replace_path: the epoch is raised before anything is
\* swapped, textures and pages asked for are forgotten, the host is told.
SessionReplaced(d) ==
    /\ pvSess' = OpenedSession(d, pvSess.epoch + 1)
    /\ pvCache' = [lru |-> <<>>, bytes |-> 0]
    /\ pvQueue' = Append(pvQueue, [op |-> "path", doc |-> d, epoch |-> pvSess.epoch + 1])

replace_path_keeps_selection(d) ==
    /\ Up /\ pvSess.epoch <= PvReplaceMax /\ d # pvSess.doc
    /\ SessionReplaced(d)
    /\ pvView' = [pvView EXCEPT !.top = 0, !.page = 0, !.zoom = 1]
    /\ pvFind' = EmptyQuery(pvFind.gen + 1)
    /\ UNCHANGED <<pvHost, pvDone, pvHits, pvLost>>

\* update() with another PDF; a path that does not open changes nothing.
replace_path(d) ==
    /\ Up /\ pvSess.epoch <= PvReplaceMax /\ d # pvSess.doc
    /\ SessionReplaced(d)
    /\ pvView' = [pvView EXCEPT !.top = 0, !.page = 0, !.zoom = 1, !.sel = NoSelection]
    /\ pvFind' = EmptyQuery(pvFind.gen + 1)
    /\ UNCHANGED <<pvHost, pvDone, pvHits, pvLost>>

ViewOnly == UNCHANGED <<pvSess, pvCache, pvFind, pvQueue, pvHost, pvDone, pvHits, pvLost>>

\* The view at page p of the document, or its last page.  The page in sight
\* becomes the current one, unless the page entry has the focus.
recompute_current_page(v, p) ==
    [v EXCEPT !.top = p, !.page = IF v.entry THEN @ ELSE p]
scroll_to_page(v, p) ==
    recompute_current_page(v, IF p >= NPages THEN NPages - 1 ELSE p)

\* The wheel, the scroll bar, the assistive description: any page.
Scroll ==
    \E p \in PageIds(pvSess.doc) :
        /\ Does("scroll") /\ p # pvView.top
        /\ pvView' = recompute_current_page(pvView, p) /\ ViewOnly

\* Page Down and Page Up start from the current page.
page_keys ==
    /\ Does("scroll") /\ ViewOnly
    /\ \/ pvView' = scroll_to_page(pvView, pvView.page + 1)
       \/ pvView' = scroll_to_page(pvView, IF pvView.page = 0 THEN 0 ELSE pvView.page - 1)

\* What is typed names a page, clamped to the document, or nothing.
parse_page_input(n) == IF n < 1 THEN 1 ELSE IF n > NPages THEN NPages ELSE n

\* The page entry: focused; Enter goes to the page while the entry still has
\* the focus and gives it up; Escape gives it up.
page_entry ==
    /\ Does("scroll") /\ ViewOnly
    /\ \/ ~pvView.entry /\ pvView' = [pvView EXCEPT !.entry = TRUE]
       \/ /\ pvView.entry
          /\ \E n \in 0 .. 3 : pvView' =
                [scroll_to_page(pvView, parse_page_input(n) - 1) EXCEPT !.entry = FALSE]
       \/ pvView.entry /\ pvView' = [pvView EXCEPT !.entry = FALSE]

set_zoom(z) ==
    pvView' = [pvView EXCEPT !.zoom = IF z < 1 THEN 1 ELSE IF z > 2 THEN 2 ELSE z]

\* Keys and buttons: in, out, back to one.
zoom_keys ==
    /\ Does("zoom") /\ ViewOnly
    /\ set_zoom(pvView.zoom + 1) \/ set_zoom(pvView.zoom - 1) \/ set_zoom(1)

\* The wheel and the pinch keep the point under the pointer in its place.
apply_zoom_centered ==
    /\ Does("zoom") /\ ViewOnly
    /\ \E z \in PvBuckets \ {pvView.zoom} : set_zoom(z)

\* The fit buttons know the page size of the first document.
fit_buttons ==
    /\ Does("zoom") /\ ViewOnly
    /\ set_zoom(PvFit[PvFirst])

\* The pages GTK draws: the visible one and its neighbours.
Drawn == {p \in PageIds(pvSess.doc) : p \in pvView.top - 1 .. pvView.top + 1}

on_snapshot_asks_again(p) ==
    LET key == <<p, pvView.zoom>>
    IN /\ Does("look") /\ p \in Drawn /\ Len(pvQueue) < PvQueueMax
       /\ ~Held(pvCache.lru, key) /\ key \notin pvSess.pending
       /\ pvSess' = [pvSess EXCEPT !.pending = @ \cup {key}]
       /\ pvQueue' = Append(pvQueue, [op |-> "render", key |-> <<p, canonical_bucket_for_page(key[2])>>,
                                      epoch |-> pvSess.epoch])
       /\ UNCHANGED <<pvCache, pvView, pvFind, pvHost, pvDone, pvHits, pvLost>>

\* Drawing a page looks its texture up and asks for it when it is neither
\* cached nor already asked for.
on_snapshot(p) ==
    LET key == <<p, canonical_bucket_for_page(pvView.zoom)>>
        asks == ~Held(pvCache.lru, key) /\ key \notin pvSess.pending
    IN /\ Does("look") /\ p \in Drawn /\ Len(pvQueue) < PvQueueMax
       /\ pvCache' = [pvCache EXCEPT !.lru = get_cached(@, key)]
       /\ IF asks
          THEN /\ pvSess' = [pvSess EXCEPT !.pending = @ \cup {key}]
               /\ pvQueue' = Append(pvQueue, [op |-> "render", key |-> key, epoch |-> pvSess.epoch])
          ELSE UNCHANGED <<pvSess, pvQueue>>
       /\ UNCHANGED <<pvView, pvFind, pvHost, pvDone, pvHits, pvLost>>

on_render_result_any_epoch ==
    LET r == Head(pvDone)
        key == <<r.key[1], canonical_bucket_for_page(r.key[2])>>
    IN /\ Up /\ pvDone # <<>>
       /\ pvDone' = Tail(pvDone)
       /\ pvSess' = [pvSess EXCEPT !.pending = @ \ {key}]
       /\ pvCache' = IF r.doc # "none"
                     THEN insert_cached(pvCache, [page |-> key[1], bucket |-> key[2], doc |-> r.doc])
                     ELSE pvCache
       /\ UNCHANGED <<pvView, pvFind, pvQueue, pvHost, pvHits, pvLost>>

\* A result of another epoch only frees the slot of its page, whichever
\* document that slot is for by now; an error frees it too.
on_render_result ==
    LET r == Head(pvDone)
        key == <<r.key[1], canonical_bucket_for_page(r.key[2])>>
    IN /\ Up /\ pvDone # <<>>
       /\ pvDone' = Tail(pvDone)
       /\ pvSess' = [pvSess EXCEPT !.pending = @ \ {key}]
       /\ pvCache' = IF r.epoch = pvSess.epoch /\ r.doc # "none"
                     THEN insert_cached(pvCache, [page |-> key[1], bucket |-> key[2], doc |-> r.doc])
                     ELSE pvCache
       /\ UNCHANGED <<pvView, pvFind, pvQueue, pvHost, pvHits, pvLost>>

\* A drag starts a selection where it is pressed and its end follows the
\* pointer; a region keeps to the page it starts on.
Drag ==
    /\ Does("select") /\ ViewOnly
    /\ \/ \E p \in Drawn, m \in {"text", "region"} : pvView' = [pvView EXCEPT !.sel = <<p, p, m>>]
       \/ \E p \in Drawn : /\ pvView.sel # NoSelection
                           /\ pvView.sel[3] = "region" => p = pvView.sel[1]
                           /\ pvView' = [pvView EXCEPT !.sel[2] = p]

\* The pages of a selection in reading order, clipped to the document, and
\* those of which a copy takes the text or, of a region, the picture.
normalized_selection(s) == IF s[1] < s[2] THEN s[1] .. s[2] ELSE s[2] .. s[1]
selection_rect_for_page(s, p) == p \in normalized_selection(s) /\ p < NPages
collect_selected_text(s) == {p \in normalized_selection(s) : selection_rect_for_page(s, p)}
render_region_image(s) == IF s[1] = s[2] /\ s[1] < NPages THEN {s[1]} ELSE {}
snapshot_selection_overlay(s, p) ==
    IF s[3] = "text" THEN selection_rect_for_page(s, p) ELSE p = s[1]
Copied(s) == IF s[3] = "text" THEN collect_selected_text(s) ELSE render_region_image(s)

----------------------------------------------------------------------------
(* Searching in the document.                                              *)

\* flatten: a match is a page and its number on that page.
Flat(results) ==
    {m \in (0 .. 3) \X (0 .. 1) : \E r \in results : r.page = m[1] /\ m[2] < r.count}
Before(a, b) == a[1] < b[1] \/ (a[1] = b[1] /\ a[2] < b[2])
EarliestOf(ms) == CHOOSE m \in ms : \A x \in ms \ {m} : Before(m, x)
LatestOf(ms) == CHOOSE m \in ms : \A x \in ms \ {m} : Before(x, m)

\* The query changes: a new generation; the number of pages is the one the
\* first document had when the bar was wired.
query_changed(text) ==
    /\ Does("find") /\ pvFind.gen < PvTypeMax + PvReplaceMax
    /\ text \/ pvFind.text
    /\ pvFind' = [EmptyQuery(pvFind.gen + 1) EXCEPT !.text = text, !.open = TRUE]
    /\ pvQueue' = IF text THEN Append(pvQueue, [op |-> "find", gen |-> pvFind.gen + 1,
                                                n |-> PvPages[PvFirst]])
                  ELSE pvQueue
    /\ UNCHANGED <<pvSess, pvCache, pvView, pvHost, pvDone, pvHits, pvLost>>

merge_page_result_any(q, h) ==
    [q EXCEPT !.results = @ \cup {[page |-> h.page, count |-> h.count, doc |-> h.doc]},
              !.total = @ + h.count, !.finished = @ + 1,
              !.current = IF @ = <<>> THEN <<h.page, 0>> ELSE @]

\* One page's matches arrive; those of another generation are ignored.
merge_page_result(q, h) ==
    LET old == {r \in q.results : r.page = h.page}
        results == (q.results \ old) \cup (IF h.count = 0 THEN {} ELSE
                      {[page |-> h.page, count |-> h.count, doc |-> h.doc]})
        ms == Flat(results)
        was == IF old = {} THEN 0 ELSE (CHOOSE r \in old : TRUE).count
    IN IF h.gen # q.gen THEN q
       ELSE [q EXCEPT !.results = results, !.total = @ - was + h.count,
                      !.finished = @ + 1,
                      !.current = IF @ = <<>> /\ ms # {} THEN EarliestOf(ms) ELSE @]

page_result ==
    /\ Up /\ pvHits # <<>> /\ pvHits' = Tail(pvHits)
    /\ pvFind' = merge_page_result(pvFind, Head(pvHits))
    /\ UNCHANGED <<pvSess, pvCache, pvView, pvQueue, pvHost, pvDone, pvLost>>

\* The matches marked on a page.
snapshot_search_overlay(p) == {m \in Flat(pvFind.results) : m[1] = p}

\* The match comes into sight, if its page is one of the document.
scroll_to_match(v, m) == IF m[1] < NPages THEN recompute_current_page(v, m[1]) ELSE v

\* Next and previous match, round the end.
Stepped(q, forward) ==
    LET ms == Flat(q.results)
        after == {m \in ms : Before(q.current, m)}
        before == {m \in ms : Before(m, q.current)}
    IN IF forward THEN EarliestOf(IF after = {} THEN ms ELSE after)
                  ELSE LatestOf(IF before = {} THEN ms ELSE before)

advance(forward) ==
    LET to == Stepped(pvFind, forward)
    IN /\ Up /\ pvFind.results # {}
       /\ pvFind' = [pvFind EXCEPT !.current = to]
       /\ pvView' = scroll_to_match(pvView, to)
       /\ UNCHANGED <<pvSess, pvCache, pvQueue, pvHost, pvDone, pvHits, pvLost>>

\* Escape closes the bar, else it clears the selection.
close_requested ==
    /\ Up
    /\ \/ /\ pvFind.open /\ pvFind' = EmptyQuery(pvFind.gen + 1) /\ UNCHANGED pvView
       \/ /\ ~pvFind.open /\ pvView.sel # NoSelection
          /\ pvView' = [pvView EXCEPT !.sel = NoSelection] /\ UNCHANGED pvFind
    /\ UNCHANGED <<pvSess, pvCache, pvQueue, pvHost, pvDone, pvHits, pvLost>>

drop_host_without_word ==
    /\ Up /\ pvView' = [pvView EXCEPT !.at = "closing"]
    /\ UNCHANGED <<pvSess, pvCache, pvFind, pvQueue, pvHost, pvDone, pvHits, pvLost>>

\* The view is dropped: the main thread sends Shutdown and waits for the host.
drop_host ==
    /\ Up /\ pvView' = [pvView EXCEPT !.at = "closing"]
    /\ pvQueue' = Append(pvQueue, [op |-> "shutdown"])
    /\ UNCHANGED <<pvSess, pvCache, pvFind, pvHost, pvDone, pvHits, pvLost>>

----------------------------------------------------------------------------
(* The host.                                                               *)

Serves(op) ==
    /\ pvHost.alive /\ pvHost.scan = NoScan
    /\ pvQueue # <<>> /\ Head(pvQueue).op = op
    /\ pvQueue' = Tail(pvQueue)
    /\ UNCHANGED <<pvSess, pvCache, pvView, pvFind, pvLost>>

host_replace_keeps_document ==
    /\ Serves("path")
    /\ pvHost' = [pvHost EXCEPT !.doc = Head(pvQueue).doc, !.epoch = Head(pvQueue).epoch,
                                !.gen = @ + 1]
    /\ UNCHANGED <<pvDone, pvHits>>

host_replace ==
    /\ Serves("path")
    /\ pvHost' = [pvHost EXCEPT !.doc = Head(pvQueue).doc, !.epoch = Head(pvQueue).epoch,
                                !.gen = @ + 1, !.open = "none"]
    /\ UNCHANGED <<pvDone, pvHits>>

\* The document is opened when it is not; that may fail.
ensure_document_open == IF pvHost.open # "none" THEN {pvHost.open} ELSE {pvHost.doc, "none"}

host_render_errors_silent ==
    LET c == Head(pvQueue)
    IN /\ Serves("render")
       /\ IF c.epoch < pvHost.epoch THEN UNCHANGED <<pvHost, pvDone>>
          ELSE \E d \in ensure_document_open :
                 /\ pvHost' = [pvHost EXCEPT !.open = d]
                 /\ pvDone' = IF d = "none" THEN pvDone
                              ELSE Append(pvDone, [key |-> c.key, epoch |-> c.epoch, doc |-> d])
       /\ UNCHANGED pvHits

\* A job of an earlier epoch is dropped without an answer.
host_render ==
    LET c == Head(pvQueue)
    IN /\ Serves("render")
       /\ IF c.epoch < pvHost.epoch THEN UNCHANGED <<pvHost, pvDone>>
          ELSE \E d \in ensure_document_open :
                 /\ pvHost' = [pvHost EXCEPT !.open = d]
                 /\ pvDone' = Append(pvDone, [key |-> c.key, epoch |-> c.epoch,
                        doc |-> IF d # "none" /\ c.key[1] < PvPages[d] THEN d ELSE "none"])
       /\ UNCHANGED pvHits

host_find ==
    LET c == Head(pvQueue)
    IN /\ Serves("find")
       /\ \E d \in ensure_document_open :
            pvHost' = [pvHost EXCEPT !.open = d,
                         !.gen = IF c.gen > @ THEN c.gen ELSE @,
                         !.scan = IF d = "none" THEN NoScan
                                  ELSE [gen |-> c.gen, page |-> 0, n |-> c.n]]
       /\ UNCHANGED <<pvDone, pvHits>>

host_shutdown ==
    /\ Serves("shutdown")
    /\ pvHost' = [pvHost EXCEPT !.alive = FALSE]
    /\ UNCHANGED <<pvDone, pvHits>>

\* An idle host closes its document.
host_idle ==
    /\ pvHost.alive /\ pvHost.scan = NoScan /\ pvHost.open # "none" /\ pvQueue = <<>>
    /\ pvHost' = [pvHost EXCEPT !.open = "none"]
    /\ UNCHANGED <<pvSess, pvCache, pvView, pvFind, pvQueue, pvDone, pvHits, pvLost>>

\* One page of a scan: first a command is taken off the queue, if there is
\* one.  A new path, a newer search or a shutdown ends the scan; whatever
\* it was, nobody carries the command out.
find_scan ==
    LET s == pvHost.scan
        took == pvQueue # <<>>
        c == Head(pvQueue)
        ends == took /\ (c.op \in {"path", "shutdown"} \/ (c.op = "find" /\ c.gen > s.gen))
        over == ends \/ pvHost.gen # s.gen
    IN /\ pvHost.alive /\ s # NoScan
       /\ pvQueue' = IF took THEN Tail(pvQueue) ELSE pvQueue
       /\ pvLost' = IF took THEN pvLost \cup {c.op} ELSE pvLost
       /\ pvHost' = [pvHost EXCEPT
             !.gen = IF ends /\ c.op = "find" THEN c.gen ELSE @,
             !.scan = IF over \/ s.page + 1 >= s.n THEN NoScan ELSE [s EXCEPT !.page = @ + 1]]
       /\ pvHits' = IF over \/ s.page >= PvPages[pvHost.open] THEN pvHits
                    ELSE Append(pvHits, [gen |-> s.gen, page |-> s.page, doc |-> pvHost.open,
                                         count |-> PvFound[pvHost.open][s.page + 1]])
       /\ UNCHANGED <<pvSess, pvCache, pvView, pvFind, pvDone>>

HostStep ==
    \/ host_replace \/ host_render \/ host_find \/ host_shutdown \/ host_idle \/ find_scan

\* The search bar's entry, keys and buttons.
BarStep ==
    \/ \E text \in BOOLEAN : query_changed(text)
    \/ \E forward \in BOOLEAN : advance(forward)
    \/ close_requested

UserStep ==
    \/ \E d \in PvDocs : replace_path(d)
    \/ Scroll \/ page_keys \/ page_entry \/ zoom_keys \/ apply_zoom_centered \/ fit_buttons
    \/ Drag \/ drop_host
    \/ \E p \in Drawn : on_snapshot(p)
    \/ on_render_result \/ page_result \/ BarStep

PvNext == HostStep \/ UserStep

----------------------------------------------------------------------------
PvTypeOK ==
    /\ pvSess.doc \in PvDocs /\ pvSess.epoch \in 1 .. PvReplaceMax + 1
    /\ pvSess.pending \subseteq (0 .. 3) \X PvBuckets
    /\ \A i \in 1 .. Len(pvCache.lru) : pvCache.lru[i].doc \in PvDocs
    /\ pvCache.bytes \in Nat
    /\ pvView.page < NPages /\ pvView.top < NPages /\ pvView.entry \in BOOLEAN
    /\ pvView.zoom \in PvBuckets /\ pvView.may \in PvScenes /\ pvView.at \in {"up", "closing"}
    /\ pvFind.total \in Nat /\ pvFind.gen \in Nat
    /\ pvHost.doc \in PvDocs /\ pvHost.open \in PvDocs \cup {"none"}
    /\ pvLost \subseteq {"path", "render", "find", "shutdown"}

\* The texture drawn for a page is of the document being previewed, unless
\* a scan dropped the command with the new path: no result of an earlier
\* document gets into the cache, however late it comes and whatever the
\* host had open (canvas.rs on_render_result, poppler_host.rs).
PagesAreOfTheDocument ==
    "path" \notin pvLost =>
        \A i \in 1 .. Len(pvCache.lru) : pvCache.lru[i].doc = pvSess.doc

\* A page that waits for its texture is being rendered: its job is in the
\* queue or its result under way, for otherwise it would stay grey, being
\* never asked for again (submit_visible's dedup, clear_pending).
PendingIsRendered ==
    pvLost \cap {"render", "path"} = {} =>
        \A key \in pvSess.pending :
            \/ \E i \in 1 .. Len(pvQueue) :
                 pvQueue[i].op = "render" /\ pvQueue[i].key = key /\ pvQueue[i].epoch = pvSess.epoch
            \/ \E i \in 1 .. Len(pvDone) : pvDone[i].key = key /\ pvDone[i].epoch = pvSess.epoch

\* The textures kept fit the budget and every byte kept is counted
\* (insert_cached's accounting).
CacheFits ==
    /\ SumBytes(pvCache.lru) <= PvBudget
    /\ SumBytes(pvCache.lru) <= pvCache.bytes

\* The marks are of the text in the bar and the document shown; the counter
\* counts them and the current match is one of them, through late results,
\* closed bars and new documents (merge_page_result, reset_for_path).
MatchesAreCurrent ==
    LET q == pvFind
    IN /\ "path" \notin pvLost => \A r \in q.results : r.doc = pvSess.doc /\ q.text
       /\ q.total = Cardinality(Flat(q.results))
       /\ q.current = <<>> <=> q.results = {}
       /\ q.current # <<>> => q.current \in Flat(q.results)
       /\ "path" \notin pvLost =>
            Flat(q.results) = UNION {snapshot_search_overlay(p) : p \in PageIds(pvSess.doc)}

\* What is selected is in the document shown, and a copy takes the pages
\* that are highlighted, a region its one page (selection.rs,
\* region_image.rs, page_widget.rs).
SelectionInDocument ==
    LET s == pvView.sel
    IN s # NoSelection =>
         /\ {s[1], s[2]} \subseteq Copied(s)
         /\ Copied(s) = {p \in PageIds(pvSess.doc) : snapshot_selection_overlay(s, p)}

\* Closing the view waits for a host that has been told to end, unless a
\* scan dropped that word: then the main thread waits for ever.
CloseReturns ==
    pvView.at = "closing" =>
        \/ ~pvHost.alive \/ "shutdown" \in pvLost
        \/ \E i \in 1 .. Len(pvQueue) : pvQueue[i].op = "shutdown"

PdfSound ==
    /\ PagesAreOfTheDocument /\ PendingIsRendered /\ CacheFits
    /\ MatchesAreCurrent /\ SelectionInDocument /\ CloseReturns

----------------------------------------------------------------------------
(* What the comments say and the code does not do; see the README.         *)

\* "Stop the loop and let the thread join" (poppler_host.rs:85).
ShutdownIsHeard == "shutdown" \notin pvLost
\* "Bytes currently held in `cache`" (document_session.rs:141).
BytesAreOfTheCache == pvCache.bytes = SumBytes(pvCache.lru)
============================================================================
