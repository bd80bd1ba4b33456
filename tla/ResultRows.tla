------------------------------ MODULE ResultRows ------------------------------
(***************************************************************************)
(* The rows of the launcher's result list and what they set going: the     *)
(* recycled row widgets with their menus and popovers, the loader of their *)
(* icons, the status bar under them, and the processes their actions       *)
(* start, which a thread reaps.                                            *)
(*                                                                         *)
(* Everything but the icon loader and the reaper runs on the GTK thread.   *)
(* GTK decides which row shows which item of the model, and rebinds rows   *)
(* inside every change of the model; a document is never in two rows.      *)
(***************************************************************************)
EXTENDS Integers, Sequences, FiniteSets, SequencesExt

CONSTANTS
    RwRows,        \* row widgets of the pool
    RwHit,         \* [document -> its hit]
    RwMenuOf,      \* [source instance -> what its row menu declares]
    RwAnswers,     \* answers of a search: the documents in order, the top hit
    RwMaxAnswers,  \* bound: answers shown in a session
    RwMaxPopovers, \* bound: popovers mapped at a time
    RwIcons,       \* [icon file -> whether it can be decoded]
    RwMaxQueue,    \* bound: requests waiting for the icon loader
    RwActions,     \* the actions of the hits, and the system they meet
    RwChildren,    \* processes the launcher may start
    RwMaxShown,    \* bound: changes of the status bar
    RwTexts,       \* titles, by the letters every character folds to
    RwTokens,      \* tokens of a query, folded
    RwLists,       \* lists of categories, as the rows show them
    RwScenes       \* which of these move in a behaviour

RwNone == "none"
RwDocs == DOMAIN RwHit

\* A recorded type wins over the guess from the file's name.
openwith_mime_for_hit(h) ==
    CASE h.mime # RwNone -> h.mime
      [] h.mime = RwNone /\ h.path -> "guess"
      [] OTHER -> RwNone

\* "none" stands for nothing and for none of the things.  An answer holds a
\* document once; only the sources of files offer "openwith", and a file has a
\* path.
ASSUME RwAssumption ==
    /\ RwNone \notin RwRows \cup RwDocs \cup DOMAIN RwIcons \cup RwChildren /\ "notify" \notin RwChildren
    /\ \A d \in RwDocs :
            /\ RwHit[d].source # RwNone /\ RwHit[d].path \in BOOLEAN /\ RwHit[d].secondary \in BOOLEAN
            /\ RwMenuOf[RwHit[d].source].conditional \in BOOLEAN
            /\ "openwith" \in RwMenuOf[RwHit[d].source].verbs => openwith_mime_for_hit(RwHit[d]) # RwNone
    /\ \A a \in RwAnswers : a.docs \in Seq(RwDocs) /\ IsInjective(a.docs)
    /\ RwMaxAnswers \in Nat /\ RwMaxQueue \in Nat /\ RwMaxShown \in Nat
    /\ RwTexts \subseteq Seq(Seq(Int)) /\ RwTokens \subseteq Seq(Int) /\ RwLists \subseteq Seq(Int)

VARIABLES rwMay, rwList, rwSlot, rwRegistry, rwPopovers, rwIcon, rwBar, rwKids

rwVars == <<rwMay, rwList, rwSlot, rwRegistry, rwPopovers, rwIcon, rwBar, rwKids>>

--------------------------------------------------------------------------------
(***************************************************************************)
(* Rows.                                                                   *)
(***************************************************************************)

\* The verbs a menu offers: the source's own, save "openwith", which is the
\* row's submenu, and the host's two under a menu that is not empty.
menu_for_key(source) ==
    LET verbs == RwMenuOf[source].verbs
    IN  (verbs \ {"openwith"}) \cup (IF verbs = {} THEN {} ELSE {"hide", "reset"})

menu_openwith_label(source) == "openwith" \in RwMenuOf[source].verbs

menu_has_conditional_secondary(source) == RwMenuOf[source].conditional

RowState ==
    [item |-> RwNone, doc |-> RwNone, key |-> RwNone, mime |-> RwNone, shown |-> RwNone, tip |-> RwNone,
     caption |-> FALSE, section |-> {}, openwith |-> FALSE, apps |-> RwNone, secondary |-> TRUE, hero |-> FALSE]

\* The row has lost its item: late gestures find no document.
ItemCleared_keeps_doc(s) == [s EXCEPT !.tip = RwNone, !.key = RwNone, !.secondary = FALSE]
ItemCleared(s) ==
    [s EXCEPT !.tip = RwNone, !.doc = RwNone, !.key = RwNone, !.secondary = FALSE]

\* The menu is rebuilt when the source changes, the submenu when the type does.
MenuSwapped(s, h) ==
    IF s.key = h.source THEN s
    ELSE [s EXCEPT !.section = menu_for_key(h.source), !.openwith = menu_openwith_label(h.source), !.mime = RwNone]

populate_openwith_once(s, h) ==
    LET mime == openwith_mime_for_hit(h)
    IN  IF menu_openwith_label(h.source) /\ s.mime = RwNone THEN [s EXCEPT !.apps = mime, !.mime = mime] ELSE s
populate_openwith(s, h) ==
    LET mime == openwith_mime_for_hit(h)
    IN  IF menu_openwith_label(h.source) /\ mime # s.mime THEN [s EXCEPT !.apps = mime, !.mime = mime] ELSE s

\* A document that is not among the cached hits leaves the row as it was.
ItemSet(s, d) ==
    LET h == RwHit[d]
        t == populate_openwith(MenuSwapped(s, h), h)
    IN  IF d \notin rwList.hits THEN s
        ELSE [t EXCEPT !.shown = d, !.tip = IF h.path THEN d ELSE RwNone, !.caption = d = rwList.top,
                       !.secondary = menu_has_conditional_secondary(h.source) => h.secondary,
                       !.doc = d, !.key = h.source]

\* A row leaves its item: the decoration of the top hit comes off.
Undressed(s) == [s EXCEPT !.hero = FALSE]

apply_top_hit_styling(s, d) == [s EXCEPT !.hero = d = rwList.top]

\* The registry forgets the document a row answered for, and learns the new one.
Answers_adds(registry, r, old, new) ==
    IF new = RwNone THEN [registry EXCEPT ![old] = RwNone] ELSE [registry EXCEPT ![new] = r]
Answers(registry, r, old, new) ==
    [d \in RwDocs |-> CASE d = new -> r
                        [] d = old /\ d # new -> RwNone
                        [] OTHER -> registry[d]]

Items == {rwSlot[r].item : r \in RwRows} \ {RwNone}

GtkUnbinds(r) ==
    /\ rwSlot[r].item # RwNone
    /\ rwSlot' = [rwSlot EXCEPT ![r] = ItemCleared([Undressed(@) EXCEPT !.item = RwNone])]
    /\ rwRegistry' = Answers(rwRegistry, r, rwSlot[r].doc, RwNone)
    /\ UNCHANGED <<rwList, rwPopovers>>

GtkBinds(r) ==
    \E d \in ToSet(rwList.model) \ Items :
        LET s == ItemSet([Undressed(rwSlot[r]) EXCEPT !.item = d], d)
        IN  /\ rwSlot' = [rwSlot EXCEPT ![r] = apply_top_hit_styling(s, d)]
            /\ rwRegistry' = IF d \in rwList.hits THEN Answers(rwRegistry, r, rwSlot[r].doc, d) ELSE rwRegistry
            /\ UNCHANGED <<rwList, rwPopovers>>

\* GTK rebinds inside a change of the model: the code resumes afterwards.
Settled == Items \subseteq ToSet(rwList.model)
RwIdle == rwList.doing = RwNone /\ Settled

update_results ==
    \E a \in RwAnswers :
        /\ RwIdle /\ rwList.answers < RwMaxAnswers
        /\ rwList' = [rwList EXCEPT !.doing = "update", !.left = a.docs, !.next = a.top, !.answers = @ + 1]
        /\ UNCHANGED <<rwSlot, rwRegistry, rwPopovers>>

\* An emptied entry drops the hits first and the rows afterwards.
EntryEmptied ==
    /\ RwIdle /\ rwList.model # <<>>
    /\ rwList' = [rwList EXCEPT !.doing = "clear", !.hits = {}, !.top = RwNone]
    /\ UNCHANGED <<rwSlot, rwRegistry, rwPopovers>>

\* The rows go one by one.
RemoveRow ==
    /\ rwList.doing # RwNone /\ rwList.doing # "append" /\ Settled /\ rwList.model # <<>>
    /\ rwList' = [rwList EXCEPT !.model = Tail(@)]
    /\ UNCHANGED <<rwSlot, rwRegistry, rwPopovers>>

\* The last row is gone.  An answer's hits are cached before its rows come.
RowsGone_keeps_hits(list) ==
    IF list.doing # "update" THEN [list EXCEPT !.doing = RwNone, !.hits = {}, !.top = RwNone]
    ELSE [list EXCEPT !.doing = "append", !.next = RwNone, !.top = list.next]
RowsGone(list) ==
    IF list.doing # "update" THEN [list EXCEPT !.doing = RwNone, !.hits = {}, !.top = RwNone]
    ELSE [list EXCEPT !.doing = "append", !.hits = ToSet(list.left), !.next = RwNone, !.top = list.next]

cache_hits ==
    /\ rwList.doing \in {"update", "clear", "scrub"} /\ Settled /\ rwList.model = <<>>
    /\ rwList' = RowsGone(rwList)
    /\ UNCHANGED <<rwSlot, rwRegistry, rwPopovers>>

AppendNext ==
    /\ rwList.doing = "append" /\ Settled
    /\ rwList' = IF rwList.left = <<>> THEN [rwList EXCEPT !.doing = RwNone]
                 ELSE [rwList EXCEPT !.model = Append(@, Head(rwList.left)), !.left = Tail(@)]
    /\ UNCHANGED <<rwSlot, rwRegistry, rwPopovers>>

is_synthetic_doc_id(d) == RwHit[d].synthetic # RwNone

\* A verb of a row acts on the document of its state, through the cached hits.
HitOf(r) == IF rwSlot[r].doc \in rwList.hits THEN rwSlot[r].doc ELSE RwNone

row_hide(r) ==
    LET d == rwSlot[r].doc
    IN  /\ RwIdle /\ d # RwNone /\ ~is_synthetic_doc_id(d)
        /\ rwList' = [rwList EXCEPT !.model = RemoveFirst(@, d), !.hits = @ \ {d}]
        /\ UNCHANGED <<rwSlot, rwRegistry, rwPopovers>>

\* A double click opens the hit; the launcher then drops its rows and hides,
\* unless the row asks for more results or the hit could not be opened.
double_click(r) ==
    /\ RwIdle /\ HitOf(r) # RwNone /\ RwHit[HitOf(r)].synthetic # "more"
    /\ rwList' = [rwList EXCEPT !.doing = "scrub"]
    /\ UNCHANGED <<rwSlot, rwRegistry, rwPopovers>>

\* Popovers are counted as they are mapped, whoever closes them.
Mapped(p) ==
    IF p \in rwPopovers.mapped THEN rwPopovers
    ELSE [mapped |-> rwPopovers.mapped \cup {p}, open |-> rwPopovers.open + 1]

row_info(r) ==
    /\ RwIdle /\ Cardinality(rwPopovers.mapped) < RwMaxPopovers /\ HitOf(r) # RwNone
    /\ rwPopovers' = Mapped(<<r, "info">>)
    /\ UNCHANGED <<rwList, rwSlot, rwRegistry>>

\* By the pointer on any row, and by the keyboard through the registry.
row_menu(r) ==
    /\ RwIdle /\ Cardinality(rwPopovers.mapped) < RwMaxPopovers
    /\ \/ rwSlot[r].item # RwNone
       \/ \E d \in RwDocs : rwRegistry[d] = r
    /\ rwPopovers' = Mapped(<<r, "menu">>)
    /\ UNCHANGED <<rwList, rwSlot, rwRegistry>>

PopoverUnmapped_uncounted(p) == [mapped |-> rwPopovers.mapped \ {p}, open |-> rwPopovers.open]
PopoverUnmapped(p) ==
    [mapped |-> rwPopovers.mapped \ {p}, open |-> IF rwPopovers.open = 0 THEN 0 ELSE rwPopovers.open - 1]

PopoverCloses ==
    \E p \in rwPopovers.mapped :
        /\ RwIdle
        /\ rwPopovers' = PopoverUnmapped(p)
        /\ UNCHANGED <<rwList, rwSlot, rwRegistry>>

RowsStep ==
    \/ update_results \/ EntryEmptied \/ RemoveRow \/ cache_hits \/ AppendNext \/ PopoverCloses
    \/ \E r \in RwRows : \/ GtkUnbinds(r) \/ GtkBinds(r) \/ row_hide(r)
                         \/ double_click(r) \/ row_info(r) \/ row_menu(r)

--------------------------------------------------------------------------------
(***************************************************************************)
(* Icons: textures are decoded on a thread, once per file and size.        *)
(***************************************************************************)

\* The texture of a file, or nothing while it is asked for.
Asked(icon, k) ==
    IF icon.texture[k] = "absent" THEN [icon EXCEPT !.queue = Append(@, k)] ELSE icon

resolve_icon(k) ==
    /\ Len(rwIcon.queue) < RwMaxQueue
    /\ k \notin rwIcon.paintable
    /\ rwIcon' = IF rwIcon.texture[k] = "loaded" THEN [rwIcon EXCEPT !.paintable = @ \cup {k}]
                 ELSE Asked(rwIcon, k)

\* Another request may have filled the slot in the meantime.
AlreadyThere_not(k) == FALSE
AlreadyThere(k) == rwIcon.texture[k] # "absent"

icon_loader_takes ==
    /\ rwIcon.loading = RwNone /\ rwIcon.queue # <<>>
    /\ LET k == Head(rwIcon.queue)
       IN  rwIcon' = [rwIcon EXCEPT !.queue = Tail(@), !.loading = IF AlreadyThere(k) THEN RwNone ELSE k,
                                    !.decoded[k] = IF AlreadyThere(k) THEN @ ELSE @ + 1]

\* A file that cannot be decoded is remembered too; the main loop is told.
icon_loader_stores ==
    /\ rwIcon.loading # RwNone
    /\ rwIcon' = [rwIcon EXCEPT !.texture[rwIcon.loading] = IF RwIcons[rwIcon.loading] THEN "loaded" ELSE "bad",
                                !.loading = RwNone, !.ready = Append(@, rwIcon.loading)]

\* The filter is asked again: no item comes or goes, so no row is rebound.
icon_ready ==
    /\ rwIcon.ready # <<>>
    /\ rwIcon' = [rwIcon EXCEPT !.ready = Tail(@)]

IconsStep == (\E k \in DOMAIN RwIcons : resolve_icon(k)) \/ icon_loader_takes \/ icon_loader_stores \/ icon_ready

--------------------------------------------------------------------------------
(***************************************************************************)
(* The status bar: a toast goes by itself, everything else stays.          *)
(***************************************************************************)

\* Whatever is shown, the bar is cleared first and its epoch moves on.
StatusClear_same_epoch(bar) == bar
StatusClear(bar) == [bar EXCEPT !.epoch = @ + 1]

status_show(what) ==
    /\ rwBar.changes < RwMaxShown
    /\ rwBar' = [StatusClear(rwBar) EXCEPT !.content = what, !.visible = TRUE, !.changes = @ + 1]

show_toast ==
    /\ rwBar.changes < RwMaxShown
    /\ LET bar == StatusClear(rwBar)
       IN  rwBar' = [bar EXCEPT !.content = "toast", !.visible = TRUE, !.changes = @ + 1,
                                !.timers = Append(@, bar.epoch)]

\* The timers run for the same time: they end in the order they began.
ToastEnds ==
    /\ rwBar.timers # <<>>
    /\ LET mine == Head(rwBar.timers) = rwBar.epoch
       IN  rwBar' = [rwBar EXCEPT !.timers = Tail(@), !.visible = @ /\ ~mine,
                                  !.expired = IF mine THEN rwBar.content ELSE @]

status_hide ==
    /\ rwBar.visible
    /\ rwBar' = [rwBar EXCEPT !.visible = FALSE]

StatusStep == (\E what \in {"spinner", "empty", "error", "hints"} : status_show(what)) \/ show_toast \/ ToastEnds \/ status_hide

--------------------------------------------------------------------------------
(***************************************************************************)
(* What a hit sets going, and the thread that reaps it.                    *)
(***************************************************************************)

\* A desktop entry is launched by GIO; a terminal, a bare command and xdg-open
\* are spawned; the file manager is called, with xdg-open as the way out.
dispatch_action(a) ==
    CASE a.kind = "launch" /\ ~a.terminal /\ a.entry -> "gio"
      [] a.kind \in {"launch", "exec"} /\ ~(a.kind = "launch" /\ ~a.terminal /\ a.entry) ->
            IF a.argv = 0 THEN "error" ELSE "spawn"
      [] a.kind = "reveal" -> IF a.folder \/ ~a.manager THEN "spawn" ELSE "called"
      [] a.kind = "embedded" -> IF a.extracted THEN "spawn" ELSE "error"
      [] a.kind \in {"file", "uri"} -> "spawn"
      [] a.kind = "copy" -> "clipboard"
      [] a.kind \in {"replace", "capture"} -> "nothing"

\* A hit is opened.  The child runs before the reaper knows of it.
Untold(c) == rwKids.child[c] = "new"
execute_action ==
    \E a \in RwActions :
        \/ /\ dispatch_action(a) = "spawn"
           /\ \E c \in RwChildren :
                /\ Untold(c) /\ rwKids.pushing = RwNone
                /\ rwKids' = [rwKids EXCEPT !.child[c] = "running", !.pushing = c]
        \* the program is not there: the caller says so
        \/ /\ dispatch_action(a) \in {"spawn", "error"}
           /\ rwKids.pushing = RwNone
           /\ rwKids' = [rwKids EXCEPT !.told = @ \cup {"caller"}]
        \/ /\ dispatch_action(a) \in {"gio", "called", "clipboard", "nothing"}
           /\ rwKids.pushing = RwNone
           /\ UNCHANGED rwKids

\* The child is pushed under the lock, and the sleeper woken afterwards.
spawn_reaped_pushes ==
    /\ rwKids.pushing \in RwChildren
    /\ rwKids' = [rwKids EXCEPT !.tracked = @ \cup {rwKids.pushing}, !.pushing = "notify"]

Woken_never(reaper) == reaper
Woken(reaper) == IF reaper \in {"parked", "dozing"} THEN "awake" ELSE reaper

spawn_reaped_notifies ==
    /\ rwKids.pushing = "notify"
    /\ rwKids' = [rwKids EXCEPT !.pushing = RwNone, !.reaper = Woken(@)]

ChildExits ==
    \E c \in RwChildren, how \in {"exited", "failed"} :
        /\ rwKids.child[c] = "running"
        /\ rwKids' = [rwKids EXCEPT !.child[c] = how]

\* With no child to look after the thread parks; otherwise it dozes.
ReaperSleeps ==
    /\ rwKids.reaper = "loop"
    /\ rwKids' = [rwKids EXCEPT !.reaper = IF rwKids.tracked = {} THEN "parked" ELSE "dozing"]

\* The doze is over; a condition variable may also wake for nothing.
ReaperWakes ==
    /\ rwKids.reaper = "dozing"
    /\ rwKids' = [rwKids EXCEPT !.reaper = "awake"]

\* Those that have ended are waited for and let go; a failure is passed on.
Ended == {c \in rwKids.tracked : rwKids.child[c] \in {"exited", "failed"}}
Passed_not(c) == FALSE
Passed(c) == rwKids.child[c] = "failed"
ReaperSweeps ==
    /\ rwKids.reaper = "awake"
    /\ rwKids' = [rwKids EXCEPT
            !.reaper = "loop", !.tracked = @ \ Ended,
            !.failures = @ \cup {c \in Ended : Passed(c)},
            !.child = [c \in RwChildren |-> IF c \in Ended THEN "reaped" ELSE rwKids.child[c]],
            !.failed = @ \cup {c \in Ended : rwKids.child[c] = "failed"}]

\* The main loop turns a failure into a notification.
FailureNotified ==
    \E c \in rwKids.failures :
        rwKids' = [rwKids EXCEPT !.failures = @ \ {c}, !.told = @ \cup {c}]

LaunchStep ==
    \/ execute_action \/ spawn_reaped_pushes \/ spawn_reaped_notifies \/ ChildExits
    \/ ReaperSleeps \/ ReaperWakes \/ ReaperSweeps \/ FailureNotified

--------------------------------------------------------------------------------
(***************************************************************************)
(* Pure parts: the highlight of a title and the jump between categories.   *)
(***************************************************************************)

\* The folded text, every letter with the character it came from.
fold_with_map(text) ==
    FlattenSeq([i \in 1 .. Len(text) |-> [j \in 1 .. Len(text[i]) |-> [letter |-> text[i][j], from |-> i]]])

FindFrom(folded, token, from) ==
    {p \in from .. Len(folded) - Len(token) + 1 :
        \A j \in 1 .. Len(token) : folded[p + j - 1].letter = token[j]}

\* Mutant: positions of the folded text are taken for positions of the title.
highlight_ranges_folded(text, token) ==
    LET folded == fold_with_map(text)
        found == FindFrom(folded, token, 1)
        p == CHOOSE q \in found : \A q2 \in found : q <= q2
    IN  IF token = <<>> \/ found = {} THEN <<>> ELSE <<<<p, p + Len(token) - 1>>>>

\* The characters a token covers, match after match, none overlapping.
highlight_ranges(text, token) ==
    LET folded == fold_with_map(text)
        scan[from \in 1 .. Len(folded) + 1] ==
            LET found == FindFrom(folded, token, from)
                p == CHOOSE q \in found : \A q2 \in found : q <= q2
            IN  IF found = {} THEN <<>>
                ELSE <<<<folded[p].from, folded[p + Len(token) - 1].from>>>> \o scan[p + Len(token)]
    IN  IF token = <<>> THEN <<>> ELSE scan[1]

\* Mutant: the jump ends at the last category instead of going round.
next_category_target_clamped(rows, current, direction) ==
    LET other == {i \in 1 .. Len(rows) : (rows[i] - rows[current]) * direction > 0}
    IN  IF other = {} THEN current ELSE CHOOSE i \in other : \A j \in other : (rows[i] - rows[j]) * direction < 0 \/ (rows[i] = rows[j] /\ i <= j)

\* The first row of the next category that is present, in a fixed order.
next_category_target(rows, current, direction) ==
    LET present == ToSet(rows)
        here == rows[IF current > Len(rows) THEN Len(rows) ELSE current]
        rank(c) == Cardinality({p \in present : p < c})
        next == CHOOSE c \in present : rank(c) = (rank(here) + direction) % Cardinality(present)
    IN  IF rows = <<>> \/ Cardinality(present) < 2 THEN 0
        ELSE CHOOSE i \in 1 .. Len(rows) : rows[i] = next /\ \A j \in 1 .. i - 1 : rows[j] # next

--------------------------------------------------------------------------------
RwInit ==
    /\ rwMay \in RwScenes
    /\ rwList = [model |-> <<>>, hits |-> {}, top |-> RwNone, doing |-> RwNone, left |-> <<>>, next |-> RwNone,
                 answers |-> 0]
    /\ rwSlot = [r \in RwRows |-> RowState]
    /\ rwRegistry = [d \in RwDocs |-> RwNone]
    /\ rwPopovers = [mapped |-> {}, open |-> 0]
    /\ rwIcon = [texture |-> [k \in DOMAIN RwIcons |-> "absent"], queue |-> <<>>, loading |-> RwNone,
                 ready |-> <<>>, paintable |-> {}, decoded |-> [k \in DOMAIN RwIcons |-> 0]]
    /\ rwBar = [epoch |-> 0, content |-> RwNone, visible |-> FALSE, timers |-> <<>>, changes |-> 0, expired |-> RwNone]
    /\ rwKids = [child |-> [c \in RwChildren |-> "new"], tracked |-> {}, reaper |-> "loop", pushing |-> RwNone,
                 failures |-> {}, failed |-> {}, told |-> {}]

RwNext ==
    /\ UNCHANGED rwMay
    /\ \/ rwMay = "rows" /\ RowsStep /\ UNCHANGED <<rwIcon, rwBar, rwKids>>
       \/ rwMay = "icons" /\ IconsStep /\ UNCHANGED <<rwList, rwSlot, rwRegistry, rwPopovers, rwBar, rwKids>>
       \/ rwMay = "status" /\ StatusStep /\ UNCHANGED <<rwList, rwSlot, rwRegistry, rwPopovers, rwIcon, rwKids>>
       \/ rwMay = "launch" /\ LaunchStep /\ UNCHANGED <<rwList, rwSlot, rwRegistry, rwPopovers, rwIcon, rwBar>>

RwSpec == RwInit /\ [][RwNext]_rwVars

--------------------------------------------------------------------------------
(***************************************************************************)
(* Properties.                                                             *)
(***************************************************************************)

\* Every variable has its type.
RwTypeOK ==
    /\ rwMay \in RwScenes
    /\ ToSet(rwList.model) \subseteq RwDocs /\ rwList.hits \subseteq RwDocs
    /\ rwList.doing \in {RwNone, "update", "append", "clear", "scrub"} /\ rwList.answers \in 0 .. RwMaxAnswers
    /\ \A r \in RwRows : /\ {rwSlot[r].item, rwSlot[r].doc, rwSlot[r].shown, rwSlot[r].tip} \subseteq RwDocs \cup {RwNone}
                         /\ rwSlot[r].hero \in BOOLEAN /\ rwSlot[r].secondary \in BOOLEAN
    /\ rwRegistry \in [RwDocs -> RwRows \cup {RwNone}]
    /\ rwPopovers.mapped \subseteq RwRows \X {"info", "menu"}
    /\ rwIcon.texture \in [DOMAIN RwIcons -> {"absent", "loaded", "bad"}] /\ Len(rwIcon.queue) <= RwMaxQueue
    /\ rwBar.changes \in 0 .. RwMaxShown /\ rwKids.tracked \subseteq RwChildren

\* Whatever order GTK recycles the rows in, once the list rests a row shows,
\* describes and acts on the one hit it is bound to: labels, path, caption and
\* hero of the top hit, the menu of its source, the applications of its type,
\* and "secondary" exactly where the source allows it.
RowsAreTheirHits ==
    RwIdle => \A r \in RwRows : rwSlot[r].item # RwNone =>
        LET s == rwSlot[r]
            h == RwHit[s.item]
        IN  /\ s.doc = s.item /\ s.shown = s.item /\ s.item \in rwList.hits
            /\ s.tip = (IF h.path THEN s.item ELSE RwNone)
            /\ s.hero = (s.item = rwList.top) /\ s.caption = s.hero
            /\ s.section = menu_for_key(h.source) /\ s.openwith = menu_openwith_label(h.source)
            /\ s.openwith => s.apps = openwith_mime_for_hit(h)
            /\ s.secondary = (menu_has_conditional_secondary(h.source) => h.secondary)

\* A row returned to the pool acts on nothing, and the keyboard's menus find
\* the row that shows a document and no other.
PoolRowsAreInert ==
    RwIdle => /\ \A r \in RwRows : rwSlot[r].item = RwNone => rwSlot[r].doc = RwNone /\ rwSlot[r].tip = RwNone
              /\ \A d \in RwDocs, r \in RwRows : rwRegistry[d] = r <=> rwSlot[r].item = d

\* The focus may leave to a popover of a row: it is counted as long as it is
\* mapped, or the launcher hides under it or never hides again.
PopoversCounted == rwPopovers.open = Cardinality(rwPopovers.mapped)

\* However often rows ask for an icon, its file is decoded once, a file that
\* cannot be decoded included, and what is painted has been decoded.
IconsDecodedOnce ==
    \A k \in DOMAIN RwIcons : rwIcon.decoded[k] <= 1 /\ (k \in rwIcon.paintable => rwIcon.texture[k] = "loaded")

\* A toast's timer takes away its own toast and nothing shown after it.
OnlyToastsExpire == rwBar.expired \in {RwNone, "toast"}

\* A child that ends is reaped: the thread never parks for good while it has
\* one to look after.  One that fails is told of, by a notification.
ChildrenReaped ==
    /\ rwKids.reaper = "parked" => rwKids.tracked = {} \/ rwKids.pushing = "notify"
    /\ \A c \in RwChildren : rwKids.child[c] \in {"running", "exited", "failed"} =>
            c \in rwKids.tracked \/ rwKids.pushing = c
    /\ \A c \in rwKids.failed : c \in rwKids.failures \cup rwKids.told

\* A highlighted range is made of the whole characters a place of the token
\* covers, ranges come in order, and a token in the title is always found.
HighlightsTrue ==
    \A text \in RwTexts, token \in RwTokens :
        LET folded == fold_with_map(text)
            ranges == highlight_ranges(text, token)
        IN  /\ \A i \in 1 .. Len(ranges) :
                    \E p \in FindFrom(folded, token, 1) :
                        ranges[i] = <<folded[p].from, folded[p + Len(token) - 1].from>>
            /\ \A i \in 1 .. Len(ranges) - 1 : ranges[i][2] <= ranges[i + 1][1]
            /\ (ranges = <<>>) <=> (token = <<>> \/ FindFrom(folded, token, 1) = {})

\* Jumping forward visits the best row of every category and comes back to
\* where it began; jumping back undoes a jump.
JumpsCycle ==
    \A rows \in RwLists : \A i \in 1 .. Len(rows) :
        LET there == next_category_target(rows, i, 1)
            back == next_category_target(rows, there, -1)
        IN  there # 0 => /\ rows[there] # rows[i] /\ rows[back] = rows[i]
                         /\ \A j \in 1 .. there - 1 : rows[j] # rows[there]

\* The rows, their icons, the status bar and the processes started from them.
RowsSound ==
    /\ RowsAreTheirHits /\ PoolRowsAreInert /\ PopoversCounted
    /\ IconsDecodedOnce /\ OnlyToastsExpire /\ ChildrenReaped
    /\ HighlightsTrue /\ JumpsCycle

\* What does not hold: a menu that is open keeps the document it was opened
\* for.  A late answer may rebind the row under it.
MenuKeepsItsHit ==
    [][\A r \in RwRows : <<r, "menu">> \in rwPopovers.mapped /\ <<r, "menu">> \in rwPopovers'.mapped =>
            rwSlot'[r].item \in {rwSlot[r].item, RwNone}]_rwVars
================================================================================
