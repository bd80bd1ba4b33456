---------------------------- MODULE LauncherWindow ----------------------------
(***************************************************************************)
(* The launcher window (crates/lixun-gui/src/window.rs, keymap.rs): what   *)
(* the GTK main loop does with keys, commands of the daemon, replies and   *)
(* timers.  Everything runs on one thread, one callback at a time; what is *)
(* hard is the order of the callbacks: a timer armed for one query fires   *)
(* under the next, a reply arrives after the window went away, a preview   *)
(* outlives the mode that asked for it.  The state is one record, lw, the  *)
(* fields of LauncherController and of the two handlers' captures, and     *)
(* each method is an operator from record to record, composed as the code  *)
(* composes its calls.                                                     *)
(***************************************************************************)
EXTENDS Naturals, FiniteSets

CONSTANTS
    LwTexts,     \* the queries a user may have in the entry, NoText aside
    LwMaxEpoch,  \* bound on session_epoch
    LwBudgets,   \* bounds on a behaviour: edits, previews and other requests
    LwAnimated   \* gtk-enable-animations

VARIABLES
    lw,          \* the launcher
    budget       \* what is left of the bounds

lwVars == <<lw, budget>>

\* The empty entry.
NoText == ""

ASSUME LwAssumption == NoText \notin LwTexts /\ LwMaxEpoch \in Nat

NoRows == [kind |-> "none", q |-> NoText]
NoSnapshot == [q |-> NoText, rows |-> NoRows, old |-> FALSE]

(***************************************************************************)
(* vis: the window is mapped; fades: unmap timers under way; text: the     *)
(* entry; lastq: last_query; epoch: session_epoch;                         *)
(* deb: pending_debounce and its query; load: loading_timer;               *)
(* rows: what the model shows and for which query; snap: cached_session;   *)
(* asked: searches under way; pend, lastE, itimer: pending_hits, last_epoch*)
(* and initial_timer of the response handler; recents, hist, zero: fetches *)
(* under way (their epoch, 0 for none); status: the status bar; histMode,  *)
(* chip, focus; pv: preview_mode_active;                                   *)
(* pdeb: preview_debounce; slid: preview_slide_saved;                      *)
(* shown: the last preview request was to show; exitDue: the preview was   *)
(* closed and the daemon is about to say so.  History: cut, a soft hide or *)
(* a failure ended the session's search (old, the same of the snapshot's   *)
(* rows); over, a session was restored over a text set while it was away;  *)
(* left, the daemon ended the mode of a preview that is shown.             *)
(***************************************************************************)
LwInit ==
    /\ lw = [vis |-> FALSE, fades |-> 0, text |-> NoText, lastq |-> NoText,
          epoch |-> 0, deb |-> NoText, load |-> FALSE, rows |-> NoRows,
          snap |-> NoSnapshot, asked |-> {}, pend |-> NoText, lastE |-> 0, itimer |-> 0,
          recents |-> {}, hist |-> FALSE, zero |-> 0, status |-> "hidden",
          histMode |-> FALSE, chip |-> 0, focus |-> "entry", pv |-> FALSE,
          pdeb |-> FALSE, slid |-> FALSE, shown |-> FALSE, exitDue |-> FALSE,
          cut |-> FALSE, over |-> FALSE, left |-> FALSE]
    /\ budget \in LwBudgets

-----------------------------------------------------------------------------
(* The methods of LauncherController.                                       *)

\* maybe_show_recents: only for an empty query; remembers the epoch.
maybe_show_recents(s) ==
    IF s.text = NoText THEN [s EXCEPT !.recents = @ \cup {s.epoch}] ELSE s

cancel_preview_debounce(s) == [s EXCEPT !.pdeb = FALSE]

\* set_preview_mode_active, the one way in and out: slides the launcher aside
\* (fits: there is room) and back.
set_preview_mode_active(s, active, fits) ==
    IF active THEN [s EXCEPT !.pv = TRUE, !.slid = @ \/ fits]
              ELSE [cancel_preview_debounce(s) EXCEPT !.pv = FALSE, !.slid = FALSE]

dismiss_active_preview(s) ==
    IF s.pv THEN [set_preview_mode_active(s, FALSE, FALSE) EXCEPT !.shown = FALSE] ELSE s

SearchUnderWay(s) ==
    s.deb # NoText \/ \E m \in s.asked : m.e = s.epoch

\* persist_session: the epoch moves on, the debounced search is cancelled (the
\* spinner's timer is not), and the session is kept unless the query is empty.
persist_session(s) ==
    LET cut == s.cut \/ SearchUnderWay(s) \/ s.load IN
    [s EXCEPT !.epoch = @ + 1, !.deb = NoText, !.cut = cut,
              !.snap = IF s.text = NoText THEN NoSnapshot
                       ELSE [q |-> s.text, rows |-> s.rows, old |-> cut \/ s.over]]

\* animate_hide: unmapped by a timer, or at once without animations.
animate_hide(s) ==
    IF LwAnimated THEN [s EXCEPT !.fades = @ + 1] ELSE [s EXCEPT !.vis = FALSE]

\* Clearing the model, as every caller does it around autoselect.
ClearRows(s) == [s EXCEPT !.rows = NoRows, !.status = "hidden"]

\* connect_changed of the entry: a text change ends the history list and the
\* session's searches; an empty query returns to the idle state.
EntryChanged(s, t) ==
    LET c == [s EXCEPT !.text = t, !.histMode = FALSE, !.epoch = @ + 1, !.deb = t,
                       !.cut = FALSE, !.over = FALSE]
    IN  IF t # NoText THEN c
        ELSE maybe_show_recents(ClearRows([c EXCEPT !.load = FALSE, !.lastq = NoText]))

\* entry.set_text: emits changed when there is a change.
set_text(s, t) == IF t = s.text THEN s ELSE EntryChanged(s, t)

scrub_ui(s) ==
    LET c == set_text([s EXCEPT !.snap = NoSnapshot, !.histMode = FALSE, !.deb = NoText], NoText)
    IN  ClearRows([c EXCEPT !.chip = 0, !.lastq = NoText])

clear_session(s) == scrub_ui([s EXCEPT !.epoch = @ + 1])

\* Neither the search nor the debounce of a text set since the hide is stopped.
restore_session(s) ==
    [s EXCEPT !.text = s.snap.q, !.lastq = s.snap.q, !.rows = s.snap.rows,
              !.histMode = FALSE, !.cut = @ \/ s.snap.old, !.over = @ \/ s.text # s.snap.q]

\* arm_layer_shell_focus
TakeFocus(s) == [s EXCEPT !.focus = "entry"]

\* show: nothing when mapped; else the session is taken from the snapshot or,
\* when the widgets still hold it, left as it is.
show(s) ==
    IF s.vis THEN s
    ELSE LET live == s.rows # NoRows /\ s.text = s.snap.q
             r == IF s.snap = NoSnapshot \/ live THEN s ELSE restore_session(s)
             t == [r EXCEPT !.snap = NoSnapshot]
             u == IF t.rows = NoRows THEN maybe_show_recents(t) ELSE t
         IN  TakeFocus([u EXCEPT !.vis = TRUE])

hide_keeps_slide(s) == animate_hide(persist_session([s EXCEPT !.pv = FALSE]))
hide(s) == animate_hide(persist_session(set_preview_mode_active(s, FALSE, FALSE)))

soft_hide(s) == animate_hide(persist_session(s))

clear_and_hide(s) ==
    animate_hide(clear_session(dismiss_active_preview(cancel_preview_debounce(s))))

toggle_orphans(s) == IF s.vis THEN hide(s) ELSE show(s)
toggle(s) == IF s.vis THEN hide(dismiss_active_preview(s)) ELSE show(s)

exit_preview_mode(s) == TakeFocus(set_preview_mode_active(s, FALSE, FALSE))

exit_history_mode(s) == maybe_show_recents(TakeFocus(ClearRows([s EXCEPT !.histMode = FALSE])))

\* The selection moves (arrows, preview_nav, clicks): in preview mode the new
\* row is previewed after 50 ms.
Select(s) == [s EXCEPT !.pdeb = s.pv]

-----------------------------------------------------------------------------
(* Commands of the daemon and of the window system.                         *)

Spend(what) == budget[what] > 0 /\ budget' = [budget EXCEPT ![what] = @ - 1]
LwFree == UNCHANGED budget

\* Epochs are bounded; every callback moves by at most two.
LwRoom == lw.epoch + 2 <= LwMaxEpoch /\ lw.fades < 2 /\ Cardinality(lw.asked) < 2

Command(c) ==
    /\ LwFree
    /\ LwRoom /\ (c = "exitpreview" => lw.exitDue)
    /\ lw' = CASE c = "show" -> show(lw)
               [] c = "hide" -> [hide(lw) EXCEPT !.left = @ \/ lw.pv]
               [] c = "toggle" -> toggle(lw)
               [] c = "softhide" -> soft_hide(lw)
               [] c = "clear" -> scrub_ui(lw)
               [] c = "exitpreview" -> [exit_preview_mode(lw) EXCEPT !.exitDue = FALSE, !.left = @ \/ lw.shown]
               [] c = "nav" -> IF lw.rows = NoRows THEN lw ELSE Select(lw)

\* The unmap timer of animate_hide.
FadeEnds ==
    /\ LwFree
    /\ lw.fades > 0
    /\ lw' = [lw EXCEPT !.fades = @ - 1, !.vis = FALSE]

\* focus_ctrl.connect_leave: ignored in preview mode, and when gated: shortly
\* after a show and while a row's popover is open.
FocusLeaves(gated) ==
    /\ LwFree
    /\ LwRoom /\ lw.vis /\ ~gated /\ ~lw.pv
    /\ lw' = hide(lw)

\* The preview window is closed by its user: the daemon relays it, and its
\* ExitPreviewMode arrives later, maybe after the next preview was asked for.
PreviewCloses == LwFree /\ lw.shown /\ lw' = [lw EXCEPT !.shown = FALSE, !.left = FALSE, !.exitDue = TRUE]

-----------------------------------------------------------------------------
(* Keys (keymap.rs), in the order of the handler's branches.                *)

KeyPress == lw.vis /\ LwRoom

\* Printable keys and Backspace edit the query, from the entry or warped back
\* to it; in preview mode they end the preview first.
KeyEdit(t) ==
    /\ Spend("edit")
    /\ KeyPress /\ t # lw.text
    /\ lw' = TakeFocus(set_text(dismiss_active_preview(lw), t))

\* quick_look on a row (Space, with the focus off the entry) and
\* quick_look_alt (Ctrl+Space, from anywhere): in preview mode Space closes.
KeyQuickLook(alt, fits) ==
    /\ Spend("preview")
    /\ KeyPress /\ (alt => lw.rows # NoRows) /\ (~alt => lw.pv \/ lw.focus = "list")
    /\ lw' = IF ~alt /\ lw.pv THEN TakeFocus(dismiss_active_preview(lw))
             ELSE TakeFocus([set_preview_mode_active(lw, TRUE, fits)
                               EXCEPT !.shown = @ \/ lw.rows # NoRows, !.left = FALSE])

\* Up, Down and the category jumps: without rows, and up from the first one,
\* the focus goes to the entry; at the last one the selection stays.
KeyArrow(end) ==
    /\ LwFree
    /\ KeyPress
    /\ lw' = IF lw.rows = NoRows \/ end = "top" THEN TakeFocus(lw)
             ELSE [(IF end = "bottom" THEN lw ELSE Select(lw))
                     EXCEPT !.focus = IF lw.pv THEN lw.focus ELSE "list"]

\* Up on an empty entry asks for the history, unless it is up already.
KeyHistory ==
    /\ Spend("other")
    /\ KeyPress /\ lw.text = NoText /\ lw.focus = "entry" /\ ~lw.histMode
    /\ lw' = [lw EXCEPT !.hist = TRUE]

\* Escape: the history list, the preview, the launcher.
KeyEscape ==
    /\ LwFree
    /\ KeyPress
    /\ lw' = IF lw.histMode /\ ~lw.pv THEN exit_history_mode(lw)
             ELSE IF lw.pv THEN dismiss_active_preview(lw)
             ELSE hide(lw)

\* The selected hit, or without rows the web search: a launch that succeeds
\* ends the session, one that fails keeps the launcher and says so.
KeyActivate(outcome) ==
    /\ LwFree
    /\ KeyPress /\ (lw.rows = NoRows => lw.text # NoText)
    /\ lw' = IF outcome = "launched" \/ lw.rows = NoRows THEN clear_and_hide(lw)
             ELSE [lw EXCEPT !.status = "message"]

\* Action::ReplaceQuery of a hit, and the output of ExecCapture, which arrives
\* whenever the command ends.
ReplaceQuery(t) == Spend("edit") /\ LwRoom /\ lw' = TakeFocus(set_text(lw, t))

\* "Show more results": the same query again, in the same epoch.
ShowMore ==
    /\ Spend("other")
    /\ KeyPress /\ lw.text # NoText /\ lw.rows.kind = "search"
    /\ lw' = [lw EXCEPT !.asked = @ \cup {[e |-> lw.epoch, q |-> lw.text, st |-> "initial"]}]

\* A category chip: the query again under the new constraint, in a new epoch.
\* It leaves last_query alone, which is behind the text in a session cut before
\* its debounce fired.
ChipToggled ==
    /\ Spend("other")
    /\ KeyPress
    /\ LET s == [lw EXCEPT !.chip = 1 - @] IN
       lw' = IF s.text # NoText
             THEN [s EXCEPT !.epoch = @ + 1, !.cut = @ /\ s.lastq # s.text,
                            !.asked = @ \cup {[e |-> s.epoch + 1, q |-> s.text, st |-> "initial"]}]
             ELSE [s EXCEPT !.status = IF s.rows # NoRows THEN "empty" ELSE "hidden"]

-----------------------------------------------------------------------------
(* Timers and replies.                                                      *)

\* 30 ms after a keystroke the search is sent; a spinner is due 120 ms later
\* unless a plugin claims the query.
DebounceFires(claimed) ==
    /\ LwFree
    /\ lw.deb # NoText
    /\ lw' = [lw EXCEPT !.lastq = lw.deb, !.deb = NoText, !.load = ~claimed,
                        !.asked = @ \cup {[e |-> lw.epoch, q |-> lw.deb, st |-> "initial"]}]

LoadingFires == LwFree /\ lw.load /\ lw' = [lw EXCEPT !.load = FALSE, !.status = "loading"]

\* 50 ms after a selection change in preview mode.
PreviewDebounceFires ==
    /\ LwFree
    /\ lw.pdeb
    /\ lw' = IF lw.pv /\ lw.rows # NoRows
             THEN TakeFocus([lw EXCEPT !.pdeb = FALSE, !.shown = TRUE, !.left = FALSE])
             ELSE [lw EXCEPT !.pdeb = FALSE]

\* A chunk of an older epoch is dropped.
Stale_never(m) == FALSE
Stale(m) == m.e < lw.epoch

\* A chunk of a newer epoch than the last resets the buffer.
Seen_keeps(s, m) == s
Seen(s, m) == IF m.e > s.lastE THEN [s EXCEPT !.pend = NoText, !.lastE = m.e] ELSE s

\* The Initial chunk is buffered and rendered if no Final comes within 100 ms.
InitialChunk(m) ==
    /\ LwFree
    /\ m \in lw.asked /\ m.st = "initial"
    /\ LET s == [lw EXCEPT !.asked = (@ \ {m}) \cup {[m EXCEPT !.st = "final"]}] IN
       lw' = IF Stale(m) THEN s ELSE [Seen(s, m) EXCEPT !.pend = m.q, !.itimer = m.e]

InitialFires ==
    /\ LwFree
    /\ lw.itimer # 0
    /\ lw' = [lw EXCEPT !.itimer = 0,
                !.rows = IF lw.itimer = lw.epoch /\ lw.pend # NoText THEN [kind |-> "search", q |-> lw.pend]
                         ELSE @]

\* present_zero_hit_status: says so, offers the web and asks the daemon whether
\* it indexes, unless a plugin claimed the query or a chip narrows it.
ZeroHits(s, m, claimed) ==
    IF s.lastq = NoText THEN ClearRows(s)
    ELSE IF claimed \/ s.chip # 0 THEN [s EXCEPT !.status = "empty", !.rows = NoRows]
    ELSE [s EXCEPT !.status = "empty", !.zero = IF @ = 0 THEN m.e ELSE @,
                   !.rows = [kind |-> "web", q |-> s.lastq]]

\* The Final chunk wins over both timers; an empty one falls back on the
\* buffered hits, and without those on the web row.
FinalTimers_kept(s) == s
FinalTimers(s) == [s EXCEPT !.itimer = 0, !.load = FALSE]

FinalChunk(m, hits, claimed) ==
    /\ LwFree
    /\ m \in lw.asked /\ m.st \in {"initial", "final"}
    /\ LET s == [lw EXCEPT !.asked = @ \ {m}]
           t == FinalTimers(Seen(s, m))
           q == IF hits THEN m.q ELSE t.pend
           u == [t EXCEPT !.pend = NoText]
       IN  lw' = IF Stale(m) THEN s
                 ELSE IF q = NoText THEN ZeroHits(u, m, claimed)
                 ELSE [u EXCEPT !.rows = [kind |-> "search", q |-> q], !.status = "hints"]

\* TransportFailed and SearchTimeout: what is on screen stays.
SearchFails(m) ==
    /\ LwFree
    /\ m \in lw.asked
    /\ LET s == [lw EXCEPT !.asked = @ \ {m}] IN
       lw' = IF Stale(m) THEN s
             ELSE [FinalTimers(s) EXCEPT !.pend = NoText, !.status = "unresponsive", !.cut = TRUE]

SearchIsLate(m) ==
    /\ LwFree
    /\ m \in lw.asked /\ ~Stale(m)
    /\ lw' = [lw EXCEPT !.load = FALSE, !.status = "searching"]

\* Replies of the recents, history and status fetches.
RecentsArrive(e) ==
    /\ LwFree
    /\ e \in lw.recents
    /\ LET s == [lw EXCEPT !.recents = @ \ {e}] IN
       lw' = IF e = s.epoch /\ s.text = NoText
             THEN [s EXCEPT !.rows = [kind |-> "recent", q |-> NoText], !.status = "hints"] ELSE s

HistoryArrives ==
    /\ LwFree
    /\ lw.hist
    /\ LET s == [lw EXCEPT !.hist = FALSE] IN
       lw' = IF s.text = NoText
             THEN [s EXCEPT !.rows = [kind |-> "history", q |-> NoText], !.status = "hidden", !.histMode = TRUE]
             ELSE s

IndexStatusArrives ==
    /\ LwFree
    /\ lw.zero # 0
    /\ lw' = [lw EXCEPT !.zero = 0, !.status = IF lw.zero = lw.epoch THEN "indexing" ELSE @]

LwCommands == {"show", "hide", "toggle", "softhide", "clear", "exitpreview", "nav"}

LwNext ==
    \/ \E c \in LwCommands : Command(c)
    \/ FadeEnds \/ PreviewCloses \/ \E g \in BOOLEAN : FocusLeaves(g)
    \/ \E t \in LwTexts \cup {NoText} : KeyEdit(t) \/ ReplaceQuery(t)
    \/ \E a, f \in BOOLEAN : KeyQuickLook(a, f)
    \/ \E end \in {"top", "bottom", "none"} : KeyArrow(end)
    \/ KeyHistory \/ KeyEscape \/ ShowMore \/ ChipToggled
    \/ \E o \in {"launched", "stays"} : KeyActivate(o)
    \/ \E c \in BOOLEAN : DebounceFires(c)
    \/ LoadingFires \/ PreviewDebounceFires \/ InitialFires
    \/ \E m \in lw.asked : InitialChunk(m) \/ SearchFails(m) \/ SearchIsLate(m)
                           \/ \E h, c \in BOOLEAN : FinalChunk(m, h, c)
    \/ \E e \in lw.recents : RecentsArrive(e)
    \/ HistoryArrives \/ IndexStatusArrives

LwSpec == LwInit /\ [][LwNext]_lwVars

-----------------------------------------------------------------------------
\* Every field keeps its shape, no search is of a later epoch than the session,
\* and the buffered chunk's timer is never of a later epoch than the last chunk
\* the handler has seen.
LwTypeOK ==
    /\ lw.text \in LwTexts \cup {NoText} /\ lw.deb \in LwTexts \cup {NoText}
    /\ lw.epoch \in 0..LwMaxEpoch /\ lw.fades \in 0..2
    /\ lw.rows.kind \in {"none", "search", "web", "recent", "history"}
    /\ lw.status \in {"hidden", "hints", "loading", "searching", "empty", "indexing",
                      "unresponsive", "message"}
    /\ \A m \in lw.asked : m.e <= lw.epoch
    /\ lw.itimer <= lw.lastE /\ lw.lastE <= lw.epoch

\* The rows are those of the text above them, unless a search for that text is
\* still due: no reply or timer of an earlier query puts its rows under a later
\* one.  A session whose search failed, or was cut off by a soft hide, is left
\* out; its rows stay those of the query before.  So is one restored over a text
\* set while it was away (by keys during the fade, or a command's output): the
\* search for that text goes on and its answer is drawn under the restored query.
RowsAnswerTheText ==
    lw.rows = NoRows \/ lw.rows.q = lw.text \/ SearchUnderWay(lw) \/ lw.cut \/ lw.over

\* The launcher stands aside exactly while a preview may be wanted: whatever
\* ends preview mode (keys, commands, focus, launches) moves it back.
SlideIsBalanced == lw.slid => lw.pv

\* A preview that was asked for and not dismissed still has its launcher in
\* preview mode, where the keys that close it work: no key, timer or launch
\* leaves one behind.  Left out are the daemon's Hide, which keeps the preview
\* on purpose, and its late word of a preview closed before this one.
NoOrphanPreview == lw.shown => lw.pv \/ lw.left

\* The spinner runs only while the current search is unanswered (or was cut off
\* by a soft hide, which forgets the spinner's timer).
SpinnerIsHonest ==
    lw.status = "loading" => SearchUnderWay(lw) \/ lw.cut

\* What the launcher shows is about the query it shows, and a preview never
\* outlives the mode it was opened in.
LauncherHonest ==
    RowsAnswerTheText /\ SlideIsBalanced /\ NoOrphanPreview /\ SpinnerIsHonest
=============================================================================
