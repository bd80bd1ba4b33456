----------------------------- MODULE CommandLine -----------------------------
(***************************************************************************)
(* lixun-cli: one command and its exit status (lixun-cli/src/main.rs), and *)
(* the dashboard (lixun-cli/src/dashboard): one loop that takes keys,      *)
(* clicks, log lines and ticks in the order they were queued, and talks to *)
(* a daemon that comes and goes only during a tick.                        *)
(*                                                                         *)
(* A hit is a number, a log line its level.  The dashboard starts in one   *)
(* of the scenes of ClScenes, each with the kinds of events it meets.      *)
(***************************************************************************)
EXTENDS Integers, Sequences, FiniteSets, SequencesExt

CONSTANTS
  ClScenes,     \* sets of kinds of events: "keys", "rows", "logs", "daemon"
  ClPage,       \* rows the scrolling keeps in view (10 in the code)
  ClHeight,     \* rows the result panel really has
  ClLogMax,     \* log lines kept (1000 in the code)
  ClResults,    \* how many hits a search may return
  ClAttempts,   \* tries to reconnect after a restart (30 in the code)
  ClCommands,   \* command lines: [verb, plugin] records
  ClMaxEvents   \* bound on what the daemon does on its own

VARIABLES
  clApp,       \* the dashboard's App
  clDaemon,    \* [up, run, docs]: whether it answers, its start, what it says
  clAsked,     \* ghost: restarts and reindexes asked for, done and reported
  clOnce,      \* the last command: its verb, the request sent, its outcome
  clMay        \* the scene

clVars == <<clApp, clDaemon, clAsked, clOnce, clMay>>

---------------------------------------------------------------------------
(* Focus: the top row of four panels, then log, results and query.          *)

TabOrder == <<"socket", "index", "services", "reindex", "log", "results", "query">>
Widgets == Range(TabOrder)
TopRow == {"socket", "index", "services", "reindex"}
TabPos(w) == CHOOSE i \in 1..7 : TabOrder[i] = w

TabNext(w) == TabOrder[(TabPos(w) % 7) + 1]
TabPrev(w) == TabOrder[((TabPos(w) + 5) % 7) + 1]
move_up(w) == IF w \in TopRow THEN "query" ELSE IF w = "log" THEN "socket" ELSE TabPrev(w)
move_down(w) == IF w \in TopRow THEN "log" ELSE TabNext(w)
move_left(w) == IF w \notin TopRow THEN w ELSE TabOrder[((TabPos(w) + 2) % 4) + 1]
move_right(w) == IF w \notin TopRow THEN w ELSE TabOrder[(TabPos(w) % 4) + 1]

Floor0(n) == IF n < 0 THEN 0 ELSE n
NoMore(a, b) == IF a < b THEN a ELSE b

---------------------------------------------------------------------------
(* The lists.                                                               *)

filtered_logs(app) == SelectSeq(app.logs, LAMBDA l : l \in app.levels)

(* Mutant: the position follows the list without its limit. *)
push_log_unbounded(app, level) ==
  [app EXCEPT !.logs = Append(@, level),
              !.log_scroll = IF @ >= Floor0(Len(app.logs) - 1) THEN @ + 1 ELSE @]

(* The oldest line goes when the limit is passed; a reader at the end       *)
(* follows the end.                                                         *)
push_log(app, level) ==
  LET all == Append(app.logs, level)
      kept == IF Len(all) > ClLogMax THEN Tail(all) ELSE all
  IN [app EXCEPT !.logs = kept,
                 !.log_scroll = IF @ >= Floor0(Len(kept) - 2) THEN Floor0(Len(kept) - 1) ELSE @]

toggle_log_filter(app, level) ==
  [app EXCEPT !.levels = IF level \in @ THEN @ \ {level} ELSE @ \cup {level}, !.log_scroll = 0]

(* Mutant: the last row is passed. *)
scroll_results_far(app) == [app EXCEPT !.selected = @ + 1]

scroll_results(app) ==
  LET sel == IF app.selected < Floor0(Len(app.hits) - 1) THEN app.selected + 1 ELSE app.selected
  IN [app EXCEPT !.selected = sel,
                 !.scroll = IF sel >= @ + ClPage THEN Floor0(sel - (ClPage - 1)) ELSE @]

handle_scroll_down(app) ==
  CASE app.focus = "log" ->
         [app EXCEPT !.log_scroll = IF @ < Floor0(Len(filtered_logs(app)) - 1) THEN @ + 1 ELSE @]
    [] app.focus = "results" -> scroll_results(app)
    [] OTHER -> app

handle_scroll_up(app) ==
  CASE app.focus = "log" -> [app EXCEPT !.log_scroll = Floor0(@ - 1)]
    [] app.focus = "results" ->
         LET sel == Floor0(app.selected - 1)
         IN [app EXCEPT !.selected = sel, !.scroll = NoMore(@, sel)]
    [] OTHER -> app

(* A click moves the focus, and leaves who reads the keys; on the query it  *)
(* also starts typing; on a result it selects the row counted from the panel's top.     *)
handle_mouse_click(app, w, row) ==
  LET at == [app EXCEPT !.focus = w]
  IN CASE w = "query" -> [at EXCEPT !.editing = TRUE]
       [] w = "results" -> [at EXCEPT !.selected = IF row < Len(app.hits) THEN row ELSE @]
       [] OTHER -> at

(* Mutant: the selection is left where it was. *)
set_search_results_keeps(app, hits) == [app EXCEPT !.hits = hits]

(* The selection returns to the first row; the scroll position stays. *)
set_search_results(app, hits) == [app EXCEPT !.hits = hits, !.selected = 0]

(* render_results_list slices hits[scroll .. end): true when it panics. *)
RenderPanics(app) ==
  /\ app.hits # << >>
  /\ app.scroll > NoMore(app.scroll + ClHeight, Len(app.hits))

(* The log lines drawn: up to the height, ending at the position. *)
render_log_viewer(app) ==
  LET all == filtered_logs(app)
      last == NoMore(app.log_scroll, Floor0(Len(all) - 1))
      first == Floor0(last - (ClHeight - 1))
  IN SubSeq(all, first + 1, NoMore(last + 1, Len(all)))

---------------------------------------------------------------------------
(* Keys.  Three flags say who reads them: the text filter of the log before *)
(* the query, the query before the focused list, and navigation otherwise.  *)

Mode(app) == IF app.filtering THEN "filter" ELSE IF app.editing THEN "editing"
             ELSE IF app.focused THEN "focused" ELSE "navigation"

toggle_service(app) == [app EXCEPT !.restart_pending = TRUE]

handle_navigation_key(app, key) ==
  CASE key = "q" -> [app EXCEPT !.quit = TRUE]
    [] key = "tab" -> [app EXCEPT !.focus = TabNext(@)]
    [] key = "backtab" -> [app EXCEPT !.focus = TabPrev(@)]
    [] key = "up" -> [app EXCEPT !.focus = move_up(@)]
    [] key = "down" -> [app EXCEPT !.focus = move_down(@)]
    [] key = "left" -> [app EXCEPT !.focus = move_left(@)]
    [] key = "right" -> [app EXCEPT !.focus = move_right(@)]
    [] key = "r" /\ app.focus = "services" -> toggle_service(app)
    [] key = "i" /\ app.focus = "log" -> toggle_log_filter(app, "info")
    [] key = "f" /\ app.focus = "log" -> [app EXCEPT !.filtering = TRUE]
    [] key = "enter" ->
         ( CASE app.focus = "query" -> [app EXCEPT !.editing = TRUE]
             [] app.focus = "reindex" -> [app EXCEPT !.reindex_pending = TRUE]
             [] app.focus \in {"log", "results"} -> [app EXCEPT !.focused = TRUE]
             [] OTHER -> app )
    [] OTHER -> app

handle_focused_key(app, key) ==
  CASE key = "esc" -> [app EXCEPT !.focused = FALSE]
    [] key = "down" -> handle_scroll_down(app)
    [] key = "up" -> handle_scroll_up(app)
    [] OTHER -> app

Letters == {"q", "r", "i", "f"}

handle_editing_key(app, key) ==
  CASE key = "esc" -> [app EXCEPT !.editing = FALSE]
    [] key \in Letters -> [app EXCEPT !.query = NoMore(@ + 1, 1)]
    [] key = "backspace" -> [app EXCEPT !.query = Floor0(@ - 1)]
    [] key = "enter" /\ app.query > 0 ->
         [app EXCEPT !.search_pending = TRUE, !.editing = FALSE]
    [] OTHER -> app

handle_filter_editing_key(app, key) ==
  CASE key = "esc" -> [app EXCEPT !.filtering = FALSE]
    [] key = "enter" -> [app EXCEPT !.filtering = FALSE, !.log_scroll = 0]
    [] OTHER -> app

(* Mutant: the filter's text is not asked about first. *)
handle_key_navigation_first(app, key) ==
  IF Mode(app) \in {"navigation", "filter"} THEN handle_navigation_key(app, key)
  ELSE IF Mode(app) = "focused" THEN handle_focused_key(app, key) ELSE handle_editing_key(app, key)

handle_key(app, key) ==
  CASE Mode(app) = "filter" -> handle_filter_editing_key(app, key)
    [] Mode(app) = "navigation" -> handle_navigation_key(app, key)
    [] Mode(app) = "focused" -> handle_focused_key(app, key)
    [] Mode(app) = "editing" -> handle_editing_key(app, key)

Keys == Letters \cup {"tab", "backtab", "up", "down", "left", "right", "enter", "esc", "backspace"}

---------------------------------------------------------------------------
(* A tick: at each request the daemon may be up or down; a request that     *)
(* cannot be sent is dropped.                                               *)

Status(app, d) == [app EXCEPT !.docs = d.docs, !.run = d.run, !.connected = TRUE]

(* Whether systemctl itself ran, the attempt that found the daemon (0: none *)
(* of them), and whether the last probe did.                                *)
RestartOutcomes == [ran : BOOLEAN, found : 0..ClAttempts, probe : BOOLEAN]

(* Mutant: a daemon that never came back is called restarted. *)
RestartEnds_hopeful(app, d, r) ==
  IF ~ r.ran THEN [app EXCEPT !.status = "failed"] ELSE [Status(app, d) EXCEPT !.status = "idle"]

(* The restart waits for systemctl and for each of the attempts, while the  *)
(* events queue up.  A probe after the last attempt counts as connected     *)
(* without taking over what the daemon said.                                *)
RestartEnds(app, d, r) ==
  CASE ~ r.ran      -> [app EXCEPT !.status = "failed"]
    [] r.found > 0  -> [Status(app, d) EXCEPT !.status = "idle"]
    [] r.probe      -> [app EXCEPT !.status = "idle", !.connected = TRUE]
    [] OTHER        -> [app EXCEPT !.status = "failed"]

(* The hits of all the chunks up to the final one, one after the other. *)
CollectChunks(chunks) == FlattenSeq(chunks)

(* Initial, then Final; or a connection that ends after either. *)
ChunksOf(n) ==
  LET hits == [i \in 1..n |-> i]
  IN {<< >>, <<hits>>, <<hits, hits>>}

TickReindex(app, up) == [app EXCEPT !.reindex_pending = FALSE]

TickSearch(app, up, chunks) ==
  IF ~ app.search_pending THEN app
  ELSE LET a == [app EXCEPT !.search_pending = FALSE]
       IN IF up THEN set_search_results(a, CollectChunks(chunks)) ELSE a

TickStatus(app, d) == IF d.up THEN Status(app, d) ELSE app

---------------------------------------------------------------------------
(* One command.                                                             *)

BUILTIN_VERBS == {"toggle", "show", "hide", "search", "reindex", "status", "impact",
                  "check-exclude", "dashboard", "hidden"}

(* Mutant: the plugin's verb replaces the built-in one. *)
root_command_plugins_win(verbs) == [v \in BUILTIN_VERBS \cup verbs |->
                                      IF v \in verbs THEN "plugin" ELSE "builtin"]

(* Who answers to each verb; a plugin's that is named like a built-in one   *)
(* is dropped with a warning.                                               *)
root_command(verbs) == [v \in BUILTIN_VERBS \cup verbs |->
                          IF v \in BUILTIN_VERBS THEN "builtin" ELSE "plugin"]

(* The first frame that is not an initial chunk. *)
run_search(frames) ==
  LET rest == SelectSeq(frames, LAMBDA f : f # "initial")
  IN IF rest = << >> THEN "broken" ELSE rest[1]

(* The exit status: handle_impact_response and handle_plugin_response leave *)
(* with 1 for an error, handle_response prints it and leaves with 0.  A     *)
(* connection that fails is an error of main.                               *)
ExitOf(verb, who, resp) ==
  CASE resp = "broken" -> 1
    [] who = "plugin" -> IF resp = "plugin_result" THEN 0 ELSE 1
    [] verb = "impact" -> IF resp = "impact" THEN 0 ELSE 1
    [] OTHER -> 0

(* What each verb's answer prints on standard output. *)
Printed(verb, who, resp) ==
  CASE who = "plugin" -> resp = "plugin_result"
    [] verb = "impact" -> resp = "impact"
    [] verb = "reindex" /\ resp = "status" -> TRUE
    [] verb = "hidden" -> resp \in {"ok", "hidden"}
    [] OTHER -> resp \in {"final", "status", "visibility", "hidden", "excluded", "not_excluded"}

(* The configured substrings, then the regexes, then lixun's own files; a   *)
(* configuration that does not load is an error here, where the daemon      *)
(* would go on with its defaults.                                           *)
handle_check_exclude(loads, matched) ==
  IF ~ loads THEN "broken" ELSE IF matched = {} THEN "not_excluded" ELSE "excluded"

(* The answers to each verb, the daemon's errors among them. *)
AnswersTo(verb, who) ==
  IF verb = "check-exclude" /\ who = "builtin"
  THEN {handle_check_exclude(l, m) : l \in BOOLEAN, m \in SUBSET {"substring", "regex", "self"}}
  ELSE
  {"error", "broken"} \cup
  ( CASE who = "plugin" -> {"plugin_result", "plugin_error"}
      [] verb \in {"toggle", "show", "hide"} -> {"visibility"}
      [] verb = "search" -> {"final"}
      [] verb \in {"reindex", "status"} -> {"status"}
      [] verb = "impact" -> {"impact"}
      [] OTHER -> {"ok", "hidden"} )

---------------------------------------------------------------------------

ClApp0 == [connected |-> TRUE, docs |-> 0, run |-> 1, logs |-> << >>, log_scroll |-> 0,
           levels |-> {"info", "warn"}, hits |-> << >>, selected |-> 0, scroll |-> 0,
           query |-> 0, search_pending |-> FALSE, reindex_pending |-> FALSE,
           restart_pending |-> FALSE, status |-> "idle", quit |-> FALSE,
           focus |-> "query", filtering |-> FALSE, editing |-> FALSE, focused |-> FALSE]

ClInit ==
  /\ clMay \in ClScenes
  /\ clApp = ClApp0
  /\ clDaemon = [up |-> TRUE, run |-> 1, docs |-> 0]
  /\ clAsked = [restarts |-> 0, typed |-> FALSE, answered |-> 1]
  /\ clOnce = [verb |-> "none", who |-> "none", resp |-> "none", exit |-> 0]

ClKey(key) ==
  /\ "keys" \in clMay /\ ~ clApp.quit
  /\ clApp' = handle_key(clApp, key)
  /\ clAsked' = [clAsked EXCEPT !.typed = Mode(clApp) \in {"editing", "filter"} /\ key \in Letters]
  /\ UNCHANGED <<clDaemon, clOnce, clMay>>

ClWheel ==
  /\ clMay \cap {"rows", "logs"} # {} /\ ~ clApp.quit
  /\ \/ clApp' = handle_scroll_up(clApp)
     \/ clApp' = handle_scroll_down(clApp)
  /\ UNCHANGED <<clDaemon, clAsked, clOnce, clMay>>

ClClick ==
  /\ clMay \cap {"keys", "rows", "logs"} # {} /\ ~ clApp.quit
  /\ \E w \in IF "keys" \in clMay THEN Widgets ELSE {"log", "results"}, row \in 0..(ClHeight - 1) :
        clApp' = handle_mouse_click(clApp, w, row)
  /\ clAsked' = [clAsked EXCEPT !.typed = FALSE]
  /\ UNCHANGED <<clDaemon, clOnce, clMay>>

ClLogLine ==
  /\ "logs" \in clMay /\ ~ clApp.quit
  /\ \E level \in {"info", "warn"} : clApp' = push_log(clApp, level)
  /\ UNCHANGED <<clDaemon, clAsked, clOnce, clMay>>

ClFilter ==
  /\ "logs" \in clMay /\ clApp.focus = "log"
  /\ clApp' = toggle_log_filter(clApp, "info")
  /\ UNCHANGED <<clDaemon, clAsked, clOnce, clMay>>

(* The user asks for a search, a restart or a reindex by the keys above. *)
ClAsk ==
  /\ "daemon" \in clMay \/ "rows" \in clMay
  /\ \/ clApp' = [clApp EXCEPT !.search_pending = TRUE]
     \/ "daemon" \in clMay /\ clApp' = toggle_service(clApp)
     \/ "daemon" \in clMay /\ clApp' = [clApp EXCEPT !.reindex_pending = TRUE]
  /\ UNCHANGED <<clDaemon, clAsked, clOnce, clMay>>

(* The daemon stops, starts again, or indexes a document. *)
ClDaemonChanges ==
  /\ "daemon" \in clMay
  /\ clDaemon.run + clDaemon.docs < ClMaxEvents
  /\ \/ clDaemon' = [clDaemon EXCEPT !.up = FALSE]
     \/ ~ clDaemon.up /\ clDaemon' = [clDaemon EXCEPT !.up = TRUE, !.run = @ + 1]
     \/ clDaemon.up /\ clDaemon' = [clDaemon EXCEPT !.docs = @ + 1]
  /\ UNCHANGED <<clApp, clAsked, clOnce, clMay>>

(* Tick, in its order: reindex, restart, search, status.  When systemctl    *)
(* does not run the tick ends there.                                        *)
ClTick ==
  /\ clMay \cap {"daemon", "rows"} # {} /\ ~ clApp.quit
  /\ LET a == TickReindex(clApp, clDaemon.up)
     IN \/ /\ a.restart_pending
           /\ \E r \in RestartOutcomes, n \in ClResults : \E chunks \in ChunksOf(n) :
                LET back == r.found > 0 \/ r.probe
                    d == IF ~ r.ran THEN clDaemon
                         ELSE [clDaemon EXCEPT !.up = back, !.run = IF back THEN @ + 1 ELSE @]
                    b == RestartEnds([a EXCEPT !.restart_pending = FALSE, !.connected = FALSE], d, r)
                IN /\ r.found > 0 => ~ r.probe
                   /\ clDaemon.run < ClMaxEvents
                   /\ clDaemon' = d
                   /\ clApp' = IF r.ran THEN TickStatus(TickSearch(b, d.up, chunks), d) ELSE b
                   /\ clAsked' = [clAsked EXCEPT !.restarts = NoMore(@ + 1, 2),
                                                 !.answered = IF d.up THEN d.run ELSE @]
        \/ /\ ~ a.restart_pending
           /\ \E n \in ClResults : \E chunks \in ChunksOf(n) :
                clApp' = TickStatus(TickSearch(a, clDaemon.up, chunks), clDaemon)
           /\ clAsked' = [clAsked EXCEPT !.answered = IF clDaemon.up THEN clDaemon.run ELSE @]
           /\ UNCHANGED clDaemon
  /\ UNCHANGED <<clOnce, clMay>>

(* main: plugins are enumerated first, a failure of that counts as none;    *)
(* then the verb is looked up and its request sent.                         *)
ClCommand ==
  /\ "once" \in clMay
  /\ \E c \in ClCommands :
       LET table == root_command(IF c.listed THEN c.plugins ELSE {})
       IN /\ c.verb \in DOMAIN table
          /\ \E resp \in AnswersTo(c.verb, table[c.verb]) :
               clOnce' = [verb |-> c.verb, who |-> table[c.verb],
                          resp |-> IF c.verb = "search" /\ table[c.verb] = "builtin"
                                   THEN run_search(<<"initial", resp>>) ELSE resp,
                          exit |-> ExitOf(c.verb, table[c.verb], resp)]
  /\ UNCHANGED <<clApp, clDaemon, clAsked, clMay>>

ClNext ==
  \/ \E key \in Keys : ClKey(key)
  \/ ClWheel \/ ClClick \/ ClLogLine \/ ClFilter \/ ClAsk \/ ClDaemonChanges \/ ClTick \/ ClCommand

---------------------------------------------------------------------------
(* The App's fields. *)
ClTypeOK ==
  /\ clApp.focus \in Widgets /\ clApp.selected \in Nat /\ clApp.log_scroll \in Nat
  /\ clApp.status \in {"idle", "failed"} /\ Len(clApp.logs) <= ClLogMax
  /\ clOnce.exit \in {0, 1}

(* Whatever is searched, scrolled, clicked, filtered or dropped from the    *)
(* log, the selected row is a row and the log position a line.              *)
PositionsExist ==
  /\ clApp.selected < Len(clApp.hits) \/ clApp.selected = 0
  /\ clApp.log_scroll < Len(clApp.logs) \/ clApp.log_scroll = 0
  /\ filtered_logs(clApp) # << >> => render_log_viewer(clApp) # << >>

(* A letter typed into the query or the log filter is text and nothing      *)
(* else: it never quits, restarts, reindexes or changes the filter.         *)
TypingIsText ==
  clAsked.typed => ~ clApp.quit /\ Mode(clApp) \in {"editing", "filter"}

(* No restart ends in silence: when the dashboard says the daemon runs, a   *)
(* daemon has answered since, and what it shows is not of an earlier run    *)
(* than the last it heard.                                                  *)
RestartsAreReported ==
  /\ clApp.status = "idle" /\ clAsked.restarts > 0 => clApp.connected
  /\ clApp.run <= clAsked.answered /\ clAsked.answered <= clDaemon.run

(* Every panel is reached with Tab, and each arrow undoes its opposite      *)
(* within a row.                                                            *)
FocusLaws ==
  LET w == clApp.focus
  IN /\ TabPrev(TabNext(w)) = w /\ TabNext(TabPrev(w)) = w
     /\ move_left(move_right(w)) = w /\ (w \in TopRow => move_right(w) \in TopRow)
     /\ move_up(move_down(w)) \in (IF w \in TopRow THEN TopRow ELSE {w, "query"})

(* A built-in verb keeps its meaning whatever plugins are loaded, and a     *)
(* plugin's or an impact command that failed does not exit with success.    *)
CommandsHonest ==
  /\ clOnce.verb \in BUILTIN_VERBS => clOnce.who = "builtin"
  /\ clOnce.who = "plugin" \/ clOnce.verb = "impact" =>
       (clOnce.exit = 0) = Printed(clOnce.verb, clOnce.who, clOnce.resp)
  /\ clOnce.resp # "initial"
  /\ clOnce.verb = "check-exclude" =>
       (clOnce.exit = 0) = Printed(clOnce.verb, clOnce.who, clOnce.resp)

ClientSound ==
  /\ PositionsExist /\ TypingIsText /\ RestartsAreReported /\ FocusLaws /\ CommandsHonest

(* What the code does not keep.                                             *)
(* A search that returns fewer rows than the list was scrolled by makes     *)
(* the next drawing slice past the end.                                     *)
NeverPanics == ~ RenderPanics(clApp)
(* The list keeps its selection in view. *)
SelectionVisible == clApp.hits = << >> \/ clApp.selected \in clApp.scroll .. (clApp.scroll + ClPage - 1)
(* A hit is shown once. *)
HitsShownOnce == IsInjective(clApp.hits)
(* The dashboard says so when the daemon does not answer: nothing clears     *)
(* `connected' when a status cannot be read.                                *)
ConnectionHonest == [][ClTick /\ ~ clDaemon'.up => ~ clApp'.connected]_clVars
(* Keys go to the panel that has the focus. *)
EditsTheFocused == Mode(clApp) = "editing" => clApp.focus = "query"
(* An error exits with 1. *)
ErrorsExitNonzero == clOnce.resp = "error" => clOnce.exit = 1
=============================================================================
