---------------------------- MODULE PreviewSession ----------------------------
(***************************************************************************)
(* Quick Look: the launcher asks for previews, the daemon keeps one warm   *)
(* preview process (lixun-daemon preview_spawn.rs), the process shows a    *)
(* window and reports back (lixun-preview-bin main.rs), and the launcher   *)
(* steps aside and returns (lixun-gui window.rs, keymap.rs).               *)
(*                                                                         *)
(* A process is named by its pid, and a pid is used once.  What is to be   *)
(* shown is named by the epoch of the request.  Nothing else of a hit, a   *)
(* monitor, a window handle or a rectangle matters here.                   *)
(***************************************************************************)
EXTENDS Naturals, Sequences, FiniteSets

CONSTANTS
    Pids,          \* bound: the preview processes that may be started
    NoPid,
    MaxRequests,   \* bound: requests of the launcher
    MaxEvents,     \* bound: NavKey events one process has under way
    Capacity,      \* PREVIEW_CMD_QUEUE_CAP
    Ops,           \* the requests the launcher makes
    Env,           \* what may happen, see EnvKinds
    Animated       \* animations_enabled()

OpKinds == {"show", "hide", "scroll", "parent", "unparent", "geometry"}

EnvKinds == {"slow", "spawnfail", "builderror", "crash", "toggle", "launch", "nav"}

ASSUME PreviewAssumption ==
    /\ NoPid \notin Pids
    /\ MaxRequests \in Nat
    /\ MaxEvents \in Nat
    /\ Capacity \in Nat \ {0}
    /\ Ops \subseteq OpKinds
    /\ Env \subseteq EnvKinds
    /\ Animated \in BOOLEAN

VARIABLES
    \* the launcher
    gui,       \* its window: visible, about to be unmapped, and why it went
    mode,      \* preview_mode_active
    made,      \* requests made
    \* the daemon
    requests,  \* requests sent, or taken by a task of the daemon; epoch 0 before fetch_add
    epoch,     \* PreviewSpawner.epoch
    geometry,  \* cached_launcher_geometry is set
    life,      \* PreviewLifecycle
    sup,       \* per process, its supervisor task
    chan,      \* per process, the commands for its writer task
    writer,    \* per process, the writer task
    \* the processes
    proc,      \* where the process is, see ProcStates
    view,      \* its PreviewState
    inbox,     \* commands written to its socket
    out        \* events it wrote

launcherVars == <<gui, mode, made>>
spawnerVars  == <<epoch, geometry, life>>
linkVars     == <<chan, writer>>
processVars  == <<proc, view, inbox, out>>
vars == <<launcherVars, requests, spawnerVars, sup, linkVars, processVars>>

--------------------------------------------------------------------------------
(***************************************************************************)
(* The launcher.  animate_hide unmaps the window at once or, with           *)
(* animations, 120 ms later; a show() in between finds the window visible  *)
(* and does nothing.  gui.aside: it went by soft_hide and not by hide.     *)
(***************************************************************************)
Away(aside) ==
    IF Animated THEN [gui EXCEPT !.fading = TRUE, !.aside = aside]
    ELSE [gui EXCEPT !.visible = FALSE, !.aside = aside]

Shown == IF gui.visible THEN gui ELSE [gui EXCEPT !.visible = TRUE, !.aside = FALSE]

\* The closure animate_hide leaves behind.
FadeOut ==
    /\ gui.fading
    /\ gui' = [gui EXCEPT !.visible = FALSE, !.fading = FALSE]
    /\ UNCHANGED <<mode, made, requests, spawnerVars, sup, linkVars, processVars>>

\* send_request_fire_and_forget: a connection, and a task of the daemon, each.
Ask(op) ==
    /\ made < MaxRequests
    /\ made' = made + 1
    /\ requests' = requests \cup {[n |-> made + 1, op |-> op, epoch |-> 0]}

\* Space or Ctrl+Space on a result, or another result selected in preview mode.
QuickLook ==
    /\ gui.visible
    /\ mode' = TRUE
    /\ Ask("show")
    /\ UNCHANGED <<gui, spawnerVars, sup, linkVars, processVars>>

\* Escape, Space, or typing on: the preview goes, the launcher stays.
LeavePreview ==
    /\ gui.visible
    /\ mode
    /\ mode' = FALSE
    /\ Ask("hide")
    /\ UNCHANGED <<gui, spawnerVars, sup, linkVars, processVars>>

\* The hotkey: toggle() dismisses an active preview and hides, or shows.  A launch
\* from the launcher (clear_and_hide) hides the same way.
Toggle ==
    /\ "toggle" \in Env
    /\ \/ /\ gui.visible
          /\ gui' = Away(FALSE)
          /\ mode' = FALSE
          /\ IF mode THEN Ask("hide") ELSE UNCHANGED <<made, requests>>
       \/ /\ ~ gui.visible
          /\ gui' = Shown
          /\ UNCHANGED <<mode, made, requests>>
    /\ UNCHANGED <<spawnerVars, sup, linkVars, processVars>>

\* Paging, the window handle, and the geometry reported after each show.
Tell ==
    /\ gui.visible
    /\ \E op \in Ops \cap {"scroll", "parent", "unparent", "geometry"} :
          (op = "scroll" => mode) /\ Ask(op)
    /\ UNCHANGED <<gui, mode, spawnerVars, sup, linkVars, processVars>>

\* A command of the daemon reaches the launcher (gui_server dispatch).  PreviewNav
\* selects another result, which in preview mode asks for its preview; the 50 ms
\* debounce of the selection, dropped when the mode ends, is part of the step.
Obey(cmd) ==
    CASE cmd = "Show" -> /\ gui' = Shown
                         /\ UNCHANGED <<mode, made, requests>>
      [] cmd = "Hide" -> /\ gui' = Away(FALSE)
                         /\ mode' = FALSE
                         /\ UNCHANGED <<made, requests>>
      [] cmd = "SoftHide" -> /\ gui' = Away(TRUE)
                             /\ UNCHANGED <<mode, made, requests>>
      [] cmd = "ExitPreviewMode" -> /\ mode' = FALSE
                                    /\ UNCHANGED <<gui, made, requests>>
      [] cmd = "ClearSession" -> UNCHANGED <<gui, mode, made, requests>>
      [] cmd = "PreviewNav" -> /\ IF mode /\ made < MaxRequests THEN Ask("show")
                                  ELSE UNCHANGED <<made, requests>>
                               /\ UNCHANGED <<gui, mode>>

--------------------------------------------------------------------------------
(***************************************************************************)
(* PreviewSpawner: dispatch, hide, scroll, set_parent, clear_parent and    *)
(* set_launcher_geometry.  dispatch and hide take their epoch before they  *)
(* wait for the lock.                                                      *)
(***************************************************************************)
Dead == [stage |-> "dead", pid |-> NoPid, desired |-> 0, parent |-> FALSE,
         geometry |-> FALSE]

Owns(p) == life.pid = p

Command(op, e) == [op |-> op, epoch |-> e]

NewEpoch(r) ==
    /\ r.op \in {"show", "hide"}
    /\ r.epoch = 0
    /\ epoch' = epoch + 1
    /\ requests' = (requests \ {r}) \cup {[r EXCEPT !.epoch = epoch + 1]}
    /\ UNCHANGED <<launcherVars, geometry, life, sup, linkVars, processVars>>

\* Mutant: an unbounded queue.
Pushed_unbounded(p, c) == [chan EXCEPT ![p] = Append(@, c)]

\* try_send to a full queue drops the command.
Pushed(p, c) ==
    IF Len(chan[p]) < Capacity THEN [chan EXCEPT ![p] = Append(@, c)] ELSE chan

Gone(p) == writer[p] = "gone"

\* A command for a ready preview; a writer task that is gone makes it dead.
Forward(c) ==
    IF Gone(life.pid) THEN life' = Dead /\ UNCHANGED chan
    ELSE chan' = Pushed(life.pid, c) /\ UNCHANGED life

\* spawn_preview_process under the lock, and its supervisor.
ColdStart(r) ==
    \E p \in Pids :
        /\ proc[p] = "none"
        /\ proc' = [proc EXCEPT ![p] = "starting"]
        /\ sup' = [sup EXCEPT ![p].stage = "connecting"]
        /\ life' = [stage |-> "starting", pid |-> p, desired |-> r.epoch,
                    parent |-> FALSE, geometry |-> geometry]

\* Mutant: the warm process is not used again.
dispatch_always_cold(r) ==
    /\ r.op = "show"
    /\ r.epoch # 0
    /\ \/ /\ life.stage \in {"dead", "ready"}
          /\ ColdStart(r)
       \/ /\ life.stage = "starting"
          /\ life' = [life EXCEPT !.desired = r.epoch]
          /\ UNCHANGED <<proc, sup>>
    /\ UNCHANGED <<chan, geometry>>

dispatch(r) ==
    /\ r.op = "show"
    /\ r.epoch # 0
    /\ \/ /\ life.stage = "dead"
          /\ \/ ColdStart(r)
             \/ "spawnfail" \in Env /\ UNCHANGED <<life, proc, sup>>
          /\ UNCHANGED chan
       \/ /\ life.stage = "starting"
          /\ life' = [life EXCEPT !.desired = r.epoch]
          /\ UNCHANGED <<chan, proc, sup>>
       \/ /\ life.stage = "ready"
          /\ Forward(Command("show", r.epoch))
          /\ UNCHANGED <<proc, sup>>
    /\ UNCHANGED geometry

hide(r) ==
    /\ r.op = "hide"
    /\ r.epoch # 0
    /\ CASE life.stage = "dead" -> UNCHANGED <<life, chan>>
         [] life.stage = "starting" -> /\ life' = [life EXCEPT !.desired = 0]
                                       /\ UNCHANGED chan
         [] life.stage = "ready" -> Forward(Command("hide", r.epoch))
    /\ UNCHANGED <<geometry, proc, sup>>

scroll(r) ==
    /\ r.op = "scroll"
    /\ IF life.stage = "ready" THEN Forward(Command("scroll", epoch))
       ELSE UNCHANGED <<life, chan>>
    /\ UNCHANGED <<geometry, proc, sup>>

set_parent(r) ==
    /\ r.op \in {"parent", "unparent"}
    /\ CASE life.stage = "dead" -> UNCHANGED <<life, chan>>
         [] life.stage = "starting" -> /\ life' = [life EXCEPT !.parent = (r.op = "parent")]
                                       /\ UNCHANGED chan
         [] life.stage = "ready" -> Forward(Command(r.op, 0))
    /\ UNCHANGED <<geometry, proc, sup>>

set_launcher_geometry(r) ==
    /\ r.op = "geometry"
    /\ geometry' = TRUE
    /\ CASE life.stage = "dead" -> UNCHANGED <<life, chan>>
         [] life.stage = "starting" -> /\ life' = [life EXCEPT !.geometry = TRUE]
                                       /\ UNCHANGED chan
         [] life.stage = "ready" -> Forward(Command("geometry", 0))
    /\ UNCHANGED <<proc, sup>>

Serve(r) ==
    /\ dispatch(r) \/ hide(r) \/ scroll(r) \/ set_parent(r) \/ set_launcher_geometry(r)
    /\ requests' = requests \ {r}
    /\ UNCHANGED <<launcherVars, epoch, writer, view, inbox, out>>

--------------------------------------------------------------------------------
(***************************************************************************)
(* The supervisor task of a process and its writer task.  sup[p].gui are   *)
(* the commands for the launcher it is about to dispatch, one by one;      *)
(* sup[p].drain the buffered commands it took under the lock and sends     *)
(* after it.                                                               *)
(***************************************************************************)
NoTask == [stage |-> "none", gui |-> <<>>, drain |-> <<>>]

Connect(p) ==
    /\ sup[p].stage = "connecting"
    /\ proc[p] = "up"
    /\ sup' = [sup EXCEPT ![p].stage = "reading"]
    /\ writer' = [writer EXCEPT ![p] = "running"]
    /\ UNCHANGED <<launcherVars, requests, spawnerVars, chan, processVars>>

\* CONNECT_BUDGET is over: the process died, or is slow.
ConnectTimeout(p) ==
    /\ sup[p].stage = "connecting"
    /\ \/ proc[p] \in {"quit", "crashed"}
       \/ "slow" \in Env /\ proc[p] = "starting"
    /\ sup' = [sup EXCEPT ![p].stage = "resetting"]
    /\ UNCHANGED <<launcherVars, requests, spawnerVars, linkVars, processVars>>

\* The supervisor waits for the next event.
Reading(p) == sup[p].stage = "reading" /\ sup[p].gui = <<>> /\ sup[p].drain = <<>>

Optional(is, c) == IF is THEN <<c>> ELSE <<>>

Buffered ==
    Optional(life.parent, Command("parent", 0))
    \o Optional(life.desired # 0, Command("show", life.desired))
    \o Optional(life.geometry, Command("geometry", 0))

\* Ready: promote, and take the buffered commands.
OnReady(p) ==
    IF life.stage = "starting" /\ Owns(p)
    THEN /\ life' = [Dead EXCEPT !.stage = "ready", !.pid = p]
         /\ sup' = [sup EXCEPT ![p].drain = Buffered]
    ELSE /\ sup' = IF life.stage = "ready" THEN sup
                   ELSE [sup EXCEPT ![p].stage = "ending"]
         /\ UNCHANGED life

\* What the launcher is told of the other events.
Reaction(e) ==
    CASE e.event = "Closed" -> <<"Show", "ExitPreviewMode">>
      [] e.event = "Launched" -> <<"Hide", "ClearSession", "ExitPreviewMode">>
      [] e.event = "Error" -> Optional(e.epoch = epoch, "ExitPreviewMode")
      [] e.event = "NavKey" -> <<"PreviewNav">>
      [] e.event = "LauncherShow" -> <<"Show">>
      [] e.event = "LauncherSoftHide" -> <<"SoftHide">>

ReadEvent(p) ==
    /\ Reading(p)
    /\ out[p] # <<>>
    /\ out' = [out EXCEPT ![p] = Tail(@)]
    /\ IF Head(out[p]).event = "Ready" THEN OnReady(p)
       ELSE /\ sup' = [sup EXCEPT ![p].gui = Reaction(Head(out[p]))]
            /\ UNCHANGED life
    /\ UNCHANGED <<launcherVars, requests, epoch, geometry, linkVars, proc, view, inbox>>

Drain(p) ==
    /\ sup[p].stage = "reading"
    /\ sup[p].drain # <<>>
    /\ IF Gone(p)
       THEN /\ sup' = [sup EXCEPT ![p].stage = "ending", ![p].drain = <<>>]
            /\ UNCHANGED chan
       ELSE /\ chan' = Pushed(p, Head(sup[p].drain))
            /\ sup' = [sup EXCEPT ![p].drain = Tail(@)]
    /\ UNCHANGED <<launcherVars, requests, spawnerVars, writer, processVars>>

\* gui_control.dispatch of the next command.
TellLauncher(p) ==
    /\ sup[p].gui # <<>>
    /\ Obey(Head(sup[p].gui))
    /\ sup' = [sup EXCEPT ![p].gui = Tail(@)]
    /\ UNCHANGED <<spawnerVars, linkVars, processVars>>

\* End of file: the reader loop ends and the supervisor drops its sender.
Eof(p) ==
    /\ Reading(p)
    /\ out[p] = <<>>
    /\ proc[p] \in {"quit", "crashed"}
    /\ sup' = [sup EXCEPT ![p].stage = "ending"]
    /\ UNCHANGED <<launcherVars, requests, spawnerVars, linkVars, processVars>>

\* writer_handle.await is over.
JoinWriter(p) ==
    /\ sup[p].stage = "ending"
    /\ Gone(p)
    /\ sup' = [sup EXCEPT ![p].stage = "resetting"]
    /\ UNCHANGED <<launcherVars, requests, spawnerVars, linkVars, processVars>>

\* SIGTERM to a process that lives.
Terminated(p) == IF proc[p] \in {"starting", "up"} THEN [proc EXCEPT ![p] = "quit"] ELSE proc

NoView == [shown |-> FALSE, epoch |-> 0, hid |-> FALSE, idle |-> FALSE,
           check |-> FALSE, rect |-> FALSE]

\* Mutant: the lifecycle is left as it is.
reset_to_dead_keeps(p) ==
    /\ sup[p].stage = "resetting"
    /\ sup' = [sup EXCEPT ![p].stage = "killing"]
    /\ UNCHANGED <<launcherVars, requests, spawnerVars, linkVars, processVars>>

\* Under the lock: the lifecycle, unless a newer preview has it.
reset_to_dead(p) ==
    /\ sup[p].stage = "resetting"
    /\ life' = IF Owns(p) THEN Dead ELSE life
    /\ sup' = [sup EXCEPT ![p].stage = "killing"]
    /\ UNCHANGED <<launcherVars, requests, epoch, geometry, linkVars, processVars>>

\* After it: the signal, and the launcher is brought back.
Terminate(p) ==
    /\ sup[p].stage = "killing"
    /\ proc' = Terminated(p)
    /\ view' = [view EXCEPT ![p] = NoView]
    /\ sup' = [sup EXCEPT ![p].stage = "done", ![p].gui = <<"Show", "ExitPreviewMode">>]
    /\ UNCHANGED <<launcherVars, requests, spawnerVars, linkVars, inbox, out>>

\* The writer task: writing to a process that is gone ends it.
WriteCommand(p) ==
    /\ writer[p] = "running"
    /\ chan[p] # <<>>
    /\ IF proc[p] = "up"
       THEN /\ inbox' = [inbox EXCEPT ![p] = Append(@, Head(chan[p]))]
            /\ chan' = [chan EXCEPT ![p] = Tail(@)]
            /\ UNCHANGED writer
       ELSE /\ writer' = [writer EXCEPT ![p] = "gone"]
            /\ chan' = [chan EXCEPT ![p] = <<>>]
            /\ UNCHANGED inbox
    /\ UNCHANGED <<launcherVars, requests, spawnerVars, sup, proc, view, out>>

\* The supervisor holds a sender while it reads, the Ready state another one.
Senders(p) == sup[p].stage = "reading" \/ (life.stage = "ready" /\ Owns(p))

\* recv() finds the channel empty and closed.
WriterEnds(p) ==
    /\ writer[p] = "running"
    /\ chan[p] = <<>>
    /\ ~ Senders(p)
    /\ writer' = [writer EXCEPT ![p] = "gone"]
    /\ UNCHANGED <<launcherVars, requests, spawnerVars, sup, chan, processVars>>

Supervise(p) ==
    \/ Connect(p) \/ ConnectTimeout(p) \/ ReadEvent(p) \/ Drain(p) \/ TellLauncher(p)
    \/ Eof(p) \/ JoinWriter(p) \/ reset_to_dead(p) \/ Terminate(p)

--------------------------------------------------------------------------------
(***************************************************************************)
(* The preview process.                                                    *)
(***************************************************************************)
Event(name, e) == [event |-> name, epoch |-> e]

daemonVars == <<launcherVars, requests, spawnerVars, sup, linkVars>>

Boot(p) ==
    /\ proc[p] = "starting"
    /\ proc' = [proc EXCEPT ![p] = "up"]
    /\ out' = [out EXCEPT ![p] = <<Event("Ready", 0)>>]
    /\ UNCHANGED <<daemonVars, view, inbox>>

\* The launcher is brought back if it stepped aside for this window.
RestoreLauncher(p) == Optional(view[p].hid, Event("LauncherShow", 0))

\* Mutant: the window goes and nobody is told.
CloseWindow_silent(p, e) ==
    /\ view' = [view EXCEPT ![p].shown = FALSE, ![p].hid = FALSE, ![p].idle = TRUE]
    /\ UNCHANGED out

\* The window goes, the launcher is told, the idle timer runs.
CloseWindow(p, e) ==
    /\ view' = [view EXCEPT ![p].shown = FALSE, ![p].hid = FALSE, ![p].idle = TRUE]
    /\ out' = [out EXCEPT ![p] = @ \o RestoreLauncher(p) \o <<Event("Closed", e)>>]

\* update_launcher_visibility; whether both fit on the screen is left open.
UpdateVisibility(p, v, fits) ==
    IF ~ v.shown \/ ~ v.rect \/ v.hid = ~ fits
    THEN /\ view' = [view EXCEPT ![p] = v]
         /\ UNCHANGED out
    ELSE /\ view' = [view EXCEPT ![p] = [v EXCEPT !.hid = ~ fits]]
         /\ out' = [out EXCEPT ![p] = Append(@, Event(IF fits THEN "LauncherShow"
                                                      ELSE "LauncherSoftHide", 0))]

\* show_or_update presents the window or fails.
HandleShow(p, c) ==
    \/ /\ view' = [view EXCEPT ![p].epoch = c.epoch, ![p].idle = FALSE,
                               ![p].shown = TRUE, ![p].check = TRUE]
       /\ UNCHANGED out
    \/ /\ "builderror" \in Env
       /\ view' = [view EXCEPT ![p].epoch = c.epoch, ![p].idle = FALSE]
       /\ out' = [out EXCEPT ![p] = Append(@, Event("Error", c.epoch))]

handle_command(p) ==
    /\ proc[p] = "up"
    /\ inbox[p] # <<>>
    /\ inbox' = [inbox EXCEPT ![p] = Tail(@)]
    /\ LET c == Head(inbox[p]) IN
          \/ c.op = "show" /\ HandleShow(p, c)
          \/ c.op = "hide" /\ CloseWindow(p, c.epoch)
          \/ /\ c.op = "geometry"
             /\ \E fits \in BOOLEAN :
                   UpdateVisibility(p, [view[p] EXCEPT !.rect = TRUE], fits)
          \/ /\ c.op \in {"scroll", "parent", "unparent"}
             /\ UNCHANGED <<view, out>>
    /\ UNCHANGED <<daemonVars, proc>>

\* 100 ms after a show.
VisibilityTimer(p) ==
    /\ proc[p] = "up"
    /\ view[p].check
    /\ \E fits \in BOOLEAN :
          UpdateVisibility(p, [view[p] EXCEPT !.check = FALSE], fits)
    /\ UNCHANGED <<daemonVars, proc, inbox>>

\* Escape, Space, the close button.
close_via_keyboard(p) ==
    /\ proc[p] = "up"
    /\ view[p].shown
    /\ CloseWindow(p, view[p].epoch)
    /\ UNCHANGED <<daemonVars, proc, inbox>>

\* Enter: the hit is opened.  hid stays as it is.
run_plugin_launch(p) ==
    /\ "launch" \in Env
    /\ proc[p] = "up"
    /\ view[p].shown
    /\ view' = [view EXCEPT ![p].shown = FALSE, ![p].idle = TRUE]
    /\ out' = [out EXCEPT ![p] = Append(@, Event("Launched", view[p].epoch))]
    /\ UNCHANGED <<daemonVars, proc, inbox>>

\* An arrow key in the preview.
NavKey(p) ==
    /\ "nav" \in Env
    /\ proc[p] = "up"
    /\ view[p].shown
    /\ Len(out[p]) < MaxEvents
    /\ out' = [out EXCEPT ![p] = Append(@, Event("NavKey", view[p].epoch))]
    /\ UNCHANGED <<daemonVars, proc, view, inbox>>

Exit(p, how, kept) ==
    /\ proc[p] = "up"
    /\ proc' = [proc EXCEPT ![p] = how]
    /\ view' = [view EXCEPT ![p] = NoView]
    /\ inbox' = [inbox EXCEPT ![p] = <<>>]
    /\ out' = [out EXCEPT ![p] = SubSeq(@, 1, kept)]
    /\ UNCHANGED daemonVars

\* The idle timer, after every event has long been written.
IdleQuit(p) == view[p].idle /\ Exit(p, "quit", Len(out[p]))

\* A crash loses the events that were not yet written.
Crash(p) ==
    /\ "crash" \in Env
    /\ \E kept \in 0..Len(out[p]) : Exit(p, "crashed", kept)

--------------------------------------------------------------------------------
Init ==
    /\ gui = [visible |-> TRUE, fading |-> FALSE, aside |-> FALSE]
    /\ mode = FALSE
    /\ made = 0
    /\ requests = {}
    /\ epoch = 0
    /\ geometry \in BOOLEAN
    /\ life = Dead
    /\ sup = [p \in Pids |-> NoTask]
    /\ chan = [p \in Pids |-> <<>>]
    /\ writer = [p \in Pids |-> "none"]
    /\ proc = [p \in Pids |-> "none"]
    /\ view = [p \in Pids |-> NoView]
    /\ inbox = [p \in Pids |-> <<>>]
    /\ out = [p \in Pids |-> <<>>]

Task(p) ==
    \/ Supervise(p)
    \/ WriteCommand(p) \/ WriterEnds(p)
    \/ Boot(p) \/ handle_command(p) \/ VisibilityTimer(p)

User(p) == close_via_keyboard(p) \/ run_plugin_launch(p) \/ NavKey(p)

Next ==
    \/ FadeOut \/ QuickLook \/ LeavePreview \/ Toggle \/ Tell
    \/ \E r \in requests : NewEpoch(r) \/ Serve(r)
    \/ \E p \in Pids : Task(p) \/ User(p) \/ IdleQuit(p) \/ Crash(p)

Spec == Init /\ [][Next]_vars

\* Tasks and threads that can run do; timers fire.  Nothing is assumed of the
\* user, of crashes, or of the 60 s idle timer.
FairSpec ==
    /\ Spec
    /\ WF_vars(FadeOut)
    /\ WF_vars(\E r \in requests : NewEpoch(r) \/ Serve(r))
    /\ \A p \in Pids :
          /\ WF_vars(Supervise(p))
          /\ WF_vars(WriteCommand(p) \/ WriterEnds(p))
          /\ WF_vars(Boot(p) \/ handle_command(p))
          /\ WF_vars(VisibilityTimer(p))

--------------------------------------------------------------------------------
(***************************************************************************)
(* Properties.                                                             *)
(***************************************************************************)
Epochs == 0..MaxRequests

Commands == [op : OpKinds, epoch : Epochs]

ProcStates == {"none", "starting", "up", "quit", "crashed"}

\* Every variable has the shape the code's types give it; a queue holds no more
\* than its capacity.
TypeOK ==
    /\ gui \in [visible : BOOLEAN, fading : BOOLEAN, aside : BOOLEAN]
    /\ mode \in BOOLEAN
    /\ made \in 0..MaxRequests
    /\ \A r \in requests : r.n \in 1..made /\ r.op \in OpKinds /\ r.epoch \in Epochs
    /\ epoch \in Epochs
    /\ geometry \in BOOLEAN
    /\ life.stage \in {"dead", "starting", "ready"}
    /\ life.pid \in Pids \cup {NoPid}
    /\ \A p \in Pids :
          /\ sup[p].stage \in {"none", "connecting", "reading", "ending", "resetting", "killing", "done"}
          /\ chan[p] \in Seq(Commands) /\ Len(chan[p]) <= Capacity
          /\ writer[p] \in {"none", "running", "gone"}
          /\ proc[p] \in ProcStates
          /\ inbox[p] \in Seq(Commands)

\* One warm preview process per daemon: two never show a window at once, though
\* an old one may still be going when the next is started.
OneWindow == Cardinality({p \in Pids : view[p].shown}) <= 1

Watched(p) == sup[p].stage \in {"connecting", "reading", "ending", "resetting", "killing"}

\* A process that lives, and the one the lifecycle names, has a supervisor that
\* will still reset the lifecycle and kill it: nothing is left behind by a
\* connect that timed out, a writer that failed or a second cold start.
ProcessIsWatched ==
    \A p \in Pids :
        /\ proc[p] \in {"starting", "up"} => Watched(p)
        /\ Owns(p) => sup[p].stage \in {"connecting", "reading", "ending", "resetting"}

AnyWindow == \E p \in Pids : view[p].shown

NoneCrashed == \A p \in Pids : proc[p] # "crashed"

\* No show() is about to find the window on its way out.
NoShowWhileFading ==
    \A p \in Pids : sup[p].gui # <<>> /\ Head(sup[p].gui) = "Show" => ~ gui.fading

\* Unless a preview crashes or a show() comes while the window is fading out, the
\* launcher that stepped aside for a window does not stay away once no window is
\* left (update_launcher_visibility: "every close path restores visibility").
LauncherReturns ==
    [](NoneCrashed /\ NoShowWhileFading) => []<>(gui.visible \/ ~ gui.aside \/ AnyWindow)

--------------------------------------------------------------------------------
(***************************************************************************)
(* What comments of the code say and the code does not do.                 *)
(***************************************************************************)

\* preview_spawn.rs: "On preview exit we transition to `Dead` and the next dispatch
\* cold-starts again": a lifecycle that names a process that is gone comes to be dead.
ExitIsNoticed ==
    \A p \in Pids : proc[p] \in {"quit", "crashed"} ~> ~ Owns(p)
================================================================================
