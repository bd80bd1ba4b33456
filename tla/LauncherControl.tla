--------------------------- MODULE LauncherControl ---------------------------
(***************************************************************************)
(* The daemon's hold on the launcher process: GuiControl (gui_control.rs)  *)
(* probes, starts, adopts, terminates and quits it; the launcher takes its *)
(* socket when it starts (gui_server.rs).  Clients of the daemon ask for   *)
(* commands, and so does the main loop (main.rs) for each press of the     *)
(* global hotkey; the main loop also runs the shutdown.                    *)
(*                                                                         *)
(* Which command is sent does not matter here (PreviewSession has them);   *)
(* a process id is never used twice.  The socket is named by the process   *)
(* that bound it last, whether that process still lives or not.            *)
(***************************************************************************)
EXTENDS Naturals, FiniteSets

CONSTANTS
    GcMaxPids,         \* bound: launcher processes
    GcClients, GcMain, \* connections that ask for a command, and the main loop
    GcMaxRequests,     \* bound: commands asked for
    GcMaxFaults        \* bound: probes that time out, launchers that die, daemons that die

ASSUME LauncherAssumption ==
    /\ GcMain \notin GcClients
    /\ GcMaxPids \in Nat \ {0} /\ GcMaxRequests \in Nat /\ GcMaxFaults \in Nat

VARIABLES
    gui,       \* per process: where it is, whether it was told to go, who started it
    sock,      \* the process whose socket is at the path, NoGui without a file
    tracked,   \* State.pid
    gcLock,    \* a dispatch holds the state's lock
    reqs,      \* per asker, where its dispatch is
    attempt,   \* per asker, the launcher whose Pong wait_for_ready reads, or NoGui
    watchers,  \* exits whose watcher has not called on_child_exit yet
    stop,      \* shutdown(), and the pid it took
    life,      \* which start of the daemon this is
    gcCount    \* commands asked for and faults so far

gcVars == <<gui, sock, tracked, gcLock, reqs, attempt, watchers, stop, life, gcCount>>

GcPids == 1..GcMaxPids
NoGui  == 0
Askers == GcClients \cup {GcMain}
Alive(p) == gui[p].at \notin {"unborn", "dead", "reaped"}
Answers(p) == p # NoGui /\ gui[p].at = "serving"
Listens(p) == p # NoGui /\ gui[p].at \in {"serving", "quitting"}
NotStopping == [at |-> "no", pid |-> NoGui]

\* At the start of the daemon a launcher of an earlier one may be there.
GcInit ==
    /\ \E old \in {NoGui, 1} :
        /\ gui = [p \in GcPids |-> [at |-> IF p = old THEN "serving" ELSE "unborn",
                                    told |-> FALSE, by |-> 0]]
        /\ sock = old
    /\ tracked = NoGui /\ gcLock = FALSE /\ reqs = [d \in Askers |-> "idle"]
    /\ attempt = [d \in Askers |-> NoGui]
    /\ watchers = {} /\ stop = NotStopping /\ life = 1
    /\ gcCount = [asked |-> 0, faults |-> 0]

Fault == gcCount.faults < GcMaxFaults /\ gcCount' = [gcCount EXCEPT !.faults = @ + 1]
At(d, where) == reqs' = [reqs EXCEPT ![d] = where]
Gui(p, where) == gui' = [gui EXCEPT ![p].at = where]

--------------------------------------------------------------------------------
(***************************************************************************)
(* GuiControl::dispatch, one of d's.                                       *)
(***************************************************************************)
\* A connection asks, or the main loop takes a press of the hotkey.
GcAsk(d) ==
    /\ d = GcMain => stop.at = "no"
    /\ reqs[d] = "idle" /\ gcCount.asked < GcMaxRequests
    /\ gcCount' = [gcCount EXCEPT !.asked = @ + 1]
    /\ At(d, "lock")
    /\ UNCHANGED <<gui, sock, tracked, gcLock, attempt, watchers, stop, life>>

\* Mutant: the state is read without its lock.
GcEnter_unlocked(d) ==
    /\ reqs[d] = "lock"
    /\ gcLock' = TRUE /\ At(d, "probe")
    /\ UNCHANGED <<gui, sock, tracked, attempt, watchers, stop, life, gcCount>>

GcEnter(d) ==
    /\ reqs[d] = "lock" /\ ~gcLock
    /\ gcLock' = TRUE /\ At(d, "probe")
    /\ UNCHANGED <<gui, sock, tracked, attempt, watchers, stop, life, gcCount>>

\* socket_responds; with an answer the command goes out, whether the process is
\* tracked or adopted; without one the tracked process is told to go.
GcProbe(d) ==
    /\ reqs[d] = "probe"
    /\ \/ /\ Answers(sock)
          /\ At(d, "send") /\ gcLock' = FALSE
          /\ UNCHANGED <<gui, tracked, gcCount>>
       \/ /\ IF Answers(sock) THEN Fault ELSE UNCHANGED gcCount
          /\ At(d, "spawn")
          /\ tracked' = NoGui
          /\ gui' = IF tracked = NoGui THEN gui ELSE [gui EXCEPT ![tracked].told = TRUE]
          /\ UNCHANGED gcLock
    /\ UNCHANGED <<sock, attempt, watchers, stop, life>>

\* spawn, with the lock still held while the session's environment is looked up.
GcSpawn(d) ==
    /\ reqs[d] = "spawn"
    /\ gcLock' = FALSE
    /\ \/ \E p \in GcPids : /\ gui[p].at = "unborn" /\ \A q \in 1..(p - 1) : gui[q].at # "unborn"
                            /\ gui' = [gui EXCEPT ![p] = [at |-> "starting", told |-> FALSE, by |-> life]]
                            /\ tracked' = p
                            /\ At(d, "wait") /\ UNCHANGED gcCount
       \/ /\ \A p \in GcPids : gui[p].at # "unborn"
          /\ At(d, "idle") /\ UNCHANGED <<gui, tracked, gcCount>>
       \/ /\ Fault /\ At(d, "idle") /\ UNCHANGED <<gui, tracked>>
    /\ UNCHANGED <<sock, attempt, watchers, stop, life>>

\* Mutant: wait_for_ready without its deadline.
GcWait_forever(d) ==
    /\ reqs[d] = "wait" /\ UNCHANGED reqs
    /\ \/ attempt[d] = NoGui /\ Listens(sock) /\ attempt' = [attempt EXCEPT ![d] = sock]
       \/ attempt[d] # NoGui /\ ~Alive(attempt[d]) /\ attempt' = [attempt EXCEPT ![d] = NoGui]
    /\ UNCHANGED <<gui, sock, tracked, gcLock, watchers, stop, life, gcCount>>

\* wait_for_ready, without the lock: an attempt is a connection to whoever has the
\* socket, and the Pong of that process is read without a timeout.  An attempt
\* that fails (nobody listens, or the process died) is followed by the next one or
\* by the end of the dispatch: only there is the deadline looked at.
GcWait(d) ==
    /\ reqs[d] = "wait"
    /\ \/ /\ attempt[d] = NoGui /\ Listens(sock)
          /\ attempt' = [attempt EXCEPT ![d] = sock] /\ UNCHANGED reqs
       \/ attempt[d] = NoGui /\ ~Listens(sock) /\ At(d, "idle") /\ UNCHANGED attempt
       \/ /\ attempt[d] # NoGui /\ ~Alive(attempt[d])
          /\ attempt' = [attempt EXCEPT ![d] = NoGui] /\ (At(d, "idle") \/ UNCHANGED reqs)
    /\ UNCHANGED <<gui, sock, tracked, gcLock, watchers, stop, life, gcCount>>

\* send_command: answered, refused or timed out, the dispatch is over.
GcSend(d) ==
    /\ reqs[d] = "send"
    /\ At(d, "idle")
    /\ UNCHANGED <<gui, sock, tracked, gcLock, attempt, watchers, stop, life, gcCount>>

\* The child has been waited for.
GcReap(p) ==
    /\ gui[p].at = "dead" /\ gui[p].by = life
    /\ Gui(p, "reaped") /\ watchers' = watchers \cup {p}
    /\ UNCHANGED <<sock, tracked, gcLock, reqs, attempt, stop, life, gcCount>>

\* Mutant: whichever launcher exits, none is tracked any more.
on_child_exit_any(p) ==
    /\ p \in watchers /\ ~gcLock
    /\ watchers' = watchers \ {p}
    /\ tracked' = NoGui
    /\ UNCHANGED <<gui, sock, gcLock, reqs, attempt, stop, life, gcCount>>

on_child_exit(p) ==
    /\ p \in watchers /\ ~gcLock
    /\ watchers' = watchers \ {p}
    /\ tracked' = IF tracked = p THEN NoGui ELSE tracked
    /\ UNCHANGED <<gui, sock, gcLock, reqs, attempt, stop, life, gcCount>>

(***************************************************************************)
(* shutdown(), run by the main loop between two dispatches of its own.     *)
(***************************************************************************)
ShutdownBegins ==
    /\ stop.at = "no" /\ reqs[GcMain] = "idle" /\ ~gcLock
    /\ stop' = [at |-> IF tracked = NoGui THEN "down" ELSE "quit", pid |-> tracked]
    /\ tracked' = NoGui
    /\ UNCHANGED <<gui, sock, gcLock, reqs, attempt, watchers, life, gcCount>>

\* Quit goes to whoever has the socket.
ShutdownQuits ==
    /\ stop.at = "quit"
    /\ stop' = [stop EXCEPT !.at = "grace"]
    /\ IF Answers(sock) THEN Gui(sock, "quitting") ELSE UNCHANGED gui
    /\ UNCHANGED <<sock, tracked, gcLock, reqs, attempt, watchers, life, gcCount>>

\* Mutant: no SIGKILL after the second wait.
ShutdownWaits_gently ==
    /\ stop.at \in {"grace", "term"}
    /\ stop' = [stop EXCEPT !.at = IF @ = "grace" /\ Alive(stop.pid) THEN "term" ELSE "down"]
    /\ gui' = [gui EXCEPT ![stop.pid].told = TRUE]
    /\ UNCHANGED <<sock, tracked, gcLock, reqs, attempt, watchers, life, gcCount>>

\* wait_for_exit, then SIGTERM, then wait_for_exit, then SIGKILL.
ShutdownWaits ==
    /\ stop.at \in {"grace", "term"}
    /\ \/ /\ ~Alive(stop.pid)
          /\ stop' = [stop EXCEPT !.at = "down"] /\ UNCHANGED gui
       \/ /\ Alive(stop.pid) /\ stop.at = "grace"
          /\ stop' = [stop EXCEPT !.at = "term"]
          /\ gui' = [gui EXCEPT ![stop.pid].told = TRUE]
       \/ /\ Alive(stop.pid) /\ stop.at = "term"
          /\ stop' = [stop EXCEPT !.at = "down"]
          /\ Gui(stop.pid, "dead")
    /\ UNCHANGED <<sock, tracked, gcLock, reqs, attempt, watchers, life, gcCount>>

\* The daemon is killed and started again: what it knew is gone, its launcher
\* stays.
DaemonDies ==
    /\ life = 1 /\ Fault
    /\ life' = 2
    /\ tracked' = NoGui /\ gcLock' = FALSE /\ reqs' = [d \in Askers |-> "idle"]
    /\ attempt' = [d \in Askers |-> NoGui]
    /\ watchers' = {} /\ stop' = NotStopping
    /\ UNCHANGED <<gui, sock>>

(***************************************************************************)
(* The launcher process: gui_server::start and its end.                    *)
(***************************************************************************)
\* Another launcher that answers at the path: exit.  Else its file is removed.
GuiProbe(p) ==
    /\ gui[p].at = "starting"
    /\ \/ Answers(sock) /\ Gui(p, "dead") /\ UNCHANGED gcCount
       \/ Answers(sock) /\ Gui(p, "unlinking") /\ Fault
       \/ ~Answers(sock) /\ Gui(p, IF sock = NoGui THEN "binding" ELSE "unlinking") /\ UNCHANGED gcCount
    /\ UNCHANGED <<sock, tracked, gcLock, reqs, attempt, watchers, stop, life>>

GuiUnlink(p) ==
    /\ gui[p].at = "unlinking"
    /\ sock' = NoGui /\ Gui(p, "binding")
    /\ UNCHANGED <<tracked, gcLock, reqs, attempt, watchers, stop, life, gcCount>>

\* bind fails when a file is there: the launcher does not come up.
GuiBind(p) ==
    /\ gui[p].at = "binding"
    /\ IF sock = NoGui THEN sock' = p /\ Gui(p, "serving") ELSE Gui(p, "dead") /\ UNCHANGED sock
    /\ UNCHANGED <<tracked, gcLock, reqs, attempt, watchers, stop, life, gcCount>>

\* It answers the Ping of d's attempt, at some time or never, or drops the
\* connection (read_frame_sync after 500 ms): an attempt that fails as in GcWait.
GuiAnswers(d) ==
    /\ reqs[d] = "wait" /\ Listens(attempt[d])
    /\ attempt' = [attempt EXCEPT ![d] = NoGui]
    /\ \/ At(d, "send") /\ UNCHANGED gcCount
       \/ Fault /\ (At(d, "idle") \/ UNCHANGED reqs)
    /\ UNCHANGED <<gui, sock, tracked, gcLock, watchers, stop, life>>

\* It ends: told to, or by a fault.  The file of its socket stays.
GuiEnds(p) ==
    /\ Alive(p)
    /\ IF gui[p].told \/ gui[p].at = "quitting" THEN UNCHANGED gcCount ELSE Fault
    /\ Gui(p, "dead")
    /\ UNCHANGED <<sock, tracked, gcLock, reqs, attempt, watchers, stop, life>>

--------------------------------------------------------------------------------
Dispatch(d) == GcEnter(d) \/ GcProbe(d) \/ GcSpawn(d) \/ GcWait(d) \/ GcSend(d)
Shutdown    == ShutdownBegins \/ ShutdownQuits \/ ShutdownWaits
Launcher(p) == GuiProbe(p) \/ GuiUnlink(p) \/ GuiBind(p)

GcNext ==
    \/ \E d \in Askers : GcAsk(d) \/ Dispatch(d) \/ GuiAnswers(d)
    \/ \E p \in GcPids : Launcher(p) \/ GuiEnds(p) \/ GcReap(p) \/ on_child_exit(p)
    \/ Shutdown \/ DaemonDies

GcSpec == GcInit /\ [][GcNext]_gcVars

\* Every task of the daemon that can go on does; nothing is assumed of the
\* launcher, of the desktop's services or of the user.
GcFairSpec == GcSpec /\ \A d \in Askers : WF_gcVars(Dispatch(d))
--------------------------------------------------------------------------------
Places == {"unborn", "starting", "unlinking", "binding", "serving", "quitting", "dead", "reaped"}

\* The type of every variable; the lock is held by the one dispatch between its
\* probe and its spawn.
GcTypeOK ==
    /\ gui \in [GcPids -> [at : Places, told : BOOLEAN, by : 0..2]]
    /\ sock \in GcPids \cup {NoGui} /\ tracked \in GcPids \cup {NoGui}
    /\ gcLock \in BOOLEAN /\ life \in 1..2 /\ watchers \subseteq GcPids
    /\ reqs \in [Askers -> {"idle", "lock", "probe", "spawn", "wait", "send"}]
    /\ attempt \in [Askers -> GcPids \cup {NoGui}]
    /\ Cardinality({d \in Askers : reqs[d] \in {"probe", "spawn"}}) = IF gcLock THEN 1 ELSE 0
    /\ stop \in [at : {"no", "quit", "grace", "term", "down"}, pid : GcPids \cup {NoGui}]

\* A launcher the daemon started is its own until it is told to go: late exits of
\* earlier launchers, requests that meet one that is slow to bind, and the
\* shutdown included, it is the tracked one or the one shutdown() took, so that
\* the shutdown reaches it (gui_control.rs 54-138).
OursIsTracked ==
    \A p \in GcPids : Alive(p) /\ gui[p].by = life /\ ~gui[p].told /\ gui[p].at # "quitting"
                          => p \in {tracked, stop.pid}

\* When shutdown() returns, the process it took is gone (gui_control.rs 84-129).
ShutdownEndsIt == stop.at = "down" /\ stop.pid # NoGui => ~Alive(stop.pid)

\* The daemon and its launchers: none of its own runs without being tracked, and
\* none outlives the shutdown that took it.
LauncherOwned == OursIsTracked /\ ShutdownEndsIt

\* The dispatch reads from a launcher that lives and does not answer.
HeldByLauncher(d) == reqs[d] = "wait" /\ attempt[d] # NoGui /\ Alive(attempt[d])

\* Every request comes to an end, whatever becomes of the launcher it is meant for
\* and of the launchers it meets, unless a launcher that took wait_for_ready's
\* connection lives on for ever without answering it: no other wait of a dispatch,
\* for the lock, for a probe, a launcher or an answer, is without an end
\* (gui_control.rs 54-82, 140-160, 206-241).
RequestsReturn == \A d \in Askers : []<>(reqs[d] = "idle") \/ <>[]HeldByLauncher(d)

--------------------------------------------------------------------------------
(***************************************************************************)
(* What comments of the code say and the code does not do.                 *)
(***************************************************************************)
\* "lixun-gui did not become ready within CONNECT_TIMEOUT" (gui_control.rs
\* 220-225) is what a request is told at the deadline.  TLC refutes it: the
\* deadline is looked at between attempts, and an attempt has none.
RequestsAlwaysReturn == \A d \in Askers : reqs[d] # "idle" ~> reqs[d] = "idle"
================================================================================
