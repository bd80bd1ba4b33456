------------------------------ MODULE DaemonHost ------------------------------
(***************************************************************************)
(* The daemon and the desktop it runs in, three parts that do not meet:    *)
(* the global hotkey listener (hotkeys/), the impact profile that follows  *)
(* the battery and the clients' requests (battery.rs, main.rs), and the    *)
(* environment a launcher is started with (session_env.rs).  D-Bus         *)
(* services answer as they like.                                           *)
(***************************************************************************)
EXTENDS Naturals, Sequences, FiniteSets

CONSTANTS
    HkCapacity,      \* the capacity of the hotkey channel
    HkMaxPresses,    \* bound: presses of the hotkey
    MaxTransitions,  \* bound: changes between mains and battery
    MaxImpactSets    \* bound: ImpactSet requests

ASSUME HostAssumption ==
    /\ HkCapacity \in Nat \ {0} /\ HkMaxPresses \in Nat
    /\ MaxTransitions \in Nat /\ MaxImpactSets \in Nat

VARIABLES
    hk,         \* the listener and the status it publishes
    presses,    \* presses in its channel
    toggles,    \* presses so far, and how many of them the main loop has dispatched
    onBattery,  \* what UPower knows
    signals,    \* PropertiesChanged on their way to the watcher
    watcher,    \* watch_battery: where it is, last_on_battery, the level it applies
    profile,    \* the level of profile_swap and the nice value of the process
    setter,     \* a client's ImpactSet under way, and how many were made
    missed,     \* UPower changed between its first answer and the subscription
    env         \* a run of discover_gui_env_async: what it found and what it made

hkVars    == <<hk, presses, toggles>>
powerVars == <<onBattery, signals, watcher, profile, setter, missed>>
hostVars  == <<hkVars, powerVars, env>>

--------------------------------------------------------------------------------
(***************************************************************************)
(* The hotkey listener: kglobalaccel if its service is on the bus within   *)
(* the deadline, else the portal.  A portal that is not ready yet is asked *)
(* again after a pause.                                                    *)
(***************************************************************************)
HkInit ==
    /\ hk = [at |-> "probe", bound |-> FALSE, error |-> FALSE]
    /\ presses = 0 /\ toggles = [made |-> 0, heard |-> 0, done |-> 0]

\* Mutant: the error is recorded and bound is left as it was.
HkFailed_keeps_bound(h) == [h EXCEPT !.at = "failed", !.error = TRUE]

HkFailed(h) == [h EXCEPT !.at = "failed", !.bound = FALSE, !.error = TRUE]

\* kglobalaccel_available decides for the backend.
spawn_global_toggle_listener ==
    /\ hk.at = "probe"
    /\ \E backend \in {"register", "session"} : hk' = [hk EXCEPT !.at = backend]
    /\ UNCHANGED <<presses, toggles>>

\* doRegister and setShortcut; a key other than the one asked for is accepted.
\* The component is asked for only after the status says bound.
KGlobalAccelRun ==
    /\ \/ hk.at = "register" /\ hk' = [hk EXCEPT !.at = "component", !.bound = TRUE]
       \/ hk.at = "component" /\ hk' = [hk EXCEPT !.at = "subscribe"]
       \/ hk.at \in {"register", "component"} /\ hk' = HkFailed(hk)
    /\ UNCHANGED <<presses, toggles>>

\* How one request to the portal ends; what is not ready is worth another try.
PortalRequest == {"ok", "unready", "failed"}

\* CreateSession, then BindShortcuts, each repeated while the portal is not
\* ready; then the compositor's own binding, which changes nothing here.
PortalStep(from, to) ==
    /\ hk.at = from
    /\ \E answer \in PortalRequest :
          hk' = CASE answer = "ok"      -> [hk EXCEPT !.at = to, !.bound = to = "subscribe"]
                  [] answer = "unready" -> hk
                  [] answer = "failed"  -> HkFailed(hk)
    /\ UNCHANGED <<presses, toggles>>

PortalSession == PortalStep("session", "bind")
PortalBind    == PortalStep("bind", "subscribe")

\* supervisor_loop: a stream that ends, or cannot be had, is asked for again.
HkSubscribe ==
    /\ \/ hk.at = "subscribe" /\ hk' = [hk EXCEPT !.at = "listen"]
       \/ hk.at = "listen" /\ hk' = [hk EXCEPT !.at = "subscribe"]
    /\ UNCHANGED <<presses, toggles>>

\* Mutant: the channel takes a press whether it has room or not.
HkRoom_always == TRUE

HkRoom == presses < HkCapacity

\* A press is a signal: it reaches a subscribed listener, or nobody.
HkPress ==
    /\ toggles.made < HkMaxPresses
    /\ \/ /\ hk.at = "listen" /\ HkRoom
          /\ presses' = presses + 1
          /\ toggles' = [toggles EXCEPT !.made = @ + 1, !.heard = @ + 1]
       \/ /\ hk.at # "listen"
          /\ toggles' = [toggles EXCEPT !.made = @ + 1]
          /\ UNCHANGED presses
    /\ UNCHANGED hk

\* The main loop takes a press and dispatches Toggle (LauncherControl), also
\* those a listener left behind that has failed since.
MainTakesPress ==
    /\ presses > 0
    /\ presses' = presses - 1
    /\ toggles' = [toggles EXCEPT !.done = @ + 1]
    /\ UNCHANGED hk

HkNext == \/ spawn_global_toggle_listener \/ KGlobalAccelRun \/ PortalSession \/ PortalBind
          \/ HkSubscribe \/ HkPress \/ MainTakesPress

--------------------------------------------------------------------------------
(***************************************************************************)
(* The impact profile.                                                     *)
(***************************************************************************)
Levels == {"on_ac", "on_battery", "other"}
LevelFor(b) == IF b THEN "on_battery" ELSE "on_ac"
NoSet == [at |-> "idle", level |-> "other", count |-> 0]

PowerInit ==
    /\ onBattery = FALSE /\ signals = <<>> /\ missed = FALSE
    /\ watcher = [at |-> "get", last |-> FALSE, level |-> "on_ac"]
    /\ profile = [level |-> "on_ac", nice |-> "on_ac", changes |-> 0]
    /\ setter = NoSet

\* UPower notices the change and tells those who have subscribed.
Transition ==
    /\ profile.changes < MaxTransitions
    /\ profile' = [profile EXCEPT !.changes = @ + 1]
    /\ onBattery' = ~onBattery
    /\ signals' = IF watcher.at \in {"listen", "store"} THEN Append(signals, ~onBattery) ELSE signals
    /\ missed' = (missed \/ watcher.at \in {"first", "firstStore", "subscribe"})
    /\ UNCHANGED <<watcher, setter>>

\* read_on_battery; without UPower the watcher ends.
ReadOnBattery ==
    /\ watcher.at = "get"
    /\ \/ watcher' = [at |-> "first", last |-> onBattery, level |-> LevelFor(onBattery)]
       \/ watcher' = [watcher EXCEPT !.at = "off"]
    /\ UNCHANGED <<onBattery, signals, profile, setter, missed>>

\* Mutant: last_on_battery keeps its first value.
HotApply_forgets ==
    /\ watcher.at \in {"first", "listen"}
    /\ watcher.at = "listen" => signals # <<>>
    /\ LET level == IF watcher.at = "first" THEN watcher.level ELSE LevelFor(Head(signals))
           after == IF watcher.at = "first" THEN "subscribe" ELSE "listen"
           same  == watcher.at = "listen" /\ Head(signals) = watcher.last IN
       /\ signals' = IF watcher.at = "listen" THEN Tail(signals) ELSE signals
       /\ watcher' = [at |-> IF same \/ profile.level = level THEN after
                             ELSE IF watcher.at = "first" THEN "firstStore" ELSE "store",
                      last |-> watcher.last, level |-> level]
       /\ profile' = IF same \/ profile.level = level THEN profile ELSE [profile EXCEPT !.nice = level]
    /\ UNCHANGED <<onBattery, setter, missed>>

\* hot_apply: nothing for the level in force; else the nice value, then the swap.
HotApply ==
    /\ watcher.at \in {"first", "listen"}
    /\ watcher.at = "listen" => signals # <<>>
    /\ LET level == IF watcher.at = "first" THEN watcher.level ELSE LevelFor(Head(signals))
           after == IF watcher.at = "first" THEN "subscribe" ELSE "listen"
           same  == watcher.at = "listen" /\ Head(signals) = watcher.last IN
       /\ signals' = IF watcher.at = "listen" THEN Tail(signals) ELSE signals
       /\ watcher' = [at |-> IF same \/ profile.level = level THEN after
                             ELSE IF watcher.at = "first" THEN "firstStore" ELSE "store",
                      last |-> level = "on_battery", level |-> level]
       /\ profile' = IF same \/ profile.level = level THEN profile ELSE [profile EXCEPT !.nice = level]
    /\ UNCHANGED <<onBattery, setter, missed>>

HotApplyStores ==
    /\ watcher.at \in {"firstStore", "store"}
    /\ profile' = [profile EXCEPT !.level = watcher.level]
    /\ watcher' = [watcher EXCEPT !.at = IF @ = "store" THEN "listen" ELSE "subscribe"]
    /\ UNCHANGED <<onBattery, signals, setter, missed>>

Subscribe ==
    /\ watcher.at = "subscribe"
    /\ \E at \in {"listen", "off"} : watcher' = [watcher EXCEPT !.at = at]
    /\ UNCHANGED <<onBattery, signals, profile, setter, missed>>

\* ImpactSet: the nice value, then the swap.
ImpactSet(level) ==
    /\ setter.at = "idle" /\ setter.count < MaxImpactSets
    /\ setter' = [at |-> "store", level |-> level, count |-> setter.count + 1]
    /\ profile' = [profile EXCEPT !.nice = level]
    /\ UNCHANGED <<onBattery, signals, watcher, missed>>

ImpactSetStores ==
    /\ setter.at = "store"
    /\ setter' = [setter EXCEPT !.at = "idle"]
    /\ profile' = [profile EXCEPT !.level = setter.level]
    /\ UNCHANGED <<onBattery, signals, watcher, missed>>

PowerNext == \/ Transition \/ ReadOnBattery \/ HotApply \/ HotApplyStores \/ Subscribe
             \/ (\E l \in Levels : ImpactSet(l)) \/ ImpactSetStores

--------------------------------------------------------------------------------
(***************************************************************************)
(* The environment of a launcher.  A key is there or not; of the desktop's *)
(* name it matters whether it is KDE.  The keys that are only passed on    *)
(* (XDG_RUNTIME_DIR, the bus, the data directories) are left out.          *)
(***************************************************************************)
Keys == {"WAYLAND_DISPLAY", "DISPLAY", "XAUTHORITY", "XDG_SESSION_TYPE",
         "XDG_CURRENT_DESKTOP", "KDE_SESSION_VERSION"}
Artifacts == {"wayland", "xauth", "x11"}
NoEnv == [done |-> FALSE]

\* Mutant: a display is announced whether there is a cookie or not.
discover_gui_env_at_bare(inherited, found) ==
    inherited \cup (IF "wayland" \in found THEN {"WAYLAND_DISPLAY"} ELSE {})
              \cup (IF "xauth" \in found THEN {"XAUTHORITY"} ELSE {})
              \cup (IF "x11" \in found THEN {"DISPLAY"} ELSE {})

\* The first pass: inherited keys, then what the session left on disk, the
\* session type from whichever display there is.
discover_gui_env_at(inherited, found) ==
    LET wayland == IF "wayland" \in found THEN {"WAYLAND_DISPLAY"} ELSE {}
        cookie  == inherited \cup wayland \cup (IF "xauth" \in found THEN {"XAUTHORITY"} ELSE {})
        display == cookie \cup (IF "XAUTHORITY" \in cookie /\ "x11" \in found THEN {"DISPLAY"} ELSE {})
    IN  display \cup (IF display \cap {"WAYLAND_DISPLAY", "DISPLAY"} # {} THEN {"XDG_SESSION_TYPE"} ELSE {})

\* The second pass: what is missing from the manager's environment; a KDE
\* desktop goes out with its version or not at all.
overlay_manager_env(keys, manager, kde) ==
    LET all == keys \cup manager IN
    IF kde /\ "KDE_SESSION_VERSION" \notin all THEN all \ {"XDG_CURRENT_DESKTOP"} ELSE all

\* kde: the desktop's name, wherever it comes from, is KDE's.
discover_gui_env_async ==
    /\ env = NoEnv
    /\ \E inherited \in SUBSET Keys, found \in SUBSET Artifacts, manager \in SUBSET (Keys \ {"WAYLAND_DISPLAY", "XDG_SESSION_TYPE"}),
          kde \in BOOLEAN, answers \in BOOLEAN :
        LET first == discover_gui_env_at(inherited, found) IN
        env' = [done |-> TRUE, inherited |-> inherited, manager |-> manager, kde |-> kde, answers |-> answers,
                keys |-> IF answers /\ first # Keys THEN overlay_manager_env(first, manager, kde) ELSE first]

--------------------------------------------------------------------------------
HostInit == HkInit /\ PowerInit /\ env = NoEnv

HostNext ==
    \/ HkNext /\ UNCHANGED <<powerVars, env>>
    \/ PowerNext /\ UNCHANGED <<hkVars, env>>
    \/ discover_gui_env_async /\ UNCHANGED <<hkVars, powerVars>>

HostSpec == HostInit /\ [][HostNext]_hostVars

\* The main loop goes on while it can.
HostFairSpec == HostSpec /\ WF_hkVars(MainTakesPress)
--------------------------------------------------------------------------------
\* The type of every variable; the hotkey channel stays within its capacity.
HostTypeOK ==
    /\ presses \in 0..HkCapacity /\ toggles \in [made : Nat, heard : Nat, done : Nat]
    /\ hk.bound \in BOOLEAN /\ hk.error \in BOOLEAN
    /\ onBattery \in BOOLEAN /\ missed \in BOOLEAN /\ signals \in Seq(BOOLEAN)
    /\ watcher.at \in {"get", "first", "firstStore", "subscribe", "listen", "store", "off"}
    /\ watcher.last \in BOOLEAN /\ watcher.level \in Levels
    /\ profile.level \in Levels /\ profile.nice \in Levels
    /\ setter.at \in {"idle", "store"}

\* The status the daemon reports of its hotkey (hotkeys/mod.rs 39-44): an error
\* exactly when the listener gave up, and bound exactly from the registration on
\* until then.
HotkeyStatusHonest ==
    /\ hk.error <=> hk.at = "failed"
    /\ hk.bound <=> hk.at \in {"component", "subscribe", "listen"}

\* The profile follows the battery: once the watcher listens and has nothing to
\* do, the level in force is the one for the battery's state, unless a client
\* chose another one, or the battery changed between the watcher's first look
\* and its subscription, which the code misses (battery.rs 58-93).
BatteryFollowed ==
    (watcher.at = "listen" /\ signals = <<>> /\ setter.count = 0 /\ ~missed)
        => profile.level = LevelFor(onBattery) /\ profile.nice = profile.level

\* A launcher's environment: no inherited key is lost, no display is announced
\* without a cookie unless the session said so itself, and a KDE desktop without
\* its version only if the manager could not be asked (session_env.rs 141-300).
GuiEnvSound ==
    env.done =>
        /\ env.inherited \ {"XDG_CURRENT_DESKTOP"} \subseteq env.keys
        /\ "DISPLAY" \in env.keys =>
               "XAUTHORITY" \in env.keys \/ "DISPLAY" \in env.inherited \cup env.manager
        /\ (env.kde /\ env.answers /\ "XDG_CURRENT_DESKTOP" \in env.keys)
               => "KDE_SESSION_VERSION" \in env.keys

\* What the daemon's host services report and apply: the status of the hotkey,
\* the profile of the battery and the environment of a launcher.
HostSafe == HotkeyStatusHonest /\ BatteryFollowed /\ GuiEnvSound
================================================================================
