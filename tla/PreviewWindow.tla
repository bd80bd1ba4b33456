---------------------------- MODULE PreviewWindow ----------------------------
(***************************************************************************)
(* The window of the preview process (crates/lixun-preview-bin): how it is *)
(* sized for a document, told apart from the user's own sizing, where the  *)
(* document's widget is mounted, the strip that reports a failed launch,   *)
(* and whether the launcher stays on screen beside it, which the launcher  *)
(* decides for itself with the same arithmetic                             *)
(* (crates/lixun-gui/src/preview_layout.rs).                               *)
(***************************************************************************)
EXTENDS Integers, FiniteSetsExt

CONSTANTS
    PwMonitors,     \* monitor |-> its width
    PwPercent, PwMaxPx, PwMinWidth,   \* [gui] preview_width_percent and its caps
    PwEdge, PwGap, PwLauncherMin,     \* margins, and the least width of a launcher
    PwLauncherWidth,
    PwUserSizes,    \* sizes the user drags the window to
    PwForced,       \* the least width of some contents
    PwScenes,       \* what one behaviour exercises: "size", "strip", "launcher"
    PwBound         \* how many sizings and failed launches there are

ASSUME PwAssumption ==
    /\ {PwPercent, PwMaxPx, PwMinWidth, PwEdge, PwGap, PwLauncherMin, PwLauncherWidth} \subseteq Nat
    /\ PwBound \in Nat

VARIABLES
    pwMay,       \* what this behaviour exercises
    pwLayer,     \* layer_shell_active: an overlay, anchored to the right
    pwWin,       \* the window: mapped, size, monitor, class of the last sizing,
                 \* scroller visible, where the content is mounted
    pwSizing,    \* user_resized, programmatic_size, _active and _gen
    pwSettle,    \* settle timers, by generation
    pwEcho,      \* generations whose configure has not come back
    pwStrip,     \* error strip shown (0: none), last one made, timers running
    pwLauncher,  \* the launcher: on screen, left edge, and what is known of it here
    pwCheck,     \* the check 100 ms after a show is to come
    pwTaken,     \* history: the size the user gave the settled window, 0 if none
    pwTouched    \* history: the user has sized the window since the class changed

pwVars == <<pwMay, pwLayer, pwWin, pwSizing, pwSettle, pwEcho, pwStrip, pwLauncher,
            pwCheck, pwTaken, pwTouched>>

Sizing ==
    [image |-> "FixedCap", av |-> "FixedCap", text |-> "FitToContent", code |-> "FitToContent",
     email |-> "FitToContent", info |-> "FitToContent", pdf |-> "OwnsScroll", office |-> "OwnsScroll",
     archive |-> "OwnsScroll", folder |-> "OwnsScroll"]
SizingClasses == {Sizing[p] : p \in DOMAIN Sizing}

-----------------------------------------------------------------------------
(* The arithmetic two processes agree on *)

AtMost(v, high) == IF v > high THEN high ELSE v
AtLeast(v, low) == IF v < low THEN low ELSE v

\* The preview's width on a monitor, and the launcher's prediction of it.
configured_preview_width(w) == AtLeast(AtMost((w * PwPercent) \div 100, PwMaxPx), PwMinWidth)

\* MUTANT: the launcher does not know the preview's least width.
predicted_preview_width_unfloored(w) == AtMost((w * PwPercent) \div 100, PwMaxPx)
predicted_preview_width(w) == AtLeast(AtMost((w * PwPercent) \div 100, PwMaxPx), PwMinWidth)
left_column_width(w, pw) == w - pw - PwEdge
launcher_fits_column(column, lw) == column >= AtLeast(lw, PwLauncherMin) + 2 * PwGap

\* The left edge a launcher slides to while a preview is open.
slide_left_margin(w, lw, pw) ==
    LET column == left_column_width(w, pw)
        centred == (w - lw) \div 2
    IN  IF ~pwLayer THEN PwEdge
        ELSE IF launcher_fits_column(column, lw) THEN AtLeast((column - lw) \div 2, 0) ELSE centred

launcher_fits_beside(w, lw, pw) ==
    w - pw - PwEdge >= AtLeast(lw, PwLauncherMin) + 2 * PwGap

\* MUTANT: the widths are compared, wherever the window manager puts them.
launcher_clears_centered_preview_anywhere(w, lw, pw) == launcher_fits_beside(w, lw, pw)
launcher_clears_centered_preview(w, lw, pw) ==
    PwEdge + AtLeast(lw, PwLauncherMin) + PwGap <= (w - pw) \div 2

-----------------------------------------------------------------------------
(* Sizing *)

\* MUTANT: a window that comes back is sized, whoever sized it last.
should_apply_sizing_reopened(class, latched) == class # pwWin.class \/ ~pwWin.mapped
\* MUTANT: a mapped window is left alone, whatever the class.
should_apply_sizing_mapped(class, latched) == ~latched /\ ~pwWin.mapped
should_apply_sizing(class, latched) ==
    \/ class # pwWin.class
    \/ ~latched /\ ~pwWin.mapped

SizeFor(class, monitor) ==
    IF class = "FitToContent" THEN PwMinWidth ELSE configured_preview_width(PwMonitors[monitor])

\* apply_sizing with set_default_size_tracked: the record first, then the size,
\* then a timer that lifts the guard if no newer sizing has taken it over.
apply_sizing(class, monitor) ==
    LET gen == pwSizing.gen + 1
    IN  /\ pwSizing' = [user |-> pwSizing.user /\ class = pwWin.class, record |-> SizeFor(class, monitor),
                        active |-> TRUE, gen |-> gen]
        /\ pwSettle' = pwSettle \cup {gen}
        /\ pwEcho' = IF SizeFor(class, monitor) = pwWin.size THEN pwEcho ELSE pwEcho \cup {gen}

\* note_default_size_change: while a sizing settles the size is recorded, and
\* afterwards one that differs from the record is the user's.
Noted(size) ==
    IF pwLayer THEN pwSizing
    ELSE IF pwSizing.active THEN [pwSizing EXCEPT !.record = size]
    ELSE [pwSizing EXCEPT !.user = @ \/ size # pwSizing.record]

\* The compositor answers a sizing, with that size, one it prefers, or the
\* least the content allows.
Configure ==
    /\ \E gen \in pwEcho, size \in {pwWin.size, PwMinWidth, PwForced} :
        /\ pwEcho' = pwEcho \ {gen}
        /\ pwWin' = [pwWin EXCEPT !.size = IF gen = pwSizing.gen THEN size ELSE pwWin.size]
        /\ pwSizing' = IF pwWin'.size = pwWin.size THEN pwSizing ELSE Noted(pwWin'.size)
        /\ pwTaken' = IF pwWin'.size = pwWin.size THEN pwTaken ELSE 0
    /\ UNCHANGED <<pwMay, pwLayer, pwSettle, pwStrip, pwLauncher, pwCheck, pwTouched>>

\* MUTANT: an old timer lifts the guard of a newer sizing.
Lifted_any(gen) == [pwSizing EXCEPT !.active = FALSE]
Lifted(gen) == [pwSizing EXCEPT !.active = @ /\ pwSizing.gen # gen]

\* The settle time is chosen to outlast the round trip of the configure.
SettleFires ==
    /\ \E gen \in pwSettle \ pwEcho :
        /\ pwSettle' = pwSettle \ {gen}
        /\ pwSizing' = Lifted(gen)
    /\ UNCHANGED <<pwMay, pwLayer, pwWin, pwEcho, pwStrip, pwLauncher, pwCheck, pwTaken, pwTouched>>

UserResizes ==
    /\ "size" \in pwMay /\ pwWin.mapped /\ ~pwLayer
    /\ \E size \in PwUserSizes \ {pwWin.size} :
        /\ pwWin' = [pwWin EXCEPT !.size = size]
        /\ pwSizing' = Noted(size)
        /\ pwTaken' = IF pwSizing.active THEN 0 ELSE size
    /\ pwTouched' = TRUE
    /\ UNCHANGED <<pwMay, pwLayer, pwSettle, pwEcho, pwStrip, pwLauncher, pwCheck>>

-----------------------------------------------------------------------------
(* Showing a document *)

\* The launcher slides when preview mode begins, by its own prediction.
Slid(monitor) ==
    [pwLauncher EXCEPT !.left = slide_left_margin(PwMonitors[monitor], PwLauncherWidth,
                                                  predicted_preview_width(PwMonitors[monitor]))]

\* show_or_update: the size, the header (with it goes any error strip), then
\* the widget, updated in place if its plugin can, else built and mounted
\* where its class belongs; 100 ms later the launcher is looked at.
show_or_update ==
    \E class \in SizingClasses, monitor \in DOMAIN PwMonitors :
        LET apply == should_apply_sizing(class, pwSizing.user /\ class = pwWin.class)
        IN  /\ pwSizing.gen < PwBound
            /\ "launcher" \in pwMay => monitor = pwLauncher.monitor
            /\ IF apply THEN apply_sizing(class, monitor)
               ELSE /\ pwSizing' = [pwSizing EXCEPT !.user = @ /\ class = pwWin.class]
                    /\ UNCHANGED <<pwSettle, pwEcho>>
            /\ pwWin' = [mapped |-> TRUE, monitor |-> monitor, class |-> class,
                         size |-> IF apply THEN SizeFor(class, monitor) ELSE pwWin.size,
                         scroller |-> IF apply THEN class # "OwnsScroll" ELSE pwWin.scroller,
                         content |-> IF class = "OwnsScroll" THEN "own" ELSE "scroller"]
            /\ pwTaken' = IF class = pwWin.class THEN pwTaken ELSE 0
            /\ pwTouched' = (pwTouched /\ class = pwWin.class)
            /\ pwStrip' = [pwStrip EXCEPT !.shown = 0, !.newest = 0]
            /\ pwLauncher' = IF pwWin.mapped THEN pwLauncher ELSE Slid(monitor)
            /\ pwCheck' = TRUE
            /\ UNCHANGED <<pwMay, pwLayer>>

\* Escape, Space, the close button and the daemon's Close or Hide: a launcher
\* hidden from here is shown again.
CloseWindow ==
    /\ pwWin.mapped
    /\ pwWin' = [pwWin EXCEPT !.mapped = FALSE]
    /\ pwLauncher' = [pwLauncher EXCEPT !.visible = TRUE, !.hidden_by_us = FALSE]
    /\ UNCHANGED <<pwMay, pwLayer, pwSizing, pwSettle, pwEcho, pwStrip, pwCheck, pwTaken, pwTouched>>

\* run_plugin_launch: the window goes and the daemon hides the launcher; what
\* was hidden from here is not cleared.  A failure leaves the window with a strip.
LaunchOpens ==
    /\ pwWin.mapped
    /\ pwWin' = [pwWin EXCEPT !.mapped = FALSE]
    /\ pwLauncher' = [pwLauncher EXCEPT !.visible = FALSE, !.launched = TRUE]
    /\ UNCHANGED <<pwMay, pwLayer, pwSizing, pwSettle, pwEcho, pwStrip, pwCheck, pwTaken, pwTouched>>
show_launch_error ==
    /\ "strip" \in pwMay /\ pwWin.mapped /\ pwStrip.made < PwBound
    /\ LET id == pwStrip.made + 1
       IN  pwStrip' = [shown |-> id, newest |-> id, made |-> id, timers |-> pwStrip.timers \cup {id}]
    /\ UNCHANGED <<pwMay, pwLayer, pwWin, pwSizing, pwSettle, pwEcho, pwLauncher, pwCheck, pwTaken, pwTouched>>

\* MUTANT: the timer takes down whichever strip is there.
StripGone_any(id) == 0
StripGone(id) == IF pwStrip.shown = id THEN 0 ELSE pwStrip.shown
StripTimer ==
    /\ \E id \in pwStrip.timers :
        pwStrip' = [pwStrip EXCEPT !.timers = @ \ {id}, !.shown = StripGone(id)]
    /\ UNCHANGED <<pwMay, pwLayer, pwWin, pwSizing, pwSettle, pwEcho, pwLauncher, pwCheck, pwTaken, pwTouched>>

-----------------------------------------------------------------------------
(* The launcher beside it *)

LauncherFits ==
    LET w == PwMonitors[pwWin.monitor]
        pw == AtLeast(pwWin.size, configured_preview_width(w))
    IN  IF pwLayer THEN launcher_fits_beside(w, PwLauncherWidth, pw)
        ELSE launcher_clears_centered_preview(w, PwLauncherWidth, pw)

\* update_launcher_visibility, unless nothing is known of the launcher: it is
\* hidden once when it would be covered, and restored when it would not.
Looked ==
    IF ~pwWin.mapped \/ ~pwLauncher.reported THEN pwLauncher
    ELSE IF pwWin.monitor # pwLauncher.monitor \/ LauncherFits
         THEN [pwLauncher EXCEPT !.visible = @ \/ pwLauncher.hidden_by_us, !.hidden_by_us = FALSE]
         ELSE [pwLauncher EXCEPT !.visible = @ /\ pwLauncher.hidden_by_us, !.hidden_by_us = TRUE]
update_launcher_visibility ==
    /\ pwCheck
    /\ pwCheck' = FALSE
    /\ pwLauncher' = Looked
    /\ UNCHANGED <<pwMay, pwLayer, pwWin, pwSizing, pwSettle, pwEcho, pwStrip, pwTaken, pwTouched>>

\* LauncherGeometry reaches the preview, which looks at once.
LauncherGeometry ==
    /\ "launcher" \in pwMay /\ ~pwLauncher.reported
    /\ pwLauncher' = [Looked EXCEPT !.reported = TRUE]
    /\ pwCheck' = TRUE
    /\ UNCHANGED <<pwMay, pwLayer, pwWin, pwSizing, pwSettle, pwEcho, pwStrip, pwTaken, pwTouched>>

\* The user calls the launcher back on a monitor of his.
LauncherCalled ==
    /\ "launcher" \in pwMay /\ ~pwWin.mapped
    /\ \E monitor \in DOMAIN PwMonitors :
        pwLauncher' = [pwLauncher EXCEPT !.visible = TRUE, !.monitor = monitor, !.reported = FALSE]
    /\ UNCHANGED <<pwMay, pwLayer, pwWin, pwSizing, pwSettle, pwEcho, pwStrip, pwCheck, pwTaken, pwTouched>>

PwInit ==
    /\ pwMay \in PwScenes /\ pwLayer \in BOOLEAN
    /\ pwWin = [mapped |-> FALSE, monitor |-> CHOOSE m \in DOMAIN PwMonitors : TRUE, class |-> "none",
                size |-> PwMinWidth, scroller |-> TRUE, content |-> "none"]
    /\ pwSizing = [user |-> FALSE, record |-> 0, active |-> FALSE, gen |-> 0]
    /\ pwSettle = {} /\ pwEcho = {} /\ pwCheck = FALSE /\ pwTaken = 0 /\ pwTouched = FALSE
    /\ pwStrip = [shown |-> 0, newest |-> 0, made |-> 0, timers |-> {}]
    /\ pwLauncher = [visible |-> TRUE, hidden_by_us |-> FALSE, reported |-> FALSE, launched |-> FALSE,
                     monitor |-> CHOOSE m \in DOMAIN PwMonitors : TRUE, left |-> 0]

PwNext ==
    \/ show_or_update \/ CloseWindow \/ LaunchOpens \/ show_launch_error \/ StripTimer
    \/ Configure \/ SettleFires \/ UserResizes
    \/ update_launcher_visibility \/ LauncherGeometry \/ LauncherCalled

PwSpec == PwInit /\ [][PwNext]_pwVars

-----------------------------------------------------------------------------
(* Properties *)

PwTypeOK ==
    /\ pwWin.class \in {"none", "FixedCap", "FitToContent", "OwnsScroll"}
    /\ pwSizing.gen \in 0 .. PwBound /\ pwSettle \subseteq 1 .. PwBound /\ pwEcho \subseteq pwSettle
    /\ pwStrip.timers \subseteq 1 .. PwBound /\ pwTaken \in PwUserSizes \cup {0}

\* The document is where it can be seen: in the host's scroller when that is
\* shown, beside it when it is not.
ContentVisible == pwWin.mapped => (pwWin.content = "scroller" <=> pwWin.scroller)

\* A size the user gave the settled window stays until another class of
\* document comes, over documents, hiding and monitors.
UserSizeKept == pwTaken # 0 => pwWin.size = pwTaken /\ pwSizing.user

\* The host does not take an echo of its own sizing for the user's hand.
EchoIsNotTheUser == pwSizing.user => pwTouched

\* A failed launch is reported for its whole time and for its document only.
StripStands ==
    /\ pwStrip.newest \in pwStrip.timers => pwStrip.shown = pwStrip.newest
    /\ pwStrip.shown # 0 => pwStrip.shown = pwStrip.newest /\ pwStrip.shown \in pwStrip.timers

\* Once the preview has looked, a launcher left on screen is not covered by
\* it: the two processes reckon alike.  (Not so after a launch, nor for a
\* preview wider than configured: see NeverCovered.)
SideBySide ==
    LET w == PwMonitors[pwWin.monitor]
        edge == IF pwLayer THEN w - pwWin.size - PwEdge ELSE (w - pwWin.size) \div 2
    IN  (/\ pwWin.mapped /\ pwLauncher.visible /\ pwLauncher.reported /\ ~pwCheck
         /\ pwLauncher.monitor = pwWin.monitor /\ ~pwLauncher.launched
         /\ pwWin.size <= configured_preview_width(w)) =>
            pwLauncher.left + PwLauncherWidth <= edge

\* A launcher hidden for the preview's sake comes back with its end.
LauncherComesBack == pwLauncher.hidden_by_us /\ ~pwLauncher.launched => pwWin.mapped

PwSound ==
    /\ ContentVisible /\ UserSizeKept /\ EchoIsNotTheUser /\ StripStands
    /\ "launcher" \in pwMay => SideBySide /\ LauncherComesBack

\* Refuted: main.rs:1109-1111 "every close path ... restores visibility via
\* launcher_hidden_by_us"; a launch closes the window and leaves the mark, so
\* the next preview takes the launcher for hidden and covers it.  Also, a
\* preview made wider by its content is reckoned with (main.rs:1190-1196),
\* but the launcher has slid by the configured width, and nothing looks again
\* when the size changes after the check.
NeverCovered ==
    LET w == PwMonitors[pwWin.monitor]
        edge == IF pwLayer THEN w - pwWin.size - PwEdge ELSE (w - pwWin.size) \div 2
    IN  (/\ pwWin.mapped /\ pwLauncher.visible /\ pwLauncher.reported /\ ~pwCheck
         /\ pwLauncher.monitor = pwWin.monitor) =>
            pwLauncher.left + PwLauncherWidth <= edge

\* Refuted: main.rs:700-703 "a user-resized window keeps its size until the
\* class changes"; sized while a sizing settles, it is recorded as the host's.
AnyUserSizeKept == pwTouched => pwSizing.user
==============================================================================
