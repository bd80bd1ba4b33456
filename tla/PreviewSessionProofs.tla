------------------------- MODULE PreviewSessionProofs -------------------------
(***************************************************************************)
(* Theorems about Quick Look, for every set of processes, any number of    *)
(* requests and every capacity of the command queue.                       *)
(***************************************************************************)
EXTENDS PreviewSession, FiniteSetTheorems, SequenceTheorems, TLAPS

\* What the daemon tells the launcher on behalf of a preview.
GuiCommands == {"Show", "Hide", "SoftHide", "ExitPreviewMode", "ClearSession", "PreviewNav"}
EventNames  == {"Ready", "Closed", "Launched", "Error", "NavKey", "LauncherShow", "LauncherSoftHide"}
Events      == [event : EventNames, epoch : Epochs]
SupStages   == {"none", "connecting", "reading", "ending", "resetting", "killing", "done"}
LifeStates  == [stage : {"dead", "starting", "ready"}, pid : Pids \cup {NoPid}, desired : Epochs,
                parent : BOOLEAN, geometry : BOOLEAN]
SupTasks    == [stage : SupStages, gui : Seq(GuiCommands), drain : Seq(Commands)]
Views       == [shown : BOOLEAN, epoch : Epochs, hid : BOOLEAN, idle : BOOLEAN, check : BOOLEAN, rect : BOOLEAN]
\* A request with its number and its epoch, not bounded by the instance.
AllRequests == [n : Nat, op : OpKinds, epoch : Nat]

\* The requests of the launcher; each that waits for its epoch was made, so there
\* are no more epochs than requests.
Unnumbered == {r \in requests : r.epoch = 0}

\* The launcher and its requests: none is of a later epoch than the last one given
\* out, and the epochs given out with the requests still to be given one are no
\* more than the requests made.
LauncherInv ==
    /\ gui \in [visible : BOOLEAN, fading : BOOLEAN, aside : BOOLEAN]
    /\ mode \in BOOLEAN /\ made \in 0..MaxRequests /\ epoch \in Nat
    /\ requests \subseteq AllRequests /\ IsFiniteSet(requests)
    /\ \A r \in requests : r.n \in 1..made /\ r.epoch <= epoch
    /\ epoch + Cardinality(Unnumbered) <= made

\* The daemon's side and the processes.
LinkTypes ==
    /\ geometry \in BOOLEAN /\ life \in LifeStates
    /\ sup \in [Pids -> SupTasks]
    /\ chan \in [Pids -> Seq(Commands)] /\ \A p \in Pids : Len(chan[p]) <= Capacity
    /\ writer \in [Pids -> {"none", "running", "gone"}]
    /\ proc \in [Pids -> ProcStates] /\ view \in [Pids -> Views]
    /\ inbox \in [Pids -> Seq(Commands)] /\ out \in [Pids -> Seq(Events)]

\* The process commands are sent to.
Served(p) == life.stage = "ready" /\ Owns(p)

\* A process that shows a window, or has a command under way, is the one the
\* lifecycle names as ready; while it runs its supervisor reads and its writer
\* writes, so nothing but its end takes the lifecycle away from it.
ServedInv(p) ==
    /\ view[p].shown => proc[p] = "up" /\ Served(p)
    /\ proc[p] = "up" /\ (inbox[p] # <<>> \/ chan[p] # <<>> \/ sup[p].drain # <<>>) => Served(p)
    /\ Served(p) /\ proc[p] = "up" => sup[p].stage = "reading"
    /\ Served(p) => proc[p] \notin {"none", "starting"}
    /\ sup[p].stage = "reading" => proc[p] \notin {"none", "starting"}
    /\ sup[p].stage = "reading" /\ proc[p] = "up" => writer[p] = "running"
    /\ proc[p] \in {"none", "starting"} => inbox[p] = <<>> /\ chan[p] = <<>> /\ sup[p].drain = <<>>

\* The lifecycle names a process unless it is dead, and each process is served by
\* its tasks as the code's stages say.
WindowInv ==
    /\ life.stage = "dead" <=> life.pid = NoPid
    /\ \A p \in Pids : ServedInv(p)

\* The inductive invariant of the preview lifecycle.
PvInv == LauncherInv /\ LinkTypes /\ WindowInv /\ ProcessIsWatched

--------------------------------------------------------------------------------
(***************************************************************************)
(* The launcher's requests and their epochs.                               *)
(***************************************************************************)
\* The daemon starts without a preview.
LEMMA PvInvInit == Init => PvInv
  <1> SUFFICES ASSUME Init PROVE PvInv
    OBVIOUS
  <1> USE PreviewAssumption DEF Init
  <1>1. LauncherInv
    <2>1. Unnumbered = {}
      BY DEF Unnumbered
    <2>2. IsFiniteSet({}) /\ Cardinality({}) = 0
      BY FS_EmptySet
    <2>3. gui \in [visible : BOOLEAN, fading : BOOLEAN, aside : BOOLEAN] /\ mode \in BOOLEAN
      OBVIOUS
    <2> QED
      BY <2>1, <2>2, <2>3 DEF LauncherInv
  <1>2. LinkTypes
    <2> USE DEF Epochs
    <2>1. Dead \in LifeStates /\ geometry \in BOOLEAN
      BY DEF Dead, LifeStates
    <2>2. NoTask \in SupTasks
      BY DEF NoTask, SupTasks, SupStages
    <2>3. NoView \in Views
      BY DEF NoView, Views
    <2>4. sup \in [Pids -> SupTasks] /\ view \in [Pids -> Views]
      BY <2>2, <2>3
    <2>5. /\ chan \in [Pids -> Seq(Commands)] /\ \A p \in Pids : Len(chan[p]) <= Capacity
          /\ inbox \in [Pids -> Seq(Commands)] /\ out \in [Pids -> Seq(Events)]
      OBVIOUS
    <2>6. writer \in [Pids -> {"none", "running", "gone"}] /\ proc \in [Pids -> ProcStates]
      BY DEF ProcStates
    <2> QED
      BY <2>1, <2>4, <2>5, <2>6 DEF LinkTypes
  <1>3. WindowInv
    BY DEF WindowInv, ServedInv, Served, Owns, Dead, NoTask, NoView
  <1>4. ProcessIsWatched
    BY DEF ProcessIsWatched, Owns, Dead, Watched
  <1> QED
    BY <1>1, <1>2, <1>3, <1>4 DEF PvInv

\* A request that is made, or none.
LEMMA AskKeepsInv ==
    ASSUME LauncherInv, NEW op \in OpKinds, Ask(op) \/ UNCHANGED <<made, requests>>, epoch' = epoch,
           gui' \in [visible : BOOLEAN, fading : BOOLEAN, aside : BOOLEAN], mode' \in BOOLEAN
    PROVE  LauncherInv'
  <1>1. CASE UNCHANGED <<made, requests>>
    BY <1>1 DEF LauncherInv, Unnumbered
  <1>2. CASE Ask(op)
    <2> DEFINE r == [n |-> made + 1, op |-> op, epoch |-> 0]
    <2>1. made \in Nat /\ made' = made + 1 /\ made' \in 0..MaxRequests /\ requests' = requests \cup {r}
      BY <1>2, PreviewAssumption DEF Ask, LauncherInv
    <2>2. r \in AllRequests /\ r.n = made + 1 /\ r.epoch = 0
      BY <2>1 DEF AllRequests
    <2> HIDE DEF r
    <2>3. Unnumbered' = Unnumbered \cup {r} /\ IsFiniteSet(Unnumbered)
      BY <2>1, <2>2, FS_Subset DEF LauncherInv, Unnumbered
    <2>4. Cardinality(Unnumbered') <= Cardinality(Unnumbered) + 1 /\ Cardinality(Unnumbered) \in Nat
      <3>1. Cardinality(Unnumbered) \in Nat
        BY <2>3, FS_CardinalityType
      <3>2. /\ IsFiniteSet(Unnumbered \cup {r})
            /\ Cardinality(Unnumbered \cup {r}) = IF r \in Unnumbered THEN Cardinality(Unnumbered)
                                                 ELSE Cardinality(Unnumbered) + 1
        BY <2>3, FS_AddElement
      <3>3. Cardinality(Unnumbered') = Cardinality(Unnumbered \cup {r})
        BY <2>3
      <3> HIDE DEF Unnumbered
      <3> QED
        BY <3>1, <3>2, <3>3
    <2>5. IsFiniteSet(requests') /\ Cardinality(Unnumbered') \in Nat
      BY <2>1, <2>3, FS_AddElement, FS_CardinalityType DEF LauncherInv
    <2>6. \A t \in requests' : t.n \in 1..made' /\ t.epoch <= epoch'
      BY <2>1, <2>2 DEF LauncherInv, AllRequests
    <2>7. epoch' + Cardinality(Unnumbered') <= made'
      BY <2>1, <2>4, <2>5 DEF LauncherInv
    <2> QED
      BY <2>1, <2>2, <2>5, <2>6, <2>7 DEF LauncherInv
  <1> QED
    BY <1>1, <1>2

\* What makes the launcher's window come and go keeps its shape.
LEMMA WindowShape ==
    ASSUME LauncherInv
    PROVE  /\ \A aside \in BOOLEAN : Away(aside) \in [visible : BOOLEAN, fading : BOOLEAN, aside : BOOLEAN]
           /\ Shown \in [visible : BOOLEAN, fading : BOOLEAN, aside : BOOLEAN]
  BY DEF LauncherInv, Away, Shown

\* The launcher's own actions.
LEMMA LauncherKeepsInv ==
    ASSUME PvInv, FadeOut \/ QuickLook \/ LeavePreview \/ Toggle \/ Tell
    PROVE  PvInv'
  <1>1. UNCHANGED <<spawnerVars, sup, linkVars, processVars>>
    BY DEF FadeOut, QuickLook, LeavePreview, Toggle, Tell
  <1>2. LinkTypes' /\ WindowInv' /\ ProcessIsWatched'
    BY <1>1 DEF PvInv, LinkTypes, WindowInv, ServedInv, Served, Owns, ProcessIsWatched, Watched,
                spawnerVars, linkVars, processVars
  <1>3. epoch' = epoch
    BY <1>1 DEF spawnerVars
  <1>4. gui' \in [visible : BOOLEAN, fading : BOOLEAN, aside : BOOLEAN]
    BY WindowShape DEF PvInv, LauncherInv, FadeOut, QuickLook, LeavePreview, Toggle, Tell
  <1>5. mode' \in BOOLEAN
    BY DEF PvInv, LauncherInv, FadeOut, QuickLook, LeavePreview, Toggle, Tell
  <1>6. \E op \in OpKinds : Ask(op) \/ UNCHANGED <<made, requests>>
    BY DEF FadeOut, QuickLook, LeavePreview, Toggle, Tell, OpKinds
  <1>7. LauncherInv'
    BY <1>3, <1>4, <1>5, <1>6, AskKeepsInv DEF PvInv
  <1> QED
    BY <1>2, <1>7 DEF PvInv

\* fetch_add: an unnumbered request gets the next epoch.
LEMMA NewEpochKeepsInv ==
    ASSUME PvInv, NEW r \in requests, NewEpoch(r)
    PROVE  PvInv'
  <1> DEFINE t == [r EXCEPT !.epoch = epoch + 1]
  <1>1. UNCHANGED <<launcherVars, geometry, life, sup, linkVars, processVars>>
    BY DEF NewEpoch
  <1>2. LinkTypes' /\ WindowInv' /\ ProcessIsWatched'
    BY <1>1 DEF PvInv, LinkTypes, WindowInv, ServedInv, Served, Owns, ProcessIsWatched, Watched,
                linkVars, processVars
  <1>3. r.epoch = 0 /\ epoch' = epoch + 1 /\ epoch \in Nat /\ requests' = (requests \ {r}) \cup {t}
    BY DEF NewEpoch, PvInv, LauncherInv
  <1>4. t \in AllRequests /\ t.epoch = epoch + 1 /\ t.n = r.n
    BY <1>3 DEF PvInv, LauncherInv, AllRequests
  <1> HIDE DEF t
  <1>5. r \in Unnumbered /\ IsFiniteSet(Unnumbered) /\ Unnumbered' = Unnumbered \ {r}
    BY <1>3, <1>4, FS_Subset DEF PvInv, LauncherInv, Unnumbered
  <1>6. Cardinality(Unnumbered') = Cardinality(Unnumbered) - 1 /\ Cardinality(Unnumbered) \in Nat
    BY <1>5, FS_RemoveElement, FS_CardinalityType
  <1>7. IsFiniteSet(requests')
    BY <1>3, FS_RemoveElement, FS_AddElement DEF PvInv, LauncherInv
  <1>8. gui' = gui /\ mode' = mode /\ made' = made
    BY <1>1 DEF launcherVars
  <1>9. \A q \in requests' : q.n \in 1..made' /\ q.epoch <= epoch'
    BY <1>3, <1>4, <1>8 DEF PvInv, LauncherInv, AllRequests
  <1>10. epoch' + Cardinality(Unnumbered') <= made'
    BY <1>3, <1>6, <1>8 DEF PvInv, LauncherInv
  <1>11. LauncherInv'
    BY <1>3, <1>4, <1>7, <1>8, <1>9, <1>10 DEF PvInv, LauncherInv
  <1> QED
    BY <1>2, <1>11 DEF PvInv

\* A request that was made has an epoch within the bound.
LEMMA EpochsBounded ==
    ASSUME LauncherInv
    PROVE  epoch \in Epochs /\ \A r \in requests : r.op \in OpKinds /\ r.epoch \in Epochs
  <1>1. Cardinality(Unnumbered) \in Nat
    BY FS_Subset, FS_CardinalityType DEF LauncherInv, Unnumbered
  <1>2. epoch \in 0..MaxRequests
    BY <1>1, PreviewAssumption DEF LauncherInv
  <1> QED
    BY <1>2, PreviewAssumption DEF LauncherInv, AllRequests, Epochs

--------------------------------------------------------------------------------
(***************************************************************************)
(* The daemon's answer to a request.                                       *)
(***************************************************************************)
\* What the invariants say of a process that a step does not touch.
LEMMA Untouched ==
    ASSUME NEW p \in Pids, ServedInv(p), Served(p)' <=> Served(p),
           proc'[p] = proc[p], view'[p] = view[p], inbox'[p] = inbox[p], chan'[p] = chan[p],
           sup'[p].stage = sup[p].stage, sup'[p].drain = sup[p].drain, writer'[p] = writer[p]
    PROVE  ServedInv(p)'
  BY DEF ServedInv

\* A command that is put into a queue, or dropped, leaves a queue of commands.
LEMMA PushedQueue ==
    ASSUME chan \in [Pids -> Seq(Commands)], \A p \in Pids : Len(chan[p]) <= Capacity,
           NEW p \in Pids, NEW c \in Commands
    PROVE  /\ Pushed(p, c) \in [Pids -> Seq(Commands)]
           /\ \A q \in Pids : Len(Pushed(p, c)[q]) <= Capacity
           /\ \A q \in Pids : q # p => Pushed(p, c)[q] = chan[q]
  <1>1. chan[p] \in Seq(Commands) /\ Len(chan[p]) \in Nat /\ Capacity \in Nat
    BY PreviewAssumption
  <1>2. CASE Len(chan[p]) < Capacity
    <2>1. Append(chan[p], c) \in Seq(Commands) /\ Len(Append(chan[p], c)) = Len(chan[p]) + 1
      BY <1>1
    <2>2. Pushed(p, c) = [chan EXCEPT ![p] = Append(chan[p], c)]
      BY <1>2 DEF Pushed
    <2> HIDE DEF Commands, Pushed
    <2>3. Pushed(p, c)[p] = Append(chan[p], c) /\ \A q \in Pids : q # p => Pushed(p, c)[q] = chan[q]
      BY <2>2
    <2>4. Pushed(p, c) \in [Pids -> Seq(Commands)]
      BY <2>1, <2>2
    <2>5. Len(Pushed(p, c)[p]) <= Capacity
      BY <1>1, <1>2, <2>1, <2>3
    <2> QED
      BY <2>3, <2>4, <2>5
  <1>3. CASE ~(Len(chan[p]) < Capacity)
    BY <1>3 DEF Pushed
  <1> QED
    BY <1>2, <1>3

\* A command for the ready preview.
LEMMA ForwardKeepsInv ==
    ASSUME PvInv, life.stage = "ready", NEW c \in Commands, Forward(c), geometry' \in BOOLEAN,
           UNCHANGED <<sup, writer, proc, view, inbox, out>>
    PROVE  LinkTypes' /\ WindowInv' /\ ProcessIsWatched'
  <1>1. life.pid \in Pids /\ life \in LifeStates
    BY DEF PvInv, LinkTypes, WindowInv, LifeStates
  <1>2. CASE Gone(life.pid)
    <2>1. life' = Dead /\ chan' = chan
      BY <1>2 DEF Forward
    <2>2. life' \in LifeStates /\ life'.stage = "dead" /\ life'.pid = NoPid
      BY <2>1, PreviewAssumption DEF Dead, LifeStates, Epochs
    <2>3. LinkTypes'
      BY <2>1, <2>2 DEF PvInv, LinkTypes
    <2>4. Served(life.pid) /\ proc[life.pid] # "up"
      BY <1>1, <1>2 DEF PvInv, WindowInv, ServedInv, Served, Owns, Gone
    <2>5. ASSUME NEW p \in Pids PROVE ServedInv(p)'
      <3>1. ServedInv(p) /\ ~Served(p)'
        BY <2>2 DEF PvInv, WindowInv, Served
      <3>2. Served(p) => proc[p] # "up"
        BY <2>4 DEF Served, Owns
      <3> QED
        BY <2>1, <3>1, <3>2 DEF ServedInv
    <2>6. WindowInv'
      BY <2>2, <2>5 DEF WindowInv
    <2>7. ProcessIsWatched'
      BY <2>2, PreviewAssumption DEF PvInv, ProcessIsWatched, Watched, Owns
    <2> QED
      BY <2>3, <2>6, <2>7
  <1>3. CASE ~Gone(life.pid)
    <2>1. chan' = Pushed(life.pid, c) /\ life' = life
      BY <1>3 DEF Forward
    <2>2. /\ chan' \in [Pids -> Seq(Commands)] /\ \A q \in Pids : Len(chan'[q]) <= Capacity
          /\ \A q \in Pids : q # life.pid => chan'[q] = chan[q]
      <3> HIDE DEF Commands
      <3> QED
        BY <1>1, <2>1, PushedQueue DEF PvInv, LinkTypes
    <2>3. LinkTypes'
      BY <2>1, <2>2 DEF PvInv, LinkTypes
    <2>4. ASSUME NEW p \in Pids PROVE ServedInv(p)'
      <3>1. ServedInv(p) /\ (Served(p)' <=> Served(p))
        BY <2>1 DEF PvInv, WindowInv, Served, Owns
      <3>2. CASE p # life.pid
        BY <2>2, <3>1, <3>2, Untouched
      <3>3. CASE p = life.pid
        <4>1. Served(p) /\ proc[p] \notin {"none", "starting"}
          BY <3>1, <3>3 DEF Served, Owns, ServedInv
        <4> QED
          BY <3>1, <4>1 DEF ServedInv
      <3> QED
        BY <3>2, <3>3
    <2>5. WindowInv'
      BY <2>1, <2>4 DEF PvInv, WindowInv
    <2>6. ProcessIsWatched'
      BY <2>1 DEF PvInv, ProcessIsWatched, Watched, Owns
    <2> QED
      BY <2>3, <2>5, <2>6
  <1> QED
    BY <1>2, <1>3

\* A lifecycle that is not ready buffers what it is told, or ignores it.
LEMMA BufferKeepsInv ==
    ASSUME PvInv, life' \in LifeStates, life'.stage = life.stage, life'.pid = life.pid, geometry' \in BOOLEAN,
           UNCHANGED <<chan, sup, writer, proc, view, inbox, out>>
    PROVE  LinkTypes' /\ WindowInv' /\ ProcessIsWatched'
  <1>1. LinkTypes'
    BY DEF PvInv, LinkTypes
  <1>2. WindowInv'
    BY DEF PvInv, WindowInv, ServedInv, Served, Owns
  <1>3. ProcessIsWatched'
    BY DEF PvInv, ProcessIsWatched, Watched, Owns
  <1> QED
    BY <1>1, <1>2, <1>3

\* A cold start: the new process has nothing under way, and no process is ready.
LEMMA ColdStartKeepsInv ==
    ASSUME PvInv, life.stage = "dead", NEW r \in requests, ColdStart(r),
           UNCHANGED <<geometry, chan, writer, view, inbox, out>>
    PROVE  LinkTypes' /\ WindowInv' /\ ProcessIsWatched'
  <1>1. PICK p \in Pids : /\ proc[p] = "none" /\ proc' = [proc EXCEPT ![p] = "starting"]
                          /\ sup' = [sup EXCEPT ![p].stage = "connecting"]
                          /\ life' = [stage |-> "starting", pid |-> p, desired |-> r.epoch,
                                      parent |-> FALSE, geometry |-> geometry]
    BY DEF ColdStart
  <1>2. life' \in LifeStates /\ life'.stage = "starting" /\ life'.pid = p
    BY <1>1, EpochsBounded DEF PvInv, LinkTypes, LifeStates
  <1>3. /\ sup' \in [Pids -> SupTasks] /\ sup'[p].stage = "connecting" /\ sup'[p].drain = sup[p].drain
        /\ \A q \in Pids : q # p => sup'[q] = sup[q]
    <2>1. sup \in [Pids -> SupTasks]
      BY DEF PvInv, LinkTypes
    <2>2. [sup[p] EXCEPT !.stage = "connecting"] \in SupTasks
      BY <2>1 DEF SupTasks, SupStages
    <2> QED
      BY <1>1, <2>1, <2>2 DEF SupTasks
  <1>4. /\ proc' \in [Pids -> ProcStates] /\ proc'[p] = "starting" /\ \A q \in Pids : q # p => proc'[q] = proc[q]
    BY <1>1 DEF PvInv, LinkTypes, ProcStates
  <1>5. LinkTypes'
    BY <1>2, <1>3, <1>4 DEF PvInv, LinkTypes
  <1>6. ASSUME NEW q \in Pids PROVE ServedInv(q)'
    <2>1. ServedInv(q) /\ ~Served(q) /\ ~Served(q)'
      BY <1>2 DEF PvInv, WindowInv, Served
    <2>2. CASE q # p
      BY <1>3, <1>4, <2>1, <2>2, Untouched
    <2>3. CASE q = p
      BY <1>1, <1>3, <1>4, <2>1, <2>3 DEF ServedInv
    <2> QED
      BY <2>2, <2>3
  <1>7. WindowInv'
    BY <1>2, <1>6, PreviewAssumption DEF WindowInv
  <1>8. ProcessIsWatched'
    BY <1>2, <1>3, <1>4 DEF PvInv, ProcessIsWatched, Watched, Owns
  <1> QED
    BY <1>5, <1>7, <1>8

\* Serving a request takes it away.
LEMMA ServedRequest ==
    ASSUME LauncherInv, NEW r \in requests, requests' = requests \ {r}, UNCHANGED <<launcherVars, epoch>>
    PROVE  LauncherInv'
  <1>1. Unnumbered' \subseteq Unnumbered /\ IsFiniteSet(Unnumbered)
    BY FS_Subset DEF LauncherInv, Unnumbered
  <1>2. Cardinality(Unnumbered') <= Cardinality(Unnumbered) /\ Cardinality(Unnumbered') \in Nat
        /\ Cardinality(Unnumbered) \in Nat
    BY <1>1, FS_Subset, FS_CardinalityType
  <1>3. IsFiniteSet(requests')
    BY FS_Subset DEF LauncherInv
  <1> QED
    BY <1>2, <1>3 DEF LauncherInv, launcherVars

\* A request the daemon serves, whatever its kind, keeps the invariant.
LEMMA ServeKeepsInv ==
    ASSUME PvInv, NEW r \in requests, Serve(r)
    PROVE  PvInv'
  <1>1. /\ requests' = requests \ {r} /\ UNCHANGED <<launcherVars, epoch, writer, view, inbox, out>>
        /\ dispatch(r) \/ hide(r) \/ scroll(r) \/ set_parent(r) \/ set_launcher_geometry(r)
    BY DEF Serve
  <1>2. LauncherInv'
    BY <1>1, ServedRequest DEF PvInv
  <1>3. r.epoch \in Epochs /\ epoch \in Epochs /\ 0 \in Epochs
    BY EpochsBounded, PreviewAssumption DEF PvInv, Epochs
  <1>4. \A op \in OpKinds, e \in Epochs : Command(op, e) \in Commands
    BY DEF Command, Commands
  <1>5. life \in LifeStates /\ geometry \in BOOLEAN
    BY DEF PvInv, LinkTypes
  <1>6. /\ [life EXCEPT !.desired = r.epoch] \in LifeStates /\ [life EXCEPT !.desired = 0] \in LifeStates
        /\ [life EXCEPT !.geometry = TRUE] \in LifeStates
        /\ \A b \in BOOLEAN : [life EXCEPT !.parent = b] \in LifeStates
    BY <1>3, <1>5 DEF LifeStates
  <1>7. LinkTypes' /\ WindowInv' /\ ProcessIsWatched'
    <2>1. CASE dispatch(r)
      <3>1. CASE life.stage = "dead" /\ ColdStart(r) /\ chan' = chan
        BY <1>1, <2>1, <3>1, ColdStartKeepsInv DEF dispatch
      <3>2. CASE life' = life /\ UNCHANGED <<chan, proc, sup>>
        BY <1>1, <1>5, <2>1, <3>2, BufferKeepsInv DEF dispatch
      <3>3. CASE life' = [life EXCEPT !.desired = r.epoch] /\ UNCHANGED <<chan, proc, sup>>
        <4>1. life' \in LifeStates /\ life'.stage = life.stage /\ life'.pid = life.pid
          BY <1>5, <1>6, <3>3 DEF LifeStates
        <4> QED
          BY <1>1, <1>5, <2>1, <3>3, <4>1, BufferKeepsInv DEF dispatch
      <3>4. CASE life.stage = "ready" /\ Forward(Command("show", r.epoch)) /\ UNCHANGED <<proc, sup>>
        <4>1. Command("show", r.epoch) \in Commands
          BY <1>3, <1>4 DEF OpKinds
        <4> QED
          BY <1>1, <1>5, <2>1, <3>4, <4>1, ForwardKeepsInv DEF dispatch
      <3> QED
        BY <2>1, <3>1, <3>2, <3>3, <3>4 DEF dispatch
    <2>2. CASE hide(r) \/ scroll(r) \/ set_parent(r) \/ set_launcher_geometry(r)
      <3>1. geometry' \in BOOLEAN /\ UNCHANGED <<proc, sup>>
        BY <1>5, <2>2 DEF hide, scroll, set_parent, set_launcher_geometry
      <3>2. CASE life.stage = "ready"
        <4>1. PICK c \in Commands : Forward(c)
          BY <1>3, <1>4, <2>2, <3>2 DEF hide, scroll, set_parent, set_launcher_geometry, OpKinds
        <4> QED
          BY <1>1, <3>1, <3>2, <4>1, ForwardKeepsInv
      <3>3. CASE life.stage # "ready"
        <4>1. chan' = chan
          BY <1>5, <2>2, <3>3 DEF hide, scroll, set_parent, set_launcher_geometry, LifeStates
        <4>2. \/ life' = life \/ life' = [life EXCEPT !.desired = 0] \/ life' = [life EXCEPT !.geometry = TRUE]
              \/ \E b \in BOOLEAN : life' = [life EXCEPT !.parent = b]
          BY <1>5, <2>2, <3>3 DEF hide, scroll, set_parent, set_launcher_geometry, LifeStates
        <4>3. life' \in LifeStates /\ life'.stage = life.stage /\ life'.pid = life.pid
          BY <1>5, <1>6, <4>2 DEF LifeStates
        <4> QED
          BY <1>1, <3>1, <4>1, <4>3, BufferKeepsInv
      <3> QED
        BY <3>2, <3>3
    <2> QED
      BY <1>1, <2>1, <2>2
  <1> QED
    BY <1>2, <1>7 DEF PvInv

--------------------------------------------------------------------------------
(***************************************************************************)
(* One process, its supervisor and its writer.                             *)
(***************************************************************************)
\* Whoever lives, and whoever the lifecycle names, is watched.
WatchInv(p) ==
    /\ proc[p] \in {"starting", "up"} => Watched(p)
    /\ Owns(p) => sup[p].stage \in {"connecting", "reading", "ending", "resetting"}

\* A step of one process, its tasks or its queues leaves the others alone.
LEMMA OneProcess ==
    ASSUME PvInv, NEW p \in Pids, LinkTypes', life'.stage = "dead" <=> life'.pid = NoPid,
           ServedInv(p)', WatchInv(p)',
           \A q \in Pids : q # p =>
               /\ proc'[q] = proc[q] /\ view'[q] = view[q] /\ inbox'[q] = inbox[q] /\ chan'[q] = chan[q]
               /\ sup'[q] = sup[q] /\ writer'[q] = writer[q]
               /\ (life'.pid = q => life.pid = q)
               /\ (life'.stage = "ready" /\ life'.pid = q <=> life.stage = "ready" /\ life.pid = q)
    PROVE  LinkTypes' /\ WindowInv' /\ ProcessIsWatched'
  <1>1. ASSUME NEW q \in Pids PROVE ServedInv(q)'
    <2>1. CASE q # p
      <3>1. ServedInv(q) /\ (Served(q)' <=> Served(q))
        BY <2>1 DEF PvInv, WindowInv, Served, Owns
      <3> QED
        BY <2>1, <3>1, Untouched
    <2> QED
      BY <2>1
  <1>2. ASSUME NEW q \in Pids PROVE WatchInv(q)'
    <2>1. CASE q # p
      BY <2>1 DEF PvInv, ProcessIsWatched, WatchInv, Watched, Owns
    <2> QED
      BY <2>1
  <1> QED
    BY <1>1, <1>2 DEF WindowInv, ProcessIsWatched, WatchInv

\* The launcher's part of the invariant does not depend on the processes.
LEMMA LauncherAside ==
    ASSUME PvInv, UNCHANGED <<launcherVars, requests, epoch>> PROVE LauncherInv'
  BY DEF PvInv, LauncherInv, Unnumbered, launcherVars

\* A supervisor that goes to another stage.
LEMMA StageMoves ==
    ASSUME PvInv, NEW p \in Pids, NEW where \in SupStages, sup' = [sup EXCEPT ![p].stage = where]
    PROVE  /\ sup' \in [Pids -> SupTasks] /\ sup'[p].stage = where
           /\ sup'[p].drain = sup[p].drain /\ sup'[p].gui = sup[p].gui
           /\ \A q \in Pids : q # p => sup'[q] = sup[q]
  <1>1. sup \in [Pids -> SupTasks]
    BY DEF PvInv, LinkTypes
  <1>2. sup'[p] = [sup[p] EXCEPT !.stage = where] /\ \A q \in Pids : q # p => sup'[q] = sup[q]
    BY <1>1
  <1>3. /\ sup'[p] \in SupTasks /\ sup'[p].stage = where
        /\ sup'[p].drain = sup[p].drain /\ sup'[p].gui = sup[p].gui
    BY <1>1, <1>2 DEF SupTasks
  <1> QED
    BY <1>1, <1>2, <1>3

\* Handing over one drained command changes nothing else of the supervisor.
LEMMA DrainMoves ==
    ASSUME PvInv, NEW p \in Pids, NEW d \in Seq(Commands), sup' = [sup EXCEPT ![p].drain = d]
    PROVE  /\ sup' \in [Pids -> SupTasks] /\ sup'[p].stage = sup[p].stage /\ sup'[p].drain = d
           /\ \A q \in Pids : q # p => sup'[q] = sup[q]
  <1>1. sup \in [Pids -> SupTasks]
    BY DEF PvInv, LinkTypes
  <1>2. sup'[p] = [sup[p] EXCEPT !.drain = d] /\ \A q \in Pids : q # p => sup'[q] = sup[q]
    BY <1>1
  <1>3. sup'[p] \in SupTasks /\ sup'[p].stage = sup[p].stage /\ sup'[p].drain = d
    BY <1>1, <1>2 DEF SupTasks
  <1> QED
    BY <1>1, <1>2, <1>3

\* Forwarding one command to the launcher changes nothing else of the supervisor.
LEMMA GuiMoves ==
    ASSUME PvInv, NEW p \in Pids, NEW g \in Seq(GuiCommands), sup' = [sup EXCEPT ![p].gui = g]
    PROVE  /\ sup' \in [Pids -> SupTasks] /\ sup'[p].stage = sup[p].stage /\ sup'[p].drain = sup[p].drain
           /\ \A q \in Pids : q # p => sup'[q] = sup[q]
  <1>1. sup \in [Pids -> SupTasks]
    BY DEF PvInv, LinkTypes
  <1>2. sup'[p] = [sup[p] EXCEPT !.gui = g] /\ \A q \in Pids : q # p => sup'[q] = sup[q]
    BY <1>1
  <1>3. sup'[p] \in SupTasks /\ sup'[p].stage = sup[p].stage /\ sup'[p].drain = sup[p].drain
    BY <1>1, <1>2 DEF SupTasks
  <1> QED
    BY <1>1, <1>2, <1>3

\* Connect, its timeout, the end of file and the join: the stage moves on.
LEMMA StagesKeepInv ==
    ASSUME PvInv, NEW p \in Pids, Connect(p) \/ ConnectTimeout(p) \/ Eof(p) \/ JoinWriter(p) \/ reset_to_dead(p)
    PROVE  PvInv'
  <1> USE DEF spawnerVars, linkVars, processVars
  <1>0. ServedInv(p) /\ WatchInv(p) /\ LinkTypes /\ (life.stage = "dead" <=> life.pid = NoPid)
    BY DEF PvInv, WindowInv, ProcessIsWatched, WatchInv
  <1>1. LauncherInv'
    BY LauncherAside DEF Connect, ConnectTimeout, Eof, JoinWriter, reset_to_dead
  <1>2. CASE Connect(p)
    <2>1. /\ sup[p].stage = "connecting" /\ proc[p] = "up" /\ sup' = [sup EXCEPT ![p].stage = "reading"]
          /\ writer' = [writer EXCEPT ![p] = "running"] /\ UNCHANGED <<geometry, life, chan, proc, view, inbox, out>>
      BY <1>2 DEF Connect
    <2>2. /\ sup' \in [Pids -> SupTasks] /\ sup'[p].stage = "reading" /\ sup'[p].drain = sup[p].drain
          /\ \A q \in Pids : q # p => sup'[q] = sup[q]
      BY <2>1, StageMoves DEF SupStages
    <2>3. /\ writer' \in [Pids -> {"none", "running", "gone"}] /\ writer'[p] = "running"
          /\ \A q \in Pids : q # p => writer'[q] = writer[q]
      BY <1>0, <2>1 DEF LinkTypes
    <2>4. LinkTypes'
      BY <1>0, <2>1, <2>2, <2>3 DEF LinkTypes
    <2>5. ServedInv(p)' /\ WatchInv(p)'
      BY <1>0, <2>1, <2>2, <2>3 DEF ServedInv, Served, Owns, WatchInv, Watched
    <2> QED
      BY <1>0, <1>1, <2>1, <2>2, <2>3, <2>4, <2>5, OneProcess DEF PvInv
  <1>3. CASE ConnectTimeout(p)
    <2>1. /\ sup[p].stage = "connecting" /\ sup' = [sup EXCEPT ![p].stage = "resetting"]
          /\ proc[p] \in {"quit", "crashed", "starting"} /\ UNCHANGED <<geometry, life, chan, writer, proc, view, inbox, out>>
      BY <1>3 DEF ConnectTimeout
    <2>2. /\ sup' \in [Pids -> SupTasks] /\ sup'[p].stage = "resetting" /\ sup'[p].drain = sup[p].drain
          /\ \A q \in Pids : q # p => sup'[q] = sup[q]
      BY <2>1, StageMoves DEF SupStages
    <2>4. LinkTypes'
      BY <1>0, <2>1, <2>2 DEF LinkTypes
    <2>5. ServedInv(p)' /\ WatchInv(p)'
      BY <1>0, <2>1, <2>2 DEF ServedInv, Served, Owns, WatchInv, Watched
    <2> QED
      BY <1>0, <1>1, <2>1, <2>2, <2>4, <2>5, OneProcess DEF PvInv
  <1>4. CASE Eof(p)
    <2>1. /\ sup[p].stage = "reading" /\ sup' = [sup EXCEPT ![p].stage = "ending"]
          /\ proc[p] \in {"quit", "crashed"} /\ UNCHANGED <<geometry, life, chan, writer, proc, view, inbox, out>>
      BY <1>4 DEF Eof, Reading
    <2>2. /\ sup' \in [Pids -> SupTasks] /\ sup'[p].stage = "ending" /\ sup'[p].drain = sup[p].drain
          /\ \A q \in Pids : q # p => sup'[q] = sup[q]
      BY <2>1, StageMoves DEF SupStages
    <2>4. LinkTypes'
      BY <1>0, <2>1, <2>2 DEF LinkTypes
    <2>5. ServedInv(p)' /\ WatchInv(p)'
      BY <1>0, <2>1, <2>2 DEF ServedInv, Served, Owns, WatchInv, Watched
    <2> QED
      BY <1>0, <1>1, <2>1, <2>2, <2>4, <2>5, OneProcess DEF PvInv
  <1>5. CASE JoinWriter(p)
    <2>1. /\ sup[p].stage = "ending" /\ sup' = [sup EXCEPT ![p].stage = "resetting"]
          /\ UNCHANGED <<geometry, life, chan, writer, proc, view, inbox, out>>
      BY <1>5 DEF JoinWriter
    <2>2. /\ sup' \in [Pids -> SupTasks] /\ sup'[p].stage = "resetting" /\ sup'[p].drain = sup[p].drain
          /\ \A q \in Pids : q # p => sup'[q] = sup[q]
      BY <2>1, StageMoves DEF SupStages
    <2>4. LinkTypes'
      BY <1>0, <2>1, <2>2 DEF LinkTypes
    <2>5. ServedInv(p)' /\ WatchInv(p)'
      BY <1>0, <2>1, <2>2 DEF ServedInv, Served, Owns, WatchInv, Watched
    <2> QED
      BY <1>0, <1>1, <2>1, <2>2, <2>4, <2>5, OneProcess DEF PvInv
  <1>6. CASE reset_to_dead(p)
    <2>1. /\ sup[p].stage = "resetting" /\ sup' = [sup EXCEPT ![p].stage = "killing"]
          /\ life' = (IF life.pid = p THEN Dead ELSE life) /\ UNCHANGED <<geometry, chan, writer, proc, view, inbox, out>>
      BY <1>6 DEF reset_to_dead, Owns
    <2>2. /\ sup' \in [Pids -> SupTasks] /\ sup'[p].stage = "killing" /\ sup'[p].drain = sup[p].drain
          /\ \A q \in Pids : q # p => sup'[q] = sup[q]
      BY <2>1, StageMoves DEF SupStages
    <2>3. Dead \in LifeStates /\ Dead.stage = "dead" /\ Dead.pid = NoPid /\ NoPid \notin Pids
      BY PreviewAssumption DEF Dead, LifeStates, Epochs
    <2>4. life'.pid # p /\ life' \in LifeStates /\ (life'.stage = "dead" <=> life'.pid = NoPid)
      BY <1>0, <2>1, <2>3 DEF LinkTypes
    <2>5. LinkTypes'
      BY <1>0, <2>1, <2>2, <2>4 DEF LinkTypes
    <2>6. Served(p) => proc[p] # "up"
      BY <1>0, <2>1 DEF ServedInv
    <2>7. ServedInv(p)' /\ WatchInv(p)'
      BY <1>0, <2>1, <2>2, <2>4, <2>6 DEF ServedInv, Served, Owns, WatchInv, Watched
    <2>8. \A q \in Pids : q # p => /\ (life'.pid = q => life.pid = q)
                                  /\ (life'.stage = "ready" /\ life'.pid = q <=> life.stage = "ready" /\ life.pid = q)
      BY <2>1, <2>3
    <2> QED
      BY <1>1, <2>1, <2>2, <2>4, <2>5, <2>7, <2>8, OneProcess DEF PvInv
  <1> QED
    BY <1>2, <1>3, <1>4, <1>5, <1>6

\* Two fields of a task set at once.
LEMMA TaskTold ==
    ASSUME NEW t \in SupTasks, NEW u, NEW where \in SupStages, NEW g \in Seq(GuiCommands),
           u = [t EXCEPT !.stage = where, !.gui = g]
    PROVE  u \in SupTasks /\ u.stage = where /\ u.drain = t.drain
  <1> DEFINE G == Seq(GuiCommands)
             D == Seq(Commands)
  <1>1. t \in [stage : SupStages, gui : G, drain : D] /\ g \in G
    BY DEF SupTasks
  <1> HIDE DEF G, D
  <1>2. u \in [stage : SupStages, gui : G, drain : D] /\ u.stage = where /\ u.drain = t.drain
    BY <1>1
  <1> QED
    BY <1>2 DEF SupTasks, G, D

\* The signal after the reset.
LEMMA TerminateKeepsInv ==
    ASSUME PvInv, NEW p \in Pids, Terminate(p) PROVE PvInv'
  <1> USE DEF spawnerVars, linkVars
  <1>0. ServedInv(p) /\ WatchInv(p) /\ LinkTypes /\ (life.stage = "dead" <=> life.pid = NoPid)
    BY DEF PvInv, WindowInv, ProcessIsWatched, WatchInv
  <1>1. LauncherInv'
    BY LauncherAside DEF Terminate
  <1>2. /\ sup[p].stage = "killing" /\ proc' = Terminated(p) /\ view' = [view EXCEPT ![p] = NoView]
        /\ sup' = [sup EXCEPT ![p].stage = "done", ![p].gui = <<"Show", "ExitPreviewMode">>]
        /\ UNCHANGED <<geometry, life, chan, writer, inbox, out>>
    BY DEF Terminate
  <1>3. /\ sup' \in [Pids -> SupTasks] /\ sup'[p].stage = "done" /\ sup'[p].drain = sup[p].drain
        /\ \A q \in Pids : q # p => sup'[q] = sup[q]
    <2>1. <<"Show", "ExitPreviewMode">> \in Seq(GuiCommands)
      BY DEF GuiCommands
    <2>2. sup'[p] = [sup[p] EXCEPT !.stage = "done", !.gui = <<"Show", "ExitPreviewMode">>]
          /\ \A q \in Pids : q # p => sup'[q] = sup[q]
      BY <1>0, <1>2 DEF LinkTypes
    <2>3. sup'[p] \in SupTasks /\ sup'[p].stage = "done" /\ sup'[p].drain = sup[p].drain
      <3>1. sup[p] \in SupTasks /\ "done" \in SupStages /\ <<>> \in Seq(Commands)
        BY <1>0 DEF LinkTypes, SupStages
      <3> DEFINE g == <<"Show", "ExitPreviewMode">>
      <3>2. g \in Seq(GuiCommands) /\ sup'[p] = [sup[p] EXCEPT !.stage = "done", !.gui = g]
        BY <2>1, <2>2
      <3> HIDE DEF g
      <3> QED
        BY <3>1, <3>2, TaskTold
    <2> QED
      BY <1>0, <1>2, <2>2, <2>3 DEF LinkTypes
  <1>4. /\ proc' \in [Pids -> ProcStates] /\ proc'[p] \notin {"starting", "up"}
        /\ proc'[p] = "none" => proc[p] = "none"
        /\ \A q \in Pids : q # p => proc'[q] = proc[q]
    BY <1>0, <1>2 DEF LinkTypes, Terminated, ProcStates
  <1>5. /\ view' \in [Pids -> Views] /\ ~view'[p].shown /\ \A q \in Pids : q # p => view'[q] = view[q]
    <2>1. NoView \in Views /\ ~NoView.shown
      BY PreviewAssumption DEF NoView, Views, Epochs
    <2> QED
      BY <1>0, <1>2, <2>1 DEF LinkTypes
  <1>6. LinkTypes'
    BY <1>0, <1>2, <1>3, <1>4, <1>5 DEF LinkTypes
  <1>7. ServedInv(p)' /\ WatchInv(p)'
    BY <1>0, <1>2, <1>3, <1>4, <1>5 DEF ServedInv, Served, Owns, WatchInv, Watched
  <1> QED
    BY <1>0, <1>1, <1>2, <1>3, <1>4, <1>5, <1>6, <1>7, OneProcess DEF PvInv

\* The commands a starting lifecycle has buffered, and what an event makes the
\* launcher do.
LEMMA BufferedCommands ==
    ASSUME life \in LifeStates PROVE Buffered \in Seq(Commands)
  <1>1. life.desired \in Epochs /\ 0 \in Epochs
    BY PreviewAssumption DEF LifeStates, Epochs
  <1>2. /\ Command("parent", 0) \in Commands /\ Command("show", life.desired) \in Commands
        /\ Command("geometry", 0) \in Commands
    BY <1>1 DEF Command, Commands, OpKinds
  <1> HIDE DEF Commands
  <1>3. /\ Optional(life.parent, Command("parent", 0)) \in Seq(Commands)
        /\ Optional(life.desired # 0, Command("show", life.desired)) \in Seq(Commands)
        /\ Optional(life.geometry, Command("geometry", 0)) \in Seq(Commands)
    BY <1>2 DEF Optional
  <1> QED
    BY <1>3 DEF Buffered

\* What the supervisor answers an event with are commands to the launcher.
LEMMA ReactionCommands ==
    ASSUME NEW e \in Events, e.event # "Ready" PROVE Reaction(e) \in Seq(GuiCommands)
  <1>1. e.event \in EventNames \ {"Ready"}
    BY DEF Events
  <1>2. /\ <<"Show", "ExitPreviewMode">> \in Seq(GuiCommands) /\ <<"PreviewNav">> \in Seq(GuiCommands)
        /\ <<"Hide", "ClearSession", "ExitPreviewMode">> \in Seq(GuiCommands) /\ <<"SoftHide">> \in Seq(GuiCommands)
        /\ <<"Show">> \in Seq(GuiCommands) /\ <<"ExitPreviewMode">> \in Seq(GuiCommands) /\ <<>> \in Seq(GuiCommands)
    BY DEF GuiCommands
  <1>3. Optional(e.epoch = epoch, "ExitPreviewMode") \in Seq(GuiCommands)
    BY <1>2, Zenon DEF Optional
  <1> HIDE DEF GuiCommands, Optional
  <1> QED
    BY <1>1, <1>2, <1>3 DEF Reaction, EventNames

\* The reader takes an event.  Ready makes the process the one commands go to;
\* it reads and writes at that moment.
LEMMA ReadKeepsInv ==
    ASSUME PvInv, NEW p \in Pids, ReadEvent(p) PROVE PvInv'
  <1>0. ServedInv(p) /\ WatchInv(p) /\ LinkTypes /\ (life.stage = "dead" <=> life.pid = NoPid)
    BY DEF PvInv, WindowInv, ProcessIsWatched, WatchInv
  <1>1. LauncherInv'
    BY LauncherAside DEF ReadEvent
  <1>2. /\ sup[p].stage = "reading" /\ sup[p].drain = <<>> /\ out[p] # <<>> /\ out' = [out EXCEPT ![p] = Tail(@)]
        /\ UNCHANGED <<geometry, chan, writer, proc, view, inbox>>
    BY DEF ReadEvent, Reading, linkVars
  <1>3. out[p] \in Seq(Events) /\ Head(out[p]) \in Events /\ out' \in [Pids -> Seq(Events)]
    <2>1. out[p] \in Seq(Events)
      BY <1>0 DEF LinkTypes
    <2>2. Head(out[p]) \in Events /\ Tail(out[p]) \in Seq(Events)
      BY <1>2, <2>1, HeadTailProperties
    <2> QED
      BY <1>0, <1>2, <2>1, <2>2 DEF LinkTypes
  <1>4. CASE Head(out[p]).event # "Ready"
    <2>1. sup' = [sup EXCEPT ![p].gui = Reaction(Head(out[p]))] /\ life' = life
      BY <1>4 DEF ReadEvent
    <2>2. /\ sup' \in [Pids -> SupTasks] /\ sup'[p].stage = sup[p].stage /\ sup'[p].drain = sup[p].drain
          /\ \A q \in Pids : q # p => sup'[q] = sup[q]
      BY <1>3, <1>4, <2>1, ReactionCommands, GuiMoves
    <2>3. LinkTypes'
      BY <1>0, <1>2, <1>3, <2>1, <2>2 DEF LinkTypes
    <2>4. ServedInv(p)' /\ WatchInv(p)'
      BY <1>0, <1>2, <2>1, <2>2 DEF ServedInv, Served, Owns, WatchInv, Watched
    <2> QED
      BY <1>0, <1>1, <1>2, <2>1, <2>2, <2>3, <2>4, OneProcess DEF PvInv
  <1>5. CASE Head(out[p]).event = "Ready"
    <2>0. OnReady(p)
      BY <1>5 DEF ReadEvent
    <2>1. CASE life.stage = "starting" /\ life.pid = p
      <3>1. life' = [Dead EXCEPT !.stage = "ready", !.pid = p] /\ sup' = [sup EXCEPT ![p].drain = Buffered]
        BY <2>0, <2>1 DEF OnReady, Owns
      <3>2. life' \in LifeStates /\ life'.stage = "ready" /\ life'.pid = p
        <4>1. life' = [stage |-> "ready", pid |-> p, desired |-> 0, parent |-> FALSE, geometry |-> FALSE]
          BY <3>1 DEF Dead
        <4>2. 0 \in Epochs
          BY PreviewAssumption DEF Epochs
        <4> QED
          BY <4>1, <4>2 DEF LifeStates
      <3>3. /\ sup' \in [Pids -> SupTasks] /\ sup'[p].stage = sup[p].stage
            /\ \A q \in Pids : q # p => sup'[q] = sup[q]
        <4>1. Buffered \in Seq(Commands)
          BY <1>0, BufferedCommands DEF LinkTypes
        <4> QED
          BY <3>1, <4>1, DrainMoves
      <3>4. LinkTypes'
        BY <1>0, <1>2, <1>3, <3>2, <3>3 DEF LinkTypes
      <3>5. ServedInv(p)' /\ WatchInv(p)'
        BY <1>0, <1>2, <2>1, <3>2, <3>3 DEF ServedInv, Served, Owns, WatchInv, Watched
      <3> QED
        BY <1>1, <1>2, <2>1, <3>2, <3>3, <3>4, <3>5, PreviewAssumption, OneProcess DEF PvInv
    <2>2. CASE ~(life.stage = "starting" /\ life.pid = p) /\ life.stage = "ready"
      <3>1. life' = life /\ sup' = sup
        BY <2>0, <2>2 DEF OnReady, Owns
      <3>2. LinkTypes'
        BY <1>0, <1>2, <1>3, <3>1 DEF LinkTypes
      <3>3. ServedInv(p)' /\ WatchInv(p)'
        BY <1>0, <1>2, <3>1 DEF ServedInv, Served, Owns, WatchInv, Watched
      <3> QED
        BY <1>0, <1>1, <1>2, <3>1, <3>2, <3>3, OneProcess DEF PvInv
    <2>3. CASE ~(life.stage = "starting" /\ life.pid = p) /\ life.stage # "ready"
      <3>1. life' = life /\ sup' = [sup EXCEPT ![p].stage = "ending"]
        BY <2>0, <2>3 DEF OnReady, Owns
      <3>2. /\ sup' \in [Pids -> SupTasks] /\ sup'[p].stage = "ending" /\ sup'[p].drain = sup[p].drain
            /\ \A q \in Pids : q # p => sup'[q] = sup[q]
        BY <3>1, StageMoves DEF SupStages
      <3>3. LinkTypes'
        BY <1>0, <1>2, <1>3, <3>1, <3>2 DEF LinkTypes
      <3>4. ServedInv(p)' /\ WatchInv(p)'
        BY <1>0, <1>2, <2>3, <3>1, <3>2 DEF ServedInv, Served, Owns, WatchInv, Watched
      <3> QED
        BY <1>0, <1>1, <1>2, <3>1, <3>2, <3>3, <3>4, OneProcess DEF PvInv
    <2> QED
      BY <2>1, <2>2, <2>3
  <1> QED
    BY <1>4, <1>5

\* The buffered commands go to the writer's queue.
LEMMA DrainKeepsInv ==
    ASSUME PvInv, NEW p \in Pids, Drain(p) PROVE PvInv'
  <1> USE DEF spawnerVars, processVars
  <1>0. ServedInv(p) /\ WatchInv(p) /\ LinkTypes /\ (life.stage = "dead" <=> life.pid = NoPid)
    BY DEF PvInv, WindowInv, ProcessIsWatched, WatchInv
  <1>1. LauncherInv'
    BY LauncherAside DEF Drain
  <1>2. /\ sup[p].stage = "reading" /\ sup[p].drain # <<>>
        /\ UNCHANGED <<geometry, life, writer, proc, view, inbox, out>>
    BY DEF Drain
  <1>3. sup[p].drain \in Seq(Commands) /\ Head(sup[p].drain) \in Commands /\ Tail(sup[p].drain) \in Seq(Commands)
    <2>1. sup[p].drain \in Seq(Commands)
      BY <1>0 DEF LinkTypes, SupTasks
    <2> QED
      BY <1>2, <2>1, HeadTailProperties
  <1>4. CASE Gone(p)
    <2>1. sup' = [sup EXCEPT ![p].stage = "ending", ![p].drain = <<>>] /\ chan' = chan
      BY <1>4 DEF Drain
    <2>2. /\ sup'[p] = [sup[p] EXCEPT !.stage = "ending", !.drain = <<>>]
          /\ \A q \in Pids : q # p => sup'[q] = sup[q]
      BY <1>0, <2>1 DEF LinkTypes
    <2>3. sup'[p] \in SupTasks /\ sup'[p].stage = "ending" /\ sup'[p].drain = <<>>
      <3>1. sup[p] \in SupTasks /\ "ending" \in SupStages /\ <<>> \in Seq(Commands) /\ <<>> \in Seq(GuiCommands)
        BY <1>0 DEF LinkTypes, SupStages
      <3> DEFINE G == Seq(GuiCommands)
                 D == Seq(Commands)
                 none == <<>>
      <3>2. sup[p] \in [stage : SupStages, gui : G, drain : D] /\ none \in D
        BY <3>1 DEF SupTasks
      <3>3. sup'[p] = [sup[p] EXCEPT !.stage = "ending", !.drain = none]
        BY <2>2
      <3> HIDE DEF G, D, none
      <3>4. /\ sup'[p] \in [stage : SupStages, gui : G, drain : D]
            /\ sup'[p].stage = "ending" /\ sup'[p].drain = none
        BY <3>1, <3>2, <3>3
      <3> QED
        BY <3>4 DEF SupTasks, G, D, none
    <2>4. sup' \in [Pids -> SupTasks]
      BY <1>0, <2>1, <2>2, <2>3 DEF LinkTypes
    <2>5. LinkTypes'
      BY <1>0, <1>2, <2>1, <2>4 DEF LinkTypes
    <2>6. proc[p] # "up"
      BY <1>0, <1>2, <1>4 DEF ServedInv, Gone
    <2>7. ServedInv(p)' /\ WatchInv(p)'
      BY <1>0, <1>2, <2>1, <2>3, <2>6 DEF ServedInv, Served, Owns, WatchInv, Watched
    <2> QED
      BY <1>0, <1>1, <1>2, <2>1, <2>2, <2>5, <2>7, OneProcess DEF PvInv
  <1>5. CASE ~Gone(p)
    <2>1. chan' = Pushed(p, Head(sup[p].drain)) /\ sup' = [sup EXCEPT ![p].drain = Tail(sup[p].drain)]
      BY <1>5 DEF Drain
    <2>2. /\ sup' \in [Pids -> SupTasks] /\ sup'[p].stage = sup[p].stage /\ sup'[p].drain = Tail(sup[p].drain)
          /\ \A q \in Pids : q # p => sup'[q] = sup[q]
      BY <1>3, <2>1, DrainMoves
    <2>3. /\ chan' \in [Pids -> Seq(Commands)] /\ \A q \in Pids : Len(chan'[q]) <= Capacity
          /\ \A q \in Pids : q # p => chan'[q] = chan[q]
      BY <1>0, <1>3, <2>1, PushedQueue DEF LinkTypes
    <2>4. LinkTypes'
      BY <1>0, <1>2, <2>2, <2>3 DEF LinkTypes
    <2>5. ServedInv(p)' /\ WatchInv(p)'
      BY <1>0, <1>2, <2>2 DEF ServedInv, Served, Owns, WatchInv, Watched
    <2> QED
      BY <1>0, <1>1, <1>2, <2>2, <2>3, <2>4, <2>5, OneProcess DEF PvInv
  <1> QED
    BY <1>4, <1>5

\* A command of the supervisor reaches the launcher.
LEMMA TellKeepsInv ==
    ASSUME PvInv, NEW p \in Pids, TellLauncher(p) PROVE PvInv'
  <1> USE DEF spawnerVars, linkVars, processVars
  <1>0. ServedInv(p) /\ WatchInv(p) /\ LinkTypes /\ (life.stage = "dead" <=> life.pid = NoPid)
    BY DEF PvInv, WindowInv, ProcessIsWatched, WatchInv
  <1>1. /\ Obey(Head(sup[p].gui)) /\ sup' = [sup EXCEPT ![p].gui = Tail(sup[p].gui)] /\ sup[p].gui # <<>>
        /\ UNCHANGED <<epoch, geometry, life, chan, writer, proc, view, inbox, out>>
    BY DEF TellLauncher
  <1>2. Head(sup[p].gui) \in GuiCommands /\ Tail(sup[p].gui) \in Seq(GuiCommands)
    <2>1. sup[p].gui \in Seq(GuiCommands)
      BY <1>0 DEF LinkTypes, SupTasks
    <2> QED
      BY <1>1, <2>1, HeadTailProperties
  <1>3. LauncherInv'
    <2>1. LauncherInv
      BY DEF PvInv
    <2>2. gui' \in [visible : BOOLEAN, fading : BOOLEAN, aside : BOOLEAN]
      BY <1>1, <1>2, <2>1, WindowShape DEF LauncherInv, Obey, GuiCommands
    <2>3. mode' \in BOOLEAN
      BY <1>1, <1>2, <2>1 DEF LauncherInv, Obey, GuiCommands
    <2>4. Ask("show") \/ UNCHANGED <<made, requests>>
      BY <1>1, <1>2 DEF Obey, GuiCommands
    <2>5. "show" \in OpKinds
      BY DEF OpKinds
    <2> QED
      BY <1>1, <2>1, <2>2, <2>3, <2>4, <2>5, AskKeepsInv
  <1>4. /\ sup' \in [Pids -> SupTasks] /\ sup'[p].stage = sup[p].stage /\ sup'[p].drain = sup[p].drain
        /\ \A q \in Pids : q # p => sup'[q] = sup[q]
    BY <1>1, <1>2, GuiMoves
  <1>5. LinkTypes'
    BY <1>0, <1>1, <1>4 DEF LinkTypes
  <1>6. ServedInv(p)' /\ WatchInv(p)'
    BY <1>0, <1>1, <1>4 DEF ServedInv, Served, Owns, WatchInv, Watched
  <1> QED
    BY <1>0, <1>1, <1>3, <1>4, <1>5, <1>6, OneProcess DEF PvInv

\* The writer task writes a command, or finds the process gone, or its channel
\* closed: never while commands still go to a process that runs.
LEMMA WriterKeepsInv ==
    ASSUME PvInv, NEW p \in Pids, WriteCommand(p) \/ WriterEnds(p) PROVE PvInv'
  <1> USE DEF spawnerVars, processVars
  <1>0. ServedInv(p) /\ WatchInv(p) /\ LinkTypes /\ (life.stage = "dead" <=> life.pid = NoPid)
    BY DEF PvInv, WindowInv, ProcessIsWatched, WatchInv
  <1>1. LauncherInv'
    BY LauncherAside DEF WriteCommand, WriterEnds
  <1>2. UNCHANGED <<geometry, life, sup, proc, view, out>> /\ writer[p] = "running"
    BY DEF WriteCommand, WriterEnds
  <1>3. CASE WriteCommand(p) /\ proc[p] = "up"
    <2>1. /\ inbox' = [inbox EXCEPT ![p] = Append(@, Head(chan[p]))] /\ chan' = [chan EXCEPT ![p] = Tail(@)]
          /\ writer' = writer /\ chan[p] # <<>>
      BY <1>3 DEF WriteCommand
    <2>2. /\ chan[p] \in Seq(Commands) /\ inbox[p] \in Seq(Commands) /\ Len(chan[p]) <= Capacity
          /\ chan \in [Pids -> Seq(Commands)] /\ inbox \in [Pids -> Seq(Commands)]
      BY <1>0 DEF LinkTypes
    <2> HIDE DEF Commands
    <2>3. Head(chan[p]) \in Commands /\ Tail(chan[p]) \in Seq(Commands) /\ Len(Tail(chan[p])) = Len(chan[p]) - 1
      BY <2>1, <2>2, HeadTailProperties
    <2>4. Append(inbox[p], Head(chan[p])) \in Seq(Commands)
      BY <2>2, <2>3
    <2>5. Len(Tail(chan[p])) <= Capacity
      BY <2>2, <2>3, PreviewAssumption
    <2>6. /\ inbox' \in [Pids -> Seq(Commands)] /\ chan' \in [Pids -> Seq(Commands)]
          /\ chan'[p] = Tail(chan[p]) /\ \A q \in Pids : q # p => chan'[q] = chan[q] /\ inbox'[q] = inbox[q]
      BY <2>1, <2>2, <2>3, <2>4
    <2>7. \A q \in Pids : Len(chan'[q]) <= Capacity
      BY <1>0, <2>5, <2>6 DEF LinkTypes
    <2>8. LinkTypes'
      BY <1>0, <1>2, <2>1, <2>6, <2>7 DEF LinkTypes
    <2>9. ServedInv(p)' /\ WatchInv(p)'
      BY <1>0, <1>2, <1>3, <2>1 DEF ServedInv, Served, Owns, WatchInv, Watched
    <2> QED
      BY <1>0, <1>1, <1>2, <2>1, <2>6, <2>8, <2>9, OneProcess DEF PvInv
  <1>4. CASE WriteCommand(p) /\ proc[p] # "up"
    <2>1. writer' = [writer EXCEPT ![p] = "gone"] /\ chan' = [chan EXCEPT ![p] = <<>>] /\ inbox' = inbox
      BY <1>4 DEF WriteCommand
    <2>2. /\ chan' \in [Pids -> Seq(Commands)] /\ \A q \in Pids : Len(chan'[q]) <= Capacity
          /\ chan'[p] = <<>> /\ \A q \in Pids : q # p => chan'[q] = chan[q]
      <3> HIDE DEF Commands
      <3>1. <<>> \in Seq(Commands) /\ Len(<<>>) <= Capacity
        BY PreviewAssumption
      <3> QED
        BY <1>0, <2>1, <3>1 DEF LinkTypes
    <2>3. writer' \in [Pids -> {"none", "running", "gone"}] /\ \A q \in Pids : q # p => writer'[q] = writer[q]
      BY <1>0, <2>1 DEF LinkTypes
    <2>4. LinkTypes'
      BY <1>0, <1>2, <2>1, <2>2, <2>3 DEF LinkTypes
    <2>5. ServedInv(p)' /\ WatchInv(p)'
      BY <1>0, <1>2, <1>4, <2>1, <2>2 DEF ServedInv, Served, Owns, WatchInv, Watched
    <2> QED
      BY <1>0, <1>1, <1>2, <2>1, <2>2, <2>3, <2>4, <2>5, OneProcess DEF PvInv
  <1>5. CASE WriterEnds(p)
    <2>1. writer' = [writer EXCEPT ![p] = "gone"] /\ chan' = chan /\ inbox' = inbox /\ ~Senders(p)
      BY <1>5 DEF WriterEnds
    <2>2. writer' \in [Pids -> {"none", "running", "gone"}] /\ \A q \in Pids : q # p => writer'[q] = writer[q]
      BY <1>0, <2>1 DEF LinkTypes
    <2>3. LinkTypes'
      BY <1>0, <1>2, <2>1, <2>2 DEF LinkTypes
    <2>4. ServedInv(p)' /\ WatchInv(p)'
      BY <1>0, <1>2, <2>1 DEF ServedInv, Served, Owns, WatchInv, Watched, Senders
    <2> QED
      BY <1>0, <1>1, <1>2, <2>1, <2>2, <2>3, <2>4, OneProcess DEF PvInv
  <1> QED
    BY <1>3, <1>4, <1>5

--------------------------------------------------------------------------------
(***************************************************************************)
(* The preview process.                                                    *)
(***************************************************************************)
\* A preview process that has started and says Ready keeps the invariant.
LEMMA BootKeepsInv ==
    ASSUME PvInv, NEW p \in Pids, Boot(p) PROVE PvInv'
  <1> USE DEF spawnerVars, linkVars
  <1>0. ServedInv(p) /\ WatchInv(p) /\ LinkTypes /\ (life.stage = "dead" <=> life.pid = NoPid)
    BY DEF PvInv, WindowInv, ProcessIsWatched, WatchInv
  <1>1. LauncherInv'
    BY LauncherAside DEF Boot, daemonVars
  <1>2. /\ proc[p] = "starting" /\ proc' = [proc EXCEPT ![p] = "up"] /\ out' = [out EXCEPT ![p] = <<Event("Ready", 0)>>]
        /\ UNCHANGED <<geometry, life, sup, chan, writer, view, inbox>>
    BY DEF Boot, daemonVars
  <1>3. out' \in [Pids -> Seq(Events)]
    <2>1. Event("Ready", 0) \in Events
      BY PreviewAssumption DEF Event, Events, EventNames, Epochs
    <2> HIDE DEF Events, Event
    <2>2. <<Event("Ready", 0)>> \in Seq(Events)
      BY <2>1
    <2> QED
      BY <1>0, <1>2, <2>2 DEF LinkTypes
  <1>4. proc' \in [Pids -> ProcStates] /\ proc'[p] = "up" /\ \A q \in Pids : q # p => proc'[q] = proc[q]
    BY <1>0, <1>2 DEF LinkTypes, ProcStates
  <1>5. LinkTypes'
    BY <1>0, <1>2, <1>3, <1>4 DEF LinkTypes
  <1>6. ServedInv(p)' /\ WatchInv(p)'
    BY <1>0, <1>2, <1>4 DEF ServedInv, Served, Owns, WatchInv, Watched
  <1> QED
    BY <1>0, <1>1, <1>2, <1>4, <1>5, <1>6, OneProcess DEF PvInv

\* A running process changes what it shows and reports it; a window comes up only
\* for a command, and commands only go to the process that is ready.
LEMMA ViewKeepsInv ==
    ASSUME PvInv, NEW p \in Pids, proc[p] = "up", UNCHANGED <<daemonVars, proc>>,
           NEW v \in Views, view' = [view EXCEPT ![p] = v], v.shown => view[p].shown \/ inbox[p] # <<>>,
           NEW e \in Seq(Events), out' = [out EXCEPT ![p] = e],
           NEW i \in Seq(Commands), inbox' = [inbox EXCEPT ![p] = i], i # <<>> => inbox[p] # <<>>
    PROVE  PvInv'
  <1> USE DEF spawnerVars, linkVars
  <1>0. ServedInv(p) /\ WatchInv(p) /\ LinkTypes /\ (life.stage = "dead" <=> life.pid = NoPid)
    BY DEF PvInv, WindowInv, ProcessIsWatched, WatchInv
  <1>1. LauncherInv'
    BY LauncherAside DEF daemonVars
  <1>2. UNCHANGED <<geometry, life, sup, chan, writer, proc>>
    BY DEF daemonVars
  <1>3. view' \in [Pids -> Views] /\ view'[p] = v /\ \A q \in Pids : q # p => view'[q] = view[q]
    BY <1>0 DEF LinkTypes
  <1>4. /\ inbox' \in [Pids -> Seq(Commands)] /\ inbox'[p] = i /\ \A q \in Pids : q # p => inbox'[q] = inbox[q]
        /\ out' \in [Pids -> Seq(Events)]
    <2> HIDE DEF Commands, Events
    <2> QED
      BY <1>0 DEF LinkTypes
  <1>5. LinkTypes'
    BY <1>0, <1>2, <1>3, <1>4 DEF LinkTypes
  <1>6. ServedInv(p)' /\ WatchInv(p)'
    BY <1>0, <1>2, <1>3, <1>4 DEF ServedInv, Served, Owns, WatchInv, Watched
  <1> QED
    BY <1>0, <1>1, <1>2, <1>3, <1>4, <1>5, <1>6, OneProcess DEF PvInv

\* What a running process has: its window's state and its queues.
LEMMA RunningTypes ==
    ASSUME PvInv, NEW p \in Pids
    PROVE  view[p] \in Views /\ out[p] \in Seq(Events) /\ inbox[p] \in Seq(Commands) /\ view[p].epoch \in Epochs
  <1>1. view[p] \in Views /\ out[p] \in Seq(Events) /\ inbox[p] \in Seq(Commands)
    BY DEF PvInv, LinkTypes
  <1> QED
    BY <1>1 DEF Views

\* An event is reported after the ones before it.
LEMMA Reported ==
    ASSUME PvInv, NEW p \in Pids, NEW name \in EventNames, NEW e \in Epochs
    PROVE  Append(out[p], Event(name, e)) \in Seq(Events)
  <1>1. Event(name, e) \in Events /\ out[p] \in Seq(Events)
    BY RunningTypes DEF Event, Events
  <1> HIDE DEF Events, Event
  <1> QED
    BY <1>1

\* Closing a window: the launcher is brought back and told.
LEMMA ClosedReported ==
    ASSUME PvInv, NEW p \in Pids, NEW e \in Epochs
    PROVE  out[p] \o RestoreLauncher(p) \o <<Event("Closed", e)>> \in Seq(Events)
  <1>1. Event("Closed", e) \in Events /\ Event("LauncherShow", 0) \in Events /\ out[p] \in Seq(Events)
    <2>1. 0 \in Epochs /\ {"Closed", "LauncherShow"} \subseteq EventNames
      BY PreviewAssumption DEF EventNames, Epochs
    <2>2. Event("Closed", e) \in Events /\ Event("LauncherShow", 0) \in Events
      BY <2>1 DEF Event, Events
    <2> QED
      BY <2>2, RunningTypes
  <1> HIDE DEF Events, Event
  <1>2. RestoreLauncher(p) \in Seq(Events)
    BY <1>1 DEF RestoreLauncher, Optional
  <1>3. <<Event("Closed", e)>> \in Seq(Events)
    BY <1>1
  <1>4. out[p] \o RestoreLauncher(p) \in Seq(Events)
    BY <1>1, <1>2, ConcatProperties
  <1> QED
    BY <1>3, <1>4, ConcatProperties

\* CloseWindow, for a command or a key.
LEMMA CloseKeepsInv ==
    ASSUME PvInv, NEW p \in Pids, proc[p] = "up", UNCHANGED <<daemonVars, proc>>,
           NEW e \in Epochs, CloseWindow(p, e),
           NEW i \in Seq(Commands), inbox' = [inbox EXCEPT ![p] = i], i # <<>> => inbox[p] # <<>>
    PROVE  PvInv'
  <1> DEFINE v == [view[p] EXCEPT !.shown = FALSE, !.hid = FALSE, !.idle = TRUE]
             o == out[p] \o RestoreLauncher(p) \o <<Event("Closed", e)>>
  <1>1. v \in Views /\ v.shown = FALSE
    BY RunningTypes DEF Views
  <1>2. o \in Seq(Events)
    BY ClosedReported
  <1>3. view' = [view EXCEPT ![p] = v]
    BY DEF CloseWindow
  <1>4. out' = [out EXCEPT ![p] = o]
    BY DEF CloseWindow
  <1> HIDE DEF v, o
  <1> QED
    BY <1>1, <1>2, <1>3, <1>4, ViewKeepsInv

\* update_launcher_visibility, of a window that is or is not there.
LEMMA VisibilityKeepsInv ==
    ASSUME PvInv, NEW p \in Pids, proc[p] = "up", UNCHANGED <<daemonVars, proc>>,
           NEW v \in Views, v.shown = view[p].shown, NEW fits \in BOOLEAN, UpdateVisibility(p, v, fits),
           NEW i \in Seq(Commands), inbox' = [inbox EXCEPT ![p] = i], i # <<>> => inbox[p] # <<>>
    PROVE  PvInv'
  <1>1. CASE ~ v.shown \/ ~ v.rect \/ v.hid = ~ fits
    <2>1. view' = [view EXCEPT ![p] = v] /\ out' = [out EXCEPT ![p] = out[p]]
      BY <1>1 DEF UpdateVisibility, PvInv, LinkTypes
    <2>2. out[p] \in Seq(Events)
      BY RunningTypes
    <2> QED
      BY <2>1, <2>2, ViewKeepsInv
  <1>2. CASE ~(~ v.shown \/ ~ v.rect \/ v.hid = ~ fits)
    <2> DEFINE w == [v EXCEPT !.hid = ~ fits]
               name == IF fits THEN "LauncherShow" ELSE "LauncherSoftHide"
               o == Append(out[p], Event(name, 0))
    <2>1. w \in Views /\ w.shown = v.shown
      BY DEF Views
    <2>2. o \in Seq(Events)
      <3>1. name \in EventNames /\ 0 \in Epochs
        BY PreviewAssumption DEF EventNames, Epochs
      <3> QED
        BY <3>1, Reported
    <2>3. view' = [view EXCEPT ![p] = w] /\ out' = [out EXCEPT ![p] = o]
      BY <1>2 DEF UpdateVisibility
    <2> HIDE DEF w, o
    <2> QED
      BY <2>1, <2>2, <2>3, ViewKeepsInv
  <1> QED
    BY <1>1, <1>2

\* A command of the socket is handled.
LEMMA CommandKeepsInv ==
    ASSUME PvInv, NEW p \in Pids, handle_command(p) PROVE PvInv'
  <1> DEFINE c == Head(inbox[p])
             i == Tail(inbox[p])
  <1>1. /\ proc[p] = "up" /\ inbox[p] # <<>> /\ inbox' = [inbox EXCEPT ![p] = i]
        /\ UNCHANGED <<daemonVars, proc>>
    BY DEF handle_command
  <1>2. inbox[p] \in Seq(Commands) /\ view[p] \in Views /\ out[p] \in Seq(Events)
    BY RunningTypes
  <1>3. c \in Commands /\ i \in Seq(Commands)
    BY <1>1, <1>2, HeadTailProperties
  <1>4. c.epoch \in Epochs
    BY <1>3 DEF Commands
  <1>5. \/ HandleShow(p, c)
        \/ CloseWindow(p, c.epoch)
        \/ \E fits \in BOOLEAN : UpdateVisibility(p, [view[p] EXCEPT !.rect = TRUE], fits)
        \/ UNCHANGED <<view, out>>
    BY DEF handle_command
  <1> HIDE DEF c, i
  <1>6. CASE HandleShow(p, c)
    <2>1. CASE /\ view' = [view EXCEPT ![p].epoch = c.epoch, ![p].idle = FALSE, ![p].shown = TRUE, ![p].check = TRUE]
               /\ UNCHANGED out
      <3> DEFINE v == [view[p] EXCEPT !.epoch = c.epoch, !.idle = FALSE, !.shown = TRUE, !.check = TRUE]
      <3>1. v \in Views
        BY <1>2, <1>4 DEF Views
      <3>2. view' = [view EXCEPT ![p] = v] /\ out' = [out EXCEPT ![p] = out[p]]
        BY <2>1 DEF PvInv, LinkTypes
      <3> HIDE DEF v
      <3> QED
        BY <1>1, <1>2, <1>3, <3>1, <3>2, ViewKeepsInv
    <2>2. CASE /\ view' = [view EXCEPT ![p].epoch = c.epoch, ![p].idle = FALSE]
               /\ out' = [out EXCEPT ![p] = Append(@, Event("Error", c.epoch))]
      <3> DEFINE v == [view[p] EXCEPT !.epoch = c.epoch, !.idle = FALSE]
                 o == Append(out[p], Event("Error", c.epoch))
      <3>1. v \in Views
        BY <1>2, <1>4 DEF Views
      <3>2. o \in Seq(Events)
        BY <1>4, Reported DEF EventNames
      <3>3. view' = [view EXCEPT ![p] = v] /\ out' = [out EXCEPT ![p] = o]
        BY <2>2
      <3> HIDE DEF v, o
      <3> QED
        BY <1>1, <1>2, <1>3, <3>1, <3>2, <3>3, ViewKeepsInv
    <2> QED
      BY <1>6, <2>1, <2>2 DEF HandleShow
  <1>7. CASE CloseWindow(p, c.epoch)
    BY <1>1, <1>3, <1>4, <1>7, CloseKeepsInv
  <1>8. CASE \E fits \in BOOLEAN : UpdateVisibility(p, [view[p] EXCEPT !.rect = TRUE], fits)
    <2> DEFINE v == [view[p] EXCEPT !.rect = TRUE]
    <2>1. PICK fits \in BOOLEAN : UpdateVisibility(p, v, fits)
      BY <1>8
    <2>2. v \in Views /\ v.shown = view[p].shown
      BY <1>2 DEF Views
    <2> HIDE DEF v
    <2> QED
      BY <1>1, <1>3, <2>1, <2>2, VisibilityKeepsInv
  <1>9. CASE UNCHANGED <<view, out>>
    <2>1. view' = [view EXCEPT ![p] = view[p]] /\ out' = [out EXCEPT ![p] = out[p]]
      BY <1>9 DEF PvInv, LinkTypes
    <2> QED
      BY <1>1, <1>2, <1>3, <2>1, ViewKeepsInv
  <1> QED
    BY <1>5, <1>6, <1>7, <1>8, <1>9

\* The timer after a show and the keys of the user.
LEMMA KeysKeepInv ==
    ASSUME PvInv, NEW p \in Pids,
           VisibilityTimer(p) \/ close_via_keyboard(p) \/ run_plugin_launch(p) \/ NavKey(p)
    PROVE  PvInv'
  <1>1. view[p] \in Views /\ out[p] \in Seq(Events) /\ inbox[p] \in Seq(Commands) /\ view[p].epoch \in Epochs
    BY RunningTypes
  <1>2. proc[p] = "up" /\ UNCHANGED <<daemonVars, proc>> /\ inbox' = [inbox EXCEPT ![p] = inbox[p]]
    BY DEF VisibilityTimer, close_via_keyboard, run_plugin_launch, NavKey, PvInv, LinkTypes
  <1>3. CASE VisibilityTimer(p)
    <2> DEFINE v == [view[p] EXCEPT !.check = FALSE]
    <2>1. PICK fits \in BOOLEAN : UpdateVisibility(p, v, fits)
      BY <1>3 DEF VisibilityTimer
    <2>2. v \in Views /\ v.shown = view[p].shown
      BY <1>1 DEF Views
    <2> HIDE DEF v
    <2> QED
      BY <1>1, <1>2, <2>1, <2>2, VisibilityKeepsInv
  <1>4. CASE close_via_keyboard(p)
    <2>1. CloseWindow(p, view[p].epoch)
      BY <1>4 DEF close_via_keyboard
    <2> QED
      BY <1>1, <1>2, <2>1, CloseKeepsInv
  <1>5. CASE run_plugin_launch(p)
    <2> DEFINE v == [view[p] EXCEPT !.shown = FALSE, !.idle = TRUE]
               o == Append(out[p], Event("Launched", view[p].epoch))
    <2>1. v \in Views /\ v.shown = FALSE
      BY <1>1 DEF Views
    <2>2. o \in Seq(Events)
      BY <1>1, Reported DEF EventNames
    <2>3. view' = [view EXCEPT ![p] = v] /\ out' = [out EXCEPT ![p] = o]
      BY <1>5 DEF run_plugin_launch
    <2> HIDE DEF v, o
    <2> QED
      BY <1>1, <1>2, <2>1, <2>2, <2>3, ViewKeepsInv
  <1>6. CASE NavKey(p)
    <2> DEFINE o == Append(out[p], Event("NavKey", view[p].epoch))
    <2>1. o \in Seq(Events)
      BY <1>1, Reported DEF EventNames
    <2>2. view' = [view EXCEPT ![p] = view[p]] /\ out' = [out EXCEPT ![p] = o]
      BY <1>6 DEF NavKey, PvInv, LinkTypes
    <2> HIDE DEF o
    <2> QED
      BY <1>1, <1>2, <2>1, <2>2, ViewKeepsInv
  <1> QED
    BY <1>3, <1>4, <1>5, <1>6

\* The process ends, by its idle timer or by a crash that loses the last events.
LEMMA ExitKeepsInv ==
    ASSUME PvInv, NEW p \in Pids, NEW how \in {"quit", "crashed"}, NEW kept \in 0..Len(out[p]), Exit(p, how, kept)
    PROVE  PvInv'
  <1> USE DEF spawnerVars, linkVars
  <1>0. ServedInv(p) /\ WatchInv(p) /\ LinkTypes /\ (life.stage = "dead" <=> life.pid = NoPid)
    BY DEF PvInv, WindowInv, ProcessIsWatched, WatchInv
  <1>1. LauncherInv'
    BY LauncherAside DEF Exit, daemonVars
  <1>2. /\ proc[p] = "up" /\ proc' = [proc EXCEPT ![p] = how] /\ view' = [view EXCEPT ![p] = NoView]
        /\ inbox' = [inbox EXCEPT ![p] = <<>>] /\ out' = [out EXCEPT ![p] = SubSeq(out[p], 1, kept)]
        /\ UNCHANGED <<geometry, life, sup, chan, writer>>
    BY DEF Exit, daemonVars
  <1>3. out' \in [Pids -> Seq(Events)]
    <2>1. out[p] \in Seq(Events)
      BY RunningTypes
    <2> HIDE DEF Events
    <2>2. SubSeq(out[p], 1, kept) \in Seq(Events)
      BY <2>1, SubSeqProperties
    <2> QED
      BY <1>0, <1>2, <2>2 DEF LinkTypes
  <1>4. proc' \in [Pids -> ProcStates] /\ proc'[p] = how /\ \A q \in Pids : q # p => proc'[q] = proc[q]
    BY <1>0, <1>2 DEF LinkTypes, ProcStates
  <1>5. /\ inbox' \in [Pids -> Seq(Commands)] /\ inbox'[p] = <<>>
        /\ \A q \in Pids : q # p => inbox'[q] = inbox[q]
    <2> HIDE DEF Commands
    <2> QED
      BY <1>0, <1>2 DEF LinkTypes
  <1>6. view' \in [Pids -> Views] /\ view'[p].shown = FALSE /\ \A q \in Pids : q # p => view'[q] = view[q]
    <2>1. NoView \in Views /\ NoView.shown = FALSE
      BY PreviewAssumption DEF NoView, Views, Epochs
    <2> HIDE DEF NoView
    <2> QED
      BY <1>0, <1>2, <2>1 DEF LinkTypes
  <1>7. LinkTypes'
    BY <1>0, <1>2, <1>3, <1>4, <1>5, <1>6 DEF LinkTypes
  <1>8. ServedInv(p)' /\ WatchInv(p)'
    BY <1>0, <1>2, <1>4, <1>5, <1>6 DEF ServedInv, Served, Owns, WatchInv, Watched
  <1> QED
    BY <1>0, <1>1, <1>2, <1>4, <1>5, <1>6, <1>7, <1>8, OneProcess DEF PvInv

--------------------------------------------------------------------------------
(***************************************************************************)
(* The theorems.                                                           *)
(***************************************************************************)
\* A step that changes nothing.
LEMMA StutterKeepsInv ==
    ASSUME PvInv, UNCHANGED vars PROVE PvInv'
  <1> USE DEF vars, launcherVars, spawnerVars, linkVars, processVars
  <1>1. LauncherInv'
    BY LauncherAside
  <1>2. LinkTypes'
    BY DEF PvInv, LinkTypes
  <1>3. WindowInv'
    BY DEF PvInv, WindowInv, ServedInv, Served, Owns
  <1>4. ProcessIsWatched'
    BY DEF PvInv, ProcessIsWatched, Watched, Owns
  <1> QED
    BY <1>1, <1>2, <1>3, <1>4 DEF PvInv

\* Every step of the launcher, the daemon's tasks, the processes and the user.
LEMMA PvInvStep == PvInv /\ [Next]_vars => PvInv'
  <1> SUFFICES ASSUME PvInv, [Next]_vars PROVE PvInv'
    OBVIOUS
  <1>1. CASE FadeOut \/ QuickLook \/ LeavePreview \/ Toggle \/ Tell
    BY <1>1, LauncherKeepsInv
  <1>2. ASSUME NEW r \in requests, NewEpoch(r) \/ Serve(r) PROVE PvInv'
    BY <1>2, NewEpochKeepsInv, ServeKeepsInv
  <1>3. ASSUME NEW p \in Pids, Supervise(p) PROVE PvInv'
    BY <1>3, StagesKeepInv, ReadKeepsInv, DrainKeepsInv, TellKeepsInv, TerminateKeepsInv DEF Supervise
  <1>4. ASSUME NEW p \in Pids, Task(p) \/ User(p) PROVE PvInv'
    BY <1>3, <1>4, WriterKeepsInv, BootKeepsInv, CommandKeepsInv, KeysKeepInv DEF Task, User
  <1>5. ASSUME NEW p \in Pids, IdleQuit(p) \/ Crash(p) PROVE PvInv'
    <2>1. CASE IdleQuit(p)
      <3>1. Len(out[p]) \in 0..Len(out[p])
        <4>1. out[p] \in Seq(Events)
          BY RunningTypes
        <4> QED
          BY <4>1, LenProperties
      <3> QED
        BY <2>1, <3>1, ExitKeepsInv DEF IdleQuit
    <2>2. CASE Crash(p)
      BY <2>2, ExitKeepsInv DEF Crash
    <2> QED
      BY <1>5, <2>1, <2>2
  <1>6. CASE UNCHANGED vars
    BY <1>6, StutterKeepsInv
  <1> QED
    BY <1>1, <1>2, <1>4, <1>5, <1>6 DEF Next

\* Two windows would be shown by two processes that the lifecycle both names.
LEMMA InvGivesOneWindow == PvInv => OneWindow
  <1> SUFFICES ASSUME PvInv PROVE OneWindow
    OBVIOUS
  <1> DEFINE S == {p \in Pids : view[p].shown}
  <1>1. \A p \in S : p = life.pid
    BY DEF PvInv, WindowInv, ServedInv, Served, Owns
  <1>2. S \subseteq {life.pid}
    BY <1>1
  <1>3. IsFiniteSet({life.pid}) /\ Cardinality({life.pid}) = 1
    BY FS_Singleton
  <1>4. Cardinality(S) <= 1
    BY <1>2, <1>3, FS_Subset
  <1> QED
    BY <1>4 DEF OneWindow

\* The parts of the invariant the type invariant states.
LEMMA InvGivesTypes == PvInv => TypeOK
  <1> SUFFICES ASSUME PvInv PROVE TypeOK
    OBVIOUS
  <1>1. epoch \in Epochs /\ \A r \in requests : r.epoch \in Epochs
    BY EpochsBounded DEF PvInv
  <1>2. /\ gui \in [visible : BOOLEAN, fading : BOOLEAN, aside : BOOLEAN]
        /\ mode \in BOOLEAN /\ made \in 0..MaxRequests
        /\ \A r \in requests : r.n \in 1..made /\ r.op \in OpKinds
    BY DEF PvInv, LauncherInv, AllRequests
  <1>3. geometry \in BOOLEAN /\ life.stage \in {"dead", "starting", "ready"} /\ life.pid \in Pids \cup {NoPid}
    BY DEF PvInv, LinkTypes, LifeStates
  <1>4. ASSUME NEW p \in Pids
        PROVE  /\ sup[p].stage \in SupStages
               /\ chan[p] \in Seq(Commands) /\ Len(chan[p]) <= Capacity
               /\ writer[p] \in {"none", "running", "gone"}
               /\ proc[p] \in ProcStates
               /\ inbox[p] \in Seq(Commands)
    <2>1. sup[p] \in SupTasks
      BY DEF PvInv, LinkTypes
    <2>2. sup[p].stage \in SupStages
      BY <2>1 DEF SupTasks
    <2> HIDE DEF Commands
    <2> QED
      BY <2>2 DEF PvInv, LinkTypes
  <1> QED
    BY <1>1, <1>2, <1>3, <1>4 DEF TypeOK, SupStages

\* PvInv is inductive.
LEMMA PvInvAlways == Spec => []PvInv
  BY PvInvInit, PvInvStep, PTL DEF Spec

\* The launcher, the spawner, the supervisors and the processes keep their types,
\* a command queue never holds more than PREVIEW_CMD_QUEUE_CAP commands, and there
\* are no more epochs than requests.
THEOREM PreviewTyped == Spec => []TypeOK
  BY PvInvAlways, InvGivesTypes, PTL

\* dispatch uses the warm process again: two preview windows are never shown at
\* once, whatever is lost, however often the preview crashes or is slow to start.
THEOREM OneWindowAlways == Spec => []OneWindow
  BY PvInvAlways, InvGivesOneWindow, PTL

\* A process that lives, and the one the lifecycle names, has a supervisor task
\* that will reset the lifecycle and terminate it.
THEOREM AlwaysWatched == Spec => []ProcessIsWatched
  <1>1. PvInv => ProcessIsWatched
    BY DEF PvInv
  <1> QED
    BY <1>1, PvInvAlways, PTL

================================================================================
