---------------------------- MODULE SearchSession ----------------------------
(***************************************************************************)
(* A search on its way from the launcher to the daemon and back: the       *)
(* launcher's sending thread and the reader thread of each connection      *)
(* (lixun-gui ipc.rs), the daemon's task per connection with its search    *)
(* slot, its search tasks and its writer task (lixun-daemon main.rs), and  *)
(* the chunks of one search (lixun-fusion handle.rs).                      *)
(*                                                                         *)
(* A search is named by the session epoch it was asked in; "Show more      *)
(* results" asks again in the same epoch.  Hits, queries and limits do not *)
(* matter here.  Connections are numbered as they are made.                *)
(***************************************************************************)
EXTENDS Naturals, Sequences, FiniteSets, FiniteSetsExt, SequencesExt

CONSTANTS
    MaxEpoch,     \* bound: session epochs
    MaxSends,     \* bound: searches asked for
    MaxConns,     \* bound: connections
    MaxFaults,    \* bound: deaths of the daemon and undecodable frames
    WriteCap,     \* the capacity of write_tx
    Hybrid        \* an AnnHandle is set: an Initial chunk precedes the Final

ASSUME SearchAssumption ==
    /\ MaxEpoch \in Nat \ {0} /\ MaxSends \in Nat /\ MaxConns \in Nat /\ MaxFaults \in Nat
    /\ WriteCap \in Nat \ {0}
    /\ Hybrid \in BOOLEAN

Epochs == 1..MaxEpoch
Conns  == 1..MaxConns
NoSlot == [gen |-> 0, epoch |-> 0]

VARIABLES
    \* the launcher
    session,    \* session_epoch
    asked,      \* per epoch, searches handed to the sending thread
    requests,   \* request_tx
    sender,     \* the sending thread: where it is, its request and its attempt
    conn,       \* its Conn, 0 for None
    lastSent,   \* last_sent_epoch
    reader,     \* per connection, its read_loop
    events,     \* per epoch, what reached the event channel, in order
    unread,     \* history: epochs whose last search was written to a connection
                \* whose reader had given up
    mark,       \* history: how many events its epoch had when the last search was taken
    \* the wire
    upward,     \* per connection, epochs written by the launcher
    downward,   \* per connection, frames written by the daemon
    faults,
    \* the daemon
    up,         \* it listens
    client,     \* per connection, handle_client
    tasks,      \* per connection, its search_tasks
    queue       \* per connection, the responses for writer_task

launcherVars == <<session, asked, requests, sender, conn, lastSent, reader, events, unread, mark>>
daemonVars   == <<client, tasks, queue>>
ssVars == <<launcherVars, upward, downward, faults, up, daemonVars>>

Idle      == [at |-> "idle", epoch |-> 0, tries |-> 0]
NoReader  == [at |-> "none", final |-> 0, timeout |-> 0]
NoClient  == [at |-> "none", slot |-> NoSlot, next |-> 0, request |-> 0]

SsInit ==
    /\ session = 1 /\ asked = [e \in Epochs |-> 0] /\ requests = <<>>
    /\ sender = Idle /\ conn = 0 /\ lastSent = 0
    /\ reader = [c \in Conns |-> NoReader]
    /\ events = [e \in Epochs |-> <<>>] /\ unread = {} /\ mark = 0
    /\ upward = [c \in Conns |-> <<>>] /\ downward = [c \in Conns |-> <<>>]
    /\ faults = 0 /\ up = TRUE
    /\ client = [c \in Conns |-> NoClient]
    /\ tasks = [c \in Conns |-> {}]
    /\ queue = [c \in Conns |-> <<>>]

--------------------------------------------------------------------------------
(***************************************************************************)
(* The launcher's main thread.                                             *)
(***************************************************************************)
\* A keystroke, a chip, a hide: whatever is under way belongs to the past.
Bump ==
    /\ session < MaxEpoch
    /\ session' = session + 1
    /\ unread' = {} /\ mark' = 0
    /\ UNCHANGED <<asked, requests, sender, conn, lastSent, reader, events,
                   upward, downward, faults, up, daemonVars>>

\* The searches asked for so far.
Sends == MapThenSumSet(LAMBDA e : asked[e], Epochs)

\* The debounce fires, or "Show more results" is chosen.  The bound is one on all
\* epochs, and so on each.
Ask ==
    /\ Sends < MaxSends /\ asked[session] < MaxSends
    /\ asked' = [asked EXCEPT ![session] = @ + 1]
    /\ requests' = Append(requests, session)
    /\ UNCHANGED <<session, sender, conn, lastSent, reader, events, unread, mark,
                   upward, downward, faults, up, daemonVars>>

(***************************************************************************)
(* The sending thread.                                                     *)
(***************************************************************************)
TakeRequest ==
    /\ sender.at = "idle" /\ requests # <<>>
    /\ requests' = Tail(requests)
    /\ LET e == Head(requests) IN
       IF e # session THEN UNCHANGED <<sender, lastSent, unread, mark>>
       ELSE /\ lastSent' = e
            /\ sender' = [at |-> "check", epoch |-> e, tries |-> 0]
            /\ unread' = unread \ {e}
            /\ mark' = Len(events[e])
    /\ UNCHANGED <<session, asked, conn, reader, events,
                   upward, downward, faults, up, daemonVars>>

ConnAlive(c) == c # 0 /\ reader[c].at \in {"reading", "leaving"}

Report(e, what) == events' = [events EXCEPT ![e] = Append(@, what)]

\* The search could not be sent.
GiveUp ==
    /\ sender' = Idle
    /\ IF sender.epoch = session THEN Report(session, "failed") ELSE UNCHANGED events

\* connect_with_reader
Connect(c) ==
    /\ conn' = c
    /\ reader' = [reader EXCEPT ![c].at = "reading"]
    /\ client' = [client EXCEPT ![c].at = "loop"]

\* The top of the attempt: reader_alive is looked at, a connection is made.
CheckConn ==
    /\ sender.at = "check"
    /\ \/ /\ ConnAlive(conn)
          /\ sender' = [sender EXCEPT !.at = "write"]
          /\ UNCHANGED <<conn, reader, client, events>>
       \/ /\ ~ConnAlive(conn) /\ up
          /\ \E c \in Conns : /\ client[c].at = "none"
                              /\ \A b \in Conns : b < c => client[b].at # "none"
                              /\ Connect(c)
          /\ sender' = [sender EXCEPT !.at = "write"]
          /\ UNCHANGED events
       \/ /\ ~ConnAlive(conn) /\ ~up
          /\ conn' = 0
          /\ GiveUp
          /\ UNCHANGED <<reader, client>>
    /\ UNCHANGED <<session, asked, requests, lastSent, unread, mark,
                   upward, downward, faults, up, tasks, queue>>

\* Mutant: the sending thread tries again after a successful write as well.
WriteSearch_twice ==
    /\ sender.at = "write"
    /\ LET open == client[conn].at # "closed" IN
       /\ upward' = IF open THEN [upward EXCEPT ![conn] = Append(@, sender.epoch)] ELSE upward
       /\ conn' = IF open THEN conn ELSE 0
       /\ IF sender.tries = 0
          THEN sender' = [sender EXCEPT !.at = "check", !.tries = 1] /\ UNCHANGED events
          ELSE IF open THEN sender' = Idle /\ UNCHANGED events ELSE GiveUp
    /\ UNCHANGED <<session, asked, requests, lastSent, reader, unread, mark,
                   downward, faults, up, daemonVars>>

\* write_all: it fails when the daemon has closed its end.
WriteSearch ==
    /\ sender.at = "write"
    /\ IF client[conn].at # "closed"
       THEN /\ upward' = [upward EXCEPT ![conn] = Append(@, sender.epoch)]
            /\ unread' = IF reader[conn].at = "reading" THEN unread ELSE unread \cup {sender.epoch}
            /\ sender' = Idle
            /\ UNCHANGED <<conn, events>>
       ELSE /\ conn' = 0
            /\ IF sender.tries = 1 THEN GiveUp
               ELSE /\ sender' = [sender EXCEPT !.at = "check", !.tries = 1]
                    /\ UNCHANGED events
            /\ UNCHANGED <<upward, unread>>
    /\ UNCHANGED <<session, asked, requests, lastSent, mark, reader, downward, faults, up, daemonVars>>

(***************************************************************************)
(* The reader of connection c.                                             *)
(***************************************************************************)
\* pending_epoch
Pending(delivered) == lastSent = session /\ delivered < lastSent

\* Mutant: the reader leaves without fail_if_pending.
Leave_silent(c) ==
    /\ reader' = [reader EXCEPT ![c].at = "leaving"]
    /\ UNCHANGED events

\* fail_if_pending, then the way out of read_loop.
Leave(c) ==
    LET failing == Pending(reader[c].final) IN
    /\ reader' = [reader EXCEPT ![c].at = "leaving",
                                ![c].final = IF failing THEN lastSent ELSE @]
    /\ IF failing THEN Report(lastSent, "failed") ELSE UNCHANGED events

Deliver(c, f) ==
    IF f.epoch # session THEN UNCHANGED <<reader, events>>
    ELSE /\ Report(f.epoch, f.what)
         /\ reader' = [reader EXCEPT ![c].final = IF f.what = "Final" THEN Max({@, f.epoch}) ELSE @]

ReadFrame(c) ==
    /\ reader[c].at = "reading" /\ downward[c] # <<>>
    /\ downward' = [downward EXCEPT ![c] = Tail(@)]
    /\ LET f == Head(downward[c]) IN
       CASE f.what \in {"Initial", "Final"} -> Deliver(c, f)
         [] f.what = "Cancelled"            -> UNCHANGED <<reader, events>>
         [] f.what = "bad"                  -> Leave(c)
    /\ UNCHANGED <<session, asked, requests, sender, conn, lastSent, unread, mark,
                   upward, faults, up, daemonVars>>

ReadEof(c) ==
    /\ reader[c].at = "reading" /\ downward[c] = <<>> /\ client[c].at = "closed"
    /\ Leave(c)
    /\ UNCHANGED <<session, asked, requests, sender, conn, lastSent, unread, mark,
                   upward, downward, faults, up, daemonVars>>

\* READ_WATCHDOG passes without a frame.
Watchdog(c) ==
    /\ reader[c].at = "reading" /\ downward[c] = <<>>
    /\ Pending(Max({reader[c].final, reader[c].timeout}))
    /\ Report(lastSent, "timeout")
    /\ reader' = [reader EXCEPT ![c].timeout = lastSent]
    /\ UNCHANGED <<session, asked, requests, sender, conn, lastSent, unread, mark,
                   upward, downward, faults, up, daemonVars>>

\* ReaderAliveGuard is dropped.
DropGuard(c) ==
    /\ reader[c].at = "leaving"
    /\ reader' = [reader EXCEPT ![c].at = "gone"]
    /\ UNCHANGED <<session, asked, requests, sender, conn, lastSent, events, unread, mark,
                   upward, downward, faults, up, daemonVars>>

--------------------------------------------------------------------------------
(***************************************************************************)
(* The daemon: handle_client, with the lock of the slot held from          *)
(* TakeSearch to InstallSearch.                                            *)
(***************************************************************************)
\* read_request; slot.take() and the cancellation of the search it held.
TakeSearch(c) ==
    /\ client[c].at = "loop" /\ upward[c] # <<>>
    /\ upward' = [upward EXCEPT ![c] = Tail(@)]
    /\ client' = [client EXCEPT ![c].at = "install", ![c].request = Head(upward[c])]
    /\ tasks' = [tasks EXCEPT ![c] =
                   {[t EXCEPT !.cancelled = @ \/ t.gen = client[c].slot.gen] : t \in @}]
    /\ UNCHANGED <<launcherVars, downward, faults, up, queue>>

\* Mutant: write_tx without a bound.
Room_unbounded(c) == TRUE

Room(c) == Len(queue[c]) < WriteCap

\* Cancelled for the search that held the slot, a new generation, a new task.
InstallSearch(c) ==
    /\ client[c].at = "install"
    /\ LET k == client[c]
           g == k.next + 1 IN
       /\ IF k.slot = NoSlot THEN UNCHANGED queue
          ELSE /\ Room(c)
               /\ queue' = [queue EXCEPT ![c] = Append(@, [what |-> "Cancelled", epoch |-> k.slot.epoch])]
       /\ client' = [client EXCEPT ![c] = [at |-> "loop", next |-> g, request |-> 0,
                                          slot |-> [gen |-> g, epoch |-> k.request]]]
       /\ tasks' = [tasks EXCEPT ![c] =
                      @ \cup {[gen |-> g, epoch |-> k.request, cancelled |-> FALSE,
                               at |-> IF Hybrid THEN "Initial" ELSE "Final", sending |-> FALSE]}]
    /\ UNCHANGED <<launcherVars, upward, downward, faults, up>>

(***************************************************************************)
(* handle_search.  A chunk is ready; if the search has been cancelled the  *)
(* task returns, else it is sent, cancelled meanwhile or not.              *)
(***************************************************************************)
Becomes(c, t, u) == tasks' = [tasks EXCEPT ![c] = (@ \ {t}) \cup u]

ChunkReady(c, t) ==
    /\ t.at \in {"Initial", "Final"} /\ ~t.sending
    /\ Becomes(c, t, IF t.cancelled THEN {} ELSE {[t EXCEPT !.sending = TRUE]})
    /\ UNCHANGED <<launcherVars, upward, downward, faults, up, client, queue>>

SendChunk(c, t) ==
    /\ t.sending /\ Room(c)
    /\ queue' = [queue EXCEPT ![c] = Append(@, [what |-> t.at, epoch |-> t.epoch])]
    /\ Becomes(c, t, {[t EXCEPT !.sending = FALSE, !.at = IF @ = "Initial" THEN "Final" ELSE "clear"]})
    /\ UNCHANGED <<launcherVars, upward, downward, faults, up, client>>

\* The lexical search fails: the streaming task only closes its channel, the
\* lexical-only search is the task's own error.
SearchFails(c, t) ==
    /\ t.at \in {"Initial", "Final"} /\ ~t.sending
    /\ Becomes(c, t, IF Hybrid THEN {[t EXCEPT !.at = "clear"]} ELSE {})
    /\ UNCHANGED <<launcherVars, upward, downward, faults, up, client, queue>>

\* Mutant: the slot is emptied whatever it holds.
ClearSlot_any(c, t) ==
    /\ t.at = "clear" /\ client[c].at # "install"
    /\ client' = [client EXCEPT ![c].slot = NoSlot]
    /\ Becomes(c, t, {})
    /\ UNCHANGED <<launcherVars, upward, downward, faults, up, queue>>

\* The end of handle_search: the slot is emptied if it still holds this search.
ClearSlot(c, t) ==
    /\ t.at = "clear" /\ client[c].at # "install"
    /\ client' = [client EXCEPT ![c].slot = IF @.gen = t.gen THEN NoSlot ELSE @]
    /\ Becomes(c, t, {})
    /\ UNCHANGED <<launcherVars, upward, downward, faults, up, queue>>

SearchTask(c) ==
    \E t \in tasks[c] : ChunkReady(c, t) \/ SendChunk(c, t) \/ SearchFails(c, t) \/ ClearSlot(c, t)

\* writer_task; the frame may be one the launcher cannot decode.
WriteResponse(c) ==
    /\ queue[c] # <<>>
    /\ queue' = [queue EXCEPT ![c] = Tail(@)]
    /\ \/ /\ downward' = [downward EXCEPT ![c] = Append(@, Head(queue[c]))]
          /\ UNCHANGED faults
       \/ /\ faults < MaxFaults
          /\ faults' = faults + 1
          /\ downward' = [downward EXCEPT ![c] = Append(@, [what |-> "bad", epoch |-> 0])]
    /\ UNCHANGED <<launcherVars, upward, up, client, tasks>>

Closed(cs) ==
    /\ client' = [c \in Conns |-> IF c \in cs THEN [NoClient EXCEPT !.at = "closed"] ELSE client[c]]
    /\ tasks' = [c \in Conns |-> IF c \in cs THEN {} ELSE tasks[c]]
    /\ queue' = [c \in Conns |-> IF c \in cs THEN <<>> ELSE queue[c]]
    /\ upward' = [c \in Conns |-> IF c \in cs THEN <<>> ELSE upward[c]]

\* Both descriptors of the launcher are closed: read_request returns None.
ClientGone(c) ==
    /\ client[c].at = "loop" /\ upward[c] = <<>>
    /\ reader[c].at = "gone" /\ conn # c
    /\ Closed({c})
    /\ UNCHANGED <<launcherVars, downward, faults, up>>

Die ==
    /\ up /\ faults < MaxFaults
    /\ up' = FALSE /\ faults' = faults + 1
    /\ Closed({c \in Conns : client[c].at # "none"})
    /\ UNCHANGED <<launcherVars, downward>>

Start ==
    /\ ~up /\ up' = TRUE
    /\ UNCHANGED <<launcherVars, upward, downward, faults, daemonVars>>

--------------------------------------------------------------------------------
Reader(c) == ReadFrame(c) \/ ReadEof(c) \/ Watchdog(c) \/ DropGuard(c)
Sender == TakeRequest \/ CheckConn \/ WriteSearch
HandleClient(c) == TakeSearch(c) \/ InstallSearch(c) \/ ClientGone(c)

SsNext ==
    \/ Bump \/ Ask \/ Sender \/ Die \/ Start
    \/ \E c \in Conns : Reader(c) \/ HandleClient(c) \/ SearchTask(c) \/ WriteResponse(c)

SsSpec == SsInit /\ [][SsNext]_ssVars

SsFairness ==
    /\ WF_ssVars(Sender)
    /\ \A c \in Conns : /\ WF_ssVars(Reader(c)) /\ WF_ssVars(HandleClient(c))
                        /\ WF_ssVars(SearchTask(c)) /\ WF_ssVars(WriteResponse(c))

SsFairSpec == SsSpec /\ SsFairness
--------------------------------------------------------------------------------
Chunks == {"Initial", "Final"}

\* The type of every variable; the queue of a connection's responses stays
\* within the capacity of write_tx (main.rs, handle_client).
SsTypeOK ==
    /\ session \in Epochs /\ lastSent \in 0..MaxEpoch /\ conn \in 0..MaxConns
    /\ asked \in [Epochs -> 0..MaxSends] /\ requests \in Seq(Epochs)
    /\ sender \in [at : {"idle", "check", "write"}, epoch : 0..MaxEpoch, tries : 0..1]
    /\ reader \in [Conns -> [at : {"none", "reading", "leaving", "gone"},
                             final : 0..MaxEpoch, timeout : 0..MaxEpoch]]
    /\ \A e \in Epochs : events[e] \in Seq(Chunks \cup {"failed", "timeout"})
    /\ unread \subseteq Epochs /\ mark \in Nat /\ faults \in 0..MaxFaults /\ up \in BOOLEAN
    /\ \A c \in Conns :
        /\ upward[c] \in Seq(Epochs)
        /\ Len(queue[c]) <= WriteCap
        /\ client[c].at \in {"none", "loop", "install", "closed"}
        /\ \A t \in tasks[c] : t.epoch \in Epochs /\ t.at \in Chunks \cup {"clear"}

\* Same-connection preemption (ipc.rs 11-13, main.rs 1579-1600): a search of a
\* connection that has not been told to stop is the one in the slot, so the next
\* request finds it there.  A finished search that emptied the slot of a younger
\* one would let two of them run on.
OnlyTheSlotSearches ==
    \A c \in Conns : \A t \in tasks[c] : ~t.cancelled => t.gen = client[c].slot.gen

Count(e, what) == Cardinality({i \in DOMAIN events[e] : events[e][i] = what})

\* A request is answered at most once: no more Finals than searches asked for in
\* the epoch, whatever was retried, reconnected or cancelled on the way, and no
\* Initial chunk that could replace the last Final on the screen.
AnsweredOnce ==
    \A e \in Epochs :
        /\ Count(e, "Final") <= asked[e]
        /\ \A i \in DOMAIN events[e] : events[e][i] = "Initial" =>
               Cardinality({j \in 1..i : events[e][j] = "Final"}) < asked[e]

\* The searches of a launcher, on the daemon's side and on its own: one at a
\* time, each answered once.
SearchesInOrder == OnlyTheSlotSearches /\ AnsweredOnce

Among(e, from, to, what) == \E i \in from..to : events[e][i] \in what

\* The search last sent is of the session on the screen, and since it was taken there
\* was no Final, no failure and no timeout.
Unreported ==
    /\ lastSent = session
    /\ ~Among(session, mark + 1, Len(events[session]), {"Final", "failed", "timeout"})
    /\ session \notin unread

\* No first search is forgotten (ipc.rs 45-58): while its session lasts, every search
\* sent, and sent again after a failure, is followed by a Final, a failure or a timeout.
\* An Initial chunk does not count, nor what was reported before it was sent.  What
\* the code leaves open: a search written after its reader had decided to leave and
\* before it cleared reader_alive (unread; ipc.rs 146-160), and one sent when its epoch
\* had a Final or a timeout already (see RepeatsReported).
EverySearchReported ==
    LET first == Unreported /\ ~Among(session, 1, mark, {"Final", "timeout"})
    IN  first ~> ~first

--------------------------------------------------------------------------------
(***************************************************************************)
(* What comments of the code say and the code does not do.                 *)
(***************************************************************************)

\* ipc.rs 45-58 says TransportFailed is sent when a search "never reached the daemon"
\* or "the reader lost the connection mid-search", and SearchTimeout when the watchdog
\* expires "with a search still awaiting its Final".  So would be the search that "Show
\* more results" sends (window.rs 1971-1986) in the epoch of one that was answered:
\* but pending_epoch (244-252) knows epochs only, and after the first Final it is None.
RepeatsReported == Unreported ~> ~Unreported
================================================================================
