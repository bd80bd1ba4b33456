---------------------------- MODULE SemanticSession ----------------------------
(***************************************************************************)
(* The daemon and its semantic worker: the supervisor that starts the      *)
(* worker, shakes hands with it, serves it and starts it again after a     *)
(* pause (semantic_supervisor.rs); the one connection object that outlives *)
(* the sessions, with its table of pending requests (transport.rs); the    *)
(* callers that search, classify or ask for a backfill (source.rs); and,   *)
(* inside the worker, the slots whose models are unloaded when idle        *)
(* (supervisor.rs).  Only one channel of requests is drawn: the three      *)
(* tables of pending requests work alike.                                  *)
(***************************************************************************)
EXTENDS Naturals, Sequences, FiniteSets, FiniteSetsExt

CONSTANTS
    SmMaxSessions,  \* bound: sessions of the supervisor
    SmMaxRequests,  \* bound: requests made
    SmMaxBackoff,   \* MAX_BACKOFF, with MIN_BACKOFF as 1
    SmQueue,        \* WRITER_QUEUE_CAPACITY
    SlotCallers,    \* threads that use an embedder
    SlotMaxLoads    \* bound: loads of the embedder

ASSUME SmAssumption ==
    /\ SmMaxSessions \in Nat \ {0} /\ SmMaxRequests \in Nat
    /\ SmMaxBackoff \in Nat \ {0} /\ SmQueue \in Nat \ {0} /\ SlotMaxLoads \in Nat \ {0}

VARIABLES
    sup,       \* the supervisor: where it is, the session's number, the pause, the state it reports
    child,     \* the worker processes that run, by session
    smConn,    \* GLOBAL_CONN: installed, the session of its writer, next_req_id
    known,     \* the connection supervise() remembers: "none", "global" or "other"
    pending,   \* the ids in the pending tables
    smReqs,    \* per request: where it is, its id, whether it is a backfill, the session whose
               \* full queue it waits for, the request whose answer it got
    chan,      \* per session the commands written and not yet taken, or closed
    replies,   \* per session the replies its reader has not read
    slot,      \* an embedder slot: the instance, or 0, and whether it was used lately
    gate,      \* who holds the slot's reload_gate
    callers,   \* the users of the slot
    evictor,   \* the eviction tick
    loads      \* instances made

smVars   == <<sup, child, smConn, known, pending, smReqs, chan, replies>>
slotVars == <<slot, gate, callers, evictor, loads>>

Sessions == 1..SmMaxSessions
Requests == 1..SmMaxRequests
Closed   == <<0>>         \* a queue whose receiver is gone
Unanswered == {"registered", "sending", "waiting"}
SmFull(s)  == chan[s] # Closed /\ Len(chan[s]) >= SmQueue

SmInit ==
    /\ sup = [at |-> "start", session |-> 0, backoff |-> 1, state |-> "Starting"]
    /\ child = {} /\ known = "none"
    /\ smConn = [installed |-> FALSE, writer |-> 0, next |-> 1]
    /\ pending = {} /\ chan = [s \in Sessions |-> <<>>] /\ replies = [s \in Sessions |-> {}]
    /\ smReqs = [q \in Requests |-> [at |-> "new", id |-> 0, bf |-> FALSE, via |-> 0, got |-> 0]]

--------------------------------------------------------------------------------
(***************************************************************************)
(* supervise and run_one_session.                                          *)
(***************************************************************************)

\* bind and spawn; when one fails the session is over before it began.
StartSession ==
    /\ sup.at = "start" /\ sup.session < SmMaxSessions
    /\ \/ /\ sup' = [sup EXCEPT !.at = "handshake", !.session = @ + 1, !.state = "Starting"]
          /\ child' = child \cup {sup.session + 1}
       \/ /\ sup' = [sup EXCEPT !.at = "ended", !.session = @ + 1, !.state = "Starting"]
          /\ UNCHANGED child
    /\ UNCHANGED <<smConn, known, pending, smReqs, chan, replies>>

\* SIGTERM, three seconds, SIGKILL: the child is waited for.
kill_child == child' = child \ {sup.session}

\* No connection within the time, a wrong version or a broken reply: the
\* child is killed and waited for.
HandshakeFails ==
    /\ sup.at = "handshake"
    /\ sup' = [sup EXCEPT !.at = "ended"] /\ kill_child
    /\ UNCHANGED <<smConn, known, pending, smReqs, chan, replies>>

\* Mutant: the connection is made anew, with its request ids, each session.
Rebound_anew == [smConn EXCEPT !.writer = sup.session, !.next = 1]

\* rebind_writer: the connection keeps its ids and gets the session's queue.
Rebound == [smConn EXCEPT !.writer = sup.session]

\* The first connection is installed for good (OnceLock); later sessions
\* rebind the one supervise() remembers.
Handshake ==
    /\ sup.at = "handshake" /\ sup.session \in child
    /\ sup' = [sup EXCEPT !.at = "serve", !.state = "Ready"]
    /\ CASE known = "global" -> smConn' = Rebound
         [] known = "none" /\ ~smConn.installed ->
                smConn' = [installed |-> TRUE, writer |-> sup.session, next |-> 1]
         [] OTHER -> UNCHANGED smConn
    /\ UNCHANGED <<child, known, pending, smReqs, chan, replies>>

\* Mutant: a session that ends in an error is not remembered.
Remembered_not == known

\* run_one_session hands its connection back however the session ended.
Remembered == IF known = "none" THEN (IF smConn.writer = sup.session THEN "global" ELSE "other")
              ELSE known

\* The child exited, or the reader or the writer did and the child is killed.
\* The detached reader goes on with what the socket holds.
SessionEnds ==
    /\ sup.at = "serve"
    /\ \/ sup.session \notin child
       \/ chan[sup.session] = Closed
    /\ sup' = [sup EXCEPT !.at = "ended"] /\ kill_child
    /\ known' = Remembered
    /\ UNCHANGED <<smConn, pending, smReqs, chan, replies>>

\* Mutant: the pause doubles without a limit.
NextBackoff_unlimited(b) == 2 * b

NextBackoff(b) == Min({2 * b, SmMaxBackoff})

\* fail_all_pending, Backoff and the doubled pause, which no session resets.
fail_all_pending ==
    /\ sup.at = "ended"
    /\ sup' = [sup EXCEPT !.at = "backoff", !.state = "Backoff",
                          !.backoff = NextBackoff(@)]
    /\ IF known = "none" THEN UNCHANGED <<pending, smReqs>>
       ELSE /\ pending' = {}
            /\ smReqs' = [q \in Requests |->
                            IF smReqs[q].id \in pending /\ smReqs[q].at = "waiting"
                            THEN [smReqs[q] EXCEPT !.at = "done"]
                            ELSE smReqs[q]]
    /\ UNCHANGED <<child, smConn, known, chan, replies>>

BackoffEnds ==
    /\ sup.at = "backoff" /\ sup' = [sup EXCEPT !.at = "start"]
    /\ UNCHANGED <<child, smConn, known, pending, smReqs, chan, replies>>

\* The worker dies at any time.
ChildDies ==
    /\ \E s \in child : child' = child \ {s}
    /\ UNCHANGED <<sup, smConn, known, pending, smReqs, chan, replies>>

--------------------------------------------------------------------------------
(***************************************************************************)
(* Requests: SemanticIpcAnnHandle::issue_on, classify_query, cli_invoke.   *)
(***************************************************************************)
Others(q) == {r \in Requests : r # q}

\* Without a connection the caller has an empty answer at once.
Register(q) ==
    /\ smReqs[q].at = "new" /\ \A r \in 1..(q - 1) : smReqs[r].at # "new"
    /\ IF ~smConn.installed
       THEN smReqs' = [smReqs EXCEPT ![q].at = "done"] /\ UNCHANGED <<smConn, pending>>
       ELSE /\ \E backfill \in BOOLEAN :
                  smReqs' = [smReqs EXCEPT ![q] = [at |-> "registered", id |-> smConn.next, bf |-> backfill,
                                                  via |-> 0, got |-> 0]]
            /\ pending' = pending \cup {smConn.next}
            /\ smConn' = [smConn EXCEPT !.next = @ + 1]
    /\ UNCHANGED <<sup, child, known, chan, replies>>

\* The command goes to the queue the connection has now; while that is full the
\* caller waits for room in it, without a timeout, whatever the connection has by
\* then.  A closed queue ends a search and its entry; a backfill leaves the entry
\* behind.  A request failed by the supervisor, which has no entry any more, is sent
\* all the same.
SendRequest(q) ==
    /\ smReqs[q].at \in {"registered", "sending"}
    /\ LET s == IF smReqs[q].at = "registered" THEN smConn.writer ELSE smReqs[q].via
       IN  \/ /\ chan[s] = Closed
              /\ smReqs' = [smReqs EXCEPT ![q].at = "done"]
              /\ pending' = IF smReqs[q].bf THEN pending ELSE pending \ {smReqs[q].id}
              /\ UNCHANGED chan
           \/ /\ SmFull(s) /\ smReqs[q].at = "registered"
              /\ smReqs' = [smReqs EXCEPT ![q] = [@ EXCEPT !.at = "sending", !.via = s]]
              /\ UNCHANGED <<pending, chan>>
           \/ /\ chan[s] # Closed /\ ~SmFull(s)
              /\ chan' = [chan EXCEPT ![s] = Append(@, q)]
              /\ smReqs' = [smReqs EXCEPT ![q].at = IF smReqs[q].id \in pending THEN "waiting" ELSE "done"]
              /\ UNCHANGED pending
    /\ UNCHANGED <<sup, child, smConn, known, replies>>

\* Mutant: a request waits for its answer without a limit.
RequestTimesOut_never(q) == FALSE /\ UNCHANGED smVars

\* SEARCH_TIMEOUT, BACKFILL_TIMEOUT: the entry stays in its table.
RequestTimesOut(q) ==
    /\ smReqs[q].at = "waiting"
    /\ smReqs' = [smReqs EXCEPT ![q].at = "done"]
    /\ UNCHANGED <<sup, child, smConn, known, pending, chan, replies>>

\* A task of the worker answers every search: with hits, or with an error
\* when the search fails or takes too long.
WorkerReply(q) == [id |-> smReqs[q].id, of |-> q]

\* The writer task of a session: the worker takes the command and answers, or
\* the socket is gone, the command is lost and the queue closed.  A worker that
\* reads nothing keeps it from taking the next.
WriterSink(s) ==
    /\ chan[s] \notin {<<>>, Closed}
    /\ IF s \in child
       THEN /\ chan' = [chan EXCEPT ![s] = Tail(@)]
            /\ replies' = [replies EXCEPT ![s] = @ \cup {WorkerReply(Head(chan[s]))}]
       ELSE chan' = [chan EXCEPT ![s] = Closed] /\ UNCHANGED replies
    /\ UNCHANGED <<sup, child, smConn, known, pending, smReqs>>

\* handle_msg: the reader completes the request that has the reply's id.  It
\* reads on after its session has ended.
handle_msg(s) ==
    /\ \E r \in replies[s] :
          /\ replies' = [replies EXCEPT ![s] = @ \ {r}]
          /\ pending' = pending \ {r.id}
          /\ smReqs' = IF r.id \notin pending THEN smReqs
                       ELSE [q \in Requests |->
                               IF smReqs[q].id = r.id /\ smReqs[q].at \in Unanswered
                               THEN [smReqs[q] EXCEPT !.at = "done", !.got = r.of]
                               ELSE smReqs[q]]
    /\ UNCHANGED <<sup, child, smConn, known, chan>>

SmStep == \/ StartSession \/ HandshakeFails \/ Handshake \/ SessionEnds \/ fail_all_pending
          \/ BackoffEnds
SmRequest(q) == SendRequest(q) \/ RequestTimesOut(q)
SmNext == \/ SmStep \/ ChildDies
          \/ \E q \in Requests : Register(q) \/ SmRequest(q)
          \/ \E s \in Sessions : WriterSink(s) \/ handle_msg(s)

SmSpec     == SmInit /\ [][SmNext]_smVars

\* The daemon's own tasks go on: the supervisor, the callers, and a writer whose
\* socket is gone.  Nothing is assumed of the worker.
WriterFails(s) == s \notin child /\ WriterSink(s)
SmFairSpec == /\ SmSpec /\ WF_smVars(SmStep) /\ \A q \in Requests : WF_smVars(SmRequest(q))
              /\ \A s \in Sessions : WF_smVars(WriterFails(s))

--------------------------------------------------------------------------------
(***************************************************************************)
(* An embedder slot: try_evict and get_or_reload.                          *)
(***************************************************************************)
SlotInit ==
    /\ slot = [inst |-> 1, fresh |-> TRUE] /\ gate = "free" /\ loads = 1
    /\ callers = [c \in SlotCallers |-> [at |-> "idle", inst |-> 0]] /\ evictor = "idle"

SlotIdles == slot.fresh /\ slot' = [slot EXCEPT !.fresh = FALSE] /\ UNCHANGED <<gate, callers, evictor, loads>>

\* load_full and the idle time, then the store: two steps.
try_evict ==
    /\ \/ /\ evictor = "idle" /\ slot.inst # 0 /\ ~slot.fresh
          /\ evictor' = "evict" /\ UNCHANGED slot
       \/ /\ evictor = "evict" /\ slot' = [slot EXCEPT !.inst = 0] /\ evictor' = "idle"
    /\ UNCHANGED <<gate, callers, loads>>

Goes(c, at, inst) == callers' = [callers EXCEPT ![c] = [at |-> at, inst |-> inst]]

Use(c) == Goes(c, "using", slot.inst) /\ slot' = [slot EXCEPT !.fresh = TRUE]

SlotGet(c) ==
    /\ callers[c].at = "idle"
    /\ \/ slot.inst # 0 /\ Use(c)
       \/ slot.inst = 0 /\ Goes(c, "gate", 0) /\ UNCHANGED slot
    /\ UNCHANGED <<gate, evictor, loads>>

\* Mutant: the slot is not looked at again behind the gate.
StillEmpty_assumed == TRUE

StillEmpty == slot.inst = 0

SlotGate(c) ==
    /\ callers[c].at = "gate" /\ gate = "free"
    /\ IF StillEmpty
       THEN gate' = "held" /\ Goes(c, "load", 0) /\ UNCHANGED slot
       ELSE Use(c) /\ UNCHANGED gate
    /\ UNCHANGED <<evictor, loads>>

\* The loader, which may fail, and the store behind the gate.
SlotLoad(c) ==
    /\ callers[c].at = "load" /\ gate' = "free"
    /\ \/ /\ loads < SlotMaxLoads /\ loads' = loads + 1
          /\ slot' = [inst |-> loads + 1, fresh |-> TRUE]
          /\ Goes(c, "using", loads + 1)
       \/ Goes(c, "idle", 0) /\ UNCHANGED <<slot, loads>>
    /\ UNCHANGED evictor

SlotDone(c) ==
    /\ callers[c].at = "using" /\ Goes(c, "idle", 0)
    /\ UNCHANGED <<slot, gate, evictor, loads>>

SlotNext == \/ SlotIdles \/ try_evict
            \/ \E c \in SlotCallers : SlotGet(c) \/ SlotGate(c) \/ SlotLoad(c) \/ SlotDone(c)

SlotSpec == SlotInit /\ [][SlotNext]_slotVars

--------------------------------------------------------------------------------
(***************************************************************************)
(* Properties.                                                             *)
(***************************************************************************)

\* Type correctness; the pause between sessions has its limit.
SmTypeOK ==
    /\ sup.at \in {"start", "handshake", "serve", "ended", "backoff"}
    /\ sup.state \in {"Starting", "Ready", "Backoff"} /\ sup.backoff \in 1..SmMaxBackoff
    /\ child \subseteq Sessions /\ known \in {"none", "global", "other"}
    /\ pending \subseteq Requests
    /\ callers \in [SlotCallers -> [at : {"idle", "gate", "load", "using"}, inst : 0..SlotMaxLoads]]

\* While a session is served the connection that every search and every
\* broadcast uses writes to that session, also after any number of restarts
\* (rebind_writer, install_connection: a stale sender would fail every
\* request until the daemon itself restarts).
WriterIsCurrent == sup.at = "serve" => smConn.installed /\ smConn.writer = sup.session

\* A request is completed with the answer to that request: the reader of an
\* ended session, which goes on reading, does not answer a request of a later
\* one (alloc_req_id, complete_search).
NoCrossTalk == \A q \in Requests : smReqs[q].got \in {0, q}

\* Sessions of the worker that follow one another are kept apart, in what is
\* written to them and in what they answer.
SessionsKeptApart == WriterIsCurrent /\ NoCrossTalk

\* The caller waits for room in the full queue of a worker that lives.
HeldByWorker(q) ==
    smReqs[q].at = "sending" /\ SmFull(smReqs[q].via) /\ smReqs[q].via \in child

\* Every request returns to its caller, whatever becomes of the worker and of the
\* queue it was written to, unless it waits for ever for room in the queue of a
\* worker that lives and reads nothing: the send itself has no timeout, and ends
\* with that worker (source.rs 214-252; fail_all_pending; run_one_session).
SemanticRequestsEnd ==
    \A q \in Requests : []<>(smReqs[q].at \notin Unanswered) \/ <>[]HeldByWorker(q)

\* A loaded embedder is never replaced by another: two callers that find the
\* slot empty load it once (get_or_reload).
EmbedderLoadedOnce == [][slot.inst # 0 => slot'.inst \in {0, slot.inst}]_slotVars

--------------------------------------------------------------------------------
(***************************************************************************)
(* What comments of the code say and the code does not do.                 *)
(***************************************************************************)
\* "semantic stub: search timeout" (source.rs 243-248) is what a caller is told
\* when its request takes longer than SEARCH_TIMEOUT.  TLC refutes it: the send
\* before the wait has no timeout.
SemanticRequestsReturn ==
    \A q \in Requests : smReqs[q].at \in Unanswered ~> smReqs[q].at = "done"
================================================================================
