---------------------------- MODULE ServicesProofs ----------------------------
(***************************************************************************)
(* Theorems about the services around the daemon's requests: the launcher  *)
(* process (LauncherControl), the hotkeys, the power profile and the       *)
(* session's environment (DaemonHost), the daemon's connection to its      *)
(* semantic worker and an embedder slot (SemanticSession), and the         *)
(* composition of the three (MCServices), for any number of clients,       *)
(* processes, sessions, requests and callers.                              *)
(***************************************************************************)
EXTENDS MCServices, FiniteSetTheorems, TLAPS

--------------------------------------------------------------------------------
(***************************************************************************)
(* Sessions and requests.                                                  *)
(***************************************************************************)
SmReq == [at : {"new", "registered", "sending", "waiting", "done"}, id : Nat, bf : BOOLEAN,
          via : 0..SmMaxSessions, got : {0} \cup Requests]

SmTypes ==
    /\ sup \in [at : {"start", "handshake", "serve", "ended", "backoff"}, session : 0..SmMaxSessions,
                backoff : 1..SmMaxBackoff, state : {"Starting", "Ready", "Backoff"}]
    /\ child \subseteq Sessions /\ known \in {"none", "global"}
    /\ smConn \in [installed : BOOLEAN, writer : 0..SmMaxSessions, next : Nat \ {0}]
    /\ smReqs \in [Requests -> SmReq]
    /\ pending \in SUBSET Nat /\ chan \in [Sessions -> Seq(Nat)]
    /\ replies \in [Sessions -> SUBSET [id : Nat, of : Requests]]

\* The connection is remembered from the end of the session that installed it,
\* and writes to the session being served.
ConnFollows ==
    /\ sup.at \in {"handshake", "serve", "ended"} => sup.session \in Sessions
    /\ known = "global" => smConn.installed
    /\ known = "none" /\ sup.at # "serve" => ~smConn.installed
    /\ smConn.installed => smConn.writer \in Sessions
    /\ ~smConn.installed => smConn.next = 1
    /\ WriterIsCurrent

\* alloc_req_id: an id belongs to one request and to no later one, and there are
\* no more ids than requests that asked.
IdsUnique ==
    /\ \A q \in Requests : smReqs[q].id < smConn.next
    /\ \A q, r \in Requests : smReqs[q].id # 0 /\ smReqs[q].id = smReqs[r].id => q = r
    /\ \A q \in Requests : smReqs[q].at = "new" => smReqs[q].id = 0 /\ smConn.next <= q
    /\ \A q \in Requests : smReqs[q].at \in Unanswered => smReqs[q].id # 0
    /\ \A q \in Requests : smReqs[q].id # 0 => smConn.installed
    /\ \A q \in Requests : smReqs[q].at = "sending" => smReqs[q].via \in Sessions
    /\ \A i \in pending : i # 0 /\ i < smConn.next /\ i \in Requests

\* What is written to a session is a request with an id, and what is read from it
\* is the answer to the request that has the id.
QueuesKnown ==
    /\ \A s \in Sessions : chan[s] # Closed =>
           \A i \in 1..Len(chan[s]) : chan[s][i] \in Requests /\ smReqs[chan[s][i]].id # 0
    /\ \A s \in Sessions : \A r \in replies[s] : r.id # 0 /\ r.id = smReqs[r.of].id

\* The inductive invariant of the worker's sessions.
SmInv == SmTypes /\ ConnFollows /\ IdsUnique /\ QueuesKnown /\ NoCrossTalk

\* The fields of a request.
LEMMA RequestFields ==
    ASSUME NEW rq \in SmReq
    PROVE  rq.id \in Nat /\ rq.got \in {0} \cup Requests /\ rq.via \in 0..SmMaxSessions
  BY DEF SmReq

\* A request that moves on is a request, and only that changes.
LEMMA RequestAt ==
    ASSUME NEW rq \in SmReq, NEW at \in {"sending", "waiting", "done"}
    PROVE  LET m == [rq EXCEPT !.at = at]
           IN  m \in SmReq /\ m.at = at /\ m.id = rq.id /\ m.via = rq.via /\ m.got = rq.got
  BY DEF SmReq

\* So is one that waits for room in the queue of a session.
LEMMA RequestBlocked ==
    ASSUME NEW rq \in SmReq, NEW via \in 0..SmMaxSessions
    PROVE  LET m == [rq EXCEPT !.at = "sending", !.via = via]
           IN  m \in SmReq /\ m.at = "sending" /\ m.id = rq.id /\ m.via = via /\ m.got = rq.got
  BY DEF SmReq

\* So is one that is answered.
LEMMA RequestAnswered ==
    ASSUME NEW rq \in SmReq, NEW got \in {0} \cup Requests
    PROVE  LET m == [rq EXCEPT !.at = "done", !.got = got]
           IN  m \in SmReq /\ m.at = "done" /\ m.id = rq.id /\ m.via = rq.via /\ m.got = got
  BY DEF SmReq

\* What is queued and what was answered stay known while every request keeps its id.
LEMMA QueuesStay ==
    ASSUME SmTypes, QueuesKnown, chan' = chan, \A s \in Sessions : replies'[s] \subseteq replies[s],
           \A q \in Requests : smReqs'[q].id = smReqs[q].id
    PROVE  QueuesKnown'
  <1>1. \A s \in Sessions : \A r \in replies'[s] :
           r \in replies[s] /\ r.of \in Requests /\ smReqs'[r.of].id = smReqs[r.of].id
    <2>1. \A s \in Sessions : \A r \in replies[s] : r.of \in Requests
      BY DEF SmTypes
    <2> QED
      BY <2>1
  <1>2. \A s \in Sessions : \A r \in replies'[s] : r.id # 0 /\ r.id = smReqs'[r.of].id
    BY <1>1 DEF QueuesKnown
  <1>3. \A s \in Sessions : chan'[s] # Closed =>
           \A i \in 1..Len(chan'[s]) : chan'[s][i] \in Requests /\ smReqs'[chan'[s][i]].id # 0
    BY DEF QueuesKnown
  <1> QED
    BY <1>2, <1>3 DEF QueuesKnown, Closed

\* The stub starts with no connection and no request.
LEMMA SmInvInit == SmInit => SmInv
  <1> SUFFICES ASSUME SmInit PROVE SmInv
    OBVIOUS
  <1> USE SmAssumption DEF SmInit, Sessions, Requests
  <1>1. SmTypes
    <2>1. sup \in [at : {"start", "handshake", "serve", "ended", "backoff"}, session : 0..SmMaxSessions,
                   backoff : 1..SmMaxBackoff, state : {"Starting", "Ready", "Backoff"}]
      OBVIOUS
    <2>2. smConn \in [installed : BOOLEAN, writer : 0..SmMaxSessions, next : Nat \ {0}]
      OBVIOUS
    <2>3. smReqs \in [Requests -> SmReq]
      BY DEF SmReq
    <2>4. chan \in [Sessions -> Seq(Nat)] /\ replies \in [Sessions -> SUBSET [id : Nat, of : Requests]]
      OBVIOUS
    <2> QED
      BY <2>1, <2>2, <2>3, <2>4 DEF SmTypes, Unanswered
  <1>2. ConnFollows
    BY DEF ConnFollows, WriterIsCurrent
  <1>3. IdsUnique
    BY DEF IdsUnique, Unanswered
  <1>4. QueuesKnown /\ NoCrossTalk
    BY DEF QueuesKnown, NoCrossTalk, Closed
  <1> QED
    BY <1>1, <1>2, <1>3, <1>4 DEF SmInv

\* The doubled pause is within the limit.
LEMMA BackoffBounded ==
    ASSUME NEW b \in 1..SmMaxBackoff PROVE NextBackoff(b) \in 1..SmMaxBackoff
  <1> DEFINE S == {2 * b, SmMaxBackoff}
  <1>1. \E x \in S : \A y \in S : x =< y
    BY SmAssumption
  <1>2. NextBackoff(b) \in S /\ \A y \in S : NextBackoff(b) =< y
    BY <1>1 DEF NextBackoff, Min
  <1> QED
    BY <1>2, SmAssumption

\* The supervisor's own steps leave requests and queues alone.
LEMMA SupervisorKeepsInv ==
    ASSUME SmInv, StartSession \/ HandshakeFails \/ Handshake \/ SessionEnds \/ BackoffEnds \/ ChildDies
    PROVE  SmInv'
  <1> USE SmAssumption DEF SmInv, SmTypes, Unanswered, ConnFollows, WriterIsCurrent, Sessions
  <1>1. UNCHANGED <<smConn, pending, smReqs, chan, replies>> => IdsUnique' /\ QueuesKnown' /\ NoCrossTalk'
    BY DEF IdsUnique, Unanswered, QueuesKnown, NoCrossTalk
  <1>2. CASE StartSession
    <2>0. sup.session + 1 \in Sessions /\ sup.session + 1 \in 0..SmMaxSessions
      BY <1>2 DEF StartSession
    <2>1. PICK at \in {"handshake", "ended"} :
             sup' = [sup EXCEPT !.at = at, !.session = @ + 1, !.state = "Starting"]
      BY <1>2 DEF StartSession
    <2>2. /\ sup'.at \in {"handshake", "ended"} /\ sup'.session \in Sessions
          /\ sup' \in [at : {"start", "handshake", "serve", "ended", "backoff"}, session : 0..SmMaxSessions,
                       backoff : 1..SmMaxBackoff, state : {"Starting", "Ready", "Backoff"}]
      BY <2>0, <2>1
    <2>3. child' \subseteq Sessions
      BY <1>2, <2>0 DEF StartSession
    <2>4. sup.at = "start" /\ UNCHANGED <<smConn, known, pending, smReqs, chan, replies>>
      BY <1>2 DEF StartSession
    <2> QED
      BY <1>1, <2>2, <2>3, <2>4
  <1>3. CASE HandshakeFails
    BY <1>1, <1>3 DEF HandshakeFails, kill_child
  <1>4. CASE Handshake
    <2>1. /\ sup.at = "handshake" /\ sup'.at = "serve" /\ sup'.session = sup.session
          /\ sup' \in [at : {"start", "handshake", "serve", "ended", "backoff"}, session : 0..SmMaxSessions,
                       backoff : 1..SmMaxBackoff, state : {"Starting", "Ready", "Backoff"}]
          /\ UNCHANGED <<child, known, pending, smReqs, chan, replies>>
      BY <1>4 DEF Handshake
    <2>2. /\ smConn'.installed /\ smConn'.writer = sup.session /\ smConn'.next = smConn.next
          /\ smConn' \in [installed : BOOLEAN, writer : 0..SmMaxSessions, next : Nat \ {0}]
      <3>1. CASE known = "global"
        BY <1>4, <3>1 DEF Handshake, Rebound
      <3>2. CASE known = "none"
        <4>1. smConn' = [installed |-> TRUE, writer |-> sup.session, next |-> 1] /\ smConn.next = 1
          BY <1>4, <3>2 DEF Handshake
        <4> QED
          BY <2>1, <4>1
      <3> QED
        BY <3>1, <3>2
    <2>3. IdsUnique'
      BY <2>1, <2>2 DEF IdsUnique, Unanswered
    <2>4. QueuesKnown' /\ NoCrossTalk'
      BY <2>1 DEF QueuesKnown, NoCrossTalk
    <2> QED
      BY <2>1, <2>2, <2>3, <2>4
  <1>5. CASE SessionEnds
    BY <1>1, <1>5 DEF SessionEnds, kill_child, Remembered
  <1>6. CASE BackoffEnds
    BY <1>1, <1>6 DEF BackoffEnds
  <1>7. CASE ChildDies
    BY <1>1, <1>7 DEF ChildDies
  <1> QED
    BY <1>2, <1>3, <1>4, <1>5, <1>6, <1>7

\* fail_all_pending touches how requests stand, never their ids or answers.
LEMMA FailKeepsInv ==
    ASSUME SmInv, fail_all_pending PROVE SmInv'
  <1> USE DEF SmInv, SmTypes, Unanswered
  <1>1. /\ sup.at = "ended" /\ sup'.at = "backoff" /\ sup'.session = sup.session
        /\ sup' \in [at : {"start", "handshake", "serve", "ended", "backoff"}, session : 0..SmMaxSessions,
                     backoff : 1..SmMaxBackoff, state : {"Starting", "Ready", "Backoff"}]
    BY BackoffBounded DEF fail_all_pending
  <1>2. UNCHANGED <<child, smConn, known, chan, replies>>
    BY DEF fail_all_pending
  <1>3. /\ smReqs' \in [Requests -> SmReq]
        /\ \A q \in Requests : /\ smReqs'[q].id = smReqs[q].id /\ smReqs'[q].got = smReqs[q].got
                               /\ smReqs'[q].at = "new" => smReqs[q].at = "new"
                               /\ smReqs'[q].via = smReqs[q].via
                               /\ smReqs'[q].at = "sending" => smReqs[q].at = "sending"
                               /\ smReqs'[q].at \in Unanswered
                                      => smReqs[q].at \in Unanswered
    <2>1. CASE smReqs' = smReqs
      BY <2>1
    <2>2. CASE smReqs' = [q \in Requests |->
                            IF smReqs[q].id \in pending /\ smReqs[q].at = "waiting"
                            THEN [smReqs[q] EXCEPT !.at = "done"]
                            ELSE smReqs[q]]
      <3>1. SUFFICES ASSUME NEW q \in Requests
                     PROVE  /\ smReqs'[q] \in SmReq
                            /\ smReqs'[q].id = smReqs[q].id /\ smReqs'[q].got = smReqs[q].got
                            /\ smReqs'[q].at = "new" => smReqs[q].at = "new"
                            /\ smReqs'[q].via = smReqs[q].via
                            /\ smReqs'[q].at = "sending" => smReqs[q].at = "sending"
                            /\ smReqs'[q].at \in Unanswered
                                   => smReqs[q].at \in Unanswered
        BY <2>2
      <3>2. CASE smReqs'[q] = smReqs[q]
        BY <3>2
      <3>3. CASE /\ smReqs[q].at = "waiting"
                 /\ smReqs'[q] = [smReqs[q] EXCEPT !.at = "done"]
        <4>1. smReqs[q] \in SmReq
          OBVIOUS
        <4>2. /\ smReqs'[q] \in SmReq /\ smReqs'[q].at = "done" /\ smReqs'[q].id = smReqs[q].id
              /\ smReqs'[q].via = smReqs[q].via /\ smReqs'[q].got = smReqs[q].got
          <5> HIDE DEF SmInv, SmTypes
          <5> QED
            BY <3>3, <4>1 DEF SmReq
        <4> QED
          BY <3>3, <4>2
      <3>4. \/ smReqs'[q] = smReqs[q]
            \/ smReqs[q].at = "waiting" /\ smReqs'[q] = [smReqs[q] EXCEPT !.at = "done"]
        BY <2>2
      <3> QED
        BY <3>2, <3>3, <3>4
    <2> QED
      BY <2>1, <2>2 DEF fail_all_pending
  <1>4. pending' \subseteq pending
    BY DEF fail_all_pending
  <1>5. SmTypes'
    BY <1>1, <1>2, <1>3, <1>4
  <1>6. ConnFollows'
    BY <1>1, <1>2 DEF ConnFollows, WriterIsCurrent
  <1>7. IdsUnique'
    <2> HIDE DEF Unanswered, SmTypes
    <2> USE DEF IdsUnique
    <2>1. /\ \A q \in Requests : smReqs'[q].id < smConn'.next
          /\ \A q \in Requests : smReqs'[q].at = "new" => smReqs'[q].id = 0 /\ smConn'.next <= q
      BY <1>2, <1>3
    <2>2. \A q, r \in Requests : smReqs'[q].id # 0 /\ smReqs'[q].id = smReqs'[r].id => q = r
      BY <1>3
    <2>3. /\ \A q \in Requests : smReqs'[q].at \in Unanswered => smReqs'[q].id # 0
          /\ \A q \in Requests : smReqs'[q].id # 0 => smConn'.installed
          /\ \A q \in Requests : smReqs'[q].at = "sending" => smReqs'[q].via \in Sessions
      BY <1>2, <1>3
    <2>4. \A i \in pending' : i # 0 /\ i < smConn'.next /\ i \in Requests
      BY <1>2, <1>4
    <2> QED
      BY <2>1, <2>2, <2>3, <2>4
  <1>8. QueuesKnown'
    <2> HIDE DEF SmTypes
    <2>1. \A s \in Sessions : replies'[s] \subseteq replies[s]
      BY <1>2
    <2> QED
      BY <1>2, <1>3, <2>1, QueuesStay
  <1>9. NoCrossTalk'
    BY <1>3 DEF NoCrossTalk
  <1> QED
    BY <1>5, <1>6, <1>7, <1>8, <1>9

\* A caller registers: the new id is of no earlier request, and no queue knows it.
LEMMA RegisterKeepsInv ==
    ASSUME SmInv, NEW q \in Requests, Register(q) PROVE SmInv'
  <1> USE DEF SmInv, SmTypes, Unanswered
  <1>1. UNCHANGED <<sup, child, known, chan, replies>> /\ smReqs[q].at = "new"
    BY DEF Register
  <1>2. smReqs[q].id = 0 /\ smConn.next <= q /\ \A r \in Requests : smReqs[r].at = "new" => r >= q
    BY SmAssumption DEF Register, IdsUnique, Unanswered, Requests
  <1>3. CASE ~smConn.installed
    <2>1. smConn' = smConn /\ pending' = pending /\ smReqs' = [smReqs EXCEPT ![q].at = "done"]
      BY <1>3 DEF Register
    <2>2. /\ smReqs' \in [Requests -> SmReq]
          /\ smReqs'[q].at = "done" /\ smReqs'[q].id = smReqs[q].id /\ smReqs'[q].got = smReqs[q].got
          /\ \A r \in Requests : r # q => smReqs'[r] = smReqs[r]
      <3>1. smReqs[q] \in SmReq
        OBVIOUS
      <3> QED
        BY <2>1, <3>1, RequestAt
    <2>3. IdsUnique' /\ QueuesKnown' /\ NoCrossTalk'
      BY <1>1, <2>1, <2>2 DEF IdsUnique, Unanswered, QueuesKnown, NoCrossTalk
    <2> QED
      BY <1>1, <2>1, <2>2, <2>3 DEF ConnFollows, WriterIsCurrent
  <1>4. CASE smConn.installed
    <2>1. PICK backfill \in BOOLEAN :
             smReqs' = [smReqs EXCEPT ![q] = [at |-> "registered", id |-> smConn.next, bf |-> backfill,
                                             via |-> 0, got |-> 0]]
      BY <1>4 DEF Register
    <2>2. pending' = pending \cup {smConn.next} /\ smConn' = [smConn EXCEPT !.next = @ + 1]
      BY <1>4 DEF Register
    <2>3. /\ smReqs' \in [Requests -> SmReq]
          /\ smReqs'[q].at = "registered" /\ smReqs'[q].id = smConn.next /\ smReqs'[q].got = 0
          /\ \A r \in Requests : r # q => smReqs'[r] = smReqs[r]
      <3>1. [at |-> "registered", id |-> smConn.next, bf |-> backfill, via |-> 0, got |-> 0] \in SmReq
        BY SmAssumption DEF SmReq
      <3> QED
        BY <2>1, <3>1
    <2>4. /\ smConn'.next = smConn.next + 1 /\ smConn'.installed = smConn.installed /\ smConn'.writer = smConn.writer
          /\ smConn' \in [installed : BOOLEAN, writer : 0..SmMaxSessions, next : Nat \ {0}]
      BY <2>2
    <2>5. smConn.next \in Requests /\ Requests \subseteq Nat
      BY <1>2, SmAssumption DEF Requests
    <2>6. \A r \in Requests : r # q /\ smReqs[r].at = "new" => smConn.next + 1 <= r
      BY <1>2, <2>5
    <2>7. IdsUnique'
      <3> USE DEF IdsUnique
      <3>0. \A r \in Requests : smReqs[r].id \in Nat
        BY RequestFields
      <3>1. \A r \in Requests : r # q => smReqs'[r].id < smConn.next /\ smReqs'[r].id # smReqs'[q].id
        BY <2>3, <3>0
      <3>2. ASSUME NEW r \in Requests PROVE smReqs'[r].id < smConn'.next
        <4>1. smConn.next \in Nat /\ smReqs[r].id \in Nat /\ smConn'.next = smConn.next + 1
          BY <2>4, <2>5, <3>0
          <4>2. smReqs'[r].id = smConn.next \/ (smReqs'[r] = smReqs[r] /\ smReqs[r].id < smConn.next)
          BY <2>3
        <4> HIDE DEF SmInv, SmTypes, IdsUnique
        <4> QED
          BY <4>1, <4>2
      <3>3. ASSUME NEW r \in Requests, NEW t \in Requests, smReqs'[r].id # 0, smReqs'[r].id = smReqs'[t].id
            PROVE  r = t
        <4>1. CASE r # q /\ t # q
          BY <2>3, <3>3, <4>1
        <4> QED
          BY <3>1, <3>3, <4>1
      <3>7. \A r \in Requests : smReqs'[r].at = "sending" => smReqs'[r].via \in Sessions
        BY <2>3
      <3>4. ASSUME NEW r \in Requests, smReqs'[r].at = "new"
            PROVE  smReqs'[r].id = 0 /\ smConn'.next <= r
        <4>1. r # q /\ smReqs'[r] = smReqs[r]
          BY <2>3, <3>4
        <4> QED
          BY <2>4, <2>6, <3>4, <4>1
      <3>5. ASSUME NEW r \in Requests, smReqs'[r].at \in Unanswered
            PROVE  smReqs'[r].id # 0
        BY <2>3, <3>5
      <3>6. \A i \in pending' : i # 0 /\ i < smConn'.next /\ i \in Requests
        BY <2>2, <2>4, <2>5
      <3> QED
        BY <1>4, <2>4, <3>2, <3>3, <3>4, <3>5, <3>6, <3>7
    <2>8. QueuesKnown'
      <3>1. \A r \in Requests : smReqs[r].id # 0 => smReqs'[r] = smReqs[r]
        BY <1>2, <2>3
      <3>2. \A s \in Sessions : \A r \in replies[s] : r.of \in Requests /\ smReqs[r.of].id # 0
        BY DEF QueuesKnown
      <3> QED
        BY <1>1, <3>1, <3>2 DEF QueuesKnown
    <2>9. NoCrossTalk' /\ ConnFollows'
      BY <1>1, <1>4, <2>3, <2>4 DEF NoCrossTalk, ConnFollows, WriterIsCurrent
    <2>10. SmTypes'
      BY <1>1, <2>2, <2>3, <2>4
    <2> QED
      BY <2>7, <2>8, <2>9, <2>10
  <1> QED
    BY <1>3, <1>4

\* A request that moves on keeps its id; what it got is its own answer.
LEMMA RequestMoves ==
    ASSUME SmInv, NEW q \in Requests, smReqs[q].at \in Unanswered,
           NEW moved \in SmReq, moved.at \in Unanswered \cup {"done"}, moved.at = "sending" => moved.via \in Sessions,
           moved.id = smReqs[q].id, moved.got = smReqs[q].got, smReqs' = [smReqs EXCEPT ![q] = moved],
           pending' \subseteq pending, UNCHANGED <<sup, child, smConn, known>>
    PROVE  /\ smReqs' \in [Requests -> SmReq]
           /\ \A r \in Requests : smReqs'[r].id = smReqs[r].id
           /\ IdsUnique' /\ NoCrossTalk' /\ ConnFollows'
  <1>1. /\ smReqs' \in [Requests -> SmReq] /\ smReqs'[q] = moved
        /\ \A r \in Requests : /\ smReqs'[r].id = smReqs[r].id /\ smReqs'[r].got = smReqs[r].got
                               /\ r # q => smReqs'[r] = smReqs[r]
    <2>1. smReqs \in [Requests -> SmReq]
      BY DEF SmInv, SmTypes, Unanswered
    <2> QED
      BY <2>1
  <1>2. smReqs[q].id # 0
    BY DEF SmInv, IdsUnique, Unanswered
  <1>3. IdsUnique'
    BY <1>1, <1>2 DEF SmInv, IdsUnique, Unanswered
  <1>4. NoCrossTalk' /\ ConnFollows'
    BY <1>1 DEF SmInv, NoCrossTalk, ConnFollows, WriterIsCurrent
  <1> QED
    BY <1>1, <1>3, <1>4

\* What a caller does with its request keeps the invariant.
LEMMA RequestKeepsInv ==
    ASSUME SmInv, NEW q \in Requests, SmRequest(q) PROVE SmInv'
  <1>0. Requests \subseteq Nat /\ 0 \notin Requests
    BY SmAssumption DEF Requests
  <1>00. smReqs[q] \in SmReq
    BY DEF SmInv, SmTypes
  <1>1. CASE RequestTimesOut(q)
    <2> DEFINE moved == [smReqs[q] EXCEPT !.at = "done"]
    <2>1. /\ smReqs[q].at = "waiting" /\ smReqs' = [smReqs EXCEPT ![q] = moved]
          /\ UNCHANGED <<sup, child, smConn, known, pending, chan, replies>>
      BY <1>1 DEF RequestTimesOut
    <2>2. /\ smReqs' \in [Requests -> SmReq]
          /\ \A r \in Requests : smReqs'[r].id = smReqs[r].id
          /\ IdsUnique' /\ NoCrossTalk' /\ ConnFollows'
      BY <1>00, <2>1, RequestAt, RequestMoves DEF Unanswered
    <2>3. QueuesKnown'
      BY <2>1, <2>2 DEF SmInv, SmTypes, Unanswered, QueuesKnown
    <2> QED
      BY <2>1, <2>2, <2>3 DEF SmInv, SmTypes, Unanswered
  <1>2. CASE SendRequest(q)
    <2> DEFINE w == IF smReqs[q].at = "registered" THEN smConn.writer ELSE smReqs[q].via
    <2>1. /\ smReqs[q].at \in Unanswered /\ smReqs[q].at \in {"registered", "sending"}
          /\ UNCHANGED <<sup, child, smConn, known, replies>>
      BY <1>2 DEF SendRequest, Unanswered
    <2>2. smReqs[q].id # 0 /\ w \in Sessions
      BY <2>1 DEF SmInv, IdsUnique, Unanswered, ConnFollows
    <2>3. CASE chan[w] = Closed
      <3> DEFINE moved == [smReqs[q] EXCEPT !.at = "done"]
      <3>1. smReqs' = [smReqs EXCEPT ![q] = moved] /\ pending' \subseteq pending /\ chan' = chan
        BY <1>2, <2>3 DEF SendRequest, SmFull
      <3>2. /\ smReqs' \in [Requests -> SmReq]
            /\ \A r \in Requests : smReqs'[r].id = smReqs[r].id
            /\ IdsUnique' /\ NoCrossTalk' /\ ConnFollows'
        BY <1>00, <2>1, <3>1, RequestAt, RequestMoves DEF Unanswered
      <3>3. QueuesKnown'
        BY <2>1, <3>1, <3>2 DEF SmInv, SmTypes, Unanswered, QueuesKnown
      <3> QED
        BY <2>1, <3>1, <3>2, <3>3 DEF SmInv, SmTypes, Unanswered
    <2>5. CASE SmFull(w)
      <3> DEFINE moved == [smReqs[q] EXCEPT !.at = "sending", !.via = w]
      <3>1. smReqs' = [smReqs EXCEPT ![q] = moved] /\ pending' = pending /\ chan' = chan
        BY <1>2, <2>5 DEF SendRequest, SmFull
      <3>2. /\ moved \in SmReq /\ moved.at = "sending" /\ moved.via = w
            /\ moved.id = smReqs[q].id /\ moved.got = smReqs[q].got
        <4>1. w \in 0..SmMaxSessions
          BY <2>2, SmAssumption DEF Sessions
        <4> HIDE DEF w
        <4> QED
          BY <1>00, <4>1, RequestBlocked
      <3> HIDE DEF moved
      <3>3. /\ smReqs' \in [Requests -> SmReq]
            /\ \A r \in Requests : smReqs'[r].id = smReqs[r].id
            /\ IdsUnique' /\ NoCrossTalk' /\ ConnFollows'
        BY <2>1, <2>2, <3>1, <3>2, RequestMoves DEF Unanswered
      <3>4. QueuesKnown'
        BY <2>1, <3>1, <3>3 DEF SmInv, SmTypes, Unanswered, QueuesKnown
      <3> QED
        BY <2>1, <3>1, <3>3, <3>4 DEF SmInv, SmTypes, Unanswered
    <2>4. CASE chan[w] # Closed /\ ~SmFull(w)
      <3>1. chan' = [chan EXCEPT ![w] = Append(@, q)] /\ pending' = pending
        BY <1>2, <2>4 DEF SendRequest
      <3>2. PICK at \in {"done", "waiting"} : smReqs' = [smReqs EXCEPT ![q] = [smReqs[q] EXCEPT !.at = at]]
        BY <1>2, <2>4 DEF SendRequest
      <3>3. /\ smReqs' \in [Requests -> SmReq]
            /\ \A r \in Requests : smReqs'[r].id = smReqs[r].id
            /\ IdsUnique' /\ NoCrossTalk' /\ ConnFollows'
        BY <1>00, <2>1, <3>1, <3>2, RequestAt, RequestMoves DEF Unanswered
      <3>4. chan \in [Sessions -> Seq(Nat)] /\ chan' \in [Sessions -> Seq(Nat)]
        BY <1>0, <2>2, <3>1 DEF SmInv, SmTypes, Unanswered
      <3>5. ASSUME NEW s \in Sessions, chan'[s] # Closed, NEW i \in 1..Len(chan'[s])
            PROVE  chan'[s][i] \in Requests /\ smReqs'[chan'[s][i]].id # 0
        <4>1. CASE s # w
          <5> HIDE DEF w
          <5>1. chan'[s] = chan[s]
            BY <3>1, <3>4, <4>1
          <5> QED
            BY <3>3, <3>5, <5>1 DEF SmInv, QueuesKnown
        <4>2. CASE s = w
          <5>1. chan'[s] = Append(chan[s], q) /\ chan[s] \in Seq(Nat) /\ chan[s] # Closed
            BY <2>4, <3>1, <3>4, <4>2
          <5>2. CASE i \in 1..Len(chan[s])
            <6>1. chan'[s][i] = chan[s][i]
              BY <5>1, <5>2
            <6>2. chan[s][i] \in Requests /\ smReqs[chan[s][i]].id # 0
              BY <5>1, <5>2 DEF SmInv, QueuesKnown
            <6> QED
              BY <3>3, <6>1, <6>2
          <5>3. CASE i = Len(chan[s]) + 1
            BY <2>2, <3>3, <5>1, <5>3
          <5> QED
            BY <3>5, <5>1, <5>2, <5>3
        <4> QED
          BY <4>1, <4>2
      <3>6. QueuesKnown'
        BY <2>1, <3>3, <3>5 DEF SmInv, SmTypes, Unanswered, QueuesKnown
      <3> QED
        BY <2>1, <3>1, <3>3, <3>4, <3>6 DEF SmInv, SmTypes, Unanswered
    <2> QED
      BY <2>3, <2>4, <2>5
  <1> QED
    BY <1>1, <1>2 DEF SmRequest

\* The writer of a session takes a command, whose answer has the command's id.
LEMMA WriterKeepsInv ==
    ASSUME SmInv, NEW s \in Sessions, WriterSink(s) PROVE SmInv'
  <1>1. UNCHANGED <<sup, child, smConn, known, pending, smReqs>> /\ chan[s] # <<>> /\ chan[s] # Closed
    BY DEF WriterSink
  <1>2. chan[s] \in Seq(Nat) /\ chan \in [Sessions -> Seq(Nat)]
    BY DEF SmInv, SmTypes, Unanswered
  <1>3. IdsUnique' /\ NoCrossTalk' /\ ConnFollows'
    BY <1>1 DEF SmInv, IdsUnique, Unanswered, NoCrossTalk, ConnFollows, WriterIsCurrent
  <1>4. CASE chan' = [chan EXCEPT ![s] = Closed] /\ replies' = replies
    <2>1. chan' \in [Sessions -> Seq(Nat)]
      BY <1>2, <1>4 DEF Closed
    <2>2. QueuesKnown'
      BY <1>1, <1>2, <1>4 DEF SmInv, QueuesKnown
    <2> QED
      BY <1>1, <1>3, <1>4, <2>1, <2>2 DEF SmInv, SmTypes, Unanswered
  <1>5. CASE /\ chan' = [chan EXCEPT ![s] = Tail(@)]
             /\ replies' = [replies EXCEPT ![s] = @ \cup {WorkerReply(Head(chan[s]))}]
    <2> DEFINE q == Head(chan[s])
    <2>1. q = chan[s][1] /\ 1 \in 1..Len(chan[s])
      BY <1>1, <1>2
    <2>2. q \in Requests /\ smReqs[q].id # 0
      BY <1>1, <2>1 DEF SmInv, QueuesKnown
    <2>3. WorkerReply(q) \in [id : Nat, of : Requests] /\ WorkerReply(q).id = smReqs[q].id /\ WorkerReply(q).of = q
      BY <2>2, RequestFields DEF SmInv, SmTypes, WorkerReply
    <2>4. chan' \in [Sessions -> Seq(Nat)]
      BY <1>1, <1>2, <1>5
    <2>5. \A t \in Sessions : replies'[t] \subseteq replies[t] \cup {WorkerReply(q)}
      BY <1>5 DEF SmInv, SmTypes, Unanswered
    <2>6. replies' \in [Sessions -> SUBSET [id : Nat, of : Requests]]
      BY <1>5, <2>3 DEF SmInv, SmTypes, Unanswered
    <2>7. ASSUME NEW t \in Sessions, chan'[t] # Closed, NEW i \in 1..Len(chan'[t])
          PROVE  chan'[t][i] \in Requests /\ smReqs'[chan'[t][i]].id # 0
      <3>1. CASE t # s
        BY <1>1, <1>2, <1>5, <2>7, <3>1 DEF SmInv, QueuesKnown
      <3>2. CASE t = s
        <4>1. chan'[t] = Tail(chan[s])
          BY <1>2, <1>5, <3>2
        <4>2. chan'[t][i] = chan[s][i + 1] /\ i + 1 \in 1..Len(chan[s])
          BY <1>1, <1>2, <2>7, <4>1
        <4> QED
          BY <1>1, <4>2 DEF SmInv, QueuesKnown
      <3> QED
        BY <3>1, <3>2
    <2>8. \A t \in Sessions : \A r \in replies'[t] : r.id # 0 /\ r.id = smReqs'[r.of].id
      BY <1>1, <2>2, <2>3, <2>5 DEF SmInv, QueuesKnown
    <2>9. QueuesKnown'
      BY <2>7, <2>8 DEF QueuesKnown
    <2> QED
      BY <1>1, <1>3, <2>4, <2>6, <2>9 DEF SmInv, SmTypes, Unanswered
  <1> QED
    BY <1>4, <1>5 DEF WriterSink

\* A reader, of whichever session, completes the one request with the reply's id.
LEMMA ReaderKeepsInv ==
    ASSUME SmInv, NEW s \in Sessions, handle_msg(s) PROVE SmInv'
  <1>1. UNCHANGED <<sup, child, smConn, known, chan>>
    BY DEF handle_msg
  <1>2. PICK m \in replies[s] :
           /\ replies' = [replies EXCEPT ![s] = @ \ {m}] /\ pending' = pending \ {m.id}
           /\ smReqs' = IF m.id \notin pending THEN smReqs
                        ELSE [q \in Requests |->
                               IF smReqs[q].id = m.id /\ smReqs[q].at \in Unanswered
                               THEN [smReqs[q] EXCEPT !.at = "done", !.got = m.of] ELSE smReqs[q]]
    BY DEF handle_msg
  <1>3. m.of \in Requests /\ m.id # 0 /\ m.id = smReqs[m.of].id
    BY DEF SmInv, SmTypes, Unanswered, QueuesKnown
  <1>4. ASSUME NEW q \in Requests
        PROVE  /\ smReqs'[q] \in SmReq
               /\ smReqs'[q].id = smReqs[q].id /\ smReqs'[q].got \in {0, q}
               /\ smReqs'[q].at \in {smReqs[q].at, "done"}
               /\ smReqs'[q].at = "new" => smReqs[q].at = "new"
               /\ smReqs'[q].at = "done" \/ smReqs'[q] = smReqs[q]
    <2>1. smReqs[q] \in SmReq
      BY DEF SmInv, SmTypes, Unanswered
    <2>2. CASE smReqs'[q] = smReqs[q]
      BY <2>1, <2>2 DEF SmInv, NoCrossTalk
    <2>3. CASE smReqs'[q] = [smReqs[q] EXCEPT !.at = "done", !.got = m.of] /\ smReqs[q].id = m.id
      <3>1. q = m.of
        BY <1>3, <2>3 DEF SmInv, IdsUnique, Unanswered
      <3> QED
        <4>1. m.of \in {0} \cup Requests
          BY <1>3
        <4>2. /\ smReqs'[q] \in SmReq /\ smReqs'[q].at = "done" /\ smReqs'[q].id = smReqs[q].id
              /\ smReqs'[q].got = m.of
          BY <2>1, <2>3, <4>1 DEF SmReq
        <4> QED
          BY <3>1, <4>2
    <2> QED
      <3>1. \/ smReqs'[q] = smReqs[q]
            \/ smReqs[q].id = m.id /\ smReqs'[q] = [smReqs[q] EXCEPT !.at = "done", !.got = m.of]
        BY <1>2
      <3> QED
        BY <2>2, <2>3, <3>1
  <1>5. smReqs' \in [Requests -> SmReq]
    <2>1. smReqs \in [Requests -> SmReq]
      BY DEF SmInv, SmTypes, Unanswered
    <2>2. DOMAIN smReqs' = Requests /\ smReqs' = [q \in Requests |-> smReqs'[q]]
      BY <1>2, <2>1
    <2> QED
      BY <1>4, <2>2
  <1>6. replies' \in [Sessions -> SUBSET [id : Nat, of : Requests]] /\ \A t \in Sessions : replies'[t] \subseteq replies[t]
    BY <1>2 DEF SmInv, SmTypes, Unanswered
  <1>7. IdsUnique'
    <2>1. smConn' = smConn /\ pending' \subseteq pending
      BY <1>1, <1>2
    <2>2. \A q \in Requests : /\ smReqs'[q].id = smReqs[q].id
                              /\ smReqs'[q].at = "new" => smReqs[q].at = "new"
                              /\ smReqs'[q].at \in Unanswered => smReqs'[q] = smReqs[q]
      BY <1>4 DEF Unanswered
    <2> QED
      BY <2>1, <2>2 DEF SmInv, IdsUnique, Unanswered
  <1>8. QueuesKnown'
    <2>1. \A t \in Sessions : \A r \in replies[t] : r.of \in Requests
      BY DEF SmInv, SmTypes, Unanswered
    <2> QED
      BY <1>1, <1>4, <1>6, <2>1 DEF SmInv, QueuesKnown
  <1>9. NoCrossTalk' /\ ConnFollows'
    BY <1>1, <1>4 DEF SmInv, NoCrossTalk, ConnFollows, WriterIsCurrent
  <1> QED
    BY <1>1, <1>2, <1>5, <1>6, <1>7, <1>8, <1>9 DEF SmInv, SmTypes, Unanswered

\* Every step of the supervisor, the stub and the worker keeps the invariant.
LEMMA SmInvStep == SmInv /\ [SmNext]_smVars => SmInv'
  <1> SUFFICES ASSUME SmInv, [SmNext]_smVars PROVE SmInv'
    OBVIOUS
  <1>1. CASE SmStep \/ ChildDies
    BY <1>1, SupervisorKeepsInv, FailKeepsInv DEF SmStep
  <1>2. CASE \E q \in Requests : Register(q) \/ SmRequest(q)
    BY <1>2, RegisterKeepsInv, RequestKeepsInv
  <1>3. CASE \E s \in Sessions : WriterSink(s) \/ handle_msg(s)
    BY <1>3, WriterKeepsInv, ReaderKeepsInv
  <1>4. CASE UNCHANGED smVars
    BY <1>4 DEF smVars, SmInv, SmTypes, Unanswered, ConnFollows, WriterIsCurrent, IdsUnique, QueuesKnown, NoCrossTalk
  <1> QED
    BY <1>1, <1>2, <1>3, <1>4 DEF SmNext

\* For any number of sessions and requests: while a session is served the one
\* connection writes to it, after any number of restarts, and no request is ever
\* completed with another's answer, though the readers of ended sessions read on
\* (semantic_supervisor.rs, transport.rs).
THEOREM SessionsApart == SmSpec => []SessionsKeptApart
  <1>1. SmInv => SessionsKeptApart
    BY DEF SmInv, ConnFollows, SessionsKeptApart
  <1> QED
    BY <1>1, SmInvInit, SmInvStep, PTL DEF SmSpec

--------------------------------------------------------------------------------
(***************************************************************************)
(* An embedder slot.                                                       *)
(***************************************************************************)
\* One caller loads at a time, behind the gate and for an empty slot.
SlotInv ==
    /\ slot \in [inst : 0..SlotMaxLoads, fresh : BOOLEAN] /\ loads \in 1..SlotMaxLoads
    /\ callers \in [SlotCallers -> [at : {"idle", "gate", "load", "using"}, inst : 0..SlotMaxLoads]]
    /\ \A c \in SlotCallers : callers[c].at = "load" => gate = "held" /\ slot.inst = 0
    /\ \A c, d \in SlotCallers : callers[c].at = "load" /\ callers[d].at = "load" => c = d

\* An embedder's slot starts empty.
LEMMA SlotInvInit == SlotInit => SlotInv
  BY SmAssumption DEF SlotInit, SlotInv

\* Every step of get_or_reload and of the eviction keeps the slot's invariant.
LEMMA SlotInvStep == SlotInv /\ [SlotNext]_slotVars => SlotInv'
  <1> SUFFICES ASSUME SlotInv, [SlotNext]_slotVars PROVE SlotInv'
    OBVIOUS
  <1> USE SmAssumption DEF SlotInv, Goes, Use
  <1>1. CASE SlotIdles
    BY <1>1 DEF SlotIdles
  <1>2. CASE try_evict
    BY <1>2 DEF try_evict
  <1>3. ASSUME NEW c \in SlotCallers, SlotGet(c) PROVE SlotInv'
    <2>1. CASE Use(c)
      <3>1. callers' = [callers EXCEPT ![c] = [at |-> "using", inst |-> slot.inst]]
        BY <2>1
      <3>2. slot'.inst = slot.inst /\ slot' \in [inst : 0..SlotMaxLoads, fresh : BOOLEAN]
        BY <2>1
      <3>3. UNCHANGED <<gate, loads>>
        BY <1>3 DEF SlotGet
      <3> QED
        BY <3>1, <3>2, <3>3
    <2>2. CASE Goes(c, "gate", 0) /\ UNCHANGED slot
      BY <1>3, <2>2 DEF SlotGet
    <2> QED
      BY <1>3, <2>1, <2>2 DEF SlotGet
  <1>4. ASSUME NEW c \in SlotCallers, SlotGate(c) PROVE SlotInv'
    <2>1. CASE slot.inst # 0
      <3>1. callers' = [callers EXCEPT ![c] = [at |-> "using", inst |-> slot.inst]]
        BY <1>4, <2>1 DEF SlotGate, StillEmpty
      <3>2. slot'.inst = slot.inst /\ slot' \in [inst : 0..SlotMaxLoads, fresh : BOOLEAN]
        <4>1. slot' = [slot EXCEPT !.fresh = TRUE]
          BY <1>4, <2>1 DEF SlotGate, StillEmpty
        <4> QED
          BY <4>1
      <3>3. UNCHANGED <<gate, loads>>
        BY <1>4, <2>1 DEF SlotGate, StillEmpty
      <3> QED
        BY <3>1, <3>2, <3>3
    <2>2. CASE slot.inst = 0
      <3>1. gate = "free" /\ gate' = "held" /\ callers' = [callers EXCEPT ![c] = [at |-> "load", inst |-> 0]]
        BY <1>4, <2>2 DEF SlotGate, StillEmpty
      <3>2. UNCHANGED <<slot, loads>>
        BY <1>4, <2>2 DEF SlotGate, StillEmpty
      <3>3. \A d \in SlotCallers : callers[d].at # "load"
        BY <3>1
      <3> QED
        BY <2>2, <3>1, <3>2, <3>3
    <2> QED
      BY <2>1, <2>2
  <1>5. ASSUME NEW c \in SlotCallers, SlotLoad(c) PROVE SlotInv'
    <2>1. \A d \in SlotCallers : callers[d].at = "load" => d = c
      BY <1>5 DEF SlotLoad
    <2>2. CASE /\ loads < SlotMaxLoads /\ loads' = loads + 1 /\ slot' = [inst |-> loads + 1, fresh |-> TRUE]
               /\ Goes(c, "using", loads + 1)
      <3>1. loads + 1 \in 0..SlotMaxLoads /\ loads' \in 1..SlotMaxLoads
        BY <2>2
      <3>2. callers' \in [SlotCallers -> [at : {"idle", "gate", "load", "using"}, inst : 0..SlotMaxLoads]]
        BY <2>2, <3>1
      <3>3. slot' \in [inst : 0..SlotMaxLoads, fresh : BOOLEAN]
        BY <2>2, <3>1
      <3>4. \A d \in SlotCallers : callers'[d].at # "load"
        BY <2>1, <2>2
      <3> QED
        BY <3>1, <3>2, <3>3, <3>4
    <2>3. CASE Goes(c, "idle", 0) /\ UNCHANGED <<slot, loads>>
      <3>1. \A d \in SlotCallers : callers'[d].at # "load"
        BY <2>1, <2>3
      <3> QED
        BY <2>3, <3>1
    <2> QED
      BY <1>5, <2>2, <2>3 DEF SlotLoad
  <1>6. ASSUME NEW c \in SlotCallers, SlotDone(c) PROVE SlotInv'
    BY <1>6 DEF SlotDone
  <1>7. CASE UNCHANGED slotVars
    BY <1>7 DEF slotVars
  <1> QED
    BY <1>1, <1>2, <1>3, <1>4, <1>5, <1>6, <1>7 DEF SlotNext

\* However many callers find the slot empty, and whenever the evictor runs, a
\* loaded embedder is never replaced by another one (supervisor.rs, get_or_reload
\* and try_evict).
THEOREM LoadedOnce == SlotSpec => EmbedderLoadedOnce
  <1>1. SlotInv /\ [SlotNext]_slotVars => [slot.inst # 0 => slot'.inst \in {0, slot.inst}]_slotVars
    BY DEF SlotInv, SlotNext, SlotIdles, try_evict, SlotGet, SlotGate, SlotLoad, SlotDone, Use, slotVars
  <1> QED
    BY <1>1, SlotInvInit, SlotInvStep, PTL DEF SlotSpec, EmbedderLoadedOnce

--------------------------------------------------------------------------------
(***************************************************************************)
(* The launcher process.                                                   *)
(***************************************************************************)
\* GcTypeOK without its count of the dispatches inside the lock.
GcTypes ==
    /\ gui \in [GcPids -> [at : Places, told : BOOLEAN, by : 0..2]]
    /\ sock \in GcPids \cup {NoGui} /\ tracked \in GcPids \cup {NoGui}
    /\ gcLock \in BOOLEAN /\ life \in 1..2 /\ watchers \subseteq GcPids
    /\ reqs \in [Askers -> {"idle", "lock", "probe", "spawn", "wait", "send"}]
    /\ attempt \in [Askers -> GcPids \cup {NoGui}]
    /\ stop \in [at : {"no", "quit", "grace", "term", "down"}, pid : GcPids \cup {NoGui}]

\* A dispatch between its probe and its spawn holds the lock, and there is one.
Inside(d) == reqs[d] \in {"probe", "spawn"}

\* The mutex of GuiControl has exactly one owner while it is taken.
LockIsHeld ==
    /\ \A d \in Askers : Inside(d) => gcLock
    /\ \A d, e \in Askers : Inside(d) /\ Inside(e) => d = e
    /\ gcLock => \E d \in Askers : Inside(d)

\* The process that is tracked, or that the shutdown took, was started, so a
\* later spawn does not give its number away again; a spawn finds no process
\* tracked; a watcher speaks of a process that was reaped; no process is younger
\* than the daemon.
PidsKnown ==
    /\ tracked # NoGui => gui[tracked].at # "unborn"
    /\ stop.pid # NoGui => gui[stop.pid].at # "unborn"
    /\ stop.at = "no" => stop.pid = NoGui
    /\ stop.at \in {"quit", "grace", "term"} => stop.pid # NoGui
    /\ \A d \in Askers : reqs[d] = "spawn" => tracked = NoGui
    /\ \A p \in watchers : gui[p].at = "reaped"
    /\ \A p \in GcPids : gui[p].by <= life

\* The inductive invariant of the launcher's process control.
GcInv == GcTypes /\ LockIsHeld /\ PidsKnown /\ LauncherOwned

\* An action of one dispatch or of one process, or of the daemon.
LEMMA GcSteps ==
    ASSUME GcNext
    PROVE  \/ \E d \in Askers : GcAsk(d) \/ GcEnter(d) \/ GcProbe(d) \/ GcSpawn(d) \/ GcWait(d) \/ GuiAnswers(d) \/ GcSend(d)
           \/ \E p \in GcPids : GuiProbe(p) \/ GuiUnlink(p) \/ GuiBind(p) \/ GuiEnds(p) \/ GcReap(p) \/ on_child_exit(p)
           \/ ShutdownBegins \/ ShutdownQuits \/ ShutdownWaits \/ DaemonDies
  BY DEF GcNext, Dispatch, Launcher, Shutdown

\* The start: at most the launcher of an earlier daemon is there.
LEMMA GcInvInit == GcInit => GcInv
  <1> SUFFICES ASSUME GcInit PROVE GcInv
    OBVIOUS
  <1> USE LauncherAssumption DEF GcInit, GcPids, NoGui
  <1>1. GcTypes
    <2>1. PICK old \in {NoGui, 1} :
             /\ gui = [p \in GcPids |-> [at |-> IF p = old THEN "serving" ELSE "unborn", told |-> FALSE, by |-> 0]]
             /\ sock = old
      OBVIOUS
    <2>2. gui \in [GcPids -> [at : Places, told : BOOLEAN, by : 0..2]] /\ sock \in GcPids \cup {NoGui}
      BY <2>1 DEF Places
    <2>3. NotStopping \in [at : {"no", "quit", "grace", "term", "down"}, pid : GcPids \cup {NoGui}]
      BY DEF NotStopping
    <2>4. /\ reqs \in [Askers -> {"idle", "lock", "probe", "spawn", "wait", "send"}]
          /\ attempt \in [Askers -> GcPids \cup {NoGui}]
      OBVIOUS
    <2>5. tracked \in GcPids \cup {NoGui} /\ life \in 1..2 /\ watchers \subseteq GcPids
      OBVIOUS
    <2>6. gcLock \in BOOLEAN /\ stop = NotStopping
      BY Zenon
    <2> QED
      BY <2>2, <2>3, <2>4, <2>5, <2>6, Zenon DEF GcTypes
  <1>2. LockIsHeld
    BY DEF LockIsHeld, Inside
  <1>3. PidsKnown
    BY DEF PidsKnown, NotStopping
  <1>4. LauncherOwned
    BY DEF LauncherOwned, OursIsTracked, ShutdownEndsIt, NotStopping
  <1> QED
    BY <1>1, <1>2, <1>3, <1>4 DEF GcInv

\* A process that moves on, or is told to go, and the others.
LEMMA GuiMoves ==
    ASSUME GcTypes, NEW p \in GcPids, NEW where \in Places, Gui(p, where)
    PROVE  /\ gui' \in [GcPids -> [at : Places, told : BOOLEAN, by : 0..2]]
           /\ gui'[p].at = where /\ gui'[p].told = gui[p].told /\ gui'[p].by = gui[p].by
           /\ \A q \in GcPids \ {p} : gui'[q] = gui[q]
  BY DEF GcTypes, Gui

\* Telling a launcher to quit changes nothing else of it.
LEMMA GuiTold ==
    ASSUME GcTypes, NEW p \in GcPids, gui' = [gui EXCEPT ![p].told = TRUE]
    PROVE  /\ gui' \in [GcPids -> [at : Places, told : BOOLEAN, by : 0..2]]
           /\ gui'[p].at = gui[p].at /\ gui'[p].told /\ gui'[p].by = gui[p].by
           /\ \A q \in GcPids \ {p} : gui'[q] = gui[q]
  BY DEF GcTypes

\* What a dispatch does keeps the invariant.
LEMMA DispatchKeepsInv ==
    ASSUME GcInv, NEW d \in Askers,
           GcAsk(d) \/ GcEnter(d) \/ GcProbe(d) \/ GcSpawn(d) \/ GcWait(d) \/ GuiAnswers(d) \/ GcSend(d)
    PROVE  GcInv'
  <1> USE DEF GcInv, GcTypes, LockIsHeld, Inside, PidsKnown, LauncherOwned, OursIsTracked, ShutdownEndsIt,
          Alive, Answers, GcPids, NoGui, At, Gui, Fault
  <1>1. CASE GcAsk(d)
    BY <1>1 DEF GcAsk
  <1>2. CASE GcEnter(d)
    BY <1>2 DEF GcEnter
  <1>3. CASE GcProbe(d)
    <2>1. CASE At(d, "send") /\ gcLock' = FALSE /\ UNCHANGED <<gui, tracked>>
      BY <1>3, <2>1 DEF GcProbe
    <2>2. CASE At(d, "spawn") /\ gcLock' = gcLock /\ tracked' = NoGui /\ tracked = NoGui /\ gui' = gui
      BY <1>3, <2>2 DEF GcProbe
    <2>3. CASE /\ At(d, "spawn") /\ gcLock' = gcLock /\ tracked' = NoGui
               /\ tracked # NoGui /\ gui' = [gui EXCEPT ![tracked].told = TRUE]
      <3>1. /\ gui' \in [GcPids -> [at : Places, told : BOOLEAN, by : 0..2]]
            /\ gui'[tracked].at = gui[tracked].at /\ gui'[tracked].told /\ gui'[tracked].by = gui[tracked].by
            /\ \A q \in GcPids \ {tracked} : gui'[q] = gui[q]
        BY <2>3, GuiTold
      <3>2. GcTypes' /\ LockIsHeld'
        BY <1>3, <2>3, <3>1 DEF GcProbe
      <3>3. \A q \in GcPids : gui'[q].at = gui[q].at /\ gui'[q].by = gui[q].by
        BY <3>1
      <3>4. PidsKnown'
        BY <1>3, <2>3, <3>3 DEF GcProbe
      <3>5. LauncherOwned'
        BY <1>3, <2>3, <3>1, <3>3 DEF GcProbe
      <3> QED
        BY <3>2, <3>4, <3>5
    <2> QED
      BY <1>3, <2>1, <2>2, <2>3 DEF GcProbe
  <1>4. CASE GcSpawn(d)
    <2>1. CASE UNCHANGED <<gui, tracked>> /\ At(d, "idle")
      BY <1>4, <2>1 DEF GcSpawn
    <2>2. ASSUME NEW p \in GcPids, gui[p].at = "unborn", At(d, "wait"), tracked' = p,
                 gui' = [gui EXCEPT ![p] = [at |-> "starting", told |-> FALSE, by |-> life]]
          PROVE  GcInv'
      <3>1. /\ gui' \in [GcPids -> [at : Places, told : BOOLEAN, by : 0..2]]
            /\ gui'[p].at = "starting" /\ gui'[p].by = life
            /\ \A q \in GcPids \ {p} : gui'[q] = gui[q]
        BY <2>2 DEF Places
      <3>2. GcTypes' /\ LockIsHeld'
        BY <1>4, <2>2, <3>1 DEF GcSpawn
      <3>3. PidsKnown' /\ LauncherOwned'
        BY <1>4, <2>2, <3>1 DEF GcSpawn
      <3> QED
        BY <3>2, <3>3
    <2> QED
      BY <1>4, <2>1, <2>2 DEF GcSpawn
  <1>5. CASE GcWait(d)
    <2>1. CASE /\ attempt[d] = NoGui /\ Listens(sock)
               /\ attempt' = [attempt EXCEPT ![d] = sock] /\ UNCHANGED reqs
      BY <1>5, <2>1 DEF GcWait
    <2>2. CASE attempt[d] = NoGui /\ At(d, "idle") /\ UNCHANGED attempt
      BY <1>5, <2>2 DEF GcWait
    <2>3. CASE attempt' = [attempt EXCEPT ![d] = NoGui] /\ (At(d, "idle") \/ UNCHANGED reqs)
      BY <1>5, <2>3 DEF GcWait
    <2> QED
      BY <1>5, <2>1, <2>2, <2>3 DEF GcWait
  <1>6. CASE GcSend(d)
    BY <1>6 DEF GcSend
  <1>7. CASE GuiAnswers(d)
    BY <1>7 DEF GuiAnswers
  <1> QED
    BY <1>1, <1>2, <1>3, <1>4, <1>5, <1>6, <1>7

\* What a launcher process does, and what its watcher does after its end, keeps
\* the invariant.
LEMMA LauncherKeepsInv ==
    ASSUME GcInv, NEW p \in GcPids,
           GuiProbe(p) \/ GuiUnlink(p) \/ GuiBind(p) \/ GuiEnds(p) \/ GcReap(p) \/ on_child_exit(p)
    PROVE  GcInv'
  <1> USE DEF GcInv, GcTypes, LockIsHeld, Inside, PidsKnown, LauncherOwned, OursIsTracked, ShutdownEndsIt,
          Alive, Answers, GcPids, NoGui, At, Gui, Fault, Places
  <1>1. CASE GuiProbe(p)
    <2>1. PICK where \in {"dead", "unlinking", "binding"} : Gui(p, where)
      BY <1>1 DEF GuiProbe
    <2>2. gui[p].at = "starting" /\ UNCHANGED <<sock, tracked, gcLock, reqs, attempt, watchers, stop, life>>
      BY <1>1 DEF GuiProbe
    <2> HIDE DEF Gui
    <2> QED
      BY <2>1, <2>2, GuiMoves
  <1>2. CASE GuiUnlink(p)
    BY <1>2 DEF GuiUnlink
  <1>3. CASE GuiBind(p)
    <2>1. PICK where \in {"dead", "serving"} : Gui(p, where)
      BY <1>3 DEF GuiBind
    <2>2. /\ gui[p].at = "binding" /\ sock' \in {sock, p}
          /\ UNCHANGED <<tracked, gcLock, reqs, attempt, watchers, stop, life>>
      BY <1>3 DEF GuiBind
    <2> HIDE DEF Gui
    <2> QED
      BY <2>1, <2>2, GuiMoves
  <1>4. CASE GuiEnds(p)
    BY <1>4 DEF GuiEnds
  <1>5. CASE GcReap(p)
    BY <1>5 DEF GcReap
  <1>6. CASE on_child_exit(p)
    BY <1>6 DEF on_child_exit
  <1> QED
    BY <1>1, <1>2, <1>3, <1>4, <1>5, <1>6

\* The shutdown, and the death of the daemon, keep the invariant.
LEMMA ShutdownKeepsInv ==
    ASSUME GcInv, ShutdownBegins \/ ShutdownQuits \/ ShutdownWaits \/ DaemonDies
    PROVE  GcInv'
  <1> USE DEF GcInv, GcTypes, LockIsHeld, Inside, PidsKnown, LauncherOwned, OursIsTracked, ShutdownEndsIt,
          Alive, Answers, GcPids, NoGui, At, Gui, Fault, Places
  <1>1. CASE ShutdownBegins
    BY <1>1 DEF ShutdownBegins
  <1>2. CASE ShutdownQuits
    <2>1. /\ stop.at = "quit" /\ stop'.at = "grace" /\ stop'.pid = stop.pid
          /\ stop' \in [at : {"no", "quit", "grace", "term", "down"}, pid : GcPids \cup {NoGui}]
          /\ UNCHANGED <<sock, tracked, gcLock, reqs, attempt, watchers, life>>
      BY <1>2 DEF ShutdownQuits
    <2>2. CASE UNCHANGED gui
      BY <2>1, <2>2
    <2>3. CASE Answers(sock) /\ Gui(sock, "quitting")
      <3> HIDE DEF Gui
      <3>1. sock \in GcPids /\ gui[sock].at = "serving" /\ "quitting" \in Places
        BY <2>3
      <3> QED
        BY <2>1, <2>3, <3>1, GuiMoves
    <2> QED
      BY <1>2, <2>2, <2>3 DEF ShutdownQuits
  <1>3. CASE ShutdownWaits
    <2>1. /\ stop.at \in {"grace", "term"} /\ stop.pid \in GcPids
          /\ UNCHANGED <<sock, tracked, gcLock, reqs, attempt, watchers, life>>
      BY <1>3 DEF ShutdownWaits
    <2>2. ASSUME NEW at \in {"term", "down"}, stop' = [stop EXCEPT !.at = at]
          PROVE  /\ stop'.at = at /\ stop'.pid = stop.pid
                 /\ stop' \in [at : {"no", "quit", "grace", "term", "down"}, pid : GcPids \cup {NoGui}]
      BY <2>2
    <2>3. CASE ~Alive(stop.pid) /\ stop' = [stop EXCEPT !.at = "down"] /\ UNCHANGED gui
      BY <2>1, <2>2, <2>3
    <2>4. CASE stop' = [stop EXCEPT !.at = "term"] /\ gui' = [gui EXCEPT ![stop.pid].told = TRUE]
      <3>1. \A q \in GcPids : gui'[q].at = gui[q].at /\ gui'[q].by = gui[q].by /\ (gui[q].told => gui'[q].told)
        BY <2>1, <2>4, GuiTold
      <3>2. gui' \in [GcPids -> [at : Places, told : BOOLEAN, by : 0..2]]
        BY <2>1, <2>4, GuiTold
      <3> QED
        BY <2>1, <2>2, <2>4, <3>1, <3>2
    <2>5. CASE stop' = [stop EXCEPT !.at = "down"] /\ Gui(stop.pid, "dead") /\ Alive(stop.pid)
      <3> HIDE DEF Gui
      <3>1. "dead" \in Places
        OBVIOUS
      <3> QED
        BY <2>1, <2>2, <2>5, <3>1, GuiMoves
    <2> QED
      BY <1>3, <2>3, <2>4, <2>5 DEF ShutdownWaits
  <1>4. CASE DaemonDies
    <2>1. /\ life = 1 /\ life' = 2 /\ tracked' = NoGui /\ gcLock' = FALSE /\ reqs' = [d \in Askers |-> "idle"]
          /\ attempt' = [d \in Askers |-> NoGui] /\ watchers' = {} /\ stop' = NotStopping /\ UNCHANGED <<gui, sock>>
      BY <1>4 DEF DaemonDies
    <2>2. NotStopping \in [at : {"no", "quit", "grace", "term", "down"}, pid : GcPids \cup {NoGui}]
      BY DEF NotStopping
    <2>3. /\ reqs' \in [Askers -> {"idle", "lock", "probe", "spawn", "wait", "send"}] /\ LockIsHeld'
          /\ attempt' \in [Askers -> GcPids \cup {NoGui}]
      BY <2>1
    <2>4. tracked' \in GcPids \cup {NoGui} /\ life' \in 1..2 /\ watchers' \subseteq GcPids
      BY <2>1
    <2>5. GcTypes'
      BY <2>1, <2>2, <2>3, <2>4, Zenon
    <2>6. PidsKnown' /\ LauncherOwned'
      BY <2>1 DEF NotStopping
    <2> QED
      BY <2>3, <2>5, <2>6
  <1> QED
    BY <1>1, <1>2, <1>3, <1>4

\* Every step of the daemon's requests, of the shutdown and of a launcher keeps the
\* invariant.
LEMMA GcInvStep == GcInv /\ [GcNext]_gcVars => GcInv'
  <1> SUFFICES ASSUME GcInv, [GcNext]_gcVars PROVE GcInv'
    OBVIOUS
  <1>1. CASE GcNext
    BY <1>1, GcSteps, DispatchKeepsInv, LauncherKeepsInv, ShutdownKeepsInv
  <1>2. CASE UNCHANGED gcVars
    BY <1>2 DEF gcVars, GcInv, GcTypes, LockIsHeld, Inside, PidsKnown, LauncherOwned, OursIsTracked,
                ShutdownEndsIt, Alive
  <1> QED
    BY <1>1, <1>2

\* One holder of the lock or none, counted.
LEMMA GcInvGivesType ==
    ASSUME GcInv PROVE GcTypeOK
  <1> DEFINE Holders == {d \in Askers : reqs[d] \in {"probe", "spawn"}}
  <1>1. CASE gcLock
    <2>1. PICK d \in Askers : Inside(d)
      BY <1>1 DEF GcInv, LockIsHeld
    <2>2. Holders = {d}
      BY <2>1 DEF GcInv, LockIsHeld, Inside
    <2> QED
      BY <1>1, <2>2, FS_Singleton DEF GcInv, GcTypes, GcTypeOK
  <1>2. CASE ~gcLock
    <2>1. Holders = {}
      BY <1>2 DEF GcInv, LockIsHeld, Inside
    <2> QED
      BY <1>2, <2>1, FS_EmptySet DEF GcInv, GcTypes, GcTypeOK
  <1> QED
    BY <1>1, <1>2

\* Whatever clients ask for and whatever dies, every variable keeps its type and
\* the state's lock is held by exactly the one dispatch that is between its probe
\* and its spawn (gui_control.rs 54-82).
THEOREM LauncherTyped == GcSpec => []GcTypeOK
  <1>1. GcInv => GcTypeOK
    BY GcInvGivesType
  <1> QED
    BY <1>1, GcInvInit, GcInvStep, PTL DEF GcSpec

\* For every number of clients, launcher processes and faults: no launcher of this
\* daemon runs untold and untracked, and the one the shutdown took is gone when
\* the shutdown returns (gui_control.rs 54-138).
THEOREM LauncherOwnedAlways == GcSpec => []LauncherOwned
  <1>1. GcInv => LauncherOwned
    BY DEF GcInv
  <1> QED
    BY <1>1, GcInvInit, GcInvStep, PTL DEF GcSpec
--------------------------------------------------------------------------------
(***************************************************************************)
(* The daemon's host: hotkey listener, power profile and environment.      *)
(***************************************************************************)
\* The listener's record, and the presses in its channel.
HkInv ==
    /\ hk \in [at : {"probe", "register", "session", "component", "bind", "subscribe", "listen", "failed"},
               bound : BOOLEAN, error : BOOLEAN]
    /\ presses \in 0..HkCapacity /\ toggles \in [made : Nat, heard : Nat, done : Nat]
    /\ HotkeyStatusHonest

\* The records of the power profile.
PowerTypes ==
    /\ onBattery \in BOOLEAN /\ missed \in BOOLEAN /\ signals \in Seq(BOOLEAN)
    /\ watcher \in [at : {"get", "first", "firstStore", "subscribe", "listen", "store", "off"},
                    last : BOOLEAN, level : {"on_ac", "on_battery"}]
    /\ profile \in [level : Levels, nice : Levels, changes : Nat]
    /\ setter \in [at : {"idle", "store"}, level : Levels, count : Nat]

\* What UPower announced last, with the signals under way taken as read, is the
\* battery's state, if no change fell between the first answer and the
\* subscription.
SignalsTell ==
    /\ watcher.at \in {"get", "first", "firstStore", "subscribe"} => signals = <<>>
    /\ ~missed /\ watcher.at \notin {"get", "off"} =>
           IF signals = <<>> THEN watcher.last = onBattery ELSE signals[Len(signals)] = onBattery

\* The profile is the one of what the watcher heard last, but for the step it is
\* about to take, as long as no client has set one.
ProfileTells ==
    /\ setter.count = 0 => setter.at = "idle"
    /\ watcher.at \in {"first", "firstStore", "store"} => watcher.level = LevelFor(watcher.last)
    /\ setter.count = 0 /\ watcher.at \in {"get", "first"} => profile.level = "on_ac" /\ profile.nice = "on_ac"
    /\ setter.count = 0 /\ watcher.at \in {"firstStore", "store"} => profile.nice = watcher.level
    /\ setter.count = 0 /\ watcher.at \in {"subscribe", "listen"} =>
           profile.level = LevelFor(watcher.last) /\ profile.nice = profile.level

\* The battery watcher's part of the inductive invariant.
PowerInv == PowerTypes /\ SignalsTell /\ ProfileTells

\* The inductive invariant of the host services.
HostInv == HkInv /\ PowerInv /\ GuiEnvSound

\* The listener has no shortcut and no error when it starts.
LEMMA HostInvInit == HostInit => HostInv
  <1> SUFFICES ASSUME HostInit PROVE HostInv
    OBVIOUS
  <1>1. HkInv
    BY HostAssumption DEF HostInit, HkInit, HkInv, HotkeyStatusHonest
  <1>2. PowerInv
    <2> USE DEF HostInit, PowerInit, NoSet, Levels, LevelFor
    <2>1. onBattery \in BOOLEAN /\ missed \in BOOLEAN
      BY Zenon
    <2>2. /\ watcher \in [at : {"get", "first", "firstStore", "subscribe", "listen", "store", "off"},
                          last : BOOLEAN, level : {"on_ac", "on_battery"}]
          /\ profile \in [level : Levels, nice : Levels, changes : Nat]
          /\ setter \in [at : {"idle", "store"}, level : Levels, count : Nat]
          /\ signals \in Seq(BOOLEAN)
      OBVIOUS
    <2>3. SignalsTell /\ ProfileTells
      BY DEF SignalsTell, ProfileTells
    <2> QED
      BY <2>1, <2>2, <2>3 DEF PowerInv, PowerTypes
  <1>3. GuiEnvSound
    BY DEF HostInit, NoEnv, GuiEnvSound
  <1> QED
    BY <1>1, <1>2, <1>3 DEF HostInv

\* Each step of the listener keeps its status honest and its channel bounded.
LEMMA HkKeepsInv ==
    ASSUME HkInv, HkNext PROVE HkInv'
  <1> USE DEF HkInv, HotkeyStatusHonest, HkFailed
  <1>1. CASE spawn_global_toggle_listener
    BY <1>1 DEF spawn_global_toggle_listener
  <1>2. CASE KGlobalAccelRun
    <2>1. CASE hk.at = "register" /\ hk' = [hk EXCEPT !.at = "component", !.bound = TRUE]
      <3>1. hk'.at = "component" /\ hk'.bound = TRUE /\ hk'.error = hk.error
        BY <2>1
      <3> QED
        BY <1>2, <2>1, <3>1 DEF KGlobalAccelRun
    <2>2. CASE hk.at = "component" /\ hk' = [hk EXCEPT !.at = "subscribe"]
      BY <1>2, <2>2 DEF KGlobalAccelRun
    <2>3. CASE hk' = HkFailed(hk)
      <3>1. hk'.at = "failed" /\ hk'.bound = FALSE /\ hk'.error = TRUE
        BY <2>3
      <3> QED
        BY <1>2, <2>3, <3>1 DEF KGlobalAccelRun
    <2> QED
      BY <1>2, <2>1, <2>2, <2>3 DEF KGlobalAccelRun
  <1>3. CASE PortalSession
    BY <1>3 DEF PortalSession, PortalStep, PortalRequest
  <1>4. CASE PortalBind
    <2>1. CASE hk' = [hk EXCEPT !.at = "subscribe", !.bound = TRUE]
      <3>1. hk'.at = "subscribe" /\ hk'.bound = TRUE /\ hk'.error = hk.error
        BY <2>1
      <3> QED
        BY <1>4, <2>1, <3>1 DEF PortalBind, PortalStep
    <2>2. CASE hk' = HkFailed(hk)
      <3>1. hk'.at = "failed" /\ hk'.bound = FALSE /\ hk'.error = TRUE
        BY <2>2
      <3> QED
        BY <1>4, <2>2, <3>1 DEF PortalBind, PortalStep
    <2>3. CASE hk' = hk
      BY <1>4, <2>3 DEF PortalBind, PortalStep
    <2> QED
      BY <1>4, <2>1, <2>2, <2>3 DEF PortalBind, PortalStep, PortalRequest
  <1>5. CASE HkSubscribe
    BY <1>5 DEF HkSubscribe
  <1>6. CASE HkPress
    <2>1. hk' = hk /\ presses' \in {presses, presses + 1} /\ (presses' # presses => presses < HkCapacity)
      BY <1>6 DEF HkPress, HkRoom
    <2>2. CASE toggles' = [toggles EXCEPT !.made = @ + 1, !.heard = @ + 1]
      <3>1. toggles.made + 1 \in Nat /\ toggles.heard + 1 \in Nat
        OBVIOUS
      <3>2. toggles' \in [made : Nat, heard : Nat, done : Nat]
        BY <2>2, <3>1
      <3> QED
        BY <2>1, <3>2, HostAssumption
    <2>3. CASE toggles' = [toggles EXCEPT !.made = @ + 1]
      <3>1. toggles' \in [made : Nat, heard : Nat, done : Nat]
        BY <2>3
      <3> QED
        BY <2>1, <3>1, HostAssumption
    <2> QED
      BY <1>6, <2>2, <2>3 DEF HkPress
  <1>7. CASE MainTakesPress
    BY <1>7, HostAssumption DEF MainTakesPress
  <1> QED
    BY <1>1, <1>2, <1>3, <1>4, <1>5, <1>6, <1>7 DEF HkNext

\* Each step of UPower, the watcher and the clients keeps the profile in step.
LEMMA PowerKeepsInv ==
    ASSUME PowerInv, PowerNext PROVE PowerInv'
  <1> USE DEF PowerInv, PowerTypes, SignalsTell, ProfileTells, Levels, LevelFor
  <1>1. CASE Transition
    <2>1. PICK b \in BOOLEAN : b = ~onBattery /\ onBattery' = b
      BY <1>1 DEF Transition
    <2>2. /\ profile'.level = profile.level /\ profile'.nice = profile.nice
          /\ profile' \in [level : Levels, nice : Levels, changes : Nat]
          /\ watcher' = watcher /\ setter' = setter
      BY <1>1 DEF Transition
    <2>3. missed' \in BOOLEAN /\ (~missed' => ~missed /\ watcher.at \notin {"first", "firstStore", "subscribe"})
      BY <1>1 DEF Transition
    <2>4. CASE watcher.at \in {"listen", "store"}
      <3>1. signals' = Append(signals, b)
        BY <1>1, <2>1, <2>4 DEF Transition
      <3>2. signals' \in Seq(BOOLEAN) /\ signals' # <<>> /\ signals'[Len(signals')] = b
        BY <3>1
      <3> QED
        BY <2>1, <2>2, <2>3, <2>4, <3>2
    <2>5. CASE watcher.at \notin {"listen", "store"}
      BY <1>1, <2>1, <2>2, <2>3, <2>5 DEF Transition
    <2> QED
      BY <2>4, <2>5
  <1>2. CASE ReadOnBattery
    BY <1>2 DEF ReadOnBattery
  <1>3. CASE HotApply
    <2>1. CASE watcher.at = "first"
      <3>1. signals' = signals /\ onBattery' = onBattery /\ setter' = setter /\ missed' = missed
        BY <1>3, <2>1 DEF HotApply
      <3>2. watcher'.last = watcher.last /\ watcher'.level = watcher.level
        BY <1>3, <2>1 DEF HotApply
      <3>3. \/ /\ watcher.level = profile.level /\ watcher'.at = "subscribe" /\ profile' = profile
            \/ /\ watcher.level # profile.level /\ watcher'.at = "firstStore"
               /\ profile' = [profile EXCEPT !.nice = watcher.level]
        BY <1>3, <2>1 DEF HotApply
      <3>4. watcher' \in [at : {"get", "first", "firstStore", "subscribe", "listen", "store", "off"},
                          last : BOOLEAN, level : {"on_ac", "on_battery"}]
        BY <1>3, <2>1 DEF HotApply
      <3> QED
        BY <2>1, <3>1, <3>2, <3>3, <3>4
    <2>2. CASE watcher.at = "listen"
      <3> DEFINE h == Head(signals)
      <3>1. /\ h \in BOOLEAN /\ signals' = Tail(signals) /\ signals' \in Seq(BOOLEAN)
            /\ IF signals' = <<>> THEN h = signals[Len(signals)] ELSE signals'[Len(signals')] = signals[Len(signals)]
        <4>1. signals' = Tail(signals) /\ signals \in Seq(BOOLEAN) /\ signals # <<>>
          BY <1>3, <2>2 DEF HotApply
        <4> HIDE DEF PowerInv, PowerTypes, SignalsTell, ProfileTells
        <4>2. h \in BOOLEAN /\ h = signals[1] /\ signals' \in Seq(BOOLEAN) /\ Len(signals') = Len(signals) - 1
          BY <4>1
        <4>3. \A i \in 1..Len(signals') : signals'[i] = signals[i + 1]
          BY <4>1
        <4>4. Len(signals) \in Nat /\ Len(signals) > 0 /\ Len(signals') \in Nat
          BY <4>1, <4>2
        <4>5. CASE signals' = <<>>
          <5>1. Len(signals) = 1
            BY <4>2, <4>4, <4>5
          <5> QED
            BY <4>1, <4>2, <4>5, <5>1
        <4>6. CASE signals' # <<>>
          <5>1. Len(signals') > 0
            BY <4>2, <4>6
          <5>2. signals'[Len(signals')] = signals[Len(signals)]
            BY <4>2, <4>3, <4>4, <5>1
          <5> QED
            BY <4>1, <4>2, <4>6, <5>2
        <4> QED
          BY <4>5, <4>6
      <3>2. onBattery' = onBattery /\ setter' = setter /\ missed' = missed /\ signals # <<>>
        BY <1>3, <2>2 DEF HotApply
      <3>3. /\ watcher'.last = h /\ watcher'.level = LevelFor(h)
            /\ watcher' \in [at : {"get", "first", "firstStore", "subscribe", "listen", "store", "off"},
                             last : BOOLEAN, level : {"on_ac", "on_battery"}]
        BY <1>3, <2>2, <3>1 DEF HotApply
      <3>4. \/ /\ h = watcher.last \/ profile.level = LevelFor(h)
               /\ watcher'.at = "listen" /\ profile' = profile
            \/ /\ watcher'.at = "store" /\ profile' = [profile EXCEPT !.nice = LevelFor(h)]
        BY <1>3, <2>2 DEF HotApply
      <3> HIDE DEF h
      <3> QED
        BY <2>2, <3>1, <3>2, <3>3, <3>4
    <2> QED
      BY <1>3, <2>1, <2>2 DEF HotApply
  <1>4. CASE HotApplyStores
    BY <1>4 DEF HotApplyStores
  <1>5. CASE Subscribe
    BY <1>5 DEF Subscribe
  <1>6. ASSUME NEW l \in Levels, ImpactSet(l) PROVE PowerInv'
    <2>1. setter.count + 1 \in Nat /\ setter.count + 1 # 0
      OBVIOUS
    <2>2. setter'.count # 0 /\ setter' \in [at : {"idle", "store"}, level : Levels, count : Nat]
      BY <1>6, <2>1 DEF ImpactSet
    <2>3. profile' \in [level : Levels, nice : Levels, changes : Nat]
      BY <1>6 DEF ImpactSet
    <2>4. UNCHANGED <<onBattery, signals, watcher, missed>>
      BY <1>6 DEF ImpactSet
    <2> QED
      BY <2>2, <2>3, <2>4
  <1>7. CASE ImpactSetStores
    BY <1>7 DEF ImpactSetStores
  <1> QED
    BY <1>1, <1>2, <1>3, <1>4, <1>5, <1>6, <1>7 DEF PowerNext
\* Whatever the session, the disk and the manager have, the environment is sound.
LEMMA EnvIsSound ==
    ASSUME discover_gui_env_async PROVE GuiEnvSound'
  <1>1. PICK inherited \in SUBSET Keys, found \in SUBSET Artifacts,
             manager \in SUBSET (Keys \ {"WAYLAND_DISPLAY", "XDG_SESSION_TYPE"}),
             kde \in BOOLEAN, answers \in BOOLEAN :
           LET first == discover_gui_env_at(inherited, found) IN
           env' = [done |-> TRUE, inherited |-> inherited, manager |-> manager, kde |-> kde, answers |-> answers,
                   keys |-> IF answers /\ first # Keys THEN overlay_manager_env(first, manager, kde) ELSE first]
    BY Zenon DEF discover_gui_env_async
  <1> DEFINE first == discover_gui_env_at(inherited, found)
             keys  == IF answers /\ first # Keys THEN overlay_manager_env(first, manager, kde) ELSE first
  <1>2. env'.inherited = inherited /\ env'.manager = manager /\ env'.keys = keys
    BY <1>1
  <1>3. env'.kde = kde /\ env'.answers = answers
    BY <1>1
  <1>4. inherited \subseteq first
    BY DEF discover_gui_env_at
  <1>5. "DISPLAY" \in first => "XAUTHORITY" \in first \/ "DISPLAY" \in inherited
    BY DEF discover_gui_env_at
  <1>6. \A k \in first : k # "XDG_CURRENT_DESKTOP" => k \in keys
    BY DEF overlay_manager_env
  <1>7. \A k \in keys : k \in first \cup manager
    BY DEF overlay_manager_env
  <1>8. kde /\ answers /\ "XDG_CURRENT_DESKTOP" \in keys => "KDE_SESSION_VERSION" \in keys
    <2>1. CASE first = Keys
      BY <2>1 DEF Keys
    <2>2. CASE first # Keys
      BY <2>2 DEF overlay_manager_env
    <2> QED
      BY <2>1, <2>2
  <1> HIDE DEF first, keys
  <1>9. inherited \ {"XDG_CURRENT_DESKTOP"} \subseteq keys
    BY <1>4, <1>6
  <1>10. "DISPLAY" \in keys => "XAUTHORITY" \in keys \/ "DISPLAY" \in inherited \cup manager
    BY <1>5, <1>6, <1>7
  <1> QED
    BY <1>2, <1>3, <1>8, <1>9, <1>10 DEF GuiEnvSound

\* Every step of the hotkey listener, the battery watcher and the discovery of an
\* environment keeps the invariant.
LEMMA HostInvStep == HostInv /\ [HostNext]_hostVars => HostInv'
  <1> SUFFICES ASSUME HostInv, [HostNext]_hostVars PROVE HostInv'
    OBVIOUS
  <1>1. UNCHANGED hkVars => HkInv'
    BY DEF HostInv, hkVars, HkInv, HotkeyStatusHonest
  <1>2. UNCHANGED powerVars => PowerInv'
    BY DEF HostInv, powerVars, PowerInv, PowerTypes, SignalsTell, ProfileTells
  <1>3. UNCHANGED env => GuiEnvSound'
    BY DEF HostInv, GuiEnvSound
  <1>4. CASE HkNext /\ UNCHANGED <<powerVars, env>>
    BY <1>2, <1>3, <1>4, HkKeepsInv DEF HostInv
  <1>5. CASE PowerNext /\ UNCHANGED <<hkVars, env>>
    BY <1>1, <1>3, <1>5, PowerKeepsInv DEF HostInv
  <1>6. CASE discover_gui_env_async /\ UNCHANGED <<hkVars, powerVars>>
    BY <1>1, <1>2, <1>6, EnvIsSound DEF HostInv
  <1>7. CASE UNCHANGED hostVars
    BY <1>1, <1>2, <1>3, <1>7 DEF HostInv, hostVars
  <1> QED
    BY <1>4, <1>5, <1>6, <1>7 DEF HostNext

\* The host services keep their types, and a press finds the channel of presses
\* within its capacity (hotkeys/mod.rs, battery.rs, session_env.rs).
THEOREM HostTyped == HostSpec => []HostTypeOK
  <1>1. HostInv => HostTypeOK
    BY DEF HostInv, HkInv, PowerInv, PowerTypes, HostTypeOK, Levels
  <1> QED
    BY <1>1, HostInvInit, HostInvStep, PTL DEF HostSpec

\* For every capacity and any number of presses, changes of the battery and
\* requests: the status of the hotkey says what became of it (hotkeys/mod.rs
\* 39-44), the profile follows the battery unless a client set it or the change
\* fell into the watcher's gap (battery.rs 58-93), and a launcher's environment
\* is sound (session_env.rs 141-300).
THEOREM HostSafeAlways == HostSpec => []HostSafe
  <1>1. HostInv => HostSafe
    BY DEF HostInv, HkInv, PowerInv, PowerTypes, SignalsTell, ProfileTells, HostSafe, BatteryFollowed
  <1> QED
    BY <1>1, HostInvInit, HostInvStep, PTL DEF HostSpec

--------------------------------------------------------------------------------
(***************************************************************************)
(* The services together.                                                  *)
(***************************************************************************)
ServicesInv == GcInv /\ HostInv /\ SmInv /\ SlotInv

\* A step of one service keeps the invariants of all.
LEMMA ServicesInvStep ==
    ServicesInv /\ [ServicesNext]_<<gcVars, hostVars, smVars, slotVars, part>> => ServicesInv'
  <1> SUFFICES ASSUME ServicesInv, [ServicesNext]_<<gcVars, hostVars, smVars, slotVars, part>>
               PROVE  ServicesInv'
    OBVIOUS
  <1>1. UNCHANGED gcVars => GcInv'
    BY GcInvStep DEF ServicesInv
  <1>2. UNCHANGED hostVars => HostInv'
    BY HostInvStep DEF ServicesInv
  <1>3. UNCHANGED smVars => SmInv'
    BY SmInvStep DEF ServicesInv
  <1>4. UNCHANGED slotVars => SlotInv'
    BY SlotInvStep DEF ServicesInv
  <1>5. CASE GcNext /\ UNCHANGED <<hostVars, smVars, slotVars>>
    BY <1>2, <1>3, <1>4, <1>5, GcInvStep DEF ServicesInv
  <1>6. CASE (HkNext \/ PowerNext \/ discover_gui_env_async) /\ HostNext /\ UNCHANGED <<gcVars, smVars, slotVars>>
    BY <1>1, <1>3, <1>4, <1>6, HostInvStep DEF ServicesInv
  <1>7. CASE SmNext /\ UNCHANGED <<gcVars, hostVars, slotVars>>
    BY <1>1, <1>2, <1>4, <1>7, SmInvStep DEF ServicesInv
  <1>8. CASE SlotNext /\ UNCHANGED <<gcVars, hostVars, smVars>>
    BY <1>1, <1>2, <1>3, <1>8, SlotInvStep DEF ServicesInv
  <1>9. CASE UNCHANGED <<gcVars, hostVars, smVars, slotVars, part>>
    BY <1>1, <1>2, <1>3, <1>4, <1>9 DEF ServicesInv
  <1> QED
    BY <1>5, <1>6, <1>7, <1>8, <1>9 DEF ServicesNext, HostNext

\* Whichever of the services runs, all of them keep their types: among them the
\* limit of the semantic supervisor's pause, the capacity of the hotkey's channel
\* and the lock of the launcher's state.
THEOREM ServicesTyped == ServicesSpec => []ServicesTypeOK
  <1>1. ServicesInit => ServicesInv
    BY GcInvInit, HostInvInit, SmInvInit, SlotInvInit DEF ServicesInit, ServicesInv
  <1>2. ASSUME ServicesInv PROVE ServicesTypeOK
    <2>1. GcTypeOK
      BY <1>2, GcInvGivesType DEF ServicesInv
    <2>2. HostTypeOK
      BY <1>2 DEF ServicesInv, HostInv, HkInv, PowerInv, PowerTypes, HostTypeOK, Levels
    <2>3. SmTypeOK
      BY <1>2 DEF ServicesInv, SmInv, SmTypes, IdsUnique, SlotInv, SmTypeOK
    <2> QED
      BY <2>1, <2>2, <2>3 DEF ServicesTypeOK
  <1> QED
    BY <1>1, <1>2, ServicesInvStep, PTL DEF ServicesSpec
================================================================================
