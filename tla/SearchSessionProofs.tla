------------------------- MODULE SearchSessionProofs -------------------------
(***************************************************************************)
(* Theorems about a search on its way, for any number of sessions,         *)
(* connections, searches and faults and every capacity of write_tx, and    *)
(* about the daemon's result cache, for any capacity and number of         *)
(* searches and reloads, and about the ranking stores, for any number of   *)
(* documents, clients and starts.                                          *)
(***************************************************************************)
EXTENDS SearchSession, SearchCache, RankingStores, SequenceTheorems, FiniteSetTheorems, FunctionTheorems, TLAPS

\* The reader of a connection, SenderStates the sending thread and ClientStates the
\* daemon's task of a connection.
ReaderStates == [at : {"none", "reading", "leaving", "gone"}, final : 0..MaxEpoch, timeout : 0..MaxEpoch]
SenderStates == [at : {"idle", "check", "write"}, epoch : 0..MaxEpoch, tries : 0..1]
Slots        == [gen : Nat, epoch : 0..MaxEpoch]
ClientStates == [at : {"none", "loop", "install", "closed"}, slot : Slots, next : Nat, request : 0..MaxEpoch]
Searches     == [gen : Nat, epoch : Epochs, cancelled : BOOLEAN, at : Chunks \cup {"clear"}, sending : BOOLEAN]
Frames       == [what : Chunks \cup {"Cancelled", "bad"}, epoch : 0..MaxEpoch]
Reports      == Chunks \cup {"failed", "timeout"}

\* The main thread and the sending thread; a search it holds has an epoch, and the
\* connection it is about to write to exists.
SendInv ==
    /\ session \in Epochs /\ lastSent \in 0..MaxEpoch /\ conn \in 0..MaxConns
    /\ asked \in [Epochs -> 0..MaxSends] /\ requests \in Seq(Epochs)
    /\ sender \in SenderStates
    /\ sender.at # "idle" => sender.epoch \in Epochs
    /\ sender.at = "write" => conn \in Conns

\* The readers and what they report.
ReadInv ==
    /\ reader \in [Conns -> ReaderStates]
    /\ events \in [Epochs -> Seq(Reports)]
    /\ unread \subseteq Epochs /\ mark \in Nat /\ faults \in 0..MaxFaults /\ up \in BOOLEAN

\* The queues between the two.
WireInv ==
    /\ upward \in [Conns -> Seq(Epochs)]
    /\ downward \in [Conns -> Seq(Frames)]
    /\ queue \in [Conns -> Seq(Frames)] /\ \A c \in Conns : Len(queue[c]) <= WriteCap

\* The searches s of a connection whose task is at k: one generation each, and only
\* the slot's may still run; while the next one is being installed, none may.
SlotInv(k, s) ==
    /\ k \in ClientStates /\ k.slot.gen <= k.next
    /\ k.at = "install" => k.request \in Epochs
    /\ \A t \in s : t \in Searches /\ t.gen <= k.next
    /\ \A t \in s : t.sending => t.at \in Chunks
    /\ \A t \in s : ~t.cancelled => t.gen = k.slot.gen /\ k.at # "install"
    /\ \A t, u \in s : t.gen = u.gen => t = u

\* Of the searches of a connection at most the one in the slot is uncancelled.
DaemonInv ==
    /\ client \in [Conns -> ClientStates] /\ tasks \in [Conns -> SUBSET Searches]
    /\ \A c \in Conns : SlotInv(client[c], tasks[c])

\* The inductive invariant of the search sessions.
SsInv == SendInv /\ ReadInv /\ WireInv /\ DaemonInv

--------------------------------------------------------------------------------
(***************************************************************************)
(* Queues, one for each of a set of readers.                               *)
(***************************************************************************)
\* Something is put into one of the queues.
LEMMA PutInto ==
    ASSUME NEW D, NEW S, NEW q \in [D -> Seq(S)], NEW c \in D, NEW x \in S
    PROVE  /\ [q EXCEPT ![c] = Append(@, x)] \in [D -> Seq(S)]
           /\ Len([q EXCEPT ![c] = Append(@, x)][c]) = Len(q[c]) + 1
  <1>1. Append(q[c], x) \in Seq(S) /\ Len(Append(q[c], x)) = Len(q[c]) + 1
    <2>1. q[c] \in Seq(S)
      OBVIOUS
    <2> QED
      BY <2>1, AppendProperties
  <1>2. [q EXCEPT ![c] = Append(@, x)] = [q EXCEPT ![c] = Append(q[c], x)]
    OBVIOUS
  <1> DEFINE y == Append(q[c], x)
             T == Seq(S)
  <1>3. y \in T /\ q \in [D -> T]
    BY <1>1
  <1> HIDE DEF y, T
  <1>4. [q EXCEPT ![c] = y] \in [D -> T] /\ [q EXCEPT ![c] = y][c] = y
    BY <1>3
  <1> QED
    BY <1>1, <1>2, <1>4 DEF y, T

\* The first of one of the queues is taken.
LEMMA TakenFrom ==
    ASSUME NEW D, NEW S, NEW q \in [D -> Seq(S)], NEW c \in D, q[c] # <<>>
    PROVE  /\ [q EXCEPT ![c] = Tail(@)] \in [D -> Seq(S)] /\ Head(q[c]) \in S
           /\ Len([q EXCEPT ![c] = Tail(@)][c]) <= Len(q[c])
           /\ \A d \in D : d # c => [q EXCEPT ![c] = Tail(@)][d] = q[d]
  <1>1. q[c] \in Seq(S)
    OBVIOUS
  <1>2. Tail(q[c]) \in Seq(S) /\ Head(q[c]) \in S /\ Len(Tail(q[c])) = Len(q[c]) - 1 /\ Len(q[c]) \in Nat
    BY <1>1, HeadTailProperties, LenProperties
  <1> DEFINE y == Tail(q[c])
             T == Seq(S)
  <1>3. y \in T /\ q \in [D -> T] /\ [q EXCEPT ![c] = Tail(@)] = [q EXCEPT ![c] = y]
    BY <1>2
  <1>4. Len(y) <= Len(q[c])
    BY <1>2
  <1> HIDE DEF y, T
  <1>5. /\ [q EXCEPT ![c] = y] \in [D -> T] /\ [q EXCEPT ![c] = y][c] = y
        /\ \A d \in D : d # c => [q EXCEPT ![c] = y][d] = q[d]
    BY <1>3
  <1> QED
    BY <1>2, <1>3, <1>4, <1>5 DEF T

--------------------------------------------------------------------------------
(***************************************************************************)
(* The launcher.                                                           *)
(***************************************************************************)
\* Launcher and daemon start without a connection and without a search.
LEMMA SsInvInit == SsInit => SsInv
  <1> SUFFICES ASSUME SsInit PROVE SsInv
    OBVIOUS
  <1> USE SearchAssumption DEF SsInit, Epochs, Conns
  <1>1. SendInv
    BY DEF SendInv, Idle, SenderStates
  <1>2. ReadInv
    BY DEF ReadInv, NoReader, ReaderStates
  <1>3. WireInv
    BY DEF WireInv
  <1>4. NoClient \in ClientStates /\ NoClient.at = "none" /\ NoClient.slot.gen <= NoClient.next
    BY DEF NoClient, NoSlot, ClientStates, Slots
  <1>5. SlotInv(NoClient, {})
    BY <1>4 DEF SlotInv
  <1>6. DaemonInv
    BY <1>4, <1>5 DEF DaemonInv
  <1> QED
    BY <1>1, <1>2, <1>3, <1>6 DEF SsInv

\* What the parts of the invariant depend on.
LEMMA PartsAside ==
    ASSUME SsInv
    PROVE  /\ UNCHANGED <<session, lastSent, conn, asked, requests, sender>> => SendInv'
           /\ UNCHANGED <<reader, events, unread, mark, faults, up>> => ReadInv'
           /\ UNCHANGED <<upward, downward, queue>> => WireInv'
           /\ UNCHANGED <<client, tasks>> => DaemonInv'
  BY DEF SsInv, SendInv, ReadInv, WireInv, DaemonInv

\* An event reaches the main thread.
LEMMA Reported ==
    ASSUME SsInv, NEW e \in Epochs, NEW what \in Reports, Report(e, what)
    PROVE  events' \in [Epochs -> Seq(Reports)]
  BY PutInto DEF Report, SsInv, ReadInv

\* Bump and Ask.
LEMMA MainKeepsInv ==
    ASSUME SsInv, Bump \/ Ask PROVE SsInv'
  <1> USE DEF daemonVars
  <1>1. ReadInv' /\ WireInv' /\ DaemonInv'
    <2>1. WireInv' /\ DaemonInv'
      BY PartsAside DEF Bump, Ask
    <2>2. UNCHANGED <<reader, events, faults, up>> /\ ((unread' = unread /\ mark' = mark) \/ (unread' = {} /\ mark' = 0))
      BY DEF Bump, Ask
    <2> QED
      BY <2>1, <2>2 DEF SsInv, ReadInv
  <1>2. CASE Bump
    BY <1>1, <1>2, SearchAssumption DEF Bump, SsInv, SendInv, Epochs
  <1>3. CASE Ask
    <2>1. /\ asked[session] < MaxSends /\ asked' = [asked EXCEPT ![session] = @ + 1]
          /\ requests' = Append(requests, session) /\ UNCHANGED <<session, sender, conn, lastSent>>
      BY <1>3 DEF Ask
    <2>2. asked' \in [Epochs -> 0..MaxSends]
      BY <2>1, SearchAssumption DEF SsInv, SendInv
    <2>3. requests' \in Seq(Epochs)
      BY <2>1, AppendProperties DEF SsInv, SendInv
    <2> QED
      BY <1>1, <2>1, <2>2, <2>3 DEF SsInv, SendInv
  <1> QED
    BY <1>2, <1>3

\* GiveUp: the sending thread is idle, and says so if the search is still wanted.
LEMMA GivenUp ==
    ASSUME SsInv, GiveUp
    PROVE  sender' \in SenderStates /\ sender'.at = "idle" /\ events' \in [Epochs -> Seq(Reports)]
  <1>1. sender' \in SenderStates /\ sender'.at = "idle"
    BY SearchAssumption DEF GiveUp, Idle, SenderStates
  <1>2. events' \in [Epochs -> Seq(Reports)]
    <2>1. CASE sender.epoch = session
      <3>1. Report(session, "failed") /\ session \in Epochs
        BY <2>1 DEF GiveUp, SsInv, SendInv
      <3> QED
        BY <3>1, Reported DEF Reports
    <2>2. CASE sender.epoch # session
      BY <2>2 DEF GiveUp, SsInv, ReadInv
    <2> QED
      BY <2>1, <2>2
  <1> QED
    BY <1>1, <1>2

\* A sending thread that goes on with its request.
LEMMA SenderMoves ==
    ASSUME SsInv, sender.at # "idle", NEW where \in {"check", "write"}, NEW n \in 0..1,
           sender' = [sender EXCEPT !.at = where, !.tries = n]
    PROVE  sender' \in SenderStates /\ sender'.at = where /\ sender'.epoch \in Epochs
  <1>1. sender \in SenderStates /\ sender.epoch \in Epochs
    BY DEF SsInv, SendInv
  <1> QED
    BY <1>1 DEF SenderStates

\* A step of one connection leaves the searches of the others alone.
LEMMA OneConnection ==
    ASSUME SsInv, NEW c \in Conns, NEW k, NEW s, SlotInv(k, s),
           client' = [client EXCEPT ![c] = k], tasks' = [tasks EXCEPT ![c] = s]
    PROVE  DaemonInv'
  <1>1. client' \in [Conns -> ClientStates] /\ tasks' \in [Conns -> SUBSET Searches]
    <2>1. k \in ClientStates /\ s \in SUBSET Searches
      BY DEF SlotInv
    <2> QED
      BY <2>1 DEF SsInv, DaemonInv
  <1>2. client'[c] = k /\ tasks'[c] = s /\ \A d \in Conns : d # c => client'[d] = client[d] /\ tasks'[d] = tasks[d]
    BY DEF SsInv, DaemonInv
  <1>3. \A d \in Conns : SlotInv(client[d], tasks[d])
    BY DEF SsInv, DaemonInv
  <1>4. ASSUME NEW d \in Conns PROVE SlotInv(client'[d], tasks'[d])
    <2>1. CASE d = c
      BY <1>2, <2>1
    <2>2. CASE d # c
      BY <1>2, <1>3, <2>2
    <2> QED
      BY <2>1, <2>2
  <1> QED
    BY <1>1, <1>4 DEF DaemonInv

\* The sending thread takes a request, looks at its connection and writes.
LEMMA SenderKeepsInv ==
    ASSUME SsInv, Sender PROVE SsInv'
  <1> USE DEF daemonVars
  <1>1. CASE TakeRequest
    <2>1. WireInv' /\ DaemonInv'
      BY <1>1, PartsAside DEF TakeRequest
    <2>2. /\ requests # <<>> /\ requests' = Tail(requests) /\ UNCHANGED <<session, asked, conn>>
          /\ \/ UNCHANGED <<sender, lastSent>>
             \/ /\ lastSent' = Head(requests)
                /\ sender' = [at |-> "check", epoch |-> Head(requests), tries |-> 0]
      BY <1>1 DEF TakeRequest
    <2>3. Head(requests) \in Epochs /\ Tail(requests) \in Seq(Epochs)
      BY <2>2, HeadTailProperties DEF SsInv, SendInv
    <2>4. SendInv'
      <3>1. CASE UNCHANGED <<sender, lastSent>>
        BY <2>2, <2>3, <3>1 DEF SsInv, SendInv
      <3>2. CASE /\ lastSent' = Head(requests)
                 /\ sender' = [at |-> "check", epoch |-> Head(requests), tries |-> 0]
        <4>1. Head(requests) \in 0..MaxEpoch
          BY <2>3 DEF Epochs
        <4>2. sender' \in SenderStates /\ sender'.at = "check" /\ sender'.epoch = Head(requests)
          BY <3>2, <4>1 DEF SenderStates
        <4> QED
          BY <2>2, <2>3, <3>2, <4>1, <4>2 DEF SsInv, SendInv
      <3> QED
        BY <2>2, <3>1, <3>2
    <2>5. ReadInv'
      <3>1. UNCHANGED <<reader, events, faults, up>>
        BY <1>1 DEF TakeRequest
      <3>2. /\ unread' = unread \/ unread' = unread \ {Head(requests)}
            /\ mark' = mark \/ mark' = Len(events[Head(requests)])
        BY <1>1 DEF TakeRequest
      <3>3. Len(events[Head(requests)]) \in Nat
        BY <2>3 DEF SsInv, ReadInv
      <3> QED
        BY <3>1, <3>2, <3>3 DEF SsInv, ReadInv
    <2> QED
      BY <2>1, <2>4, <2>5 DEF SsInv
  <1>2. CASE CheckConn
    <2>1. WireInv'
      BY <1>2, PartsAside DEF CheckConn
    <2>2. /\ sender.at = "check" /\ sender.at # "idle"
          /\ UNCHANGED <<session, asked, requests, lastSent, unread, mark, faults, up, tasks>>
      BY <1>2 DEF CheckConn
    <2>3. CASE sender' = [sender EXCEPT !.at = "write"]
      <3>1. sender.tries \in 0..1 /\ sender' = [sender EXCEPT !.at = "write", !.tries = sender.tries]
        BY <2>3 DEF SsInv, SendInv, SenderStates
      <3>2. sender' \in SenderStates /\ sender'.at = "write" /\ sender'.epoch \in Epochs
        BY <2>2, <3>1, SenderMoves
      <3>3. CASE ConnAlive(conn) /\ UNCHANGED <<conn, reader, client, events>>
        <4>1. ReadInv' /\ DaemonInv'
          BY <2>2, <3>3, PartsAside
        <4>2. conn \in Conns
          BY <3>3 DEF ConnAlive, SsInv, SendInv, Conns
        <4> QED
          BY <2>1, <2>2, <3>2, <3>3, <4>1, <4>2 DEF SsInv, SendInv
      <3>4. ASSUME NEW c \in Conns, client[c].at = "none", Connect(c), UNCHANGED events PROVE SsInv'
        <4>1. conn' = c /\ reader' = [reader EXCEPT ![c].at = "reading"] /\ client' = [client EXCEPT ![c].at = "loop"]
          BY <3>4 DEF Connect
        <4>2. reader[c] \in ReaderStates /\ reader \in [Conns -> ReaderStates]
          BY DEF SsInv, ReadInv
        <4>3. [reader[c] EXCEPT !.at = "reading"] \in ReaderStates
          BY <4>2 DEF ReaderStates
        <4>4. reader' \in [Conns -> ReaderStates]
          BY <4>1, <4>2, <4>3
        <4>5. ReadInv'
          BY <2>2, <3>4, <4>4 DEF SsInv, ReadInv
        <4> DEFINE k == [client[c] EXCEPT !.at = "loop"]
        <4>6. SlotInv(client[c], tasks[c])
          BY DEF SsInv, DaemonInv
        <4>7. k \in ClientStates /\ k.at = "loop" /\ k.slot = client[c].slot /\ k.next = client[c].next
          BY <4>6 DEF SlotInv, ClientStates
        <4>8. client' = [client EXCEPT ![c] = k] /\ tasks' = [tasks EXCEPT ![c] = tasks[c]]
          BY <2>2, <4>1 DEF SsInv, DaemonInv
        <4> HIDE DEF k
        <4>9. SlotInv(k, tasks[c])
          BY <4>6, <4>7 DEF SlotInv
        <4>10. DaemonInv'
          BY <4>8, <4>9, OneConnection
        <4>11. SendInv'
          BY <2>2, <3>2, <4>1 DEF SsInv, SendInv, Conns
        <4> QED
          BY <2>1, <4>5, <4>10, <4>11 DEF SsInv
      <3>5. CASE sender' = Idle
        BY <3>2, <3>5 DEF Idle
      <3> QED
        BY <1>2, <3>3, <3>4, <3>5 DEF CheckConn, GiveUp
    <2>4. CASE conn' = 0 /\ GiveUp /\ UNCHANGED <<reader, client>>
      <3>1. sender' \in SenderStates /\ sender'.at = "idle" /\ events' \in [Epochs -> Seq(Reports)]
        BY <2>4, GivenUp
      <3>2. SendInv'
        BY <2>2, <2>4, <3>1, SearchAssumption DEF SsInv, SendInv
      <3>3. ReadInv'
        BY <2>2, <2>4, <3>1 DEF SsInv, ReadInv
      <3>4. DaemonInv'
        BY <2>2, <2>4, PartsAside
      <3> QED
        BY <2>1, <3>2, <3>3, <3>4 DEF SsInv
    <2> QED
      BY <1>2, <2>3, <2>4 DEF CheckConn
  <1>3. CASE WriteSearch
    <2>1. DaemonInv'
      BY <1>3, PartsAside DEF WriteSearch
    <2>2. /\ sender.at = "write" /\ sender.at # "idle" /\ sender.epoch \in Epochs /\ conn \in Conns
          /\ UNCHANGED <<session, asked, requests, lastSent, mark, reader, downward, faults, up, queue>>
      BY <1>3 DEF WriteSearch, SsInv, SendInv
    <2>3. CASE client[conn].at # "closed"
      <3>1. /\ upward' = [upward EXCEPT ![conn] = Append(@, sender.epoch)]
            /\ unread' = IF reader[conn].at = "reading" THEN unread ELSE unread \cup {sender.epoch}
            /\ sender' = Idle /\ UNCHANGED <<conn, events>>
        BY <1>3, <2>3 DEF WriteSearch
      <3>2. upward' \in [Conns -> Seq(Epochs)]
        BY <2>2, <3>1, PutInto DEF SsInv, WireInv
      <3>3. unread' \subseteq Epochs
        BY <2>2, <3>1 DEF SsInv, ReadInv
      <3>4. sender' \in SenderStates /\ sender'.at = "idle"
        BY <3>1, SearchAssumption DEF Idle, SenderStates
      <3> QED
        BY <2>1, <2>2, <3>1, <3>2, <3>3, <3>4 DEF SsInv, SendInv, ReadInv, WireInv
    <2>4. CASE client[conn].at = "closed"
      <3>1. /\ conn' = 0 /\ UNCHANGED <<upward, unread>>
            /\ \/ GiveUp
               \/ sender' = [sender EXCEPT !.at = "check", !.tries = 1] /\ UNCHANGED events
        BY <1>3, <2>4 DEF WriteSearch
      <3>2. WireInv'
        BY <2>2, <3>1, PartsAside
      <3>3. CASE GiveUp
        <4>1. sender' \in SenderStates /\ sender'.at = "idle" /\ events' \in [Epochs -> Seq(Reports)]
          BY <3>3, GivenUp
        <4>2. conn' \in 0..MaxConns
          BY <3>1, SearchAssumption
        <4>3. SendInv'
          BY <2>2, <4>1, <4>2 DEF SsInv, SendInv
        <4>4. ReadInv'
          BY <2>2, <3>1, <4>1 DEF SsInv, ReadInv
        <4> QED
          BY <2>1, <3>2, <4>3, <4>4 DEF SsInv
      <3>4. CASE sender' = [sender EXCEPT !.at = "check", !.tries = 1] /\ UNCHANGED events
        <4>1. sender' \in SenderStates /\ sender'.at = "check" /\ sender'.epoch \in Epochs
          BY <2>2, <3>4, SenderMoves
        <4> QED
          BY <2>1, <2>2, <3>1, <3>2, <3>4, <4>1, SearchAssumption DEF SsInv, SendInv, ReadInv
      <3> QED
        BY <3>1, <3>3, <3>4
    <2> QED
      BY <2>3, <2>4
  <1> QED
    BY <1>1, <1>2, <1>3 DEF Sender

--------------------------------------------------------------------------------
(***************************************************************************)
(* The reader of a connection.                                             *)
(***************************************************************************)
\* What a reader holds.
LEMMA ReaderFields ==
    ASSUME SsInv, NEW c \in Conns
    PROVE  /\ reader[c] \in ReaderStates /\ reader[c].at \in {"none", "reading", "leaving", "gone"}
           /\ reader[c].final \in 0..MaxEpoch /\ reader[c].timeout \in 0..MaxEpoch
  <1>1. reader[c] \in ReaderStates
    BY DEF SsInv, ReadInv
  <1> QED
    BY <1>1 DEF ReaderStates

\* Leave: a pending search is reported as failed.
LEMMA Left ==
    ASSUME SsInv, NEW c \in Conns, Leave(c)
    PROVE  reader' \in [Conns -> ReaderStates] /\ events' \in [Epochs -> Seq(Reports)]
  <1> DEFINE failing == Pending(reader[c].final)
             f == IF failing THEN lastSent ELSE reader[c].final
  <1>1. f \in 0..MaxEpoch
    BY ReaderFields DEF SsInv, SendInv
  <1>2. reader[c] \in ReaderStates /\ reader[c].timeout \in 0..MaxEpoch /\ reader \in [Conns -> ReaderStates]
    BY ReaderFields DEF SsInv, ReadInv
  <1>3. reader' = [reader EXCEPT ![c].at = "leaving", ![c].final = f]
    BY DEF Leave
  <1>4. reader' \in [Conns -> ReaderStates]
    <2> DEFINE r == [reader[c] EXCEPT !.at = "leaving", !.final = f]
    <2>1. r \in ReaderStates
      BY <1>1, <1>2 DEF ReaderStates
    <2>2. reader' = [reader EXCEPT ![c] = r]
      BY <1>3
    <2> HIDE DEF r
    <2> QED
      BY <1>2, <2>1, <2>2
  <1>5. events' \in [Epochs -> Seq(Reports)]
    <2>1. CASE failing
      <3>1. Report(lastSent, "failed")
        BY <2>1 DEF Leave
      <3>2. lastSent \in Epochs
        BY <2>1 DEF Pending, SsInv, SendInv
      <3> QED
        BY <3>1, <3>2, Reported DEF Reports
    <2>2. CASE ~failing
      BY <2>2 DEF Leave, SsInv, ReadInv
    <2> QED
      BY <2>1, <2>2
  <1> QED
    BY <1>4, <1>5

\* Deliver: a frame of another session is dropped.
LEMMA Delivered ==
    ASSUME SsInv, NEW c \in Conns, NEW f \in Frames, f.what \in Chunks, Deliver(c, f)
    PROVE  reader' \in [Conns -> ReaderStates] /\ events' \in [Epochs -> Seq(Reports)]
  <1>1. CASE f.epoch # session
    BY <1>1 DEF Deliver, SsInv, ReadInv
  <1>2. CASE f.epoch = session
    <2> DEFINE n == IF f.what = "Final" THEN Max({reader[c].final, f.epoch}) ELSE reader[c].final
    <2>1. Report(f.epoch, f.what) /\ reader' = [reader EXCEPT ![c].final = n]
      BY <1>2 DEF Deliver
    <2>2. f.epoch \in Epochs /\ f.what \in Reports /\ f.epoch \in 0..MaxEpoch
      BY <1>2 DEF SsInv, SendInv, Reports, Frames
    <2>3. reader \in [Conns -> ReaderStates] /\ reader[c] \in ReaderStates /\ reader[c].final \in 0..MaxEpoch
      BY ReaderFields DEF SsInv, ReadInv
    <2>4. Max({reader[c].final, f.epoch}) \in {reader[c].final, f.epoch}
      <3>1. \E x \in {reader[c].final, f.epoch} : \A y \in {reader[c].final, f.epoch} : x >= y
        BY <2>2, <2>3, SearchAssumption
      <3> QED
        BY <3>1 DEF Max
    <2>5. n \in 0..MaxEpoch
      BY <2>2, <2>3, <2>4
    <2> HIDE DEF n
    <2> DEFINE r == [reader[c] EXCEPT !.final = n]
    <2>6. r \in ReaderStates
      BY <2>3, <2>5 DEF ReaderStates
    <2>7. reader' = [reader EXCEPT ![c] = r]
      BY <2>1
    <2> HIDE DEF r
    <2> QED
      BY <2>1, <2>2, <2>3, <2>6, <2>7, Reported
  <1> QED
    BY <1>1, <1>2

\* A frame is read, the end of the stream is, the watchdog fires, the guard drops.
LEMMA ReaderKeepsInv ==
    ASSUME SsInv, NEW c \in Conns, Reader(c) PROVE SsInv'
  <1> USE DEF daemonVars
  <1>1. SendInv' /\ DaemonInv'
    BY PartsAside DEF Reader, ReadFrame, ReadEof, Watchdog, DropGuard
  <1>2. /\ UNCHANGED <<unread, mark, upward, queue, faults, up>>
        /\ reader \in [Conns -> ReaderStates] /\ events \in [Epochs -> Seq(Reports)]
    BY DEF Reader, ReadFrame, ReadEof, Watchdog, DropGuard, SsInv, ReadInv
  <1>3. ASSUME reader' \in [Conns -> ReaderStates], events' \in [Epochs -> Seq(Reports)] PROVE ReadInv'
    BY <1>2, <1>3 DEF SsInv, ReadInv
  <1>4. CASE ReadFrame(c)
    <2> DEFINE f == Head(downward[c])
    <2>1. downward[c] # <<>> /\ downward' = [downward EXCEPT ![c] = Tail(@)] /\ downward \in [Conns -> Seq(Frames)]
      BY <1>4 DEF ReadFrame, SsInv, WireInv
    <2>2. f \in Frames /\ downward' \in [Conns -> Seq(Frames)]
      BY <2>1, TakenFrom
    <2>3. WireInv'
      BY <1>2, <2>2 DEF SsInv, WireInv
    <2>4. f.what \in Chunks \cup {"Cancelled", "bad"}
      BY <2>2 DEF Frames
    <2>5. CASE f.what \in Chunks
      <3>1. Deliver(c, f)
        BY <1>4, <2>5 DEF ReadFrame, Chunks
      <3> QED
        BY <1>1, <1>3, <2>2, <2>3, <2>5, <3>1, Delivered DEF SsInv
    <2>6. CASE f.what = "Cancelled"
      <3>1. UNCHANGED <<reader, events>>
        BY <1>4, <2>6 DEF ReadFrame
      <3> QED
        BY <1>1, <1>2, <1>3, <2>3, <3>1 DEF SsInv
    <2>7. CASE f.what = "bad"
      <3>1. Leave(c)
        BY <1>4, <2>7 DEF ReadFrame
      <3> QED
        BY <1>1, <1>3, <2>3, <3>1, Left DEF SsInv
    <2> QED
      BY <2>4, <2>5, <2>6, <2>7
  <1>5. CASE ReadEof(c)
    <2>1. Leave(c) /\ WireInv'
      BY <1>5, PartsAside DEF ReadEof
    <2> QED
      BY <1>1, <1>3, <2>1, Left DEF SsInv
  <1>6. CASE Watchdog(c)
    <2>1. /\ lastSent = session /\ Report(lastSent, "timeout") /\ WireInv'
          /\ reader' = [reader EXCEPT ![c].timeout = lastSent]
      BY <1>6, PartsAside DEF Watchdog, Pending
    <2>2. lastSent \in Epochs /\ lastSent \in 0..MaxEpoch
      BY <2>1 DEF SsInv, SendInv
    <2> DEFINE r == [reader[c] EXCEPT !.timeout = lastSent]
    <2>3. r \in ReaderStates
      BY <2>2, ReaderFields DEF ReaderStates
    <2>4. reader' = [reader EXCEPT ![c] = r]
      BY <2>1
    <2> HIDE DEF r
    <2>5. reader' \in [Conns -> ReaderStates]
      BY <1>2, <2>3, <2>4
    <2>6. events' \in [Epochs -> Seq(Reports)]
      BY <2>1, <2>2, Reported DEF Reports
    <2> QED
      BY <1>1, <1>3, <2>1, <2>5, <2>6 DEF SsInv
  <1>7. CASE DropGuard(c)
    <2>1. reader' = [reader EXCEPT ![c].at = "gone"] /\ UNCHANGED events /\ WireInv'
      BY <1>7, PartsAside DEF DropGuard
    <2> DEFINE r == [reader[c] EXCEPT !.at = "gone"]
    <2>2. r \in ReaderStates
      BY ReaderFields DEF ReaderStates
    <2>3. reader' = [reader EXCEPT ![c] = r]
      BY <2>1
    <2> HIDE DEF r
    <2>4. reader' \in [Conns -> ReaderStates]
      BY <1>2, <2>2, <2>3
    <2> QED
      BY <1>1, <1>2, <1>3, <2>1, <2>4 DEF SsInv
  <1> QED
    BY <1>4, <1>5, <1>6, <1>7 DEF Reader

--------------------------------------------------------------------------------
(***************************************************************************)
(* The daemon.                                                             *)
(***************************************************************************)
\* What is known of a connection.
LEMMA SlotKnown ==
    ASSUME SsInv, NEW c \in Conns
    PROVE  /\ SlotInv(client[c], tasks[c])
           /\ client[c].slot \in Slots /\ client[c].slot.gen \in Nat /\ client[c].next \in Nat
           /\ client[c].slot.epoch \in 0..MaxEpoch /\ tasks[c] \subseteq Searches
  <1>1. SlotInv(client[c], tasks[c])
    BY DEF SsInv, DaemonInv
  <1>2. client[c] \in ClientStates /\ tasks[c] \subseteq Searches
    BY <1>1 DEF SlotInv
  <1>3. client[c].slot \in Slots /\ client[c].next \in Nat
    BY <1>2 DEF ClientStates
  <1> QED
    BY <1>1, <1>2, <1>3 DEF Slots

\* TakeSearch: the search of the slot is told to stop, so none may run on while the
\* next one is installed.
LEMMA TakeKeepsInv ==
    ASSUME SsInv, NEW c \in Conns, TakeSearch(c) PROVE SsInv'
  <1> DEFINE k == [client[c] EXCEPT !.at = "install", !.request = Head(upward[c])]
             Told(t) == [t EXCEPT !.cancelled = t.cancelled \/ t.gen = client[c].slot.gen]
             s == {Told(t) : t \in tasks[c]}
  <1>1. SendInv' /\ ReadInv'
    BY PartsAside DEF TakeSearch, launcherVars
  <1>2. /\ upward[c] # <<>> /\ upward' = [upward EXCEPT ![c] = Tail(@)] /\ UNCHANGED <<downward, queue>>
        /\ client' = [client EXCEPT ![c] = k] /\ tasks' = [tasks EXCEPT ![c] = s]
    BY DEF TakeSearch
  <1>3. Head(upward[c]) \in Epochs /\ upward' \in [Conns -> Seq(Epochs)]
    BY <1>2, TakenFrom DEF SsInv, WireInv
  <1>4. WireInv'
    BY <1>2, <1>3 DEF SsInv, WireInv
  <1>5. SlotInv(client[c], tasks[c])
    BY SlotKnown
  <1>6. Head(upward[c]) \in 0..MaxEpoch
    BY <1>3 DEF Epochs
  <1>7. /\ k \in ClientStates /\ k.at = "install" /\ k.request \in Epochs
        /\ k.slot = client[c].slot /\ k.next = client[c].next
    BY <1>3, <1>5, <1>6 DEF SlotInv, ClientStates
  <1>8. ASSUME NEW t \in tasks[c]
        PROVE  /\ Told(t) \in Searches /\ Told(t).gen = t.gen /\ Told(t).at = t.at /\ Told(t).sending = t.sending
               /\ Told(t).cancelled
    <2>1. t \in Searches /\ (~t.cancelled => t.gen = client[c].slot.gen)
      BY <1>5 DEF SlotInv
    <2> DEFINE b == t.cancelled \/ t.gen = client[c].slot.gen
    <2>2. b = TRUE
      BY <2>1
    <2> HIDE DEF b
    <2>3. Told(t) = [t EXCEPT !.cancelled = TRUE]
      BY <2>2 DEF b
    <2> HIDE DEF Told
    <2>4. Told(t) \in Searches
      BY <2>1, <2>3 DEF Searches
    <2> QED
      BY <2>1, <2>3, <2>4 DEF Searches
  <1> HIDE DEF k
  <1>9. SlotInv(k, s)
    <2>1. k \in ClientStates /\ k.slot.gen <= k.next /\ (k.at = "install" => k.request \in Epochs)
      BY <1>5, <1>7 DEF SlotInv
    <2>2. ASSUME NEW t \in s PROVE t \in Searches /\ t.gen <= k.next /\ (t.sending => t.at \in Chunks) /\ t.cancelled
      <3>1. PICK t0 \in tasks[c] : t = Told(t0)
        OBVIOUS
      <3> HIDE DEF Told
      <3>2. t0.gen <= client[c].next /\ (t0.sending => t0.at \in Chunks)
        BY <1>5 DEF SlotInv
      <3> QED
        BY <1>7, <1>8, <3>1, <3>2
    <2>3. ASSUME NEW t \in s, NEW u \in s, t.gen = u.gen PROVE t = u
      <3>1. PICK t0 \in tasks[c], u0 \in tasks[c] : t = Told(t0) /\ u = Told(u0)
        OBVIOUS
      <3> HIDE DEF Told
      <3>2. t0.gen = u0.gen
        BY <1>8, <2>3, <3>1
      <3>3. t0 = u0
        BY <1>5, <3>2 DEF SlotInv
      <3> QED
        BY <3>1, <3>3
    <2> HIDE DEF s
    <2> QED
      BY <2>1, <2>2, <2>3 DEF SlotInv
  <1> HIDE DEF s
  <1>10. DaemonInv'
    BY <1>2, <1>9, OneConnection
  <1> QED
    BY <1>1, <1>4, <1>10 DEF SsInv

\* A queue of responses that has room takes one more.
LEMMA ResponseQueued ==
    ASSUME SsInv, NEW c \in Conns, Room(c), NEW x \in Frames, queue' = [queue EXCEPT ![c] = Append(@, x)],
           UNCHANGED <<upward, downward>>
    PROVE  WireInv'
  <1>1. queue \in [Conns -> Seq(Frames)] /\ Len(queue[c]) < WriteCap /\ \A d \in Conns : Len(queue[d]) <= WriteCap
    BY DEF SsInv, WireInv, Room
  <1>2. queue' \in [Conns -> Seq(Frames)] /\ Len(queue'[c]) = Len(queue[c]) + 1
    BY <1>1, PutInto
  <1>3. \A d \in Conns : d # c => queue'[d] = queue[d]
    BY <1>1
  <1>4. Len(queue[c]) \in Nat
    <2>1. queue[c] \in Seq(Frames)
      BY <1>1
    <2> QED
      BY <2>1, LenProperties
  <1>5. \A d \in Conns : Len(queue'[d]) <= WriteCap
    BY <1>1, <1>2, <1>3, <1>4, SearchAssumption
  <1> QED
    BY <1>2, <1>5 DEF SsInv, WireInv

\* InstallSearch: the new search has a generation no other has had.
LEMMA InstallKeepsInv ==
    ASSUME SsInv, NEW c \in Conns, InstallSearch(c) PROVE SsInv'
  <1> DEFINE g == client[c].next + 1
             r == client[c].request
             k == [at |-> "loop", next |-> g, request |-> 0, slot |-> [gen |-> g, epoch |-> r]]
             n == [gen |-> g, epoch |-> r, cancelled |-> FALSE,
                   at |-> IF Hybrid THEN "Initial" ELSE "Final", sending |-> FALSE]
             s == tasks[c] \cup {n}
  <1>1. SendInv' /\ ReadInv'
    BY PartsAside DEF InstallSearch, launcherVars
  <1>2. /\ client[c].at = "install" /\ UNCHANGED <<upward, downward>>
        /\ \/ UNCHANGED queue
           \/ Room(c) /\ queue' = [queue EXCEPT ![c] = Append(@, [what |-> "Cancelled", epoch |-> client[c].slot.epoch])]
        /\ client' = [client EXCEPT ![c] = k] /\ tasks' = [tasks EXCEPT ![c] = s]
    BY DEF InstallSearch
  <1>3. /\ SlotInv(client[c], tasks[c]) /\ client[c].slot.gen \in Nat /\ client[c].next \in Nat
        /\ client[c].slot.epoch \in 0..MaxEpoch
    BY SlotKnown
  <1>4. [what |-> "Cancelled", epoch |-> client[c].slot.epoch] \in Frames
    BY <1>3 DEF Frames
  <1>5. WireInv'
    BY <1>2, <1>4, ResponseQueued, PartsAside
  <1>6. r \in Epochs /\ r \in 0..MaxEpoch /\ g \in Nat
    BY <1>2, <1>3 DEF SlotInv, Epochs
  <1>7. /\ k \in ClientStates /\ k.at = "loop" /\ k.slot.gen = g /\ k.next = g
        /\ n \in Searches /\ n.gen = g /\ n.sending = FALSE
    <2> HIDE DEF g, r
    <2>1. k \in ClientStates /\ k.at = "loop" /\ k.slot.gen = g /\ k.next = g
      BY <1>6, SearchAssumption DEF ClientStates, Slots
    <2>2. n \in Searches /\ n.gen = g /\ n.sending = FALSE
      BY <1>6 DEF Searches, Chunks
    <2> QED
      BY <2>1, <2>2
  <1>8. \A t \in tasks[c] : /\ t \in Searches /\ t.gen \in Nat /\ t.gen <= client[c].next /\ t.cancelled
                            /\ (t.sending => t.at \in Chunks)
    BY <1>2, <1>3 DEF SlotInv, Searches
  <1>9. \A t \in tasks[c] : t.gen < g
    BY <1>3, <1>8
  <1>10. \A t, u \in tasks[c] : t.gen = u.gen => t = u
    BY <1>3 DEF SlotInv
  <1> HIDE DEF k, n, g, r
  <1>11. SlotInv(k, s)
    BY <1>6, <1>7, <1>8, <1>9, <1>10 DEF SlotInv
  <1> HIDE DEF s
  <1>12. DaemonInv'
    BY <1>2, <1>11, OneConnection
  <1> QED
    BY <1>1, <1>5, <1>12 DEF SsInv

\* A search that goes on keeps its generation.
LEMMA SearchGoesOn ==
    ASSUME SsInv, NEW c \in Conns, NEW t \in tasks[c], NEW u \in Searches, u.gen = t.gen,
           ~u.cancelled => ~t.cancelled, u.sending => u.at \in Chunks,
           UNCHANGED client, Becomes(c, t, {u})
    PROVE  DaemonInv'
  <1> DEFINE s == (tasks[c] \ {t}) \cup {u}
  <1>1. SlotInv(client[c], tasks[c]) /\ u.gen <= client[c].next
    BY SlotKnown DEF SlotInv
  <1>2. SlotInv(client[c], s)
    <2>1. \A a \in s : a \in Searches /\ a.gen <= client[c].next /\ (a.sending => a.at \in Chunks)
      BY <1>1 DEF SlotInv
    <2>2. \A a \in s : ~a.cancelled => a.gen = client[c].slot.gen /\ client[c].at # "install"
      BY <1>1 DEF SlotInv
    <2>3. ASSUME NEW a \in s, NEW b \in s, a.gen = b.gen PROVE a = b
      <3>1. \A x \in tasks[c] : x.gen = t.gen => x = t
        BY <1>1 DEF SlotInv
      <3>2. CASE a = u /\ b = u
        BY <3>2
      <3>3. CASE a # u /\ b # u
        <4>1. a \in tasks[c] /\ b \in tasks[c]
          BY <3>3
        <4> QED
          BY <1>1, <2>3, <4>1 DEF SlotInv
      <3>4. CASE a = u /\ b # u
        <4>1. b \in tasks[c] /\ b # t
          BY <3>4
        <4> QED
          BY <2>3, <3>1, <3>4, <4>1
      <3>5. CASE a # u /\ b = u
        <4>1. a \in tasks[c] /\ a # t
          BY <3>5
        <4> QED
          BY <2>3, <3>1, <3>5, <4>1
      <3> QED
        BY <3>2, <3>3, <3>4, <3>5
    <2> HIDE DEF s
    <2> QED
      BY <1>1, <2>1, <2>2, <2>3 DEF SlotInv
  <1>3. tasks' = [tasks EXCEPT ![c] = s] /\ client' = [client EXCEPT ![c] = client[c]]
    BY DEF Becomes, SsInv, DaemonInv
  <1> HIDE DEF s
  <1> QED
    BY <1>2, <1>3, OneConnection

\* A search that ends without emptying the slot.
LEMMA SearchEnds ==
    ASSUME SsInv, NEW c \in Conns, NEW t \in tasks[c], UNCHANGED client, Becomes(c, t, {})
    PROVE  DaemonInv'
  <1> DEFINE s == tasks[c] \ {t}
  <1>1. SlotInv(client[c], s)
    BY SlotKnown DEF SlotInv
  <1>2. tasks' = [tasks EXCEPT ![c] = s] /\ client' = [client EXCEPT ![c] = client[c]]
    BY DEF Becomes, SsInv, DaemonInv
  <1> HIDE DEF s
  <1> QED
    BY <1>1, <1>2, OneConnection

\* handle_search, from a chunk that is ready to the end of the search.
LEMMA SearchKeepsInv ==
    ASSUME SsInv, NEW c \in Conns, SearchTask(c) PROVE SsInv'
  <1>1. PICK t \in tasks[c] : ChunkReady(c, t) \/ SendChunk(c, t) \/ SearchFails(c, t) \/ ClearSlot(c, t)
    BY DEF SearchTask
  <1>2. SendInv' /\ ReadInv'
    BY <1>1, PartsAside DEF ChunkReady, SendChunk, SearchFails, ClearSlot, launcherVars
  <1>3. t \in Searches /\ SlotInv(client[c], tasks[c]) /\ (t.sending => t.at \in Chunks)
    BY SlotKnown DEF SlotInv
  <1>4. t.at \in Chunks \cup {"clear"} /\ t.epoch \in 0..MaxEpoch
    BY <1>3 DEF Searches, Epochs
  <1>5. CASE ChunkReady(c, t)
    <2>1. WireInv' /\ UNCHANGED client /\ t.at \in Chunks
      BY <1>5, PartsAside DEF ChunkReady, Chunks
    <2>2. CASE t.cancelled
      <3>1. Becomes(c, t, {})
        BY <1>5, <2>2 DEF ChunkReady
      <3> QED
        BY <1>2, <2>1, <3>1, SearchEnds DEF SsInv
    <2>3. CASE ~t.cancelled
      <3> DEFINE u == [t EXCEPT !.sending = TRUE]
      <3>1. Becomes(c, t, {u})
        BY <1>5, <2>3 DEF ChunkReady
      <3>2. u \in Searches /\ u.gen = t.gen /\ u.at = t.at
        BY <1>3 DEF Searches
      <3> HIDE DEF u
      <3> QED
        BY <1>2, <2>1, <2>3, <3>1, <3>2, SearchGoesOn DEF SsInv
    <2> QED
      BY <2>2, <2>3
  <1>6. CASE SendChunk(c, t)
    <2> DEFINE u == [t EXCEPT !.sending = FALSE, !.at = IF @ = "Initial" THEN "Final" ELSE "clear"]
               f == [what |-> t.at, epoch |-> t.epoch]
    <2>1. /\ t.sending /\ Room(c) /\ queue' = [queue EXCEPT ![c] = Append(@, f)] /\ Becomes(c, t, {u})
          /\ UNCHANGED <<upward, downward, client>>
      BY <1>6 DEF SendChunk
    <2>2. f \in Frames
      BY <1>4, <1>3, <2>1 DEF Frames
    <2>3. u \in Searches /\ u.gen = t.gen /\ u.sending = FALSE /\ u.cancelled = t.cancelled
      BY <1>3 DEF Searches, Chunks
    <2> HIDE DEF u, f
    <2>4. WireInv'
      BY <2>1, <2>2, ResponseQueued
    <2>5. DaemonInv'
      BY <2>1, <2>3, SearchGoesOn
    <2> QED
      BY <1>2, <2>4, <2>5 DEF SsInv
  <1>7. CASE SearchFails(c, t)
    <2>1. WireInv' /\ UNCHANGED client /\ ~t.sending
      BY <1>7, PartsAside DEF SearchFails
    <2> DEFINE u == [t EXCEPT !.at = "clear"]
    <2>2. Becomes(c, t, {}) \/ Becomes(c, t, {u})
      BY <1>7 DEF SearchFails
    <2>3. u \in Searches /\ u.gen = t.gen /\ u.sending = t.sending /\ u.cancelled = t.cancelled
      BY <1>3 DEF Searches
    <2> HIDE DEF u
    <2>4. DaemonInv'
      BY <2>1, <2>2, <2>3, SearchEnds, SearchGoesOn
    <2> QED
      BY <1>2, <2>1, <2>4 DEF SsInv
  <1>8. CASE ClearSlot(c, t)
    <2> DEFINE s == tasks[c] \ {t}
    <2>1. WireInv' /\ client[c].at # "install" /\ tasks' = [tasks EXCEPT ![c] = s]
      BY <1>8, PartsAside DEF ClearSlot, Becomes
    <2>2. CASE client[c].slot.gen = t.gen
      <3> DEFINE k == [client[c] EXCEPT !.slot = NoSlot]
      <3>1. client' = [client EXCEPT ![c] = k]
        BY <1>8, <2>2 DEF ClearSlot
      <3>2. NoSlot \in Slots /\ NoSlot.gen = 0
        BY SearchAssumption DEF NoSlot, Slots
      <3>3. k \in ClientStates /\ k.slot = NoSlot /\ k.next = client[c].next /\ k.at = client[c].at
        BY <1>3, <3>2 DEF SlotInv, ClientStates
      <3>4. \A a \in s : a.cancelled
        BY <1>3, <2>2 DEF SlotInv
      <3> HIDE DEF k
      <3>5. SlotInv(k, s)
        BY <1>3, <2>1, <3>2, <3>3, <3>4, SlotKnown DEF SlotInv
      <3> HIDE DEF s
      <3> QED
        BY <1>2, <2>1, <3>1, <3>5, OneConnection DEF SsInv
    <2>3. CASE client[c].slot.gen # t.gen
      <3>1. client' = client
        <4>1. client \in [Conns -> ClientStates] /\ client[c] \in ClientStates
          BY DEF SsInv, DaemonInv
        <4>2. client' = [client EXCEPT ![c].slot = client[c].slot]
          BY <1>8, <2>3 DEF ClearSlot
        <4> QED
          BY <4>1, <4>2 DEF ClientStates
      <3>2. Becomes(c, t, {})
        BY <1>8 DEF ClearSlot
      <3> QED
        BY <1>2, <2>1, <3>1, <3>2, SearchEnds DEF SsInv
    <2> QED
      BY <2>2, <2>3
  <1> QED
    BY <1>1, <1>5, <1>6, <1>7, <1>8

\* writer_task: a response goes onto the wire, or a frame that cannot be decoded.
LEMMA WriterKeepsInv ==
    ASSUME SsInv, NEW c \in Conns, WriteResponse(c) PROVE SsInv'
  <1>1. SendInv' /\ DaemonInv'
    BY PartsAside DEF WriteResponse, launcherVars
  <1>2. /\ queue[c] # <<>> /\ queue' = [queue EXCEPT ![c] = Tail(@)] /\ UNCHANGED <<upward, up, reader, events, unread, mark>>
        /\ \/ downward' = [downward EXCEPT ![c] = Append(@, Head(queue[c]))] /\ UNCHANGED faults
           \/ /\ faults < MaxFaults /\ faults' = faults + 1
              /\ downward' = [downward EXCEPT ![c] = Append(@, [what |-> "bad", epoch |-> 0])]
    BY DEF WriteResponse, launcherVars
  <1>3. /\ queue \in [Conns -> Seq(Frames)] /\ downward \in [Conns -> Seq(Frames)]
        /\ \A d \in Conns : Len(queue[d]) <= WriteCap
    BY DEF SsInv, WireInv
  <1>4. /\ queue' \in [Conns -> Seq(Frames)] /\ Head(queue[c]) \in Frames /\ Len(queue'[c]) <= Len(queue[c])
        /\ \A d \in Conns : d # c => queue'[d] = queue[d]
    BY <1>2, <1>3, TakenFrom
  <1>5. \A d \in Conns : Len(queue'[d]) <= WriteCap
    <2>1. Len(queue'[c]) \in Nat /\ Len(queue[c]) \in Nat
      <3>1. queue[c] \in Seq(Frames) /\ queue'[c] \in Seq(Frames)
        BY <1>3, <1>4
      <3> QED
        BY <3>1, LenProperties
    <2> QED
      BY <1>3, <1>4, <2>1, SearchAssumption
  <1>6. [what |-> "bad", epoch |-> 0] \in Frames
    BY SearchAssumption DEF Frames
  <1>7. downward' \in [Conns -> Seq(Frames)]
    <2>1. PICK x \in Frames : downward' = [downward EXCEPT ![c] = Append(@, x)]
      BY <1>2, <1>4, <1>6
    <2> QED
      BY <1>3, <2>1, PutInto
  <1>8. WireInv'
    BY <1>2, <1>4, <1>5, <1>7 DEF SsInv, WireInv
  <1>9. ReadInv'
    BY <1>2, SearchAssumption DEF SsInv, ReadInv
  <1> QED
    BY <1>1, <1>8, <1>9 DEF SsInv

\* Connections that close take their searches and queues with them.
LEMMA ClosedKeepsInv ==
    ASSUME SsInv, NEW cs \in SUBSET Conns, Closed(cs), UNCHANGED downward PROVE WireInv' /\ DaemonInv'
  <1> DEFINE k == [NoClient EXCEPT !.at = "closed"]
  <1>1. /\ client' = [c \in Conns |-> IF c \in cs THEN k ELSE client[c]]
        /\ tasks' = [c \in Conns |-> IF c \in cs THEN {} ELSE tasks[c]]
        /\ queue' = [c \in Conns |-> IF c \in cs THEN <<>> ELSE queue[c]]
        /\ upward' = [c \in Conns |-> IF c \in cs THEN <<>> ELSE upward[c]]
    BY DEF Closed
  <1>2. NoClient \in ClientStates /\ NoClient.slot.gen = 0 /\ NoClient.next = 0
    BY SearchAssumption DEF NoClient, NoSlot, ClientStates, Slots
  <1>3. k \in ClientStates /\ k.at = "closed" /\ k.slot.gen <= k.next
    BY <1>2 DEF ClientStates
  <1> HIDE DEF k
  <1>4. SlotInv(k, {})
    BY <1>3 DEF SlotInv
  <1>5. ASSUME NEW c \in Conns PROVE SlotInv(client'[c], tasks'[c])
    BY <1>1, <1>4, SlotKnown
  <1>6. client' \in [Conns -> ClientStates] /\ tasks' \in [Conns -> SUBSET Searches]
    BY <1>1, <1>3 DEF SsInv, DaemonInv
  <1>7. DaemonInv'
    BY <1>5, <1>6 DEF DaemonInv
  <1>8. /\ queue \in [Conns -> Seq(Frames)] /\ upward \in [Conns -> Seq(Epochs)]
        /\ downward \in [Conns -> Seq(Frames)] /\ \A c \in Conns : Len(queue[c]) <= WriteCap
    BY DEF SsInv, WireInv
  <1>9. queue' \in [Conns -> Seq(Frames)] /\ upward' \in [Conns -> Seq(Epochs)]
    <2>1. ASSUME NEW c \in Conns PROVE queue'[c] \in Seq(Frames) /\ upward'[c] \in Seq(Epochs)
      BY <1>1, <1>8
    <2> QED
      BY <1>1, <2>1
  <1>10. ASSUME NEW c \in Conns PROVE Len(queue'[c]) <= WriteCap
    <2>1. Len(<<>>) = 0
      OBVIOUS
    <2> QED
      BY <1>1, <1>8, <2>1, SearchAssumption
  <1>11. WireInv'
    BY <1>8, <1>9, <1>10 DEF WireInv
  <1> QED
    BY <1>7, <1>11

\* A client that is gone, the end of the daemon and its next start.
LEMMA EndsKeepInv ==
    ASSUME SsInv, Die \/ Start \/ (\E c \in Conns : ClientGone(c)) PROVE SsInv'
  <1>1. CASE Die
    <2>1. SendInv'
      BY <1>1, PartsAside DEF Die, launcherVars
    <2>2. ReadInv'
      <3>1. /\ UNCHANGED <<reader, events, unread, mark>> /\ up' = FALSE
            /\ faults < MaxFaults /\ faults' = faults + 1
        BY <1>1 DEF Die, launcherVars
      <3>2. up' \in BOOLEAN
        BY <3>1
      <3>3. faults' \in 0..MaxFaults
        BY <3>1, SearchAssumption DEF SsInv, ReadInv
      <3> QED
        BY <3>1, <3>2, <3>3 DEF SsInv, ReadInv
    <2>3. Closed({c \in Conns : client[c].at # "none"}) /\ UNCHANGED downward
      BY <1>1 DEF Die
    <2>4. {c \in Conns : client[c].at # "none"} \in SUBSET Conns
      OBVIOUS
    <2>5. WireInv' /\ DaemonInv'
      BY <2>3, <2>4, ClosedKeepsInv
    <2> QED
      BY <2>1, <2>2, <2>5 DEF SsInv
  <1>2. CASE Start
    <2>1. SendInv' /\ WireInv' /\ DaemonInv'
      BY <1>2, PartsAside DEF Start, launcherVars, daemonVars
    <2>2. up' \in BOOLEAN
      <3>1. up' = TRUE
        BY <1>2 DEF Start
      <3> QED
        BY <3>1
    <2>3. UNCHANGED <<reader, events, unread, mark, faults>>
      BY <1>2 DEF Start, launcherVars
    <2>4. ReadInv'
      BY <2>2, <2>3 DEF SsInv, ReadInv
    <2> QED
      BY <2>1, <2>4 DEF SsInv
  <1>3. ASSUME NEW c \in Conns, ClientGone(c) PROVE SsInv'
    <2>1. SendInv' /\ ReadInv'
      BY <1>3, PartsAside DEF ClientGone, launcherVars
    <2>2. Closed({c}) /\ UNCHANGED downward
      BY <1>3 DEF ClientGone
    <2>3. WireInv' /\ DaemonInv'
      BY <2>2, ClosedKeepsInv
    <2> QED
      BY <2>1, <2>3 DEF SsInv
  <1> QED
    BY <1>1, <1>2, <1>3

--------------------------------------------------------------------------------
(***************************************************************************)
(* The theorems.                                                           *)
(***************************************************************************)
\* Every step of the launcher's threads, the daemon's tasks and the environment.
LEMMA SsInvStep == SsInv /\ [SsNext]_ssVars => SsInv'
  <1> SUFFICES ASSUME SsInv, [SsNext]_ssVars PROVE SsInv'
    OBVIOUS
  <1>1. CASE UNCHANGED ssVars
    BY <1>1, PartsAside DEF ssVars, launcherVars, daemonVars, SsInv
  <1>2. CASE Bump \/ Ask \/ Sender \/ Die \/ Start
    BY <1>2, MainKeepsInv, SenderKeepsInv, EndsKeepInv
  <1>3. ASSUME NEW c \in Conns, Reader(c) \/ HandleClient(c) \/ SearchTask(c) \/ WriteResponse(c) PROVE SsInv'
    BY <1>3, ReaderKeepsInv, TakeKeepsInv, InstallKeepsInv, EndsKeepInv, SearchKeepsInv, WriterKeepsInv DEF HandleClient
  <1> QED
    BY <1>1, <1>2, <1>3 DEF SsNext

\* SsInv is inductive.
LEMMA SsInvAlways == SsSpec => []SsInv
  BY SsInvInit, SsInvStep, PTL DEF SsSpec

\* The threads of the launcher and the tasks of the daemon keep their types; the
\* responses of a connection never exceed the capacity of write_tx.
THEOREM SearchTyped == SsSpec => []SsTypeOK
  <1>1. SsInv => SsTypeOK
    <2> SUFFICES ASSUME SsInv PROVE SsTypeOK
      OBVIOUS
    <2>1. /\ session \in Epochs /\ lastSent \in 0..MaxEpoch /\ conn \in 0..MaxConns
          /\ asked \in [Epochs -> 0..MaxSends] /\ requests \in Seq(Epochs)
          /\ sender \in [at : {"idle", "check", "write"}, epoch : 0..MaxEpoch, tries : 0..1]
      BY DEF SsInv, SendInv, SenderStates
    <2>2. /\ reader \in [Conns -> [at : {"none", "reading", "leaving", "gone"},
                                   final : 0..MaxEpoch, timeout : 0..MaxEpoch]]
          /\ \A e \in Epochs : events[e] \in Seq(Chunks \cup {"failed", "timeout"})
          /\ unread \subseteq Epochs /\ mark \in Nat /\ faults \in 0..MaxFaults /\ up \in BOOLEAN
      BY DEF SsInv, ReadInv, ReaderStates, Reports
    <2>3. ASSUME NEW c \in Conns
          PROVE  /\ upward[c] \in Seq(Epochs)
                 /\ Len(queue[c]) <= WriteCap
                 /\ client[c].at \in {"none", "loop", "install", "closed"}
                 /\ \A t \in tasks[c] : t.epoch \in Epochs /\ t.at \in Chunks \cup {"clear"}
      <3>1. client[c] \in ClientStates /\ \A t \in tasks[c] : t \in Searches
        BY SlotKnown DEF SlotInv
      <3> QED
        BY <3>1 DEF SsInv, WireInv, ClientStates, Searches
    <2> QED
      BY <2>1, <2>2, <2>3 DEF SsTypeOK
  <1> QED
    BY <1>1, SsInvAlways, PTL

\* Same-connection preemption: of the searches of a connection only the one in the
\* slot has not been told to stop, whatever order they are taken, fail and end in.
THEOREM OneSearchPerConnection == SsSpec => []OnlyTheSlotSearches
  <1>1. SsInv => OnlyTheSlotSearches
    BY SlotKnown DEF SlotInv, OnlyTheSlotSearches
  <1> QED
    BY <1>1, SsInvAlways, PTL

--------------------------------------------------------------------------------
(***************************************************************************)
(* No request is answered twice.  The searches asked for in an epoch are   *)
(* shared out like money in a ledger: one part is with the sending thread, *)
(* its queue and the answers, each connection has a part.  What a          *)
(* connection can still bring, is covered by its part, whatever its queues *)
(* and searches do; a request moves a share to the connection it is        *)
(* written to, a Final that is delivered moves one back to the answers.    *)
(***************************************************************************)
\* How often x is in s, and how often before the i-th.
Occ(s, x)       == Cardinality({j \in DOMAIN s : s[j] = x})
Before(s, i, x) == Cardinality({j \in DOMAIN s : j < i /\ s[j] = x})

FinalOf(e)   == [what |-> "Final", epoch |-> e]
InitialOf(e) == [what |-> "Initial", epoch |-> e]

\* What a connection has on its way down: d on the wire, q in the writer's queue.
FinalsIn(d, q, e) == Occ(d, FinalOf(e)) + Occ(q, FinalOf(e))
InOrder(n, d, q, e) ==
    /\ \A i \in DOMAIN d : d[i] = InitialOf(e) => Before(d, i, FinalOf(e)) < n
    /\ \A i \in DOMAIN q : q[i] = InitialOf(e) => Occ(d, FinalOf(e)) + Before(q, i, FinalOf(e)) < n

\* The searches of epoch e that connection c may still bring a Final of, beside those.
Unfinished(c, e) == {t \in tasks[c] : t.epoch = e /\ t.at \in Chunks}
Installing(c, e) == IF client[c].at = "install" /\ client[c].request = e THEN 1 ELSE 0
Owed(c, e)       == Cardinality(Unfinished(c, e)) + Installing(c, e) + Occ(upward[c], e)

\* A budget of n searches of epoch e covers what connection c may bring: its Finals,
\* and for each Initial the Finals before it and the one that belongs to it, which
\* comes after it or not at all.
Covers(n, c, e) == /\ FinalsIn(downward[c], queue[c], e) + Owed(c, e) <= n
                   /\ InOrder(n, downward[c], queue[c], e)

\* The searches of epoch e that no connection has: those answered, the one the sending
\* thread has and those it has not taken.
AtSender(e)  == IF sender.at # "idle" /\ sender.epoch = e THEN 1 ELSE 0
Elsewhere(e) == Occ(events[e], "Final") + AtSender(e) + Occ(requests, e)

\* The searches asked for in epoch e, shared out: f[0] of them are on no connection,
\* the connections up to the c-th have f[c] - f[0].
Ledgers == [0..MaxConns -> 0..MaxSends]
Balanced(f, e) ==
    /\ Elsewhere(e) <= f[0] /\ f[MaxConns] <= asked[e]
    /\ \A m, n \in 0..MaxConns : m <= n => f[m] <= f[n]
    /\ \A c \in Conns : Covers(f[c] - f[c - 1], c, e)

\* An Initial in the launcher's events is not after all Finals there can be.
Told(s, n) == /\ Occ(s, "Final") <= n
              /\ \A i \in DOMAIN s : s[i] = "Initial" => Before(s, i, "Final") < n

\* No search of an epoch brings two Finals, or its Initial after its Final.
LedgerInv ==
    /\ \A e \in Epochs : Told(events[e], asked[e]) /\ \E f \in Ledgers : Balanced(f, e)
    /\ \A c \in Conns : IsFiniteSet(tasks[c])
\* What is counted is finite.
LEMMA OccTypes ==
    ASSUME NEW S, NEW s \in Seq(S), NEW x
    PROVE  /\ IsFiniteSet({j \in DOMAIN s : s[j] = x}) /\ Occ(s, x) \in Nat
           /\ \A i \in Nat : /\ IsFiniteSet({j \in DOMAIN s : j < i /\ s[j] = x})
                             /\ Before(s, i, x) \in Nat /\ Before(s, i, x) <= Occ(s, x)
           /\ Before(s, Len(s) + 1, x) = Occ(s, x)
           /\ s = <<>> => Occ(s, x) = 0
  <1>1. DOMAIN s = 1..Len(s) /\ Len(s) \in Nat
    BY LenProperties
  <1> DEFINE A == {j \in DOMAIN s : s[j] = x}
  <1>2. IsFiniteSet(A) /\ Cardinality(A) \in Nat
    <2>1. IsFiniteSet(DOMAIN s)
      BY <1>1, FS_Interval
    <2>2. A \in SUBSET (DOMAIN s)
      OBVIOUS
    <2>3. IsFiniteSet(A)
      BY <2>1, <2>2, FS_Subset
    <2> QED
      BY <2>3, FS_CardinalityType
  <1>3. ASSUME NEW i \in Nat
        PROVE  /\ IsFiniteSet({j \in DOMAIN s : j < i /\ s[j] = x})
               /\ Before(s, i, x) \in Nat /\ Before(s, i, x) <= Occ(s, x)
    <2> DEFINE B == {j \in DOMAIN s : j < i /\ s[j] = x}
    <2>1. B \in SUBSET A
      OBVIOUS
    <2>2. IsFiniteSet(B) /\ Cardinality(B) <= Cardinality(A)
      BY <1>2, <2>1, FS_Subset
    <2>3. Cardinality(B) \in Nat
      BY <2>2, FS_CardinalityType
    <2> QED
      BY <2>2, <2>3 DEF Before, Occ
  <1>4. Before(s, Len(s) + 1, x) = Occ(s, x)
    <2>1. {j \in DOMAIN s : j < Len(s) + 1 /\ s[j] = x} = A
      BY <1>1
    <2> QED
      BY <2>1 DEF Before, Occ
  <1>5. s = <<>> => Occ(s, x) = 0
    <2>1. s = <<>> => A = {}
      BY <1>1, EmptySeq
    <2> QED
      BY <2>1, FS_EmptySet DEF Occ
  <1> QED
    BY <1>2, <1>3, <1>4, <1>5 DEF Occ

\* One more at the end.
LEMMA AppendedOne ==
    ASSUME NEW S, NEW s \in Seq(S), NEW y \in S
    PROVE  /\ DOMAIN s = 1..Len(s) /\ Len(s) \in Nat /\ DOMAIN Append(s, y) = DOMAIN s \cup {Len(s) + 1}
           /\ Append(s, y)[Len(s) + 1] = y /\ \A i \in DOMAIN s : i \in Nat /\ Append(s, y)[i] = s[i]
  <1> DEFINE r == Append(s, y)
  <1>1. Len(s) \in Nat /\ DOMAIN s = 1..Len(s)
    BY LenProperties
  <1>2. r \in Seq(S) /\ Len(r) = Len(s) + 1 /\ r[Len(s) + 1] = y /\ \A i \in 1..Len(s) : r[i] = s[i]
    BY AppendProperties
  <1>3. DOMAIN r = 1..Len(r)
    BY <1>2, LenProperties
  <1> HIDE DEF r
  <1>4. DOMAIN r = DOMAIN s \cup {Len(s) + 1}
    BY <1>1, <1>2, <1>3
  <1> QED
    BY <1>1, <1>2, <1>4 DEF r

\* A value is counted once more if it is the one appended.
LEMMA OccAppended ==
    ASSUME NEW S, NEW s \in Seq(S), NEW y \in S, NEW x
    PROVE  Occ(Append(s, y), x) = Occ(s, x) + (IF y = x THEN 1 ELSE 0)
  <1> DEFINE r == Append(s, y)
             n == Len(s) + 1
             A == {j \in DOMAIN s : s[j] = x}
  <1>1. /\ DOMAIN s = 1..Len(s) /\ Len(s) \in Nat /\ DOMAIN r = DOMAIN s \cup {n}
        /\ r[n] = y /\ \A i \in DOMAIN s : r[i] = s[i]
    BY AppendedOne
  <1>2. IsFiniteSet(A) /\ Cardinality(A) = Occ(s, x) /\ Occ(s, x) \in Nat
    BY OccTypes DEF Occ
  <1>3. n \notin A
    BY <1>1
  <1> HIDE DEF r
  <1>4. CASE y = x
    <2>1. {j \in DOMAIN r : r[j] = x} = A \cup {n}
      BY <1>1, <1>4
    <2>2. Cardinality(A \cup {n}) = Cardinality(A) + 1
      BY <1>2, <1>3, FS_AddElement
    <2>3. Occ(r, x) = Cardinality(A \cup {n})
      BY <2>1 DEF Occ
    <2> QED
      BY <1>2, <1>4, <2>2, <2>3 DEF r
  <1>5. CASE y # x
    <2>1. {j \in DOMAIN r : r[j] = x} = A
      BY <1>1, <1>5
    <2>2. Occ(r, x) = Occ(s, x)
      BY <1>2, <2>1 DEF Occ
    <2> QED
      BY <1>2, <1>5, <2>2 DEF r
  <1> QED
    BY <1>4, <1>5

\* What came before an old element still does.
LEMMA BeforeKept ==
    ASSUME NEW S, NEW s \in Seq(S), NEW y \in S, NEW x, NEW i \in DOMAIN s
    PROVE  Before(Append(s, y), i, x) = Before(s, i, x)
  <1> DEFINE r == Append(s, y)
  <1>1. /\ DOMAIN s = 1..Len(s) /\ Len(s) \in Nat /\ DOMAIN r = DOMAIN s \cup {Len(s) + 1}
        /\ \A k \in DOMAIN s : r[k] = s[k]
    BY AppendedOne
  <1> HIDE DEF r
  <1>2. {j \in DOMAIN r : j < i /\ r[j] = x} = {j \in DOMAIN s : j < i /\ s[j] = x}
    BY <1>1
  <1>3. Before(r, i, x) = Before(s, i, x)
    BY <1>2 DEF Before
  <1> QED
    BY <1>3 DEF r

\* Before the new element came all the old ones.
LEMMA BeforeLast ==
    ASSUME NEW S, NEW s \in Seq(S), NEW y \in S, NEW x
    PROVE  Before(Append(s, y), Len(s) + 1, x) = Occ(s, x)
  <1> DEFINE r == Append(s, y)
  <1>1. /\ DOMAIN s = 1..Len(s) /\ Len(s) \in Nat /\ DOMAIN r = DOMAIN s \cup {Len(s) + 1}
        /\ \A k \in DOMAIN s : r[k] = s[k]
    BY AppendedOne
  <1> HIDE DEF r
  <1>2. {j \in DOMAIN r : j < Len(s) + 1 /\ r[j] = x} = {j \in DOMAIN s : s[j] = x}
    BY <1>1
  <1>3. Before(r, Len(s) + 1, x) = Occ(s, x)
    BY <1>2 DEF Before, Occ
  <1> QED
    BY <1>3 DEF r

\* A set of numbers, each one greater.
LEMMA Shifted ==
    ASSUME NEW A \in SUBSET Nat, IsFiniteSet(A), NEW B, B = {j + 1 : j \in A}
    PROVE  IsFiniteSet(B) /\ Cardinality(B) = Cardinality(A)
  <1> DEFINE f == [j \in A |-> j + 1]
  <1>1. f \in Bijection(A, B)
    <2>1. f \in [A -> B]
      OBVIOUS
    <2>2. \A a, b \in A : f[a] = f[b] => a = b
      OBVIOUS
    <2>3. \A t \in B : \E a \in A : f[a] = t
      OBVIOUS
    <2> HIDE DEF f
    <2> QED
      BY <2>1, <2>2, <2>3, Fun_IsBij
  <1>2. ExistsBijection(A, B)
    BY <1>1 DEF ExistsBijection
  <1> QED
    BY <1>2, FS_Bijection

\* The first is gone: the others move up.
LEMMA OccTaken ==
    ASSUME NEW S, NEW s \in Seq(S), s # <<>>, NEW x
    PROVE  /\ Occ(s, x) = Occ(Tail(s), x) + (IF Head(s) = x THEN 1 ELSE 0)
           /\ \A i \in DOMAIN Tail(s) : /\ i \in Nat /\ i + 1 \in DOMAIN s /\ Tail(s)[i] = s[i + 1]
                                        /\ Before(s, i + 1, x) = Before(Tail(s), i, x) + (IF Head(s) = x THEN 1 ELSE 0)
  <1> DEFINE r == Tail(s)
             h == Head(s)
  <1>1. /\ r \in Seq(S) /\ Len(s) \in Nat /\ Len(r) = Len(s) - 1 /\ Len(r) \in Nat
        /\ DOMAIN s = 1..Len(s) /\ DOMAIN r = 1..Len(r)
        /\ \A i \in DOMAIN r : i \in Nat /\ i + 1 \in DOMAIN s /\ r[i] = s[i + 1]
        /\ h = s[1] /\ 1 \in DOMAIN s
    <2>1. r \in Seq(S) /\ Len(r) = Len(s) - 1 /\ \A i \in 1..Len(r) : r[i] = s[i + 1]
      BY HeadTailProperties
    <2>2. Len(s) \in Nat /\ Len(r) \in Nat /\ DOMAIN s = 1..Len(s) /\ DOMAIN r = 1..Len(r)
      BY <2>1, LenProperties
    <2> QED
      BY <2>1, <2>2
  <1> HIDE DEF r, h
  <1>2. ASSUME NEW i \in Nat, i > 0
        PROVE  Before(s, i + 1, x) = Before(r, i, x) + (IF h = x THEN 1 ELSE 0)
    <2> DEFINE A == {j \in DOMAIN r : j < i /\ r[j] = x}
               B == {j + 1 : j \in A}
               D == {j \in DOMAIN s : j < i + 1 /\ s[j] = x}
    <2>1. IsFiniteSet(A) /\ Cardinality(A) \in Nat /\ A \in SUBSET Nat
      <3>1. r \in Seq(S) /\ i \in Nat
        BY <1>1, <1>2
      <3>2. IsFiniteSet(A)
        BY <3>1, OccTypes
      <3>3. A \in SUBSET Nat
        BY <1>1
      <3> QED
        BY <3>2, <3>3, FS_CardinalityType
    <2>2. IsFiniteSet(B) /\ Cardinality(B) = Cardinality(A)
      <3> HIDE DEF A
      <3> QED
        BY <2>1, Shifted
    <2>3. 1 \notin B
      BY <1>1
    <2>4. ASSUME h = x PROVE D = B \cup {1}
      <3>1. ASSUME NEW j \in D PROVE j \in B \cup {1}
        <4>1. CASE j = 1
          BY <4>1
        <4>2. CASE j # 1
          <5>1. j - 1 \in DOMAIN r /\ r[j - 1] = x /\ j - 1 < i /\ j = (j - 1) + 1
            BY <1>1, <4>2
          <5> QED
            BY <5>1
        <4> QED
          BY <4>1, <4>2
      <3>2. ASSUME NEW j \in B PROVE j \in D
        BY <1>1
      <3>3. 1 \in D
        <4>1. 1 < i + 1 /\ s[1] = x /\ 1 \in DOMAIN s
          BY <1>1, <1>2, <2>4
        <4> QED
          BY <4>1
      <3> QED
        BY <3>1, <3>2, <3>3
    <2>5. ASSUME h # x PROVE D = B
      <3>1. ASSUME NEW j \in D PROVE j \in B
        <4>1. j - 1 \in DOMAIN r /\ r[j - 1] = x /\ j - 1 < i /\ j = (j - 1) + 1
          BY <1>1, <2>5
        <4> QED
          BY <4>1
      <3>2. ASSUME NEW j \in B PROVE j \in D
        BY <1>1
      <3> QED
        BY <3>1, <3>2
    <2> QED
      <3>1. Before(s, i + 1, x) = Cardinality(D) /\ Before(r, i, x) = Cardinality(A)
        BY DEF Before
      <3>2. CASE h = x
        <4>1. Cardinality(B \cup {1}) = Cardinality(B) + 1
          <5> HIDE DEF B
          <5> QED
            BY <2>2, <2>3, FS_AddElement
        <4> HIDE DEF A, B, D
        <4> QED
          BY <2>1, <2>2, <2>4, <3>1, <3>2, <4>1
      <3>3. CASE h # x
        <4> HIDE DEF A, B, D
        <4> QED
          BY <2>1, <2>2, <2>5, <3>1, <3>3
      <3> QED
        BY <3>2, <3>3
  <1>3. \A i \in DOMAIN r : Before(s, i + 1, x) = Before(r, i, x) + (IF h = x THEN 1 ELSE 0)
    <2> SUFFICES ASSUME NEW i \in DOMAIN r
                 PROVE  Before(s, i + 1, x) = Before(r, i, x) + (IF h = x THEN 1 ELSE 0)
      OBVIOUS
    <2>1. i \in Nat /\ i > 0
      BY <1>1
    <2> QED
      BY <1>2, <2>1
  <1>4. Occ(s, x) = Occ(r, x) + (IF h = x THEN 1 ELSE 0)
    <2>1. Before(s, Len(s) + 1, x) = Occ(s, x) /\ Before(r, Len(r) + 1, x) = Occ(r, x)
      BY <1>1, OccTypes
    <2>2. (Len(r) + 1) + 1 = Len(s) + 1 /\ Len(r) + 1 \in Nat /\ Len(r) + 1 > 0
      BY <1>1
    <2>3. Before(s, (Len(r) + 1) + 1, x) = Before(r, Len(r) + 1, x) + (IF h = x THEN 1 ELSE 0)
      BY <1>2, <2>2
    <2> QED
      BY <2>1, <2>2, <2>3
  <1> QED
    BY <1>1, <1>4, <1>3 DEF r, h

\* The chunks of an epoch are two, and frames of their own.
LEMMA ChunksDiffer ==
    ASSUME NEW e \in Epochs
    PROVE  /\ FinalOf(e) # InitialOf(e) /\ FinalOf(e) \in Frames /\ InitialOf(e) \in Frames
           /\ \A f \in Frames : f.what = "Final" /\ f.epoch = e <=> f = FinalOf(e)
           /\ \A f \in Frames : f.what = "Initial" /\ f.epoch = e <=> f = InitialOf(e)
  <1>1. FinalOf(e).what = "Final" /\ InitialOf(e).what = "Initial"
    BY DEF FinalOf, InitialOf
  <1>2. FinalOf(e).epoch = e /\ InitialOf(e).epoch = e
    BY DEF FinalOf, InitialOf
  <1>3. e \in 0..MaxEpoch
    BY SearchAssumption DEF Epochs
  <1>4. FinalOf(e) \in Frames /\ InitialOf(e) \in Frames
    BY <1>3 DEF Frames, FinalOf, InitialOf, Chunks
  <1>5. \A f \in Frames : /\ f.what = "Final" /\ f.epoch = e => f = FinalOf(e)
                          /\ f.what = "Initial" /\ f.epoch = e => f = InitialOf(e)
    BY DEF Frames, FinalOf, InitialOf
  <1> QED
    BY <1>1, <1>2, <1>4, <1>5

\* A larger budget does as well, and Finals are counted.
LEMMA MoreCovers ==
    ASSUME NEW d \in Seq(Frames), NEW q \in Seq(Frames), NEW e \in Epochs, NEW n \in Int, NEW m \in Int,
           n <= m, InOrder(n, d, q, e)
    PROVE  InOrder(m, d, q, e) /\ FinalsIn(d, q, e) \in Nat
  <1>1. /\ Occ(d, FinalOf(e)) \in Nat /\ Occ(q, FinalOf(e)) \in Nat
        /\ \A i \in DOMAIN d : i \in Nat /\ Before(d, i, FinalOf(e)) \in Nat
        /\ \A i \in DOMAIN q : i \in Nat /\ Before(q, i, FinalOf(e)) \in Nat
    <2>1. (\A i \in DOMAIN d : i \in Nat) /\ (\A i \in DOMAIN q : i \in Nat)
      BY LenProperties
    <2> QED
      BY <2>1, OccTypes
  <1> QED
    BY <1>1 DEF InOrder, FinalsIn

\* A response is put into the queue; an Initial needs a Final that may follow.
LEMMA QueuedInOrder ==
    ASSUME NEW d \in Seq(Frames), NEW q \in Seq(Frames), NEW e \in Epochs, NEW n \in Int, NEW x \in Frames,
           InOrder(n, d, q, e), x = InitialOf(e) => FinalsIn(d, q, e) < n
    PROVE  /\ InOrder(n, d, Append(q, x), e)
           /\ FinalsIn(d, Append(q, x), e) = FinalsIn(d, q, e) + (IF x = FinalOf(e) THEN 1 ELSE 0)
  <1> DEFINE r == Append(q, x)
             F == FinalOf(e)
  <1>1. /\ Occ(r, F) = Occ(q, F) + (IF x = F THEN 1 ELSE 0)
        /\ \A i \in DOMAIN q : i \in Nat /\ r[i] = q[i] /\ Before(r, i, F) = Before(q, i, F)
        /\ r[Len(q) + 1] = x /\ Before(r, Len(q) + 1, F) = Occ(q, F)
        /\ DOMAIN r = DOMAIN q \cup {Len(q) + 1}
    <2>1. Occ(r, F) = Occ(q, F) + (IF x = F THEN 1 ELSE 0)
      BY OccAppended
    <2>2. \A i \in DOMAIN q : Before(r, i, F) = Before(q, i, F)
      BY BeforeKept
    <2>3. Before(r, Len(q) + 1, F) = Occ(q, F)
      BY BeforeLast
    <2>4. /\ DOMAIN r = DOMAIN q \cup {Len(q) + 1} /\ r[Len(q) + 1] = x
          /\ \A i \in DOMAIN q : i \in Nat /\ r[i] = q[i]
      BY AppendedOne
    <2> HIDE DEF r
    <2> QED
      BY <2>1, <2>2, <2>3, <2>4
  <1>2. Occ(d, F) \in Nat /\ Occ(q, F) \in Nat
    BY OccTypes
  <1> HIDE DEF r, F
  <1>3. FinalsIn(d, r, e) = FinalsIn(d, q, e) + (IF x = F THEN 1 ELSE 0)
    BY <1>1, <1>2 DEF FinalsIn, F
  <1>4. ASSUME NEW i \in DOMAIN r, r[i] = InitialOf(e) PROVE Occ(d, F) + Before(r, i, F) < n
    <2>1. CASE i \in DOMAIN q
      BY <1>1, <1>4, <2>1 DEF InOrder, F
    <2>2. CASE i = Len(q) + 1
      BY <1>1, <1>4, <2>2 DEF FinalsIn, F
    <2> QED
      BY <1>1, <2>1, <2>2
  <1>5. InOrder(n, d, r, e)
    BY <1>4 DEF InOrder, F
  <1> QED
    BY <1>3, <1>5 DEF r, F

\* The first of the queue is written, or a frame in its place that is no chunk of e.
LEMMA WrittenInOrder ==
    ASSUME NEW d \in Seq(Frames), NEW q \in Seq(Frames), NEW e \in Epochs, NEW n \in Int, NEW x \in Frames,
           q # <<>>, InOrder(n, d, q, e), x = Head(q) \/ (x # FinalOf(e) /\ x # InitialOf(e))
    PROVE  /\ InOrder(n, Append(d, x), Tail(q), e)
           /\ FinalsIn(Append(d, x), Tail(q), e) <= FinalsIn(d, q, e)
  <1> DEFINE r == Append(d, x)
             s == Tail(q)
             F == FinalOf(e)
             I == InitialOf(e)
             a == IF x = F THEN 1 ELSE 0
             b == IF Head(q) = F THEN 1 ELSE 0
  <1>1. /\ Occ(r, F) = Occ(d, F) + a
        /\ \A i \in DOMAIN d : i \in Nat /\ r[i] = d[i] /\ Before(r, i, F) = Before(d, i, F)
        /\ r[Len(d) + 1] = x /\ Before(r, Len(d) + 1, F) = Occ(d, F)
        /\ DOMAIN r = DOMAIN d \cup {Len(d) + 1}
    <2>1. Occ(r, F) = Occ(d, F) + a
      BY OccAppended
    <2>2. \A i \in DOMAIN d : Before(r, i, F) = Before(d, i, F)
      BY BeforeKept
    <2>3. Before(r, Len(d) + 1, F) = Occ(d, F)
      BY BeforeLast
    <2>4. /\ DOMAIN r = DOMAIN d \cup {Len(d) + 1} /\ r[Len(d) + 1] = x
          /\ \A i \in DOMAIN d : i \in Nat /\ r[i] = d[i]
      BY AppendedOne
    <2> HIDE DEF r
    <2> QED
      BY <2>1, <2>2, <2>3, <2>4
  <1>2. /\ Occ(q, F) = Occ(s, F) + b
        /\ \A i \in DOMAIN s : i \in Nat /\ i + 1 \in DOMAIN q /\ s[i] = q[i + 1] /\ Before(q, i + 1, F) = Before(s, i, F) + b
    BY OccTaken
  <1>3. 1 \in DOMAIN q /\ q[1] = Head(q) /\ Before(q, 1, F) \in Nat
    <2>1. DOMAIN q = 1..Len(q) /\ Len(q) \in Nat /\ Len(q) # 0
      BY EmptySeq, LenProperties
    <2>2. Before(q, 1, F) \in Nat
      BY OccTypes
    <2> QED
      BY <2>1, <2>2
  <1>4. s \in Seq(Frames) /\ Occ(d, F) \in Nat /\ Occ(s, F) \in Nat /\ \A i \in DOMAIN s : Before(s, i, F) \in Nat
    <2>1. s \in Seq(Frames)
      BY HeadTailProperties
    <2>2. \A i \in DOMAIN s : i \in Nat
      BY <1>2
    <2> QED
      BY <2>1, <2>2, OccTypes
  <1>5. a \in 0..1 /\ b \in 0..1 /\ a <= b
    <2>1. x = Head(q) => a = b
      OBVIOUS
    <2>2. x # F => a = 0
      OBVIOUS
    <2> QED
      BY <2>1, <2>2
  <1>6. x = I => Head(q) = I
    OBVIOUS
  <1>7. /\ \A i \in DOMAIN d : d[i] = I => Before(d, i, F) < n
        /\ \A i \in DOMAIN q : q[i] = I => Occ(d, F) + Before(q, i, F) < n
    BY DEF InOrder
  <1> HIDE DEF r, s, F, I, a, b
  <1>8. ASSUME NEW i \in DOMAIN r, r[i] = I PROVE Before(r, i, F) < n
    <2>1. CASE i \in DOMAIN d
      BY <1>1, <1>7, <1>8, <2>1
    <2>2. CASE i = Len(d) + 1
      <3>1. Occ(d, F) + Before(q, 1, F) < n
        BY <1>1, <1>3, <1>6, <1>7, <1>8, <2>2
      <3> QED
        BY <1>1, <1>3, <1>4, <2>2, <3>1
    <2> QED
      BY <1>1, <2>1, <2>2
  <1>9. ASSUME NEW i \in DOMAIN s, s[i] = I PROVE Occ(r, F) + Before(s, i, F) < n
    <2>1. Occ(d, F) + (Before(s, i, F) + b) < n
      BY <1>2, <1>7, <1>9
    <2> QED
      BY <1>1, <1>4, <1>5, <2>1
  <1>10. InOrder(n, r, s, e)
    BY <1>8, <1>9 DEF InOrder, F, I
  <1>11. FinalsIn(r, s, e) <= FinalsIn(d, q, e)
    <2>1. Occ(r, F) + Occ(s, F) <= Occ(d, F) + Occ(q, F)
      BY <1>1, <1>2, <1>4, <1>5
    <2> QED
      BY <2>1 DEF FinalsIn, F
  <1> QED
    BY <1>10, <1>11 DEF r, s

\* The first frame of the wire is read: a Final takes its search along.
LEMMA ReadInOrder ==
    ASSUME NEW d \in Seq(Frames), NEW q \in Seq(Frames), NEW e \in Epochs, NEW n \in Int, NEW m \in Int,
           d # <<>>, InOrder(n, d, q, e), m = n - (IF Head(d) = FinalOf(e) THEN 1 ELSE 0)
    PROVE  /\ InOrder(m, Tail(d), q, e)
           /\ FinalsIn(d, q, e) = FinalsIn(Tail(d), q, e) + (IF Head(d) = FinalOf(e) THEN 1 ELSE 0)
           /\ Head(d) = InitialOf(e) => 0 < n
  <1> DEFINE s == Tail(d)
             F == FinalOf(e)
             I == InitialOf(e)
             b == IF Head(d) = F THEN 1 ELSE 0
  <1>1. /\ Occ(d, F) = Occ(s, F) + b
        /\ \A i \in DOMAIN s : i \in Nat /\ i + 1 \in DOMAIN d /\ s[i] = d[i + 1] /\ Before(d, i + 1, F) = Before(s, i, F) + b
    BY OccTaken
  <1>2. 1 \in DOMAIN d /\ d[1] = Head(d) /\ Before(d, 1, F) \in Nat
    <2>1. DOMAIN d = 1..Len(d) /\ Len(d) \in Nat /\ Len(d) # 0
      BY EmptySeq, LenProperties
    <2>2. Before(d, 1, F) \in Nat
      BY OccTypes
    <2> QED
      BY <2>1, <2>2
  <1>3. /\ s \in Seq(Frames) /\ Occ(q, F) \in Nat /\ Occ(s, F) \in Nat
        /\ \A i \in DOMAIN s : Before(s, i, F) \in Nat
        /\ \A i \in DOMAIN q : Before(q, i, F) \in Nat
    <2>1. s \in Seq(Frames)
      BY HeadTailProperties
    <2>2. (\A i \in DOMAIN s : i \in Nat) /\ (\A i \in DOMAIN q : i \in Nat)
      BY <1>1, LenProperties
    <2> QED
      BY <2>1, <2>2, OccTypes
  <1>4. b \in 0..1 /\ m = n - b
    OBVIOUS
  <1>5. /\ \A i \in DOMAIN d : d[i] = I => Before(d, i, F) < n
        /\ \A i \in DOMAIN q : q[i] = I => Occ(d, F) + Before(q, i, F) < n
    BY DEF InOrder
  <1> HIDE DEF s, F, I, b
  <1>6. ASSUME NEW i \in DOMAIN s, s[i] = I PROVE Before(s, i, F) < m
    <2>1. Before(s, i, F) + b < n
      BY <1>1, <1>5, <1>6
    <2> QED
      BY <1>3, <1>4, <2>1
  <1>7. ASSUME NEW i \in DOMAIN q, q[i] = I PROVE Occ(s, F) + Before(q, i, F) < m
    <2>1. Occ(d, F) + Before(q, i, F) < n
      BY <1>5, <1>7
    <2> QED
      BY <1>1, <1>3, <1>4, <2>1
  <1>8. InOrder(m, s, q, e)
    BY <1>6, <1>7 DEF InOrder, F, I
  <1>9. FinalsIn(d, q, e) = FinalsIn(s, q, e) + b
    <2>1. Occ(d, F) + Occ(q, F) = (Occ(s, F) + Occ(q, F)) + b
      BY <1>1, <1>3, <1>4
    <2> QED
      BY <2>1 DEF FinalsIn, F
  <1>10. Head(d) = I => 0 < n
    BY <1>2, <1>5
  <1> QED
    BY <1>8, <1>9, <1>10 DEF s, b, F, I

\* The queue of a connection that closes is lost.
LEMMA ClearedInOrder ==
    ASSUME NEW d \in Seq(Frames), NEW q \in Seq(Frames), NEW e \in Epochs, NEW n \in Int, InOrder(n, d, q, e)
    PROVE  InOrder(n, d, <<>>, e) /\ FinalsIn(d, <<>>, e) <= FinalsIn(d, q, e)
  <1> DEFINE z == <<>>
             F == FinalOf(e)
  <1>1. z \in Seq(Frames) /\ DOMAIN z = {}
    BY EmptySeq
  <1>2. Occ(z, F) = 0 /\ Occ(d, F) \in Nat /\ Occ(q, F) \in Nat
    BY <1>1, OccTypes
  <1> HIDE DEF z, F
  <1>3. FinalsIn(d, z, e) <= FinalsIn(d, q, e)
    BY <1>2 DEF FinalsIn, F
  <1>4. InOrder(n, d, z, e)
    BY <1>1 DEF InOrder
  <1> QED
    BY <1>3, <1>4 DEF z

\* What reaches the launcher is counted against what was asked.
LEMMA ToldGrows ==
    ASSUME NEW s \in Seq(Reports), NEW n \in Nat, NEW m \in Nat, n <= m, Told(s, n)
    PROVE  Told(s, m)
  <1>1. \A i \in DOMAIN s : i \in Nat
    BY LenProperties
  <1>2. Occ(s, "Final") \in Nat /\ \A i \in DOMAIN s : Before(s, i, "Final") \in Nat
    BY <1>1, OccTypes
  <1> QED
    BY <1>2 DEF Told

\* A chunk may be told while a Final is still to come, anything else at any time.
LEMMA ToldAppended ==
    ASSUME NEW s \in Seq(Reports), NEW n \in Nat, NEW y \in Reports, Told(s, n),
           y \in Chunks => Occ(s, "Final") < n
    PROVE  Told(Append(s, y), n)
  <1> DEFINE r == Append(s, y)
  <1>1. Occ(r, "Final") = Occ(s, "Final") + (IF y = "Final" THEN 1 ELSE 0)
    BY OccAppended
  <1>2. \A i \in DOMAIN s : Before(r, i, "Final") = Before(s, i, "Final")
    BY BeforeKept
  <1>3. Before(r, Len(s) + 1, "Final") = Occ(s, "Final") /\ Occ(s, "Final") \in Nat
    BY BeforeLast, OccTypes
  <1>4. DOMAIN r = DOMAIN s \cup {Len(s) + 1} /\ r[Len(s) + 1] = y /\ \A i \in DOMAIN s : r[i] = s[i]
    BY AppendedOne
  <1> HIDE DEF r
  <1>5. Occ(r, "Final") <= n
    BY <1>1, <1>3 DEF Told, Chunks
  <1>6. ASSUME NEW i \in DOMAIN r, r[i] = "Initial" PROVE Before(r, i, "Final") < n
    <2>1. CASE i \in DOMAIN s
      BY <1>2, <1>4, <1>6, <2>1 DEF Told
    <2>2. CASE i = Len(s) + 1
      BY <1>3, <1>4, <1>6, <2>2 DEF Chunks
    <2> QED
      BY <1>4, <2>1, <2>2
  <1>7. Told(r, n)
    BY <1>5, <1>6 DEF Told
  <1> QED
    BY <1>7 DEF r

\* The ledger after a step: the shares up to the c-th connection change by a, those
\* from it on by b, and so that connection's own by b - a.
LEMMA Rebalanced ==
    ASSUME NEW e \in Epochs, NEW f \in Ledgers, Balanced(f, e),
           NEW c \in 0..MaxConns, NEW a \in Int, NEW b \in Int,
           asked[e] \in Nat, asked'[e] \in 0..MaxSends, asked[e] + b <= asked'[e],
           Elsewhere(e) \in Nat, Elsewhere(e)' \in Nat,
           Elsewhere(e)' <= Elsewhere(e) + (IF 0 < c THEN a ELSE b),
           \A d \in Conns \ {c} : \A n \in Nat : Covers(n, d, e) => Covers(n, d, e)',
           c \in Conns => \A n \in Nat : Covers(n, c, e) => n + b - a \in Nat /\ Covers(n + b - a, c, e)'
    PROVE  \E g \in Ledgers : Balanced(g, e)'
  <1> DEFINE g == [k \in 0..MaxConns |-> f[k] + (IF k < c THEN a ELSE b)]
  <1> USE SearchAssumption
  <1>1. /\ \A k \in 0..MaxConns : f[k] \in Int
        /\ \A k \in 0..MaxConns : k < c => g[k] = f[k] + a
        /\ \A k \in 0..MaxConns : ~(k < c) => g[k] = f[k] + b
        /\ \A k \in 0..MaxConns : g[k] \in Int
    <2>1. f \in [0..MaxConns -> 0..MaxSends]
      BY DEF Ledgers
    <2>2. \A k \in 0..MaxConns : f[k] \in Int
      BY <2>1
    <2> QED
      BY <2>2
  <1>2. 0 \in 0..MaxConns /\ MaxConns \in 0..MaxConns /\ ~(MaxConns < c)
    OBVIOUS
  <1>3. /\ Elsewhere(e) <= f[0] /\ f[MaxConns] <= asked[e]
        /\ \A m, n \in 0..MaxConns : m <= n => f[m] <= f[n]
        /\ \A d \in Conns : Covers(f[d] - f[d - 1], d, e)
    BY DEF Balanced
  <1>4. \A d \in Conns : /\ d \in Nat /\ d - 1 \in 0..MaxConns /\ d \in 0..MaxConns /\ d - 1 < d
                         /\ f[d] - f[d - 1] \in Nat
    <2> SUFFICES ASSUME NEW d \in Conns
                 PROVE  /\ d \in Nat /\ d - 1 \in 0..MaxConns /\ d \in 0..MaxConns /\ d - 1 < d
                        /\ f[d] - f[d - 1] \in Nat
      OBVIOUS
    <2>1. d \in Nat /\ d - 1 \in 0..MaxConns /\ d \in 0..MaxConns /\ d - 1 < d
      BY DEF Conns
    <2>2. f[d - 1] <= f[d] /\ f[d] \in Int /\ f[d - 1] \in Int
      BY <1>1, <1>3, <2>1
    <2> QED
      BY <2>1, <2>2
  <1> HIDE DEF g
  <1>5. ASSUME c \in Conns
        PROVE  /\ (f[c] - f[c - 1]) + b - a \in Nat
               /\ Covers((f[c] - f[c - 1]) + b - a, c, e)'
    BY <1>3, <1>4, <1>5
  <1>6. ASSUME NEW m \in 0..MaxConns, NEW n \in 0..MaxConns, m <= n
        PROVE  g[m] <= g[n]
    <2>1. CASE m < c /\ c <= n
      <3>1. c \in Conns /\ c - 1 \in 0..MaxConns /\ m <= c - 1
        BY <2>1 DEF Conns
      <3>2. f[m] <= f[c - 1] /\ f[c] <= f[n]
        BY <1>3, <2>1, <3>1
      <3>3. f[c - 1] + a <= f[c] + b
        BY <1>1, <1>5, <3>1
      <3> QED
        BY <1>1, <2>1, <3>1, <3>2, <3>3
    <2>2. CASE ~(m < c /\ c <= n)
      <3>1. f[m] <= f[n]
        BY <1>3, <1>6
      <3>2. m < c <=> n < c
        BY <1>6, <2>2
      <3> QED
        BY <1>1, <3>1, <3>2
    <2> QED
      BY <2>1, <2>2
  <1>7. Elsewhere(e)' <= g[0] /\ g[MaxConns] <= asked'[e]
    <2>1. g[MaxConns] = f[MaxConns] + b /\ g[0] = f[0] + (IF 0 < c THEN a ELSE b)
      BY <1>2, <1>1
    <2>2. f[0] \in Int /\ f[MaxConns] \in Int
      BY <1>2, <1>1
    <2> QED
      BY <1>3, <2>1, <2>2
  <1>8. g \in Ledgers
    <2>1. ASSUME NEW k \in 0..MaxConns PROVE g[k] \in 0..MaxSends
      <3>1. g[0] <= g[k] /\ g[k] <= g[MaxConns]
        BY <1>2, <1>6
      <3>2. g[k] \in Int /\ g[0] \in Int /\ g[MaxConns] \in Int
        BY <1>2, <1>1
      <3> QED
        BY <1>7, <3>1, <3>2
    <2> QED
      BY <2>1 DEF Ledgers, g
  <1>9. ASSUME NEW d \in Conns PROVE Covers(g[d] - g[d - 1], d, e)'
    <2>1. f[d] \in Int /\ f[d - 1] \in Int
      BY <1>1, <1>4
    <2>2. CASE d = c
      <3>1. g[d] = f[d] + b /\ g[d - 1] = f[d - 1] + a
        BY <1>1, <1>4, <2>2
      <3>2. g[d] - g[d - 1] = (f[c] - f[c - 1]) + b - a
        BY <2>1, <2>2, <3>1
      <3> QED
        BY <1>5, <2>2, <3>2
    <2>3. CASE d # c
      <3>1. d < c <=> d - 1 < c
        BY <1>4, <2>3
      <3>2. g[d] - g[d - 1] = f[d] - f[d - 1]
        BY <1>1, <1>4, <2>1, <3>1
      <3>3. Covers(f[d] - f[d - 1], d, e) /\ f[d] - f[d - 1] \in Nat
        BY <1>3, <1>4
      <3> QED
        BY <2>3, <3>2, <3>3
    <2> QED
      BY <2>2, <2>3
  <1>10. Balanced(g, e)'
    BY <1>6, <1>7, <1>9 DEF Balanced
  <1> QED
    BY <1>8, <1>10

\* What is counted, is counted in numbers.
LEMMA Counts ==
    ASSUME SsInv, LedgerInv, NEW e \in Epochs
    PROVE  /\ events[e] \in Seq(Reports) /\ Occ(events[e], "Final") \in Nat
           /\ AtSender(e) \in 0..1 /\ requests \in Seq(Epochs) /\ Occ(requests, e) \in Nat
           /\ Elsewhere(e) \in Nat /\ asked[e] \in Nat /\ asked[e] \in 0..MaxSends /\ Told(events[e], asked[e])
  <1>1. events[e] \in Seq(Reports) /\ requests \in Seq(Epochs) /\ asked[e] \in 0..MaxSends
    BY DEF SsInv, SendInv, ReadInv
  <1>2. Occ(events[e], "Final") \in Nat /\ Occ(requests, e) \in Nat
    BY <1>1, OccTypes
  <1>3. AtSender(e) \in 0..1
    BY DEF AtSender
  <1>4. Elsewhere(e) \in Nat
    BY <1>2, <1>3 DEF Elsewhere
  <1> QED
    BY <1>1, <1>2, <1>3, <1>4, SearchAssumption DEF LedgerInv

\* The same for what connection c has.
LEMMA CountsOf ==
    ASSUME SsInv, LedgerInv, NEW e \in Epochs, NEW c \in Conns
    PROVE  /\ downward[c] \in Seq(Frames) /\ queue[c] \in Seq(Frames) /\ upward[c] \in Seq(Epochs)
           /\ IsFiniteSet(tasks[c]) /\ IsFiniteSet(Unfinished(c, e)) /\ Cardinality(Unfinished(c, e)) \in Nat
           /\ Installing(c, e) \in 0..1 /\ Occ(upward[c], e) \in Nat /\ Owed(c, e) \in Nat
           /\ FinalsIn(downward[c], queue[c], e) \in Nat
  <1>1. downward[c] \in Seq(Frames) /\ queue[c] \in Seq(Frames) /\ upward[c] \in Seq(Epochs) /\ IsFiniteSet(tasks[c])
    BY DEF SsInv, WireInv, LedgerInv
  <1>2. Occ(downward[c], FinalOf(e)) \in Nat /\ Occ(queue[c], FinalOf(e)) \in Nat /\ Occ(upward[c], e) \in Nat
    BY <1>1, OccTypes
  <1>3. Unfinished(c, e) \in SUBSET tasks[c]
    BY DEF Unfinished
  <1>4. IsFiniteSet(Unfinished(c, e)) /\ Cardinality(Unfinished(c, e)) \in Nat
    BY <1>1, <1>3, FS_Subset, FS_CardinalityType
  <1>5. Installing(c, e) \in 0..1
    BY DEF Installing
  <1>6. FinalsIn(downward[c], queue[c], e) \in Nat
    BY <1>2 DEF FinalsIn
  <1>7. Owed(c, e) \in Nat
    BY <1>2, <1>4, <1>5 DEF Owed
  <1> QED
    BY <1>1, <1>2, <1>4, <1>5, <1>6, <1>7

\* A step by which connection c brings no more than before.
Kept(c, e) == \A n \in Nat : Covers(n, c, e) => Covers(n, c, e)'

\* A step of others.
LEMMA Aside ==
    ASSUME NEW c \in Conns, NEW e \in Epochs,
           downward'[c] = downward[c], queue'[c] = queue[c], tasks'[c] = tasks[c],
           client'[c] = client[c], upward'[c] = upward[c]
    PROVE  Kept(c, e)
  BY DEF Kept, Covers, Owed, Installing, Unfinished

\* A step after which nothing more is to come than before.
LEMMA Settled ==
    ASSUME SsInv, LedgerInv, SsInv', \A c \in Conns : IsFiniteSet(tasks'[c]),
           NEW e \in Epochs, asked'[e] = asked[e], Elsewhere(e)' <= Elsewhere(e), \A c \in Conns : Kept(c, e)
    PROVE  \E g \in Ledgers : Balanced(g, e)'
  <1>1. PICK f \in Ledgers : Balanced(f, e)
    BY DEF LedgerInv
  <1>2. Elsewhere(e) \in Nat /\ asked[e] \in Nat /\ asked[e] \in 0..MaxSends
    BY Counts
  <1>3. Elsewhere(e)' \in Nat
    <2>1. events'[e] \in Seq(Reports) /\ requests' \in Seq(Epochs)
      BY DEF SsInv, SendInv, ReadInv
    <2>2. Occ(events'[e], "Final") \in Nat /\ Occ(requests', e) \in Nat
      BY <2>1, OccTypes
    <2>3. AtSender(e)' \in Nat
      BY DEF AtSender
    <2> QED
      BY <2>2, <2>3 DEF Elsewhere
  <1>4. 0 \in 0..MaxConns /\ 0 \notin Conns
    BY SearchAssumption DEF Conns
  <1>5. \A d \in Conns \ {0} : \A n \in Nat : Covers(n, d, e) => Covers(n, d, e)'
    BY DEF Kept
  <1> QED
    <2> DEFINE c == 0
               a == 0
               b == 0
    <2>1. /\ c \in 0..MaxConns /\ c \notin Conns /\ a \in Int /\ b \in Int /\ asked[e] + b <= asked'[e]
          /\ Elsewhere(e)' <= Elsewhere(e) + (IF 0 < c THEN a ELSE b)
          /\ \A d \in Conns \ {c} : \A n \in Nat : Covers(n, d, e) => Covers(n, d, e)'
      BY <1>2, <1>3, <1>4, <1>5
    <2> HIDE DEF a, b, c
    <2> QED
      BY <1>1, <1>2, <1>3, <2>1, Rebalanced

\* The launcher has nothing to do with a step of connection c.
LEMMA OnlyHere ==
    ASSUME SsInv, LedgerInv, SsInv', NEW c \in Conns, UNCHANGED <<asked, requests, sender, events>>,
           \A d \in Conns \ {c} : /\ downward'[d] = downward[d] /\ queue'[d] = queue[d] /\ tasks'[d] = tasks[d]
                                  /\ client'[d] = client[d] /\ upward'[d] = upward[d],
           IsFiniteSet(tasks'[c]), \A e \in Epochs : Kept(c, e)
    PROVE  LedgerInv'
  <1>1. \A d \in Conns : IsFiniteSet(tasks'[d])
    BY DEF LedgerInv
  <1>2. ASSUME NEW e \in Epochs PROVE Told(events'[e], asked'[e]) /\ \E g \in Ledgers : Balanced(g, e)'
    <2>1. Told(events'[e], asked'[e])
      BY Counts
    <2>2. Elsewhere(e)' <= Elsewhere(e)
      <3>1. Elsewhere(e)' = Elsewhere(e) /\ Elsewhere(e) \in Nat
        BY Counts DEF Elsewhere, AtSender
      <3> QED
        BY <3>1
    <2>3. ASSUME NEW d \in Conns PROVE Kept(d, e)
      BY Aside
    <2> QED
      BY <1>1, <2>1, <2>2, <2>3, Settled
  <1> QED
    BY <1>1, <1>2 DEF LedgerInv

\* Covers, from what it consists of.
LEMMA KeptBy ==
    ASSUME SsInv, LedgerInv, NEW c \in Conns, NEW e \in Epochs,
           FinalsIn(downward'[c], queue'[c], e) + Owed(c, e)' <= FinalsIn(downward[c], queue[c], e) + Owed(c, e),
           FinalsIn(downward'[c], queue'[c], e) + Owed(c, e)' \in Int,
           \A n \in Nat : Covers(n, c, e) => InOrder(n, downward'[c], queue'[c], e)
    PROVE  Kept(c, e)
  <1>1. FinalsIn(downward[c], queue[c], e) + Owed(c, e) \in Int
    BY CountsOf
  <1> QED
    BY <1>1 DEF Kept, Covers

\* The searches S with that of generation g told to stop.
Stopped(S, g) == {[t EXCEPT !.cancelled = t.cancelled \/ t.gen = g] : t \in S}

\* Searches told to stop stay as many.
LEMMA StoppedAreAsMany ==
    ASSUME NEW S, IsFiniteSet(S), NEW g
    PROVE  IsFiniteSet(Stopped(S, g)) /\ Cardinality(Stopped(S, g)) <= Cardinality(S)
  <1> DEFINE T == Stopped(S, g)
  <1> DEFINE f == [t \in S |-> [t EXCEPT !.cancelled = t.cancelled \/ t.gen = g]]
  <1>1. f \in Surjection(S, T)
    <2>1. f \in [S -> T]
      BY DEF Stopped
    <2>2. \A u \in T : \E t \in S : f[t] = u
      BY DEF Stopped
    <2> HIDE DEF f, T
    <2> QED
      BY <2>1, <2>2, Fun_IsSurj
  <1> HIDE DEF f
  <1>2. IsFiniteSet(T) /\ Cardinality(T) <= Cardinality(S)
    <2> HIDE DEF T
    <2> QED
      BY <1>1, FS_Surjection
  <1> QED
    BY <1>2

\* TakeSearch: the request is in the slot's hands, the search before it is told to stop.
LEMMA TakeKeepsLedger ==
    ASSUME SsInv, LedgerInv, SsInv', NEW c \in Conns, TakeSearch(c) PROVE LedgerInv'
  <1> DEFINE g == client[c].slot.gen
             k == [client[c] EXCEPT !.at = "install", !.request = Head(upward[c])]
  <1>1. /\ client[c].at = "loop" /\ upward[c] # <<>>
        /\ upward' = [upward EXCEPT ![c] = Tail(@)] /\ client' = [client EXCEPT ![c] = k]
        /\ tasks' = [tasks EXCEPT ![c] = Stopped(@, g)]
        /\ UNCHANGED <<asked, requests, sender, events, downward, queue>>
    BY DEF TakeSearch, launcherVars, Stopped
  <1>2. client[c] \in ClientStates /\ tasks[c] \subseteq Searches
    BY SlotKnown DEF SlotInv
  <1>3. client \in [Conns -> ClientStates] /\ tasks \in [Conns -> SUBSET Searches] /\ upward \in [Conns -> Seq(Epochs)]
    BY DEF SsInv, DaemonInv, WireInv
  <1>4. /\ upward'[c] = Tail(upward[c]) /\ client'[c] = k /\ tasks'[c] = Stopped(tasks[c], g)
        /\ \A d \in Conns \ {c} : upward'[d] = upward[d] /\ client'[d] = client[d] /\ tasks'[d] = tasks[d]
    BY <1>1, <1>3
  <1>5. k.at = "install" /\ k.request = Head(upward[c])
    BY <1>2 DEF ClientStates
  <1>6. IsFiniteSet(tasks'[c])
    <2>1. IsFiniteSet(tasks[c])
      BY DEF LedgerInv
    <2> HIDE DEF g
    <2> QED
      BY <1>4, <2>1, StoppedAreAsMany
  <1>7. ASSUME NEW e \in Epochs PROVE Kept(c, e)
    <2> DEFINE U == Unfinished(c, e)
               V == Stopped(U, g)
    <2>1. IsFiniteSet(U) /\ Cardinality(U) \in Nat /\ U \subseteq Searches
      BY <1>2, CountsOf DEF Unfinished
    <2>2. Cardinality(V) <= Cardinality(U) /\ IsFiniteSet(V)
      <3> HIDE DEF U, g
      <3> QED
        BY <2>1, StoppedAreAsMany
    <2>3. Unfinished(c, e)' \in SUBSET V
      <3> SUFFICES ASSUME NEW u \in tasks'[c], u.epoch = e, u.at \in Chunks PROVE u \in V
        BY DEF Unfinished
      <3>1. PICK t \in tasks[c] : u = [t EXCEPT !.cancelled = t.cancelled \/ t.gen = g]
        BY <1>4 DEF Stopped
      <3>2. u.epoch = t.epoch /\ u.at = t.at
        BY <1>2, <3>1 DEF Searches
      <3>3. t \in U
        BY <3>2 DEF Unfinished
      <3> HIDE DEF U
      <3> QED
        BY <3>1, <3>3 DEF Stopped
    <2>4. Occ(upward[c], e) = Occ(upward'[c], e) + (IF Head(upward[c]) = e THEN 1 ELSE 0)
      BY <1>1, <1>3, <1>4, OccTaken
    <2>5. Installing(c, e)' = (IF Head(upward[c]) = e THEN 1 ELSE 0) /\ Installing(c, e) = 0
      BY <1>1, <1>4, <1>5 DEF Installing
    <2>6. Occ(upward'[c], e) \in Nat /\ Occ(upward[c], e) \in Nat
      BY <1>3, <1>4, <1>1, HeadTailProperties, OccTypes
    <2>7. Cardinality(Unfinished(c, e)') \in Nat /\ Cardinality(Unfinished(c, e)') <= Cardinality(U)
      <3>1. Cardinality(V) \in Nat
        BY <2>2, FS_CardinalityType
      <3> DEFINE W == Unfinished(c, e)'
      <3>2. W \in SUBSET V
        BY <2>3
      <3> HIDE DEF U, V, W
      <3>3. IsFiniteSet(W) /\ Cardinality(W) <= Cardinality(V) /\ Cardinality(W) \in Nat
        BY <2>2, <3>2, FS_Subset, FS_CardinalityType
      <3>4. Cardinality(W) \in Nat /\ Cardinality(W) <= Cardinality(U)
        BY <2>1, <2>2, <3>1, <3>3
      <3> QED
        BY <3>4 DEF W
    <2>8. Owed(c, e)' <= Owed(c, e) /\ Owed(c, e)' \in Nat /\ Owed(c, e) \in Nat
      <3> DEFINE w == Cardinality(Unfinished(c, e)')
      <3>1. Owed(c, e)' = w + Installing(c, e)' + Occ(upward'[c], e)
        BY DEF Owed
      <3>2. Owed(c, e) = Cardinality(U) + Installing(c, e) + Occ(upward[c], e)
        BY DEF Owed
      <3>3. w \in Nat /\ w <= Cardinality(U)
        BY <2>7
      <3> HIDE DEF U, V, w
      <3> QED
        BY <2>1, <2>4, <2>5, <2>6, <3>1, <3>2, <3>3
    <2>9. FinalsIn(downward[c], queue[c], e) \in Nat
      BY CountsOf
    <2>10. \A n \in Nat : Covers(n, c, e) => InOrder(n, downward'[c], queue'[c], e)
      BY <1>1 DEF Covers
    <2> QED
      BY <1>1, <2>8, <2>9, <2>10, KeptBy
  <1> HIDE DEF k
  <1> QED
    BY <1>1, <1>4, <1>6, <1>7, OnlyHere

\* InstallSearch: the request becomes a search.
LEMMA InstallKeepsLedger ==
    ASSUME SsInv, LedgerInv, SsInv', NEW c \in Conns, InstallSearch(c) PROVE LedgerInv'
  <1> DEFINE g == client[c].next + 1
             r == client[c].request
             k == [at |-> "loop", next |-> g, request |-> 0, slot |-> [gen |-> g, epoch |-> r]]
             n == [gen |-> g, epoch |-> r, cancelled |-> FALSE,
                   at |-> IF Hybrid THEN "Initial" ELSE "Final", sending |-> FALSE]
             y == [what |-> "Cancelled", epoch |-> client[c].slot.epoch]
  <1>1. /\ client[c].at = "install"
        /\ UNCHANGED queue \/ queue' = [queue EXCEPT ![c] = Append(@, y)]
        /\ client' = [client EXCEPT ![c] = k]
        /\ tasks' = [tasks EXCEPT ![c] = @ \cup {n}]
        /\ UNCHANGED <<asked, requests, sender, events, downward, upward>>
    BY DEF InstallSearch, launcherVars
  <1>2. client[c] \in ClientStates /\ tasks[c] \subseteq Searches
    BY SlotKnown DEF SlotInv
  <1>3. client \in [Conns -> ClientStates] /\ tasks \in [Conns -> SUBSET Searches] /\ queue \in [Conns -> Seq(Frames)]
    BY DEF SsInv, DaemonInv, WireInv
  <1>4. /\ client'[c] = k /\ tasks'[c] = tasks[c] \cup {n} /\ queue'[c] \in {queue[c], Append(queue[c], y)}
        /\ \A d \in Conns \ {c} : queue'[d] = queue[d] /\ client'[d] = client[d] /\ tasks'[d] = tasks[d]
    BY <1>1, <1>3
  <1>5. y \in Frames /\ y.what = "Cancelled"
    BY <1>2 DEF ClientStates, Slots, Frames
  <1>6. k.at = "loop" /\ n.epoch = r
    OBVIOUS
  <1> HIDE DEF k, n, g, y
  <1>7. IsFiniteSet(tasks'[c])
    <2> DEFINE S == tasks[c]
    <2>1. IsFiniteSet(S)
      BY DEF LedgerInv
    <2>2. tasks'[c] = S \cup {n}
      BY <1>4
    <2> HIDE DEF S
    <2> QED
      BY <2>1, <2>2, FS_AddElement
  <1>8. ASSUME NEW e \in Epochs PROVE Kept(c, e)
    <2> DEFINE U == Unfinished(c, e)
               V == Unfinished(c, e)'
    <2>1. IsFiniteSet(U) /\ Cardinality(U) \in Nat /\ FinalsIn(downward[c], queue[c], e) \in Nat /\ Occ(upward[c], e) \in Nat
      BY CountsOf
    <2>2. V = U \/ (r = e /\ V = U \cup {n})
      BY <1>4, <1>6 DEF Unfinished
    <2>3. Installing(c, e) = (IF r = e THEN 1 ELSE 0) /\ Installing(c, e)' = 0
      BY <1>1, <1>4, <1>6 DEF Installing
    <2>4. Cardinality(V) \in Nat /\ Cardinality(V) <= Cardinality(U) + Installing(c, e)
      <3>1. CASE V = U
        BY <2>1, <2>3, <3>1
      <3>2. CASE r = e /\ V = U \cup {n}
        <4>1. Cardinality(U \cup {n}) \in {Cardinality(U), Cardinality(U) + 1}
          <5> HIDE DEF U
          <5> QED
            BY <2>1, FS_AddElement
        <4> QED
          BY <2>1, <2>3, <3>2, <4>1
      <3> QED
        BY <2>2, <3>1, <3>2
    <2>5. Owed(c, e)' <= Owed(c, e) /\ Owed(c, e)' \in Nat /\ Owed(c, e) \in Nat
      <3>1. Owed(c, e)' = Cardinality(V) + Installing(c, e)' + Occ(upward[c], e)
        BY <1>1 DEF Owed
      <3>2. Owed(c, e) = Cardinality(U) + Installing(c, e) + Occ(upward[c], e)
        BY DEF Owed
      <3>3. Installing(c, e) \in Nat
        BY <2>3
      <3> HIDE DEF U, V
      <3> QED
        BY <2>1, <2>3, <2>4, <3>1, <3>2, <3>3
    <2>6. /\ FinalsIn(downward[c], queue'[c], e) = FinalsIn(downward[c], queue[c], e)
          /\ \A m \in Nat : Covers(m, c, e) => InOrder(m, downward[c], queue'[c], e)
      <3>1. y # FinalOf(e) /\ y # InitialOf(e)
        BY <1>5 DEF FinalOf, InitialOf
      <3>2. CASE queue'[c] = queue[c]
        BY <3>2 DEF Covers
      <3>3. ASSUME queue'[c] = Append(queue[c], y), NEW m \in Nat, Covers(m, c, e)
            PROVE  InOrder(m, downward[c], queue'[c], e)
        BY <1>5, <3>1, <3>3, CountsOf, QueuedInOrder DEF Covers
      <3>4. ASSUME queue'[c] = Append(queue[c], y)
            PROVE  FinalsIn(downward[c], queue'[c], e) = FinalsIn(downward[c], queue[c], e)
        <4>1. Occ(queue'[c], FinalOf(e)) = Occ(queue[c], FinalOf(e)) + (IF y = FinalOf(e) THEN 1 ELSE 0)
          BY <1>5, <3>4, CountsOf, OccAppended
        <4>2. Occ(queue[c], FinalOf(e)) \in Nat
          BY CountsOf, OccTypes
        <4> QED
          BY <3>1, <4>1, <4>2 DEF FinalsIn
      <3> QED
        BY <1>4, <3>2, <3>3, <3>4
    <2> QED
      BY <1>1, <2>1, <2>5, <2>6, KeptBy
  <1> QED
    BY <1>1, <1>4, <1>7, <1>8, OnlyHere

\* A search may still bring a Final of epoch e.
Runs(t, e) == t.epoch = e /\ t.at \in Chunks

\* A search of connection c is replaced by another one, or by none.
LEMMA SearchesAfter ==
    ASSUME SsInv, LedgerInv, NEW c \in Conns, NEW t \in tasks[c], NEW u, Becomes(c, t, u), u = {} \/ \E v : u = {v}
    PROVE  /\ IsFiniteSet(tasks'[c]) /\ \A d \in Conns \ {c} : tasks'[d] = tasks[d]
           /\ \A e \in Epochs :
                /\ Cardinality(Unfinished(c, e)') \in Nat
                /\ Cardinality(Unfinished(c, e)') + (IF Runs(t, e) THEN 1 ELSE 0)
                      <= Cardinality(Unfinished(c, e)) + (IF \E v \in u : Runs(v, e) THEN 1 ELSE 0)
                /\ Runs(t, e) => 1 <= Cardinality(Unfinished(c, e))
  <1>1. /\ tasks'[c] = (tasks[c] \ {t}) \cup u
        /\ \A d \in Conns \ {c} : tasks'[d] = tasks[d]
    BY DEF Becomes, SsInv, DaemonInv
  <1>2. IsFiniteSet(tasks'[c])
    <2> DEFINE S == tasks[c] \ {t}
    <2>1. IsFiniteSet(S)
      <3> DEFINE T == tasks[c]
      <3>1. IsFiniteSet(T) /\ S \in SUBSET T
        BY DEF LedgerInv
      <3> HIDE DEF S, T
      <3> QED
        BY <3>1, FS_Subset
    <2>2. CASE u = {}
      BY <1>1, <2>1, <2>2
    <2>3. CASE \E v : u = {v}
      <3>1. PICK v : u = {v}
        BY <2>3
      <3>2. tasks'[c] = S \cup {v}
        BY <1>1, <3>1
      <3> HIDE DEF S
      <3> QED
        BY <2>1, <3>2, FS_AddElement
    <2> QED
      BY <2>2, <2>3
  <1>3. ASSUME NEW e \in Epochs
        PROVE  /\ Cardinality(Unfinished(c, e)') \in Nat
               /\ Cardinality(Unfinished(c, e)') + (IF Runs(t, e) THEN 1 ELSE 0)
                      <= Cardinality(Unfinished(c, e)) + (IF \E v \in u : Runs(v, e) THEN 1 ELSE 0)
               /\ Runs(t, e) => 1 <= Cardinality(Unfinished(c, e))
    <2> DEFINE U == Unfinished(c, e)
               V == Unfinished(c, e)'
               W == U \ {t}
    <2>1. IsFiniteSet(U) /\ Cardinality(U) \in Nat
      BY CountsOf
    <2>2. Runs(t, e) <=> t \in U
      BY DEF Runs, Unfinished
    <2>3. V = W \cup {v \in u : Runs(v, e)}
      BY <1>1 DEF Runs, Unfinished
    <2>4. /\ IsFiniteSet(W) /\ Cardinality(W) \in Nat
          /\ Cardinality(W) + (IF Runs(t, e) THEN 1 ELSE 0) = Cardinality(U)
      <3>1. /\ IsFiniteSet(W)
            /\ Cardinality(W) = IF t \in U THEN Cardinality(U) - 1 ELSE Cardinality(U)
        <4> HIDE DEF U
        <4> QED
          BY <2>1, FS_RemoveElement
      <3>2. Cardinality(W) \in Nat
        BY <3>1, FS_CardinalityType
      <3> HIDE DEF U, W
      <3> QED
        BY <2>1, <2>2, <3>1, <3>2
    <2>5. CASE \E v \in u : Runs(v, e)
      <3>1. PICK v \in u : Runs(v, e)
        BY <2>5
      <3>2. V = W \cup {v}
        BY <2>3, <3>1
      <3>3. Cardinality(V) \in {Cardinality(W), Cardinality(W) + 1}
        <4> HIDE DEF V, W
        <4> QED
          BY <2>4, <3>2, FS_AddElement
      <3>4. /\ Cardinality(V) \in Nat
            /\ Cardinality(V) + (IF Runs(t, e) THEN 1 ELSE 0) <= Cardinality(U) + (IF \E w \in u : Runs(w, e) THEN 1 ELSE 0)
            /\ Runs(t, e) => 1 <= Cardinality(U)
        <4> HIDE DEF U, V, W
        <4> QED
          BY <2>1, <2>4, <2>5, <3>3
      <3> QED
        BY <3>4
    <2>6. CASE ~\E v \in u : Runs(v, e)
      <3>1. V = W
        BY <2>3, <2>6
      <3>2. /\ Cardinality(V) \in Nat
            /\ Cardinality(V) + (IF Runs(t, e) THEN 1 ELSE 0) <= Cardinality(U) + (IF \E v \in u : Runs(v, e) THEN 1 ELSE 0)
            /\ Runs(t, e) => 1 <= Cardinality(U)
        <4> HIDE DEF U, V, W
        <4> QED
          BY <2>1, <2>4, <2>6, <3>1
      <3> QED
        BY <3>2
    <2> QED
      BY <2>5, <2>6
  <1> QED
    BY <1>1, <1>2, <1>3

\* A step of a search that sends nothing: it may end.
LEMMA SilentKeepsLedger ==
    ASSUME SsInv, LedgerInv, SsInv', NEW c \in Conns, NEW t \in tasks[c], NEW u, Becomes(c, t, u),
           u = {} \/ \E v : u = {v} /\ \A e \in Epochs : Runs(v, e) => Runs(t, e),
           UNCHANGED <<asked, requests, sender, events, upward, downward, queue>>,
           \A d \in Conns \ {c} : client'[d] = client[d],
           client'[c].at = client[c].at, client'[c].request = client[c].request
    PROVE  LedgerInv'
  <1>1. u = {} \/ \E v : u = {v}
    OBVIOUS
  <1>2. IsFiniteSet(tasks'[c]) /\ \A d \in Conns \ {c} : tasks'[d] = tasks[d]
    BY <1>1, SearchesAfter
  <1>3. ASSUME NEW e \in Epochs PROVE Kept(c, e)
    <2> DEFINE U == Unfinished(c, e)
               V == Unfinished(c, e)'
    <2>1. Cardinality(U) \in Nat /\ Installing(c, e) \in 0..1 /\ Occ(upward[c], e) \in Nat /\ FinalsIn(downward[c], queue[c], e) \in Nat
      BY CountsOf
    <2>2. (\E v \in u : Runs(v, e)) => Runs(t, e)
      OBVIOUS
    <2>3. Cardinality(V) \in Nat /\ Cardinality(V) <= Cardinality(U)
      <3>1. /\ Cardinality(V) \in Nat
            /\ Cardinality(V) + (IF Runs(t, e) THEN 1 ELSE 0)
                  <= Cardinality(U) + (IF \E v \in u : Runs(v, e) THEN 1 ELSE 0)
        BY <1>1, SearchesAfter
      <3> HIDE DEF U, V
      <3> QED
        BY <2>1, <2>2, <3>1
    <2>4. Installing(c, e)' = Installing(c, e)
      BY DEF Installing
    <2>5. Owed(c, e)' = Cardinality(V) + Installing(c, e) + Occ(upward[c], e)
      BY <2>4 DEF Owed
    <2>6. Owed(c, e) = Cardinality(U) + Installing(c, e) + Occ(upward[c], e)
      BY DEF Owed
    <2> HIDE DEF U, V
    <2>7. Owed(c, e)' <= Owed(c, e) /\ Owed(c, e)' \in Nat /\ Owed(c, e) \in Nat
      BY <2>1, <2>3, <2>5, <2>6
    <2>8. \A n \in Nat : Covers(n, c, e) => InOrder(n, downward'[c], queue'[c], e)
      BY DEF Covers
    <2> QED
      BY <2>1, <2>7, <2>8, KeptBy
  <1> QED
    BY <1>2, <1>3, OnlyHere

\* SendChunk: a Final takes the place of the search in what is to come; before an
\* Initial the search still has its Final to bring.
LEMMA SendKeepsLedger ==
    ASSUME SsInv, LedgerInv, SsInv', NEW c \in Conns, NEW t \in tasks[c], SendChunk(c, t) PROVE LedgerInv'
  <1> DEFINE x == [what |-> t.at, epoch |-> t.epoch]
             v == [t EXCEPT !.sending = FALSE, !.at = IF @ = "Initial" THEN "Final" ELSE "clear"]
  <1>1. /\ queue' = [queue EXCEPT ![c] = Append(@, x)] /\ Becomes(c, t, {v}) /\ t.sending
        /\ UNCHANGED <<asked, requests, sender, events, upward, downward, client>>
    BY DEF SendChunk, launcherVars
  <1>2. t \in Searches /\ t.at \in Chunks /\ t.epoch \in Epochs
    <2>1. SlotInv(client[c], tasks[c])
      BY SlotKnown
    <2>2. t \in Searches /\ t.at \in Chunks
      BY <1>1, <2>1 DEF SlotInv
    <2> QED
      BY <2>2 DEF Searches
  <1>3. x \in Frames /\ x.what = t.at /\ x.epoch = t.epoch
    BY <1>2 DEF Frames, Epochs
  <1>4. v.epoch = t.epoch /\ v.at = IF t.at = "Initial" THEN "Final" ELSE "clear"
    BY <1>2 DEF Searches
  <1> HIDE DEF x, v
  <1>5. /\ queue'[c] = Append(queue[c], x)
        /\ \A d \in Conns \ {c} : queue'[d] = queue[d]
    BY <1>1 DEF SsInv, WireInv
  <1>6. IsFiniteSet(tasks'[c]) /\ \A d \in Conns \ {c} : tasks'[d] = tasks[d]
    <2>1. {v} = {} \/ \E w : {v} = {w}
      OBVIOUS
    <2> QED
      BY <1>1, <2>1, SearchesAfter
  <1>7. ASSUME NEW e \in Epochs PROVE Kept(c, e)
    <2> DEFINE U == Unfinished(c, e)
               V == Unfinished(c, e)'
               p == IF x = FinalOf(e) THEN 1 ELSE 0
    <2>1. /\ Cardinality(U) \in Nat /\ Installing(c, e) \in 0..1 /\ Occ(upward[c], e) \in Nat
          /\ FinalsIn(downward[c], queue[c], e) \in Nat
          /\ downward[c] \in Seq(Frames) /\ queue[c] \in Seq(Frames)
      BY CountsOf
    <2>2. /\ Cardinality(V) \in Nat
          /\ Cardinality(V) + (IF Runs(t, e) THEN 1 ELSE 0)
                <= Cardinality(U) + (IF \E w \in {v} : Runs(w, e) THEN 1 ELSE 0)
          /\ Runs(t, e) => 1 <= Cardinality(U)
      <3>1. {v} = {} \/ \E w : {v} = {w}
        OBVIOUS
      <3> HIDE DEF U, V
      <3> QED
        BY <1>1, <3>1, SearchesAfter DEF U, V
    <2>3. x = FinalOf(e) => Runs(t, e) /\ ~Runs(v, e)
      BY <1>2, <1>3, <1>4 DEF FinalOf, Runs, Chunks
    <2>4. x = InitialOf(e) => Runs(t, e) /\ x # FinalOf(e)
      BY <1>2, <1>3, <1>4 DEF FinalOf, InitialOf, Runs, Chunks
    <2>5. Runs(v, e) => Runs(t, e)
      BY <1>2, <1>4 DEF Runs
    <2>6. Cardinality(V) + p <= Cardinality(U)
      <3> HIDE DEF U, V
      <3> QED
        BY <2>1, <2>2, <2>3, <2>5
    <2>7. Installing(c, e)' = Installing(c, e)
      BY <1>1 DEF Installing
    <2>8. Owed(c, e)' = Cardinality(V) + Installing(c, e) + Occ(upward[c], e)
      BY <1>1, <2>7 DEF Owed
    <2>9. Owed(c, e) = Cardinality(U) + Installing(c, e) + Occ(upward[c], e)
      BY DEF Owed
    <2>10. FinalsIn(downward[c], queue'[c], e) = FinalsIn(downward[c], queue[c], e) + p
      <3>1. Occ(queue'[c], FinalOf(e)) = Occ(queue[c], FinalOf(e)) + p
        BY <1>3, <1>5, <2>1, OccAppended
      <3>2. Occ(queue[c], FinalOf(e)) \in Nat /\ Occ(downward[c], FinalOf(e)) \in Nat
        BY <2>1, OccTypes
      <3> QED
        BY <3>1, <3>2 DEF FinalsIn
    <2>11. ASSUME NEW n \in Nat, Covers(n, c, e) PROVE InOrder(n, downward'[c], queue'[c], e)
      <3>1. InOrder(n, downward[c], queue[c], e) /\ FinalsIn(downward[c], queue[c], e) + Owed(c, e) <= n
        BY <2>11 DEF Covers
      <3>2. ASSUME x = InitialOf(e) PROVE FinalsIn(downward[c], queue[c], e) < n
        <4>1. 1 <= Cardinality(U)
          BY <2>2, <2>4, <3>2
        <4> HIDE DEF U
        <4> QED
          BY <2>1, <2>9, <3>1, <4>1
      <3>3. InOrder(n, downward[c], Append(queue[c], x), e)
        BY <1>3, <2>1, <3>1, <3>2, QueuedInOrder
      <3> QED
        BY <1>1, <1>5, <3>3
    <2>12. p \in 0..1
      OBVIOUS
    <2> HIDE DEF U, V, p
    <2>13. /\ FinalsIn(downward[c], queue'[c], e) + Owed(c, e)' <= FinalsIn(downward[c], queue[c], e) + Owed(c, e)
           /\ FinalsIn(downward[c], queue'[c], e) + Owed(c, e)' \in Int
      BY <2>1, <2>2, <2>6, <2>8, <2>9, <2>10, <2>12
    <2> QED
      BY <1>1, <2>11, <2>13, KeptBy
  <1> QED
    BY <1>1, <1>5, <1>6, <1>7, OnlyHere

\* handle_search.
LEMMA SearchKeepsLedger ==
    ASSUME SsInv, LedgerInv, SsInv', NEW c \in Conns, SearchTask(c) PROVE LedgerInv'
  <1>1. PICK t \in tasks[c] : ChunkReady(c, t) \/ SendChunk(c, t) \/ SearchFails(c, t) \/ ClearSlot(c, t)
    BY DEF SearchTask
  <1>2. t \in Searches
    BY SlotKnown DEF SlotInv
  <1>3. CASE ChunkReady(c, t)
    <2> DEFINE v == [t EXCEPT !.sending = TRUE]
               u == IF t.cancelled THEN {} ELSE {v}
    <2>1. Becomes(c, t, u) /\ UNCHANGED <<asked, requests, sender, events, upward, downward, queue, client>>
      BY <1>3 DEF ChunkReady, launcherVars
    <2>2. v.epoch = t.epoch /\ v.at = t.at
      BY <1>2 DEF Searches
    <2> HIDE DEF v
    <2>3. u = {} \/ (u = {v} /\ \A e \in Epochs : Runs(v, e) => Runs(t, e))
      BY <2>2 DEF Runs
    <2> HIDE DEF u
    <2> QED
      BY <2>1, <2>3, SilentKeepsLedger
  <1>4. CASE SearchFails(c, t)
    <2> DEFINE v == [t EXCEPT !.at = "clear"]
               u == IF Hybrid THEN {v} ELSE {}
    <2>1. Becomes(c, t, u) /\ UNCHANGED <<asked, requests, sender, events, upward, downward, queue, client>>
      BY <1>4 DEF SearchFails, launcherVars
    <2>2. v.at = "clear"
      BY <1>2 DEF Searches
    <2> HIDE DEF v
    <2>3. u = {} \/ (u = {v} /\ \A e \in Epochs : Runs(v, e) => Runs(t, e))
      BY <2>2 DEF Runs, Chunks
    <2> HIDE DEF u
    <2> QED
      BY <2>1, <2>3, SilentKeepsLedger
  <1>5. CASE ClearSlot(c, t)
    <2> DEFINE s == IF client[c].slot.gen = t.gen THEN NoSlot ELSE client[c].slot
               k == [client[c] EXCEPT !.slot = s]
               u == {}
    <2>1. /\ Becomes(c, t, u) /\ UNCHANGED <<asked, requests, sender, events, upward, downward, queue>>
          /\ client' = [client EXCEPT ![c] = k]
      BY <1>5 DEF ClearSlot, launcherVars
    <2>2. client[c] \in ClientStates
      BY SlotKnown DEF SlotInv
    <2> HIDE DEF s
    <2>3. k.at = client[c].at /\ k.request = client[c].request
      BY <2>2 DEF ClientStates
    <2> HIDE DEF k
    <2>4. client'[c] = k /\ \A d \in Conns \ {c} : client'[d] = client[d]
      BY <2>1 DEF SsInv, DaemonInv
    <2>5. u = {}
      OBVIOUS
    <2> HIDE DEF u
    <2> QED
      BY <2>1, <2>3, <2>4, <2>5, SilentKeepsLedger
  <1> QED
    BY <1>1, <1>3, <1>4, <1>5, SendKeepsLedger

\* writer_task: the response moves from the queue to the wire, or is lost on the way.
LEMMA WriterKeepsLedger ==
    ASSUME SsInv, LedgerInv, SsInv', NEW c \in Conns, WriteResponse(c) PROVE LedgerInv'
  <1> DEFINE bad == [what |-> "bad", epoch |-> 0]
  <1>1. /\ queue[c] # <<>> /\ queue' = [queue EXCEPT ![c] = Tail(@)]
        /\ \/ downward' = [downward EXCEPT ![c] = Append(@, Head(queue[c]))]
           \/ downward' = [downward EXCEPT ![c] = Append(@, bad)]
        /\ UNCHANGED <<asked, requests, sender, events, upward, client, tasks>>
    BY DEF WriteResponse, launcherVars
  <1>2. bad \in Frames /\ bad.what = "bad"
    BY SearchAssumption DEF Frames
  <1> HIDE DEF bad
  <1>3. /\ queue'[c] = Tail(queue[c])
        /\ \A d \in Conns \ {c} : queue'[d] = queue[d] /\ downward'[d] = downward[d]
    BY <1>1 DEF SsInv, WireInv
  <1>4. downward'[c] = Append(downward[c], Head(queue[c])) \/ downward'[c] = Append(downward[c], bad)
    BY <1>1 DEF SsInv, WireInv
  <1>5. queue[c] \in Seq(Frames) /\ downward[c] \in Seq(Frames) /\ Head(queue[c]) \in Frames
    BY <1>1, HeadTailProperties DEF SsInv, WireInv
  <1>6. PICK x \in Frames : /\ downward'[c] = Append(downward[c], x)
                            /\ x = Head(queue[c]) \/ x = bad
    BY <1>2, <1>4, <1>5
  <1>7. ASSUME NEW e \in Epochs PROVE Kept(c, e)
    <2>1. x = Head(queue[c]) \/ (x # FinalOf(e) /\ x # InitialOf(e))
      BY <1>2, <1>6 DEF FinalOf, InitialOf
    <2>2. Owed(c, e)' = Owed(c, e) /\ Owed(c, e) \in Nat /\ FinalsIn(downward[c], queue[c], e) \in Nat
      BY <1>1, CountsOf DEF Owed, Unfinished, Installing
    <2>3. PICK m \in Nat : InOrder(m, downward[c], queue[c], e)
      <3>1. PICK f \in Ledgers : Balanced(f, e)
        BY DEF LedgerInv
      <3>2. Covers(f[c] - f[c - 1], c, e) /\ f[c] - f[c - 1] \in Nat
        <4>1. c \in 0..MaxConns /\ c - 1 \in 0..MaxConns /\ c - 1 <= c
          BY SearchAssumption DEF Conns
        <4>2. f[c] \in Nat /\ f[c - 1] \in Nat /\ f[c - 1] <= f[c]
          BY <3>1, <4>1, SearchAssumption DEF Ledgers, Balanced
        <4> QED
          BY <3>1, <4>2 DEF Balanced
      <3> QED
        BY <3>2 DEF Covers
    <2>4. FinalsIn(downward'[c], queue'[c], e) <= FinalsIn(downward[c], queue[c], e)
      <3>1. /\ InOrder(m, Append(downward[c], x), Tail(queue[c]), e)
            /\ FinalsIn(Append(downward[c], x), Tail(queue[c]), e) <= FinalsIn(downward[c], queue[c], e)
        BY <1>1, <1>5, <1>6, <2>1, <2>3, WrittenInOrder
      <3> QED
        BY <1>3, <1>6, <3>1
    <2>5. FinalsIn(downward'[c], queue'[c], e) \in Nat
      <3>1. downward'[c] \in Seq(Frames) /\ queue'[c] \in Seq(Frames)
        BY DEF SsInv, WireInv
      <3>2. Occ(downward'[c], FinalOf(e)) \in Nat /\ Occ(queue'[c], FinalOf(e)) \in Nat
        BY <3>1, OccTypes
      <3> QED
        BY <3>2 DEF FinalsIn
    <2>6. ASSUME NEW n \in Nat, Covers(n, c, e) PROVE InOrder(n, downward'[c], queue'[c], e)
      <3>1. InOrder(n, downward[c], queue[c], e)
        BY <2>6 DEF Covers
      <3> QED
        BY <1>1, <1>3, <1>5, <1>6, <2>1, <3>1, WrittenInOrder
    <2> QED
      BY <2>2, <2>4, <2>5, <2>6, KeptBy
  <1>8. IsFiniteSet(tasks'[c])
    BY <1>1 DEF LedgerInv
  <1> QED
    BY <1>1, <1>3, <1>7, <1>8, OnlyHere

\* Neither a failure nor a watchdog's report is a chunk.
Quiet(e) == events'[e] = events[e] \/ \E y \in {"failed", "timeout"} : events'[e] = Append(events[e], y)

\* Such a report is neither an answer nor the first half of one.
LEMMA QuietTells ==
    ASSUME SsInv, LedgerInv, NEW e \in Epochs, Quiet(e)
    PROVE  Told(events'[e], asked[e]) /\ Occ(events'[e], "Final") = Occ(events[e], "Final")
  <1>1. /\ events[e] \in Seq(Reports) /\ asked[e] \in Nat /\ Told(events[e], asked[e])
        /\ Occ(events[e], "Final") \in Nat
    BY Counts
  <1>2. CASE events'[e] = events[e]
    BY <1>1, <1>2
  <1>3. CASE events'[e] # events[e]
    <2>1. PICK y \in {"failed", "timeout"} : events'[e] = Append(events[e], y)
      BY <1>3 DEF Quiet
    <2>2. y \in Reports /\ y \notin Chunks /\ y # "Final"
      BY DEF Reports, Chunks
    <2>3. Told(Append(events[e], y), asked[e])
      BY <1>1, <2>2, ToldAppended
    <2>4. Occ(Append(events[e], y), "Final") = Occ(events[e], "Final") + (IF y = "Final" THEN 1 ELSE 0)
      BY <1>1, <2>2, OccAppended
    <2> QED
      BY <1>1, <2>1, <2>2, <2>3, <2>4
  <1> QED
    BY <1>2, <1>3

\* A step that brings no answer in epoch e and shares out none of its searches.
LEMMA QuietlySettled ==
    ASSUME SsInv, LedgerInv, SsInv', \A c \in Conns : IsFiniteSet(tasks'[c]), NEW e \in Epochs, asked'[e] = asked[e],
           Quiet(e), AtSender(e)' + Occ(requests', e) <= AtSender(e) + Occ(requests, e), \A c \in Conns : Kept(c, e)
    PROVE  Told(events'[e], asked'[e]) /\ \E g \in Ledgers : Balanced(g, e)'
  <1>1. Told(events'[e], asked'[e]) /\ Occ(events'[e], "Final") = Occ(events[e], "Final")
    BY QuietTells
  <1>2. Elsewhere(e)' <= Elsewhere(e)
    <2>1. Occ(events[e], "Final") \in Nat /\ AtSender(e) \in 0..1 /\ Occ(requests, e) \in Nat
      BY Counts
    <2>2. AtSender(e)' \in 0..1 /\ Occ(requests', e) \in Nat
      <3>1. requests' \in Seq(Epochs)
        BY DEF SsInv, SendInv
      <3>2. Occ(requests', e) \in Nat
        BY <3>1, OccTypes
      <3>3. AtSender(e)' \in 0..1
        BY DEF AtSender
      <3> QED
        BY <3>2, <3>3
    <2>3. AtSender(e)' + Occ(requests', e) <= AtSender(e) + Occ(requests, e)
      OBVIOUS
    <2>4. Elsewhere(e) = Occ(events[e], "Final") + AtSender(e) + Occ(requests, e)
      BY DEF Elsewhere
    <2>5. Elsewhere(e)' = Occ(events[e], "Final") + AtSender(e)' + Occ(requests', e)
      BY <1>1 DEF Elsewhere
    <2> DEFINE a == AtSender(e)
               b == AtSender(e)'
    <2> HIDE DEF a, b
    <2> QED
      BY <2>1, <2>2, <2>3, <2>4, <2>5 DEF a, b
  <1> QED
    BY <1>1, <1>2, Settled

\* The same in every epoch.
LEMMA QuietKeepsLedger ==
    ASSUME SsInv, LedgerInv, SsInv', UNCHANGED asked, \A c \in Conns : IsFiniteSet(tasks'[c]),
           \A e \in Epochs : Quiet(e) /\ AtSender(e)' + Occ(requests', e) <= AtSender(e) + Occ(requests, e),
           \A e \in Epochs : \A c \in Conns : Kept(c, e)
    PROVE  LedgerInv'
  <1>1. ASSUME NEW e \in Epochs PROVE Told(events'[e], asked'[e]) /\ \E g \in Ledgers : Balanced(g, e)'
    <2>1. asked'[e] = asked[e] /\ Quiet(e) /\ AtSender(e)' + Occ(requests', e) <= AtSender(e) + Occ(requests, e)
      OBVIOUS
    <2> QED
      BY <2>1, QuietlySettled
  <1> QED
    BY <1>1 DEF LedgerInv

\* Connections are closed: what their searches, requests and queued responses still
\* owed is owed no longer; what is on the wire may yet be read.
LEMMA ClosedKeepsLedger ==
    ASSUME SsInv, LedgerInv, SsInv', NEW cs \in SUBSET Conns, Closed(cs),
           UNCHANGED <<asked, requests, sender, events, downward>>
    PROVE  LedgerInv'
  <1>1. ASSUME NEW c \in cs
        PROVE  client'[c].at = "closed" /\ tasks'[c] = {} /\ queue'[c] = <<>> /\ upward'[c] = <<>>
    BY DEF Closed, NoClient
  <1>2. ASSUME NEW c \in Conns \ cs
        PROVE  client'[c] = client[c] /\ tasks'[c] = tasks[c] /\ queue'[c] = queue[c] /\ upward'[c] = upward[c]
    BY DEF Closed
  <1>3. ASSUME NEW c \in Conns PROVE IsFiniteSet(tasks'[c])
    BY <1>1, <1>2, FS_EmptySet DEF LedgerInv
  <1>4. ASSUME NEW e \in Epochs, NEW c \in Conns PROVE Kept(c, e)
    <2>1. CASE c \notin cs
      BY <1>2, <2>1, Aside
    <2>2. CASE c \in cs
      <3>1. FinalsIn(downward[c], queue[c], e) \in Nat /\ Owed(c, e) \in Nat
            /\ downward[c] \in Seq(Frames) /\ queue[c] \in Seq(Frames)
        BY CountsOf
      <3>2. Owed(c, e)' = 0
        <4>1. Unfinished(c, e)' = {} /\ Installing(c, e)' = 0
          BY <1>1, <2>2 DEF Unfinished, Installing
        <4>2. Occ(upward'[c], e) = 0
          <5>1. {j \in DOMAIN upward'[c] : upward'[c][j] = e} = {}
            BY <1>1, <2>2
          <5> QED
            BY <5>1, FS_EmptySet DEF Occ
        <4>3. Cardinality(Unfinished(c, e)') = 0
          BY <4>1, FS_EmptySet
        <4> QED
          BY <4>1, <4>2, <4>3 DEF Owed
      <3>3. ASSUME NEW n \in Nat, Covers(n, c, e) PROVE Covers(n, c, e)'
        <4>1. InOrder(n, downward[c], queue[c], e) /\ FinalsIn(downward[c], queue[c], e) + Owed(c, e) <= n
          BY <3>3 DEF Covers
        <4>2. InOrder(n, downward[c], <<>>, e) /\ FinalsIn(downward[c], <<>>, e) <= FinalsIn(downward[c], queue[c], e)
          BY <3>1, <4>1, ClearedInOrder
        <4>3. InOrder(n, downward'[c], queue'[c], e) /\ FinalsIn(downward'[c], queue'[c], e) <= FinalsIn(downward[c], queue[c], e)
          BY <1>1, <2>2, <4>2
        <4>4. FinalsIn(downward'[c], queue'[c], e) \in Nat
          <5>1. downward'[c] \in Seq(Frames) /\ queue'[c] \in Seq(Frames)
            BY DEF SsInv, WireInv
          <5>2. Occ(downward'[c], FinalOf(e)) \in Nat /\ Occ(queue'[c], FinalOf(e)) \in Nat
            BY <5>1, OccTypes
          <5> QED
            BY <5>2 DEF FinalsIn
        <4>5. FinalsIn(downward'[c], queue'[c], e) + Owed(c, e)' <= n
          BY <3>1, <3>2, <4>1, <4>3, <4>4
        <4> QED
          BY <4>3, <4>5 DEF Covers
      <3> QED
        BY <3>3 DEF Kept
    <2> QED
      BY <2>1, <2>2
  <1>5. ASSUME NEW e \in Epochs
        PROVE  Quiet(e) /\ AtSender(e)' + Occ(requests', e) <= AtSender(e) + Occ(requests, e)
    <2>1. AtSender(e) \in 0..1 /\ Occ(requests, e) \in Nat
      BY Counts
    <2> QED
      BY <2>1 DEF Quiet, AtSender
  <1> QED
    BY <1>3, <1>4, <1>5, QuietKeepsLedger

\* A step of the launcher's that leaves the connections alone.
LEMMA DaemonAside ==
    ASSUME SsInv, LedgerInv, SsInv', UNCHANGED <<asked, upward, downward, tasks, queue>>,
           \A c \in Conns : client'[c] = client[c] \/ (client[c].at # "install" /\ client'[c].at # "install"),
           \A e \in Epochs : Quiet(e) /\ AtSender(e)' + Occ(requests', e) <= AtSender(e) + Occ(requests, e)
    PROVE  LedgerInv'
  <1>1. ASSUME NEW e \in Epochs, NEW c \in Conns PROVE Kept(c, e)
    BY DEF Kept, Covers, Owed, Installing, Unfinished
  <1>2. \A c \in Conns : IsFiniteSet(tasks'[c])
    BY DEF LedgerInv
  <1> QED
    BY <1>1, <1>2, QuietKeepsLedger

--------------------------------------------------------------------------------
\* Bump and Ask: one more search is asked for.
LEMMA MainKeepsLedger ==
    ASSUME SsInv, LedgerInv, SsInv', Bump \/ Ask PROVE LedgerInv'
  <1> USE DEF daemonVars
  <1>1. CASE Bump
    <2>1. UNCHANGED <<asked, requests, sender, events, upward, downward, client, tasks, queue>>
      BY <1>1 DEF Bump
    <2>2. ASSUME NEW e \in Epochs
          PROVE  Quiet(e) /\ AtSender(e)' + Occ(requests', e) <= AtSender(e) + Occ(requests, e)
      <3>1. AtSender(e) \in 0..1 /\ Occ(requests, e) \in Nat
        BY Counts
      <3> QED
        BY <2>1, <3>1 DEF Quiet, AtSender
    <2> QED
      BY <2>1, <2>2, DaemonAside
  <1>2. CASE Ask
    <2>1. /\ asked' = [asked EXCEPT ![session] = @ + 1] /\ requests' = Append(requests, session)
          /\ UNCHANGED <<sender, events, upward, downward, client, tasks, queue>>
      BY <1>2 DEF Ask
    <2>2. session \in Epochs /\ asked \in [Epochs -> 0..MaxSends] /\ asked' \in [Epochs -> 0..MaxSends] /\ requests \in Seq(Epochs)
      BY DEF SsInv, SendInv
    <2>3. ASSUME NEW e \in Epochs PROVE Told(events'[e], asked'[e]) /\ \E g \in Ledgers : Balanced(g, e)'
      <3> DEFINE b == IF e = session THEN 1 ELSE 0
      <3>1. asked'[e] = asked[e] + b
        BY <2>1, <2>2
      <3>2. Occ(requests', e) = Occ(requests, e) + (IF session = e THEN 1 ELSE 0)
        BY <2>1, <2>2, OccAppended
      <3>3. /\ asked[e] \in Nat /\ asked'[e] \in 0..MaxSends /\ Elsewhere(e) \in Nat
            /\ events[e] \in Seq(Reports) /\ Told(events[e], asked[e])
            /\ Occ(events[e], "Final") \in Nat /\ AtSender(e) \in 0..1 /\ Occ(requests, e) \in Nat
        BY <2>2, Counts
      <3>4. Elsewhere(e)' = Elsewhere(e) + b
        <4>1. AtSender(e)' = AtSender(e)
          BY <2>1 DEF AtSender
        <4>2. Elsewhere(e)' = Occ(events[e], "Final") + AtSender(e) + Occ(requests', e)
          BY <2>1, <4>1 DEF Elsewhere
        <4>3. Elsewhere(e) = Occ(events[e], "Final") + AtSender(e) + Occ(requests, e)
          BY DEF Elsewhere
        <4> QED
          BY <3>2, <3>3, <4>2, <4>3
      <3>5. b \in Nat
        OBVIOUS
      <3> HIDE DEF b
      <3>6. asked'[e] \in Nat /\ asked[e] <= asked'[e] /\ Elsewhere(e)' \in Nat
        BY <3>1, <3>3, <3>4, <3>5, SearchAssumption
      <3>7. Told(events'[e], asked'[e])
        BY <2>1, <3>3, <3>6, ToldGrows
      <3>8. \A d \in Conns : Kept(d, e)
        BY <2>1, Aside
      <3>9. PICK f \in Ledgers : Balanced(f, e)
        BY DEF LedgerInv
      <3> DEFINE c == 0
      <3>10. /\ c \in 0..MaxConns /\ c \notin Conns /\ b \in Int /\ asked[e] + b <= asked'[e]
             /\ Elsewhere(e)' <= Elsewhere(e) + (IF 0 < c THEN b ELSE b)
             /\ \A d \in Conns \ {c} : \A n \in Nat : Covers(n, d, e) => Covers(n, d, e)'
        BY <3>1, <3>3, <3>4, <3>5, <3>6, <3>8, SearchAssumption DEF Kept, Conns
      <3> HIDE DEF c
      <3>11. \E g \in Ledgers : Balanced(g, e)'
        BY <3>3, <3>6, <3>9, <3>10, Rebalanced
      <3> QED
        BY <3>7, <3>11
    <2>4. \A c \in Conns : IsFiniteSet(tasks'[c])
      BY <2>1 DEF LedgerInv
    <2> QED
      BY <2>3, <2>4 DEF LedgerInv
  <1> QED
    BY <1>1, <1>2

\* The sending thread gives a request up: it reports at most a failure.
LEMMA GivenUpQuietly ==
    ASSUME SsInv, LedgerInv, GiveUp, UNCHANGED requests, NEW e \in Epochs
    PROVE  Quiet(e) /\ AtSender(e)' + Occ(requests', e) <= AtSender(e) + Occ(requests, e)
  <1>1. AtSender(e) \in 0..1 /\ Occ(requests, e) \in Nat
    BY Counts
  <1>2. AtSender(e)' = 0
    BY DEF GiveUp, Idle, AtSender
  <1>3. Quiet(e)
    <2>1. events \in [Epochs -> Seq(Reports)]
      BY DEF SsInv, ReadInv
    <2>2. UNCHANGED events \/ events' = [events EXCEPT ![session] = Append(@, "failed")]
      BY DEF GiveUp, Report
    <2> QED
      BY <2>1, <2>2 DEF Quiet
  <1> QED
    BY <1>1, <1>2, <1>3

\* TakeRequest: the search is the sending thread's, or is dropped.
LEMMA TakeRequestKeepsLedger ==
    ASSUME SsInv, LedgerInv, SsInv', TakeRequest PROVE LedgerInv'
  <1> USE DEF daemonVars
  <1>1. /\ sender.at = "idle" /\ requests # <<>> /\ requests' = Tail(requests)
        /\ sender' = sender \/ sender' = [at |-> "check", epoch |-> Head(requests), tries |-> 0]
        /\ UNCHANGED <<asked, events, upward, downward, client, tasks, queue>>
    BY DEF TakeRequest
  <1>2. requests \in Seq(Epochs)
    BY DEF SsInv, SendInv
  <1>3. ASSUME NEW e \in Epochs
        PROVE  Quiet(e) /\ AtSender(e)' + Occ(requests', e) <= AtSender(e) + Occ(requests, e)
    <2>1. Occ(requests, e) = Occ(Tail(requests), e) + (IF Head(requests) = e THEN 1 ELSE 0)
      BY <1>1, <1>2, OccTaken
    <2>2. Occ(Tail(requests), e) \in Nat
      <3>1. Tail(requests) \in Seq(Epochs)
        BY <1>1, <1>2, HeadTailProperties
      <3> QED
        BY <3>1, OccTypes
    <2>3. AtSender(e) = 0 /\ (AtSender(e)' = 0 \/ (AtSender(e)' = 1 /\ Head(requests) = e))
      BY <1>1 DEF AtSender
    <2> QED
      BY <1>1, <2>1, <2>2, <2>3 DEF Quiet
  <1> QED
    BY <1>1, <1>3, DaemonAside

\* CheckConn: a connection that is there, a new one, or none.
LEMMA CheckConnKeepsLedger ==
    ASSUME SsInv, LedgerInv, SsInv', CheckConn PROVE LedgerInv'
  <1>1. UNCHANGED <<asked, requests, upward, downward, tasks, queue>> /\ sender.at = "check"
    BY DEF CheckConn
  <1>2. \A c \in Conns : client'[c] = client[c] \/ (client[c].at # "install" /\ client'[c].at # "install")
    <2>1. client \in [Conns -> ClientStates]
      BY DEF SsInv, DaemonInv
    <2>2. CASE UNCHANGED client
      BY <2>2
    <2>3. CASE ~UNCHANGED client
      <3>1. PICK b \in Conns : client[b].at = "none" /\ client' = [client EXCEPT ![b].at = "loop"]
        BY <2>3 DEF CheckConn, Connect
      <3> DEFINE k == [client[b] EXCEPT !.at = "loop"]
      <3>2. client' = [client EXCEPT ![b] = k] /\ k.at = "loop"
        BY <2>1, <3>1 DEF ClientStates
      <3> HIDE DEF k
      <3> QED
        BY <2>1, <3>1, <3>2
    <2> QED
      BY <2>2, <2>3
  <1>3. ASSUME NEW e \in Epochs
        PROVE  Quiet(e) /\ AtSender(e)' + Occ(requests', e) <= AtSender(e) + Occ(requests, e)
    <2>1. AtSender(e) \in 0..1 /\ Occ(requests, e) \in Nat
      BY Counts
    <2>2. CASE GiveUp
      BY <1>1, <2>2, GivenUpQuietly
    <2>3. CASE sender' = [sender EXCEPT !.at = "write"] /\ UNCHANGED events
      <3>1. sender \in SenderStates
        BY DEF SsInv, SendInv
      <3>2. sender'.epoch = sender.epoch /\ sender'.at = "write"
        BY <2>3, <3>1 DEF SenderStates
      <3>3. AtSender(e)' = AtSender(e)
        BY <1>1, <3>2 DEF AtSender
      <3> QED
        BY <1>1, <2>1, <2>3, <3>3 DEF Quiet
    <2> QED
      BY <2>2, <2>3 DEF CheckConn
  <1> QED
    BY <1>1, <1>2, <1>3, DaemonAside

\* WriteSearch: the request is on the wire, and the connection's; or it is tried again.
LEMMA WriteKeepsLedger ==
    ASSUME SsInv, LedgerInv, SsInv', WriteSearch PROVE LedgerInv'
  <1> USE DEF daemonVars
  <1>1. UNCHANGED <<asked, requests, downward, client, tasks, queue>> /\ sender.at = "write"
    BY DEF WriteSearch
  <1>2. /\ conn \in Conns /\ sender.epoch \in Epochs /\ sender \in SenderStates
        /\ upward \in [Conns -> Seq(Epochs)]
    BY <1>1 DEF SsInv, SendInv, WireInv
  <1>3. PICK k \in Conns : k = conn
    BY <1>2
  <1>4. \A d \in Conns : IsFiniteSet(tasks'[d])
    BY <1>1 DEF LedgerInv
  <1>5. CASE client[conn].at # "closed"
    <2>1. upward' = [upward EXCEPT ![conn] = Append(@, sender.epoch)] /\ sender' = Idle /\ UNCHANGED events
      BY <1>5 DEF WriteSearch
    <2>2. upward'[k] = Append(upward[k], sender.epoch) /\ \A d \in Conns \ {k} : upward'[d] = upward[d]
      BY <1>3, <1>2, <2>1
    <2>3. ASSUME NEW e \in Epochs PROVE Told(events'[e], asked'[e]) /\ \E g \in Ledgers : Balanced(g, e)'
      <3>1. PICK p \in 0..1 : p = IF sender.epoch = e THEN 1 ELSE 0
        OBVIOUS
      <3> DEFINE a == 0 - p
                 b == 0
      <3>2. /\ asked[e] \in Nat /\ asked[e] \in 0..MaxSends /\ Elsewhere(e) \in Nat /\ Told(events[e], asked[e])
            /\ Occ(events[e], "Final") \in Nat /\ Occ(requests, e) \in Nat
        BY Counts
      <3>3. AtSender(e) = p /\ AtSender(e)' = 0
        BY <1>1, <2>1, <3>1 DEF AtSender, Idle
      <3>4. p \in 0..1
        OBVIOUS
      <3>5. Elsewhere(e)' = Elsewhere(e) - p /\ Elsewhere(e)' \in Nat
        <4>1. Elsewhere(e)' = Occ(events[e], "Final") + 0 + Occ(requests, e)
          BY <1>1, <2>1, <3>3 DEF Elsewhere
        <4>2. Elsewhere(e) = Occ(events[e], "Final") + p + Occ(requests, e)
          BY <3>3 DEF Elsewhere
        <4> QED
          BY <3>2, <3>4, <4>1, <4>2
      <3>6. Occ(upward'[k], e) = Occ(upward[k], e) + p
        BY <1>2, <2>2, <3>1, OccAppended
      <3>7. Owed(k, e)' = Owed(k, e) + p
        <4>1. /\ Cardinality(Unfinished(k, e)) \in Nat /\ Installing(k, e) \in 0..1 /\ Occ(upward[k], e) \in Nat
          BY <1>2, CountsOf
        <4> DEFINE u == Cardinality(Unfinished(k, e))
                   i == Installing(k, e)
                   o == Occ(upward[k], e)
        <4>2. Owed(k, e) = u + i + o
          BY DEF Owed
        <4>3. Owed(k, e)' = u + i + (o + p)
          BY <1>1, <3>6 DEF Owed, Unfinished, Installing
        <4> HIDE DEF u, i, o
        <4> QED
          BY <3>4, <4>1, <4>2, <4>3 DEF u, i, o
      <3>8. ASSUME NEW n \in Nat, Covers(n, k, e) PROVE n + b - a \in Nat /\ Covers(n + b - a, k, e)'
        <4> DEFINE m == n + p
                   d == downward[k]
                   q == queue[k]
        <4>1. /\ d \in Seq(Frames) /\ q \in Seq(Frames) /\ FinalsIn(d, q, e) \in Nat /\ Owed(k, e) \in Nat
          BY <1>2, CountsOf
        <4>2. InOrder(n, d, q, e) /\ FinalsIn(d, q, e) + Owed(k, e) <= n
          BY <3>8 DEF Covers
        <4>3. m \in Nat /\ n <= m /\ n + b - a = m
          BY <3>4
        <4> HIDE DEF m, d, q
        <4>4. InOrder(m, d, q, e)
          BY <4>1, <4>2, <4>3, MoreCovers
        <4>5. FinalsIn(d, q, e) + Owed(k, e)' <= m
          BY <3>4, <3>7, <4>1, <4>2 DEF m
        <4>6. Covers(m, k, e)'
          BY <1>1, <4>4, <4>5 DEF Covers, d, q, m
        <4> HIDE DEF a, b
        <4>7. Covers(n + b - a, k, e)'
          BY <4>3, <4>6
        <4> QED
          BY <4>3, <4>7
      <3>9. \A d \in Conns \ {k} : \A n \in Nat : Covers(n, d, e) => Covers(n, d, e)'
        <4> SUFFICES ASSUME NEW d \in Conns \ {k} PROVE Kept(d, e)
          BY DEF Kept
        <4> QED
          BY <1>1, <2>2, Aside
      <3>10. PICK f \in Ledgers : Balanced(f, e)
        BY DEF LedgerInv
      <3>11. /\ k \in 0..MaxConns /\ 0 < k /\ a \in Int /\ b \in Int /\ asked[e] + b <= asked'[e] /\ asked'[e] = asked[e]
             /\ Elsewhere(e)' <= Elsewhere(e) + (IF 0 < k THEN a ELSE b)
        BY <1>1, <1>2, <3>2, <3>4, <3>5, SearchAssumption DEF Conns
      <3> HIDE DEF a, b
      <3>12. \E g \in Ledgers : Balanced(g, e)'
        BY <1>2, <3>2, <3>5, <3>8, <3>9, <3>10, <3>11, Rebalanced
      <3> QED
        BY <2>1, <3>2, <3>11, <3>12
    <2> QED
      BY <1>4, <2>3 DEF LedgerInv
  <1>6. CASE client[conn].at = "closed"
    <2>1. UNCHANGED upward
      BY <1>6 DEF WriteSearch
    <2>2. ASSUME NEW e \in Epochs
          PROVE  Quiet(e) /\ AtSender(e)' + Occ(requests', e) <= AtSender(e) + Occ(requests, e)
      <3>1. AtSender(e) \in 0..1 /\ Occ(requests, e) \in Nat
        BY Counts
      <3>2. CASE GiveUp
        BY <1>1, <3>2, GivenUpQuietly
      <3>3. CASE sender' = [sender EXCEPT !.at = "check", !.tries = 1] /\ UNCHANGED events
        <4>1. sender'.epoch = sender.epoch /\ sender'.at = "check"
          BY <1>2, <3>3 DEF SenderStates
        <4>2. AtSender(e)' = AtSender(e)
          BY <1>1, <4>1 DEF AtSender
        <4> QED
          BY <1>1, <3>1, <3>3, <4>2 DEF Quiet
      <3> QED
        BY <1>6, <3>2, <3>3 DEF WriteSearch
    <2> QED
      BY <1>1, <2>1, <2>2, DaemonAside
  <1> QED
    BY <1>5, <1>6

\* While a chunk of epoch e is on its way to the launcher, an answer is still to come.
LEMMA AnswerToCome ==
    ASSUME SsInv, LedgerInv, NEW c \in Conns, NEW e \in Epochs, downward[c] # <<>>,
           Head(downward[c]) \in {FinalOf(e), InitialOf(e)}
    PROVE  Occ(events[e], "Final") < asked[e]
  <1>1. PICK f \in Ledgers : Balanced(f, e)
    BY DEF LedgerInv
  <1>2. /\ c \in 0..MaxConns /\ c - 1 \in 0..MaxConns /\ 0 <= c - 1 /\ c <= MaxConns
        /\ 0 \in 0..MaxConns /\ MaxConns \in 0..MaxConns
    BY SearchAssumption DEF Conns
  <1>3. /\ f[c] \in Nat /\ f[c - 1] \in Nat /\ f[0] \in Nat /\ f[MaxConns] \in Nat
        /\ f[0] <= f[c - 1] /\ f[c - 1] <= f[c] /\ f[c] <= f[MaxConns]
    <2>1. \A k \in 0..MaxConns : f[k] \in Nat
      BY SearchAssumption DEF Ledgers
    <2>2. \A k, l \in 0..MaxConns : k <= l => f[k] <= f[l]
      BY <1>1 DEF Balanced
    <2>3. c - 1 <= c
      BY SearchAssumption DEF Conns
    <2> QED
      BY <1>2, <2>1, <2>2, <2>3
  <1>4. /\ asked[e] \in Nat /\ Occ(events[e], "Final") \in Nat /\ AtSender(e) \in 0..1 /\ Occ(requests, e) \in Nat
    BY Counts
  <1>5. Occ(events[e], "Final") <= f[0] /\ f[MaxConns] <= asked[e]
    <2>1. Elsewhere(e) <= f[0] /\ f[MaxConns] <= asked[e]
      BY <1>1 DEF Balanced
    <2> QED
      BY <1>3, <1>4, <2>1 DEF Elsewhere
  <1>6. 0 < f[c] - f[c - 1]
    <2>1. PICK n \in Nat : n = f[c] - f[c - 1]
      BY <1>3
    <2>2. InOrder(n, downward[c], queue[c], e) /\ FinalsIn(downward[c], queue[c], e) + Owed(c, e) <= n
      BY <1>1, <2>1 DEF Balanced, Covers
    <2>3. downward[c] \in Seq(Frames) /\ queue[c] \in Seq(Frames) /\ Owed(c, e) \in Nat
      BY CountsOf
    <2> DEFINE p == IF Head(downward[c]) = FinalOf(e) THEN 1 ELSE 0
               m == n - p
    <2>4. /\ InOrder(m, Tail(downward[c]), queue[c], e)
          /\ FinalsIn(downward[c], queue[c], e) = FinalsIn(Tail(downward[c]), queue[c], e) + p
          /\ Head(downward[c]) = InitialOf(e) => 0 < n
      BY <2>2, <2>3, ReadInOrder
    <2>5. CASE Head(downward[c]) = InitialOf(e)
      BY <2>1, <2>4, <2>5
    <2>6. CASE Head(downward[c]) = FinalOf(e)
      <3>1. FinalsIn(Tail(downward[c]), queue[c], e) \in Nat
        <4>1. Tail(downward[c]) \in Seq(Frames)
          BY <2>3, HeadTailProperties
        <4>2. Occ(Tail(downward[c]), FinalOf(e)) \in Nat /\ Occ(queue[c], FinalOf(e)) \in Nat
          BY <2>3, <4>1, OccTypes
        <4> QED
          BY <4>2 DEF FinalsIn
      <3>2. p = 1
        BY <2>6
      <3> HIDE DEF p, m
      <3> QED
        BY <2>1, <2>2, <2>3, <2>4, <3>1, <3>2
    <2> QED
      BY <2>5, <2>6
  <1> QED
    BY <1>3, <1>4, <1>5, <1>6

\* ReadFrame: a Final that is delivered leaves the connection's share for the answers.
LEMMA ReadKeepsLedger ==
    ASSUME SsInv, LedgerInv, SsInv', NEW c \in Conns, ReadFrame(c) PROVE LedgerInv'
  <1> USE DEF daemonVars
  <1>1. /\ downward[c] # <<>> /\ downward' = [downward EXCEPT ![c] = Tail(@)]
        /\ UNCHANGED <<asked, requests, sender, upward, client, tasks, queue>>
    BY DEF ReadFrame
  <1>2. downward \in [Conns -> Seq(Frames)] /\ downward[c] \in Seq(Frames) /\ queue[c] \in Seq(Frames)
    BY DEF SsInv, WireInv
  <1>3. PICK h \in Frames : h = Head(downward[c])
    BY <1>1, <1>2, HeadTailProperties
  <1>4. downward'[c] = Tail(downward[c]) /\ \A d \in Conns \ {c} : downward'[d] = downward[d]
    BY <1>1, <1>2
  <1>5. \A d \in Conns : IsFiniteSet(tasks'[d])
    BY <1>1 DEF LedgerInv
  <1>6. events \in [Epochs -> Seq(Reports)] /\ session \in Epochs /\ lastSent \in 0..MaxEpoch
    BY DEF SsInv, ReadInv, SendInv
  <1>7. ASSUME NEW e \in Epochs PROVE Told(events'[e], asked'[e]) /\ \E g \in Ledgers : Balanced(g, e)'
    <2>1. PICK p \in 0..1 : p = IF h = FinalOf(e) THEN 1 ELSE 0
      OBVIOUS
    <2>2. /\ asked[e] \in Nat /\ asked[e] \in 0..MaxSends /\ Elsewhere(e) \in Nat /\ Told(events[e], asked[e])
          /\ Occ(events[e], "Final") \in Nat /\ AtSender(e) \in 0..1 /\ Occ(requests, e) \in Nat
      BY Counts
    <2>3. ASSUME NEW n \in Nat, Covers(n, c, e) PROVE n - p \in Nat /\ Covers(n - p, c, e)' /\ Covers(n, c, e)'
      <3> DEFINE d == downward[c]
                 q == queue[c]
                 s == Tail(downward[c])
                 m == n - p
      <3>1. InOrder(n, d, q, e) /\ FinalsIn(d, q, e) + Owed(c, e) <= n
        BY <2>3 DEF Covers
      <3>2. Owed(c, e) \in Nat
        BY CountsOf
      <3>3. InOrder(m, s, q, e) /\ FinalsIn(d, q, e) = FinalsIn(s, q, e) + p
        BY <1>1, <1>2, <1>3, <2>1, <3>1, ReadInOrder
      <3>4. s \in Seq(Frames) /\ q \in Seq(Frames)
        BY <1>1, <1>2, HeadTailProperties
      <3>5. InOrder(n, s, q, e) /\ FinalsIn(s, q, e) \in Nat
        <4>1. m \in Int /\ n \in Int /\ m <= n
          OBVIOUS
        <4> HIDE DEF m, s, q
        <4> QED
          BY <3>3, <3>4, <4>1, MoreCovers
      <3>6. Owed(c, e)' = Owed(c, e)
        BY <1>1 DEF Owed, Unfinished, Installing
      <3>7. FinalsIn(s, q, e) + Owed(c, e) <= n - p /\ n - p \in Nat /\ FinalsIn(s, q, e) + Owed(c, e) <= n
        <4> HIDE DEF s, q, d
        <4> QED
          BY <3>1, <3>2, <3>3, <3>5
      <3>8. Covers(n - p, c, e)' /\ Covers(n, c, e)'
        BY <1>1, <1>4, <3>3, <3>5, <3>6, <3>7 DEF Covers
      <3> QED
        BY <3>7, <3>8
    <2>4. \A d \in Conns : Kept(d, e)
      <3>1. Kept(c, e)
        BY <2>3 DEF Kept
      <3>2. \A d \in Conns \ {c} : Kept(d, e)
        BY <1>1, <1>4, Aside
      <3> QED
        BY <3>1, <3>2
    <2>5. asked'[e] = asked[e] /\ AtSender(e)' = AtSender(e) /\ Occ(requests', e) = Occ(requests, e)
      BY <1>1 DEF AtSender
    <2>6. CASE Quiet(e)
      <3>1. AtSender(e)' + Occ(requests', e) <= AtSender(e) + Occ(requests, e)
        BY <2>2, <2>5
      <3> QED
        BY <1>5, <2>4, <2>5, <2>6, <3>1, QuietlySettled
    <2>7. CASE events'[e] = Append(events[e], h.what) /\ h \in {FinalOf(e), InitialOf(e)}
      <3>1. h.what \in Reports /\ (h.what = "Final" <=> h = FinalOf(e))
        BY <2>7 DEF Reports, Chunks, FinalOf, InitialOf
      <3>2. Occ(events[e], "Final") < asked[e]
        BY <1>1, <1>3, <2>7, AnswerToCome
      <3>3. events[e] \in Seq(Reports)
        BY <1>6
      <3>4. Told(Append(events[e], h.what), asked[e])
        BY <2>2, <3>1, <3>2, <3>3, ToldAppended
      <3>5. Occ(events'[e], "Final") = Occ(events[e], "Final") + p
        <4>1. Occ(Append(events[e], h.what), "Final") = Occ(events[e], "Final") + (IF h.what = "Final" THEN 1 ELSE 0)
          BY <3>1, <3>3, OccAppended
        <4> QED
          BY <2>1, <2>7, <3>1, <4>1
      <3>6. Elsewhere(e)' = Elsewhere(e) + p /\ Elsewhere(e)' \in Nat
        <4>1. Elsewhere(e) = Occ(events[e], "Final") + AtSender(e) + Occ(requests, e)
          BY DEF Elsewhere
        <4>2. Elsewhere(e)' = (Occ(events[e], "Final") + p) + AtSender(e) + Occ(requests, e)
          BY <2>5, <3>5 DEF Elsewhere
        <4> QED
          BY <2>2, <4>1, <4>2
      <3> DEFINE b == 0
      <3>7. /\ c \in 0..MaxConns /\ 0 < c /\ p \in Int /\ b \in Int /\ asked[e] + b <= asked'[e] /\ asked'[e] = asked[e]
            /\ Elsewhere(e)' <= Elsewhere(e) + (IF 0 < c THEN p ELSE b)
        BY <2>2, <2>5, <3>6, SearchAssumption DEF Conns
      <3>8. ASSUME NEW n \in Nat, Covers(n, c, e) PROVE n + b - p \in Nat /\ Covers(n + b - p, c, e)'
        <4>1. n + b - p = n - p
          OBVIOUS
        <4>2. n - p \in Nat /\ Covers(n - p, c, e)'
          BY <2>3, <3>8
        <4> HIDE DEF b
        <4> QED
          BY <4>1, <4>2
      <3>9. \A d \in Conns \ {c} : \A n \in Nat : Covers(n, d, e) => Covers(n, d, e)'
        BY <2>4 DEF Kept
      <3>10. PICK f \in Ledgers : Balanced(f, e)
        BY DEF LedgerInv
      <3> HIDE DEF b
      <3>11. \E g \in Ledgers : Balanced(g, e)'
        BY <2>2, <3>6, <3>7, <3>8, <3>9, <3>10, Rebalanced
      <3> QED
        BY <2>7, <3>4, <3>7, <3>11
    <2>8. Quiet(e) \/ (events'[e] = Append(events[e], h.what) /\ h \in {FinalOf(e), InitialOf(e)})
      <3>1. CASE h.what \in Chunks /\ Deliver(c, h)
        <4>1. UNCHANGED events \/ (h.epoch = session /\ events' = [events EXCEPT ![session] = Append(@, h.what)])
          BY <3>1 DEF Deliver, Report
        <4>2. CASE e = session /\ h.epoch = session
          <5>1. h \in {FinalOf(e), InitialOf(e)}
            BY <3>1, <4>2, ChunksDiffer DEF Chunks
          <5> QED
            BY <1>6, <4>1, <4>2, <5>1 DEF Quiet
        <4>3. CASE ~(e = session /\ h.epoch = session)
          BY <1>6, <4>1, <4>3 DEF Quiet
        <4> QED
          BY <4>2, <4>3
      <3>2. CASE UNCHANGED events
        BY <3>2 DEF Quiet
      <3>3. CASE Leave(c)
        <4>1. UNCHANGED events \/ events' = [events EXCEPT ![lastSent] = Append(@, "failed")]
          BY <3>3 DEF Leave, Report
        <4> QED
          BY <1>6, <4>1 DEF Quiet
      <3> QED
        BY <1>3, <3>1, <3>2, <3>3 DEF ReadFrame, Chunks, Frames
    <2> QED
      BY <2>6, <2>7, <2>8
  <1> QED
    BY <1>5, <1>7 DEF LedgerInv

\* The other steps of a reader: it reports a failure, that it is late, or nothing.
LEMMA ReaderKeepsLedger ==
    ASSUME SsInv, LedgerInv, SsInv', NEW c \in Conns, Reader(c) PROVE LedgerInv'
  <1> USE DEF daemonVars
  <1>1. CASE ReadFrame(c)
    BY <1>1, ReadKeepsLedger
  <1>2. CASE ReadEof(c) \/ Watchdog(c) \/ DropGuard(c)
    <2>1. UNCHANGED <<asked, requests, sender, upward, downward, client, tasks, queue>>
      BY <1>2 DEF ReadEof, Watchdog, DropGuard
    <2>2. \/ UNCHANGED events
          \/ \E y \in {"failed", "timeout"} : events' = [events EXCEPT ![lastSent] = Append(@, y)]
      BY <1>2 DEF ReadEof, Watchdog, DropGuard, Leave, Report
    <2>3. events \in [Epochs -> Seq(Reports)]
      BY DEF SsInv, ReadInv
    <2>4. ASSUME NEW e \in Epochs
          PROVE  Quiet(e) /\ AtSender(e)' + Occ(requests', e) <= AtSender(e) + Occ(requests, e)
      <3>1. AtSender(e) \in 0..1 /\ Occ(requests, e) \in Nat
        BY Counts
      <3>2. Quiet(e)
        BY <2>2, <2>3 DEF Quiet
      <3> QED
        BY <2>1, <3>1, <3>2 DEF AtSender
    <2> QED
      BY <2>1, <2>4, DaemonAside
  <1> QED
    BY <1>1, <1>2 DEF Reader

--------------------------------------------------------------------------------
\* At the start nothing is asked for and nothing is under way.
LEMMA LedgerInit == SsInit => LedgerInv
  <1> SUFFICES ASSUME SsInit PROVE LedgerInv
    OBVIOUS
  <1> DEFINE f == [k \in 0..MaxConns |-> 0]
             z == <<>>
  <1>1. \A x : Occ(z, x) = 0
    <2> SUFFICES ASSUME NEW x PROVE Occ(z, x) = 0
      OBVIOUS
    <2>1. {j \in DOMAIN z : z[j] = x} = {}
      OBVIOUS
    <2> QED
      BY <2>1, FS_EmptySet DEF Occ
  <1>2. ASSUME NEW e \in Epochs
        PROVE  /\ asked[e] = 0 /\ events[e] = z /\ requests = z /\ AtSender(e) = 0
    BY DEF SsInit, Idle, AtSender
  <1>3. ASSUME NEW c \in Conns
        PROVE  downward[c] = z /\ queue[c] = z /\ upward[c] = z /\ tasks[c] = {} /\ client[c].at = "none"
    BY DEF SsInit, NoClient
  <1>4. ASSUME NEW e \in Epochs PROVE Told(events[e], asked[e])
    <2>1. Told(z, 0)
      <3>1. Occ(z, "Final") <= 0
        BY <1>1
      <3> QED
        BY <3>1 DEF Told
    <2> QED
      BY <1>2, <2>1
  <1>5. ASSUME NEW e \in Epochs, NEW c \in Conns PROVE Covers(0, c, e)
    <2>1. FinalsIn(z, z, e) = 0 /\ InOrder(0, z, z, e)
      BY <1>1 DEF FinalsIn, InOrder
    <2>2. Owed(c, e) = 0
      <3>1. Unfinished(c, e) = {} /\ Installing(c, e) = 0 /\ Occ(upward[c], e) = 0
        BY <1>1, <1>3 DEF Unfinished, Installing
      <3>2. Cardinality(Unfinished(c, e)) = 0
        BY <3>1, FS_EmptySet
      <3> QED
        BY <3>1, <3>2 DEF Owed
    <2> HIDE DEF z
    <2> QED
      BY <1>3, <2>1, <2>2 DEF Covers
  <1>6. ASSUME NEW e \in Epochs PROVE \E g \in Ledgers : Balanced(g, e)
    <2>1. f \in Ledgers
      BY SearchAssumption DEF Ledgers
    <2>2. \A k \in 0..MaxConns : f[k] = 0
      OBVIOUS
    <2>3. \A c \in Conns : c \in 0..MaxConns /\ c - 1 \in 0..MaxConns
      BY SearchAssumption DEF Conns
    <2>4. 0 \in 0..MaxConns /\ MaxConns \in 0..MaxConns
      BY SearchAssumption
    <2> HIDE DEF f
    <2>5. \A c \in Conns : f[c] - f[c - 1] = 0
      BY <2>2, <2>3
    <2>6. Elsewhere(e) = 0
      BY <1>1, <1>2 DEF Elsewhere
    <2>7. Balanced(f, e)
      BY <1>2, <1>5, <2>2, <2>4, <2>5, <2>6 DEF Balanced
    <2> QED
      BY <2>1, <2>7
  <1>7. \A c \in Conns : IsFiniteSet(tasks[c])
    BY <1>3, FS_EmptySet
  <1> QED
    BY <1>4, <1>6, <1>7 DEF LedgerInv

\* Every step keeps the ledger balanced.
LEMMA LedgerStep == SsInv /\ LedgerInv /\ [SsNext]_ssVars => LedgerInv'
  <1> SUFFICES ASSUME SsInv, LedgerInv, [SsNext]_ssVars PROVE LedgerInv'
    OBVIOUS
  <1>1. SsInv'
    BY SsInvStep
  <1>2. CASE UNCHANGED ssVars
    <2>1. UNCHANGED <<asked, requests, sender, events, upward, downward, client, tasks, queue>>
      BY <1>2 DEF ssVars, launcherVars, daemonVars
    <2> QED
      BY <2>1 DEF LedgerInv, Balanced, Elsewhere, AtSender, Covers, Owed, Unfinished, Installing
  <1>3. CASE Bump \/ Ask
    BY <1>1, <1>3, MainKeepsLedger
  <1>4. CASE Sender
    BY <1>1, <1>4, TakeRequestKeepsLedger, CheckConnKeepsLedger, WriteKeepsLedger DEF Sender
  <1>5. CASE Die
    <2> DEFINE cs == {c \in Conns : client[c].at # "none"}
    <2>1. cs \in SUBSET Conns /\ Closed(cs) /\ UNCHANGED <<asked, requests, sender, events, downward>>
      BY <1>5 DEF Die, launcherVars
    <2> HIDE DEF cs
    <2> QED
      BY <1>1, <2>1, ClosedKeepsLedger
  <1>6. CASE Start
    <2>1. UNCHANGED <<asked, requests, sender, events, upward, downward, client, tasks, queue>>
      BY <1>6 DEF Start, launcherVars, daemonVars
    <2> QED
      BY <2>1 DEF LedgerInv, Balanced, Elsewhere, AtSender, Covers, Owed, Unfinished, Installing
  <1>7. ASSUME NEW c \in Conns, Reader(c) \/ HandleClient(c) \/ SearchTask(c) \/ WriteResponse(c)
        PROVE  LedgerInv'
    <2>1. CASE Reader(c)
      BY <1>1, <2>1, ReaderKeepsLedger
    <2>2. CASE TakeSearch(c)
      BY <1>1, <2>2, TakeKeepsLedger
    <2>3. CASE InstallSearch(c)
      BY <1>1, <2>3, InstallKeepsLedger
    <2>4. CASE ClientGone(c)
      <3> DEFINE cs == {c}
      <3>1. cs \in SUBSET Conns /\ Closed(cs) /\ UNCHANGED <<asked, requests, sender, events, downward>>
        BY <2>4 DEF ClientGone, launcherVars
      <3> HIDE DEF cs
      <3> QED
        BY <1>1, <3>1, ClosedKeepsLedger
    <2>5. CASE SearchTask(c)
      BY <1>1, <2>5, SearchKeepsLedger
    <2>6. CASE WriteResponse(c)
      BY <1>1, <2>6, WriterKeepsLedger
    <2> QED
      BY <1>7, <2>1, <2>2, <2>3, <2>4, <2>5, <2>6 DEF HandleClient
  <1> QED
    BY <1>2, <1>3, <1>4, <1>5, <1>6, <1>7 DEF SsNext

\* Whatever the launcher, the wire and the daemon do.
LEMMA LedgerAlways == SsSpec => []LedgerInv
  BY LedgerInit, LedgerStep, SsInvAlways, PTL DEF SsSpec

\* A request is answered at most once (ipc.rs 11-13, main.rs 1579-1600): through
\* retries, reconnections and deaths of the daemon an epoch has no more Finals than
\* searches were asked for in it, and after its last Final no Initial takes its place.
\* On the daemon's side only the search in the slot runs on.
THEOREM AnsweredInOrder == SsSpec => []SearchesInOrder
  <1>1. SsInv /\ LedgerInv => AnsweredOnce
    <2> SUFFICES ASSUME SsInv, LedgerInv, NEW e \in Epochs
                 PROVE  /\ Count(e, "Final") <= asked[e]
                        /\ \A i \in DOMAIN events[e] : events[e][i] = "Initial" =>
                               Cardinality({j \in 1..i : events[e][j] = "Final"}) < asked[e]
      BY DEF AnsweredOnce
    <2>1. events[e] \in Seq(Reports) /\ Told(events[e], asked[e])
      BY Counts
    <2>2. Count(e, "Final") <= asked[e]
      BY <2>1 DEF Told, Occ, Count
    <2>3. ASSUME NEW i \in DOMAIN events[e], events[e][i] = "Initial"
          PROVE  Cardinality({j \in 1..i : events[e][j] = "Final"}) < asked[e]
      <3>1. DOMAIN events[e] = 1..Len(events[e]) /\ Len(events[e]) \in Nat
        BY <2>1, LenProperties
      <3>2. {j \in 1..i : events[e][j] = "Final"} = {j \in DOMAIN events[e] : j < i /\ events[e][j] = "Final"}
        BY <2>3, <3>1
      <3>3. Before(events[e], i, "Final") < asked[e]
        BY <2>1, <2>3 DEF Told
      <3> QED
        BY <3>2, <3>3 DEF Before
    <2> QED
      BY <2>2, <2>3
  <1> QED
    BY <1>1, SsInvAlways, LedgerAlways, OneSearchPerConnection, PTL DEF SearchesInOrder

--------------------------------------------------------------------------------
(***************************************************************************)
(* The result cache of the daemon.                                         *)
(***************************************************************************)
SearchStates ==
    [pc : {"idle"}] \cup [pc : {"waits"}, q : CrQueries, epoch : Nat, since : Nat]
    \cup [pc : {"found"}, q : CrQueries, epoch : Nat, since : Nat, gen : Nat]
    \cup [pc : {"done"}, gen : Nat, since : Nat]

Results == [q : CrQueries, epoch : Nat, gen : Nat]

\* What the cache keeps is at least as new as the epoch it is kept under.
EntriesKeepUp ==
    /\ crCache \subseteq Results /\ IsFiniteSet(crCache) /\ Cardinality(crCache) <= CrCapacity
    /\ \A e \in crCache : e.gen >= e.epoch

\* A search keeps the epoch it was asked in, which the reader has reached.
SearchKeepsUp(x) ==
    /\ x \in SearchStates
    /\ x.pc = "waits" => x.epoch = x.since /\ x.since <= crEpoch
    /\ x.pc = "found" => x.epoch = x.since /\ x.since <= x.gen
    /\ x.pc = "done" => x.since <= x.gen

\* The inductive invariant of the cache: the reader is never behind the epoch.
CrInv ==
    /\ crGen \in Nat /\ crEpoch \in Nat /\ crEpoch <= crGen /\ crGen <= CrMaxReloads
    /\ EntriesKeepUp
    /\ DOMAIN crSearch = CrSearchers /\ crSearch = [s \in CrSearchers |-> crSearch[s]]
    /\ \A s \in CrSearchers : SearchKeepsUp(crSearch[s])

\* The daemon starts with an empty cache.
LEMMA CrInvInit == CrInit => CrInv
  <1> SUFFICES ASSUME CrInit PROVE CrInv
    OBVIOUS
  <1>1. EntriesKeepUp
    BY CrAssumption, FS_EmptySet DEF EntriesKeepUp, CrInit
  <1>2. ASSUME NEW s \in CrSearchers PROVE SearchKeepsUp(crSearch[s])
    BY DEF CrInit, SearchKeepsUp, SearchStates, CrIdle
  <1> QED
    BY <1>1, <1>2, CrAssumption DEF CrInv, CrInit

\* One search moves on, the reader and its epoch stay: what the search becomes and
\* what the cache becomes is all there is to look at.
LEMMA OneSearch ==
    ASSUME CrInv, NEW s \in CrSearchers, NEW x,
           crSearch' = [crSearch EXCEPT ![s] = x], UNCHANGED <<crGen, crEpoch>>,
           SearchKeepsUp(x), EntriesKeepUp'
    PROVE  CrInv'
  <1>1. ASSUME NEW t \in CrSearchers PROVE SearchKeepsUp(crSearch[t])'
    <2>1. crSearch'[t] = IF t = s THEN x ELSE crSearch[t]
      BY DEF CrInv
    <2> QED
      BY <2>1 DEF CrInv, SearchKeepsUp
  <1> QED
    BY <1>1 DEF CrInv

\* An answer from the cache is as new as its key, which is the epoch of now.
LEMMA BeginKeepsInv ==
    ASSUME CrInv, NEW s \in CrSearchers, NEW q \in CrQueries, CrBegin(s, q)
    PROVE  CrInv'
  <1>1. EntriesKeepUp'
    BY DEF CrBegin, CrInv, EntriesKeepUp
  <1>2. CASE Cached(q, crEpoch) # {}
    <2> DEFINE e == CHOOSE e \in Cached(q, crEpoch) : TRUE
    <2>1. e \in crCache /\ e.epoch = crEpoch
      BY <1>2 DEF Cached
    <2>2. e.gen \in Nat /\ e.gen >= crEpoch
      BY <2>1 DEF CrInv, EntriesKeepUp, Results
    <2> DEFINE x == [pc |-> "done", gen |-> e.gen, since |-> crEpoch]
    <2>3. SearchKeepsUp(x)
      BY <2>2 DEF SearchKeepsUp, SearchStates, CrInv
    <2>4. crSearch' = [crSearch EXCEPT ![s] = x] /\ UNCHANGED <<crGen, crEpoch>>
      BY <1>2 DEF CrBegin
    <2> HIDE DEF x
    <2> QED
      BY <1>1, <2>3, <2>4, OneSearch
  <1>3. CASE Cached(q, crEpoch) = {}
    <2> DEFINE x == [pc |-> "waits", q |-> q, epoch |-> crEpoch, since |-> crEpoch]
    <2>1. SearchKeepsUp(x)
      BY DEF SearchKeepsUp, SearchStates, CrInv
    <2>2. crSearch' = [crSearch EXCEPT ![s] = x] /\ UNCHANGED <<crGen, crEpoch>>
      BY <1>3 DEF CrBegin
    <2> HIDE DEF x
    <2> QED
      BY <1>1, <2>1, <2>2, OneSearch
  <1> QED
    BY <1>2, <1>3

\* The reader is searched after the epoch was read, so it has reached it.
LEMMA RunKeepsInv ==
    ASSUME CrInv, NEW s \in CrSearchers, CrRuns(s)
    PROVE  CrInv'
  <1> DEFINE o == crSearch[s]
             x == [pc |-> "found", q |-> o.q, epoch |-> o.epoch, since |-> o.since, gen |-> crGen]
  <1>1. EntriesKeepUp'
    BY DEF CrRuns, CrInv, EntriesKeepUp
  <1>2. SearchKeepsUp(o) /\ o.pc = "waits"
    BY DEF CrInv, CrRuns
  <1>3. o \in [pc : {"waits"}, q : CrQueries, epoch : Nat, since : Nat]
    BY <1>2 DEF SearchKeepsUp, SearchStates
  <1>4. SearchKeepsUp(x)
    BY <1>2, <1>3 DEF SearchKeepsUp, SearchStates, CrInv
  <1>5. crSearch' = [crSearch EXCEPT ![s] = x] /\ UNCHANGED <<crGen, crEpoch>>
    BY DEF CrRuns, CrInv
  <1> HIDE DEF x
  <1> QED
    BY <1>1, <1>4, <1>5, OneSearch

\* A result is kept under the epoch of its search, also by one that was superseded,
\* and within the capacity.
LEMMA PutKeepsInv ==
    ASSUME CrInv, NEW s \in CrSearchers, CrPut(s)
    PROVE  CrInv'
  <1> DEFINE o == crSearch[s]
             x == [pc |-> "done", gen |-> o.gen, since |-> o.since]
             new == [q |-> o.q, epoch |-> o.epoch, gen |-> o.gen]
             had == MadeRoom(crCache) \ {e \in crCache : e.q = o.q /\ e.epoch = o.epoch}
  <1>1. SearchKeepsUp(o) /\ o.pc = "found"
    BY DEF CrInv, CrPut
  <1>2. o \in [pc : {"found"}, q : CrQueries, epoch : Nat, since : Nat, gen : Nat]
    BY <1>1 DEF SearchKeepsUp, SearchStates
  <1>3. new \in Results /\ new.gen >= new.epoch
    BY <1>1, <1>2 DEF SearchKeepsUp, Results
  <1>4. crCache' = had \cup {new}
    BY DEF CrPut, CrKey
  <1>5. /\ had \subseteq crCache
        /\ IsFiniteSet(had) /\ Cardinality(had) \in Nat /\ Cardinality(had) + 1 <= CrCapacity
    <2> DEFINE room == MadeRoom(crCache)
    <2>1. IsFiniteSet(crCache) /\ Cardinality(crCache) \in Nat
      BY FS_CardinalityType DEF CrInv, EntriesKeepUp
    <2>2. /\ room \subseteq crCache /\ IsFiniteSet(room)
          /\ Cardinality(room) \in Nat /\ Cardinality(room) + 1 <= CrCapacity
      <3>1. CASE Cardinality(crCache) >= CrCapacity
        BY <3>1, FS_EmptySet, CrAssumption DEF MadeRoom
      <3>2. CASE ~ (Cardinality(crCache) >= CrCapacity)
        BY <3>2, <2>1, CrAssumption DEF MadeRoom
      <3> QED
        BY <3>1, <3>2
    <2>3. had \in SUBSET room
      OBVIOUS
    <2> HIDE DEF had, room
    <2>4. IsFiniteSet(had) /\ Cardinality(had) <= Cardinality(room)
      BY <2>2, <2>3, FS_Subset
    <2> QED
      BY <2>2, <2>3, <2>4, FS_CardinalityType, CrAssumption
  <1>6. EntriesKeepUp'
    <2> HIDE DEF had, new
    <2>1. IsFiniteSet(had \cup {new}) /\ Cardinality(had \cup {new}) <= CrCapacity
      BY <1>5, FS_AddElement, CrAssumption
    <2> QED
      BY <1>3, <1>4, <1>5, <2>1 DEF CrInv, EntriesKeepUp
  <1>7. SearchKeepsUp(x)
    BY <1>1, <1>2 DEF SearchKeepsUp, SearchStates
  <1>8. crSearch' = [crSearch EXCEPT ![s] = x] /\ UNCHANGED <<crGen, crEpoch>>
    BY DEF CrPut, CrInv
  <1> HIDE DEF x
  <1> QED
    BY <1>6, <1>7, <1>8, OneSearch

\* Every step of a reload and of a search keeps the invariant: the reader reloads
\* before the epoch follows.
LEMMA CrInvStep == CrInv /\ [CrNext]_crVars => CrInv'
  <1> SUFFICES ASSUME CrInv, [CrNext]_crVars PROVE CrInv'
    OBVIOUS
  <1>1. CASE UNCHANGED crVars \/ ReaderReloads \/ EpochFollows
    <2>1. EntriesKeepUp'
      BY <1>1 DEF crVars, ReaderReloads, EpochFollows, CrInv, EntriesKeepUp
    <2>2. /\ crGen' \in Nat /\ crEpoch' \in Nat /\ crEpoch' <= crGen' /\ crGen' <= CrMaxReloads
          /\ crEpoch <= crEpoch' /\ crSearch' = crSearch
      BY <1>1, CrAssumption DEF crVars, ReaderReloads, EpochFollows, CrInv
    <2>3. ASSUME NEW s \in CrSearchers PROVE SearchKeepsUp(crSearch[s])'
      <3>1. SearchKeepsUp(crSearch[s]) /\ crSearch'[s] = crSearch[s]
        BY <2>2 DEF CrInv
      <3>2. crSearch[s].pc = "waits" => crSearch[s].since \in Nat
        BY <3>1 DEF SearchKeepsUp, SearchStates
      <3> QED
        BY <2>2, <3>1, <3>2 DEF SearchKeepsUp, CrInv
    <2> QED
      BY <2>1, <2>2, <2>3 DEF CrInv
  <1>2. ASSUME NEW s \in CrSearchers, CrReturn(s) PROVE CrInv'
    <2>1. EntriesKeepUp'
      BY <1>2 DEF CrReturn, CrInv, EntriesKeepUp
    <2>2. SearchKeepsUp(CrIdle)
      BY DEF SearchKeepsUp, SearchStates, CrIdle
    <2> QED
      BY <1>2, <2>1, <2>2, OneSearch DEF CrReturn
  <1> QED
    BY <1>1, <1>2, BeginKeepsInv, RunKeepsInv, PutKeepsInv DEF CrNext

\* SearchHandle::search: whichever search filled the cache, on whichever side of a
\* reload, no answer is older than the last reload announced before it was asked.
THEOREM CacheFresh == CrSpec => []CacheNotStale
  <1>1. CrInv => CacheNotStale
    <2> SUFFICES ASSUME CrInv, NEW s \in CrSearchers, crSearch[s].pc = "done"
                 PROVE  crSearch[s].gen >= crSearch[s].since
      BY DEF CacheNotStale
    <2>1. SearchKeepsUp(crSearch[s])
      BY DEF CrInv
    <2> QED
      BY <2>1 DEF SearchKeepsUp, SearchStates
  <1> QED
    BY <1>1, CrInvInit, CrInvStep, PTL DEF CrSpec

\* The types of the cache and its searches; the cache holds no more results than
\* RESULT_CACHE_MAX.
THEOREM CacheTyped == CrSpec => []CrTypeOK
  <1>1. CrInv => CrTypeOK
    <2> SUFFICES ASSUME CrInv PROVE CrTypeOK
      OBVIOUS
    <2>1. crSearch \in [CrSearchers -> SearchStates]
      BY DEF CrInv, SearchKeepsUp
    <2> QED
      BY <2>1 DEF CrInv, CrTypeOK, EntriesKeepUp, SearchStates
  <1> QED
    BY <1>1, CrInvInit, CrInvStep, PTL DEF CrSpec

(***************************************************************************)
(* The ranking stores: what is on disk after every crash.  A save runs     *)
(* under the lock of its store, so what it is about to rename is what the  *)
(* memory holds; and a store that is not being saved has forgotten on disk *)
(* whatever it has forgotten in memory.                                    *)
(***************************************************************************)
HideReqs  == [op : {"hide"}, doc : RsDocs, hidden : BOOLEAN]
ResetReqs == [op : {"reset", "reset2"}, doc : RsDocs, again : BOOLEAN]
IsStores(m) ==
    /\ DOMAIN m = RsStores
    /\ m.visits \in [RsDocs -> Seq(Int)] /\ m.latch \in [RsDocs -> Nat] /\ m.block \subseteq RsDocs

RsTyped ==
    /\ IsStores(rsMem) /\ IsStores(rsDisk) /\ DOMAIN rsTmp = RsStores /\ rsDay \in Int
    /\ rsReq \in [RsClients -> {RsNoReq} \cup HideReqs \cup ResetReqs]
    /\ rsPromise \in [hide : SUBSET RsDocs, reset : SUBSET RsDocs, click : SUBSET RsDocs]

\* A store under its lock does not change: what is written is what it holds.
SavesAreCurrent ==
    \A s \in RsStores :
        rsTmp[s] # NoTmp => rsTmp[s] \in [by : RsClients \cup {"main"}, value : {rsMem[s]}]

\* Nothing of a process that does not serve is under way.
DownIsQuiet ==
    rsUp # "up" => /\ \A s \in RsStores : rsTmp[s] = NoTmp
                   /\ \A c \in RsClients : rsReq[c] = RsNoReq
                   /\ rsMem = RsEmpty

\* The blocklist on disk is the promised one, and the one in memory but for the
\* request that is saving it.
BlockInv ==
    /\ rsDisk.block = rsPromise.hide
    /\ rsUp = "up" =>
           IF rsTmp["block"] = NoTmp THEN rsMem.block = rsDisk.block
           ELSE \E c \in RsClients :
                    /\ rsTmp["block"].by = c /\ rsReq[c].op = "hide"
                    /\ rsMem.block = IF rsReq[c].hidden THEN rsDisk.block \cup {rsReq[c].doc}
                                                        ELSE rsDisk.block \ {rsReq[c].doc}

\* What a store that is not being saved has lost is lost on disk.
ForgottenOnDisk ==
    rsUp = "up" =>
        /\ rsTmp["visits"] = NoTmp => \A d \in RsDocs : rsMem.visits[d] = <<>> => rsDisk.visits[d] = <<>>
        /\ rsTmp["latch"] = NoTmp => \A d \in RsDocs : rsMem.latch[d] = 0 => rsDisk.latch[d] = 0

\* How far a reset has come that no click took back.
VisitsGone(c, d) ==
    rsMem.visits[d] = <<>> /\ (rsTmp["visits"].by = c \/ rsDisk.visits[d] = <<>>)
LatchGone(c, d) ==
    rsMem.latch[d] = 0 /\ (rsTmp["latch"].by = c \/ rsDisk.latch[d] = 0)
ResetOf(c) ==
    /\ rsReq[c].op = "reset" /\ ~ rsReq[c].again => VisitsGone(c, rsReq[c].doc)
    /\ rsReq[c].op = "reset2" /\ ~ rsReq[c].again =>
           /\ rsMem.visits[rsReq[c].doc] = <<>> /\ rsDisk.visits[rsReq[c].doc] = <<>>
           /\ LatchGone(c, rsReq[c].doc)
ResetsUnderWay == \A c \in RsClients : ResetOf(c)

\* An acknowledged reset holds on disk and in memory, so no later save undoes it.
ResetsDone ==
    \A d \in rsPromise.reset :
        /\ rsDisk.visits[d] = <<>> /\ rsDisk.latch[d] = 0
        /\ rsMem.visits[d] = <<>> /\ rsMem.latch[d] = 0

\* What was learnt when the shutdown began stays in memory, and is on disk once the
\* visits are saved.
LearntInv ==
    /\ rsUp = "up" /\ rsStop # "no" => \A d \in rsPromise.click : rsMem.visits[d] # <<>>
    /\ rsStop \in {"latch", "log", "done"} => \A d \in rsPromise.click : rsDisk.visits[d] # <<>>
    /\ rsStop \in {"no", "visits", "latch", "log", "done"}
    /\ rsUp \notin {"up", "down"} => rsStop = "no"

\* The stamps come after the index they speak of.
StampsAreLast ==
    /\ rsUp \in {"down", "opening", "wiped", "created", "versioned", "up"}
    /\ rsSchema # <<>>
    /\ rsDir \in [meta : BOOLEAN, version : Int, print : Seq(Int), schema : Seq(Int)]
    /\ rsSchema \in Seq(Int)
    /\ rsDir.meta /\ rsDir.print # <<>> => rsDir.schema = rsDir.print
    /\ rsUp = "wiped" => rsDir = NoDir
    /\ rsUp \in {"created", "versioned", "up"} => rsDir.meta /\ rsDir.schema = rsSchema

StoresInv ==
    /\ RsTyped /\ SavesAreCurrent /\ DownIsQuiet /\ BlockInv /\ ForgottenOnDisk
    /\ ResetsUnderWay /\ ResetsDone /\ LearntInv /\ StampsAreLast

\* A start changes no file: the program and the stamps it compares are what they are.
LEMMA SchemaHasVersion == StampsAreLast => rsSchema[1] \in Int
  BY DEF StampsAreLast

\* A request that resets a document is of that form, one that hides likewise.
LEMMA RequestForms ==
    ASSUME RsTyped, NEW c \in RsClients
    PROVE  /\ rsReq[c].op \in {"reset", "reset2"} => rsReq[c] \in ResetReqs
           /\ rsReq[c].op = "hide" => rsReq[c] \in HideReqs
  BY DEF RsTyped, ResetReqs, HideReqs, RsNoReq

\* A save that ends leaves on disk what the store holds, and no other file changed.
LEMMA SaveWrites ==
    ASSUME RsTyped, SavesAreCurrent, NEW s \in RsStores, NEW who, who # "none", SaveEnds(s, who)
    PROVE  /\ rsDisk' = [rsDisk EXCEPT ![s] = rsMem[s]]
           /\ rsTmp' = [rsTmp EXCEPT ![s] = NoTmp]
           /\ rsTmp[s] # NoTmp /\ rsTmp[s].by = who
           /\ IsStores(rsDisk') /\ DOMAIN rsTmp' = RsStores
  <1>1. rsTmp[s] # NoTmp /\ rsTmp[s].by = who
    BY DEF SaveEnds, NoTmp
  <1>2. rsTmp[s].value = rsMem[s]
    BY <1>1 DEF SavesAreCurrent
  <1>3. /\ rsDisk' = [rsDisk EXCEPT ![s] = rsMem[s]]
        /\ rsTmp' = [rsTmp EXCEPT ![s] = NoTmp]
    BY <1>2 DEF SaveEnds
  <1>4. IsStores(rsDisk') /\ DOMAIN rsTmp' = RsStores
    BY <1>3 DEF RsTyped, IsStores, RsStores
  <1> QED
    BY <1>1, <1>3, <1>4

\* A save that begins names its writer and what the store will hold.
LEMMA SaveLocks ==
    ASSUME RsTyped, NEW s \in RsStores, NEW who, NEW v, who # "none", SaveBegins(s, who, v)
    PROVE  /\ rsTmp[s] = NoTmp /\ rsDisk' = rsDisk /\ DOMAIN rsTmp' = RsStores
           /\ rsTmp'[s] = [by |-> who, value |-> v] /\ rsTmp'[s] # NoTmp
           /\ \A t \in RsStores \ {s} : rsTmp'[t] = rsTmp[t]
  BY DEF SaveBegins, RsTyped, NoTmp

\* A click leaves the document it is about with at least one visit and the others
\* with those they had.
LEMMA ClickIsKept ==
    ASSUME NEW visits \in [RsDocs -> Seq(Int)], NEW d \in RsDocs, rsDay \in Int
    PROVE  /\ record_click(visits, d) \in [RsDocs -> Seq(Int)]
           /\ record_click(visits, d)[d] # <<>>
           /\ \A e \in RsDocs \ {d} : record_click(visits, d)[e] = visits[e]
  <1> DEFINE v == Append(visits[d], rsDay)
             from == IF Len(v) > RsRing THEN 2 ELSE 1
             kept == SubSeq(v, from, Len(v))
  <1>1. v \in Seq(Int) /\ Len(v) = Len(visits[d]) + 1 /\ Len(visits[d]) \in Nat
    OBVIOUS
  <1>2. from \in 1 .. Len(v)
    BY <1>1, RsAssumption
  <1> HIDE DEF v, from
  <1>3. kept \in Seq(Int) /\ Len(kept) > 0
    BY <1>1, <1>2
  <1>4. record_click(visits, d) = [visits EXCEPT ![d] = kept]
    BY DEF record_click, v, from
  <1> HIDE DEF kept
  <1> QED
    BY <1>3, <1>4

\* The blocklist is as promised as long as nothing but its own request touches it.
LEMMA BlockStays ==
    ASSUME BlockInv, rsUp' = rsUp, rsDisk'.block = rsDisk.block, rsMem'.block = rsMem.block,
           rsPromise'.hide = rsPromise.hide, rsTmp'["block"] = rsTmp["block"],
           \A c \in RsClients : rsReq[c].op = "hide" => rsReq'[c] = rsReq[c]
    PROVE  BlockInv'
  BY DEF BlockInv

\* A latch that counts a click is not empty, the others stay.
LEMMA LatchIsKept ==
    ASSUME NEW latch \in [RsDocs -> Nat], NEW d \in RsDocs
    PROVE  /\ latch_record(latch, d) \in [RsDocs -> Nat] /\ latch_record(latch, d)[d] # 0
           /\ \A e \in RsDocs \ {d} : latch_record(latch, d)[e] = latch[e]
  BY RsAssumption DEF latch_record

\* A click changes no request but to tell a reset of its document that it came.
LEMMA KnownClicks ==
    ASSUME RsTyped, NEW d \in RsDocs, Known(d)
    PROVE  /\ rsPromise' \in [hide : SUBSET RsDocs, reset : SUBSET RsDocs, click : SUBSET RsDocs]
           /\ rsPromise'.hide = rsPromise.hide /\ rsPromise'.click = rsPromise.click
           /\ rsPromise'.reset = rsPromise.reset \ {d}
           /\ rsReq' \in [RsClients -> {RsNoReq} \cup HideReqs \cup ResetReqs]
           /\ \A c \in RsClients :
                 \/ rsReq'[c] = rsReq[c] /\ (rsReq[c] \in ResetReqs => rsReq[c].doc # d)
                 \/ rsReq[c] \in ResetReqs /\ rsReq'[c] \in ResetReqs /\ rsReq'[c].again
  <1>1. /\ rsPromise' \in [hide : SUBSET RsDocs, reset : SUBSET RsDocs, click : SUBSET RsDocs]
        /\ rsPromise'.hide = rsPromise.hide /\ rsPromise'.click = rsPromise.click
        /\ rsPromise'.reset = rsPromise.reset \ {d}
    BY DEF Known, RsTyped
  <1>2. ASSUME NEW c \in RsClients
        PROVE  \/ rsReq'[c] = rsReq[c] /\ (rsReq[c] \in ResetReqs => rsReq[c].doc # d)
               \/ rsReq[c] \in ResetReqs /\ rsReq'[c] \in ResetReqs /\ rsReq'[c].again
    <2>1. CASE rsReq[c].op \in {"reset", "reset2"} /\ rsReq[c].doc = d
      <3>1. rsReq[c] \in ResetReqs
        BY <2>1, RequestForms
      <3>2. rsReq'[c] = [rsReq[c] EXCEPT !.again = TRUE]
        BY <2>1 DEF Known
      <3> QED
        BY <3>1, <3>2 DEF ResetReqs
    <2>2. CASE ~ (rsReq[c].op \in {"reset", "reset2"} /\ rsReq[c].doc = d)
      <3>1. rsReq'[c] = rsReq[c]
        BY <2>2 DEF Known
      <3> QED
        BY <2>2, <3>1 DEF ResetReqs
    <2> QED
      BY <2>1, <2>2
  <1>3. rsReq' \in [RsClients -> {RsNoReq} \cup HideReqs \cup ResetReqs]
    <2>1. rsReq' = [c \in RsClients |-> rsReq'[c]]
      BY DEF Known
    <2> QED
      BY <1>2, <2>1 DEF RsTyped
  <1> QED
    BY <1>1, <1>2, <1>3

\* Where the process is opening its index the stores rest.
LEMMA StoresRest ==
    ASSUME StoresInv, UNCHANGED <<rsMem, rsDisk, rsTmp, rsReq, rsDay, rsPromise>>,
           rsUp # "up", rsUp' # "up", LearntInv', StampsAreLast'
    PROVE  StoresInv'
  <1>1. RsTyped' /\ SavesAreCurrent' /\ DownIsQuiet'
    BY DEF StoresInv, RsTyped, SavesAreCurrent, DownIsQuiet
  <1>2. BlockInv' /\ ForgottenOnDisk' /\ ResetsDone'
    BY DEF StoresInv, BlockInv, ForgottenOnDisk, ResetsDone
  <1>3. ResetsUnderWay'
    BY DEF StoresInv, ResetsUnderWay, ResetOf, VisitsGone, LatchGone
  <1> QED
    BY <1>1, <1>2, <1>3 DEF StoresInv

\* A start: the process has nothing under way.
LEMMA BootKeepsStores ==
    ASSUME StoresInv, RsBoot
    PROVE  StoresInv'
  <1> USE DEF StoresInv
  <1>1. LearntInv'
    BY DEF RsBoot, LearntInv
  <1>2. StampsAreLast'
    <2>1. rsSchema' # <<>> /\ rsSchema' \in Seq(Int)
      <3>1. <<1, 1>> \in Seq(Int) /\ <<1, 2>> \in Seq(Int) /\ <<2, 1>> \in Seq(Int)
        OBVIOUS
      <3>2. <<1, 1>> # <<>> /\ <<1, 2>> # <<>> /\ <<2, 1>> # <<>>
        OBVIOUS
      <3> QED
        BY <3>1, <3>2 DEF RsBoot
    <2> QED
      BY <2>1 DEF RsBoot, StampsAreLast
  <1> QED
    BY <1>1, <1>2, StoresRest DEF RsBoot

\* A rebuild begins with an empty directory.
LEMMA WipeKeepsStores ==
    ASSUME StoresInv, IndexWiped
    PROVE  StoresInv'
  <1> USE DEF StoresInv
  <1>1. LearntInv'
    BY DEF IndexWiped, LearntInv
  <1>2. StampsAreLast'
    BY DEF IndexWiped, StampsAreLast, NoDir
  <1> QED
    BY <1>1, <1>2, StoresRest DEF IndexWiped

\* The index is made with the fields of the program.
LEMMA CreateKeepsStores ==
    ASSUME StoresInv, IndexCreated
    PROVE  StoresInv'
  <1> USE DEF StoresInv
  <1>1. LearntInv'
    BY DEF IndexCreated, LearntInv
  <1>2. StampsAreLast'
    <2>1. rsDir = [meta |-> FALSE, version |-> 0, print |-> <<>>, schema |-> <<>>]
      BY DEF IndexCreated, StampsAreLast, NoDir
    <2>2. rsDir' = [meta |-> TRUE, version |-> 0, print |-> <<>>, schema |-> rsSchema]
      BY <2>1 DEF IndexCreated
    <2>3. <<>> \in Seq(Int) /\ rsSchema \in Seq(Int) /\ rsSchema # <<>> /\ 0 \in Int
      BY DEF StampsAreLast
    <2>4. rsDir' \in [meta : BOOLEAN, version : Int, print : Seq(Int), schema : Seq(Int)]
      BY <2>2, <2>3
    <2>5. rsDir'.meta /\ rsDir'.schema = rsSchema /\ rsDir'.print = <<>>
      BY <2>2
    <2> QED
      BY <2>3, <2>4, <2>5 DEF IndexCreated, StampsAreLast
  <1> QED
    BY <1>1, <1>2, StoresRest DEF IndexCreated

\* The version is stamped when the index is there.
LEMMA StampKeepsStores ==
    ASSUME StoresInv, VersionStamped
    PROVE  StoresInv'
  <1> USE DEF StoresInv
  <1>1. LearntInv'
    BY DEF VersionStamped, LearntInv
  <1>2. StampsAreLast'
    <2>1. rsSchema[1] \in Int
      BY SchemaHasVersion
    <2>2. rsDir' = [meta |-> TRUE, version |-> rsSchema[1], print |-> rsDir.print, schema |-> rsSchema]
      BY DEF VersionStamped, StampsAreLast
    <2> QED
      BY <2>1, <2>2 DEF VersionStamped, StampsAreLast
  <1> QED
    BY <1>1, <1>2, StoresRest DEF VersionStamped

\* The daemon serves an index whose stamps say it is its own, and loads what is on disk.
LEMMA ReadyKeepsStores ==
    ASSUME StoresInv, IndexReady
    PROVE  StoresInv'
  <1> USE DEF StoresInv
  <1>1. RsTyped'
    BY DEF IndexReady, Load, RsTyped
  <1>2. SavesAreCurrent'
    <2>1. \A s \in RsStores : rsTmp'[s] = NoTmp
      BY DEF IndexReady, DownIsQuiet
    <2> QED
      BY <2>1 DEF SavesAreCurrent
  <1>3. DownIsQuiet'
    BY DEF IndexReady, DownIsQuiet
  <1>4. BlockInv'
    <2>1. rsTmp'["block"] = NoTmp /\ rsMem' = rsDisk /\ rsDisk' = rsDisk /\ rsPromise' = rsPromise
      BY DEF IndexReady, Load, DownIsQuiet, RsStores
    <2> QED
      BY <2>1 DEF BlockInv
  <1>5. ForgottenOnDisk'
    BY DEF IndexReady, Load, ForgottenOnDisk
  <1>6. ResetsUnderWay'
    <2>1. \A c \in RsClients : rsReq'[c] = RsNoReq
      BY DEF IndexReady, DownIsQuiet
    <2> QED
      BY <2>1 DEF ResetsUnderWay, ResetOf, RsNoReq
  <1>7. ResetsDone'
    BY DEF IndexReady, Load, ResetsDone
  <1>8. LearntInv'
    <2>1. rsUp # "up" /\ rsStop' = rsStop /\ rsMem' = rsDisk /\ rsDisk' = rsDisk /\ rsPromise' = rsPromise
      BY DEF IndexReady, Load
    <2> QED
      BY <2>1 DEF LearntInv, StampsAreLast, IndexReady
  <1>9. StampsAreLast'
    <2>1. CASE rsUp = "opening" /\ ~NeedsRebuild /\ UNCHANGED rsDir
      <3>1. rsDir.meta /\ rsDir.print = rsSchema /\ rsDir.print # <<>>
        BY <2>1 DEF NeedsRebuild, StampsAreLast
      <3> QED
        BY <2>1, <3>1 DEF IndexReady, StampsAreLast
    <2>2. CASE rsUp = "versioned" /\ rsDir' = [rsDir EXCEPT !.print = rsSchema]
      <3>1. rsDir' = [meta |-> TRUE, version |-> rsDir.version, print |-> rsSchema, schema |-> rsSchema]
        BY <2>2 DEF StampsAreLast
      <3> QED
        BY <2>2, <3>1 DEF IndexReady, StampsAreLast
    <2> QED
      BY <2>1, <2>2 DEF IndexReady
  <1> QED
    BY <1>1, <1>2, <1>3, <1>4, <1>5, <1>6, <1>7, <1>8, <1>9

\* A click on a document makes no promise, and takes back the reset of that document.
LEMMA ClickKeepsStores ==
    ASSUME StoresInv, NEW d \in RsDocs, RecordClick(d)
    PROVE  StoresInv'
  <1> USE DEF StoresInv
  <1>a. /\ rsTmp["visits"] = NoTmp /\ rsUp = "up" /\ Known(d)
        /\ UNCHANGED <<rsUp, rsStop, rsDisk, rsTmp, rsDay, rsDir, rsSchema>>
    BY DEF RecordClick, RsTake, Locked
  <1>b. /\ IsStores(rsMem') /\ rsMem'.latch = rsMem.latch /\ rsMem'.block = rsMem.block
        /\ rsMem'.visits[d] # <<>> /\ \A e \in RsDocs \ {d} : rsMem'.visits[e] = rsMem.visits[e]
        /\ \A s \in RsStores \ {"visits"} : rsMem'[s] = rsMem[s]
    <2>1. rsMem' = [rsMem EXCEPT !.visits = record_click(rsMem.visits, d)]
      BY DEF RecordClick
    <2>2. /\ record_click(rsMem.visits, d) \in [RsDocs -> Seq(Int)]
          /\ record_click(rsMem.visits, d)[d] # <<>>
          /\ \A e \in RsDocs \ {d} : record_click(rsMem.visits, d)[e] = rsMem.visits[e]
      BY ClickIsKept DEF RsTyped, IsStores
    <2>3. /\ DOMAIN rsMem' = RsStores /\ rsMem'["visits"] = record_click(rsMem.visits, d)
          /\ \A s \in RsStores \ {"visits"} : rsMem'[s] = rsMem[s]
      BY <2>1 DEF RsTyped, IsStores, RsStores
    <2> QED
      BY <2>2, <2>3 DEF RsTyped, IsStores, RsStores
  <1>c. /\ rsPromise' \in [hide : SUBSET RsDocs, reset : SUBSET RsDocs, click : SUBSET RsDocs]
        /\ rsPromise'.hide = rsPromise.hide /\ rsPromise'.click = rsPromise.click
        /\ rsPromise'.reset = rsPromise.reset \ {d}
        /\ rsReq' \in [RsClients -> {RsNoReq} \cup HideReqs \cup ResetReqs]
        /\ \A c \in RsClients :
              \/ rsReq'[c] = rsReq[c] /\ (rsReq[c] \in ResetReqs => rsReq[c].doc # d)
              \/ rsReq[c] \in ResetReqs /\ rsReq'[c] \in ResetReqs /\ rsReq'[c].again
    BY <1>a, KnownClicks
  <1>1. RsTyped'
    BY <1>a, <1>b, <1>c DEF RsTyped
  <1>2. SavesAreCurrent'
    BY <1>a, <1>b DEF SavesAreCurrent
  <1>3. DownIsQuiet'
    BY <1>a DEF DownIsQuiet
  <1>4. BlockInv'
    <2>1. \A b \in RsClients : rsReq[b].op = "hide" => rsReq'[b] = rsReq[b]
      BY <1>a, <1>b, <1>c DEF ResetReqs, RsNoReq
    <2> QED
      BY <1>a, <1>b, <1>c, <2>1, BlockStays DEF RsStores
  <1>5. ForgottenOnDisk'
    BY <1>a, <1>b DEF ForgottenOnDisk
  <1>6. ResetsUnderWay'
    <2> SUFFICES ASSUME NEW b \in RsClients PROVE ResetOf(b)'
      BY DEF ResetsUnderWay
    <2>1. ResetOf(b)
      BY DEF ResetsUnderWay
    <2>2. CASE rsReq'[b] = rsReq[b] /\ (rsReq[b] \in ResetReqs => rsReq[b].doc # d)
      <3>1. rsReq[b].op \in {"reset", "reset2"} => rsReq[b].doc \in RsDocs \ {d}
        BY <2>2, RequestForms DEF ResetReqs
      <3> QED
        BY <1>a, <1>b, <2>1, <2>2, <3>1 DEF ResetOf, VisitsGone, LatchGone
    <2>3. CASE rsReq'[b] \in ResetReqs /\ rsReq'[b].again
      BY <2>3 DEF ResetOf
    <2> QED
      BY <1>c, <2>2, <2>3
  <1>7. ResetsDone'
    BY <1>a, <1>b, <1>c DEF ResetsDone
  <1>8. LearntInv'
    BY <1>a, <1>b, <1>c DEF LearntInv
  <1>9. StampsAreLast'
    BY <1>a DEF StampsAreLast
  <1> QED
    BY <1>1, <1>2, <1>3, <1>4, <1>5, <1>6, <1>7, <1>8, <1>9

\* A query that ended in a click, likewise.
LEMMA QueryKeepsStores ==
    ASSUME StoresInv, NEW d \in RsDocs, RecordQueryClick(d)
    PROVE  StoresInv'
  <1> USE DEF StoresInv
  <1>a. /\ rsTmp["latch"] = NoTmp /\ rsTmp["log"] = NoTmp /\ rsUp = "up" /\ Known(d)
        /\ UNCHANGED <<rsUp, rsStop, rsDisk, rsTmp, rsDay, rsDir, rsSchema>>
    BY DEF RecordQueryClick, RsTake, Locked
  <1>b. /\ IsStores(rsMem') /\ rsMem'.visits = rsMem.visits /\ rsMem'.block = rsMem.block
        /\ rsMem'.latch[d] # 0 /\ \A e \in RsDocs \ {d} : rsMem'.latch[e] = rsMem.latch[e]
        /\ \A s \in RsStores \ {"latch", "log"} : rsMem'[s] = rsMem[s]
    <2> DEFINE log == record_query(rsMem.log, d)
    <2>1. rsMem' = [rsMem EXCEPT !.latch = latch_record(rsMem.latch, d), !.log = log]
      BY DEF RecordQueryClick
    <2> HIDE DEF log
    <2>2. /\ latch_record(rsMem.latch, d) \in [RsDocs -> Nat] /\ latch_record(rsMem.latch, d)[d] # 0
          /\ \A e \in RsDocs \ {d} : latch_record(rsMem.latch, d)[e] = rsMem.latch[e]
      BY LatchIsKept DEF RsTyped, IsStores
    <2>3. /\ DOMAIN rsMem' = RsStores /\ rsMem'["latch"] = latch_record(rsMem.latch, d)
          /\ \A s \in RsStores \ {"latch", "log"} : rsMem'[s] = rsMem[s]
      BY <2>1 DEF RsTyped, IsStores, RsStores
    <2> QED
      BY <2>2, <2>3 DEF RsTyped, IsStores, RsStores
  <1>c. /\ rsPromise' \in [hide : SUBSET RsDocs, reset : SUBSET RsDocs, click : SUBSET RsDocs]
        /\ rsPromise'.hide = rsPromise.hide /\ rsPromise'.click = rsPromise.click
        /\ rsPromise'.reset = rsPromise.reset \ {d}
        /\ rsReq' \in [RsClients -> {RsNoReq} \cup HideReqs \cup ResetReqs]
        /\ \A c \in RsClients :
              \/ rsReq'[c] = rsReq[c] /\ (rsReq[c] \in ResetReqs => rsReq[c].doc # d)
              \/ rsReq[c] \in ResetReqs /\ rsReq'[c] \in ResetReqs /\ rsReq'[c].again
    BY <1>a, KnownClicks
  <1>1. RsTyped'
    BY <1>a, <1>b, <1>c DEF RsTyped
  <1>2. SavesAreCurrent'
    BY <1>a, <1>b DEF SavesAreCurrent
  <1>3. DownIsQuiet'
    BY <1>a DEF DownIsQuiet
  <1>4. BlockInv'
    <2>1. \A b \in RsClients : rsReq[b].op = "hide" => rsReq'[b] = rsReq[b]
      BY <1>a, <1>b, <1>c DEF ResetReqs, RsNoReq
    <2> QED
      BY <1>a, <1>b, <1>c, <2>1, BlockStays DEF RsStores
  <1>5. ForgottenOnDisk'
    BY <1>a, <1>b DEF ForgottenOnDisk
  <1>6. ResetsUnderWay'
    <2> SUFFICES ASSUME NEW b \in RsClients PROVE ResetOf(b)'
      BY DEF ResetsUnderWay
    <2>1. ResetOf(b)
      BY DEF ResetsUnderWay
    <2>2. CASE rsReq'[b] = rsReq[b] /\ (rsReq[b] \in ResetReqs => rsReq[b].doc # d)
      <3>1. rsReq[b].op \in {"reset", "reset2"} => rsReq[b].doc \in RsDocs \ {d}
        BY <2>2, RequestForms DEF ResetReqs
      <3> QED
        BY <1>a, <1>b, <2>1, <2>2, <3>1 DEF ResetOf, VisitsGone, LatchGone
    <2>3. CASE rsReq'[b] \in ResetReqs /\ rsReq'[b].again
      BY <2>3 DEF ResetOf
    <2> QED
      BY <1>c, <2>2, <2>3
  <1>7. ResetsDone'
    BY <1>a, <1>b, <1>c DEF ResetsDone
  <1>8. LearntInv'
    BY <1>a, <1>b, <1>c DEF LearntInv
  <1>9. StampsAreLast'
    BY <1>a DEF StampsAreLast
  <1> QED
    BY <1>1, <1>2, <1>3, <1>4, <1>5, <1>6, <1>7, <1>8, <1>9

\* Hiding a document locks the blocklist until it is saved.
LEMMA HideKeepsStores ==
    ASSUME StoresInv, NEW c \in RsClients, NEW d \in RsDocs, NEW h \in BOOLEAN, SetDocHidden(c, d, h)
    PROVE  StoresInv'
  <1> USE DEF StoresInv
  <1>1. RsTyped'
    BY DEF SetDocHidden, SaveBegins, RsTyped, IsStores, HideReqs
  <1>2. SavesAreCurrent'
    BY DEF SetDocHidden, SaveBegins, RsTyped, IsStores, SavesAreCurrent
  <1>3. DownIsQuiet'
    BY DEF SetDocHidden, RsTake, DownIsQuiet
  <1>4. BlockInv'
    BY DEF SetDocHidden, SaveBegins, RsTyped, IsStores, BlockInv, RsStores, NoTmp
  <1>5. ForgottenOnDisk'
    BY DEF SetDocHidden, SaveBegins, ForgottenOnDisk
  <1>6. ResetsUnderWay'
    BY DEF SetDocHidden, SaveBegins, ResetsUnderWay, ResetOf, VisitsGone, LatchGone
  <1>7. ResetsDone'
    BY DEF SetDocHidden, SaveBegins, ResetsDone
  <1>8. LearntInv'
    BY DEF SetDocHidden, SaveBegins, LearntInv
  <1>9. StampsAreLast'
    BY DEF SetDocHidden, StampsAreLast
  <1> QED
    BY <1>1, <1>2, <1>3, <1>4, <1>5, <1>6, <1>7, <1>8, <1>9

\* The blocklist is saved and its request answered: disk and promise change together.
LEMMA HideSaveKeepsStores ==
    ASSUME StoresInv, NEW c \in RsClients, HideSaved(c)
    PROVE  StoresInv'
  <1> USE DEF StoresInv
  <1> DEFINE d == rsReq[c].doc
  <1>a. /\ rsReq[c] \in HideReqs /\ rsReq[c].op = "hide" /\ d \in RsDocs /\ c \notin {"main", "none"}
        /\ SaveEnds("block", c) /\ rsReq' = [rsReq EXCEPT ![c] = RsNoReq]
        /\ UNCHANGED <<rsUp, rsStop, rsMem, rsDay, rsDir, rsSchema>>
    BY RsAssumption, RequestForms DEF HideSaved, HideReqs
  <1>e. rsUp = "up"
    BY <1>a DEF DownIsQuiet, RsNoReq
  <1>b. /\ IsStores(rsDisk') /\ DOMAIN rsTmp' = RsStores
        /\ rsDisk'.block = rsMem.block /\ rsDisk'.visits = rsDisk.visits /\ rsDisk'.latch = rsDisk.latch
        /\ rsTmp["block"] # NoTmp /\ rsTmp["block"].by = c /\ rsTmp'["block"] = NoTmp
        /\ \A s \in RsStores \ {"block"} : rsTmp'[s] = rsTmp[s]
    BY <1>a, SaveWrites DEF RsStores, RsTyped, IsStores
  <1>c. /\ rsReq' \in [RsClients -> {RsNoReq} \cup HideReqs \cup ResetReqs]
        /\ rsReq'[c] = RsNoReq /\ \A b \in RsClients \ {c} : rsReq'[b] = rsReq[b]
    BY <1>a DEF RsTyped
  <1>d. /\ rsPromise'.hide = IF rsReq[c].hidden THEN rsPromise.hide \cup {d} ELSE rsPromise.hide \ {d}
        /\ rsPromise'.reset = rsPromise.reset /\ rsPromise'.click = rsPromise.click
        /\ rsPromise' \in [hide : SUBSET RsDocs, reset : SUBSET RsDocs, click : SUBSET RsDocs]
    BY <1>a DEF HideSaved, RsTyped
  <1>1. RsTyped'
    BY <1>a, <1>b, <1>d DEF RsTyped
  <1>2. SavesAreCurrent'
    BY <1>a, <1>b DEF SavesAreCurrent
  <1>3. DownIsQuiet'
    BY <1>a DEF RsNoReq, DownIsQuiet
  <1>4. BlockInv'
    <2>1. rsMem.block = IF rsReq[c].hidden THEN rsDisk.block \cup {d} ELSE rsDisk.block \ {d}
      BY <1>b, <1>e DEF BlockInv
    <2> QED
      BY <1>a, <1>b, <1>d, <2>1 DEF BlockInv
  <1>5. ForgottenOnDisk'
    BY <1>a, <1>b DEF ForgottenOnDisk, RsStores
  <1>6. ResetsUnderWay'
    BY <1>a, <1>b DEF RsNoReq, ResetsUnderWay, ResetOf, VisitsGone, LatchGone, RsStores
  <1>7. ResetsDone'
    BY <1>a, <1>b, <1>d DEF ResetsDone
  <1>8. LearntInv'
    BY <1>a, <1>b, <1>d DEF LearntInv
  <1>9. StampsAreLast'
    BY <1>a DEF StampsAreLast
  <1> QED
    BY <1>1, <1>2, <1>3, <1>4, <1>5, <1>6, <1>7, <1>8, <1>9

\* A reset empties the visits and saves them if there was anything to save; an empty
\* store that is not being saved is empty on disk.
LEMMA ResetKeepsStores ==
    ASSUME StoresInv, NEW c \in RsClients, NEW d \in RsDocs, ResetVisits(c, d)
    PROVE  StoresInv'
  <1> USE DEF StoresInv
  <1>a. /\ rsTmp["visits"] = NoTmp /\ rsUp = "up" /\ rsReq[c] = RsNoReq /\ c \notin {"main", "none"}
        /\ UNCHANGED <<rsUp, rsStop, rsDay, rsDir, rsSchema>>
        /\ rsPromise' = [rsPromise EXCEPT !.click = @ \ {d}]
    BY RsAssumption DEF ResetVisits, RsTake, Locked
  <1>b. /\ IsStores(rsMem') /\ rsMem'.latch = rsMem.latch /\ rsMem'.block = rsMem.block
        /\ rsMem'.visits[d] = <<>> /\ \A e \in RsDocs \ {d} : rsMem'.visits[e] = rsMem.visits[e]
        /\ rsMem.visits[d] = <<>> => rsMem'.visits = rsMem.visits
        /\ \A s \in RsStores \ {"visits"} : rsMem'[s] = rsMem[s]
    BY DEF ResetVisits, remove_doc, RsTyped, IsStores, RsStores
  <1>c. /\ rsDisk' = rsDisk /\ DOMAIN rsTmp' = RsStores
        /\ \A s \in RsStores \ {"visits"} : rsTmp'[s] = rsTmp[s]
        /\ IF rsMem.visits[d] = <<>> THEN rsTmp'["visits"] = NoTmp
           ELSE rsTmp'["visits"] = [by |-> c, value |-> rsMem'["visits"]] /\ rsTmp'["visits"] # NoTmp
    <2>1. CASE rsMem.visits[d] = <<>>
      BY <1>a, <2>1 DEF ResetVisits, RsTyped
    <2>2. CASE rsMem.visits[d] # <<>>
      BY <1>a, <2>2, SaveLocks DEF ResetVisits, RsStores
    <2> QED
      BY <2>1, <2>2
  <1>d. /\ rsReq' \in [RsClients -> {RsNoReq} \cup HideReqs \cup ResetReqs]
        /\ rsReq'[c] = [op |-> "reset", doc |-> d, again |-> FALSE]
        /\ \A b \in RsClients \ {c} : rsReq'[b] = rsReq[b]
    BY DEF ResetVisits, RsTyped, ResetReqs
  <1>1. RsTyped'
    BY <1>a, <1>b, <1>c, <1>d DEF RsTyped
  <1>2. SavesAreCurrent'
    BY <1>b, <1>c DEF SavesAreCurrent
  <1>3. DownIsQuiet'
    BY <1>a DEF DownIsQuiet
  <1>4. BlockInv'
    <2>1. \A b \in RsClients : rsReq[b].op = "hide" => rsReq'[b] = rsReq[b]
      BY <1>a, <1>b, <1>c, <1>d DEF ResetReqs, RsNoReq
    <2> QED
      BY <1>a, <1>b, <1>c, <1>d, <2>1, BlockStays DEF RsStores
  <1>5. ForgottenOnDisk'
    BY <1>a, <1>b, <1>c DEF ForgottenOnDisk, RsStores
  <1>6. ResetsUnderWay'
    <2> SUFFICES ASSUME NEW b \in RsClients PROVE ResetOf(b)'
      BY DEF ResetsUnderWay
    <2>1. ResetOf(b) /\ b # "none" /\ rsTmp["visits"].by = "none"
      BY <1>a, RsAssumption DEF ResetsUnderWay, NoTmp
    <2>2. CASE b = c
      <3>1. rsMem.visits[d] = <<>> => rsDisk'.visits[d] = <<>>
        BY <1>a, <1>c DEF ForgottenOnDisk
      <3>2. rsMem.visits[d] # <<>> => rsTmp'["visits"].by = c
        BY <1>c
      <3> QED
        BY <1>b, <1>d, <2>2, <3>1, <3>2 DEF ResetOf, VisitsGone
    <2>3. CASE b # c
      <3>1. rsReq'[b] = rsReq[b] /\ (rsReq[b].op \in {"reset", "reset2"} => rsReq[b].doc \in RsDocs)
        BY <1>d, <2>3, RequestForms DEF ResetReqs
      <3> QED
        BY <1>b, <1>c, <2>1, <3>1 DEF ResetOf, VisitsGone, LatchGone, RsStores
    <2> QED
      BY <2>2, <2>3
  <1>7. ResetsDone'
    BY <1>a, <1>b, <1>c DEF RsTyped, ResetsDone
  <1>8. LearntInv'
    BY <1>a, <1>b, <1>c DEF RsTyped, LearntInv
  <1>9. StampsAreLast'
    BY <1>a DEF StampsAreLast
  <1> QED
    BY <1>1, <1>2, <1>3, <1>4, <1>5, <1>6, <1>7, <1>8, <1>9

\* The visits are saved as they are in memory, with every other reset in them.
LEMMA ResetSaveKeepsStores ==
    ASSUME StoresInv, NEW c \in RsClients, ResetVisitsSaved(c)
    PROVE  StoresInv'
  <1> USE DEF StoresInv
  <1>a. /\ rsReq[c] \in ResetReqs /\ rsReq[c].op = "reset" /\ c \notin {"main", "none"}
        /\ SaveEnds("visits", c)
        /\ UNCHANGED <<rsUp, rsStop, rsMem, rsReq, rsDay, rsDir, rsSchema, rsPromise>>
    BY RsAssumption, RequestForms DEF ResetVisitsSaved
  <1>e. rsUp = "up"
    BY <1>a DEF DownIsQuiet, RsNoReq
  <1>b. /\ IsStores(rsDisk') /\ DOMAIN rsTmp' = RsStores
        /\ rsDisk'.visits = rsMem.visits /\ rsDisk'.block = rsDisk.block /\ rsDisk'.latch = rsDisk.latch
        /\ rsTmp["visits"] # NoTmp /\ rsTmp["visits"].by = c /\ rsTmp'["visits"] = NoTmp
        /\ \A s \in RsStores \ {"visits"} : rsTmp'[s] = rsTmp[s]
    BY <1>a, SaveWrites DEF RsStores, RsTyped, IsStores
  <1>1. RsTyped'
    BY <1>a, <1>b DEF RsTyped
  <1>2. SavesAreCurrent'
    BY <1>a, <1>b DEF SavesAreCurrent
  <1>3. DownIsQuiet'
    BY <1>a DEF RsNoReq, DownIsQuiet
  <1>4. BlockInv'
    BY <1>a, <1>b DEF BlockInv, RsStores
  <1>5. ForgottenOnDisk'
    BY <1>a, <1>b DEF ForgottenOnDisk, RsStores
  <1>6. ResetsUnderWay'
    BY <1>a, <1>b DEF ResetsUnderWay, ResetOf, VisitsGone, LatchGone, RsStores
  <1>7. ResetsDone'
    BY <1>a, <1>b DEF ResetsDone
  <1>8. LearntInv'
    BY <1>a, <1>b, <1>e DEF LearntInv
  <1>9. StampsAreLast'
    BY <1>a DEF StampsAreLast
  <1> QED
    BY <1>1, <1>2, <1>3, <1>4, <1>5, <1>6, <1>7, <1>8, <1>9

\* Then the latch, in the same way.
LEMMA LatchKeepsStores ==
    ASSUME StoresInv, NEW c \in RsClients, ResetLatch(c)
    PROVE  StoresInv'
  <1> USE DEF StoresInv
  <1> DEFINE d == rsReq[c].doc
  <1>a. /\ rsTmp["latch"] = NoTmp /\ rsTmp["visits"].by # c /\ c \notin {"main", "none"}
        /\ rsReq[c] \in ResetReqs /\ rsReq[c].op = "reset" /\ d \in RsDocs
        /\ UNCHANGED <<rsUp, rsStop, rsDay, rsDir, rsSchema, rsPromise>>
    BY RsAssumption, RequestForms DEF ResetLatch, Locked, ResetReqs
  <1>e. rsUp = "up"
    BY <1>a DEF DownIsQuiet, RsNoReq
  <1>b. /\ IsStores(rsMem') /\ rsMem'.visits = rsMem.visits /\ rsMem'.block = rsMem.block
        /\ rsMem'.latch[d] = 0 /\ \A e \in RsDocs \ {d} : rsMem'.latch[e] = rsMem.latch[e]
        /\ rsMem.latch[d] = 0 => rsMem'.latch = rsMem.latch
        /\ \A s \in RsStores \ {"latch"} : rsMem'[s] = rsMem[s]
    BY <1>a DEF ResetLatch, latch_remove, RsTyped, IsStores, RsStores
  <1>c. /\ rsDisk' = rsDisk /\ DOMAIN rsTmp' = RsStores
        /\ \A s \in RsStores \ {"latch"} : rsTmp'[s] = rsTmp[s]
        /\ IF rsMem.latch[d] = 0 THEN rsTmp'["latch"] = NoTmp
           ELSE rsTmp'["latch"] = [by |-> c, value |-> rsMem'["latch"]] /\ rsTmp'["latch"] # NoTmp
    <2>1. CASE rsMem.latch[d] = 0
      BY <1>a, <2>1 DEF ResetLatch, RsTyped
    <2>2. CASE rsMem.latch[d] # 0
      <3>1. SaveBegins("latch", c, rsMem'["latch"])
        BY <1>a, <2>2 DEF ResetLatch, RsTyped, IsStores
      <3> QED
        BY <1>a, <2>2, <3>1, SaveLocks DEF RsStores
    <2> QED
      BY <2>1, <2>2
  <1>d. /\ rsReq' \in [RsClients -> {RsNoReq} \cup HideReqs \cup ResetReqs]
        /\ rsReq'[c] = [op |-> "reset2", doc |-> d, again |-> rsReq[c].again]
        /\ \A b \in RsClients \ {c} : rsReq'[b] = rsReq[b]
    <2>1. rsReq' = [rsReq EXCEPT ![c] = [rsReq[c] EXCEPT !.op = "reset2"]]
      BY DEF ResetLatch
    <2>2. [rsReq[c] EXCEPT !.op = "reset2"] = [op |-> "reset2", doc |-> d, again |-> rsReq[c].again]
      BY <1>a DEF ResetReqs
    <2> QED
      BY <1>a, <2>1, <2>2 DEF RsTyped, ResetReqs
  <1>1. RsTyped'
    BY <1>a, <1>b, <1>c, <1>d DEF RsTyped
  <1>2. SavesAreCurrent'
    BY <1>b, <1>c DEF SavesAreCurrent
  <1>3. DownIsQuiet'
    BY <1>a DEF RsNoReq, DownIsQuiet
  <1>4. BlockInv'
    <2>1. \A b \in RsClients : rsReq[b].op = "hide" => rsReq'[b] = rsReq[b]
      BY <1>a, <1>b, <1>c, <1>d DEF ResetReqs, RsNoReq
    <2> QED
      BY <1>a, <1>b, <1>c, <1>d, <2>1, BlockStays DEF RsStores
  <1>5. ForgottenOnDisk'
    BY <1>a, <1>b, <1>c DEF ForgottenOnDisk, RsStores
  <1>6. ResetsUnderWay'
    <2> SUFFICES ASSUME NEW b \in RsClients PROVE ResetOf(b)'
      BY DEF ResetsUnderWay
    <2>1. ResetOf(b) /\ b # "none" /\ rsTmp["latch"].by = "none"
      BY <1>a, RsAssumption DEF ResetsUnderWay, NoTmp
    <2>2. CASE b = c
      <3>1. rsMem.latch[d] = 0 => rsDisk'.latch[d] = 0
        BY <1>a, <1>c, <1>e DEF ForgottenOnDisk
      <3>2. rsMem.latch[d] # 0 => rsTmp'["latch"].by = c
        BY <1>c
      <3>3. ~ rsReq[c].again => rsMem'.visits[d] = <<>> /\ rsDisk'.visits[d] = <<>>
        BY <1>a, <1>b, <1>c, <2>1, <2>2 DEF ResetOf, VisitsGone
      <3>4. /\ rsMem'.latch[d] = 0
            /\ rsReq'[c].op = "reset2" /\ rsReq'[c].doc = d /\ rsReq'[c].again = rsReq[c].again
        BY <1>b, <1>d
      <3> HIDE DEF d
      <3> QED
        BY <2>2, <3>1, <3>2, <3>3, <3>4 DEF ResetOf, LatchGone
    <2>3. CASE b # c
      <3>1. rsReq'[b] = rsReq[b] /\ (rsReq[b].op \in {"reset", "reset2"} => rsReq[b].doc \in RsDocs)
        BY <1>d, <2>3, RequestForms DEF ResetReqs
      <3>2. /\ rsTmp'["visits"] = rsTmp["visits"] /\ rsDisk' = rsDisk /\ rsMem'.visits = rsMem.visits
            /\ \A e \in RsDocs : rsMem.latch[e] = 0 => rsMem'.latch[e] = 0
        BY <1>b, <1>c DEF RsStores
      <3> HIDE DEF d
      <3> QED
        BY <2>1, <3>1, <3>2 DEF ResetOf, VisitsGone, LatchGone
    <2> QED
      BY <2>2, <2>3
  <1>7. ResetsDone'
    BY <1>a, <1>b, <1>c DEF RsTyped, ResetsDone
  <1>8. LearntInv'
    BY <1>a, <1>b, <1>c DEF LearntInv
  <1>9. StampsAreLast'
    BY <1>a DEF StampsAreLast
  <1> QED
    BY <1>1, <1>2, <1>3, <1>4, <1>5, <1>6, <1>7, <1>8, <1>9

\* The answer: both stores have lost the document in memory and on disk, unless a click
\* came between.
LEMMA ResetDoneKeepsStores ==
    ASSUME StoresInv, NEW c \in RsClients, ResetDone(c)
    PROVE  StoresInv'
  <1> USE DEF StoresInv
  <1> DEFINE d == rsReq[c].doc
  <1>a. /\ rsReq[c] \in ResetReqs /\ rsReq[c].op = "reset2" /\ d \in RsDocs /\ c \notin {"main", "none"}
        /\ rsReq' = [rsReq EXCEPT ![c] = RsNoReq]
        /\ UNCHANGED <<rsUp, rsStop, rsMem, rsDay, rsDir, rsSchema>>
    BY RsAssumption, RequestForms DEF ResetDone, ResetReqs
  <1>e. rsUp = "up"
    BY <1>a DEF DownIsQuiet, RsNoReq
  <1>b. /\ IsStores(rsDisk') /\ DOMAIN rsTmp' = RsStores
        /\ rsDisk'.visits = rsDisk.visits /\ rsDisk'.block = rsDisk.block
        /\ \A s \in RsStores \ {"latch"} : rsTmp'[s] = rsTmp[s]
        /\ \/ rsTmp["latch"].by = c /\ rsTmp'["latch"] = NoTmp /\ rsDisk'.latch = rsMem.latch
           \/ rsTmp["latch"].by # c /\ rsTmp'["latch"] = rsTmp["latch"] /\ rsDisk'.latch = rsDisk.latch
    <2>1. CASE rsTmp["latch"].by = c
      <3>1. SaveEnds("latch", c)
        BY <2>1 DEF ResetDone
      <3> QED
        BY <1>a, <2>1, <3>1, SaveWrites DEF RsStores, RsTyped, IsStores
    <2>2. CASE rsTmp["latch"].by # c
      BY <2>2 DEF ResetDone, RsTyped
    <2> QED
      BY <2>1, <2>2
  <1>c. /\ rsReq' \in [RsClients -> {RsNoReq} \cup HideReqs \cup ResetReqs]
        /\ rsReq'[c] = RsNoReq /\ \A b \in RsClients \ {c} : rsReq'[b] = rsReq[b]
    BY <1>a DEF RsTyped
  <1>d. /\ rsPromise'.reset = IF rsReq[c].again THEN rsPromise.reset ELSE rsPromise.reset \cup {d}
        /\ rsPromise'.hide = rsPromise.hide /\ rsPromise'.click = rsPromise.click
        /\ rsPromise' \in [hide : SUBSET RsDocs, reset : SUBSET RsDocs, click : SUBSET RsDocs]
    BY <1>a DEF ResetDone, RsTyped
  <1>1. RsTyped'
    BY <1>a, <1>b, <1>d DEF RsTyped
  <1>2. SavesAreCurrent'
    BY <1>a, <1>b DEF SavesAreCurrent
  <1>3. DownIsQuiet'
    BY <1>a DEF RsNoReq, DownIsQuiet
  <1>4. BlockInv'
    BY <1>a, <1>b, <1>d DEF RsTyped, BlockInv, RsStores
  <1>5. ForgottenOnDisk'
    BY <1>a, <1>b DEF ForgottenOnDisk, RsStores
  <1>6. ResetsUnderWay'
    BY <1>a, <1>b DEF RsNoReq, ResetsUnderWay, ResetOf, VisitsGone, LatchGone, RsStores
  <1>7. ResetsDone'
    <2>1. ~ rsReq[c].again => /\ rsMem.visits[d] = <<>> /\ rsDisk.visits[d] = <<>>
                              /\ rsMem.latch[d] = 0 /\ rsDisk'.latch[d] = 0
      BY <1>a, <1>b DEF ResetsUnderWay, ResetOf, LatchGone
    <2>2. ASSUME NEW x \in rsPromise.reset
          PROVE  /\ rsMem.visits[x] = <<>> /\ rsDisk.visits[x] = <<>>
                 /\ rsMem.latch[x] = 0 /\ rsDisk'.latch[x] = 0
      BY <1>b DEF ResetsDone
    <2> QED
      BY <1>a, <1>b, <1>d, <2>1, <2>2 DEF ResetsDone
  <1>8. LearntInv'
    BY <1>a, <1>b, <1>d DEF LearntInv
  <1>9. StampsAreLast'
    BY <1>a DEF StampsAreLast
  <1> QED
    BY <1>1, <1>2, <1>3, <1>4, <1>5, <1>6, <1>7, <1>8, <1>9

\* A shutdown begins: what has visits is what it promises to keep.
LEMMA ShutdownKeepsStores ==
    ASSUME StoresInv, RsShutdown
    PROVE  StoresInv'
  <1> USE DEF StoresInv
  <1>1. RsTyped'
    BY DEF RsShutdown, RsTyped
  <1>2. SavesAreCurrent'
    BY DEF RsShutdown, SavesAreCurrent
  <1>3. DownIsQuiet'
    BY DEF RsShutdown, DownIsQuiet
  <1>4. BlockInv'
    BY DEF RsShutdown, RsTyped, BlockInv
  <1>5. ForgottenOnDisk'
    BY DEF RsShutdown, ForgottenOnDisk
  <1>6. ResetsUnderWay'
    BY DEF RsShutdown, ResetsUnderWay, ResetOf, VisitsGone, LatchGone
  <1>7. ResetsDone'
    BY DEF RsShutdown, ResetsDone
  <1>8. LearntInv'
    BY DEF RsShutdown, LearntInv
  <1>9. StampsAreLast'
    BY DEF RsShutdown, StampsAreLast
  <1> QED
    BY <1>1, <1>2, <1>3, <1>4, <1>5, <1>6, <1>7, <1>8, <1>9

\* It locks one store after the other.
LEMMA SavesKeepsStores ==
    ASSUME StoresInv, ShutdownSaves
    PROVE  StoresInv'
  <1> USE DEF StoresInv
  <1>1. RsTyped'
    BY DEF ShutdownSaves, SaveBegins, RsTyped
  <1>2. SavesAreCurrent'
    BY DEF ShutdownSaves, SaveBegins, SavesAreCurrent
  <1>3. DownIsQuiet'
    BY DEF ShutdownSaves, DownIsQuiet
  <1>4. BlockInv'
    BY DEF ShutdownSaves, SaveBegins, RsTyped, BlockInv, RsStores
  <1>5. ForgottenOnDisk'
    BY DEF ShutdownSaves, SaveBegins, ForgottenOnDisk
  <1>6. ResetsUnderWay'
    BY RsAssumption DEF ShutdownSaves, SaveBegins, ResetsUnderWay, ResetOf, VisitsGone, LatchGone, NoTmp
  <1>7. ResetsDone'
    BY DEF ShutdownSaves, SaveBegins, ResetsDone
  <1>8. LearntInv'
    BY DEF ShutdownSaves, SaveBegins, LearntInv
  <1>9. StampsAreLast'
    BY DEF ShutdownSaves, StampsAreLast
  <1> QED
    BY <1>1, <1>2, <1>3, <1>4, <1>5, <1>6, <1>7, <1>8, <1>9

\* Each is saved as it is by then, whatever the clients did meanwhile.
LEMMA SavedKeepsStores ==
    ASSUME StoresInv, ShutdownSaved
    PROVE  StoresInv'
  <1> USE DEF StoresInv
  <1>a. /\ rsUp = "up" /\ rsStop \in {"visits", "latch", "log"} /\ SaveEnds(rsStop, "main")
        /\ rsStop' = (CASE rsStop = "visits" -> "latch" [] rsStop = "latch" -> "log" [] OTHER -> "done")
        /\ UNCHANGED <<rsUp, rsMem, rsReq, rsDay, rsDir, rsSchema, rsPromise>>
        /\ \A c \in RsClients : c # "main"
    BY RsAssumption DEF ShutdownSaved
  <1>b. /\ IsStores(rsDisk') /\ DOMAIN rsTmp' = RsStores
        /\ rsDisk'.block = rsDisk.block
        /\ rsDisk'.visits = IF rsStop = "visits" THEN rsMem.visits ELSE rsDisk.visits
        /\ rsDisk'.latch = IF rsStop = "latch" THEN rsMem.latch ELSE rsDisk.latch
        /\ rsTmp[rsStop].by = "main" /\ rsTmp'[rsStop] = NoTmp
        /\ \A s \in RsStores \ {rsStop} : rsTmp'[s] = rsTmp[s]
    <2>1. rsStop \in RsStores /\ "main" # "none"
      BY <1>a DEF RsStores
    <2>2. /\ rsDisk' = [rsDisk EXCEPT ![rsStop] = rsMem[rsStop]]
          /\ rsTmp' = [rsTmp EXCEPT ![rsStop] = NoTmp] /\ rsTmp[rsStop].by = "main"
          /\ IsStores(rsDisk') /\ DOMAIN rsTmp' = RsStores
      BY <1>a, <2>1, SaveWrites
    <2>3. \A s \in RsStores : rsDisk'[s] = IF s = rsStop THEN rsMem[s] ELSE rsDisk[s]
      BY <2>2 DEF RsTyped, IsStores
    <2> QED
      BY <1>a, <2>1, <2>2, <2>3 DEF RsStores, RsTyped
  <1>1. RsTyped'
    BY <1>a, <1>b DEF RsTyped
  <1>2. SavesAreCurrent'
    BY <1>a, <1>b DEF SavesAreCurrent
  <1>3. DownIsQuiet'
    BY <1>a DEF DownIsQuiet
  <1>4. BlockInv'
    BY <1>a, <1>b DEF BlockInv, RsStores
  <1>5. ForgottenOnDisk'
    BY <1>a, <1>b DEF ForgottenOnDisk, RsStores
  <1>6. ResetsUnderWay'
    BY <1>a, <1>b DEF ResetsUnderWay, ResetOf, VisitsGone, LatchGone, RsStores
  <1>7. ResetsDone'
    BY <1>a, <1>b DEF ResetsDone
  <1>8. LearntInv'
    BY <1>a, <1>b DEF LearntInv
  <1>9. StampsAreLast'
    BY <1>a DEF StampsAreLast
  <1> QED
    BY <1>1, <1>2, <1>3, <1>4, <1>5, <1>6, <1>7, <1>8, <1>9

\* The process ends: memory and requests are gone, the files stay.
LEMMA EndsKeepsStores ==
    ASSUME StoresInv, ProcessEnds
    PROVE  StoresInv'
  <1> USE DEF StoresInv
  <1>a. /\ rsUp' = "down" /\ rsTmp' = [s \in RsStores |-> NoTmp] /\ rsMem' = RsEmpty
        /\ rsReq' = [c \in RsClients |-> RsNoReq]
        /\ UNCHANGED <<rsStop, rsDisk, rsDay, rsDir, rsSchema>>
    BY DEF ProcessEnds
  <1>b. IsStores(RsEmpty) /\ \A d \in RsDocs : RsEmpty.visits[d] = <<>> /\ RsEmpty.latch[d] = 0
    BY DEF RsEmpty, IsStores, RsStores
  <1>c. /\ rsPromise'.hide = rsPromise.hide /\ rsPromise'.reset = rsPromise.reset
        /\ rsPromise'.click = IF rsStop = "done" THEN rsPromise.click ELSE {}
        /\ rsPromise' \in [hide : SUBSET RsDocs, reset : SUBSET RsDocs, click : SUBSET RsDocs]
    BY DEF ProcessEnds, RsTyped
  <1>1. RsTyped'
    BY <1>a, <1>b, <1>c DEF RsTyped
  <1>2. SavesAreCurrent'
    BY <1>a DEF SavesAreCurrent
  <1>3. DownIsQuiet'
    BY <1>a DEF DownIsQuiet
  <1>4. BlockInv'
    BY <1>a, <1>c DEF BlockInv
  <1>5. ForgottenOnDisk'
    BY <1>a DEF ForgottenOnDisk
  <1>6. ResetsUnderWay'
    BY <1>a DEF RsNoReq, ResetsUnderWay, ResetOf
  <1>7. ResetsDone'
    BY <1>a, <1>b, <1>c DEF ResetsDone
  <1>8. LearntInv'
    BY <1>a, <1>c DEF LearntInv
  <1>9. StampsAreLast'
    BY <1>a DEF StampsAreLast
  <1> QED
    BY <1>1, <1>2, <1>3, <1>4, <1>5, <1>6, <1>7, <1>8, <1>9

\* A day passes.
LEMMA DayKeepsStores ==
    ASSUME StoresInv, DayPasses
    PROVE  StoresInv'
  <1> USE DEF StoresInv
  <1>1. RsTyped'
    BY DEF DayPasses, RsTyped
  <1>2. SavesAreCurrent'
    BY DEF DayPasses, SavesAreCurrent
  <1>3. DownIsQuiet'
    BY DEF DayPasses, DownIsQuiet
  <1>4. BlockInv'
    BY DEF DayPasses, BlockInv
  <1>5. ForgottenOnDisk'
    BY DEF DayPasses, ForgottenOnDisk
  <1>6. ResetsUnderWay'
    BY DEF DayPasses, ResetsUnderWay, ResetOf, VisitsGone, LatchGone
  <1>7. ResetsDone'
    BY DEF DayPasses, ResetsDone
  <1>8. LearntInv'
    BY DEF DayPasses, LearntInv
  <1>9. StampsAreLast'
    BY DEF DayPasses, StampsAreLast
  <1> QED
    BY <1>1, <1>2, <1>3, <1>4, <1>5, <1>6, <1>7, <1>8, <1>9

\* At first nothing is known and nothing is on disk but, it may be, an index.
LEMMA StoresInvInit == RsInit => StoresInv
  <1> SUFFICES ASSUME RsInit PROVE StoresInv
    OBVIOUS
  <1>1. IsStores(RsEmpty) /\ RsEmpty.block = {} /\ \A d \in RsDocs : RsEmpty.visits[d] = <<>> /\ RsEmpty.latch[d] = 0
    BY DEF RsEmpty, IsStores, RsStores
  <1>2. RsTyped /\ SavesAreCurrent /\ DownIsQuiet
    BY <1>1 DEF RsInit, RsTyped, SavesAreCurrent, DownIsQuiet, RsStores
  <1>3. BlockInv /\ ForgottenOnDisk /\ ResetsUnderWay /\ ResetsDone /\ LearntInv
    BY <1>1 DEF RsInit, BlockInv, ForgottenOnDisk, ResetsUnderWay, ResetOf, ResetsDone, LearntInv, RsNoReq
  <1>4. StampsAreLast
    <2>1. /\ <<>> \in Seq(Int) /\ <<1, 2>> \in Seq(Int) /\ <<1, 1>> \in Seq(Int)
          /\ <<1, 2>> # <<>> /\ <<1, 1>> # <<>>
      OBVIOUS
    <2>2. rsDir \in [meta : BOOLEAN, version : Int, print : Seq(Int), schema : Seq(Int)]
      <3>1. /\ [meta |-> FALSE, version |-> 0, print |-> <<>>, schema |-> <<>>]
                  \in [meta : BOOLEAN, version : Int, print : Seq(Int), schema : Seq(Int)]
            /\ [meta |-> TRUE, version |-> 1, print |-> <<1, 2>>, schema |-> <<1, 2>>]
                  \in [meta : BOOLEAN, version : Int, print : Seq(Int), schema : Seq(Int)]
        BY <2>1
      <3> QED
        BY <3>1 DEF RsInit, NoDir
    <2>3. rsDir.print # <<>> => rsDir.schema = rsDir.print
      BY DEF RsInit, NoDir
    <2> QED
      BY <2>1, <2>2, <2>3 DEF RsInit, StampsAreLast
  <1> QED
    BY <1>2, <1>3, <1>4 DEF StoresInv

\* Every step keeps what is on disk in accord with what was promised.
LEMMA StoresInvStep == StoresInv /\ [RsNext]_rsVars => StoresInv'
  <1> SUFFICES ASSUME StoresInv, [RsNext]_rsVars PROVE StoresInv'
    OBVIOUS
  <1>1. CASE UNCHANGED rsVars
    <2>1. RsTyped' /\ SavesAreCurrent' /\ DownIsQuiet'
      BY <1>1 DEF rsVars, StoresInv, RsTyped, SavesAreCurrent, DownIsQuiet
    <2>2. BlockInv' /\ ForgottenOnDisk' /\ ResetsDone'
      BY <1>1 DEF rsVars, StoresInv, BlockInv, ForgottenOnDisk, ResetsDone
    <2>3. ResetsUnderWay'
      BY <1>1 DEF rsVars, StoresInv, ResetsUnderWay, ResetOf, VisitsGone, LatchGone
    <2>4. LearntInv' /\ StampsAreLast'
      BY <1>1 DEF rsVars, StoresInv, LearntInv, StampsAreLast
    <2> QED
      BY <2>1, <2>2, <2>3, <2>4 DEF StoresInv
  <1>2. CASE RsNext
    BY <1>2, BootKeepsStores, WipeKeepsStores, CreateKeepsStores, StampKeepsStores, ReadyKeepsStores,
       ClickKeepsStores, QueryKeepsStores, HideKeepsStores, HideSaveKeepsStores, ResetKeepsStores,
       ResetSaveKeepsStores, LatchKeepsStores, ResetDoneKeepsStores, ShutdownKeepsStores,
       SavesKeepsStores, SavedKeepsStores, EndsKeepsStores, DayKeepsStores DEF RsNext
  <1> QED
    BY <1>1, <1>2

\* What an acknowledged request promised, a hidden document and a ranking that was
\* reset, is on disk whatever other clients and the shutdown save, and wherever the
\* process dies; so is what was learnt once a shutdown has ended, and an index that
\* is served has the schema of the program.
THEOREM StoresSurvive == RsSpec => []StoresDurable
  <1>1. StoresInv => StoresDurable
    BY DEF StoresInv, BlockInv, ResetsDone, LearntInv, StampsAreLast,
           StoresDurable, HiddenForGood, ResetForGood, LearntIsKept, IndexIsOurs
  <1> QED
    BY <1>1, StoresInvInit, StoresInvStep, PTL DEF RsSpec

================================================================================
