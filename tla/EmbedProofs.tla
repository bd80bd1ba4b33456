------------------------------ MODULE EmbedProofs ------------------------------
(***************************************************************************)
(* Proofs about the embedding of documents: the bounds of its queues, and  *)
(* that the vector store and its journal agree with the documents, for any *)
(* number of documents, channels, commits, backfills and faults, and any   *)
(* capacity of the queues.                                                 *)
(*                                                                         *)
(* The invariant follows the commands about one document along the road:   *)
(* the tasks that wait, the wire, the queue of the embed thread, what the  *)
(* thread holds back, the batch it flushes, the store.  Each command fits  *)
(* what follows it (Fits): the last one says what the lexical index says,  *)
(* and one that no deletion follows is of the document's present life, no  *)
(* newer than the index, and alone with its mtime in that life.  The same  *)
(* is true of a row of the journal, which is what makes it safe to skip a  *)
(* command the journal calls current.                                      *)
(***************************************************************************)
EXTENDS EmbedWorker, SequenceTheorems, FiniteSetTheorems, TLAPS

EwChannels == EwVectors \cup {"skip"}
EwRow  == [mt : Nat, ver : Nat, ch : EwChannels]
EwUpsert == [op : {"embed"}, doc : EwDocs, row : EwRow]
EwJob  == EwUpsert \cup [op : {"delete"}, doc : EwDocs, row : {EwNone}]
EwOfChannel(c) == {j \in EwUpsert : j.row.ch = c}

--------------------------------------------------------------------------------
(***************************************************************************)
(* Shape.                                                                  *)
(***************************************************************************)
LexTyped ==
    /\ lex \in [EwDocs -> EwRow \cup {EwNone}]
    /\ \A d \in EwDocs : lex[d] # EwNone =>
          lex[d].mt # 0 /\ lex[d].ver <= ewCount.commits /\ lex[d].ch \in EwChannelsOf[d]

RoadTyped ==
    /\ wire \in Seq(EwJob) /\ jobs \in Seq(EwJob) /\ late \in SUBSET EwJob
    /\ Len(wire) <= EwWireCap /\ Len(jobs) <= EwJobCap

PendTyped ==
    /\ DOMAIN pend = {"text", "image", "deletes"}
    /\ pend["text"] \in Seq(EwOfChannel("text")) /\ pend["image"] \in Seq(EwOfChannel("image"))
    /\ pend["deletes"] \in SUBSET EwDocs

\* What the embed thread still holds back at each step of a flush.
FlushTyped ==
    /\ DOMAIN flush = {"at", "batch"}
    /\ flush.at \in {"idle", "text", "image", "record", "deletes", "forget"}
    /\ flush.at = "record" =>
          /\ flush.batch \in Seq(EwUpsert) /\ flush.batch # <<>>
          /\ flush.batch[1].row.ch \in EwVectors
          /\ \A i, j \in DOMAIN flush.batch :
                /\ flush.batch[i].row.ch = flush.batch[j].row.ch
                /\ flush.batch[i].doc = flush.batch[j].doc => i = j
          /\ pend["text"] = <<>>
          /\ flush.batch[1].row.ch = "image" => pend["image"] = <<>>
    /\ flush.at = "forget" => flush.batch \in SUBSET EwDocs /\ pend["deletes"] = {}
    /\ flush.at \in {"image", "deletes", "forget"} => pend["text"] = <<>>
    /\ flush.at \in {"deletes", "forget"} => pend["image"] = <<>>
    /\ flush.at \notin {"record", "forget"} => flush = [EwIdle EXCEPT !.at = flush.at]

StoreTyped ==
    /\ vec \in [EwDocs -> [EwVectors -> EwRow \cup {EwNone}]]
    /\ journal \in [EwDocs -> [EwVectors -> EwRow \cup {EwNone}]]
    /\ \A d \in EwDocs, c \in EwVectors : journal[d][c] # EwNone =>
          journal[d][c].ver = 0 /\ journal[d][c].ch = c

BackfillTyped ==
    /\ DOMAIN bf = {"at", "left", "doc", "row"}
    /\ bf.at \in {"none", "walk", "send"} /\ bf.left \in SUBSET EwDocs
    /\ bf.at = "none" => bf = NoBackfill
    /\ bf.at = "send" =>
          /\ bf.doc \in EwDocs /\ bf.row \in EwRow /\ bf.row.mt = 0
          /\ bf.row.ver <= ewCount.commits
          /\ lex[bf.doc] # EwNone /\ lex[bf.doc].ver = bf.row.ver => lex[bf.doc].ch = bf.row.ch

CountTyped ==
    /\ DOMAIN ewCount = {"commits", "faults", "backfills", "up"}
    /\ ewCount.commits \in Nat /\ ewCount.faults \in Nat /\ ewCount.backfills \in Nat
    /\ ewCount.up \in BOOLEAN
    /\ excused \in SUBSET EwDocs /\ torn \in SUBSET EwDocs

\* A worker that is down has nothing under way, nor has the stub for it.
DownIsEmpty == ~ewCount.up => EwQuiet

EwShape == /\ LexTyped /\ RoadTyped /\ PendTyped /\ FlushTyped
           /\ StoreTyped /\ BackfillTyped /\ CountTyped /\ DownIsEmpty

--------------------------------------------------------------------------------
(***************************************************************************)
(* The commands about a document, and what follows each.                   *)
(***************************************************************************)
\* The commands about d in s after the n-th.
AboutAfter(s, n, d) == {s[k] : k \in {k \in DOMAIN s : k > n /\ s[k].doc = d}}
About(s, d) == AboutAfter(s, 0, d)
LateOf(d)   == {x \in late : x.doc = d}

NoDeletion(B) == \A b \in B : b.op = "embed"

\* Of what the lexical index has of the document, L, a command x before the
\* commands B about the same document.
Says(L, x) == x.row.ver = L.ver /\ x.row.mt \in {0, L.mt}
LastSays(L, x)  == IF x.op = "delete" THEN L = EwNone
                   ELSE L # EwNone /\ x.row.ch = L.ch /\ Says(L, x)
SameLife(L, x, B) ==
    /\ L # EwNone /\ x.row.ch = L.ch /\ x.row.mt <= L.mt
    /\ x.row.mt = L.mt => x.row.ver = L.ver /\ \A b \in B : Says(L, b)
Fits(L, x, B) ==
    /\ B = {} => LastSays(L, x)
    /\ x.op = "embed" /\ NoDeletion(B) => SameLife(L, x, B)

AllFit(L, s, d, B) ==
    \A i \in DOMAIN s : s[i].doc = d => Fits(L, s[i], AboutAfter(s, i, d) \cup B)

Deleting(d) == IF d \in pend["deletes"] THEN {EmbedDelete(d)} ELSE {}
OnWire(d)   == About(wire, d) \cup LateOf(d)
OnRoad(d)   == About(jobs, d) \cup OnWire(d)
Ahead(d)    == Deleting(d) \cup OnRoad(d)

RoadFits(d) ==
    /\ \A x, y \in LateOf(d) : x = y
    /\ \A x \in LateOf(d) : Fits(lex[d], x, {})
    /\ AllFit(lex[d], wire, d, LateOf(d))
    /\ AllFit(lex[d], jobs, d, OnWire(d))

PendFits(d) ==
    /\ \A c \in EwVectors : AllFit(lex[d], pend[c], d, Ahead(d))
    /\ d \in pend["deletes"] /\ OnRoad(d) = {} => lex[d] = EwNone

\* The batch on its way into the journal, which is in the store already.
BatchFits(d) ==
    flush.at = "record" => \A i \in DOMAIN flush.batch :
        flush.batch[i].doc = d /\ NoDeletion(Ahead(d)) => SameLife(lex[d], flush.batch[i], Ahead(d))

NothingAhead(d) == About(pend["text"], d) = {} /\ About(pend["image"], d) = {} /\ Ahead(d) = {}

StoreFits(d) ==
    NothingAhead(d) =>
        IF lex[d] = EwNone THEN \A c \in EwVectors : vec[d][c] = EwNone
        ELSE lex[d].ch # "skip" => /\ vec[d][lex[d].ch] # EwNone
                                   /\ vec[d][lex[d].ch].ver = lex[d].ver

Forgetting(d) == flush.at = "forget" /\ d \in flush.batch

JournalFits(d) ==
    \A c \in EwVectors :
        journal[d][c] # EwNone /\ ~Forgetting(d) /\ NoDeletion(Ahead(d)) =>
            /\ lex[d] # EwNone /\ journal[d][c].mt <= lex[d].mt
            /\ journal[d][c].mt = lex[d].mt =>
                  /\ vec[d][c] # EwNone /\ vec[d][c].ver = lex[d].ver
                  /\ \A b \in About(pend[c], d) \cup Ahead(d) : Says(lex[d], b)

DocFits(d) == RoadFits(d) /\ PendFits(d) /\ BatchFits(d) /\ StoreFits(d) /\ JournalFits(d)

\* What is flushed is in the store before it is in the journal.
BatchInStore ==
    flush.at = "record" => \A i \in DOMAIN flush.batch :
        vec[flush.batch[i].doc][flush.batch[i].row.ch] = flush.batch[i].row

NotAhead == JournalNotAhead /\ BatchInStore
DocsFit  == \A d \in EwDocs \ (excused \cup torn) : DocFits(d)

EwInv == EwShape /\ NotAhead /\ DocsFit

--------------------------------------------------------------------------------
(***************************************************************************)
(* Rows, commands and what is absent.                                      *)
(***************************************************************************)
LEMMA NoneIsNoRow == EwNone \notin EwRow
  <1> SUFFICES ASSUME EwNone \in EwRow PROVE FALSE
    OBVIOUS
  <1>1. DOMAIN EwNone = {"mt", "ver", "ch"}  BY DEF EwRow
  <1>2. DOMAIN EwNone = {"none"}  BY DEF EwNone
  <1> QED BY <1>1, <1>2

LEMMA RowIsRow ==
  ASSUME NEW m \in Nat, NEW v \in Nat, NEW c \in EwChannels
  PROVE  /\ Row(m, v, c) \in EwRow /\ Row(m, v, c) # EwNone
         /\ Row(m, v, c).mt = m /\ Row(m, v, c).ver = v /\ Row(m, v, c).ch = c
  BY NoneIsNoRow DEF Row, EwRow

LEMMA RowFields ==
  ASSUME NEW r \in EwRow
  PROVE  r.mt \in Nat /\ r.ver \in Nat /\ r.ch \in EwChannels /\ r # EwNone
  BY NoneIsNoRow DEF EwRow

LEMMA EmbedIsJob ==
  ASSUME NEW d \in EwDocs, NEW r \in EwRow
  PROVE  /\ Embed(d, r) \in EwUpsert /\ Embed(d, r) \in EwJob
         /\ Embed(d, r).op = "embed" /\ Embed(d, r).doc = d /\ Embed(d, r).row = r
  BY DEF Embed, EwUpsert, EwJob

LEMMA DeleteIsJob ==
  ASSUME NEW d \in EwDocs
  PROVE  /\ EmbedDelete(d) \in EwJob
         /\ EmbedDelete(d).op = "delete" /\ EmbedDelete(d).op # "embed" /\ EmbedDelete(d).doc = d
  BY DEF EmbedDelete, EwJob

LEMMA JobFields ==
  ASSUME NEW j \in EwJob
  PROVE  /\ j.doc \in EwDocs /\ j.op \in {"embed", "delete"}
         /\ j.op = "embed" => j \in EwUpsert /\ j.row \in EwRow
         /\ j.op = "delete" => j = EmbedDelete(j.doc)
  BY DEF EwJob, EwUpsert, EmbedDelete

LEMMA UpsertFields ==
  ASSUME NEW j \in EwUpsert
  PROVE  j \in EwJob /\ j.op = "embed" /\ j.doc \in EwDocs /\ j.row \in EwRow
  BY DEF EwJob, EwUpsert

--------------------------------------------------------------------------------
(***************************************************************************)
(* Sequences of commands, seen from one document.                          *)
(***************************************************************************)
LEMMA NothingAbout == \A d : About(<<>>, d) = {} /\ \A L, B : AllFit(L, <<>>, d, B)
  BY DEF About, AboutAfter, AllFit

LEMMA AboutIsOf ==
  ASSUME NEW S, NEW s \in Seq(S), NEW d, NEW n \in Nat
  PROVE  /\ AboutAfter(s, n, d) \in SUBSET S
         /\ \A x \in AboutAfter(s, n, d) : x.doc = d
         /\ AboutAfter(s, n, d) \in SUBSET About(s, d)
  <1>1. \A i \in DOMAIN s : s[i] \in S  BY ElementOfSeq
  <1> QED BY <1>1 DEF About, AboutAfter

LEMMA NoneIn ==
  ASSUME NEW S, NEW s \in Seq(S), NEW d, About(s, d) = {}
  PROVE  \A i \in DOMAIN s : s[i].doc # d
  <1>1. \A i \in DOMAIN s : i > 0  OBVIOUS
  <1> QED BY <1>1 DEF About, AboutAfter

LEMMA AboutAppend ==
  ASSUME NEW S, NEW s \in Seq(S), NEW x \in S, NEW d, NEW n \in 0..Len(s)
  PROVE  AboutAfter(Append(s, x), n, d) = AboutAfter(s, n, d) \cup IF x.doc = d THEN {x} ELSE {}
  <1> DEFINE t == Append(s, x)
  <1>1. DOMAIN t = 1..(Len(s) + 1) /\ DOMAIN s = 1..Len(s) /\ Len(s) \in Nat  OBVIOUS
  <1>2. \A i \in DOMAIN s : t[i] = s[i]  OBVIOUS
  <1>3. t[Len(s) + 1] = x  OBVIOUS
  <1> HIDE DEF t
  <1>4. ASSUME NEW y \in AboutAfter(t, n, d) PROVE y \in AboutAfter(s, n, d) \cup IF x.doc = d THEN {x} ELSE {}
    <2>1. PICK k \in DOMAIN t : k > n /\ t[k].doc = d /\ y = t[k]  BY <1>4 DEF AboutAfter
    <2>2. CASE k \in DOMAIN s  BY <2>1, <2>2, <1>2 DEF AboutAfter
    <2>3. CASE k = Len(s) + 1  BY <2>1, <2>3, <1>3
    <2> QED BY <2>2, <2>3, <1>1
  <1>5. ASSUME NEW y \in AboutAfter(s, n, d) PROVE y \in AboutAfter(t, n, d)
    <2>1. PICK k \in DOMAIN s : k > n /\ s[k].doc = d /\ y = s[k]  BY <1>5 DEF AboutAfter
    <2> QED BY <2>1, <1>1, <1>2 DEF AboutAfter
  <1>6. x.doc = d => x \in AboutAfter(t, n, d)
    <2>1. Len(s) + 1 \in DOMAIN t /\ Len(s) + 1 > n  BY <1>1
    <2> QED BY <2>1, <1>3 DEF AboutAfter
  <1> QED BY <1>4, <1>5, <1>6 DEF t

LEMMA AllAppend ==
  ASSUME NEW S, NEW s \in Seq(S), NEW x \in S, NEW d
  PROVE  About(Append(s, x), d) = About(s, d) \cup IF x.doc = d THEN {x} ELSE {}
  <1>1. 0 \in 0..Len(s)  OBVIOUS
  <1> QED BY <1>1, AboutAppend DEF About

LEMMA FitAppend ==
  ASSUME NEW S, NEW s \in Seq(S), NEW x \in S, NEW d, NEW L, NEW B
  PROVE  /\ x.doc # d => (AllFit(L, Append(s, x), d, B) <=> AllFit(L, s, d, B))
         /\ x.doc = d /\ AllFit(L, s, d, {x} \cup B) /\ Fits(L, x, B) => AllFit(L, Append(s, x), d, B)
  <1> DEFINE t == Append(s, x)
  <1>1. DOMAIN t = 1..(Len(s) + 1) /\ DOMAIN s = 1..Len(s) /\ Len(s) \in Nat  OBVIOUS
  <1>2. \A i \in DOMAIN s : t[i] = s[i]  OBVIOUS
  <1>3. t[Len(s) + 1] = x  OBVIOUS
  <1>4. \A i \in DOMAIN s : AboutAfter(t, i, d) = AboutAfter(s, i, d) \cup IF x.doc = d THEN {x} ELSE {}
    BY <1>1, AboutAppend
  <1>5. AboutAfter(t, Len(s) + 1, d) = {}  BY <1>1 DEF AboutAfter
  <1> HIDE DEF t
  <1>6. ASSUME x.doc # d PROVE AllFit(L, t, d, B) <=> AllFit(L, s, d, B)
    <2>1. \A i \in DOMAIN s : AboutAfter(t, i, d) = AboutAfter(s, i, d)  BY <1>4, <1>6
    <2> QED BY <2>1, <1>1, <1>2, <1>3, <1>6 DEF AllFit
  <1>7. ASSUME x.doc = d, AllFit(L, s, d, {x} \cup B), Fits(L, x, B) PROVE AllFit(L, t, d, B)
    <2> SUFFICES ASSUME NEW i \in DOMAIN t, t[i].doc = d PROVE Fits(L, t[i], AboutAfter(t, i, d) \cup B)
      BY DEF AllFit
    <2>1. CASE i \in DOMAIN s
      <3>1. AboutAfter(t, i, d) \cup B = AboutAfter(s, i, d) \cup ({x} \cup B)  BY <2>1, <1>4, <1>7
      <3>2. Fits(L, s[i], AboutAfter(s, i, d) \cup ({x} \cup B))  BY <2>1, <1>2, <1>7 DEF AllFit
      <3> QED BY <3>1, <3>2, <2>1, <1>2
    <2>2. CASE i = Len(s) + 1
      <3>1. AboutAfter(t, i, d) \cup B = B  BY <2>2, <1>5
      <3> QED BY <3>1, <2>2, <1>3, <1>7
    <2> QED BY <2>1, <2>2, <1>1
  <1> QED BY <1>6, <1>7 DEF t

LEMMA AboutTail ==
  ASSUME NEW S, NEW s \in Seq(S), s # <<>>, NEW d
  PROVE  About(s, d) = About(Tail(s), d) \cup IF Head(s).doc = d THEN {Head(s)} ELSE {}
  <1> DEFINE t == Tail(s)
  <1>1. DOMAIN s = 1..Len(s) /\ Len(s) \in Nat /\ Len(s) >= 1  BY EmptySeq
  <1>2. DOMAIN t = 1..(Len(s) - 1) /\ \A i \in 1..(Len(s) - 1) : t[i] = s[i + 1]  BY <1>1
  <1>3. Head(s) = s[1]  OBVIOUS
  <1> HIDE DEF t
  <1>4. ASSUME NEW y \in About(s, d) PROVE y \in About(t, d) \cup IF Head(s).doc = d THEN {Head(s)} ELSE {}
    <2>1. PICK k \in DOMAIN s : s[k].doc = d /\ y = s[k]  BY <1>4 DEF About, AboutAfter
    <2>2. CASE k = 1  BY <2>1, <2>2, <1>3
    <2>3. CASE k # 1
      <3>1. k - 1 \in DOMAIN t /\ k - 1 > 0 /\ t[k - 1] = s[k]  BY <2>1, <2>3, <1>1, <1>2
      <3> QED BY <3>1, <2>1 DEF About, AboutAfter
    <2> QED BY <2>2, <2>3
  <1>5. ASSUME NEW y \in About(t, d) PROVE y \in About(s, d)
    <2>1. PICK k \in DOMAIN t : t[k].doc = d /\ y = t[k]  BY <1>5 DEF About, AboutAfter
    <2>2. k + 1 \in DOMAIN s /\ k + 1 > 0 /\ t[k] = s[k + 1]  BY <2>1, <1>1, <1>2
    <2> QED BY <2>1, <2>2 DEF About, AboutAfter
  <1>6. Head(s).doc = d => Head(s) \in About(s, d)
    <2>1. 1 \in DOMAIN s  BY <1>1
    <2> QED BY <2>1, <1>3 DEF About, AboutAfter
  <1> QED BY <1>4, <1>5, <1>6 DEF t

LEMMA FitTail ==
  ASSUME NEW S, NEW s \in Seq(S), s # <<>>, NEW d, NEW L, NEW B, AllFit(L, s, d, B)
  PROVE  /\ AllFit(L, Tail(s), d, B)
         /\ Head(s).doc = d => Fits(L, Head(s), About(Tail(s), d) \cup B)
  <1> DEFINE t == Tail(s)
  <1>1. DOMAIN s = 1..Len(s) /\ Len(s) \in Nat /\ Len(s) >= 1  BY EmptySeq
  <1>2. DOMAIN t = 1..(Len(s) - 1) /\ \A i \in 1..(Len(s) - 1) : t[i] = s[i + 1]  BY <1>1
  <1>3. Head(s) = s[1]  OBVIOUS
  <1> HIDE DEF t
  <1>4. ASSUME NEW n \in 0..(Len(s) - 1) PROVE AboutAfter(s, n + 1, d) = AboutAfter(t, n, d)
    <2>1. ASSUME NEW y \in AboutAfter(s, n + 1, d) PROVE y \in AboutAfter(t, n, d)
      <3>1. PICK k \in DOMAIN s : k > n + 1 /\ s[k].doc = d /\ y = s[k]  BY <2>1 DEF AboutAfter
      <3>2. k - 1 \in DOMAIN t /\ k - 1 > n /\ t[k - 1] = s[k]  BY <3>1, <1>1, <1>2
      <3> QED BY <3>1, <3>2 DEF AboutAfter
    <2>2. ASSUME NEW y \in AboutAfter(t, n, d) PROVE y \in AboutAfter(s, n + 1, d)
      <3>1. PICK k \in DOMAIN t : k > n /\ t[k].doc = d /\ y = t[k]  BY <2>2 DEF AboutAfter
      <3>2. k + 1 \in DOMAIN s /\ k + 1 > n + 1 /\ t[k] = s[k + 1]  BY <3>1, <1>1, <1>2
      <3> QED BY <3>1, <3>2 DEF AboutAfter
    <2> QED BY <2>1, <2>2
  <1>5. AllFit(L, t, d, B)
    <2> SUFFICES ASSUME NEW i \in DOMAIN t, t[i].doc = d PROVE Fits(L, t[i], AboutAfter(t, i, d) \cup B)
      BY DEF AllFit
    <2>1. i + 1 \in DOMAIN s /\ t[i] = s[i + 1] /\ i \in 0..(Len(s) - 1)  BY <1>1, <1>2
    <2>2. AboutAfter(s, i + 1, d) = AboutAfter(t, i, d)  BY <2>1, <1>4
    <2> QED BY <2>1, <2>2 DEF AllFit
  <1>6. Head(s).doc = d => Fits(L, Head(s), About(t, d) \cup B)
    <2>1. 1 \in DOMAIN s /\ 0 \in 0..(Len(s) - 1)  BY <1>1
    <2>2. AboutAfter(s, 1, d) = About(t, d)  BY <2>1, <1>4 DEF About
    <2> QED BY <2>1, <2>2, <1>3 DEF AllFit
  <1> QED BY <1>5, <1>6 DEF t

\* What fits goes on fitting when everything about d that fits before B fits
\* before C.
LEMMA FitMore ==
  ASSUME NEW S, NEW s \in Seq(S), NEW d, NEW L, NEW M, NEW B, NEW C,
         AllFit(L, s, d, B),
         \A x \in S : \A A \in SUBSET S :
            x.doc = d /\ (\A a \in A : a.doc = d) /\ Fits(L, x, A \cup B) => Fits(M, x, A \cup C)
  PROVE  AllFit(M, s, d, C)
  <1> SUFFICES ASSUME NEW i \in DOMAIN s, s[i].doc = d PROVE Fits(M, s[i], AboutAfter(s, i, d) \cup C)
    BY DEF AllFit
  <1>1. s[i] \in S /\ i \in Nat  BY ElementOfSeq
  <1>2. AboutAfter(s, i, d) \in SUBSET S /\ \A a \in AboutAfter(s, i, d) : a.doc = d  BY <1>1, AboutIsOf
  <1>3. Fits(L, s[i], AboutAfter(s, i, d) \cup B)  BY DEF AllFit
  <1> QED BY <1>1, <1>2, <1>3

LEMMA FitNone ==
  ASSUME NEW S, NEW s \in Seq(S), NEW d, About(s, d) = {}
  PROVE  \A L, B : AllFit(L, s, d, B)
  BY NoneIn DEF AllFit

--------------------------------------------------------------------------------
(***************************************************************************)
(* A batch without repetitions.                                            *)
(***************************************************************************)
LEMMA LastIsOne ==
  ASSUME NEW S, NEW s \in Seq(S), NEW d \in DocsOf(Range(s))
  PROVE  /\ LastOf(s, d) \in Range(s) /\ LastOf(s, d).doc = d
         /\ \E i \in DOMAIN s : s[i] = LastOf(s, d) /\ \A k \in DOMAIN s : s[k].doc = d => k <= i
  <1> DEFINE I == {i \in DOMAIN s : s[i].doc = d}
             T == {Len(s) - i : i \in I}
             Lt == {p \in Nat \X Nat : p[1] < p[2]}
  <1>1. DOMAIN s = 1..Len(s) /\ Len(s) \in Nat  OBVIOUS
  <1>2. I # {}  BY DEF DocsOf, Range
  <1>3. T \subseteq Nat /\ T # {}  BY <1>1, <1>2
  <1>0. IsWellFoundedOn(Lt, Nat)  BY NatLessThanWellFounded DEF OpToRel
  <1>4. PICK t \in T : \A y \in T : <<y, t>> \notin Lt
    <2> HIDE DEF T, Lt
    <2> QED BY <1>0, <1>3, WFMin
  <1>5. PICK i \in I : t = Len(s) - i  OBVIOUS
  <1>6. \A k \in I : k <= i
    <2> SUFFICES ASSUME NEW k \in I, k > i PROVE FALSE
      BY <1>1
    <2>1. Len(s) - k \in T /\ Len(s) - k < t /\ Len(s) - k \in Nat /\ t \in Nat  BY <1>1, <1>5
    <2>2. <<Len(s) - k, t>> \in Lt  BY <2>1
    <2> QED BY <2>1, <2>2, <1>4
  <1>7. LastOf(s, d) \in {s[j] : j \in I} /\ \E j \in I : s[j] = LastOf(s, d) /\ \A k \in DOMAIN s : s[k].doc = d => k <= j
    <2> DEFINE P(j) == s[j].doc = d /\ \A k \in DOMAIN s : s[k].doc = d => k <= j
               c    == CHOOSE j \in DOMAIN s : P(j)
    <2>1. i \in DOMAIN s /\ P(i)  BY <1>6
    <2>2. c \in DOMAIN s /\ P(c)  BY <2>1
    <2>3. LastOf(s, d) = s[c]  BY DEF LastOf
    <2> HIDE DEF c
    <2> QED BY <2>2, <2>3
  <1> QED BY <1>7 DEF Range

\* A sequence made of a finite set names each member once.
LEMMA SetToSeqOnce ==
  ASSUME NEW S, IsFiniteSet(S)
  PROVE  /\ SetToSeq(S) \in Seq(S) /\ Range(SetToSeq(S)) = S
         /\ \A i, j \in DOMAIN SetToSeq(S) : SetToSeq(S)[i] = SetToSeq(S)[j] => i = j
  <1> DEFINE n == Cardinality(S)
             q == SetToSeq(S)
  <1>1. n \in Nat /\ ExistsBijection(1..n, S)  BY FS_CardinalityType
  <1>2. PICK f : f \in Bijection(1..n, S)  BY <1>1 DEF ExistsBijection
  <1>3. f \in [1..n -> S] /\ IsInjective(f)  BY <1>2 DEF Bijection, Injection
  <1>4. q \in [1..n -> S] /\ IsInjective(q)  BY <1>3 DEF SetToSeq
  <1>5. q \in Injection(1..n, S)  BY <1>4 DEF Injection
  <1>6. IsFiniteSet(1..n) /\ Cardinality(1..n) = n
    <2>1. IsFiniteSet(1..n) /\ Cardinality(1..n) = (IF 1 > n THEN 0 ELSE n - 1 + 1)  BY <1>1, FS_Interval
    <2> QED BY <2>1, <1>1
  <1>7. q \in Surjection(1..n, S)  BY <1>5, <1>6, FS_Injection
  <1> HIDE DEF q
  <1>8. q \in Seq(S) /\ DOMAIN q = 1..n  BY <1>1, <1>4
  <1>9. Range(q) = S  BY <1>4, <1>7 DEF Range, Surjection
  <1> QED BY <1>4, <1>8, <1>9 DEF q, IsInjective

LEMMA RangeFinite ==
  ASSUME NEW S, NEW s \in Seq(S)
  PROVE  IsFiniteSet(Range(s)) /\ Range(s) \in SUBSET S
  <1>1. s \in [1..Len(s) -> S] /\ Len(s) \in Nat  OBVIOUS
  <1>2. IsFiniteSet(1..Len(s))  BY <1>1, FS_Interval
  <1>3. s \in Surjection(1..Len(s), Range(s))  BY <1>1 DEF Surjection, Range
  <1> QED BY <1>1, <1>2, <1>3, FS_Surjection DEF Range

LEMMA DedupOnce ==
  ASSUME NEW S, NEW s \in Seq(S)
  PROVE  LET b == dedup_by_doc_id(s)
         IN  /\ b \in Seq(S) /\ DocsOf(Range(b)) = DocsOf(Range(s))
             /\ b = <<>> <=> s = <<>>
             /\ \A i, j \in DOMAIN b : b[i].doc = b[j].doc => i = j
             /\ \A i \in DOMAIN b : b[i] = LastOf(s, b[i].doc) /\ b[i].doc \in DocsOf(Range(s))
             /\ \A d \in DocsOf(Range(s)) : LastOf(b, d) = LastOf(s, d)
  <1> DEFINE b == dedup_by_doc_id(s)
             D == DocsOf(Range(s))
             R == {LastOf(s, d) : d \in D}
  <1>1. \A d \in D : LastOf(s, d) \in Range(s) /\ LastOf(s, d).doc = d  BY LastIsOne
  <1>2. R \subseteq Range(s)  BY <1>1
  <1>3. IsFiniteSet(Range(s)) /\ Range(s) \in SUBSET S  BY RangeFinite
  <1>4. IsFiniteSet(R)  BY <1>2, <1>3, FS_Subset
  <1>5. b = SetToSeq(R)  BY DEF dedup_by_doc_id
  <1> HIDE DEF b
  <1>6. b \in Seq(R) /\ Range(b) = R /\ \A i, j \in DOMAIN b : b[i] = b[j] => i = j
    <2> HIDE DEF R
    <2> QED BY <1>4, <1>5, SetToSeqOnce
  <1>7. b \in Seq(S)
    <2>1. R \subseteq S  BY <1>2, <1>3
    <2> HIDE DEF R
    <2> QED BY <1>6, <2>1
  <1>8. \A r \in R : r.doc \in D /\ r = LastOf(s, r.doc)  BY <1>1
  <1>9. \A i \in DOMAIN b : b[i] \in R  BY <1>6 DEF Range
  <1>10. DocsOf(Range(b)) = D
    <2>1. DocsOf(R) = D  BY <1>1 DEF DocsOf
    <2> QED BY <2>1, <1>6
  <1>11. \A i, j \in DOMAIN b : b[i].doc = b[j].doc => i = j
    <2> HIDE DEF R, D
    <2> QED BY <1>6, <1>8, <1>9
  <1>12. b = <<>> <=> s = <<>>
    <2>1. b = <<>> <=> Range(b) = {}
      <3>1. b = <<>> <=> DOMAIN b = {}  BY <1>7
      <3> QED BY <3>1 DEF Range
    <2>2. s = <<>> <=> Range(s) = {}
      <3>1. s = <<>> <=> DOMAIN s = {}  OBVIOUS
      <3> QED BY <3>1 DEF Range
    <2>3. D = {} <=> Range(s) = {}  BY DEF DocsOf
    <2>4. D = {} <=> R = {}  OBVIOUS
    <2> QED BY <2>1, <2>2, <2>3, <2>4, <1>6
  <1>13. ASSUME NEW d \in D PROVE LastOf(b, d) = LastOf(s, d)
    <2>1. d \in DocsOf(Range(b))  BY <1>10
    <2>2. LastOf(b, d) \in Range(b) /\ LastOf(b, d).doc = d
      <3> HIDE DEF R, D
      <3> QED BY <2>1, <1>7, LastIsOne
    <2> QED BY <2>2, <1>6, <1>8
  <1>14. \A i \in DOMAIN b : b[i] = LastOf(s, b[i].doc) /\ b[i].doc \in D  BY <1>8, <1>9
  <1> HIDE DEF R, D
  <1> QED BY <1>7, <1>10, <1>11, <1>12, <1>13, <1>14 DEF b, D

\* What a batch without repetitions says of a document.
LEMMA LastOfOnce ==
  ASSUME NEW S, NEW b \in Seq(S), NEW i \in DOMAIN b,
         \A k, j \in DOMAIN b : b[k].doc = b[j].doc => k = j
  PROVE  b[i].doc \in DocsOf(Range(b)) /\ LastOf(b, b[i].doc) = b[i]
  <1>1. b[i].doc \in DocsOf(Range(b))  BY DEF DocsOf, Range
  <1>2. PICK k \in DOMAIN b : b[k] = LastOf(b, b[i].doc) /\ b[k].doc = b[i].doc
    BY <1>1, LastIsOne
  <1> QED BY <1>1, <1>2

LEMMA DocsIsAbout ==
  ASSUME NEW S, NEW s \in Seq(S), NEW d
  PROVE  d \in DocsOf(Range(s)) <=> About(s, d) # {}
  <1>1. \A i \in DOMAIN s : i > 0  OBVIOUS
  <1> QED BY <1>1 DEF DocsOf, Range, About, AboutAfter

--------------------------------------------------------------------------------
(***************************************************************************)
(* One command is sent.                                                    *)
(***************************************************************************)
\* The wire, the tasks that wait and the excused documents after a command.
Sends(w, l, e, cmd, w2, l2, e2) ==
    \/ ~ewCount.up /\ w2 = w /\ l2 = l /\ e2 = e \cup {cmd.doc}
    \/ /\ ewCount.up /\ e2 = e \cup (DocsOf(l) \cap {cmd.doc})
       /\ \/ Len(w) < EwWireCap /\ w2 = Append(w, cmd) /\ l2 = l
          \/ w2 = w /\ l2 = l \cup {cmd}

LEMMA ForwardSends ==
  ASSUME NEW w, NEW l, NEW e, NEW cmd
  PROVE  \E w2, l2, e2 :
            /\ Forward([wire |-> w, late |-> l, excused |-> e], cmd)
                 = [wire |-> w2, late |-> l2, excused |-> e2]
            /\ Sends(w, l, e, cmd, w2, l2, e2)
  <1> DEFINE s == [wire |-> w, late |-> l, excused |-> e]
             o == e \cup (DocsOf(l) \cap {cmd.doc})
  <1>1. CASE ~ewCount.up
    <2>1. Forward(s, cmd) = [wire |-> w, late |-> l, excused |-> e \cup {cmd.doc}]
      BY <1>1 DEF Forward
    <2> QED BY <2>1, <1>1 DEF Sends
  <1>2. CASE ewCount.up /\ Len(w) < EwWireCap
    <2>1. Forward(s, cmd) = [wire |-> Append(w, cmd), late |-> l, excused |-> o]
      BY <1>2 DEF Forward
    <2> QED BY <2>1, <1>2 DEF Sends
  <1>3. CASE ewCount.up /\ ~(Len(w) < EwWireCap)
    <2>1. Forward(s, cmd) = [wire |-> w, late |-> l \cup {cmd}, excused |-> o]
      BY <1>3 DEF Forward
    <2> QED BY <2>1, <1>3 DEF Sends
  <1> QED BY <1>1, <1>2, <1>3

LEMMA OneSent ==
  ASSUME NEW U, NEW cmd, broadcast(Forward(Sending(U), cmd))
  PROVE  Sends(wire, late, excused \cup U, cmd, wire', late', excused')
  <1>1. PICK w2, l2, e2 :
            /\ Forward([wire |-> wire, late |-> late, excused |-> excused \cup U], cmd)
                 = [wire |-> w2, late |-> l2, excused |-> e2]
            /\ Sends(wire, late, excused \cup U, cmd, w2, l2, e2)
    BY ForwardSends
  <1>2. wire' = w2 /\ late' = l2 /\ excused' = e2  BY <1>1 DEF broadcast, Sending
  <1> QED BY <1>1, <1>2

LEMMA TwoSent ==
  ASSUME NEW U, NEW cmd, NEW then, broadcast(Forward(Forward(Sending(U), cmd), then))
  PROVE  \E w, l, e : /\ Sends(wire, late, excused \cup U, cmd, w, l, e)
                      /\ Sends(w, l, e, then, wire', late', excused')
  <1>1. PICK w, l, e :
            /\ Forward([wire |-> wire, late |-> late, excused |-> excused \cup U], cmd)
                 = [wire |-> w, late |-> l, excused |-> e]
            /\ Sends(wire, late, excused \cup U, cmd, w, l, e)
    BY ForwardSends
  <1>2. PICK w2, l2, e2 :
            /\ Forward([wire |-> w, late |-> l, excused |-> e], then)
                 = [wire |-> w2, late |-> l2, excused |-> e2]
            /\ Sends(w, l, e, then, w2, l2, e2)
    BY ForwardSends
  <1>3. wire' = w2 /\ late' = l2 /\ excused' = e2  BY <1>1, <1>2 DEF broadcast, Sending
  <1> QED BY <1>1, <1>2, <1>3

RoadOf(w, l, e) == /\ w \in Seq(EwJob) /\ l \in SUBSET EwJob /\ e \in SUBSET EwDocs
                   /\ Len(w) <= EwWireCap

LEMMA SendTyped ==
  ASSUME NEW w, NEW l, NEW e, RoadOf(w, l, e), NEW cmd \in EwJob,
         NEW w2, NEW l2, NEW e2, Sends(w, l, e, cmd, w2, l2, e2)
  PROVE  RoadOf(w2, l2, e2) /\ e \subseteq e2 /\ (~ewCount.up => w2 = w /\ l2 = l)
  <1>0. w \in Seq(EwJob) /\ l \in SUBSET EwJob /\ e \in SUBSET EwDocs /\ Len(w) <= EwWireCap  BY DEF RoadOf
  <1>1. cmd.doc \in EwDocs  BY JobFields
  <1>2. EwWireCap \in Nat  BY EwAssumption
  <1>3. CASE w2 = w /\ l2 = l /\ e2 = e \cup {cmd.doc}  BY <1>0, <1>1, <1>3 DEF RoadOf
  <1>4. CASE w2 = w /\ l2 = l \cup {cmd} /\ ewCount.up /\ e2 = e \cup (DocsOf(l) \cap {cmd.doc})
    BY <1>0, <1>1, <1>4 DEF RoadOf
  <1>5. CASE Len(w) < EwWireCap /\ w2 = Append(w, cmd) /\ l2 = l /\ ewCount.up
             /\ e2 = e \cup (DocsOf(l) \cap {cmd.doc})
    <2>1. w2 \in Seq(EwJob) /\ Len(w2) = Len(w) + 1 /\ Len(w) \in Nat  BY <1>0, <1>5
    <2> QED BY <1>0, <1>1, <1>2, <1>5, <2>1 DEF RoadOf
  <1> QED BY <1>3, <1>4, <1>5 DEF Sends

\* Another document is not concerned.
LEMMA SendElsewhere ==
  ASSUME NEW w \in Seq(EwJob), NEW l \in SUBSET EwJob, NEW e, NEW cmd \in EwJob,
         NEW w2, NEW l2, NEW e2, Sends(w, l, e, cmd, w2, l2, e2), NEW d, d # cmd.doc
  PROVE  /\ About(w2, d) = About(w, d)
         /\ {x \in l2 : x.doc = d} = {x \in l : x.doc = d}
         /\ \A L, B : AllFit(L, w, d, B) => AllFit(L, w2, d, B)
  <1>1. CASE w2 = w /\ (l2 = l \/ l2 = l \cup {cmd})  BY <1>1
  <1>2. CASE w2 = Append(w, cmd) /\ l2 = l
    <2>0. About(Append(w, cmd), d) = About(w, d) \cup IF cmd.doc = d THEN {cmd} ELSE {}  BY AllAppend
    <2>1. About(w2, d) = About(w, d)  BY <1>2, <2>0
    <2>2. \A L, B : AllFit(L, w2, d, B) <=> AllFit(L, w, d, B)  BY <1>2, FitAppend
    <2> QED BY <2>1, <2>2, <1>2
  <1> QED BY <1>1, <1>2 DEF Sends
--------------------------------------------------------------------------------
(***************************************************************************)
(* Every step keeps the shape.                                             *)
(***************************************************************************)
LEMMA PendOf ==
  ASSUME PendTyped
  PROVE  /\ \A c \in EwVectors : pend[c] \in Seq(EwOfChannel(c)) /\ pend[c] \in Seq(EwUpsert) /\ pend[c] \in Seq(EwJob)
         /\ pend.text = pend["text"] /\ pend.image = pend["image"] /\ pend.deletes = pend["deletes"]
  <1>1. \A c : EwOfChannel(c) \subseteq EwUpsert  BY DEF EwOfChannel
  <1>2. EwUpsert \subseteq EwJob  BY DEF EwJob
  <1>3. ASSUME NEW c \in EwVectors PROVE pend[c] \in Seq(EwOfChannel(c))  BY DEF EwVectors, PendTyped
  <1>4. ASSUME NEW c \in EwVectors PROVE pend[c] \in Seq(EwUpsert)
    <2>1. \A i \in 1..Len(pend[c]) : pend[c][i] \in EwOfChannel(c)  BY <1>3
    <2> QED BY <1>1, <1>3, <2>1
  <1>5. ASSUME NEW c \in EwVectors PROVE pend[c] \in Seq(EwJob)
    <2>1. \A i \in 1..Len(pend[c]) : pend[c][i] \in EwUpsert  BY <1>4
    <2> QED BY <1>2, <1>4, <2>1
  <1> QED BY <1>3, <1>4, <1>5

\* An index that gets a new version, or loses a document.
LEMMA LexChanges ==
  ASSUME LexTyped, BackfillTyped, CountTyped, NEW d \in EwDocs, NEW new \in EwRow \cup {EwNone},
         lex' = [lex EXCEPT ![d] = new], UNCHANGED bf,
         new # EwNone => new.mt # 0 /\ new.ver = ewCount.commits + 1 /\ new.ch \in EwChannelsOf[d],
         Committed
  PROVE  LexTyped' /\ BackfillTyped'
  <1>1. ewCount'.commits = ewCount.commits + 1 /\ ewCount.commits \in Nat  BY DEF Committed, CountTyped
  <1>2. lex' \in [EwDocs -> EwRow \cup {EwNone}] /\ lex'[d] = new /\ \A o \in EwDocs : o # d => lex'[o] = lex[o]
    BY DEF LexTyped
  <1>3. \A o \in EwDocs : lex[o] # EwNone => lex[o].ver \in Nat
    BY RowFields DEF LexTyped
  <1>4. LexTyped'
    <2>1. ASSUME NEW o \in EwDocs, lex'[o] # EwNone
          PROVE  lex'[o].mt # 0 /\ lex'[o].ver <= ewCount'.commits /\ lex'[o].ch \in EwChannelsOf[o]
      <3>1. CASE o = d  BY <3>1, <2>1, <1>1, <1>2
      <3>2. CASE o # d  BY <3>2, <2>1, <1>1, <1>2, <1>3 DEF LexTyped
      <3> QED BY <3>1, <3>2
    <2> QED BY <2>1, <1>2 DEF LexTyped
  <1>5. BackfillTyped'
    <2>1. CASE bf.at # "send"  BY <2>1 DEF BackfillTyped
    <2>2. CASE bf.at = "send"
      <3>1. bf.doc \in EwDocs /\ bf.row \in EwRow /\ bf.row.mt = 0 /\ bf.row.ver <= ewCount.commits
            /\ (lex[bf.doc] # EwNone /\ lex[bf.doc].ver = bf.row.ver => lex[bf.doc].ch = bf.row.ch)
        BY <2>2 DEF BackfillTyped
      <3>2. bf.row.ver \in Nat  BY <3>1, RowFields
      <3>3. bf.row.ver <= ewCount'.commits  BY <3>1, <3>2, <1>1
      <3>4. lex'[bf.doc] # EwNone /\ lex'[bf.doc].ver = bf.row.ver => lex'[bf.doc].ch = bf.row.ch
        <4>1. CASE bf.doc = d
          <5>1. new # EwNone => new.ver # bf.row.ver  BY <3>1, <3>2, <1>1
          <5> QED BY <4>1, <5>1, <1>2
        <4>2. CASE bf.doc # d  BY <4>2, <1>2, <3>1
        <4> QED BY <4>1, <4>2
      <3> QED BY <2>2, <3>1, <3>3, <3>4 DEF BackfillTyped
    <2> QED BY <2>1, <2>2
  <1> QED BY <1>4, <1>5

LEMMA CommitCounts ==
  ASSUME CountTyped, Committed, excused' \in SUBSET EwDocs, UNCHANGED torn
  PROVE  CountTyped' /\ ewCount'.up = ewCount.up /\ ewCount'.commits = ewCount.commits + 1
  <1>1. ewCount' = [ewCount EXCEPT !.commits = ewCount.commits + 1]  BY DEF Committed
  <1>2. DOMAIN ewCount' = DOMAIN ewCount  BY <1>1
  <1>3. ewCount'.commits = ewCount.commits + 1 /\ ewCount'.faults = ewCount.faults
        /\ ewCount'.backfills = ewCount.backfills /\ ewCount'.up = ewCount.up
    BY <1>1 DEF CountTyped
  <1> QED BY <1>2, <1>3 DEF CountTyped

\* A commit that sends one command leaves the worker's side alone.
LEMMA CommitTyped ==
  ASSUME EwShape, NEW U \in SUBSET EwDocs, NEW cmd \in EwJob, Committed,
         Sends(wire, late, excused \cup U, cmd, wire', late', excused'),
         UNCHANGED <<jobs, pend, flush, timed, vec, journal, bf, torn>>, LexTyped', BackfillTyped'
  PROVE  EwShape'
  <1>1. /\ wire' \in Seq(EwJob) /\ late' \in SUBSET EwJob /\ excused' \in SUBSET EwDocs
        /\ Len(wire') <= EwWireCap
        /\ ~ewCount.up => wire' = wire /\ late' = late
    <2>1. RoadOf(wire, late, excused \cup U)  BY DEF EwShape, CountTyped, RoadTyped, RoadOf
    <2>2. RoadOf(wire', late', excused') /\ (~ewCount.up => wire' = wire /\ late' = late)
      BY <2>1, SendTyped
    <2> QED BY <2>2 DEF RoadOf
  <1>2. RoadTyped'  BY <1>1 DEF EwShape, RoadTyped
  <1>3. CountTyped' /\ ewCount'.up = ewCount.up  BY <1>1, CommitCounts DEF EwShape
  <1>4. PendTyped' /\ FlushTyped' /\ StoreTyped'  BY DEF EwShape, PendTyped, FlushTyped, StoreTyped
  <1>5. DownIsEmpty'  BY <1>1, <1>3 DEF EwShape, DownIsEmpty, EwQuiet
  <1> QED BY <1>2, <1>3, <1>4, <1>5 DEF EwShape

\* The row an upsert commits.
NewRow(d, ch, later) ==
    IF lex[d] = EwNone THEN Row(1, ewCount.commits + 1, ch)
    ELSE Row(IF later THEN lex[d].mt + 1 ELSE lex[d].mt, ewCount.commits + 1, ch)
Unlucky(d, ch, later) ==
    IF lex[d] # EwNone /\ (NewRow(d, ch, later).mt = lex[d].mt \/ NewRow(d, ch, later).ch # lex[d].ch)
    THEN {d} ELSE {}

LEMMA UpsertIs ==
  ASSUME EwShape, NEW d \in EwDocs, CommitUpsert(d)
  PROVE  \E ch \in EwChannelsOf[d], later \in BOOLEAN :
            LET new == NewRow(d, ch, later)
            IN  /\ new \in EwRow /\ new # EwNone /\ new.mt # 0 /\ new.ver = ewCount.commits + 1 /\ new.ch = ch
                /\ lex[d] # EwNone => new.mt >= lex[d].mt
                /\ lex' = [lex EXCEPT ![d] = new]
                /\ Sends(wire, late, excused \cup Unlucky(d, ch, later), Embed(d, new), wire', late', excused')
  <1>1. PICK ch \in EwChannelsOf[d], later \in BOOLEAN :
            /\ lex' = [lex EXCEPT ![d] = NewRow(d, ch, later)]
            /\ broadcast(Forward(Sending(Unlucky(d, ch, later)), Embed(d, NewRow(d, ch, later))))
    BY DEF CommitUpsert, NewRow, Unlucky
  <1>2. ch \in EwChannels  BY EwAssumption DEF EwChannels
  <1>3. ewCount.commits + 1 \in Nat  BY DEF EwShape, CountTyped
  <1>4. lex[d] # EwNone => lex[d].mt \in Nat /\ lex[d].mt # 0  BY RowFields DEF EwShape, LexTyped
  <1> DEFINE new == NewRow(d, ch, later)
  <1>5. new \in EwRow /\ new # EwNone /\ new.mt # 0 /\ new.ver = ewCount.commits + 1 /\ new.ch = ch
        /\ (lex[d] # EwNone => new.mt >= lex[d].mt)
    <2>1. CASE lex[d] = EwNone
      <3>1. new = Row(1, ewCount.commits + 1, ch)  BY <2>1 DEF NewRow
      <3> HIDE DEF new
      <3> QED BY <3>1, <2>1, <1>2, <1>3, RowIsRow
    <2>2. CASE lex[d] # EwNone
      <3> DEFINE m == IF later THEN lex[d].mt + 1 ELSE lex[d].mt
      <3>1. new = Row(m, ewCount.commits + 1, ch)  BY <2>2 DEF NewRow
      <3>2. m \in Nat /\ m # 0 /\ m >= lex[d].mt  BY <2>2, <1>4
      <3> HIDE DEF new, m
      <3> QED BY <3>1, <3>2, <1>2, <1>3, RowIsRow
    <2> QED BY <2>1, <2>2
  <1>6. Sends(wire, late, excused \cup Unlucky(d, ch, later), Embed(d, new), wire', late', excused')
    BY <1>1, OneSent
  <1> QED BY <1>1, <1>5, <1>6

LEMMA ShapeUpsert == ASSUME EwShape, NEW d \in EwDocs, CommitUpsert(d) PROVE EwShape'
  <1>1. PICK ch \in EwChannelsOf[d], later \in BOOLEAN :
            LET new == NewRow(d, ch, later)
            IN  /\ new \in EwRow /\ new # EwNone /\ new.mt # 0 /\ new.ver = ewCount.commits + 1 /\ new.ch = ch
                /\ lex[d] # EwNone => new.mt >= lex[d].mt
                /\ lex' = [lex EXCEPT ![d] = new]
                /\ Sends(wire, late, excused \cup Unlucky(d, ch, later), Embed(d, new), wire', late', excused')
    BY UpsertIs
  <1> DEFINE new == NewRow(d, ch, later)
  <1> HIDE DEF new
  <1>2. Committed /\ UNCHANGED <<jobs, pend, flush, timed, vec, journal, bf, torn>>  BY DEF CommitUpsert
  <1>3. LexTyped' /\ BackfillTyped'
    BY <1>1, <1>2, LexChanges DEF EwShape, new
  <1>4. Embed(d, new) \in EwJob  BY <1>1, EmbedIsJob DEF new
  <1>5. Unlucky(d, ch, later) \in SUBSET EwDocs  BY DEF Unlucky
  <1> QED BY <1>1, <1>2, <1>3, <1>4, <1>5, CommitTyped DEF new

LEMMA LexKept ==
  ASSUME EwShape, Committed, UNCHANGED <<lex, bf>>
  PROVE  LexTyped' /\ BackfillTyped'
  <1>1. ewCount'.commits = ewCount.commits + 1 /\ ewCount.commits \in Nat
    BY DEF Committed, EwShape, CountTyped
  <1>2. \A o \in EwDocs : lex[o] # EwNone => lex[o].ver \in Nat
    BY RowFields DEF EwShape, LexTyped
  <1>3. LexTyped'  BY <1>1, <1>2 DEF EwShape, LexTyped
  <1>4. BackfillTyped'
    <2>1. CASE bf.at # "send"  BY <2>1 DEF BackfillTyped, EwShape
    <2>2. CASE bf.at = "send"
      <3>1. bf.row.ver \in Nat  BY <2>2, RowFields DEF EwShape, BackfillTyped
      <3> QED BY <2>2, <3>1, <1>1 DEF BackfillTyped, EwShape
    <2> QED BY <2>1, <2>2
  <1> QED BY <1>3, <1>4

LEMMA ShapeReindex == ASSUME EwShape, NEW d \in EwDocs, CommitReindex(d) PROVE EwShape'
  <1>1. Committed /\ UNCHANGED <<lex, jobs, pend, flush, timed, vec, journal, bf, torn>> /\ lex[d] # EwNone
    BY DEF CommitReindex
  <1>2. Sends(wire, late, excused \cup {}, Embed(d, lex[d]), wire', late', excused')
    BY OneSent DEF CommitReindex
  <1>3. Embed(d, lex[d]) \in EwJob  BY <1>1, EmbedIsJob DEF EwShape, LexTyped
  <1>4. LexTyped' /\ BackfillTyped'  BY <1>1, LexKept
  <1>5. {} \in SUBSET EwDocs  OBVIOUS
  <1> QED BY <1>1, <1>2, <1>3, <1>4, <1>5, CommitTyped

LEMMA ShapeDelete == ASSUME EwShape, NEW d \in EwDocs, CommitDelete(d) PROVE EwShape'
  <1>1. Committed /\ UNCHANGED <<jobs, pend, flush, timed, vec, journal, bf, torn>>
        /\ lex' = [lex EXCEPT ![d] = EwNone]
    BY DEF CommitDelete
  <1>2. Sends(wire, late, excused \cup {}, EmbedDelete(d), wire', late', excused')
    BY OneSent DEF CommitDelete
  <1>3. EmbedDelete(d) \in EwJob  BY DeleteIsJob
  <1>4. LexTyped' /\ BackfillTyped'  BY <1>1, LexChanges DEF EwShape
  <1>5. {} \in SUBSET EwDocs  OBVIOUS
  <1> QED BY <1>1, <1>2, <1>3, <1>4, <1>5, CommitTyped

LEMMA ShapeReplace == ASSUME EwShape, NEW d \in EwDocs, CommitReplace(d) PROVE EwShape'
  <1>1. Committed /\ UNCHANGED <<lex, jobs, pend, flush, timed, vec, journal, bf, torn>> /\ lex[d] # EwNone
    BY DEF CommitReplace
  <1>2. PICK w, l, e : /\ Sends(wire, late, excused \cup {d}, Embed(d, lex[d]), w, l, e)
                       /\ Sends(w, l, e, EmbedDelete(d), wire', late', excused')
    BY TwoSent DEF CommitReplace
  <1>3. Embed(d, lex[d]) \in EwJob /\ EmbedDelete(d) \in EwJob
    BY <1>1, EmbedIsJob, DeleteIsJob DEF EwShape, LexTyped
  <1>4. LexTyped' /\ BackfillTyped'  BY <1>1, LexKept
  <1>5. RoadOf(wire, late, excused \cup {d})  BY DEF EwShape, CountTyped, RoadTyped, RoadOf
  <1>6. RoadOf(w, l, e) /\ (~ewCount.up => w = wire /\ l = late)  BY <1>2, <1>3, <1>5, SendTyped
  <1>61. RoadOf(wire', late', excused') /\ (~ewCount.up => wire' = wire /\ late' = late)
    <2>1. RoadOf(wire', late', excused') /\ (~ewCount.up => wire' = w /\ late' = l)
      BY <1>2, <1>3, <1>6, SendTyped
    <2> QED BY <2>1, <1>6
  <1>7. RoadTyped'  BY <1>1, <1>61 DEF EwShape, RoadTyped, RoadOf
  <1>8. CountTyped' /\ ewCount'.up = ewCount.up  BY <1>1, <1>61, CommitCounts DEF EwShape, RoadOf
  <1>9. PendTyped' /\ FlushTyped' /\ StoreTyped'  BY <1>1 DEF EwShape, PendTyped, FlushTyped, StoreTyped
  <1>10. DownIsEmpty'  BY <1>1, <1>61, <1>8 DEF EwShape, DownIsEmpty, EwQuiet
  <1> QED BY <1>4, <1>7, <1>8, <1>9, <1>10 DEF EwShape

LEMMA TailOf ==
  ASSUME NEW S, NEW s \in Seq(S), s # <<>>
  PROVE  /\ Tail(s) \in Seq(S) /\ Head(s) \in S
         /\ Len(Tail(s)) = Len(s) - 1 /\ Len(s) \in Nat /\ Len(Tail(s)) \in Nat
  BY HeadTailProperties

LEMMA AppendOf ==
  ASSUME NEW S, NEW s \in Seq(S), NEW x \in S
  PROVE  Append(s, x) \in Seq(S) /\ Len(Append(s, x)) = Len(s) + 1 /\ Len(s) \in Nat
  OBVIOUS

LEMMA ShapeLateSend == ASSUME EwShape, LateSend PROVE EwShape'
  <1>1. PICK cmd \in late : late' = late \ {cmd} /\ wire' = Append(wire, cmd)  BY DEF LateSend
  <1>2. Len(wire) < EwWireCap
        /\ UNCHANGED <<lex, jobs, pend, flush, timed, vec, journal, bf, excused, torn, ewCount>>
    BY DEF LateSend
  <1>3. cmd \in EwJob /\ wire \in Seq(EwJob)  BY DEF EwShape, RoadTyped
  <1>4. wire' \in Seq(EwJob) /\ Len(wire') <= EwWireCap
    <2>1. wire' \in Seq(EwJob) /\ Len(wire') = Len(wire) + 1 /\ Len(wire) \in Nat  BY <1>1, <1>3, AppendOf
    <2>2. EwWireCap \in Nat  BY EwAssumption
    <2> QED BY <2>1, <2>2, <1>2
  <1>5. RoadTyped'  BY <1>1, <1>2, <1>4 DEF EwShape, RoadTyped
  <1>6. DownIsEmpty'  BY <1>1, <1>2 DEF EwShape, DownIsEmpty, EwQuiet
  <1>7. LexTyped' /\ PendTyped' /\ FlushTyped' /\ StoreTyped' /\ BackfillTyped' /\ CountTyped'
    BY <1>2 DEF EwShape, LexTyped, PendTyped, FlushTyped, StoreTyped, BackfillTyped, CountTyped
  <1> QED BY <1>5, <1>6, <1>7 DEF EwShape

\* A step of a running worker does not have to look at what is under way.
LEMMA UpNeedsNoQuiet == ASSUME Running, UNCHANGED ewCount PROVE DownIsEmpty'
  BY DEF Running, DownIsEmpty

LEMMA ShapeDispatch == ASSUME EwShape, DispatchEmbed PROVE EwShape'
  <1>1. /\ Running /\ wire # <<>> /\ Len(jobs) < EwJobCap
        /\ jobs' = Append(jobs, Head(wire)) /\ wire' = Tail(wire)
        /\ UNCHANGED <<lex, late, pend, flush, timed, vec, journal, bf, excused, torn, ewCount>>
    BY DEF DispatchEmbed
  <1>2. wire \in Seq(EwJob) /\ jobs \in Seq(EwJob) /\ Len(wire) <= EwWireCap  BY DEF EwShape, RoadTyped
  <1>3. EwWireCap \in Nat /\ EwJobCap \in Nat  BY EwAssumption
  <1>4. Head(wire) \in EwJob /\ wire' \in Seq(EwJob) /\ Len(wire') <= EwWireCap
    <2>1. /\ wire' \in Seq(EwJob) /\ Head(wire) \in EwJob
          /\ Len(wire') = Len(wire) - 1 /\ Len(wire) \in Nat /\ Len(wire') \in Nat
      BY <1>1, <1>2, TailOf
    <2> QED BY <2>1, <1>2, <1>3
  <1>5. jobs' \in Seq(EwJob) /\ Len(jobs') <= EwJobCap
    <2>1. jobs' \in Seq(EwJob) /\ Len(jobs') = Len(jobs) + 1 /\ Len(jobs) \in Nat  BY <1>1, <1>2, <1>4, AppendOf
    <2> QED BY <2>1, <1>1, <1>3
  <1>6. RoadTyped'  BY <1>1, <1>4, <1>5 DEF EwShape, RoadTyped
  <1>7. DownIsEmpty'  BY <1>1, UpNeedsNoQuiet
  <1>8. LexTyped' /\ PendTyped' /\ FlushTyped' /\ StoreTyped' /\ BackfillTyped' /\ CountTyped'
    BY <1>1 DEF EwShape, LexTyped, PendTyped, FlushTyped, StoreTyped, BackfillTyped, CountTyped
  <1> QED BY <1>6, <1>7, <1>8 DEF EwShape

\* What the embed thread does with a job, by cases.
Taken(job, p) ==
    \/ /\ job.op = "delete" /\ p = [pend EXCEPT !["deletes"] = pend["deletes"] \cup {job.doc}]
    \/ /\ job.op = "embed" /\ p = pend
       /\ job.row.ch \notin EwVectors \/ is_current(job.doc, job.row)
    \/ /\ job.op = "embed" /\ job.row.ch \in EwVectors
       /\ p = [pend EXCEPT ![job.row.ch] = Append(pend[job.row.ch], job)]

LEMMA HandleTakes ==
  ASSUME PendTyped, NEW job \in EwJob
  PROVE  Taken(job, handle_job(pend, job))
  <1>1. pend.deletes = pend["deletes"]  BY PendOf
  <1>2. job.op \in {"embed", "delete"} /\ (job.op = "embed" => job.row \in EwRow)  BY JobFields
  <1>3. CASE job.op = "delete"
    <2>1. handle_job(pend, job) = [pend EXCEPT !.deletes = @ \cup {job.doc}]  BY <1>3 DEF handle_job
    <2>2. handle_job(pend, job) = [pend EXCEPT !["deletes"] = pend["deletes"] \cup {job.doc}]  BY <2>1
    <2> QED BY <2>2, <1>3 DEF Taken
  <1>4. CASE job.op = "embed"
    <2>1. job.row.ch \in EwVectors \/ job.row.ch = "skip"  BY <1>2, <1>4, RowFields DEF EwChannels
    <2>2. CASE job.row.ch = "skip" \/ is_current(job.doc, job.row)
      <3>1. handle_job(pend, job) = pend  BY <1>4, <2>2 DEF handle_job
      <3>2. job.row.ch \notin EwVectors \/ is_current(job.doc, job.row)  BY <2>2 DEF EwVectors
      <3> QED BY <1>4, <3>1, <3>2 DEF Taken
    <2>3. CASE job.row.ch # "skip" /\ ~is_current(job.doc, job.row)
      <3>1. handle_job(pend, job) = [pend EXCEPT ![job.row.ch] = Append(pend[job.row.ch], job)]
        BY <1>4, <2>3 DEF handle_job
      <3> QED BY <1>4, <2>1, <2>3, <3>1 DEF Taken
    <2> QED BY <2>2, <2>3
  <1> QED BY <1>2, <1>3, <1>4

LEMMA TakeIs ==
  ASSUME EwShape, TakeJob
  PROVE  /\ Running /\ flush.at = "idle" /\ jobs # <<>> /\ jobs' = Tail(jobs)
         /\ Head(jobs) \in EwJob /\ Taken(Head(jobs), pend')
         /\ flush' \in {EwIdle, [EwIdle EXCEPT !.at = "text"]}
         /\ excused' = IF Head(jobs).op = "embed" /\ Head(jobs).doc \in pend["deletes"]
                       THEN excused \cup {Head(jobs).doc} ELSE excused
         /\ UNCHANGED <<lex, wire, late, vec, journal, bf, torn, ewCount>>
  <1>1. Running /\ flush = EwIdle /\ jobs # <<>> /\ jobs' = Tail(jobs)
        /\ pend' = handle_job(pend, Head(jobs))
        /\ UNCHANGED <<lex, wire, late, vec, journal, bf, torn, ewCount>>
    BY DEF TakeJob
  <1>2. Head(jobs) \in EwJob  BY <1>1, TailOf DEF EwShape, RoadTyped
  <1>3. Taken(Head(jobs), pend')  BY <1>1, <1>2, HandleTakes DEF EwShape
  <1>4. flush.at = "idle"  BY <1>1 DEF EwIdle
  <1>5. pend.deletes = pend["deletes"]  BY PendOf DEF EwShape
  <1>6. flush' \in {EwIdle, [EwIdle EXCEPT !.at = "text"]}  BY DEF TakeJob
  <1>7. excused' = IF Head(jobs).op = "embed" /\ Head(jobs).doc \in pend["deletes"]
                   THEN excused \cup {Head(jobs).doc} ELSE excused
    BY <1>5 DEF TakeJob
  <1> QED BY <1>1, <1>2, <1>3, <1>4, <1>6, <1>7

LEMMA IdleFields ==
  /\ \A a : DOMAIN [EwIdle EXCEPT !.at = a] = {"at", "batch"}
            /\ [EwIdle EXCEPT !.at = a].at = a /\ [EwIdle EXCEPT !.at = a].batch = <<>>
            /\ [EwIdle EXCEPT !.at = a] = [at |-> a, batch |-> <<>>]
  /\ EwIdle = [EwIdle EXCEPT !.at = "idle"] /\ EwIdle.at = "idle" /\ DOMAIN EwIdle = {"at", "batch"}
  BY DEF EwIdle

\* A flush at a point where nothing is in hand.
LEMMA FlushAt ==
  ASSUME NEW a \in {"idle", "text", "image", "deletes"}, flush' = [EwIdle EXCEPT !.at = a],
         a \in {"image", "deletes"} => pend'["text"] = <<>>,
         a = "deletes" => pend'["image"] = <<>>
  PROVE  FlushTyped'
  <1>1. flush'.at = a /\ DOMAIN flush' = {"at", "batch"}  BY IdleFields
  <1>2. a \notin {"record", "forget"}  OBVIOUS
  <1>3. flush' = [EwIdle EXCEPT !.at = flush'.at]  BY <1>1
  <1> QED BY <1>1, <1>2, <1>3 DEF FlushTyped

LEMMA TakenTyped ==
  ASSUME PendTyped, NEW job \in EwJob, Taken(job, pend')
  PROVE  PendTyped'
  <1>0. DOMAIN pend = {"text", "image", "deletes"}  BY DEF PendTyped
  <1>1. job.doc \in EwDocs /\ (job.op = "embed" => job \in EwUpsert)  BY JobFields
  <1>2. CASE job.op = "delete" /\ pend' = [pend EXCEPT !["deletes"] = pend["deletes"] \cup {job.doc}]
    BY <1>0, <1>1, <1>2 DEF PendTyped
  <1>3. CASE pend' = pend  BY <1>3 DEF PendTyped
  <1>4. CASE job.op = "embed" /\ job.row.ch \in EwVectors
             /\ pend' = [pend EXCEPT ![job.row.ch] = Append(pend[job.row.ch], job)]
    <2>1. job \in EwOfChannel(job.row.ch)  BY <1>1, <1>4 DEF EwOfChannel
    <2>2. Append(pend[job.row.ch], job) \in Seq(EwOfChannel(job.row.ch))  BY <2>1, <1>4, PendOf, AppendOf
    <2>3. job.row.ch \in {"text", "image"}  BY <1>4 DEF EwVectors
    <2> DEFINE c == job.row.ch
               s == Append(pend[c], job)
    <2>4. pend' = [pend EXCEPT ![c] = s] /\ s \in Seq(EwOfChannel(c)) /\ c \in {"text", "image"}
      BY <1>4, <2>2, <2>3
    <2> HIDE DEF c, s
    <2>5. DOMAIN pend' = {"text", "image", "deletes"}  BY <2>4, <1>0
    <2>6. pend'["text"] \in Seq(EwOfChannel("text"))
      <3>1. CASE c = "text"  BY <3>1, <2>4, <1>0
      <3>2. CASE c # "text"  BY <3>2, <2>4, <1>0 DEF PendTyped
      <3> QED BY <3>1, <3>2
    <2>7. pend'["image"] \in Seq(EwOfChannel("image"))
      <3>1. CASE c = "image"  BY <3>1, <2>4, <1>0
      <3>2. CASE c # "image"  BY <3>2, <2>4, <1>0 DEF PendTyped
      <3> QED BY <3>1, <3>2
    <2>8. pend'["deletes"] \in SUBSET EwDocs  BY <2>4, <1>0 DEF PendTyped
    <2> QED BY <2>5, <2>6, <2>7, <2>8 DEF PendTyped
  <1> QED BY <1>2, <1>3, <1>4 DEF Taken

LEMMA ShapeTake == ASSUME EwShape, TakeJob PROVE EwShape'
  <1>1. /\ Running /\ flush.at = "idle" /\ jobs # <<>> /\ jobs' = Tail(jobs)
        /\ Head(jobs) \in EwJob /\ Taken(Head(jobs), pend')
        /\ flush' \in {EwIdle, [EwIdle EXCEPT !.at = "text"]}
        /\ excused' = IF Head(jobs).op = "embed" /\ Head(jobs).doc \in pend["deletes"]
                      THEN excused \cup {Head(jobs).doc} ELSE excused
        /\ UNCHANGED <<lex, wire, late, vec, journal, bf, torn, ewCount>>
    BY TakeIs
  <1>2. PendTyped'  BY <1>1, TakenTyped DEF EwShape
  <1>3. FlushTyped'
    <2>1. flush' = [EwIdle EXCEPT !.at = "idle"] \/ flush' = [EwIdle EXCEPT !.at = "text"]  BY <1>1, IdleFields
    <2> QED BY <2>1, FlushAt
  <1>4. RoadTyped'
    <2>1. jobs' \in Seq(EwJob) /\ Len(jobs') = Len(jobs) - 1 /\ Len(jobs) \in Nat /\ Len(jobs') \in Nat
      BY <1>1, TailOf DEF EwShape, RoadTyped
    <2>2. EwJobCap \in Nat /\ Len(jobs) <= EwJobCap  BY EwAssumption DEF EwShape, RoadTyped
    <2>3. Len(jobs') <= EwJobCap  BY <2>1, <2>2
    <2> QED BY <1>1, <2>1, <2>3 DEF EwShape, RoadTyped
  <1>5. CountTyped'
    <2>1. Head(jobs).doc \in EwDocs  BY <1>1, JobFields
    <2>2. excused' \in SUBSET EwDocs  BY <1>1, <2>1 DEF EwShape, CountTyped
    <2> QED BY <1>1, <2>2 DEF EwShape, CountTyped
  <1>6. DownIsEmpty'  BY <1>1, UpNeedsNoQuiet
  <1>7. LexTyped' /\ StoreTyped' /\ BackfillTyped'
    BY <1>1 DEF EwShape, LexTyped, StoreTyped, BackfillTyped
  <1> QED BY <1>2, <1>3, <1>4, <1>5, <1>6, <1>7 DEF EwShape

LEMMA ShapePeriod == ASSUME EwShape, FlushPeriod PROVE EwShape'
  <1>1. /\ Running /\ flush' = [EwIdle EXCEPT !.at = "text"]
        /\ UNCHANGED <<lex, wire, late, jobs, pend, timed, vec, journal, bf, excused, torn, ewCount>>
    BY DEF FlushPeriod
  <1>2. FlushTyped'  BY <1>1, FlushAt
  <1>3. DownIsEmpty'  BY <1>1, UpNeedsNoQuiet
  <1>4. LexTyped' /\ RoadTyped' /\ PendTyped' /\ StoreTyped' /\ BackfillTyped' /\ CountTyped'
    BY <1>1 DEF EwShape, LexTyped, RoadTyped, PendTyped, StoreTyped, BackfillTyped, CountTyped
  <1> QED BY <1>2, <1>3, <1>4 DEF EwShape

--------------------------------------------------------------------------------
(***************************************************************************)
(* A flush, step by step.                                                  *)
(***************************************************************************)
LEMMA AfterIs == After("text") = "image" /\ After("image") = "deletes"
  BY DEF After

\* The three ways a batch can go.
Stored(c) ==
    LET batch == dedup_by_doc_id(pend[c])
    IN  /\ pend[c] # <<>>
        /\ vec' = [d \in EwDocs |-> IF About(pend[c], d) # {}
                                    THEN [vec[d] EXCEPT ![c] = LastOf(pend[c], d).row]
                                    ELSE vec[d]]
        /\ flush' = [at |-> "record", batch |-> batch]
        /\ UNCHANGED <<excused, ewCount>>
NoBatch(c) == /\ pend[c] = <<>> /\ flush' = [EwIdle EXCEPT !.at = After(c)]
              /\ UNCHANGED <<vec, excused, ewCount>>
Dropped(c) == /\ EwFault /\ flush' = [EwIdle EXCEPT !.at = After(c)] /\ UNCHANGED vec
              /\ excused' = excused \cup {d \in EwDocs : About(pend[c], d) # {}}

LEMMA FlushStoreIs ==
  ASSUME EwShape, NEW c \in EwVectors, FlushStore(c)
  PROVE  /\ Running /\ flush.at = c /\ pend' = [pend EXCEPT ![c] = <<>>]
         /\ Stored(c) \/ NoBatch(c) \/ Dropped(c)
         /\ UNCHANGED <<lex, wire, late, jobs, journal, bf, torn>>
  <1> DEFINE b == dedup_by_doc_id(pend[c])
  <1>1. pend[c] \in Seq(EwUpsert)  BY PendOf DEF EwShape
  <1>2. DocsOf(Range(b)) = DocsOf(Range(pend[c])) /\ (b = <<>> <=> pend[c] = <<>>)
        /\ \A d \in DocsOf(Range(pend[c])) : LastOf(b, d) = LastOf(pend[c], d)
    BY <1>1, DedupOnce
  <1>3. \A d : d \in DocsOf(Range(pend[c])) <=> About(pend[c], d) # {}  BY <1>1, DocsIsAbout
  <1>4. DocsOf(Range(pend[c])) \subseteq EwDocs  BY <1>1, UpsertFields, RangeFinite DEF DocsOf
  <1>5. Running /\ flush.at = c /\ pend' = [pend EXCEPT ![c] = <<>>]
        /\ UNCHANGED <<lex, wire, late, jobs, journal, bf, torn>>
    BY DEF FlushStore
  <1>6. \/ /\ b # <<>>
           /\ vec' = [d \in EwDocs |-> IF d \in DocsOf(Range(b))
                                       THEN [vec[d] EXCEPT ![c] = LastOf(b, d).row] ELSE vec[d]]
           /\ flush' = [at |-> "record", batch |-> b]
           /\ UNCHANGED <<excused, ewCount>>
        \/ /\ b = <<>> /\ flush' = [EwIdle EXCEPT !.at = After(c)] /\ UNCHANGED <<vec, excused, ewCount>>
        \/ /\ EwFault /\ flush' = [EwIdle EXCEPT !.at = After(c)] /\ UNCHANGED vec
           /\ excused' = excused \cup DocsOf(Range(b))
    BY DEF FlushStore
  <1> HIDE DEF b
  <1>7. ASSUME NEW d \in EwDocs
        PROVE  /\ d \in DocsOf(Range(b)) <=> About(pend[c], d) # {}
               /\ About(pend[c], d) # {} => LastOf(b, d) = LastOf(pend[c], d)
    BY <1>2, <1>3
  <1>8. DocsOf(Range(b)) = {d \in EwDocs : About(pend[c], d) # {}}  BY <1>2, <1>3, <1>4
  <1>9. ASSUME b # <<>>,
               vec' = [d \in EwDocs |-> IF d \in DocsOf(Range(b))
                                        THEN [vec[d] EXCEPT ![c] = LastOf(b, d).row] ELSE vec[d]],
               flush' = [at |-> "record", batch |-> b],
               UNCHANGED <<excused, ewCount>>
        PROVE  Stored(c)
    <2>1. vec' = [d \in EwDocs |-> IF About(pend[c], d) # {}
                                   THEN [vec[d] EXCEPT ![c] = LastOf(pend[c], d).row] ELSE vec[d]]
      BY <1>7, <1>9
    <2> QED BY <2>1, <1>2, <1>9 DEF Stored, b
  <1>10. ASSUME b = <<>>, flush' = [EwIdle EXCEPT !.at = After(c)], UNCHANGED <<vec, excused, ewCount>>
         PROVE  NoBatch(c)
    BY <1>2, <1>10 DEF NoBatch
  <1>11. ASSUME EwFault, flush' = [EwIdle EXCEPT !.at = After(c)], UNCHANGED vec,
                excused' = excused \cup DocsOf(Range(b))
         PROVE  Dropped(c)
    BY <1>8, <1>11 DEF Dropped
  <1> QED BY <1>5, <1>6, <1>9, <1>10, <1>11

\* The last upsert of a document in what is held back.
LEMMA LastHeld ==
  ASSUME PendTyped, NEW c \in EwVectors, NEW d, About(pend[c], d) # {}
  PROVE  LET x == LastOf(pend[c], d)
         IN  /\ x \in EwUpsert /\ x.row \in EwRow /\ x.row.ch = c /\ x.doc = d
             /\ \E i \in DOMAIN pend[c] : pend[c][i] = x /\ AboutAfter(pend[c], i, d) = {}
  <1>1. pend[c] \in Seq(EwOfChannel(c)) /\ pend[c] \in Seq(EwUpsert)  BY PendOf
  <1>2. d \in DocsOf(Range(pend[c]))  BY <1>1, DocsIsAbout
  <1>3. LastOf(pend[c], d) \in Range(pend[c]) /\ LastOf(pend[c], d).doc = d  BY <1>1, <1>2, LastIsOne
  <1>4. PICK i \in DOMAIN pend[c] : /\ pend[c][i] = LastOf(pend[c], d)
                                    /\ \A k \in DOMAIN pend[c] : pend[c][k].doc = d => k <= i
    BY <1>1, <1>2, LastIsOne
  <1>5. AboutAfter(pend[c], i, d) = {}  BY <1>1, <1>4 DEF AboutAfter
  <1>6. pend[c][i] \in EwOfChannel(c)  BY <1>1, <1>4, ElementOfSeq
  <1>7. LastOf(pend[c], d) \in EwUpsert /\ LastOf(pend[c], d).row.ch = c  BY <1>4, <1>6 DEF EwOfChannel
  <1> QED BY <1>3, <1>4, <1>5, <1>7, UpsertFields

LEMMA HeldTyped ==
  ASSUME PendTyped, NEW c \in EwVectors, pend' = [pend EXCEPT ![c] = <<>>]
  PROVE  /\ PendTyped' /\ pend'[c] = <<>>
         /\ \A o \in EwVectors : o # c => pend'[o] = pend[o]
         /\ pend'["deletes"] = pend["deletes"]
  <1>1. DOMAIN pend = {"text", "image", "deletes"}  BY DEF PendTyped
  <1>2. c \in {"text", "image"}  BY DEF EwVectors
  <1>3. pend'[c] = <<>> /\ (\A o \in EwVectors : o # c => pend'[o] = pend[o])
        /\ pend'["deletes"] = pend["deletes"] /\ DOMAIN pend' = DOMAIN pend
    BY <1>1, <1>2 DEF EwVectors
  <1>4. \A S : <<>> \in Seq(S)  OBVIOUS
  <1>5. pend'["text"] \in Seq(EwOfChannel("text"))
    BY <1>2, <1>3, <1>4 DEF PendTyped, EwVectors
  <1>6. pend'["image"] \in Seq(EwOfChannel("image"))
    BY <1>2, <1>3, <1>4 DEF PendTyped, EwVectors
  <1> QED BY <1>1, <1>3, <1>5, <1>6 DEF PendTyped

LEMMA FaultCounts ==
  ASSUME CountTyped, EwFault
  PROVE  /\ DOMAIN ewCount' = {"commits", "faults", "backfills", "up"}
         /\ ewCount'.commits = ewCount.commits /\ ewCount'.up = ewCount.up
         /\ ewCount'.commits \in Nat /\ ewCount'.faults \in Nat /\ ewCount'.backfills \in Nat
         /\ ewCount'.up \in BOOLEAN
  <1>1. ewCount' = [ewCount EXCEPT !.faults = ewCount.faults + 1]  BY DEF EwFault
  <1>2. DOMAIN ewCount' = DOMAIN ewCount  BY <1>1
  <1>3. ewCount'.faults = ewCount.faults + 1 /\ ewCount'.commits = ewCount.commits
        /\ ewCount'.backfills = ewCount.backfills /\ ewCount'.up = ewCount.up
    BY <1>1 DEF CountTyped
  <1> QED BY <1>2, <1>3 DEF CountTyped

\* Nothing else has to be looked at when commits and the worker stay.
LEMMA SameCommits ==
  ASSUME EwShape, ewCount'.commits = ewCount.commits, UNCHANGED <<lex, bf>>
  PROVE  LexTyped' /\ BackfillTyped'
  BY DEF EwShape, LexTyped, BackfillTyped

LEMMA SameRoad == ASSUME EwShape, UNCHANGED <<wire, late, jobs>> PROVE RoadTyped'
  BY DEF EwShape, RoadTyped

LEMMA BatchTyped ==
  ASSUME EwShape, NEW c \in EwVectors, pend[c] # <<>>,
         flush.at = c, pend' = [pend EXCEPT ![c] = <<>>],
         flush' = [at |-> "record", batch |-> dedup_by_doc_id(pend[c])]
  PROVE  FlushTyped'
  <1> DEFINE b == dedup_by_doc_id(pend[c])
  <1>1. pend[c] \in Seq(EwUpsert)  BY PendOf DEF EwShape
  <1>2. /\ b \in Seq(EwUpsert) /\ b # <<>>
        /\ \A i, j \in DOMAIN b : b[i].doc = b[j].doc => i = j
        /\ \A i \in DOMAIN b : b[i] = LastOf(pend[c], b[i].doc) /\ b[i].doc \in DocsOf(Range(pend[c]))
    BY <1>1, DedupOnce
  <1>3. flush'.at = "record" /\ flush'.batch = b /\ DOMAIN flush' = {"at", "batch"}  OBVIOUS
  <1> HIDE DEF b
  <1>4. \A i \in DOMAIN b : b[i].row.ch = c
    <2> TAKE i \in DOMAIN b
    <2>1. About(pend[c], b[i].doc) # {}  BY <1>1, <1>2, DocsIsAbout
    <2>2. LastOf(pend[c], b[i].doc).row.ch = c  BY <2>1, LastHeld DEF EwShape
    <2> QED BY <2>2, <1>2
  <1>5. 1 \in DOMAIN b  BY <1>2, EmptySeq
  <1>6. pend'[c] = <<>> /\ \A o \in EwVectors : o # c => pend'[o] = pend[o]  BY HeldTyped DEF EwShape
  <1>7. pend'["text"] = <<>> /\ (c = "image" => pend'["image"] = <<>>)
    <2>1. c = "text" \/ (c = "image" /\ pend["text"] = <<>>)  BY DEF EwVectors, EwShape, FlushTyped
    <2> QED BY <2>1, <1>6 DEF EwVectors
  <1> QED BY <1>2, <1>3, <1>4, <1>5, <1>7 DEF FlushTyped

LEMMA ShapeFlushStore == ASSUME EwShape, NEW c \in EwVectors, FlushStore(c) PROVE EwShape'
  <1>1. /\ Running /\ flush.at = c /\ pend' = [pend EXCEPT ![c] = <<>>]
        /\ Stored(c) \/ NoBatch(c) \/ Dropped(c)
        /\ UNCHANGED <<lex, wire, late, jobs, journal, bf, torn>>
    BY FlushStoreIs
  <1>2. PendTyped' /\ pend'[c] = <<>> /\ (\A o \in EwVectors : o # c => pend'[o] = pend[o])
    BY <1>1, HeldTyped DEF EwShape
  <1>3. RoadTyped'  BY <1>1, SameRoad
  <1>4. ASSUME flush' = [EwIdle EXCEPT !.at = After(c)] PROVE FlushTyped'
    <2>1. CASE c = "text"
      <3>1. flush' = [EwIdle EXCEPT !.at = "image"] /\ pend'["text"] = <<>>  BY <1>2, <1>4, <2>1, AfterIs
      <3> QED BY <3>1, FlushAt
    <2>2. CASE c = "image"
      <3>1. pend["text"] = <<>>  BY <1>1, <2>2 DEF EwShape, FlushTyped
      <3>2. flush' = [EwIdle EXCEPT !.at = "deletes"] /\ pend'["image"] = <<>> /\ pend'["text"] = <<>>
        BY <1>2, <1>4, <2>2, <3>1, AfterIs DEF EwVectors
      <3> QED BY <3>2, FlushAt
    <2> QED BY <2>1, <2>2 DEF EwVectors
  <1>5. CASE Stored(c)
    <2>1. FlushTyped'  BY <1>1, <1>5, BatchTyped DEF Stored
    <2>2. StoreTyped'
      <3>1. ASSUME NEW d \in EwDocs
            PROVE  (IF About(pend[c], d) # {} THEN [vec[d] EXCEPT ![c] = LastOf(pend[c], d).row] ELSE vec[d])
                     \in [EwVectors -> EwRow \cup {EwNone}]
        <4>1. vec[d] \in [EwVectors -> EwRow \cup {EwNone}]  BY DEF EwShape, StoreTyped
        <4>2. About(pend[c], d) # {} => LastOf(pend[c], d).row \in EwRow  BY LastHeld DEF EwShape
        <4> QED BY <4>1, <4>2
      <3>2. vec' \in [EwDocs -> [EwVectors -> EwRow \cup {EwNone}]]  BY <1>5, <3>1 DEF Stored
      <3> QED BY <1>1, <3>2 DEF EwShape, StoreTyped
    <2>3. UNCHANGED <<excused, ewCount>>  BY <1>5 DEF Stored
    <2>4. CountTyped' /\ LexTyped' /\ BackfillTyped'  BY <1>1, <2>3, SameCommits DEF EwShape, CountTyped
    <2>5. DownIsEmpty'  BY <1>1, <2>3, UpNeedsNoQuiet
    <2> QED BY <1>2, <1>3, <2>1, <2>2, <2>4, <2>5 DEF EwShape
  <1>6. CASE NoBatch(c)
    <2>1. UNCHANGED <<vec, excused, ewCount>> /\ FlushTyped'  BY <1>4, <1>6 DEF NoBatch
    <2>2. StoreTyped'  BY <1>1, <2>1 DEF EwShape, StoreTyped
    <2>3. CountTyped' /\ LexTyped' /\ BackfillTyped'  BY <1>1, <2>1, SameCommits DEF EwShape, CountTyped
    <2>4. DownIsEmpty'  BY <1>1, <2>1, UpNeedsNoQuiet
    <2> QED BY <1>2, <1>3, <2>1, <2>2, <2>3, <2>4 DEF EwShape
  <1>7. CASE Dropped(c)
    <2>1. EwFault /\ UNCHANGED vec /\ FlushTyped' /\ excused' \in SUBSET EwDocs
      BY <1>4, <1>7 DEF Dropped, EwShape, CountTyped
    <2>2. StoreTyped'  BY <1>1, <2>1 DEF EwShape, StoreTyped
    <2>3. CountTyped' /\ ewCount'.commits = ewCount.commits /\ ewCount'.up = ewCount.up
      BY <1>1, <2>1, FaultCounts DEF EwShape, CountTyped
    <2>4. LexTyped' /\ BackfillTyped'  BY <1>1, <2>3, SameCommits
    <2>5. DownIsEmpty'  BY <1>1, <2>3 DEF Running, DownIsEmpty
    <2> QED BY <1>2, <1>3, <2>1, <2>2, <2>3, <2>4, <2>5 DEF EwShape
  <1> QED BY <1>1, <1>5, <1>6, <1>7

\* The batch goes into the journal.
LEMMA RecordIs ==
  ASSUME EwShape, record
  PROVE  LET c == flush.batch[1].row.ch
         IN  /\ Running /\ flush.at = "record" /\ c \in EwVectors
             /\ \A i \in DOMAIN flush.batch :
                   /\ flush.batch[i] \in EwUpsert /\ flush.batch[i].row \in EwRow
                   /\ flush.batch[i].doc \in EwDocs /\ flush.batch[i].row.ch = c
                   /\ journal'[flush.batch[i].doc] =
                         [journal[flush.batch[i].doc] EXCEPT ![c] = Row(flush.batch[i].row.mt, 0, c)]
             /\ \A d \in EwDocs : (\A i \in DOMAIN flush.batch : flush.batch[i].doc # d) => journal'[d] = journal[d]
             /\ DOMAIN journal' = EwDocs
             /\ flush' = [EwIdle EXCEPT !.at = After(c)]
             /\ UNCHANGED <<lex, wire, late, jobs, pend, timed, vec, bf, excused, torn, ewCount>>
  <1> DEFINE c == flush.batch[1].row.ch
             b == flush.batch
  <1>1. /\ Running /\ flush.at = "record"
        /\ flush' = [EwIdle EXCEPT !.at = After(c)]
        /\ journal' = [d \in EwDocs |-> IF d \in DocsOf(Range(b))
                                        THEN [journal[d] EXCEPT ![c] = Row(LastOf(b, d).row.mt, 0, c)]
                                        ELSE journal[d]]
        /\ UNCHANGED <<lex, wire, late, jobs, pend, timed, vec, bf, excused, torn, ewCount>>
    BY DEF record
  <1>2. /\ b \in Seq(EwUpsert) /\ b # <<>> /\ c \in EwVectors
        /\ \A i, j \in DOMAIN b : b[i].row.ch = b[j].row.ch /\ (b[i].doc = b[j].doc => i = j)
    BY <1>1 DEF EwShape, FlushTyped
  <1>3. 1 \in DOMAIN b  BY <1>2, EmptySeq
  <1>4. \A i \in DOMAIN b : b[i].row.ch = c  BY <1>2, <1>3
  <1>5. \A i \in DOMAIN b : b[i] \in EwUpsert  BY <1>2, ElementOfSeq
  <1>6. \A i \in DOMAIN b : b[i].doc \in EwDocs /\ b[i].row \in EwRow  BY <1>5, UpsertFields
  <1> HIDE DEF b, c
  <1>7. \A i \in DOMAIN b : b[i].doc \in DocsOf(Range(b)) /\ LastOf(b, b[i].doc) = b[i]
    BY <1>2, LastOfOnce
  <1>8. \A i \in DOMAIN b : journal'[b[i].doc] = [journal[b[i].doc] EXCEPT ![c] = Row(b[i].row.mt, 0, c)]
    BY <1>1, <1>6, <1>7
  <1>9. \A d \in EwDocs : (\A i \in DOMAIN b : b[i].doc # d) => journal'[d] = journal[d]
    <2> TAKE d \in EwDocs
    <2>1. (\A i \in DOMAIN b : b[i].doc # d) => d \notin DocsOf(Range(b))  BY DEF DocsOf, Range
    <2> QED BY <2>1, <1>1
  <1>10. DOMAIN journal' = EwDocs  BY <1>1
  <1> QED BY <1>1, <1>2, <1>4, <1>5, <1>6, <1>8, <1>9, <1>10 DEF b, c

LEMMA ShapeRecord == ASSUME EwShape, record PROVE EwShape'
  <1> DEFINE c == flush.batch[1].row.ch
             b == flush.batch
  <1>1. /\ Running /\ flush.at = "record" /\ c \in EwVectors
        /\ \A i \in DOMAIN b :
              /\ b[i] \in EwUpsert /\ b[i].row \in EwRow /\ b[i].doc \in EwDocs /\ b[i].row.ch = c
              /\ journal'[b[i].doc] = [journal[b[i].doc] EXCEPT ![c] = Row(b[i].row.mt, 0, c)]
        /\ \A d \in EwDocs : (\A i \in DOMAIN b : b[i].doc # d) => journal'[d] = journal[d]
        /\ DOMAIN journal' = EwDocs
        /\ flush' = [EwIdle EXCEPT !.at = After(c)]
        /\ UNCHANGED <<lex, wire, late, jobs, pend, timed, vec, bf, excused, torn, ewCount>>
    BY RecordIs
  <1>2. pend["text"] = <<>> /\ (c = "image" => pend["image"] = <<>>)  BY <1>1 DEF EwShape, FlushTyped
  <1> HIDE DEF c, b
  <1>3. FlushTyped'
    <2>1. CASE c = "text"
      <3>1. flush' = [EwIdle EXCEPT !.at = "image"] /\ pend'["text"] = <<>>  BY <1>1, <1>2, <2>1, AfterIs
      <3> QED BY <3>1, FlushAt
    <2>2. CASE c = "image"
      <3>1. flush' = [EwIdle EXCEPT !.at = "deletes"] /\ pend'["image"] = <<>> /\ pend'["text"] = <<>>
        BY <1>1, <1>2, <2>2, AfterIs
      <3> QED BY <3>1, FlushAt
    <2> QED BY <2>1, <2>2, <1>1 DEF EwVectors
  <1>4. StoreTyped'
    <2> DEFINE fine(d, f) == f \in [EwVectors -> EwRow \cup {EwNone}]
                             /\ \A o \in EwVectors : f[o] # EwNone => f[o].ver = 0 /\ f[o].ch = o
    <2>1. ASSUME NEW d \in EwDocs PROVE fine(d, journal'[d])
      <3>1. fine(d, journal[d])  BY DEF EwShape, StoreTyped
      <3>2. CASE \A i \in DOMAIN b : b[i].doc # d  BY <3>1, <3>2, <1>1
      <3>3. CASE \E i \in DOMAIN b : b[i].doc = d
        <4>1. PICK i \in DOMAIN b : b[i].doc = d  BY <3>3
        <4> DEFINE r == Row(b[i].row.mt, 0, c)
        <4>2. journal'[d] = [journal[d] EXCEPT ![c] = r]  BY <4>1, <1>1
        <4>3. b[i].row.mt \in Nat /\ c \in EwChannels  BY <4>1, <1>1, RowFields DEF EwChannels
        <4>4. r \in EwRow /\ r.ver = 0 /\ r.ch = c  BY <4>3, RowIsRow
        <4> HIDE DEF r
        <4>5. fine(d, [journal[d] EXCEPT ![c] = r])  BY <3>1, <4>4, <1>1
        <4> QED BY <4>2, <4>5
      <3> QED BY <3>2, <3>3
    <2>2. journal' \in [EwDocs -> [EwVectors -> EwRow \cup {EwNone}]]
      <3>1. journal' = [d \in EwDocs |-> journal'[d]]
        BY <1>1 DEF record
      <3> QED BY <3>1, <2>1
    <2> QED BY <2>1, <2>2, <1>1 DEF EwShape, StoreTyped
  <1>5. DownIsEmpty'  BY <1>1, UpNeedsNoQuiet
  <1>6. LexTyped' /\ RoadTyped' /\ PendTyped' /\ BackfillTyped' /\ CountTyped'
    BY <1>1 DEF EwShape, LexTyped, RoadTyped, PendTyped, BackfillTyped, CountTyped
  <1> QED BY <1>3, <1>4, <1>5, <1>6 DEF EwShape

\* The deletions: of both tables, or of the first one or none when the store fails.
Without(ids, tables) == [d \in EwDocs |-> IF d \in ids
                            THEN [c \in EwVectors |-> IF c \in tables THEN EwNone ELSE vec[d][c]]
                            ELSE vec[d]]
Deleted == /\ vec' = Without(pend["deletes"], EwVectors)
           /\ flush' = IF pend["deletes"] = {} THEN EwIdle ELSE [at |-> "forget", batch |-> pend["deletes"]]
           /\ UNCHANGED <<excused, torn, ewCount>>
NotDeleted ==
    /\ EwFault /\ flush' = EwIdle /\ excused' = excused \cup pend["deletes"]
    /\ \E tables \in {{}, {"text"}} :
          /\ vec' = Without(pend["deletes"], tables)
          /\ torn' = IF tables = {} THEN torn ELSE torn \cup pend["deletes"]

LEMMA DeletesIs ==
  ASSUME EwShape, flush_deletes
  PROVE  /\ Running /\ flush.at = "deletes"
         /\ pend' = [pend EXCEPT !["deletes"] = {}]
         /\ Deleted \/ NotDeleted
         /\ UNCHANGED <<lex, wire, late, jobs, journal, bf>>
  <1>1. pend.deletes = pend["deletes"]  BY PendOf DEF EwShape
  <1>2. Running /\ flush.at = "deletes" /\ UNCHANGED <<lex, wire, late, jobs, journal, bf>>
    BY DEF flush_deletes
  <1>3. pend' = [pend EXCEPT !["deletes"] = {}]  BY DEF flush_deletes
  <1>4. Deleted \/ NotDeleted  BY <1>1 DEF flush_deletes, Deleted, NotDeleted, Without
  <1> QED BY <1>2, <1>3, <1>4

LEMMA DeletesHeld ==
  ASSUME PendTyped, pend' = [pend EXCEPT !["deletes"] = {}]
  PROVE  /\ PendTyped' /\ pend'["deletes"] = {}
         /\ \A c \in EwVectors : pend'[c] = pend[c]
  BY DEF PendTyped, EwVectors

LEMMA WithoutTyped ==
  ASSUME StoreTyped, NEW ids, NEW tables, vec' = Without(ids, tables), UNCHANGED journal
  PROVE  StoreTyped'
  BY DEF StoreTyped, Without

LEMMA ShapeDeletes == ASSUME EwShape, flush_deletes PROVE EwShape'
  <1>1. /\ Running /\ flush.at = "deletes"
        /\ pend' = [pend EXCEPT !["deletes"] = {}]
        /\ Deleted \/ NotDeleted
        /\ UNCHANGED <<lex, wire, late, jobs, journal, bf>>
    BY DeletesIs
  <1>2. PendTyped' /\ pend'["deletes"] = {} /\ \A c \in EwVectors : pend'[c] = pend[c]
    BY <1>1, DeletesHeld DEF EwShape
  <1>3. pend["text"] = <<>> /\ pend["image"] = <<>>  BY <1>1 DEF EwShape, FlushTyped
  <1>4. pend'["text"] = <<>> /\ pend'["image"] = <<>>  BY <1>2, <1>3 DEF EwVectors
  <1>5. RoadTyped'  BY <1>1, SameRoad
  <1>6. pend["deletes"] \in SUBSET EwDocs  BY DEF EwShape, PendTyped
  <1>7. CASE Deleted
    <2>1. FlushTyped'
      <3>1. CASE pend["deletes"] = {}
        <4>1. flush' = [EwIdle EXCEPT !.at = "idle"]  BY <3>1, <1>7, IdleFields DEF Deleted
        <4> QED BY <4>1, FlushAt
      <3>2. CASE pend["deletes"] # {}
        <4>1. flush' = [at |-> "forget", batch |-> pend["deletes"]]  BY <3>2, <1>7 DEF Deleted
        <4> QED BY <4>1, <1>2, <1>4, <1>6 DEF FlushTyped
      <3> QED BY <3>1, <3>2
    <2>2. StoreTyped'  BY <1>1, <1>7, WithoutTyped DEF Deleted, EwShape
    <2>3. UNCHANGED <<excused, torn, ewCount>>  BY <1>7 DEF Deleted
    <2>4. CountTyped' /\ LexTyped' /\ BackfillTyped'  BY <1>1, <2>3, SameCommits DEF EwShape, CountTyped
    <2>5. DownIsEmpty'  BY <1>1, <2>3, UpNeedsNoQuiet
    <2> QED BY <1>2, <1>5, <2>1, <2>2, <2>4, <2>5 DEF EwShape
  <1>8. CASE NotDeleted
    <2>1. PICK tables \in {{}, {"text"}} :
              /\ vec' = Without(pend["deletes"], tables)
              /\ torn' = IF tables = {} THEN torn ELSE torn \cup pend["deletes"]
      BY <1>8 DEF NotDeleted
    <2>2. EwFault /\ flush' = EwIdle /\ excused' = excused \cup pend["deletes"]  BY <1>8 DEF NotDeleted
    <2>3. FlushTyped'
      <3>1. flush' = [EwIdle EXCEPT !.at = "idle"]  BY <2>2, IdleFields
      <3> QED BY <3>1, FlushAt
    <2>4. StoreTyped'  BY <1>1, <2>1, WithoutTyped DEF EwShape
    <2>5. excused' \in SUBSET EwDocs /\ torn' \in SUBSET EwDocs
      BY <1>6, <2>1, <2>2 DEF EwShape, CountTyped
    <2>6. CountTyped' /\ ewCount'.commits = ewCount.commits /\ ewCount'.up = ewCount.up
      BY <2>2, <2>5, FaultCounts DEF EwShape, CountTyped
    <2>7. LexTyped' /\ BackfillTyped'  BY <1>1, <2>6, SameCommits
    <2>8. DownIsEmpty'  BY <1>1, <2>6 DEF Running, DownIsEmpty
    <2> QED BY <1>2, <1>5, <2>3, <2>4, <2>6, <2>7, <2>8 DEF EwShape
  <1> QED BY <1>1, <1>7, <1>8

LEMMA ShapeForget == ASSUME EwShape, forget PROVE EwShape'
  <1>1. /\ Running /\ flush.at = "forget" /\ flush' = EwIdle
        /\ journal' = [d \in EwDocs |-> IF d \in flush.batch THEN [c \in EwVectors |-> EwNone] ELSE journal[d]]
        /\ UNCHANGED <<lex, wire, late, jobs, pend, timed, vec, bf, excused, torn, ewCount>>
    BY DEF forget
  <1>2. FlushTyped'
    <2>1. flush' = [EwIdle EXCEPT !.at = "idle"]  BY <1>1, IdleFields
    <2> QED BY <2>1, FlushAt
  <1>3. StoreTyped'  BY <1>1 DEF EwShape, StoreTyped
  <1>4. DownIsEmpty'  BY <1>1, UpNeedsNoQuiet
  <1>5. LexTyped' /\ RoadTyped' /\ PendTyped' /\ BackfillTyped' /\ CountTyped'
    BY <1>1 DEF EwShape, LexTyped, RoadTyped, PendTyped, BackfillTyped, CountTyped
  <1> QED BY <1>2, <1>3, <1>4, <1>5 DEF EwShape

--------------------------------------------------------------------------------
(***************************************************************************)
(* The backfill, and the worker's end and start.                           *)
(***************************************************************************)
LEMMA ShapeBackfillIdle ==
  ASSUME EwShape, Running,
         UNCHANGED <<lex, wire, late, jobs, pend, flush, timed, vec, journal, excused, torn>>,
         BackfillTyped', CountTyped', ewCount'.up = ewCount.up, ewCount'.commits = ewCount.commits
  PROVE  EwShape'
  <1>1. DownIsEmpty'  BY DEF Running, DownIsEmpty
  <1>2. LexTyped' /\ RoadTyped' /\ PendTyped' /\ FlushTyped' /\ StoreTyped'
    BY DEF EwShape, LexTyped, RoadTyped, PendTyped, FlushTyped, StoreTyped
  <1> QED BY <1>1, <1>2 DEF EwShape

LEMMA NoBackfillFields ==
  /\ DOMAIN NoBackfill = {"at", "left", "doc", "row"}
  /\ NoBackfill.at = "none" /\ NoBackfill.left = {}
  BY DEF NoBackfill

LEMMA WalkTyped ==
  ASSUME NEW ids \in SUBSET EwDocs, bf'.at = "walk", bf'.left = ids,
         DOMAIN bf' = {"at", "left", "doc", "row"}
  PROVE  BackfillTyped'
  BY DEF BackfillTyped

LEMMA ShapeBackfillStart == ASSUME EwShape, BackfillStart PROVE EwShape'
  <1>1. /\ Running /\ bf' = [NoBackfill EXCEPT !.at = "walk", !.left = all_doc_ids]
        /\ ewCount' = [ewCount EXCEPT !.backfills = ewCount.backfills + 1]
        /\ UNCHANGED <<lex, wire, late, jobs, pend, flush, timed, vec, journal, excused, torn>>
    BY DEF BackfillStart
  <1>2. bf'.at = "walk" /\ bf'.left = all_doc_ids /\ DOMAIN bf' = {"at", "left", "doc", "row"}
    BY <1>1 DEF NoBackfill
  <1>3. BackfillTyped'
    <2>1. all_doc_ids \in SUBSET EwDocs  BY DEF all_doc_ids
    <2> QED BY <1>2, <2>1, WalkTyped
  <1>4. CountTyped' /\ ewCount'.up = ewCount.up /\ ewCount'.commits = ewCount.commits
    <2>1. DOMAIN ewCount' = DOMAIN ewCount  BY <1>1
    <2>2. ewCount'.backfills = ewCount.backfills + 1 /\ ewCount'.commits = ewCount.commits
          /\ ewCount'.faults = ewCount.faults /\ ewCount'.up = ewCount.up
      BY <1>1 DEF EwShape, CountTyped
    <2> QED BY <1>1, <2>1, <2>2 DEF EwShape, CountTyped
  <1> QED BY <1>1, <1>3, <1>4, ShapeBackfillIdle

LEMMA HydrateIs ==
  ASSUME LexTyped, NEW d \in EwDocs, lex[d] # EwNone
  PROVE  /\ hydrate_doc(d) = [lex[d] EXCEPT !.mt = 0]
         /\ hydrate_doc(d) \in EwRow /\ hydrate_doc(d).mt = 0
         /\ hydrate_doc(d).ver = lex[d].ver /\ hydrate_doc(d).ch = lex[d].ch
  <1>1. lex[d] \in EwRow  BY DEF LexTyped
  <1>2. hydrate_doc(d) = [lex[d] EXCEPT !.mt = 0]  BY DEF hydrate_doc
  <1>3. 0 \in Nat  OBVIOUS
  <1> QED BY <1>1, <1>2, <1>3 DEF EwRow

LEMMA ShapeBackfillNext == ASSUME EwShape, BackfillNext PROVE EwShape'
  <1>1. Running /\ bf.at = "walk"
        /\ UNCHANGED <<lex, wire, late, jobs, pend, flush, timed, vec, journal, excused, torn>>
    BY DEF BackfillNext
  <1>2. PICK d \in bf.left :
            \/ bf' = [bf EXCEPT !.left = Walked(d)] /\ UNCHANGED ewCount
            \/ EwFault /\ bf' = [bf EXCEPT !.left = Walked(d)]
            \/ /\ hydrate_doc(d) # EwNone /\ UNCHANGED ewCount
               /\ bf' = [at |-> "send", left |-> Walked(d), doc |-> d, row |-> hydrate_doc(d)]
    BY DEF BackfillNext
  <1>3. d \in EwDocs /\ Walked(d) \in SUBSET EwDocs /\ DOMAIN bf = {"at", "left", "doc", "row"}
    BY DEF EwShape, BackfillTyped, Walked
  <1>4. bf' = [bf EXCEPT !.left = Walked(d)] => BackfillTyped'
    <2> SUFFICES ASSUME bf' = [bf EXCEPT !.left = Walked(d)] PROVE BackfillTyped'
      OBVIOUS
    <2>1. bf'.at = "walk" /\ bf'.left = Walked(d) /\ DOMAIN bf' = {"at", "left", "doc", "row"}
      BY <1>1, <1>3
    <2> QED BY <2>1, <1>3, WalkTyped
  <1>5. CASE bf' = [bf EXCEPT !.left = Walked(d)] /\ UNCHANGED ewCount
    <2>1. CountTyped'  BY <1>1, <1>5 DEF EwShape, CountTyped
    <2> QED BY <1>1, <1>4, <1>5, <2>1, ShapeBackfillIdle
  <1>6. CASE EwFault /\ bf' = [bf EXCEPT !.left = Walked(d)]
    <2>1. CountTyped' /\ ewCount'.commits = ewCount.commits /\ ewCount'.up = ewCount.up
      BY <1>1, <1>6, FaultCounts DEF EwShape, CountTyped
    <2> QED BY <1>1, <1>4, <1>6, <2>1, ShapeBackfillIdle
  <1>7. CASE /\ hydrate_doc(d) # EwNone /\ UNCHANGED ewCount
             /\ bf' = [at |-> "send", left |-> Walked(d), doc |-> d, row |-> hydrate_doc(d)]
    <2>1. lex[d] # EwNone  BY <1>7 DEF hydrate_doc
    <2>2. hydrate_doc(d) \in EwRow /\ hydrate_doc(d).mt = 0
          /\ hydrate_doc(d).ver = lex[d].ver /\ hydrate_doc(d).ch = lex[d].ch
      BY <2>1, <1>3, HydrateIs DEF EwShape
    <2>3. lex[d].ver <= ewCount.commits  BY <2>1, <1>3 DEF EwShape, LexTyped
    <2>4. bf'.at = "send" /\ bf'.left = Walked(d) /\ bf'.doc = d /\ bf'.row = hydrate_doc(d)
          /\ DOMAIN bf' = {"at", "left", "doc", "row"}
      BY <1>7
    <2>5. BackfillTyped'  BY <1>1, <1>3, <1>7, <2>2, <2>3, <2>4 DEF BackfillTyped
    <2>6. CountTyped'  BY <1>1, <1>7 DEF EwShape, CountTyped
    <2> QED BY <1>1, <1>7, <2>5, <2>6, ShapeBackfillIdle
  <1> QED BY <1>2, <1>5, <1>6, <1>7

LEMMA ShapeBackfillDone == ASSUME EwShape, BackfillDone PROVE EwShape'
  <1>1. Running /\ bf' = NoBackfill
        /\ UNCHANGED <<lex, wire, late, jobs, pend, flush, timed, vec, journal, excused, torn, ewCount>>
    BY DEF BackfillDone
  <1>2. BackfillTyped'  BY <1>1, NoBackfillFields DEF BackfillTyped
  <1>3. CountTyped'  BY <1>1 DEF EwShape, CountTyped
  <1> QED BY <1>1, <1>2, <1>3, ShapeBackfillIdle

LEMMA BackfillSendIs ==
  ASSUME EwShape, BackfillSend
  PROVE  /\ Running /\ bf.at = "send" /\ bf.doc \in EwDocs /\ bf.row \in EwRow /\ bf.row.mt = 0
         /\ jobs' = Append(jobs, Embed(bf.doc, bf.row)) /\ Embed(bf.doc, bf.row) \in EwJob
         /\ excused' \in {excused, excused \cup {bf.doc}}
         /\ bf.doc \notin excused' =>
               lex[bf.doc] # EwNone /\ lex[bf.doc].ver = bf.row.ver /\ lex[bf.doc].ch = bf.row.ch
         /\ bf'.at = "walk" /\ bf'.left = bf.left /\ DOMAIN bf' = {"at", "left", "doc", "row"}
         /\ Len(jobs) < EwJobCap
         /\ UNCHANGED <<lex, wire, late, pend, flush, timed, vec, journal, torn, ewCount>>
  <1>1. /\ Running /\ bf.at = "send" /\ jobs' = Append(jobs, Embed(bf.doc, bf.row))
        /\ excused' = IF lex[bf.doc] = EwNone THEN excused \cup {bf.doc}
                      ELSE IF lex[bf.doc].ver # bf.row.ver THEN excused \cup {bf.doc} ELSE excused
        /\ bf' = [NoBackfill EXCEPT !.at = "walk", !.left = bf.left] /\ Len(jobs) < EwJobCap
        /\ UNCHANGED <<lex, wire, late, pend, flush, timed, vec, journal, torn, ewCount>>
    BY DEF BackfillSend
  <1>2. bf.doc \in EwDocs /\ bf.row \in EwRow /\ bf.row.mt = 0
        /\ (lex[bf.doc] # EwNone /\ lex[bf.doc].ver = bf.row.ver => lex[bf.doc].ch = bf.row.ch)
    BY <1>1 DEF EwShape, BackfillTyped
  <1>3. Embed(bf.doc, bf.row) \in EwJob  BY <1>2, EmbedIsJob
  <1>4. bf'.at = "walk" /\ bf'.left = bf.left /\ DOMAIN bf' = {"at", "left", "doc", "row"}
    BY <1>1 DEF NoBackfill
  <1>5. excused' \in {excused, excused \cup {bf.doc}}  BY <1>1
  <1>6. bf.doc \notin excused' =>
            lex[bf.doc] # EwNone /\ lex[bf.doc].ver = bf.row.ver /\ lex[bf.doc].ch = bf.row.ch
    BY <1>1, <1>2
  <1> QED BY <1>1, <1>2, <1>3, <1>4, <1>5, <1>6

LEMMA ShapeBackfillSend == ASSUME EwShape, BackfillSend PROVE EwShape'
  <1>1. /\ Running /\ bf.doc \in EwDocs
        /\ jobs' = Append(jobs, Embed(bf.doc, bf.row)) /\ Embed(bf.doc, bf.row) \in EwJob
        /\ excused' \in {excused, excused \cup {bf.doc}}
        /\ bf'.at = "walk" /\ bf'.left = bf.left /\ DOMAIN bf' = {"at", "left", "doc", "row"}
        /\ Len(jobs) < EwJobCap
        /\ UNCHANGED <<lex, wire, late, pend, flush, timed, vec, journal, torn, ewCount>>
    BY BackfillSendIs
  <1>2. RoadTyped'
    <2>1. jobs' \in Seq(EwJob) /\ Len(jobs') = Len(jobs) + 1 /\ Len(jobs) \in Nat
      BY <1>1, AppendOf DEF EwShape, RoadTyped
    <2>2. EwJobCap \in Nat  BY EwAssumption
    <2>3. Len(jobs') <= EwJobCap  BY <2>1, <2>2, <1>1
    <2> QED BY <1>1, <2>1, <2>3 DEF EwShape, RoadTyped
  <1>3. BackfillTyped'
    <2>1. bf.left \in SUBSET EwDocs  BY DEF EwShape, BackfillTyped
    <2> QED BY <1>1, <2>1, WalkTyped
  <1>4. CountTyped'  BY <1>1 DEF EwShape, CountTyped
  <1>5. DownIsEmpty'  BY <1>1, UpNeedsNoQuiet
  <1>6. LexTyped' /\ PendTyped' /\ FlushTyped' /\ StoreTyped'
    BY <1>1 DEF EwShape, LexTyped, PendTyped, FlushTyped, StoreTyped
  <1> QED BY <1>2, <1>3, <1>4, <1>5, <1>6 DEF EwShape

LEMMA NoPendingFields ==
  /\ DOMAIN NoPending = {"text", "image", "deletes"}
  /\ NoPending["text"] = <<>> /\ NoPending["image"] = <<>> /\ NoPending["deletes"] = {}
  BY DEF NoPending

LEMMA NothingTyped ==
  ASSUME EwShape, wire' = <<>>, late' = {}, jobs' = <<>>, pend' = NoPending, flush' = EwIdle, bf' = NoBackfill
  PROVE  RoadTyped' /\ PendTyped' /\ FlushTyped' /\ BackfillTyped' /\ EwQuiet'
  <1>1. \A S : <<>> \in Seq(S)  OBVIOUS
  <1>2. Len(<<>>) = 0  OBVIOUS
  <1>3. RoadTyped'
    <2>1. EwWireCap \in Nat /\ EwJobCap \in Nat  BY EwAssumption
    <2>2. 0 <= EwWireCap /\ 0 <= EwJobCap  BY <2>1
    <2> QED BY <1>1, <1>2, <2>2 DEF RoadTyped
  <1>4. PendTyped'  BY <1>1, NoPendingFields DEF PendTyped
  <1>5. FlushTyped'
    <2>1. flush' = [EwIdle EXCEPT !.at = "idle"]  BY IdleFields
    <2> QED BY <2>1, FlushAt
  <1>6. BackfillTyped'  BY NoBackfillFields DEF BackfillTyped
  <1>7. EwQuiet'  BY DEF EwQuiet
  <1> QED BY <1>3, <1>4, <1>5, <1>6, <1>7

LEMMA EndsIs ==
  ASSUME EwShape, WorkerEnds
  PROVE  /\ wire' = <<>> /\ late' = {} /\ jobs' = <<>> /\ pend' = NoPending /\ flush' = EwIdle /\ bf' = NoBackfill
         /\ excused' \in SUBSET EwDocs /\ excused \subseteq excused'
         /\ \A d \in EwDocs \ excused' :
               /\ About(wire, d) = {} /\ About(jobs, d) = {} /\ LateOf(d) = {}
               /\ About(pend["text"], d) = {} /\ About(pend["image"], d) = {} /\ d \notin pend["deletes"]
         /\ torn' = IF flush.at = "forget" THEN torn \cup flush.batch ELSE torn
         /\ DOMAIN ewCount' = {"commits", "faults", "backfills", "up"}
         /\ ewCount'.commits = ewCount.commits /\ ewCount'.faults \in Nat
         /\ ewCount'.backfills \in Nat /\ ewCount'.up = FALSE
         /\ UNCHANGED <<lex, vec, journal>>
  <1> DEFINE jb == Range(wire) \cup late \cup Range(jobs) \cup Range(pend["text"]) \cup Range(pend["image"])
  <1>1. /\ wire' = <<>> /\ late' = {} /\ jobs' = <<>> /\ pend' = NoPending /\ flush' = EwIdle /\ bf' = NoBackfill
        /\ torn' = IF flush.at = "forget" THEN torn \cup flush.batch ELSE torn
        /\ UNCHANGED <<lex, vec, journal>>
    BY DEF WorkerEnds
  <1>2. excused' = excused \cup DocsOf(jb) \cup pend["deletes"]
    <2>1. pend.text = pend["text"] /\ pend.image = pend["image"] /\ pend.deletes = pend["deletes"]
      BY PendOf DEF EwShape
    <2> QED BY <2>1 DEF WorkerEnds
  <1>3. wire \in Seq(EwJob) /\ jobs \in Seq(EwJob) /\ late \in SUBSET EwJob
        /\ pend["text"] \in Seq(EwJob) /\ pend["image"] \in Seq(EwJob)
    BY PendOf DEF EwShape, RoadTyped, EwVectors
  <1>4. jb \subseteq EwJob  BY <1>3, RangeFinite
  <1>5. excused' \in SUBSET EwDocs
    <2>1. DocsOf(jb) \subseteq EwDocs  BY <1>4, JobFields DEF DocsOf
    <2> QED BY <1>2, <2>1 DEF EwShape, CountTyped, PendTyped
  <1>6. ASSUME NEW d \in EwDocs \ excused'
        PROVE  /\ About(wire, d) = {} /\ About(jobs, d) = {} /\ LateOf(d) = {}
               /\ About(pend["text"], d) = {} /\ About(pend["image"], d) = {} /\ d \notin pend["deletes"]
    <2>1. \A x \in jb : x.doc # d  BY <1>2, <1>6 DEF DocsOf
    <2>2. d \notin DocsOf(Range(wire)) /\ d \notin DocsOf(Range(jobs))
          /\ d \notin DocsOf(Range(pend["text"])) /\ d \notin DocsOf(Range(pend["image"]))
      BY <2>1 DEF DocsOf
    <2>3. LateOf(d) = {}  BY <2>1 DEF LateOf
    <2>4. d \notin pend["deletes"]  BY <1>2, <1>6
    <2>5. About(wire, d) = {} /\ About(jobs, d) = {}  BY <2>2, <1>3, DocsIsAbout
    <2>6. About(pend["text"], d) = {} /\ About(pend["image"], d) = {}  BY <2>2, <1>3, DocsIsAbout
    <2> QED BY <2>3, <2>4, <2>5, <2>6
  <1>7. /\ DOMAIN ewCount' = {"commits", "faults", "backfills", "up"}
        /\ ewCount'.commits = ewCount.commits /\ ewCount'.faults \in Nat
        /\ ewCount'.backfills \in Nat /\ ewCount'.up = FALSE
    <2>1. ewCount' = [ewCount EXCEPT !.faults = ewCount.faults + 1, !.up = FALSE]  BY DEF WorkerEnds
    <2>2. DOMAIN ewCount' = DOMAIN ewCount  BY <2>1
    <2>3. ewCount'.commits = ewCount.commits /\ ewCount'.faults = ewCount.faults + 1
          /\ ewCount'.backfills = ewCount.backfills /\ ewCount'.up = FALSE
      BY <2>1 DEF EwShape, CountTyped
    <2> QED BY <2>2, <2>3 DEF EwShape, CountTyped
  <1>8. excused \subseteq excused'  BY <1>2
  <1> HIDE DEF jb
  <1> QED BY <1>1, <1>5, <1>6, <1>7, <1>8

LEMMA ShapeEnds == ASSUME EwShape, WorkerEnds PROVE EwShape'
  <1>1. /\ wire' = <<>> /\ late' = {} /\ jobs' = <<>> /\ pend' = NoPending /\ flush' = EwIdle /\ bf' = NoBackfill
        /\ excused' \in SUBSET EwDocs
        /\ torn' = IF flush.at = "forget" THEN torn \cup flush.batch ELSE torn
        /\ DOMAIN ewCount' = {"commits", "faults", "backfills", "up"}
        /\ ewCount'.commits = ewCount.commits /\ ewCount'.faults \in Nat
        /\ ewCount'.backfills \in Nat /\ ewCount'.up = FALSE
        /\ UNCHANGED <<lex, vec, journal>>
    BY EndsIs
  <1>2. RoadTyped' /\ PendTyped' /\ FlushTyped' /\ BackfillTyped' /\ EwQuiet'  BY <1>1, NothingTyped
  <1>3. torn' \in SUBSET EwDocs  BY <1>1 DEF EwShape, FlushTyped, CountTyped
  <1>4. CountTyped'
    <2>1. ewCount'.commits \in Nat  BY <1>1 DEF EwShape, CountTyped
    <2>2. ewCount'.up \in BOOLEAN  BY <1>1
    <2> QED BY <1>1, <1>3, <2>1, <2>2 DEF CountTyped
  <1>5. LexTyped' /\ StoreTyped'  BY <1>1 DEF EwShape, LexTyped, StoreTyped
  <1>6. DownIsEmpty'  BY <1>2 DEF DownIsEmpty
  <1> QED BY <1>2, <1>4, <1>5, <1>6 DEF EwShape

LEMMA StartsIs ==
  ASSUME EwShape, WorkerStarts
  PROVE  /\ EwQuiet
         /\ DOMAIN ewCount' = DOMAIN ewCount /\ ewCount'.up = TRUE
         /\ ewCount'.commits = ewCount.commits /\ ewCount'.faults = ewCount.faults
         /\ ewCount'.backfills = ewCount.backfills
         /\ \/ UNCHANGED <<vec, excused, torn>>
            \/ /\ vec' = [d \in EwDocs |-> [c \in EwVectors |-> EwNone]]
               /\ excused' = EwDocs /\ torn' = EwDocs
         /\ UNCHANGED <<lex, wire, late, jobs, pend, flush, journal, bf>>
  <1>1. ewCount' = [ewCount EXCEPT !.up = TRUE]  BY DEF WorkerStarts
  <1>2. DOMAIN ewCount' = DOMAIN ewCount  BY <1>1
  <1>3. ewCount'.up = TRUE /\ ewCount'.commits = ewCount.commits /\ ewCount'.faults = ewCount.faults
        /\ ewCount'.backfills = ewCount.backfills
    BY <1>1 DEF EwShape, CountTyped
  <1>4. EwQuiet  BY DEF WorkerStarts, Running, EwShape, DownIsEmpty
  <1> QED BY <1>2, <1>3, <1>4 DEF WorkerStarts

LEMMA ShapeStarts == ASSUME EwShape, WorkerStarts PROVE EwShape'
  <1>1. /\ DOMAIN ewCount' = DOMAIN ewCount /\ ewCount'.up = TRUE
        /\ ewCount'.commits = ewCount.commits /\ ewCount'.faults = ewCount.faults
        /\ ewCount'.backfills = ewCount.backfills
        /\ \/ UNCHANGED <<vec, excused, torn>>
           \/ /\ vec' = [d \in EwDocs |-> [c \in EwVectors |-> EwNone]]
              /\ excused' = EwDocs /\ torn' = EwDocs
        /\ UNCHANGED <<lex, wire, late, jobs, pend, flush, journal, bf>>
    BY StartsIs
  <1>2. LexTyped' /\ BackfillTyped'  BY <1>1, SameCommits
  <1>3. RoadTyped' /\ PendTyped' /\ FlushTyped'  BY <1>1 DEF EwShape, RoadTyped, PendTyped, FlushTyped
  <1>4. StoreTyped'  BY <1>1 DEF EwShape, StoreTyped
  <1>5. CountTyped'
    <2>1. excused' \in SUBSET EwDocs /\ torn' \in SUBSET EwDocs  BY <1>1 DEF EwShape, CountTyped
    <2>2. ewCount'.up \in BOOLEAN  BY <1>1
    <2> QED BY <1>1, <2>1, <2>2 DEF EwShape, CountTyped
  <1>6. DownIsEmpty'  BY <1>1 DEF DownIsEmpty
  <1> QED BY <1>2, <1>3, <1>4, <1>5, <1>6 DEF EwShape

LEMMA InitRows ==
  ASSUME EwInit
  PROVE  /\ lex \in [EwDocs -> EwRow \cup {EwNone}]
         /\ \A d \in EwDocs : lex[d] # EwNone =>
               /\ lex[d].mt = 1 /\ lex[d].ver = 0 /\ lex[d].ch \in EwVectors
               /\ lex[d] = Row(1, 0, lex[d].ch) /\ lex[d].ch \in EwChannelsOf[d]
         /\ \A d \in EwDocs, c \in EwVectors :
               /\ vec[d][c] = IF lex[d] # EwNone /\ lex[d].ch = c THEN lex[d] ELSE EwNone
               /\ journal[d][c] = IF lex[d] # EwNone /\ lex[d].ch = c THEN Row(1, 0, c) ELSE EwNone
         /\ DOMAIN vec = EwDocs /\ DOMAIN journal = EwDocs
         /\ \A d \in EwDocs : vec[d] \in [EwVectors -> EwRow \cup {EwNone}]
                              /\ journal[d] \in [EwVectors -> EwRow \cup {EwNone}]
  <1>1. ASSUME NEW c \in EwVectors
        PROVE  /\ Row(1, 0, c) \in EwRow /\ Row(1, 0, c) # EwNone
               /\ Row(1, 0, c).mt = 1 /\ Row(1, 0, c).ver = 0 /\ Row(1, 0, c).ch = c
    <2>1. c \in EwChannels /\ 1 \in Nat /\ 0 \in Nat  BY DEF EwChannels
    <2> QED BY <2>1, RowIsRow
  <1>2. lex \in [EwDocs -> {EwNone} \cup {Row(1, 0, c) : c \in EwVectors}]
        /\ (\A d \in EwDocs : lex[d] # EwNone => lex[d].ch \in EwChannelsOf[d])
        /\ vec = [d \in EwDocs |-> [c \in EwVectors |-> IF lex[d] = Row(1, 0, c) THEN lex[d] ELSE EwNone]]
        /\ journal = [d \in EwDocs |-> [c \in EwVectors |-> IF vec[d][c] = EwNone THEN EwNone ELSE Row(1, 0, c)]]
    BY DEF EwInit
  <1>3. lex \in [EwDocs -> EwRow \cup {EwNone}]  BY <1>1, <1>2
  <1>4. ASSUME NEW d \in EwDocs, lex[d] # EwNone
        PROVE  lex[d].mt = 1 /\ lex[d].ver = 0 /\ lex[d].ch \in EwVectors
               /\ lex[d] = Row(1, 0, lex[d].ch) /\ lex[d].ch \in EwChannelsOf[d]
    <2>1. PICK c \in EwVectors : lex[d] = Row(1, 0, c)  BY <1>2, <1>4
    <2> QED BY <2>1, <1>1, <1>2, <1>4
  <1>5. ASSUME NEW d \in EwDocs, NEW c \in EwVectors
        PROVE  /\ vec[d][c] = IF lex[d] # EwNone /\ lex[d].ch = c THEN lex[d] ELSE EwNone
               /\ journal[d][c] = IF lex[d] # EwNone /\ lex[d].ch = c THEN Row(1, 0, c) ELSE EwNone
    <2>1. lex[d] = Row(1, 0, c) <=> lex[d] # EwNone /\ lex[d].ch = c  BY <1>1, <1>4
    <2>2. vec[d][c] = IF lex[d] = Row(1, 0, c) THEN lex[d] ELSE EwNone  BY <1>2
    <2>3. journal[d][c] = IF vec[d][c] = EwNone THEN EwNone ELSE Row(1, 0, c)  BY <1>2
    <2> QED BY <2>1, <2>2, <2>3
  <1>6. ASSUME NEW d \in EwDocs
        PROVE  vec[d] \in [EwVectors -> EwRow \cup {EwNone}] /\ journal[d] \in [EwVectors -> EwRow \cup {EwNone}]
    <2>1. \A c \in EwVectors : vec[d][c] \in EwRow \cup {EwNone} /\ journal[d][c] \in EwRow \cup {EwNone}
      BY <1>1, <1>3, <1>5
    <2>2. vec[d] = [c \in EwVectors |-> vec[d][c]] /\ journal[d] = [c \in EwVectors |-> journal[d][c]]
      BY <1>2
    <2> QED BY <2>1, <2>2
  <1>7. DOMAIN vec = EwDocs /\ DOMAIN journal = EwDocs  BY <1>2
  <1> QED BY <1>3, <1>4, <1>5, <1>6, <1>7

LEMMA ShapeInit == EwInit => EwShape
  <1> SUFFICES ASSUME EwInit PROVE EwShape
    OBVIOUS
  <1>1. /\ wire = <<>> /\ late = {} /\ jobs = <<>> /\ pend = NoPending /\ flush = EwIdle /\ bf = NoBackfill
        /\ excused = {} /\ torn = {} /\ ewCount = [commits |-> 0, faults |-> 0, backfills |-> 0, up |-> TRUE]
    BY DEF EwInit
  <1>2. \A S : <<>> \in Seq(S)  OBVIOUS
  <1>3. RoadTyped
    <2>1. EwWireCap \in Nat /\ EwJobCap \in Nat  BY EwAssumption
    <2>2. Len(wire) = 0 /\ Len(jobs) = 0  BY <1>1
    <2> QED BY <1>1, <1>2, <2>1, <2>2 DEF RoadTyped
  <1>4. PendTyped  BY <1>1, <1>2, NoPendingFields DEF PendTyped
  <1>5. FlushTyped
    <2>1. flush.at = "idle" /\ DOMAIN flush = {"at", "batch"} /\ flush = [EwIdle EXCEPT !.at = "idle"]
      BY <1>1, IdleFields
    <2> QED BY <2>1 DEF FlushTyped
  <1>6. BackfillTyped  BY <1>1, NoBackfillFields DEF BackfillTyped
  <1>7. CountTyped  BY <1>1 DEF CountTyped
  <1>8. LexTyped
    <2>1. ewCount.commits = 0  BY <1>1
    <2> QED BY <2>1, InitRows DEF LexTyped
  <1>9. StoreTyped
    <2>1. \A d \in EwDocs, c \in EwVectors : journal[d][c] # EwNone => journal[d][c] = Row(1, 0, c)
      BY InitRows
    <2>2. \A c \in EwVectors : Row(1, 0, c).ver = 0 /\ Row(1, 0, c).ch = c  BY DEF Row
    <2>3. vec = [d \in EwDocs |-> vec[d]] /\ journal = [d \in EwDocs |-> journal[d]]  BY DEF EwInit
    <2>4. vec \in [EwDocs -> [EwVectors -> EwRow \cup {EwNone}]]
          /\ journal \in [EwDocs -> [EwVectors -> EwRow \cup {EwNone}]]
      BY <2>3, InitRows
    <2> QED BY <2>1, <2>2, <2>4 DEF StoreTyped
  <1>10. DownIsEmpty  BY <1>1 DEF DownIsEmpty
  <1> QED BY <1>3, <1>4, <1>5, <1>6, <1>7, <1>8, <1>9, <1>10 DEF EwShape

LEMMA ShapeStep == EwShape /\ [EwNext]_ewVars => EwShape'
  <1> SUFFICES ASSUME EwShape, [EwNext]_ewVars PROVE EwShape'
    OBVIOUS
  <1>1. ASSUME NEW d \in EwDocs,
               CommitUpsert(d) \/ CommitReindex(d) \/ CommitDelete(d) \/ CommitReplace(d)
        PROVE  EwShape'
    BY <1>1, ShapeUpsert, ShapeReindex, ShapeDelete, ShapeReplace
  <1>2. CASE LateSend  BY <1>2, ShapeLateSend
  <1>3. CASE DispatchEmbed  BY <1>3, ShapeDispatch
  <1>4. CASE TakeJob  BY <1>4, ShapeTake
  <1>5. CASE FlushPeriod  BY <1>5, ShapePeriod
  <1>6. CASE flush_text \/ flush_images
    BY <1>6, ShapeFlushStore DEF flush_text, flush_images, EwVectors
  <1>7. CASE record  BY <1>7, ShapeRecord
  <1>8. CASE flush_deletes  BY <1>8, ShapeDeletes
  <1>9. CASE forget  BY <1>9, ShapeForget
  <1>10. CASE BackfillStart  BY <1>10, ShapeBackfillStart
  <1>11. CASE BackfillNext  BY <1>11, ShapeBackfillNext
  <1>12. CASE BackfillSend  BY <1>12, ShapeBackfillSend
  <1>13. CASE BackfillDone  BY <1>13, ShapeBackfillDone
  <1>14. CASE WorkerEnds  BY <1>14, ShapeEnds
  <1>15. CASE WorkerStarts  BY <1>15, ShapeStarts
  <1>16. CASE UNCHANGED ewVars
    BY <1>16 DEF ewVars, EwShape, LexTyped, RoadTyped, PendTyped, FlushTyped, StoreTyped,
                 BackfillTyped, CountTyped, DownIsEmpty, EwQuiet
  <1> QED BY <1>1, <1>2, <1>3, <1>4, <1>5, <1>6, <1>7, <1>8, <1>9, <1>10, <1>11, <1>12, <1>13,
             <1>14, <1>15, <1>16 DEF EwNext, EwCommits, EwThread, EwBackfill

LEMMA ShapeIsTyped == EwShape => EwTypeOK
  BY DEF EwShape, EwTypeOK, LexTyped, RoadTyped, StoreTyped, FlushTyped, BackfillTyped, CountTyped

\* The two queues keep their capacities, and every part of the state its shape:
\* WRITER_QUEUE_CAPACITY and QUEUE_CAPACITY, whatever is committed, delayed,
\* flushed, dropped or restarted.
THEOREM EmbedTyped == EwSpec => []EwTypeOK
  <1>1. EwInit => EwShape  BY ShapeInit
  <1>2. EwShape /\ [EwNext]_ewVars => EwShape'  BY ShapeStep
  <1>3. EwShape => EwTypeOK  BY ShapeIsTyped
  <1> QED BY <1>1, <1>2, <1>3, PTL DEF EwSpec

--------------------------------------------------------------------------------
(***************************************************************************)
(* The store is never behind the journal.                                  *)
(***************************************************************************)
LEMMA NotAheadKept ==
  ASSUME NotAhead, UNCHANGED <<vec, journal>>, torn \subseteq torn',
         flush' = flush \/ flush.at # "forget", flush' = flush \/ flush'.at # "record"
  PROVE  NotAhead'
  <1>1. JournalNotAhead'  BY DEF NotAhead, JournalNotAhead
  <1>2. BatchInStore'  BY DEF NotAhead, BatchInStore
  <1> QED BY <1>1, <1>2 DEF NotAhead

LEMMA NotAheadFlush ==
  ASSUME EwShape, NotAhead, NEW c \in EwVectors, FlushStore(c)
  PROVE  NotAhead'
  <1>1. /\ Stored(c) \/ NoBatch(c) \/ Dropped(c)
        /\ UNCHANGED <<journal, torn>>
    BY FlushStoreIs
  <1>2. flush.at = c  BY FlushStoreIs
  <1>3. flush.at # "forget" /\ flush.at # "record"  BY <1>2 DEF EwVectors
  <1>4. CASE NoBatch(c) \/ Dropped(c)
    <2>1. flush'.at = After(c) /\ UNCHANGED vec  BY <1>4, IdleFields DEF NoBatch, Dropped
    <2>2. flush'.at # "record"  BY <2>1, AfterIs DEF EwVectors
    <2> QED BY <1>1, <1>3, <2>1, <2>2, NotAheadKept
  <1>5. CASE Stored(c)
    <2> DEFINE b == dedup_by_doc_id(pend[c])
    <2>1. /\ vec' = [d \in EwDocs |-> IF About(pend[c], d) # {}
                                      THEN [vec[d] EXCEPT ![c] = LastOf(pend[c], d).row] ELSE vec[d]]
          /\ flush' = [at |-> "record", batch |-> b]
      BY <1>5 DEF Stored
    <2>2. pend[c] \in Seq(EwUpsert)  BY PendOf DEF EwShape
    <2>3. b \in Seq(EwUpsert)
          /\ \A i \in DOMAIN b : b[i] = LastOf(pend[c], b[i].doc) /\ b[i].doc \in DocsOf(Range(pend[c]))
      BY <2>2, DedupOnce
    <2>4. flush'.at = "record" /\ flush'.batch = b  BY <2>1
    <2> HIDE DEF b
    <2>5. \A d \in EwDocs : vec[d] \in [EwVectors -> EwRow \cup {EwNone}]  BY DEF EwShape, StoreTyped
    <2>6. ASSUME NEW i \in DOMAIN b
          PROVE  vec'[b[i].doc][b[i].row.ch] = b[i].row
      <3>1. b[i].doc \in EwDocs  BY <2>3, ElementOfSeq, UpsertFields
      <3>2. About(pend[c], b[i].doc) # {}  BY <2>2, <2>3, DocsIsAbout
      <3>3. LastOf(pend[c], b[i].doc).row.ch = c  BY <3>2, LastHeld DEF EwShape
      <3>4. vec'[b[i].doc] = [vec[b[i].doc] EXCEPT ![c] = LastOf(pend[c], b[i].doc).row]
        BY <2>1, <3>1, <3>2
      <3>5. b[i].row.ch = c /\ b[i].row = LastOf(pend[c], b[i].doc).row  BY <2>3, <3>3
      <3> DEFINE y == LastOf(pend[c], b[i].doc).row
      <3>6. vec'[b[i].doc][c] = y  BY <3>1, <3>4, <2>5
      <3> QED BY <3>5, <3>6
    <2>7. ASSUME NEW d \in EwDocs, NEW o \in EwVectors, vec[d][o] # EwNone
          PROVE  vec'[d][o] # EwNone
      <3>1. CASE About(pend[c], d) = {}  BY <3>1, <2>1, <2>7
      <3>2. CASE About(pend[c], d) # {}
        <4>1. LastOf(pend[c], d).row \in EwRow  BY <3>2, LastHeld DEF EwShape
        <4>2. LastOf(pend[c], d).row # EwNone  BY <4>1, NoneIsNoRow
        <4>3. vec'[d] = [vec[d] EXCEPT ![c] = LastOf(pend[c], d).row]  BY <2>1, <3>2
        <4> QED BY <4>2, <4>3, <2>5, <2>7
      <3> QED BY <3>1, <3>2
    <2>8. JournalNotAhead'
      <3> SUFFICES ASSUME NEW d \in EwDocs, NEW o \in EwVectors, journal'[d][o] # EwNone
                   PROVE  vec'[d][o] # EwNone \/ d \in torn'
        BY DEF JournalNotAhead
      <3>1. vec[d][o] # EwNone \/ d \in torn  BY <1>1, <1>3 DEF NotAhead, JournalNotAhead
      <3> QED BY <3>1, <2>7, <1>1
    <2>9. BatchInStore'  BY <2>4, <2>6 DEF BatchInStore
    <2> QED BY <2>8, <2>9 DEF NotAhead
  <1> QED BY <1>1, <1>4, <1>5

LEMMA NotAheadRecord == ASSUME EwShape, NotAhead, record PROVE NotAhead'
  <1> DEFINE c == flush.batch[1].row.ch
             b == flush.batch
  <1>1. /\ flush.at = "record" /\ c \in EwVectors
        /\ \A i \in DOMAIN b :
              /\ b[i].row \in EwRow /\ b[i].doc \in EwDocs /\ b[i].row.ch = c
              /\ journal'[b[i].doc] = [journal[b[i].doc] EXCEPT ![c] = Row(b[i].row.mt, 0, c)]
        /\ \A d \in EwDocs : (\A i \in DOMAIN b : b[i].doc # d) => journal'[d] = journal[d]
        /\ flush' = [EwIdle EXCEPT !.at = After(c)]
        /\ UNCHANGED <<vec, torn>>
    BY RecordIs
  <1>2. \A i \in DOMAIN b : vec[b[i].doc][b[i].row.ch] = b[i].row  BY <1>1 DEF NotAhead, BatchInStore
  <1> HIDE DEF c, b
  <1>3. flush'.at # "record"  BY <1>1, IdleFields, AfterIs DEF EwVectors
  <1>4. JournalNotAhead'
    <2> SUFFICES ASSUME NEW d \in EwDocs, NEW o \in EwVectors, journal'[d][o] # EwNone
                 PROVE  vec'[d][o] # EwNone \/ d \in torn'
      BY DEF JournalNotAhead
    <2>1. journal[d][o] # EwNone => vec[d][o] # EwNone \/ d \in torn
      BY <1>1 DEF NotAhead, JournalNotAhead
    <2>2. CASE \A i \in DOMAIN b : b[i].doc # d  BY <2>1, <2>2, <1>1
    <2>3. CASE \E i \in DOMAIN b : b[i].doc = d
      <3>1. PICK i \in DOMAIN b : b[i].doc = d  BY <2>3
      <3>2. CASE o = c
        <4>1. vec[d][c] = b[i].row /\ b[i].row # EwNone  BY <3>1, <1>1, <1>2, NoneIsNoRow
        <4> QED BY <4>1, <3>2, <1>1
      <3>3. CASE o # c
        <4>1. journal[d] \in [EwVectors -> EwRow \cup {EwNone}]  BY DEF EwShape, StoreTyped
        <4>2. journal'[d] = [journal[d] EXCEPT ![c] = Row(b[i].row.mt, 0, c)]  BY <3>1, <1>1
        <4>3. journal'[d][o] = journal[d][o]  BY <4>1, <4>2, <3>3
        <4> QED BY <4>3, <2>1, <1>1
      <3> QED BY <3>2, <3>3
    <2> QED BY <2>2, <2>3
  <1>5. BatchInStore'  BY <1>3 DEF BatchInStore
  <1> QED BY <1>4, <1>5 DEF NotAhead

LEMMA NotAheadDeletes == ASSUME EwShape, NotAhead, flush_deletes PROVE NotAhead'
  <1>1. /\ flush.at = "deletes" /\ (Deleted \/ NotDeleted) /\ UNCHANGED journal
    BY DeletesIs
  <1> DEFINE ids == pend["deletes"]
  <1>2. ids \in SUBSET EwDocs  BY DEF EwShape, PendTyped
  <1>3. ASSUME NEW d \in EwDocs, NEW c \in EwVectors, journal[d][c] # EwNone
        PROVE  vec[d][c] # EwNone \/ d \in torn
    BY <1>1, <1>3 DEF NotAhead, JournalNotAhead
  <1>4. CASE Deleted
    <2>1. /\ \A d \in EwDocs \ ids : vec'[d] = vec[d]
          /\ torn' = torn
      BY <1>4 DEF Deleted, Without
    <2>2. flush'.at # "record"  BY <1>4, IdleFields DEF Deleted
    <2>3. ids # {} => flush'.at = "forget" /\ flush'.batch = ids  BY <1>4 DEF Deleted
    <2>4. JournalNotAhead'
      <3> SUFFICES ASSUME NEW d \in EwDocs, NEW c \in EwVectors, journal'[d][c] # EwNone
                   PROVE  vec'[d][c] # EwNone \/ d \in torn' \/ (flush'.at = "forget" /\ d \in flush'.batch)
        BY DEF JournalNotAhead
      <3>1. CASE d \in ids  BY <3>1, <2>3
      <3>2. CASE d \notin ids  BY <3>2, <2>1, <1>1, <1>3
      <3> QED BY <3>1, <3>2
    <2>5. BatchInStore'  BY <2>2 DEF BatchInStore
    <2> QED BY <2>4, <2>5 DEF NotAhead
  <1>5. CASE NotDeleted
    <2>1. PICK tables \in {{}, {"text"}} :
              /\ vec' = Without(ids, tables)
              /\ torn' = IF tables = {} THEN torn ELSE torn \cup ids
      BY <1>5 DEF NotDeleted
    <2>2. flush'.at # "record"  BY <1>5, IdleFields DEF NotDeleted
    <2>3. JournalNotAhead'
      <3> SUFFICES ASSUME NEW d \in EwDocs, NEW c \in EwVectors, journal'[d][c] # EwNone
                   PROVE  vec'[d][c] # EwNone \/ d \in torn'
        BY DEF JournalNotAhead
      <3>1. vec[d][c] # EwNone \/ d \in torn  BY <1>1, <1>3
      <3>2. CASE d \notin ids \/ tables = {}
        <4>1. vec'[d][c] = vec[d][c]  BY <2>1, <3>2 DEF Without
        <4> QED BY <4>1, <3>1, <2>1
      <3>3. CASE d \in ids /\ tables # {}  BY <3>3, <2>1
      <3> QED BY <3>2, <3>3
    <2>4. BatchInStore'  BY <2>2 DEF BatchInStore
    <2> QED BY <2>3, <2>4 DEF NotAhead
  <1> QED BY <1>1, <1>4, <1>5

LEMMA NotAheadForget == ASSUME EwShape, NotAhead, forget PROVE NotAhead'
  <1>1. /\ flush.at = "forget" /\ flush' = EwIdle /\ UNCHANGED <<vec, torn>>
        /\ journal' = [d \in EwDocs |-> IF d \in flush.batch THEN [c \in EwVectors |-> EwNone] ELSE journal[d]]
    BY DEF forget
  <1>2. JournalNotAhead'
    <2> SUFFICES ASSUME NEW d \in EwDocs, NEW c \in EwVectors, journal'[d][c] # EwNone
                 PROVE  vec'[d][c] # EwNone \/ d \in torn'
      BY DEF JournalNotAhead
    <2>1. d \notin flush.batch /\ journal'[d] = journal[d]  BY <1>1
    <2> QED BY <2>1, <1>1 DEF NotAhead, JournalNotAhead
  <1>3. BatchInStore'  BY <1>1, IdleFields DEF BatchInStore
  <1> QED BY <1>2, <1>3 DEF NotAhead

LEMMA NotAheadEnds == ASSUME EwShape, NotAhead, WorkerEnds PROVE NotAhead'
  <1>1. /\ flush' = EwIdle /\ UNCHANGED <<vec, journal>>
        /\ torn' = IF flush.at = "forget" THEN torn \cup flush.batch ELSE torn
    BY EndsIs
  <1>2. JournalNotAhead'  BY <1>1 DEF NotAhead, JournalNotAhead
  <1>3. BatchInStore'  BY <1>1, IdleFields DEF BatchInStore
  <1> QED BY <1>2, <1>3 DEF NotAhead

LEMMA NotAheadStarts == ASSUME EwShape, NotAhead, WorkerStarts PROVE NotAhead'
  <1>1. /\ EwQuiet /\ UNCHANGED <<flush, journal>>
        /\ \/ UNCHANGED <<vec, torn>>
           \/ torn' = EwDocs
    BY StartsIs
  <1>2. flush.at = "idle"  BY <1>1, IdleFields DEF EwQuiet
  <1>3. CASE UNCHANGED <<vec, torn>>  BY <1>1, <1>2, <1>3, NotAheadKept
  <1>4. CASE torn' = EwDocs
    <2>1. JournalNotAhead'  BY <1>4 DEF JournalNotAhead
    <2>2. BatchInStore'  BY <1>1, <1>2 DEF BatchInStore
    <2> QED BY <2>1, <2>2 DEF NotAhead
  <1> QED BY <1>1, <1>3, <1>4

LEMMA NotAheadStep == ASSUME EwShape, NotAhead, [EwNext]_ewVars PROVE NotAhead'
  <1>1. ASSUME UNCHANGED <<vec, journal, flush, torn>> PROVE NotAhead'
    BY <1>1, NotAheadKept
  <1>2. ASSUME NEW d \in EwDocs,
               CommitUpsert(d) \/ CommitReindex(d) \/ CommitDelete(d) \/ CommitReplace(d)
        PROVE  NotAhead'
    BY <1>1, <1>2 DEF CommitUpsert, CommitReindex, CommitDelete, CommitReplace
  <1>3. CASE LateSend \/ DispatchEmbed  BY <1>1, <1>3 DEF LateSend, DispatchEmbed
  <1>4. CASE TakeJob
    <2>1. /\ flush.at = "idle" /\ UNCHANGED <<vec, journal, torn>>
          /\ flush' \in {EwIdle, [EwIdle EXCEPT !.at = "text"]}
      BY <1>4, TakeIs
    <2>2. flush'.at # "record"  BY <2>1, IdleFields
    <2> QED BY <2>1, <2>2, NotAheadKept
  <1>5. CASE FlushPeriod
    <2>1. flush = EwIdle /\ UNCHANGED <<vec, journal, torn>> /\ flush' = [EwIdle EXCEPT !.at = "text"]
      BY <1>5 DEF FlushPeriod
    <2>2. flush.at # "forget" /\ flush'.at # "record"  BY <2>1, IdleFields
    <2> QED BY <2>1, <2>2, NotAheadKept
  <1>6. CASE flush_text \/ flush_images
    BY <1>6, NotAheadFlush DEF flush_text, flush_images, EwVectors
  <1>7. CASE record  BY <1>7, NotAheadRecord
  <1>8. CASE flush_deletes  BY <1>8, NotAheadDeletes
  <1>9. CASE forget  BY <1>9, NotAheadForget
  <1>10. CASE BackfillStart \/ BackfillNext \/ BackfillSend \/ BackfillDone
    BY <1>1, <1>10 DEF BackfillStart, BackfillNext, BackfillSend, BackfillDone
  <1>11. CASE WorkerEnds  BY <1>11, NotAheadEnds
  <1>12. CASE WorkerStarts  BY <1>12, NotAheadStarts
  <1>13. CASE UNCHANGED ewVars  BY <1>1, <1>13 DEF ewVars
  <1> QED BY <1>2, <1>3, <1>4, <1>5, <1>6, <1>7, <1>8, <1>9, <1>10, <1>11, <1>12, <1>13
          DEF EwNext, EwCommits, EwThread, EwBackfill


--------------------------------------------------------------------------------
(***************************************************************************)
(* One command more, and what fits before it.                              *)
(***************************************************************************)
EwMaybe == EwRow \cup {EwNone}

\* A command c that is sent when the index goes from L to M about a document
\* leaves an older embedding in the same life, and no newer than the index.
Keeps(L, M, c) ==
    c.op = "embed" /\ L # EwNone =>
        /\ M # EwNone /\ M.ch = L.ch /\ M.mt >= L.mt
        /\ M.mt = L.mt => M.ver = L.ver /\ Says(L, c)

\* What a commit says of a document, unless the document is excused.
NewSays(L, M, c) ==
    \/ c.op = "delete" /\ M = EwNone
    \/ /\ c.op = "embed" /\ c.row = M /\ M # EwNone
       /\ L = EwNone \/ M = L \/ (M.ch = L.ch /\ M.mt > L.mt)

\* What a backfill says of it.
OldSays(L, c) ==
    c.op = "embed" /\ L # EwNone /\ L.mt # 0 /\ c.row.mt = 0 /\ c.row.ver = L.ver /\ c.row.ch = L.ch

LEMMA NewKeeps ==
  ASSUME NEW L \in EwMaybe, NEW M \in EwMaybe, NEW c, NewSays(L, M, c)
  PROVE  Keeps(L, M, c) /\ Fits(M, c, {})
  <1>1. M # EwNone => M.mt \in Nat  BY RowFields DEF EwMaybe
  <1>2. L # EwNone => L.mt \in Nat  BY RowFields DEF EwMaybe
  <1>3. CASE c.op = "delete" /\ M = EwNone  BY <1>3 DEF Keeps, Fits, LastSays
  <1>4. CASE c.op = "embed" /\ c.row = M /\ M # EwNone
             /\ (L = EwNone \/ M = L \/ (M.ch = L.ch /\ M.mt > L.mt))
    <2>1. Keeps(L, M, c)  BY <1>1, <1>2, <1>4 DEF Keeps, Says
    <2>2. Fits(M, c, {})  BY <1>1, <1>4 DEF Fits, LastSays, SameLife, Says
    <2> QED BY <2>1, <2>2
  <1> QED BY <1>3, <1>4 DEF NewSays

LEMMA OldKeeps ==
  ASSUME NEW L \in EwMaybe, NEW c, OldSays(L, c)
  PROVE  Keeps(L, L, c) /\ \A B : Fits(L, c, B)
  <1>1. L.mt \in Nat /\ L # EwNone  BY RowFields DEF EwMaybe, OldSays
  <1>2. Keeps(L, L, c)  BY <1>1 DEF Keeps, Says, OldSays
  <1>3. ASSUME NEW B PROVE Fits(L, c, B)
    BY <1>1 DEF Fits, LastSays, SameLife, Says, OldSays
  <1> QED BY <1>2, <1>3

LEMMA LifeGrows ==
  ASSUME NEW L \in EwMaybe, NEW M \in EwMaybe, NEW c, Keeps(L, M, c), c.op = "embed",
         NEW x, x.row \in EwRow, NEW B, SameLife(L, x, B)
  PROVE  SameLife(M, x, B \cup {c})
  <1>1. L # EwNone /\ x.row.ch = L.ch /\ x.row.mt <= L.mt
        /\ (x.row.mt = L.mt => x.row.ver = L.ver /\ \A b \in B : Says(L, b))
    BY DEF SameLife
  <1>2. M # EwNone /\ M.ch = L.ch /\ M.mt >= L.mt /\ (M.mt = L.mt => M.ver = L.ver /\ Says(L, c))
    BY <1>1 DEF Keeps
  <1>3. L.mt \in Nat /\ M.mt \in Nat /\ x.row.mt \in Nat  BY <1>1, <1>2, RowFields DEF EwMaybe
  <1>4. x.row.mt <= M.mt  BY <1>1, <1>2, <1>3
  <1>5. ASSUME x.row.mt = M.mt
        PROVE  x.row.ver = M.ver /\ \A b \in B \cup {c} : Says(M, b)
    <2>1. M.mt = L.mt /\ x.row.mt = L.mt  BY <1>1, <1>2, <1>3, <1>5
    <2>2. M.ver = L.ver /\ Says(L, c) /\ x.row.ver = L.ver /\ \A b \in B : Says(L, b)  BY <1>1, <1>2, <2>1
    <2> QED BY <2>1, <2>2 DEF Says
  <1> QED BY <1>1, <1>2, <1>4, <1>5 DEF SameLife

LEMMA FitGrows ==
  ASSUME NEW L \in EwMaybe, NEW M \in EwMaybe, NEW c, Keeps(L, M, c),
         NEW x \in EwJob, NEW B, Fits(L, x, B)
  PROVE  Fits(M, x, B \cup {c})
  <1>1. B \cup {c} # {}  OBVIOUS
  <1>2. ASSUME x.op = "embed", NoDeletion(B \cup {c}) PROVE SameLife(M, x, B \cup {c})
    <2>1. NoDeletion(B) /\ c.op = "embed"  BY <1>2 DEF NoDeletion
    <2>2. SameLife(L, x, B)  BY <1>2, <2>1 DEF Fits
    <2>3. x.row \in EwRow  BY <1>2, JobFields
    <2> QED BY <2>1, <2>2, <2>3, LifeGrows
  <1> QED BY <1>1, <1>2 DEF Fits

LEMMA AllGrow ==
  ASSUME NEW L \in EwMaybe, NEW M \in EwMaybe, NEW c, Keeps(L, M, c),
         NEW s \in Seq(EwJob), NEW d, NEW B, AllFit(L, s, d, B)
  PROVE  AllFit(M, s, d, B \cup {c})
  <1> DEFINE C == B \cup {c}
  <1>1. \A x \in EwJob : \A A \in SUBSET EwJob :
            x.doc = d /\ (\A a \in A : a.doc = d) /\ Fits(L, x, A \cup B) => Fits(M, x, A \cup C)
    <2> SUFFICES ASSUME NEW x \in EwJob, NEW A \in SUBSET EwJob, Fits(L, x, A \cup B)
                 PROVE  Fits(M, x, A \cup C)
      OBVIOUS
    <2>1. Fits(M, x, (A \cup B) \cup {c})  BY FitGrows
    <2>2. (A \cup B) \cup {c} = A \cup C  OBVIOUS
    <2> QED BY <2>1, <2>2
  <1> HIDE DEF C
  <1>2. AllFit(M, s, d, C)  BY <1>1, FitMore
  <1> QED BY <1>2 DEF C

\* The command joins the road of its document: what is further on still fits.
LEMMA FurtherOn ==
  ASSUME EwShape, NEW d \in EwDocs, DocFits(d), NEW c, Keeps(lex[d], lex'[d], c),
         lex'[d] \in EwMaybe, OnRoad(d)' = OnRoad(d) \cup {c}, RoadFits(d)',
         UNCHANGED <<pend, flush, vec, journal>>
  PROVE  DocFits(d)'
  <1>1. lex[d] \in EwMaybe  BY DEF EwShape, LexTyped, EwMaybe
  <1>2. Deleting(d)' = Deleting(d)  BY DEF Deleting
  <1>3. Ahead(d)' = Ahead(d) \cup {c}  BY <1>2 DEF Ahead
  <1>4. PendFits(d)'
    <2>1. ASSUME NEW o \in EwVectors PROVE AllFit(lex'[d], pend'[o], d, Ahead(d)')
      <3>1. pend[o] \in Seq(EwJob)  BY PendOf DEF EwShape
      <3>2. AllFit(lex[d], pend[o], d, Ahead(d))  BY DEF DocFits, PendFits
      <3>3. AllFit(lex'[d], pend[o], d, Ahead(d) \cup {c})  BY <1>1, <3>1, <3>2, AllGrow
      <3> QED BY <3>3, <1>3
    <2>2. OnRoad(d)' # {}  OBVIOUS
    <2> QED BY <2>1, <2>2 DEF PendFits
  <1>5. BatchFits(d)'
    <2> SUFFICES ASSUME flush.at = "record", NEW i \in DOMAIN flush.batch,
                        flush.batch[i].doc = d, NoDeletion(Ahead(d)')
                 PROVE  SameLife(lex'[d], flush.batch[i], Ahead(d)')
      BY DEF BatchFits
    <2>1. NoDeletion(Ahead(d)) /\ c.op = "embed"  BY <1>3 DEF NoDeletion
    <2>2. SameLife(lex[d], flush.batch[i], Ahead(d))  BY <2>1 DEF DocFits, BatchFits
    <2>3. flush.batch \in Seq(EwUpsert)  BY DEF EwShape, FlushTyped
    <2>4. flush.batch[i].row \in EwRow  BY <2>3, ElementOfSeq, UpsertFields
    <2>5. SameLife(lex'[d], flush.batch[i], Ahead(d) \cup {c})  BY <1>1, <2>1, <2>2, <2>4, LifeGrows
    <2> QED BY <2>5, <1>3
  <1>6. StoreFits(d)'
    <2>1. Ahead(d)' # {}  BY <1>3
    <2> QED BY <2>1 DEF StoreFits, NothingAhead
  <1>7. JournalFits(d)'
    <2> SUFFICES ASSUME NEW o \in EwVectors, journal[d][o] # EwNone, ~Forgetting(d)', NoDeletion(Ahead(d)')
                 PROVE  /\ lex'[d] # EwNone /\ journal[d][o].mt <= lex'[d].mt
                        /\ journal[d][o].mt = lex'[d].mt =>
                              /\ vec[d][o] # EwNone /\ vec[d][o].ver = lex'[d].ver
                              /\ \A b \in About(pend'[o], d) \cup Ahead(d)' : Says(lex'[d], b)
      BY DEF JournalFits
    <2>1. NoDeletion(Ahead(d)) /\ c.op = "embed"  BY <1>3 DEF NoDeletion
    <2>2. ~Forgetting(d)  BY DEF Forgetting
    <2>3. /\ lex[d] # EwNone /\ journal[d][o].mt <= lex[d].mt
          /\ journal[d][o].mt = lex[d].mt =>
                /\ vec[d][o] # EwNone /\ vec[d][o].ver = lex[d].ver
                /\ \A b \in About(pend[o], d) \cup Ahead(d) : Says(lex[d], b)
      BY <2>1, <2>2 DEF DocFits, JournalFits
    <2>4. lex'[d] # EwNone /\ lex'[d].mt >= lex[d].mt
          /\ (lex'[d].mt = lex[d].mt => lex'[d].ver = lex[d].ver /\ Says(lex[d], c))
      BY <2>1, <2>3 DEF Keeps
    <2>5. lex[d].mt \in Nat /\ lex'[d].mt \in Nat  BY <1>1, <2>3, <2>4, RowFields DEF EwMaybe
    <2>6. journal[d][o].mt \in Nat
      <3>1. journal[d][o] \in EwMaybe  BY DEF EwShape, StoreTyped, EwMaybe
      <3> QED BY <3>1, RowFields DEF EwMaybe
    <2>7. journal[d][o].mt <= lex'[d].mt  BY <2>3, <2>4, <2>5, <2>6
    <2>8. ASSUME journal[d][o].mt = lex'[d].mt
          PROVE  /\ vec[d][o] # EwNone /\ vec[d][o].ver = lex'[d].ver
                 /\ \A b \in About(pend'[o], d) \cup Ahead(d)' : Says(lex'[d], b)
      <3>1. lex'[d].mt = lex[d].mt /\ journal[d][o].mt = lex[d].mt  BY <2>3, <2>4, <2>5, <2>6, <2>8
      <3>2. lex'[d].ver = lex[d].ver /\ Says(lex[d], c)  BY <2>4, <3>1
      <3>3. \A b \in About(pend[o], d) \cup Ahead(d) \cup {c} : Says(lex'[d], b)
        BY <2>3, <3>1, <3>2 DEF Says
      <3> QED BY <2>3, <3>1, <3>2, <3>3, <1>3
    <2> QED BY <2>4, <2>7, <2>8
  <1> QED BY <1>4, <1>5, <1>6, <1>7 DEF DocFits

--------------------------------------------------------------------------------
(***************************************************************************)
(* Steps about another document.                                           *)
(***************************************************************************)
\* What a step leaves of a document on the road, and further on.
SameWire(d) == /\ About(wire, d)' = About(wire, d) /\ LateOf(d)' = LateOf(d)
               /\ \A L, B : AllFit(L, wire, d, B) => AllFit(L, wire', d, B)
SameJobs(d) == /\ About(jobs, d)' = About(jobs, d)
               /\ \A L, B : AllFit(L, jobs, d, B) => AllFit(L, jobs', d, B)
SamePend(d) ==
    /\ d \in pend'["deletes"] <=> d \in pend["deletes"]
    /\ \A c \in EwVectors : /\ About(pend[c], d)' = About(pend[c], d)
                            /\ \A L, B : AllFit(L, pend[c], d, B) => AllFit(L, pend'[c], d, B)
SameStore(d) == vec'[d] = vec[d] /\ journal'[d] = journal[d]

LEMMA UnchangedIsSame ==
  ASSUME NEW d
  PROVE  /\ UNCHANGED <<wire, late>> => SameWire(d)
         /\ UNCHANGED jobs => SameJobs(d)
         /\ UNCHANGED pend => SamePend(d)
         /\ UNCHANGED <<vec, journal>> => SameStore(d)
  <1>1. ASSUME UNCHANGED <<wire, late>> PROVE SameWire(d)  BY <1>1 DEF SameWire, LateOf, About, AboutAfter
  <1>2. ASSUME UNCHANGED jobs PROVE SameJobs(d)  BY <1>2 DEF SameJobs, About, AboutAfter
  <1>3. ASSUME UNCHANGED pend PROVE SamePend(d)
    <2>1. \A c \in EwVectors : About(pend[c], d)' = About(pend[c], d)  BY <1>3 DEF About, AboutAfter
    <2> QED BY <1>3, <2>1 DEF SamePend
  <1>4. ASSUME UNCHANGED <<vec, journal>> PROVE SameStore(d)  BY <1>4 DEF SameStore
  <1> QED BY <1>1, <1>2, <1>3, <1>4

LEMMA RoadKept ==
  ASSUME NEW d, RoadFits(d), SameWire(d), SameJobs(d), lex'[d] = lex[d]
  PROVE  RoadFits(d)' /\ OnRoad(d)' = OnRoad(d)
  <1>1. OnWire(d)' = OnWire(d)  BY DEF OnWire, SameWire
  <1>2. OnRoad(d)' = OnRoad(d)  BY <1>1 DEF OnRoad, SameJobs
  <1>3. AllFit(lex'[d], wire', d, LateOf(d)')  BY DEF RoadFits, SameWire
  <1>4. AllFit(lex'[d], jobs', d, OnWire(d)')  BY <1>1 DEF RoadFits, SameJobs
  <1>5. LateOf(d)' = LateOf(d)  BY DEF SameWire
  <1> QED BY <1>2, <1>3, <1>4, <1>5 DEF RoadFits

LEMMA AheadKept ==
  ASSUME NEW d, SamePend(d), OnRoad(d)' = OnRoad(d)
  PROVE  Ahead(d)' = Ahead(d) /\ NothingAhead(d)' = NothingAhead(d)
  <1>1. Deleting(d)' = Deleting(d)  BY DEF Deleting, SamePend
  <1>2. Ahead(d)' = Ahead(d)  BY <1>1 DEF Ahead
  <1>3. About(pend["text"], d)' = About(pend["text"], d) /\ About(pend["image"], d)' = About(pend["image"], d)
    BY DEF SamePend, EwVectors
  <1> QED BY <1>2, <1>3 DEF NothingAhead

LEMMA PendKept ==
  ASSUME NEW d, PendFits(d), SamePend(d), OnRoad(d)' = OnRoad(d), lex'[d] = lex[d]
  PROVE  PendFits(d)'
  <1>1. Ahead(d)' = Ahead(d)  BY AheadKept
  <1>2. \A c \in EwVectors : AllFit(lex'[d], pend'[c], d, Ahead(d)')
    BY <1>1 DEF PendFits, SamePend
  <1>3. d \in pend'["deletes"] /\ OnRoad(d)' = {} => lex'[d] = EwNone
    BY DEF PendFits, SamePend
  <1> QED BY <1>2, <1>3 DEF PendFits

LEMMA NoBatchFits == ASSUME NEW d, flush'.at # "record" PROVE BatchFits(d)'
  BY DEF BatchFits

LEMMA BatchKept ==
  ASSUME NEW d, BatchFits(d), flush' = flush \/ flush'.at # "record",
         Ahead(d)' = Ahead(d), lex'[d] = lex[d]
  PROVE  BatchFits(d)'
  <1>1. CASE flush'.at # "record"  BY <1>1, NoBatchFits
  <1>2. CASE flush' = flush
    <2> SUFFICES ASSUME flush.at = "record", NEW i \in DOMAIN flush.batch,
                        flush.batch[i].doc = d, NoDeletion(Ahead(d)')
                 PROVE  SameLife(lex'[d], flush.batch[i], Ahead(d)')
      BY <1>2 DEF BatchFits
    <2>1. NoDeletion(Ahead(d))  OBVIOUS
    <2>2. SameLife(lex[d], flush.batch[i], Ahead(d))  BY <2>1 DEF BatchFits
    <2> QED BY <2>2
  <1> QED BY <1>1, <1>2

LEMMA StoreKept ==
  ASSUME NEW d, StoreFits(d), SamePend(d), OnRoad(d)' = OnRoad(d), lex'[d] = lex[d], vec'[d] = vec[d]
  PROVE  StoreFits(d)'
  <1>1. NothingAhead(d)' = NothingAhead(d)  BY AheadKept
  <1> QED BY <1>1 DEF StoreFits

LEMMA JournalKept ==
  ASSUME NEW d, JournalFits(d), SamePend(d), SameStore(d), OnRoad(d)' = OnRoad(d), lex'[d] = lex[d],
         Forgetting(d) => Forgetting(d)'
  PROVE  JournalFits(d)'
  <1>1. Ahead(d)' = Ahead(d)  BY AheadKept
  <1>2. vec'[d] = vec[d] /\ journal'[d] = journal[d]  BY DEF SameStore
  <1>3. \A c \in EwVectors : About(pend[c], d)' = About(pend[c], d)  BY DEF SamePend
  <1> SUFFICES ASSUME NEW c \in EwVectors, journal'[d][c] # EwNone, ~Forgetting(d)', NoDeletion(Ahead(d)')
               PROVE  /\ lex'[d] # EwNone /\ journal'[d][c].mt <= lex'[d].mt
                      /\ journal'[d][c].mt = lex'[d].mt =>
                            /\ vec'[d][c] # EwNone /\ vec'[d][c].ver = lex'[d].ver
                            /\ \A b \in About(pend[c], d)' \cup Ahead(d)' : Says(lex'[d], b)
    BY DEF JournalFits
  <1>4. journal[d][c] # EwNone /\ ~Forgetting(d) /\ NoDeletion(Ahead(d))  BY <1>1, <1>2
  <1>5. /\ lex[d] # EwNone /\ journal[d][c].mt <= lex[d].mt
        /\ journal[d][c].mt = lex[d].mt =>
              /\ vec[d][c] # EwNone /\ vec[d][c].ver = lex[d].ver
              /\ \A b \in About(pend[c], d) \cup Ahead(d) : Says(lex[d], b)
    BY <1>4 DEF JournalFits
  <1> QED BY <1>1, <1>2, <1>3, <1>5

LEMMA ViewKept ==
  ASSUME NEW d, DocFits(d), RoadFits(d)', OnRoad(d)' = OnRoad(d), SamePend(d), SameStore(d),
         lex'[d] = lex[d], flush' = flush \/ flush'.at # "record", Forgetting(d) => Forgetting(d)'
  PROVE  DocFits(d)'
  <1>1. RoadFits(d) /\ PendFits(d) /\ BatchFits(d) /\ StoreFits(d) /\ JournalFits(d)  BY DEF DocFits
  <1>2. PendFits(d)'  BY <1>1, PendKept
  <1>3. BatchFits(d)'  BY <1>1, AheadKept, BatchKept
  <1>4. StoreFits(d)'  BY <1>1, StoreKept DEF SameStore
  <1>5. JournalFits(d)'  BY <1>1, JournalKept
  <1> QED BY <1>2, <1>3, <1>4, <1>5 DEF DocFits

\* A step that leaves a document where it is.
LEMMA NotConcerned ==
  ASSUME NEW d, DocFits(d), SameWire(d), SameJobs(d), SamePend(d), SameStore(d), lex'[d] = lex[d],
         flush' = flush \/ flush'.at # "record", Forgetting(d) => Forgetting(d)'
  PROVE  DocFits(d)'
  <1>1. RoadFits(d)' /\ OnRoad(d)' = OnRoad(d)  BY RoadKept DEF DocFits
  <1> QED BY <1>1, ViewKept

--------------------------------------------------------------------------------
(***************************************************************************)
(* The commits.                                                            *)
(***************************************************************************)
\* The document of the command, unless the command is dropped or overtakes
\* one that waits.
LEMMA SendJoins ==
  ASSUME EwShape, NEW d \in EwDocs, RoadFits(d), NEW c \in EwJob, c.doc = d, NEW e,
         Sends(wire, late, e, c, wire', late', excused'), d \notin excused', UNCHANGED jobs,
         lex'[d] \in EwMaybe, Keeps(lex[d], lex'[d], c), Fits(lex'[d], c, {})
  PROVE  RoadFits(d)' /\ OnRoad(d)' = OnRoad(d) \cup {c}
  <1> DEFINE L == lex[d]
             M == lex'[d]
  <1>0. L \in EwMaybe /\ M \in EwMaybe  BY DEF EwShape, LexTyped, EwMaybe
  <1>1. wire \in Seq(EwJob) /\ jobs \in Seq(EwJob) /\ late \in SUBSET EwJob  BY DEF EwShape, RoadTyped
  <1>2. LateOf(d) = {}
    <2>1. d \notin DocsOf(late)  BY DEF Sends
    <2> QED BY <2>1 DEF LateOf, DocsOf
  <1>3. AllFit(L, wire, d, {}) /\ AllFit(L, jobs, d, OnWire(d))  BY <1>2 DEF RoadFits
  <1>4. AllFit(M, wire, d, {c})
    <2>1. AllFit(M, wire, d, {} \cup {c})
      <3> HIDE DEF L, M
      <3> QED BY <1>0, <1>1, <1>3, AllGrow DEF L, M
    <2> QED BY <2>1
  <1>5. AllFit(M, jobs, d, OnWire(d) \cup {c})  BY <1>0, <1>1, <1>3, AllGrow
  <1>6. ASSUME wire' = Append(wire, c), late' = late
        PROVE  RoadFits(d)' /\ OnWire(d)' = OnWire(d) \cup {c}
    <2>1. LateOf(d)' = {}  BY <1>2, <1>6 DEF LateOf
    <2>2. About(wire', d) = About(wire, d) \cup {c}
      <3>1. About(Append(wire, c), d) = About(wire, d) \cup IF c.doc = d THEN {c} ELSE {}  BY <1>1, AllAppend
      <3> QED BY <3>1, <1>6
    <2>3. OnWire(d)' = OnWire(d) \cup {c}  BY <1>2, <2>1, <2>2 DEF OnWire
    <2>4. AllFit(M, wire', d, {})
      <3>1. {c} \cup {} = {c}  OBVIOUS
      <3>2. AllFit(M, wire, d, {c} \cup {}) /\ Fits(M, c, {})  BY <3>1, <1>4
      <3>3. AllFit(M, Append(wire, c), d, {})  BY <3>2, <1>1, FitAppend
      <3> QED BY <3>3, <1>6
    <2>5. AllFit(M, jobs', d, OnWire(d)')  BY <1>5, <2>3
    <2> QED BY <2>1, <2>3, <2>4, <2>5 DEF RoadFits
  <1>7. ASSUME wire' = wire, late' = late \cup {c}
        PROVE  RoadFits(d)' /\ OnWire(d)' = OnWire(d) \cup {c}
    <2>1. LateOf(d)' = {c}  BY <1>2, <1>7 DEF LateOf
    <2>2. OnWire(d)' = OnWire(d) \cup {c}  BY <1>2, <1>7, <2>1 DEF OnWire
    <2>3. AllFit(M, wire', d, LateOf(d)')  BY <1>4, <1>7, <2>1
    <2>4. AllFit(M, jobs', d, OnWire(d)')  BY <1>5, <2>2
    <2>5. \A x \in LateOf(d)' : Fits(M, x, {})  BY <2>1
    <2> QED BY <2>1, <2>2, <2>3, <2>4, <2>5 DEF RoadFits
  <1>8. ewCount.up /\ (\/ wire' = Append(wire, c) /\ late' = late
                       \/ wire' = wire /\ late' = late \cup {c})
    BY DEF Sends
  <1>9. RoadFits(d)' /\ OnWire(d)' = OnWire(d) \cup {c}  BY <1>6, <1>7, <1>8
  <1>10. OnRoad(d)' = About(jobs, d) \cup OnWire(d)'  BY DEF OnRoad
  <1> QED BY <1>9, <1>10 DEF OnRoad

LEMMA CommitFits ==
  ASSUME EwShape, DocsFit, NEW U \in SUBSET EwDocs, NEW c \in EwJob,
         Sends(wire, late, excused \cup U, c, wire', late', excused'),
         UNCHANGED <<jobs, pend, flush, vec, journal, torn>>,
         \A o \in EwDocs : o # c.doc => lex'[o] = lex[o],
         lex'[c.doc] \in EwMaybe,
         c.doc \notin excused' => NewSays(lex[c.doc], lex'[c.doc], c)
  PROVE  DocsFit'
  <1>1. wire \in Seq(EwJob) /\ late \in SUBSET EwJob /\ c.doc \in EwDocs  BY JobFields DEF EwShape, RoadTyped
  <1>2. excused \subseteq excused'  BY DEF Sends
  <1> SUFFICES ASSUME NEW d \in EwDocs, d \notin excused', d \notin torn PROVE DocFits(d)'
    BY DEF DocsFit
  <1>3. DocFits(d)  BY <1>2 DEF DocsFit
  <1>4. CASE d # c.doc
    <2>1. /\ About(wire', d) = About(wire, d)
          /\ {x \in late' : x.doc = d} = {x \in late : x.doc = d}
          /\ \A L, B : AllFit(L, wire, d, B) => AllFit(L, wire', d, B)
      BY <1>1, <1>4, SendElsewhere
    <2>2. SameWire(d)
      <3>1. LateOf(d)' = LateOf(d)  BY <2>1 DEF LateOf
      <3> QED BY <2>1, <3>1 DEF SameWire
    <2>3. SameJobs(d) /\ SamePend(d) /\ SameStore(d)  BY UnchangedIsSame
    <2>4. Forgetting(d) => Forgetting(d)'  BY DEF Forgetting
    <2> QED BY <1>3, <1>4, <2>2, <2>3, <2>4, NotConcerned
  <1>5. CASE d = c.doc
    <2>1. lex[d] \in EwMaybe /\ lex'[d] \in EwMaybe  BY <1>5 DEF EwShape, LexTyped, EwMaybe
    <2>2. Keeps(lex[d], lex'[d], c) /\ Fits(lex'[d], c, {})  BY <1>5, <2>1, NewKeeps
    <2>3. RoadFits(d)' /\ OnRoad(d)' = OnRoad(d) \cup {c}
      BY <1>3, <1>5, <2>1, <2>2, SendJoins DEF DocFits
    <2> QED BY <1>3, <2>1, <2>2, <2>3, FurtherOn
  <1> QED BY <1>4, <1>5

LEMMA UpsertFits == ASSUME EwShape, DocsFit, NEW d \in EwDocs, CommitUpsert(d) PROVE DocsFit'
  <1>1. PICK ch \in EwChannelsOf[d], later \in BOOLEAN :
            LET new == NewRow(d, ch, later)
            IN  /\ new \in EwRow /\ new # EwNone /\ new.mt # 0 /\ new.ver = ewCount.commits + 1 /\ new.ch = ch
                /\ lex[d] # EwNone => new.mt >= lex[d].mt
                /\ lex' = [lex EXCEPT ![d] = new]
                /\ Sends(wire, late, excused \cup Unlucky(d, ch, later), Embed(d, new), wire', late', excused')
    BY UpsertIs
  <1> DEFINE new == NewRow(d, ch, later)
             U   == Unlucky(d, ch, later)
             c   == Embed(d, new)
  <1>2. UNCHANGED <<jobs, pend, flush, vec, journal, torn>>  BY DEF CommitUpsert
  <1>3. U \in SUBSET EwDocs  BY DEF Unlucky
  <1>4. d \notin U => lex[d] = EwNone \/ (new.mt # lex[d].mt /\ new.ch = lex[d].ch)  BY DEF Unlucky
  <1>5. new \in EwRow /\ new # EwNone /\ (lex[d] # EwNone => new.mt >= lex[d].mt)
        /\ lex' = [lex EXCEPT ![d] = new]
        /\ Sends(wire, late, excused \cup U, c, wire', late', excused')
    BY <1>1
  <1> HIDE DEF new, U
  <1>6. c \in EwJob /\ c.op = "embed" /\ c.doc = d /\ c.row = new  BY <1>5, EmbedIsJob
  <1> HIDE DEF c
  <1>7. U \subseteq excused'  BY <1>5 DEF Sends
  <1>8. lex'[d] = new /\ \A o \in EwDocs : o # d => lex'[o] = lex[o]  BY <1>5 DEF EwShape, LexTyped
  <1>9. d \notin excused' => NewSays(lex[d], new, c)
    <2> SUFFICES ASSUME d \notin excused' PROVE NewSays(lex[d], new, c)
      OBVIOUS
    <2>1. lex[d] = EwNone \/ (new.mt # lex[d].mt /\ new.ch = lex[d].ch)  BY <1>4, <1>7
    <2>2. new.mt \in Nat /\ (lex[d] # EwNone => lex[d].mt \in Nat)
      BY <1>5, RowFields DEF EwShape, LexTyped
    <2>3. lex[d] # EwNone => new.mt > lex[d].mt  BY <2>1, <2>2, <1>5
    <2> QED BY <2>1, <2>3, <1>5, <1>6 DEF NewSays
  <1>10. new \in EwMaybe  BY <1>5 DEF EwMaybe
  <1> QED BY <1>2, <1>3, <1>5, <1>6, <1>8, <1>9, <1>10, CommitFits

LEMMA ReindexFits == ASSUME EwShape, DocsFit, NEW d \in EwDocs, CommitReindex(d) PROVE DocsFit'
  <1>1. UNCHANGED <<lex, jobs, pend, flush, vec, journal, torn>> /\ lex[d] # EwNone
    BY DEF CommitReindex
  <1> DEFINE c == Embed(d, lex[d])
             U == {}
  <1>2. Sends(wire, late, excused \cup U, c, wire', late', excused')
    BY OneSent DEF CommitReindex
  <1>3. lex[d] \in EwRow  BY <1>1 DEF EwShape, LexTyped
  <1>4. c \in EwJob /\ c.op = "embed" /\ c.doc = d /\ c.row = lex[d]  BY <1>3, EmbedIsJob
  <1>5. U \in SUBSET EwDocs  OBVIOUS
  <1> HIDE DEF c, U
  <1>6. NewSays(lex[d], lex[d], c)  BY <1>1, <1>4 DEF NewSays
  <1>7. lex[d] \in EwMaybe  BY <1>3 DEF EwMaybe
  <1> QED BY <1>1, <1>2, <1>4, <1>5, <1>6, <1>7, CommitFits

LEMMA DeleteFits == ASSUME EwShape, DocsFit, NEW d \in EwDocs, CommitDelete(d) PROVE DocsFit'
  <1>1. UNCHANGED <<jobs, pend, flush, vec, journal, torn>> /\ lex' = [lex EXCEPT ![d] = EwNone]
    BY DEF CommitDelete
  <1> DEFINE c == EmbedDelete(d)
             U == {}
  <1>2. Sends(wire, late, excused \cup U, c, wire', late', excused')
    BY OneSent DEF CommitDelete
  <1>3. lex'[d] = EwNone /\ \A o \in EwDocs : o # d => lex'[o] = lex[o]  BY <1>1 DEF EwShape, LexTyped
  <1>4. c \in EwJob /\ c.op = "delete" /\ c.doc = d  BY DeleteIsJob
  <1>5. U \in SUBSET EwDocs  OBVIOUS
  <1> HIDE DEF c, U
  <1>6. NewSays(lex[d], lex'[d], c)  BY <1>3, <1>4 DEF NewSays
  <1>7. lex'[d] \in EwMaybe  BY <1>3 DEF EwMaybe
  <1> QED BY <1>1, <1>2, <1>3, <1>4, <1>5, <1>6, <1>7, CommitFits

\* The document that is deleted and added in one generation is excused; the
\* others see nothing of its two commands.
LEMMA ReplaceFits == ASSUME EwShape, DocsFit, NEW d \in EwDocs, CommitReplace(d) PROVE DocsFit'
  <1>1. UNCHANGED <<lex, jobs, pend, flush, vec, journal, torn>> /\ lex[d] # EwNone
    BY DEF CommitReplace
  <1> DEFINE c == Embed(d, lex[d])
             x == EmbedDelete(d)
  <1>2. PICK w, l, e : /\ Sends(wire, late, excused \cup {d}, c, w, l, e)
                       /\ Sends(w, l, e, x, wire', late', excused')
    BY TwoSent DEF CommitReplace
  <1>3. c \in EwJob /\ x \in EwJob /\ c.doc = d /\ x.doc = d
    BY <1>1, EmbedIsJob, DeleteIsJob DEF EwShape, LexTyped
  <1> HIDE DEF c, x
  <1>4. RoadOf(wire, late, excused \cup {d})  BY DEF EwShape, CountTyped, RoadTyped, RoadOf
  <1>5. RoadOf(w, l, e)  BY <1>2, <1>3, <1>4, SendTyped
  <1>6. w \in Seq(EwJob) /\ l \in SUBSET EwJob /\ wire \in Seq(EwJob) /\ late \in SUBSET EwJob
    BY <1>4, <1>5 DEF RoadOf
  <1>7. excused \cup {d} \subseteq e /\ e \subseteq excused'  BY <1>2 DEF Sends
  <1> SUFFICES ASSUME NEW o \in EwDocs, o \notin excused', o \notin torn PROVE DocFits(o)'
    BY <1>1 DEF DocsFit
  <1>8. o # d /\ DocFits(o)  BY <1>7 DEF DocsFit
  <1>9. /\ About(w, o) = About(wire, o)
        /\ {y \in l : y.doc = o} = {y \in late : y.doc = o}
        /\ \A L, B : AllFit(L, wire, o, B) => AllFit(L, w, o, B)
    BY <1>2, <1>3, <1>6, <1>8, SendElsewhere
  <1>10. /\ About(wire', o) = About(w, o)
         /\ {y \in late' : y.doc = o} = {y \in l : y.doc = o}
         /\ \A L, B : AllFit(L, w, o, B) => AllFit(L, wire', o, B)
    BY <1>2, <1>3, <1>6, <1>8, SendElsewhere
  <1>11. SameWire(o)
    <2>1. LateOf(o)' = LateOf(o)  BY <1>9, <1>10 DEF LateOf
    <2> QED BY <1>9, <1>10, <2>1 DEF SameWire
  <1>12. SameJobs(o) /\ SamePend(o) /\ SameStore(o)  BY <1>1, UnchangedIsSame
  <1>13. Forgetting(o) => Forgetting(o)'  BY <1>1 DEF Forgetting
  <1> QED BY <1>1, <1>8, <1>11, <1>12, <1>13, NotConcerned

--------------------------------------------------------------------------------
(***************************************************************************)
(* Along the road.                                                         *)
(***************************************************************************)
LEMMA LateSendFits == ASSUME EwShape, DocsFit, LateSend PROVE DocsFit'
  <1>1. PICK c \in late : late' = late \ {c} /\ wire' = Append(wire, c)  BY DEF LateSend
  <1>2. UNCHANGED <<lex, jobs, pend, flush, vec, journal, excused, torn>>  BY DEF LateSend
  <1>3. c \in EwJob /\ wire \in Seq(EwJob) /\ jobs \in Seq(EwJob)  BY DEF EwShape, RoadTyped
  <1> SUFFICES ASSUME NEW d \in EwDocs, d \notin excused, d \notin torn PROVE DocFits(d)'
    BY <1>2 DEF DocsFit
  <1>4. DocFits(d) /\ RoadFits(d)  BY DEF DocsFit, DocFits
  <1>5. SameJobs(d) /\ SamePend(d) /\ SameStore(d)  BY <1>2, UnchangedIsSame
  <1>6. Forgetting(d) => Forgetting(d)'  BY <1>2 DEF Forgetting
  <1>7. About(Append(wire, c), d) = About(wire, d) \cup IF c.doc = d THEN {c} ELSE {}  BY <1>3, AllAppend
  <1>8. CASE c.doc # d
    <2>1. LateOf(d)' = LateOf(d)  BY <1>1, <1>8 DEF LateOf
    <2>2. About(wire, d)' = About(wire, d)
      <3>1. About(wire', d) = About(wire, d)  BY <1>1, <1>7, <1>8
      <3> QED BY <3>1
    <2>3. \A L, B : AllFit(L, wire, d, B) => AllFit(L, wire', d, B)
      <3>1. \A L, B : AllFit(L, wire, d, B) <=> AllFit(L, Append(wire, c), d, B)  BY <1>3, <1>8, FitAppend
      <3> QED BY <3>1, <1>1
    <2>4. SameWire(d)  BY <2>1, <2>2, <2>3 DEF SameWire
    <2> QED BY <1>2, <1>4, <1>5, <1>6, <2>4, NotConcerned
  <1>9. CASE c.doc = d
    <2>1. LateOf(d) = {c}  BY <1>4, <1>9 DEF LateOf, RoadFits
    <2>2. LateOf(d)' = {}  BY <2>1, <1>1 DEF LateOf
    <2>3. About(wire', d) = About(wire, d) \cup {c}  BY <1>1, <1>7, <1>9
    <2>4. OnWire(d)' = OnWire(d)  BY <2>1, <2>2, <2>3 DEF OnWire
    <2>5. OnRoad(d)' = OnRoad(d)  BY <2>4, <1>5 DEF OnRoad, SameJobs
    <2>6. AllFit(lex[d], wire', d, {})
      <3>1. {c} \cup {} = {c}  OBVIOUS
      <3>2. AllFit(lex[d], wire, d, {c} \cup {}) /\ Fits(lex[d], c, {})  BY <3>1, <2>1, <1>4 DEF RoadFits
      <3>3. AllFit(lex[d], Append(wire, c), d, {})  BY <3>2, <1>3, <1>9, FitAppend
      <3> QED BY <3>3, <1>1
    <2>7. AllFit(lex[d], jobs', d, OnWire(d)')  BY <2>4, <1>2, <1>4 DEF RoadFits
    <2>8. RoadFits(d)'  BY <2>2, <2>6, <2>7, <1>2 DEF RoadFits
    <2> QED BY <1>2, <1>4, <1>5, <1>6, <2>5, <2>8, ViewKept
  <1> QED BY <1>8, <1>9

LEMMA DispatchFits == ASSUME EwShape, DocsFit, DispatchEmbed PROVE DocsFit'
  <1>1. /\ wire # <<>> /\ jobs' = Append(jobs, Head(wire)) /\ wire' = Tail(wire)
        /\ UNCHANGED <<lex, late, pend, flush, vec, journal, excused, torn>>
    BY DEF DispatchEmbed
  <1> DEFINE c == Head(wire)
  <1>2. wire \in Seq(EwJob) /\ jobs \in Seq(EwJob)  BY DEF EwShape, RoadTyped
  <1>3. c \in EwJob  BY <1>1, <1>2, TailOf
  <1> SUFFICES ASSUME NEW d \in EwDocs, d \notin excused, d \notin torn PROVE DocFits(d)'
    BY <1>1 DEF DocsFit
  <1>4. DocFits(d) /\ RoadFits(d)  BY DEF DocsFit, DocFits
  <1>5. SamePend(d) /\ SameStore(d)  BY <1>1, UnchangedIsSame
  <1>6. Forgetting(d) => Forgetting(d)'  BY <1>1 DEF Forgetting
  <1>7. About(wire, d) = About(Tail(wire), d) \cup IF c.doc = d THEN {c} ELSE {}  BY <1>1, <1>2, AboutTail
  <1>8. About(Append(jobs, c), d) = About(jobs, d) \cup IF c.doc = d THEN {c} ELSE {}
    <2> HIDE DEF c
    <2> QED BY <1>2, <1>3, AllAppend
  <1>9. LateOf(d)' = LateOf(d)  BY <1>1 DEF LateOf
  <1>10. \A L, B : AllFit(L, wire, d, B) =>
            AllFit(L, Tail(wire), d, B) /\ (c.doc = d => Fits(L, c, About(Tail(wire), d) \cup B))
    BY <1>1, <1>2, FitTail
  <1>11. jobs' = Append(jobs, c) /\ wire' = Tail(wire)  BY <1>1
  <1> HIDE DEF c
  <1>12. CASE c.doc # d
    <2>1. About(wire', d) = About(wire, d) /\ About(jobs', d) = About(jobs, d)
      BY <1>7, <1>8, <1>11, <1>12
    <2>2. \A L, B : AllFit(L, jobs, d, B) => AllFit(L, jobs', d, B)
      <3>1. \A L, B : AllFit(L, jobs, d, B) <=> AllFit(L, Append(jobs, c), d, B)
        BY <1>2, <1>3, <1>12, FitAppend
      <3> QED BY <3>1, <1>11
    <2>3. \A L, B : AllFit(L, wire, d, B) => AllFit(L, wire', d, B)  BY <1>10, <1>11
    <2>4. SameWire(d) /\ SameJobs(d)  BY <2>1, <2>2, <2>3, <1>9 DEF SameWire, SameJobs
    <2> QED BY <1>1, <1>4, <1>5, <1>6, <2>4, NotConcerned
  <1>13. CASE c.doc = d
    <2>1. OnWire(d) = {c} \cup OnWire(d)'  BY <1>7, <1>9, <1>11, <1>13 DEF OnWire
    <2>2. OnRoad(d)' = OnRoad(d)
      <3>1. About(jobs', d) = About(jobs, d) \cup {c}  BY <1>8, <1>11, <1>13
      <3> QED BY <3>1, <2>1 DEF OnRoad
    <2>3. AllFit(lex[d], wire, d, LateOf(d)) /\ AllFit(lex[d], jobs, d, {c} \cup OnWire(d)')
      BY <1>4, <2>1 DEF RoadFits
    <2>4. AllFit(lex[d], wire', d, LateOf(d)') /\ Fits(lex[d], c, OnWire(d)')
      <3>1. OnWire(d)' = About(Tail(wire), d) \cup LateOf(d)  BY <1>9, <1>11 DEF OnWire
      <3> QED BY <3>1, <2>3, <1>9, <1>10, <1>11, <1>13
    <2>5. AllFit(lex[d], jobs', d, OnWire(d)')
      <3> DEFINE B == OnWire(d)'
      <3>1. AllFit(lex[d], jobs, d, {c} \cup B) /\ Fits(lex[d], c, B)  BY <2>3, <2>4
      <3> HIDE DEF B
      <3>2. AllFit(lex[d], Append(jobs, c), d, B)  BY <3>1, <1>2, <1>3, <1>13, FitAppend
      <3> QED BY <3>2, <1>11 DEF B
    <2>6. RoadFits(d)'
      <3>1. \A x, y \in LateOf(d)' : x = y  BY <1>4, <1>9 DEF RoadFits
      <3>2. \A x \in LateOf(d)' : Fits(lex'[d], x, {})  BY <1>1, <1>4, <1>9 DEF RoadFits
      <3> QED BY <3>1, <3>2, <2>4, <2>5, <1>1 DEF RoadFits
    <2> QED BY <1>1, <1>4, <1>5, <1>6, <2>2, <2>6, ViewKept
  <1> QED BY <1>12, <1>13

\* A backfill's copy of a document says what the index says.
LEMMA BackfillFits == ASSUME EwShape, DocsFit, BackfillSend PROVE DocsFit'
  <1> DEFINE c == Embed(bf.doc, bf.row)
  <1>1. /\ bf.doc \in EwDocs /\ bf.row \in EwRow /\ bf.row.mt = 0
        /\ jobs' = Append(jobs, c) /\ c \in EwJob
        /\ excused' \in {excused, excused \cup {bf.doc}}
        /\ bf.doc \notin excused' =>
              lex[bf.doc] # EwNone /\ lex[bf.doc].ver = bf.row.ver /\ lex[bf.doc].ch = bf.row.ch
        /\ UNCHANGED <<lex, wire, late, pend, flush, timed, vec, journal, torn, ewCount>>
    BY BackfillSendIs
  <1>2. c.op = "embed" /\ c.doc = bf.doc /\ c.row = bf.row  BY <1>1, EmbedIsJob
  <1> HIDE DEF c
  <1>3. wire \in Seq(EwJob) /\ jobs \in Seq(EwJob)  BY DEF EwShape, RoadTyped
  <1> SUFFICES ASSUME NEW d \in EwDocs, d \notin excused', d \notin torn PROVE DocFits(d)'
    BY <1>1 DEF DocsFit
  <1>4. DocFits(d) /\ RoadFits(d)  BY <1>1 DEF DocsFit, DocFits
  <1>5. SameWire(d) /\ SamePend(d) /\ SameStore(d)  BY <1>1, UnchangedIsSame
  <1>6. Forgetting(d) => Forgetting(d)'  BY <1>1 DEF Forgetting
  <1>7. About(Append(jobs, c), d) = About(jobs, d) \cup IF c.doc = d THEN {c} ELSE {}
    BY <1>1, <1>3, AllAppend
  <1>8. CASE c.doc # d
    <2>1. About(jobs', d) = About(jobs, d)  BY <1>1, <1>7, <1>8
    <2>2. \A L, B : AllFit(L, jobs, d, B) => AllFit(L, jobs', d, B)
      <3>1. \A L, B : AllFit(L, jobs, d, B) <=> AllFit(L, Append(jobs, c), d, B)
        BY <1>1, <1>3, <1>8, FitAppend
      <3> QED BY <3>1, <1>1
    <2>3. SameJobs(d)  BY <2>1, <2>2 DEF SameJobs
    <2> QED BY <1>1, <1>4, <1>5, <1>6, <2>3, NotConcerned
  <1>9. CASE c.doc = d
    <2>1. lex[d] \in EwMaybe /\ lex[d] # EwNone /\ lex[d].mt # 0
          /\ c.row.mt = 0 /\ c.row.ver = lex[d].ver /\ c.row.ch = lex[d].ch
      BY <1>1, <1>2, <1>9 DEF EwShape, LexTyped, EwMaybe
    <2>2. OldSays(lex[d], c)  BY <2>1, <1>2 DEF OldSays
    <2>3. Keeps(lex[d], lex[d], c) /\ \A B : Fits(lex[d], c, B)  BY <2>1, <2>2, OldKeeps
    <2>4. About(jobs', d) = About(jobs, d) \cup {c}  BY <1>1, <1>7, <1>9
    <2>5. OnWire(d)' = OnWire(d)  BY <1>5 DEF OnWire, SameWire
    <2>6. OnRoad(d)' = OnRoad(d) \cup {c}  BY <2>4, <2>5 DEF OnRoad
    <2>7. AllFit(lex[d], jobs', d, OnWire(d)')
      <3> DEFINE B == OnWire(d)
      <3>1. AllFit(lex[d], jobs, d, B)  BY <1>4 DEF RoadFits
      <3> HIDE DEF B
      <3>2. AllFit(lex[d], jobs, d, B \cup {c})  BY <3>1, <2>1, <2>3, <1>3, AllGrow
      <3>3. B \cup {c} = {c} \cup B  OBVIOUS
      <3>4. AllFit(lex[d], jobs, d, {c} \cup B) /\ Fits(lex[d], c, B)  BY <3>2, <3>3, <2>3
      <3>5. AllFit(lex[d], Append(jobs, c), d, B)  BY <3>4, <1>1, <1>3, <1>9, FitAppend
      <3> QED BY <3>5, <2>5, <1>1 DEF B
    <2>8. RoadFits(d)'
      <3>1. LateOf(d)' = LateOf(d)  BY <1>5 DEF SameWire
      <3>2. AllFit(lex'[d], wire', d, LateOf(d)')  BY <3>1, <1>1, <1>4 DEF RoadFits
      <3> QED BY <3>1, <3>2, <2>7, <1>1, <1>4 DEF RoadFits
    <2>9. Keeps(lex[d], lex'[d], c) /\ lex'[d] \in EwMaybe  BY <2>1, <2>3, <1>1
    <2>10. UNCHANGED <<pend, flush, vec, journal>>  BY <1>1
    <2> QED BY <1>4, <2>6, <2>8, <2>9, <2>10, FurtherOn
  <1> QED BY <1>8, <1>9

--------------------------------------------------------------------------------
(***************************************************************************)
(* The embed thread takes a job.                                           *)
(***************************************************************************)
\* Of the first job, and what is left of the road behind it.
LEMMA RoadShrinks ==
  ASSUME EwShape, NEW d, RoadFits(d), jobs # <<>>, jobs' = Tail(jobs), UNCHANGED <<lex, wire, late>>
  PROVE  /\ RoadFits(d)'
         /\ Head(jobs).doc # d => OnRoad(d)' = OnRoad(d)
         /\ Head(jobs).doc = d => /\ OnRoad(d) = OnRoad(d)' \cup {Head(jobs)}
                                  /\ Fits(lex[d], Head(jobs), OnRoad(d)')
  <1> DEFINE c == Head(jobs)
  <1>1. jobs \in Seq(EwJob)  BY DEF EwShape, RoadTyped
  <1>2. About(jobs, d) = About(Tail(jobs), d) \cup IF c.doc = d THEN {c} ELSE {}  BY <1>1, AboutTail
  <1>3. AllFit(lex[d], jobs, d, OnWire(d))  BY DEF RoadFits
  <1>4. AllFit(lex[d], Tail(jobs), d, OnWire(d))
        /\ (c.doc = d => Fits(lex[d], c, About(Tail(jobs), d) \cup OnWire(d)))
    BY <1>1, <1>3, FitTail
  <1>5. SameWire(d)  BY UnchangedIsSame
  <1>6. OnWire(d)' = OnWire(d) /\ LateOf(d)' = LateOf(d)  BY <1>5 DEF OnWire, SameWire
  <1>7. OnRoad(d)' = About(Tail(jobs), d) \cup OnWire(d)  BY <1>6 DEF OnRoad
  <1> HIDE DEF c
  <1>8. RoadFits(d)'
    <2>1. AllFit(lex'[d], wire', d, LateOf(d)')  BY <1>6 DEF RoadFits
    <2>2. AllFit(lex'[d], jobs', d, OnWire(d)')  BY <1>4, <1>6
    <2> QED BY <2>1, <2>2, <1>6 DEF RoadFits
  <1>9. c.doc # d => OnRoad(d)' = OnRoad(d)  BY <1>2, <1>7 DEF OnRoad
  <1>10. c.doc = d => OnRoad(d) = OnRoad(d)' \cup {c} /\ Fits(lex[d], c, OnRoad(d)')
    <2> SUFFICES ASSUME c.doc = d PROVE OnRoad(d) = OnRoad(d)' \cup {c} /\ Fits(lex[d], c, OnRoad(d)')
      OBVIOUS
    <2>1. OnRoad(d) = OnRoad(d)' \cup {c}  BY <1>2, <1>7 DEF OnRoad
    <2>2. Fits(lex[d], c, OnRoad(d)')  BY <1>4, <1>7
    <2> QED BY <2>1, <2>2
  <1> QED BY <1>8, <1>9, <1>10 DEF c

\* A job about another document leaves what is held back of this one.
LEMMA TakenElsewhere ==
  ASSUME EwShape, NEW job \in EwJob, Taken(job, pend'), NEW d, d # job.doc
  PROVE  SamePend(d)
  <1>0. DOMAIN pend = {"text", "image", "deletes"}  BY DEF EwShape, PendTyped
  <1>1. CASE pend' = [pend EXCEPT !["deletes"] = pend["deletes"] \cup {job.doc}]
    <2>1. \A c \in EwVectors : pend'[c] = pend[c]  BY <1>1 DEF EwVectors
    <2>2. pend'["deletes"] = pend["deletes"] \cup {job.doc}  BY <1>0, <1>1
    <2>3. \A c \in EwVectors : About(pend[c], d)' = About(pend[c], d)  BY <2>1 DEF About, AboutAfter
    <2>4. d \in pend'["deletes"] <=> d \in pend["deletes"]  BY <2>2
    <2> QED BY <2>1, <2>3, <2>4 DEF SamePend
  <1>2. CASE pend' = pend  BY <1>2, UnchangedIsSame
  <1>3. CASE /\ job.row.ch \in EwVectors
             /\ pend' = [pend EXCEPT ![job.row.ch] = Append(pend[job.row.ch], job)]
    <2> DEFINE o == job.row.ch
               s == Append(pend[o], job)
    <2>1. o \in EwVectors /\ pend' = [pend EXCEPT ![o] = s] /\ pend[o] \in Seq(EwJob)
      BY <1>3, PendOf DEF EwShape
    <2>2. About(s, d) = About(pend[o], d) \cup IF job.doc = d THEN {job} ELSE {}
      <3> HIDE DEF o
      <3> QED BY <2>1, AllAppend
    <2>3. \A L, B : AllFit(L, pend[o], d, B) <=> AllFit(L, s, d, B)
      <3> HIDE DEF o
      <3> QED BY <2>1, FitAppend
    <2> HIDE DEF o, s
    <2>4. pend'[o] = s /\ (\A c \in EwVectors : c # o => pend'[c] = pend[c]) /\ pend'["deletes"] = pend["deletes"]
      BY <2>1, <1>0 DEF EwVectors
    <2>5. ASSUME NEW c \in EwVectors
          PROVE  /\ About(pend'[c], d) = About(pend[c], d)
                 /\ \A L, B : AllFit(L, pend[c], d, B) => AllFit(L, pend'[c], d, B)
      <3>1. CASE c = o  BY <3>1, <2>2, <2>3, <2>4
      <3>2. CASE c # o  BY <3>2, <2>4
      <3> QED BY <3>1, <3>2
    <2> QED BY <2>4, <2>5 DEF SamePend
  <1> QED BY <1>1, <1>2, <1>3 DEF Taken

\* The facts the three cases share.
LEMMA TakeDoc ==
  ASSUME EwShape, TakeJob, NEW d \in EwDocs, DocFits(d)
  PROVE  /\ RoadFits(d)' /\ BatchFits(d)' /\ SameStore(d) /\ lex'[d] = lex[d]
         /\ ~Forgetting(d) /\ ~Forgetting(d)'
         /\ flush'.at # "record"
         /\ Head(jobs).doc # d => OnRoad(d)' = OnRoad(d)
         /\ Head(jobs).doc = d => /\ OnRoad(d) = OnRoad(d)' \cup {Head(jobs)}
                                  /\ Fits(lex[d], Head(jobs), OnRoad(d)')
  <1>1. /\ flush.at = "idle" /\ jobs # <<>> /\ jobs' = Tail(jobs)
        /\ flush' \in {EwIdle, [EwIdle EXCEPT !.at = "text"]}
        /\ UNCHANGED <<lex, wire, late, vec, journal>>
    BY TakeIs
  <1>2. flush'.at # "record" /\ flush'.at # "forget"  BY <1>1, IdleFields
  <1>3. BatchFits(d)'  BY <1>2, NoBatchFits
  <1>4. SameStore(d)  BY <1>1, UnchangedIsSame
  <1>5. ~Forgetting(d) /\ ~Forgetting(d)'  BY <1>1, <1>2 DEF Forgetting
  <1>6. RoadFits(d)  BY DEF DocFits
  <1>7. /\ RoadFits(d)'
        /\ Head(jobs).doc # d => OnRoad(d)' = OnRoad(d)
        /\ Head(jobs).doc = d => /\ OnRoad(d) = OnRoad(d)' \cup {Head(jobs)}
                                 /\ Fits(lex[d], Head(jobs), OnRoad(d)')
    BY <1>1, <1>6, RoadShrinks
  <1> QED BY <1>1, <1>2, <1>3, <1>4, <1>5, <1>7

\* A deletion goes from the queue to what is held back.
LEMMA TakeDeletion ==
  ASSUME EwShape, TakeJob, NEW d \in EwDocs, DocFits(d), Head(jobs).doc = d, Head(jobs).op = "delete",
         pend' = [pend EXCEPT !["deletes"] = pend["deletes"] \cup {d}]
  PROVE  DocFits(d)'
  <1> DEFINE c == Head(jobs)
  <1>1. /\ RoadFits(d)' /\ BatchFits(d)' /\ SameStore(d) /\ lex'[d] = lex[d]
        /\ ~Forgetting(d) /\ OnRoad(d) = OnRoad(d)' \cup {c} /\ Fits(lex[d], c, OnRoad(d)')
    BY TakeDoc
  <1>2. c = EmbedDelete(d)  BY TakeIs, JobFields, DeleteIsJob
  <1>3. c.op = "delete"  OBVIOUS
  <1> HIDE DEF c
  <1>4. pend'["deletes"] = pend["deletes"] \cup {d} /\ \A o \in EwVectors : pend'[o] = pend[o]
    BY DEF EwShape, PendTyped, EwVectors
  <1>5. Ahead(d)' = Ahead(d)
    <2>1. Deleting(d)' = {c} /\ Deleting(d) \subseteq {c}  BY <1>2, <1>4 DEF Deleting
    <2> QED BY <2>1, <1>1 DEF Ahead
  <1>6. \A o \in EwVectors : About(pend[o], d)' = About(pend[o], d)  BY <1>4 DEF About, AboutAfter
  <1>7. PendFits(d)'
    <2>1. \A o \in EwVectors : AllFit(lex'[d], pend'[o], d, Ahead(d)')
      BY <1>1, <1>4, <1>5 DEF DocFits, PendFits
    <2>2. OnRoad(d)' = {} => lex'[d] = EwNone  BY <1>1, <1>3 DEF Fits, LastSays
    <2> QED BY <2>1, <2>2 DEF PendFits
  <1>8. StoreFits(d)'
    <2>1. Ahead(d)' # {}  BY <1>1, <1>5 DEF Ahead
    <2> QED BY <2>1 DEF StoreFits, NothingAhead
  <1>9. JournalFits(d)'
    <2> SUFFICES ASSUME NEW o \in EwVectors, journal'[d][o] # EwNone, NoDeletion(Ahead(d)')
                 PROVE  FALSE
      BY DEF JournalFits
    <2>1. c \in Ahead(d)'  BY <1>1, <1>5 DEF Ahead
    <2> QED BY <2>1, <1>3 DEF NoDeletion
  <1> QED BY <1>1, <1>7, <1>8, <1>9 DEF DocFits

\* An embedding leaves the road: what is held back for a channel still fits
\* when, with nothing else on the road, it says what the index says.
LEMMA EmbedGone ==
  ASSUME NEW L \in EwMaybe, NEW c, c.op = "embed", NEW R, NEW s, NEW d, AllFit(L, s, d, R \cup {c}),
         R = {} => \A i \in DOMAIN s : s[i].doc = d /\ L # EwNone /\ s[i].row.ch = L.ch => LastSays(L, s[i]),
         \A i \in DOMAIN s : s[i].op = "embed"
  PROVE  AllFit(L, s, d, R)
  <1> SUFFICES ASSUME NEW i \in DOMAIN s, s[i].doc = d PROVE Fits(L, s[i], AboutAfter(s, i, d) \cup R)
    BY DEF AllFit
  <1> DEFINE A == AboutAfter(s, i, d)
             x == s[i]
  <1>1. Fits(L, x, A \cup (R \cup {c}))  BY DEF AllFit
  <1>2. x.op = "embed"  OBVIOUS
  <1>3. R = {} /\ L # EwNone /\ x.row.ch = L.ch => LastSays(L, x)  OBVIOUS
  <1> HIDE DEF A, x
  <1>4. ASSUME NoDeletion(A \cup R) PROVE SameLife(L, x, A \cup R) /\ L # EwNone /\ x.row.ch = L.ch
    <2>1. NoDeletion(A \cup (R \cup {c}))  BY <1>4 DEF NoDeletion
    <2>2. SameLife(L, x, A \cup (R \cup {c}))  BY <2>1, <1>1, <1>2 DEF Fits
    <2> QED BY <2>2 DEF SameLife
  <1>5. A \cup R = {} => LastSays(L, x)
    <2>1. A \cup R = {} => NoDeletion(A \cup R) /\ R = {}  BY DEF NoDeletion
    <2> QED BY <2>1, <1>3, <1>4
  <1>6. Fits(L, x, A \cup R)  BY <1>4, <1>5 DEF Fits
  <1> QED BY <1>6 DEF A, x

\* What is held back for a channel, one command at a time.
LEMMA HeldFields ==
  ASSUME EwShape, NEW o \in EwVectors
  PROVE  \A i \in DOMAIN pend[o] : /\ pend[o][i] \in EwUpsert /\ pend[o][i].op = "embed"
                                   /\ pend[o][i].row \in EwRow /\ pend[o][i].row.ch = o
  <1>1. pend[o] \in Seq(EwOfChannel(o))  BY PendOf DEF EwShape
  <1>2. \A i \in DOMAIN pend[o] : pend[o][i] \in EwOfChannel(o)  BY <1>1, ElementOfSeq
  <1> QED BY <1>2, UpsertFields DEF EwOfChannel

\* A job is passed over: its document is not wanted, or the journal has it.
LEMMA TakeSkipped ==
  ASSUME EwShape, TakeJob, NEW d \in EwDocs, DocFits(d), Head(jobs).doc = d, Head(jobs).op = "embed",
         d \notin pend["deletes"], UNCHANGED pend,
         Head(jobs).row.ch \notin EwVectors \/ is_current(d, Head(jobs).row)
  PROVE  DocFits(d)'
  <1> DEFINE c == Head(jobs)
             L == lex[d]
             R == OnRoad(d)'
  <1>1. /\ RoadFits(d)' /\ BatchFits(d)' /\ SameStore(d) /\ lex'[d] = L
        /\ ~Forgetting(d) /\ OnRoad(d) = R \cup {c} /\ Fits(L, c, R)
    BY TakeDoc
  <1>2. c.row \in EwRow /\ c.op = "embed" /\ (c.row.ch \notin EwVectors \/ is_current(d, c.row))
    BY TakeIs, JobFields
  <1>3. L \in EwMaybe  BY DEF EwShape, LexTyped, EwMaybe
  <1>4. Ahead(d) = R \cup {c} /\ Ahead(d)' = R
    BY <1>1 DEF Ahead, Deleting
  <1>5. SamePend(d)  BY UnchangedIsSame
  <1> HIDE DEF c, L, R
  \* With nothing else on the road the command says what the index says, and
  \* so does what the journal and the store have.
  <1>6. ASSUME R = {}
        PROVE  /\ L # EwNone /\ c.row.ch = L.ch
               /\ c.row.ch \in EwVectors =>
                     /\ vec[d][L.ch] # EwNone /\ vec[d][L.ch].ver = L.ver
                     /\ \A b \in About(pend[L.ch], d) : Says(L, b)
    <2>1. LastSays(L, c)  BY <1>1, <1>6 DEF Fits
    <2>2. L # EwNone /\ c.row.ch = L.ch /\ Says(L, c)  BY <2>1, <1>2 DEF LastSays
    <2> SUFFICES ASSUME c.row.ch \in EwVectors
                 PROVE  /\ vec[d][L.ch] # EwNone /\ vec[d][L.ch].ver = L.ver
                        /\ \A b \in About(pend[L.ch], d) : Says(L, b)
      BY <2>2
    <2>3. c.row.mt # 0 /\ journal[d][L.ch] = Row(c.row.mt, 0, L.ch)  BY <1>2, <2>2 DEF is_current
    <2>4. c.row.mt = L.mt  BY <2>2, <2>3 DEF Says
    <2>5. c.row.mt \in Nat /\ c.row.ch \in EwChannels  BY <1>2, RowFields
    <2>6. journal[d][L.ch] # EwNone /\ journal[d][L.ch].mt = L.mt
      <3>1. 0 \in Nat  OBVIOUS
      <3> QED BY <2>2, <2>3, <2>4, <2>5, <3>1, RowIsRow
    <2>7. NoDeletion(Ahead(d))  BY <1>2, <1>4, <1>6 DEF NoDeletion
    <2> QED BY <1>1, <2>2, <2>6, <2>7 DEF DocFits, JournalFits, L
  <1>7. PendFits(d)'
    <2>1. ASSUME NEW o \in EwVectors PROVE AllFit(L, pend[o], d, R)
      <3>1. AllFit(L, pend[o], d, R \cup {c})  BY <1>4 DEF DocFits, PendFits, L
      <3>2. ASSUME R = {}, NEW i \in DOMAIN pend[o], pend[o][i].doc = d, L # EwNone, pend[o][i].row.ch = L.ch
            PROVE  LastSays(L, pend[o][i])
        <4>1. pend[o][i].row.ch = o /\ pend[o][i].op = "embed"  BY HeldFields
        <4>2. pend[o][i] \in About(pend[o], d)
          <5>1. pend[o] \in Seq(EwJob)  BY PendOf DEF EwShape
          <5>2. i > 0  BY <5>1
          <5> QED BY <5>2, <3>2 DEF About, AboutAfter
        <4>3. Says(L, pend[o][i])  BY <1>6, <3>2, <4>1, <4>2
        <4> QED BY <4>1, <4>3, <3>2 DEF LastSays
      <3>3. \A i \in DOMAIN pend[o] : pend[o][i].op = "embed"  BY HeldFields
      <3>4. R = {} => \A i \in DOMAIN pend[o] :
                pend[o][i].doc = d /\ L # EwNone /\ pend[o][i].row.ch = L.ch => LastSays(L, pend[o][i])
        BY <3>2
      <3> DEFINE s == pend[o]
      <3>5. /\ AllFit(L, s, d, R \cup {c}) /\ \A i \in DOMAIN s : s[i].op = "embed"
            /\ R = {} => \A i \in DOMAIN s : s[i].doc = d /\ L # EwNone /\ s[i].row.ch = L.ch => LastSays(L, s[i])
        BY <3>1, <3>3, <3>4
      <3> HIDE DEF s
      <3>6. AllFit(L, s, d, R)  BY <3>5, <1>2, <1>3, EmbedGone
      <3> QED BY <3>6 DEF s
    <2> QED BY <2>1, <1>1, <1>4 DEF PendFits
  <1>8. StoreFits(d)'
    <2> SUFFICES ASSUME NothingAhead(d)'
                 PROVE  lex'[d] # EwNone /\ (lex'[d].ch # "skip" =>
                           vec'[d][lex'[d].ch] # EwNone /\ vec'[d][lex'[d].ch].ver = lex'[d].ver)
      BY DEF StoreFits
    <2>1. R = {}  BY <1>4 DEF NothingAhead
    <2>2. L # EwNone /\ c.row.ch = L.ch  BY <1>6, <2>1
    <2>3. c.row.ch \in EwVectors \/ c.row.ch = "skip"  BY <1>2, RowFields DEF EwChannels
    <2>4. vec'[d] = vec[d]  BY <1>1 DEF SameStore
    <2> QED BY <2>1, <2>2, <2>3, <2>4, <1>1, <1>6
  <1>9. JournalFits(d)'
    <2> SUFFICES ASSUME NEW o \in EwVectors, journal'[d][o] # EwNone, NoDeletion(Ahead(d)')
                 PROVE  /\ lex'[d] # EwNone /\ journal'[d][o].mt <= lex'[d].mt
                        /\ journal'[d][o].mt = lex'[d].mt =>
                              /\ vec'[d][o] # EwNone /\ vec'[d][o].ver = lex'[d].ver
                              /\ \A b \in About(pend[o], d)' \cup Ahead(d)' : Says(lex'[d], b)
      BY DEF JournalFits
    <2>1. NoDeletion(Ahead(d))  BY <1>2, <1>4 DEF NoDeletion
    <2>2. vec'[d] = vec[d] /\ journal'[d] = journal[d]  BY <1>1 DEF SameStore
    <2>3. /\ L # EwNone /\ journal[d][o].mt <= L.mt
          /\ journal[d][o].mt = L.mt =>
                /\ vec[d][o] # EwNone /\ vec[d][o].ver = L.ver
                /\ \A b \in About(pend[o], d) \cup Ahead(d) : Says(L, b)
      BY <1>1, <2>1, <2>2 DEF DocFits, JournalFits, L
    <2>4. About(pend[o], d)' = About(pend[o], d)  BY <1>5 DEF SamePend
    <2> QED BY <1>1, <1>4, <2>2, <2>3, <2>4
  <1> QED BY <1>1, <1>7, <1>8, <1>9 DEF DocFits

\* An upsert goes from the queue to what is held back for its channel.
LEMMA TakeHeld ==
  ASSUME EwShape, TakeJob, NEW d \in EwDocs, DocFits(d), Head(jobs).doc = d, Head(jobs).op = "embed",
         d \notin pend["deletes"], NEW h \in EwVectors, Head(jobs).row.ch = h,
         pend' = [pend EXCEPT ![h] = Append(pend[h], Head(jobs))]
  PROVE  DocFits(d)'
  <1> DEFINE c == Head(jobs)
             L == lex[d]
             R == OnRoad(d)'
  <1>1. /\ RoadFits(d)' /\ BatchFits(d)' /\ SameStore(d) /\ lex'[d] = L
        /\ ~Forgetting(d) /\ OnRoad(d) = R \cup {c} /\ Fits(L, c, R)
    BY TakeDoc
  <1>2. c \in EwJob /\ c.row \in EwRow /\ c.op = "embed" /\ c.doc = d /\ c.row.ch = h
    BY TakeIs, JobFields
  <1>3. L \in EwMaybe  BY DEF EwShape, LexTyped, EwMaybe
  <1>4. pend' = [pend EXCEPT ![h] = Append(pend[h], c)]  OBVIOUS
  <1> HIDE DEF c, L
  <1>5. /\ pend'[h] = Append(pend[h], c) /\ pend'["deletes"] = pend["deletes"]
        /\ \A o \in EwVectors : o # h => pend'[o] = pend[o]
    BY <1>4 DEF EwShape, PendTyped, EwVectors
  <1>6. Ahead(d) = R \cup {c} /\ Ahead(d)' = R  BY <1>1, <1>5 DEF Ahead, Deleting
  <1> HIDE DEF R
  <1>7. pend[h] \in Seq(EwJob)  BY PendOf DEF EwShape
  <1>8. About(pend'[h], d) = About(pend[h], d) \cup {c}
    <2>1. About(Append(pend[h], c), d) = About(pend[h], d) \cup IF c.doc = d THEN {c} ELSE {}
      BY <1>2, <1>7, AllAppend
    <2> QED BY <2>1, <1>2, <1>5
  <1>9. PendFits(d)'
    <2>1. AllFit(L, pend'[h], d, R)
      <3>1. AllFit(L, pend[h], d, R \cup {c})  BY <1>6 DEF DocFits, PendFits, L
      <3>2. R \cup {c} = {c} \cup R  OBVIOUS
      <3>3. AllFit(L, pend[h], d, {c} \cup R)  BY <3>1, <3>2
      <3>4. AllFit(L, Append(pend[h], c), d, R)  BY <3>3, <1>1, <1>2, <1>7, FitAppend
      <3> QED BY <3>4, <1>5
    <2>2. ASSUME NEW o \in EwVectors, o # h PROVE AllFit(L, pend'[o], d, R)
      <3> DEFINE s == pend[o]
      <3>1. AllFit(L, s, d, R \cup {c})  BY <1>6 DEF DocFits, PendFits, L
      <3>2. \A i \in DOMAIN s : s[i].op = "embed" /\ s[i].row.ch = o  BY HeldFields
      <3>3. R = {} => L.ch = h
        <4>1. R = {} => LastSays(L, c)  BY <1>1 DEF Fits
        <4> QED BY <4>1, <1>2 DEF LastSays
      <3> HIDE DEF s
      <3>4. R = {} => \A i \in DOMAIN s : s[i].doc = d /\ L # EwNone /\ s[i].row.ch = L.ch => LastSays(L, s[i])
        BY <3>2, <3>3, <2>2
      <3>5. AllFit(L, s, d, R)  BY <3>1, <3>2, <3>4, <1>2, <1>3, EmbedGone
      <3> QED BY <3>5, <2>2, <1>5 DEF s
    <2>3. \A o \in EwVectors : AllFit(lex'[d], pend'[o], d, Ahead(d)')  BY <2>1, <2>2, <1>1, <1>6
    <2>4. d \notin pend'["deletes"]  BY <1>5
    <2> QED BY <2>3, <2>4 DEF PendFits
  <1>10. StoreFits(d)'
    <2>1. ~NothingAhead(d)'
      <3>1. About(pend'[h], d) # {} /\ (h = "text" \/ h = "image")  BY <1>8 DEF EwVectors
      <3>2. CASE h = "text"  BY <3>1, <3>2 DEF NothingAhead
      <3>3. CASE h = "image"  BY <3>1, <3>3 DEF NothingAhead
      <3> QED BY <3>1, <3>2, <3>3
    <2> QED BY <2>1 DEF StoreFits
  <1>11. JournalFits(d)'
    <2> SUFFICES ASSUME NEW o \in EwVectors, journal'[d][o] # EwNone, NoDeletion(Ahead(d)')
                 PROVE  /\ lex'[d] # EwNone /\ journal'[d][o].mt <= lex'[d].mt
                        /\ journal'[d][o].mt = lex'[d].mt =>
                              /\ vec'[d][o] # EwNone /\ vec'[d][o].ver = lex'[d].ver
                              /\ \A b \in About(pend'[o], d) \cup Ahead(d)' : Says(lex'[d], b)
      BY DEF JournalFits
    <2>1. NoDeletion(Ahead(d))  BY <1>2, <1>6 DEF NoDeletion
    <2>2. vec'[d] = vec[d] /\ journal'[d] = journal[d]  BY <1>1 DEF SameStore
    <2>3. /\ L # EwNone /\ journal[d][o].mt <= L.mt
          /\ journal[d][o].mt = L.mt =>
                /\ vec[d][o] # EwNone /\ vec[d][o].ver = L.ver
                /\ \A b \in About(pend[o], d) \cup Ahead(d) : Says(L, b)
      BY <1>1, <2>1, <2>2 DEF DocFits, JournalFits, L
    <2>4. About(pend'[o], d) \subseteq About(pend[o], d) \cup {c}
      <3>1. CASE o = h  BY <3>1, <1>8
      <3>2. CASE o # h  BY <3>2, <1>5
      <3> QED BY <3>1, <3>2
    <2> QED BY <1>1, <1>6, <2>2, <2>3, <2>4
  <1> QED BY <1>1, <1>9, <1>10, <1>11 DEF DocFits

LEMMA TakeFits == ASSUME EwShape, DocsFit, TakeJob PROVE DocsFit'
  <1> DEFINE c == Head(jobs)
  <1>1. /\ c \in EwJob /\ Taken(c, pend')
        /\ excused' = IF c.op = "embed" /\ c.doc \in pend["deletes"] THEN excused \cup {c.doc} ELSE excused
        /\ UNCHANGED <<lex, vec, journal, torn>>
    BY TakeIs
  <1> SUFFICES ASSUME NEW d \in EwDocs, d \notin excused', d \notin torn PROVE DocFits(d)'
    BY <1>1 DEF DocsFit
  <1>2. DocFits(d)  BY <1>1 DEF DocsFit
  <1>3. CASE c.doc # d
    <2>1. SamePend(d)  BY <1>1, <1>3, TakenElsewhere
    <2>2. /\ RoadFits(d)' /\ SameStore(d) /\ lex'[d] = lex[d] /\ ~Forgetting(d)
          /\ flush'.at # "record" /\ OnRoad(d)' = OnRoad(d)
      BY <1>2, <1>3, TakeDoc
    <2> QED BY <1>2, <2>1, <2>2, ViewKept
  <1>4. CASE c.doc = d
    <2>1. c.op = "embed" => d \notin pend["deletes"]  BY <1>1, <1>4
    <2>2. CASE c.op = "delete" /\ pend' = [pend EXCEPT !["deletes"] = pend["deletes"] \cup {c.doc}]
      BY <1>2, <1>4, <2>2, TakeDeletion
    <2>3. CASE c.op = "embed" /\ pend' = pend /\ (c.row.ch \notin EwVectors \/ is_current(c.doc, c.row))
      BY <1>2, <1>4, <2>1, <2>3, TakeSkipped
    <2>4. CASE c.op = "embed" /\ c.row.ch \in EwVectors
               /\ pend' = [pend EXCEPT ![c.row.ch] = Append(pend[c.row.ch], c)]
      BY <1>2, <1>4, <2>1, <2>4, TakeHeld
    <2> HIDE DEF c
    <2> QED BY <1>1, <2>2, <2>3, <2>4 DEF Taken
  <1> QED BY <1>3, <1>4

--------------------------------------------------------------------------------
(***************************************************************************)
(* A flush, seen from one document.                                        *)
(***************************************************************************)
\* A step of the embed thread that only moves on.
LEMMA MovesOn ==
  ASSUME NEW d, DocFits(d), UNCHANGED <<lex, wire, late, jobs>>, SamePend(d), SameStore(d),
         flush' = flush \/ flush'.at # "record", Forgetting(d) => Forgetting(d)'
  PROVE  DocFits(d)'
  <1>1. SameWire(d) /\ SameJobs(d)  BY UnchangedIsSame
  <1> QED BY <1>1, NotConcerned

LEMMA PeriodFits == ASSUME EwShape, DocsFit, FlushPeriod PROVE DocsFit'
  <1>1. /\ flush = EwIdle /\ flush' = [EwIdle EXCEPT !.at = "text"]
        /\ UNCHANGED <<lex, wire, late, jobs, pend, vec, journal, excused, torn>>
    BY DEF FlushPeriod
  <1>2. flush.at # "forget" /\ flush'.at # "record"  BY <1>1, IdleFields
  <1> SUFFICES ASSUME NEW d \in EwDocs, d \notin excused, d \notin torn PROVE DocFits(d)'
    BY <1>1 DEF DocsFit
  <1>3. DocFits(d)  BY DEF DocsFit
  <1>4. SamePend(d) /\ SameStore(d)  BY <1>1, UnchangedIsSame
  <1>5. ~Forgetting(d)  BY <1>2 DEF Forgetting
  <1> QED BY <1>1, <1>2, <1>3, <1>4, <1>5, MovesOn

\* Nothing was held back of the document.
LEMMA HeldElsewhere ==
  ASSUME EwShape, NEW c \in EwVectors, pend' = [pend EXCEPT ![c] = <<>>], NEW d, About(pend[c], d) = {}
  PROVE  SamePend(d)
  <1>1. /\ pend'[c] = <<>> /\ pend'["deletes"] = pend["deletes"]
        /\ \A o \in EwVectors : o # c => pend'[o] = pend[o]
    BY HeldTyped DEF EwShape
  <1>2. ASSUME NEW o \in EwVectors
        PROVE  /\ About(pend'[o], d) = About(pend[o], d)
               /\ \A L, B : AllFit(L, pend[o], d, B) => AllFit(L, pend'[o], d, B)
    <2>1. CASE o = c  BY <2>1, <1>1, NothingAbout
    <2>2. CASE o # c  BY <2>2, <1>1
    <2> QED BY <2>1, <2>2
  <1> QED BY <1>1, <1>2 DEF SamePend

\* The batch that is stored has the last command about the document.
LEMMA StoredFits ==
  ASSUME EwShape, NEW c \in EwVectors, FlushStore(c), Stored(c), NEW d \in EwDocs, DocFits(d),
         About(pend[c], d) # {}
  PROVE  DocFits(d)'
  <1> DEFINE x == LastOf(pend[c], d)
             L == lex[d]
             b == dedup_by_doc_id(pend[c])
  <1>1. /\ flush.at = c /\ pend' = [pend EXCEPT ![c] = <<>>]
        /\ UNCHANGED <<lex, wire, late, jobs, journal>>
    BY FlushStoreIs
  <1>2. /\ vec' = [o \in EwDocs |-> IF About(pend[c], o) # {}
                                    THEN [vec[o] EXCEPT ![c] = LastOf(pend[c], o).row] ELSE vec[o]]
        /\ flush' = [at |-> "record", batch |-> b]
    BY DEF Stored
  <1>3. vec'[d] = [vec[d] EXCEPT ![c] = x.row] /\ vec[d] \in [EwVectors -> EwRow \cup {EwNone}]
    BY <1>2 DEF EwShape, StoreTyped
  <1>4. /\ x \in EwUpsert /\ x.row \in EwRow /\ x.row.ch = c /\ x.doc = d
        /\ \E i \in DOMAIN pend[c] : pend[c][i] = x /\ AboutAfter(pend[c], i, d) = {}
    BY LastHeld DEF EwShape
  <1>5. x.op = "embed" /\ x.row # EwNone  BY <1>4, UpsertFields, RowFields
  <1>6. Fits(L, x, Ahead(d)) /\ x \in About(pend[c], d)
    <2>1. PICK i \in DOMAIN pend[c] : pend[c][i] = x /\ AboutAfter(pend[c], i, d) = {}  BY <1>4
    <2>2. AllFit(L, pend[c], d, Ahead(d))  BY DEF DocFits, PendFits
    <2>3. pend[c][i].doc = d  BY <2>1, <1>4
    <2>4. Fits(L, pend[c][i], AboutAfter(pend[c], i, d) \cup Ahead(d))  BY <2>2, <2>3 DEF AllFit
    <2>5. pend[c] \in Seq(EwJob)  BY PendOf DEF EwShape
    <2>6. i > 0  BY <2>5
    <2>7. x \in About(pend[c], d)  BY <2>1, <2>3, <2>6 DEF About, AboutAfter
    <2> QED BY <2>1, <2>4, <2>7
  <1>7. \A i \in DOMAIN b : b[i].doc = d => b[i] = x
    <2>1. pend[c] \in Seq(EwUpsert)  BY PendOf DEF EwShape
    <2> QED BY <2>1, DedupOnce
  <1>8. flush'.at = "record" /\ flush'.batch = b  BY <1>2
  <1> HIDE DEF x, L, b
  <1>9. /\ pend'[c] = <<>> /\ pend'["deletes"] = pend["deletes"]
        /\ \A o \in EwVectors : o # c => pend'[o] = pend[o]
    BY <1>1, HeldTyped DEF EwShape
  <1>10. RoadFits(d)' /\ OnRoad(d)' = OnRoad(d)
    <2>1. SameWire(d) /\ SameJobs(d)  BY <1>1, UnchangedIsSame
    <2> QED BY <2>1, <1>1, RoadKept DEF DocFits
  <1>11. Ahead(d)' = Ahead(d)  BY <1>9, <1>10 DEF Ahead, Deleting
  <1>12. lex'[d] = L /\ journal'[d] = journal[d] /\ ~Forgetting(d)
    BY <1>1 DEF L, Forgetting, EwVectors
  <1>13. vec'[d][c] = x.row /\ \A o \in EwVectors : o # c => vec'[d][o] = vec[d][o]
    BY <1>3
  <1>14. PendFits(d)'
    <2>1. \A o \in EwVectors : AllFit(L, pend'[o], d, Ahead(d))
      <3> TAKE o \in EwVectors
      <3>1. CASE o = c  BY <3>1, <1>9, NothingAbout
      <3>2. CASE o # c  BY <3>2, <1>9 DEF DocFits, PendFits, L
      <3> QED BY <3>1, <3>2
    <2>2. d \in pend'["deletes"] /\ OnRoad(d)' = {} => lex'[d] = EwNone
      BY <1>9, <1>10, <1>12 DEF DocFits, PendFits, L
    <2> QED BY <2>1, <2>2, <1>11, <1>12 DEF PendFits
  <1>15. BatchFits(d)'
    <2> SUFFICES ASSUME NEW i \in DOMAIN b, b[i].doc = d, NoDeletion(Ahead(d)')
                 PROVE  SameLife(lex'[d], b[i], Ahead(d)')
      BY <1>8 DEF BatchFits
    <2>1. SameLife(L, x, Ahead(d))  BY <1>5, <1>6, <1>11 DEF Fits
    <2> QED BY <2>1, <1>7, <1>11, <1>12
  <1>16. StoreFits(d)'
    <2> SUFFICES ASSUME NothingAhead(d)'
                 PROVE  lex'[d] # EwNone /\ (lex'[d].ch # "skip" =>
                           vec'[d][lex'[d].ch] # EwNone /\ vec'[d][lex'[d].ch].ver = lex'[d].ver)
      BY DEF StoreFits
    <2>1. Ahead(d) = {}  BY <1>11 DEF NothingAhead
    <2>2. LastSays(L, x)  BY <2>1, <1>6 DEF Fits
    <2>3. L # EwNone /\ L.ch = c /\ x.row.ver = L.ver  BY <2>2, <1>4, <1>5 DEF LastSays, Says
    <2> QED BY <2>3, <1>5, <1>12, <1>13
  <1>17. JournalFits(d)'
    <2> SUFFICES ASSUME NEW o \in EwVectors, journal'[d][o] # EwNone, NoDeletion(Ahead(d)')
                 PROVE  /\ lex'[d] # EwNone /\ journal'[d][o].mt <= lex'[d].mt
                        /\ journal'[d][o].mt = lex'[d].mt =>
                              /\ vec'[d][o] # EwNone /\ vec'[d][o].ver = lex'[d].ver
                              /\ \A y \in About(pend'[o], d) \cup Ahead(d)' : Says(lex'[d], y)
      BY DEF JournalFits
    <2>1. /\ L # EwNone /\ journal[d][o].mt <= L.mt
          /\ journal[d][o].mt = L.mt =>
                /\ vec[d][o] # EwNone /\ vec[d][o].ver = L.ver
                /\ \A y \in About(pend[o], d) \cup Ahead(d) : Says(L, y)
      BY <1>11, <1>12 DEF DocFits, JournalFits, L
    <2>2. CASE o # c  BY <2>1, <2>2, <1>9, <1>11, <1>12, <1>13
    <2>3. CASE o = c
      <3>1. About(pend'[o], d) = {}  BY <2>3, <1>9, NothingAbout
      <3>2. journal[d][o].mt = L.mt => vec'[d][o] # EwNone /\ vec'[d][o].ver = L.ver
        BY <2>1, <2>3, <1>5, <1>6, <1>13 DEF Says
      <3> QED BY <2>1, <3>1, <3>2, <1>11, <1>12
    <2> QED BY <2>2, <2>3
  <1> QED BY <1>10, <1>14, <1>15, <1>16, <1>17 DEF DocFits

LEMMA FlushFits == ASSUME EwShape, DocsFit, NEW c \in EwVectors, FlushStore(c) PROVE DocsFit'
  <1>1. /\ flush.at = c /\ pend' = [pend EXCEPT ![c] = <<>>]
        /\ UNCHANGED <<lex, wire, late, jobs, journal, torn>>
    BY FlushStoreIs
  <1>2. Stored(c) \/ NoBatch(c) \/ Dropped(c)  BY FlushStoreIs
  <1>3. excused \subseteq excused'  BY <1>2 DEF Stored, NoBatch, Dropped
  <1> SUFFICES ASSUME NEW d \in EwDocs, d \notin excused', d \notin torn PROVE DocFits(d)'
    BY <1>1 DEF DocsFit
  <1>4. DocFits(d) /\ ~Forgetting(d)  BY <1>1, <1>3 DEF DocsFit, Forgetting, EwVectors
  <1>5. ASSUME About(pend[c], d) = {}, vec'[d] = vec[d], BatchFits(d)' PROVE DocFits(d)'
    <2>1. SamePend(d) /\ SameStore(d)  BY <1>1, <1>5, HeldElsewhere DEF SameStore
    <2>2. SameWire(d) /\ SameJobs(d)  BY <1>1, UnchangedIsSame
    <2>3. RoadFits(d)' /\ OnRoad(d)' = OnRoad(d)  BY <2>2, <1>1, <1>4, RoadKept DEF DocFits
    <2>4. PendFits(d)'  BY <2>1, <2>3, <1>1, <1>4, PendKept DEF DocFits
    <2>5. StoreFits(d)'  BY <2>1, <2>3, <1>1, <1>4, <1>5, StoreKept DEF DocFits
    <2>6. JournalFits(d)'  BY <2>1, <2>3, <1>1, <1>4, JournalKept DEF DocFits
    <2> QED BY <2>3, <2>4, <2>5, <2>6, <1>5 DEF DocFits
  <1>6. CASE Stored(c)
    <2>1. CASE About(pend[c], d) # {}  BY <2>1, <1>4, <1>6, StoredFits
    <2>2. CASE About(pend[c], d) = {}
      <3> DEFINE b == dedup_by_doc_id(pend[c])
      <3>1. vec'[d] = vec[d]  BY <2>2, <1>6 DEF Stored
      <3>2. flush' = [at |-> "record", batch |-> b]  BY <1>6 DEF Stored
      <3>3. \A i \in DOMAIN b : b[i].doc # d
        <4>1. pend[c] \in Seq(EwUpsert)  BY PendOf DEF EwShape
        <4>2. d \notin DocsOf(Range(pend[c]))  BY <2>2, <4>1, DocsIsAbout
        <4>3. \A i \in DOMAIN b : b[i].doc \in DocsOf(Range(pend[c]))  BY <4>1, DedupOnce
        <4> QED BY <4>2, <4>3
      <3>4. flush'.batch = b  BY <3>2
      <3> HIDE DEF b
      <3>5. BatchFits(d)'  BY <3>3, <3>4 DEF BatchFits
      <3> QED BY <2>2, <3>1, <3>5, <1>5
    <2> QED BY <2>1, <2>2
  <1>7. CASE NoBatch(c) \/ Dropped(c)
    <2>1. UNCHANGED vec /\ flush'.at = After(c)  BY <1>7, IdleFields DEF NoBatch, Dropped
    <2>2. BatchFits(d)'  BY <2>1, AfterIs, NoBatchFits DEF EwVectors
    <2>3. About(pend[c], d) = {}
      <3>1. CASE NoBatch(c)  BY <3>1, NothingAbout DEF NoBatch
      <3>2. CASE Dropped(c)  BY <3>2 DEF Dropped
      <3> QED BY <3>1, <3>2, <1>7
    <2> QED BY <2>1, <2>2, <2>3, <1>5
  <1> QED BY <1>2, <1>6, <1>7

\* What the journal is told of a batch is what the batch says, and the store
\* has it.
LEMMA RecordFits == ASSUME EwShape, NotAhead, DocsFit, record PROVE DocsFit'
  <1> DEFINE c == flush.batch[1].row.ch
             b == flush.batch
  <1>1. /\ flush.at = "record" /\ c \in EwVectors
        /\ \A i \in DOMAIN b :
              /\ b[i].row \in EwRow /\ b[i].row.ch = c
              /\ journal'[b[i].doc] = [journal[b[i].doc] EXCEPT ![c] = Row(b[i].row.mt, 0, c)]
        /\ \A o \in EwDocs : (\A i \in DOMAIN b : b[i].doc # o) => journal'[o] = journal[o]
        /\ flush' = [EwIdle EXCEPT !.at = After(c)]
        /\ UNCHANGED <<lex, wire, late, jobs, pend, timed, vec, bf, excused, torn, ewCount>>
    BY RecordIs
  <1>2. pend["text"] = <<>> /\ (c = "image" => pend["image"] = <<>>)  BY <1>1 DEF EwShape, FlushTyped
  <1>3. \A i \in DOMAIN b : vec[b[i].doc][b[i].row.ch] = b[i].row  BY <1>1 DEF NotAhead, BatchInStore
  <1> SUFFICES ASSUME NEW d \in EwDocs, d \notin excused, d \notin torn PROVE DocFits(d)'
    BY <1>1 DEF DocsFit
  <1>4. DocFits(d)  BY DEF DocsFit
  <1>5. \A i \in DOMAIN b : b[i].doc = d /\ NoDeletion(Ahead(d)) => SameLife(lex[d], b[i], Ahead(d))
    BY <1>1, <1>4 DEF DocFits, BatchFits
  <1> HIDE DEF c, b
  <1>6. pend[c] = <<>>  BY <1>1, <1>2 DEF EwVectors
  <1>7. flush'.at # "record" /\ flush'.at # "forget"  BY <1>1, IdleFields, AfterIs DEF EwVectors
  <1>8. ~Forgetting(d)  BY <1>1 DEF Forgetting
  <1>9. SamePend(d) /\ SameWire(d) /\ SameJobs(d)  BY <1>1, UnchangedIsSame
  <1>10. CASE \A i \in DOMAIN b : b[i].doc # d
    <2>1. SameStore(d)  BY <1>1, <1>10 DEF SameStore
    <2> QED BY <2>1, <1>1, <1>4, <1>7, <1>8, <1>9, MovesOn
  <1>11. CASE \E i \in DOMAIN b : b[i].doc = d
    <2>1. PICK i \in DOMAIN b : b[i].doc = d  BY <1>11
    <2> DEFINE x == b[i]
    <2>2. journal[d] \in [EwVectors -> EwRow \cup {EwNone}]  BY DEF EwShape, StoreTyped
    <2> DEFINE r == Row(x.row.mt, 0, c)
    <2>3. journal'[d] = [journal[d] EXCEPT ![c] = r]  BY <2>1, <1>1
    <2>4. journal'[d][c] = r /\ \A o \in EwVectors : o # c => journal'[d][o] = journal[d][o]
      <3> HIDE DEF r
      <3> QED BY <2>2, <2>3, <1>1
    <2>5. x.row \in EwRow /\ x.row # EwNone /\ vec[d][c] = x.row  BY <2>1, <1>1, <1>3, RowFields
    <2>6. NoDeletion(Ahead(d)) => SameLife(lex[d], x, Ahead(d))  BY <2>1, <1>5
    <2> HIDE DEF x
    <2>7. Row(x.row.mt, 0, c).mt = x.row.mt  BY DEF Row
    <2>8. RoadFits(d)' /\ OnRoad(d)' = OnRoad(d)  BY <1>1, <1>4, <1>9, RoadKept DEF DocFits
    <2>9. Ahead(d)' = Ahead(d)  BY <2>8, <1>9, AheadKept
    <2>10. PendFits(d)'  BY <2>8, <1>1, <1>4, <1>9, PendKept DEF DocFits
    <2>11. StoreFits(d)'  BY <2>8, <1>1, <1>4, <1>9, StoreKept DEF DocFits
    <2>12. BatchFits(d)'  BY <1>7, NoBatchFits
    <2>13. JournalFits(d)'
      <3> SUFFICES ASSUME NEW o \in EwVectors, journal'[d][o] # EwNone, NoDeletion(Ahead(d)')
                   PROVE  /\ lex'[d] # EwNone /\ journal'[d][o].mt <= lex'[d].mt
                          /\ journal'[d][o].mt = lex'[d].mt =>
                                /\ vec'[d][o] # EwNone /\ vec'[d][o].ver = lex'[d].ver
                                /\ \A y \in About(pend[o], d)' \cup Ahead(d)' : Says(lex'[d], y)
        BY DEF JournalFits
      <3>1. About(pend[o], d)' = About(pend[o], d)  BY <1>9 DEF SamePend
      <3>2. CASE o = c
        <4>1. SameLife(lex[d], x, Ahead(d))  BY <2>6, <2>9
        <4>2. About(pend[o], d) = {}  BY <3>2, <1>6, NothingAbout
        <4>3. lex[d] # EwNone /\ x.row.mt <= lex[d].mt
              /\ (x.row.mt = lex[d].mt => x.row.ver = lex[d].ver /\ \A y \in Ahead(d) : Says(lex[d], y))
          BY <4>1 DEF SameLife
        <4>4. journal'[d][o].mt = x.row.mt  BY <3>2, <2>4, <2>7
        <4> QED BY <3>1, <3>2, <4>2, <4>3, <4>4, <2>5, <2>9, <1>1
      <3>3. CASE o # c
        <4>1. journal'[d][o] = journal[d][o]  BY <3>3, <2>4
        <4>2. /\ lex[d] # EwNone /\ journal[d][o].mt <= lex[d].mt
              /\ journal[d][o].mt = lex[d].mt =>
                    /\ vec[d][o] # EwNone /\ vec[d][o].ver = lex[d].ver
                    /\ \A y \in About(pend[o], d) \cup Ahead(d) : Says(lex[d], y)
          BY <4>1, <1>4, <1>8, <2>9 DEF DocFits, JournalFits
        <4> QED BY <3>1, <4>1, <4>2, <2>9, <1>1
      <3> QED BY <3>2, <3>3
    <2> QED BY <2>8, <2>10, <2>11, <2>12, <2>13 DEF DocFits
  <1> QED BY <1>10, <1>11

LEMMA DeletesFit == ASSUME EwShape, DocsFit, flush_deletes PROVE DocsFit'
  <1> DEFINE ids == pend["deletes"]
  <1>1. /\ flush.at = "deletes" /\ pend' = [pend EXCEPT !["deletes"] = {}]
        /\ UNCHANGED <<lex, wire, late, jobs, journal, bf>>
    BY DeletesIs
  <1>2. Deleted \/ NotDeleted  BY DeletesIs
  <1>3. pend'["deletes"] = {} /\ \A c \in EwVectors : pend'[c] = pend[c]  BY <1>1, DeletesHeld DEF EwShape
  <1>4. \A c \in EwVectors : pend[c] = <<>>  BY <1>1 DEF EwShape, FlushTyped, EwVectors
  <1>5. ids \in SUBSET EwDocs  BY DEF EwShape, PendTyped
  <1>6. excused \subseteq excused' /\ torn \subseteq torn' /\ flush'.at # "record"
    BY <1>2, IdleFields DEF Deleted, NotDeleted
  <1> SUFFICES ASSUME NEW d \in EwDocs, d \notin excused', d \notin torn' PROVE DocFits(d)'
    BY DEF DocsFit
  <1>7. DocFits(d) /\ ~Forgetting(d)  BY <1>1, <1>6 DEF DocsFit, Forgetting
  <1>8. NotDeleted => d \notin ids  BY DEF NotDeleted
  <1>9. vec' = Without(ids, EwVectors) \/ \E tables \in {{}, {"text"}} : vec' = Without(ids, tables)
    BY <1>2 DEF Deleted, NotDeleted
  <1>10. CASE d \notin ids
    <2>1. vec'[d] = vec[d]  BY <1>9, <1>10 DEF Without
    <2>2. SameStore(d)  BY <2>1, <1>1 DEF SameStore
    <2>3. SamePend(d)
      <3>1. \A c \in EwVectors : About(pend[c], d)' = About(pend[c], d)  BY <1>3 DEF About, AboutAfter
      <3> QED BY <3>1, <1>3, <1>10 DEF SamePend
    <2> QED BY <2>2, <2>3, <1>1, <1>6, <1>7, MovesOn
  <1>11. CASE d \in ids
    <2>1. Deleted  BY <1>2, <1>8, <1>11
    <2>2. vec'[d] = [c \in EwVectors |-> EwNone]  BY <2>1, <1>11 DEF Deleted, Without
    <2>3. flush' = [at |-> "forget", batch |-> ids]  BY <2>1, <1>11 DEF Deleted
    <2>4. Forgetting(d)'  BY <2>3, <1>11 DEF Forgetting
    <2>5. SameWire(d) /\ SameJobs(d)  BY <1>1, UnchangedIsSame
    <2>6. RoadFits(d)' /\ OnRoad(d)' = OnRoad(d)  BY <2>5, <1>1, <1>7, RoadKept DEF DocFits
    <2>7. OnRoad(d) = {} => lex[d] = EwNone  BY <1>7, <1>11 DEF DocFits, PendFits
    <2>8. PendFits(d)'  BY <1>3, <1>4, NothingAbout DEF PendFits
    <2>9. BatchFits(d)'  BY <1>6, NoBatchFits
    <2>10. StoreFits(d)'
      <3> SUFFICES ASSUME NothingAhead(d)' PROVE lex'[d] = EwNone /\ \A c \in EwVectors : vec'[d][c] = EwNone
        BY DEF StoreFits
      <3>1. OnRoad(d)' = {}  BY DEF NothingAhead, Ahead
      <3> QED BY <3>1, <2>2, <2>6, <2>7, <1>1
    <2>11. JournalFits(d)'  BY <2>4 DEF JournalFits
    <2> QED BY <2>6, <2>8, <2>9, <2>10, <2>11 DEF DocFits
  <1> QED BY <1>10, <1>11

LEMMA ForgetFits == ASSUME EwShape, DocsFit, forget PROVE DocsFit'
  <1>1. /\ flush.at = "forget" /\ flush' = EwIdle
        /\ journal' = [d \in EwDocs |-> IF d \in flush.batch THEN [c \in EwVectors |-> EwNone] ELSE journal[d]]
        /\ UNCHANGED <<lex, wire, late, jobs, pend, timed, vec, bf, excused, torn, ewCount>>
    BY DEF forget
  <1>2. flush'.at # "record"  BY <1>1, IdleFields
  <1> SUFFICES ASSUME NEW d \in EwDocs, d \notin excused, d \notin torn PROVE DocFits(d)'
    BY <1>1 DEF DocsFit
  <1>3. DocFits(d)  BY DEF DocsFit
  <1>4. SamePend(d) /\ SameWire(d) /\ SameJobs(d)  BY <1>1, UnchangedIsSame
  <1>5. CASE d \notin flush.batch
    <2>1. SameStore(d) /\ ~Forgetting(d)  BY <1>1, <1>5 DEF SameStore, Forgetting
    <2> QED BY <2>1, <1>1, <1>2, <1>3, <1>4, MovesOn
  <1>6. CASE d \in flush.batch
    <2>1. RoadFits(d)' /\ OnRoad(d)' = OnRoad(d)  BY <1>1, <1>3, <1>4, RoadKept DEF DocFits
    <2>2. PendFits(d)'  BY <2>1, <1>1, <1>3, <1>4, PendKept DEF DocFits
    <2>3. BatchFits(d)'  BY <1>2, NoBatchFits
    <2>4. StoreFits(d)'  BY <2>1, <1>1, <1>3, <1>4, StoreKept DEF DocFits
    <2>5. journal'[d] = [c \in EwVectors |-> EwNone]  BY <1>1, <1>6
    <2>6. JournalFits(d)'  BY <2>5 DEF JournalFits
    <2> QED BY <2>1, <2>2, <2>3, <2>4, <2>6 DEF DocFits
  <1> QED BY <1>5, <1>6

--------------------------------------------------------------------------------
(***************************************************************************)
(* The worker ends and starts.                                             *)
(***************************************************************************)
\* Of a document nothing is under way about, the road fits.
LEMMA EmptyRoadFits ==
  ASSUME NEW d, wire = <<>>, jobs = <<>>, late = {}, pend = NoPending, flush = EwIdle
  PROVE  /\ RoadFits(d) /\ PendFits(d) /\ BatchFits(d)
         /\ Ahead(d) = {} /\ \A c \in EwVectors : About(pend[c], d) = {}
  <1>1. LateOf(d) = {} /\ OnWire(d) = {} /\ OnRoad(d) = {}  BY NothingAbout DEF LateOf, OnWire, OnRoad
  <1>2. RoadFits(d)  BY <1>1, NothingAbout DEF RoadFits
  <1>3. \A c \in EwVectors : pend[c] = <<>>  BY NoPendingFields DEF EwVectors
  <1>4. pend["deletes"] = {}  BY NoPendingFields
  <1>5. PendFits(d)  BY <1>3, <1>4, NothingAbout DEF PendFits
  <1>6. BatchFits(d)  BY IdleFields DEF BatchFits
  <1>7. Ahead(d) = {}  BY <1>1, <1>4 DEF Ahead, Deleting
  <1>8. \A c \in EwVectors : About(pend[c], d) = {}  BY <1>3, NothingAbout
  <1> QED BY <1>2, <1>5, <1>6, <1>7, <1>8

LEMMA EndsFit == ASSUME EwShape, DocsFit, WorkerEnds PROVE DocsFit'
  <1>1. /\ wire' = <<>> /\ late' = {} /\ jobs' = <<>> /\ pend' = NoPending /\ flush' = EwIdle
        /\ excused \subseteq excused'
        /\ torn' = IF flush.at = "forget" THEN torn \cup flush.batch ELSE torn
        /\ UNCHANGED <<lex, vec, journal>>
    BY EndsIs
  <1>2. \A d \in EwDocs \ excused' :
            /\ About(wire, d) = {} /\ About(jobs, d) = {} /\ LateOf(d) = {}
            /\ About(pend["text"], d) = {} /\ About(pend["image"], d) = {} /\ d \notin pend["deletes"]
    BY EndsIs
  <1> SUFFICES ASSUME NEW d \in EwDocs, d \notin excused', d \notin torn' PROVE DocFits(d)'
    BY DEF DocsFit
  <1>3. DocFits(d) /\ ~Forgetting(d)  BY <1>1 DEF DocsFit, Forgetting
  <1>4. Ahead(d) = {} /\ NothingAhead(d)  BY <1>2 DEF Ahead, Deleting, OnRoad, OnWire, NothingAhead
  <1>5. /\ RoadFits(d)' /\ PendFits(d)' /\ BatchFits(d)'
        /\ Ahead(d)' = {} /\ \A c \in EwVectors : About(pend[c], d)' = {}
    <2>1. LateOf(d)' = {}  BY <1>1 DEF LateOf
    <2>2. OnWire(d)' = {} /\ OnRoad(d)' = {}  BY <2>1, <1>1, NothingAbout DEF OnWire, OnRoad
    <2>3. RoadFits(d)'  BY <2>1, <1>1, NothingAbout DEF RoadFits
    <2>4. \A c \in EwVectors : pend'[c] = <<>>  BY <1>1, NoPendingFields DEF EwVectors
    <2>5. pend'["deletes"] = {}  BY <1>1, NoPendingFields
    <2>6. PendFits(d)'  BY <2>4, <2>5, NothingAbout DEF PendFits
    <2>7. BatchFits(d)'  BY <1>1, IdleFields DEF BatchFits
    <2>8. Ahead(d)' = {}  BY <2>2, <2>5 DEF Ahead, Deleting
    <2>9. \A c \in EwVectors : About(pend[c], d)' = {}  BY <2>4, NothingAbout
    <2> QED BY <2>3, <2>6, <2>7, <2>8, <2>9
  <1>6. StoreFits(d)'  BY <1>1, <1>3, <1>4 DEF DocFits, StoreFits
  <1>7. JournalFits(d)'
    <2> SUFFICES ASSUME NEW o \in EwVectors, journal'[d][o] # EwNone
                 PROVE  /\ lex'[d] # EwNone /\ journal'[d][o].mt <= lex'[d].mt
                        /\ journal'[d][o].mt = lex'[d].mt =>
                              /\ vec'[d][o] # EwNone /\ vec'[d][o].ver = lex'[d].ver
                              /\ \A y \in About(pend[o], d)' \cup Ahead(d)' : Says(lex'[d], y)
      BY DEF JournalFits
    <2>1. NoDeletion(Ahead(d))  BY <1>4 DEF NoDeletion
    <2>2. /\ lex[d] # EwNone /\ journal[d][o].mt <= lex[d].mt
          /\ journal[d][o].mt = lex[d].mt => vec[d][o] # EwNone /\ vec[d][o].ver = lex[d].ver
      BY <2>1, <1>1, <1>3 DEF DocFits, JournalFits
    <2> QED BY <2>2, <1>1, <1>5
  <1> QED BY <1>5, <1>6, <1>7 DEF DocFits

LEMMA StartsFit == ASSUME EwShape, DocsFit, WorkerStarts PROVE DocsFit'
  <1>1. /\ UNCHANGED <<vec, excused, torn>> \/ excused' = EwDocs
        /\ UNCHANGED <<lex, wire, late, jobs, pend, flush, journal>>
    BY StartsIs
  <1>2. CASE UNCHANGED <<vec, excused, torn>>
    <2> SUFFICES ASSUME NEW d \in EwDocs, d \notin excused, d \notin torn PROVE DocFits(d)'
      BY <1>2 DEF DocsFit
    <2>1. DocFits(d)  BY DEF DocsFit
    <2>2. SamePend(d) /\ SameStore(d)  BY <1>1, <1>2, UnchangedIsSame
    <2>3. Forgetting(d) => Forgetting(d)'  BY <1>1 DEF Forgetting
    <2> QED BY <1>1, <2>1, <2>2, <2>3, MovesOn
  <1>3. CASE excused' = EwDocs  BY <1>3 DEF DocsFit
  <1> QED BY <1>1, <1>2, <1>3

\* A step that changes nothing of the road, the store or the index.
LEMMA NothingMoves ==
  ASSUME DocsFit, UNCHANGED <<lex, wire, late, jobs, pend, flush, vec, journal, excused, torn>>
  PROVE  DocsFit'
  <1> SUFFICES ASSUME NEW d \in EwDocs, d \notin excused, d \notin torn PROVE DocFits(d)'
    BY DEF DocsFit
  <1>1. DocFits(d)  BY DEF DocsFit
  <1>2. SamePend(d) /\ SameStore(d)  BY UnchangedIsSame
  <1>3. Forgetting(d) => Forgetting(d)'  BY DEF Forgetting
  <1> QED BY <1>1, <1>2, <1>3, MovesOn

LEMMA DocsStep == ASSUME EwShape, NotAhead, DocsFit, [EwNext]_ewVars PROVE DocsFit'
  <1>1. ASSUME NEW d \in EwDocs,
               CommitUpsert(d) \/ CommitReindex(d) \/ CommitDelete(d) \/ CommitReplace(d)
        PROVE  DocsFit'
    BY <1>1, UpsertFits, ReindexFits, DeleteFits, ReplaceFits
  <1>2. CASE LateSend  BY <1>2, LateSendFits
  <1>3. CASE DispatchEmbed  BY <1>3, DispatchFits
  <1>4. CASE TakeJob  BY <1>4, TakeFits
  <1>5. CASE FlushPeriod  BY <1>5, PeriodFits
  <1>6. CASE flush_text \/ flush_images
    BY <1>6, FlushFits DEF flush_text, flush_images, EwVectors
  <1>7. CASE record  BY <1>7, RecordFits
  <1>8. CASE flush_deletes  BY <1>8, DeletesFit
  <1>9. CASE forget  BY <1>9, ForgetFits
  <1>10. CASE BackfillStart \/ BackfillNext \/ BackfillDone
    BY <1>10, NothingMoves DEF BackfillStart, BackfillNext, BackfillDone
  <1>11. CASE BackfillSend  BY <1>11, BackfillFits
  <1>12. CASE WorkerEnds  BY <1>12, EndsFit
  <1>13. CASE WorkerStarts  BY <1>13, StartsFit
  <1>14. CASE UNCHANGED ewVars  BY <1>14, NothingMoves DEF ewVars
  <1> QED BY <1>1, <1>2, <1>3, <1>4, <1>5, <1>6, <1>7, <1>8, <1>9, <1>10, <1>11, <1>12, <1>13, <1>14
          DEF EwNext, EwCommits, EwThread, EwBackfill

--------------------------------------------------------------------------------
(***************************************************************************)
(* The store and the journal agree with the documents.                     *)
(***************************************************************************)
LEMMA InitFits == EwInit => NotAhead /\ DocsFit
  <1> SUFFICES ASSUME EwInit PROVE NotAhead /\ DocsFit
    OBVIOUS
  <1>1. /\ wire = <<>> /\ late = {} /\ jobs = <<>> /\ pend = NoPending /\ flush = EwIdle
    BY DEF EwInit
  <1>2. /\ lex \in [EwDocs -> EwRow \cup {EwNone}]
        /\ \A d \in EwDocs : lex[d] # EwNone =>
              /\ lex[d].mt = 1 /\ lex[d].ver = 0 /\ lex[d].ch \in EwVectors
              /\ lex[d] = Row(1, 0, lex[d].ch) /\ lex[d].ch \in EwChannelsOf[d]
        /\ \A d \in EwDocs, c \in EwVectors :
              /\ vec[d][c] = IF lex[d] # EwNone /\ lex[d].ch = c THEN lex[d] ELSE EwNone
              /\ journal[d][c] = IF lex[d] # EwNone /\ lex[d].ch = c THEN Row(1, 0, c) ELSE EwNone
    BY InitRows
  <1>3. NotAhead
    <2>1. JournalNotAhead  BY <1>2 DEF JournalNotAhead
    <2>2. BatchInStore  BY <1>1, IdleFields DEF BatchInStore
    <2> QED BY <2>1, <2>2 DEF NotAhead
  <1>4. ASSUME NEW d \in EwDocs PROVE DocFits(d)
    <2>1. /\ RoadFits(d) /\ PendFits(d) /\ BatchFits(d)
          /\ Ahead(d) = {} /\ \A c \in EwVectors : About(pend[c], d) = {}
      BY <1>1, EmptyRoadFits
    <2>2. StoreFits(d)
      <3>1. CASE lex[d] = EwNone  BY <3>1, <1>2 DEF StoreFits
      <3>2. CASE lex[d] # EwNone
        <4>1. lex[d].ch \in EwVectors /\ vec[d][lex[d].ch] = lex[d]  BY <3>2, <1>2
        <4> QED BY <3>2, <4>1 DEF StoreFits
      <3> QED BY <3>1, <3>2
    <2>3. JournalFits(d)
      <3> SUFFICES ASSUME NEW c \in EwVectors, journal[d][c] # EwNone
                   PROVE  /\ lex[d] # EwNone /\ journal[d][c].mt <= lex[d].mt
                          /\ journal[d][c].mt = lex[d].mt =>
                                /\ vec[d][c] # EwNone /\ vec[d][c].ver = lex[d].ver
                                /\ \A y \in About(pend[c], d) \cup Ahead(d) : Says(lex[d], y)
        BY DEF JournalFits
      <3>1. lex[d] # EwNone /\ lex[d].ch = c /\ journal[d][c] = Row(1, 0, c) /\ vec[d][c] = lex[d]  BY <1>2
      <3>2. Row(1, 0, c).mt = 1 /\ lex[d].mt = 1  BY <3>1, <1>2 DEF Row
      <3> QED BY <2>1, <3>1, <3>2
    <2> QED BY <2>1, <2>2, <2>3 DEF DocFits
  <1> QED BY <1>3, <1>4 DEF DocsFit

\* A document that is not under way is not ahead of its store.
LEMMA QuietAgrees == EwInv => VectorsSafe
  <1> SUFFICES ASSUME NotAhead, DocsFit PROVE VectorsSafe
    BY DEF EwInv
  <1>1. ASSUME EwQuiet, NEW d \in EwDocs \ (excused \cup torn)
        PROVE  IF lex[d] = EwNone THEN \A c \in EwVectors : vec[d][c] = EwNone
               ELSE lex[d].ch # "skip" => /\ vec[d][lex[d].ch] # EwNone
                                          /\ vec[d][lex[d].ch].ver = lex[d].ver
    <2>1. wire = <<>> /\ late = {} /\ jobs = <<>> /\ pend = NoPending /\ flush = EwIdle  BY <1>1 DEF EwQuiet
    <2>2. Ahead(d) = {} /\ \A c \in EwVectors : About(pend[c], d) = {}  BY <2>1, EmptyRoadFits
    <2>3. NothingAhead(d)  BY <2>2 DEF NothingAhead, EwVectors
    <2>4. StoreFits(d)  BY DEF DocsFit, DocFits
    <2> QED BY <2>3, <2>4 DEF StoreFits
  <1>2. VectorsFollow  BY <1>1 DEF VectorsFollow
  <1> QED BY <1>2 DEF NotAhead, VectorsSafe

\* The vector store and its journal agree with the documents: what the journal
\* calls embedded is in the store (record after flush_text and flush_images),
\* also over failed batches and deaths of the worker, and once nothing is under
\* way the store has the last version of every document whose commands were
\* neither lost nor overtaken, and nothing of one that is gone: whatever
\* handle_job passes over, dedup_by_doc_id drops or a backfill sends again.
THEOREM VectorsAgree == EwSpec => []VectorsSafe
  <1>1. EwInit => EwInv  BY ShapeInit, InitFits DEF EwInv
  <1>2. EwInv /\ [EwNext]_ewVars => EwInv'
    BY ShapeStep, NotAheadStep, DocsStep DEF EwInv
  <1>3. EwInv => VectorsSafe  BY QuietAgrees
  <1> QED BY <1>1, <1>2, <1>3, PTL DEF EwSpec

================================================================================
