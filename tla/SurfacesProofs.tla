---------------------------- MODULE SurfacesProofs ----------------------------
(***************************************************************************)
(* Proofs about the file watcher: its types, and that nothing on disk goes *)
(* unnoticed, for any capacity of its queues, any number of resolvers and  *)
(* any number of changes on disk.                                          *)
(*                                                                         *)
(* The invariant follows a file through the watcher from both ends.  A     *)
(* file that is on disk is ahead somewhere: a refresh of it, of its        *)
(* directory or of the root is in the event queue, the pending intents,    *)
(* the outbox, the job queue or a resolver's hands, later than every       *)
(* deletion of it, or the index already shows it and nothing on its way    *)
(* says otherwise (PresentFollowed).  A file that is gone has a deletion   *)
(* ahead, or the index has forgotten it and no resolver will write it      *)
(* (AbsentFollowed).  What un-excuses a file, a walk that finds it, has to *)
(* know more than the file itself tells: that no deletion still with the   *)
(* coalescer is newer than the refresh that answers it (Answered), which   *)
(* holds of excused files too.                                             *)
(*                                                                         *)
(* At the end the four components of the instance are put together: what   *)
(* is a theorem of each is one of the whole, since they share no variable. *)
(***************************************************************************)
EXTENDS MCSurfaces, EmbedProofs, LauncherProofs

\* The jobs the two channels carry.
Removable == {"d"} \cup WaIds
WaJob == [kind : {"refresh"}, path : WaPaths] \cup [kind : {"delete"}, path : Removable]

Resolving ==
    [at : {"idle", "refresh", "delete", "file", "expand"},
     path : {"-"} \cup WaPaths \cup WaIds, todo : SUBSET WaFiles, v : 0..WaMaxVer]

\* The disk and the index; what is in "d" is only there while "d" is.
DiskTyped ==
    /\ ver \in [WaFiles -> 0..WaMaxVer] /\ dirThere \in BOOLEAN
    /\ docs \in [WaIds -> 0..WaMaxVer]
    /\ watched \subseteq Dirs /\ "r" \in watched
    /\ "g" \in WaFiles /\ ver["g"] > 0 => dirThere

\* The notify callback's channel, flag and history.
RawTyped ==
    /\ raw \in Seq(WaJob) /\ Len(raw) <= WaRawCap
    /\ \A i \in DOMAIN raw : raw[i].path \in WaPaths \ {"r"}
    /\ overflow \in BOOLEAN /\ waExcused \subseteq WaFiles /\ overtaken \subseteq WaFiles

\* The coalescer: no event names a root.
CoalescerTyped ==
    /\ DOMAIN pending \subseteq WaPaths \ {"r"}
    /\ \A p \in DOMAIN pending : pending[p] \in {"refresh", "delete"}
    /\ outbox \subseteq WaJob /\ rootDue \in BOOLEAN

\* The resolvers, their queue and the aliases of the one link.
ResolversTyped ==
    /\ waJobs \in Seq(WaJob) /\ Len(waJobs) <= WaJobCap
    /\ work \in [WaResolvers -> Resolving]
    /\ \A w \in WaResolvers :
          /\ work[w].at = "refresh" => work[w].path \in WaPaths
          /\ work[w].at = "file" => work[w].path \in WaFiles
          /\ work[w].at = "delete" => work[w].path \in Removable
    /\ DOMAIN aliases \subseteq {"l"} /\ \A q \in DOMAIN aliases : aliases[q] = "t"

CtrlTyped ==
    /\ ctrl \in Seq(Dirs) /\ Len(ctrl) <= WaCtrlCap
    /\ ctrlLost \in BOOLEAN

WaTyped == DiskTyped /\ RawTyped /\ CoalescerTyped /\ ResolversTyped /\ CtrlTyped

\* The files the index is followed for, and the paths a change of which concerns one.
Followed == WaFiles \ {"l"}
Over(x) == {x} \cup Above(x)

Refs(x) == {Job("refresh", p) : p \in Over(x)}
Dels(x) == {Job("delete", p) : p \in Over(x)}

\* The last element of s that is in A or B is one of A.
LastWord(s, A, B) ==
    \E i \in DOMAIN s : s[i] \in A /\ \A k \in DOMAIN s : k > i => s[k] \notin B
None(s, B) == \A i \in DOMAIN s : s[i] \notin B

Intended(p, kind) == p \in DOMAIN pending /\ pending[p] = kind
PendingRef(x) == \E p \in Over(x) : Intended(p, "refresh")
PendingDel(x) == \E p \in Over(x) : Intended(p, "delete")

\* Nothing on its way to the queue deletes x.
NoDelYet(x) == None(raw, Dels(x)) /\ ~PendingDel(x) /\ outbox \cap Dels(x) = {}

\* x will be looked at after every deletion the coalescer still has.
RefreshAhead(x) ==
    \/ overflow
    \/ LastWord(raw, Refs(x), Dels(x))
    \/ None(raw, Dels(x)) /\ PendingRef(x)

\* The same of the directory "d", by an event of its own.
RefreshD == {Job("refresh", "d")}
DeleteD  == {Job("delete", "d")}
DirAhead ==
    \/ overflow
    \/ LastWord(raw, RefreshD, DeleteD)
    \/ None(raw, DeleteD) /\ Intended("d", "refresh")

\* A directory that is there was not deleted after the last event of it.
DirAnswered == dirThere => DirAhead \/ (None(raw, DeleteD) /\ ~Intended("d", "delete"))

\* A file that is there will not be deleted by what the coalescer still has.
FileAnswered(x) == x \notin overtaken /\ ver[x] > 0 => NoDelYet(x) \/ RefreshAhead(x)

\* While nothing in "d" is seen, a deletion of "g" is older than the return of "d".
UnseenAnswered ==
    "g" \in Followed \ overtaken /\ dirThere /\ "d" \notin watched =>
        \/ NoDelYet("g")
        \/ overflow
        \/ LastWord(raw, RefreshD, Dels("g"))
        \/ None(raw, Dels("g")) /\ Intended("d", "refresh")

Answered == DirAnswered /\ UnseenAnswered /\ \A x \in Followed : FileAnswered(x)

\* The resolver is at this stage of a job that concerns x.
At(w, stage, x) == work[w].at = stage /\ work[w].path \in Over(x)

\* What the resolver will write is not what is on disk.
Harms(w, x) ==
    \/ At(w, "delete", x)
    \/ work[w].at = "file" /\ work[w].path = x /\ work[w].v # ver[x]

\* A file on disk: its last word is a refresh, wherever that is now, or the
\* index shows it already.
PresentFollowed(x) ==
    \/ RefreshAhead(x)
    \/ /\ NoDelYet(x)
       /\ \/ rootDue
          \/ outbox \cap Refs(x) # {}
          \/ \E w \in WaResolvers : work[w].at = "expand" /\ x \in work[w].todo
          \/ LastWord(waJobs, Refs(x), Dels(x))
          \/ /\ None(waJobs, Dels(x))
             /\ \A w \in WaResolvers : ~Harms(w, x)
             /\ \/ docs[x] = ver[x]
                \/ \E w \in WaResolvers : At(w, "refresh", x)
                \/ \E w \in WaResolvers : work[w].at = "file" /\ work[w].path = x

\* A file that is gone: a deletion of it is on its way, or the index has none.
AbsentFollowed(x) ==
    \/ LastWord(raw, {Job("delete", x)}, {Job("refresh", x)})
    \/ ~None(raw, Dels(x) \ {Job("delete", x)})
    \/ Intended(x, "delete") /\ None(raw, {Job("refresh", x)})
    \/ \E p \in Above(x) : Intended(p, "delete")
    \/ outbox \cap Dels(x) # {}
    \/ ~None(waJobs, Dels(x))
    \/ \E w \in WaResolvers : /\ At(w, "delete", x)
                              /\ \A u \in WaResolvers \ {w} : ~(work[u].at = "file" /\ work[u].path = x)
    \/ docs[x] = 0 /\ \A u \in WaResolvers : ~(work[u].at = "file" /\ work[u].path = x)

FileFollowed(x) ==
    x \notin waExcused \cup overtaken =>
        IF ver[x] > 0 THEN PresentFollowed(x) ELSE AbsentFollowed(x)

\* The watch of a directory that is there has been asked for, or will be when
\* what is ahead of it is walked.
DirRequested ==
    dirThere /\ "d" \notin watched =>
       \/ ctrlLost
       \/ DirAhead
       \/ rootDue
       \/ Job("refresh", "d") \in outbox
       \/ ~None(waJobs, Refs("d"))
       \/ \E w \in WaResolvers : At(w, "refresh", "d")
       \/ \E i \in DOMAIN ctrl : ctrl[i] = "d"

WatcherInv ==
    /\ WaTyped /\ Answered /\ DirRequested
    /\ \A x \in Followed : FileFollowed(x)

--------------------------------------------------------------------------------
(***************************************************************************)
(* Lemmas about sequences.                                                 *)
(***************************************************************************)
LEMMA LastOfAppend ==
    ASSUME NEW S, NEW s \in Seq(S), NEW j \in S, NEW A, NEW B
    PROVE  /\ Append(s, j) \in Seq(S) /\ Len(Append(s, j)) = Len(s) + 1
           /\ LastWord(Append(s, j), A, B) <=> j \in A \/ (j \notin B /\ LastWord(s, A, B))
           /\ None(Append(s, j), B) <=> None(s, B) /\ j \notin B
<1> DEFINE t == Append(s, j)
<1>1. /\ t \in Seq(S) /\ Len(t) = Len(s) + 1 /\ DOMAIN t = 1..(Len(s) + 1) /\ DOMAIN s = 1..Len(s)
      /\ Len(s) \in Nat /\ t[Len(s) + 1] = j
      /\ \A i \in 1..Len(s) : t[i] = s[i]
  BY AppendProperties, LenProperties
<1> HIDE DEF t
<1>2. None(t, B) <=> None(s, B) /\ j \notin B
  <2>1. ASSUME None(t, B) PROVE None(s, B) /\ j \notin B
    BY <1>1, <2>1 DEF None
  <2>2. ASSUME None(s, B), j \notin B PROVE None(t, B)
    <3> SUFFICES ASSUME NEW i \in DOMAIN t PROVE t[i] \notin B
      BY DEF None
    <3>1. CASE i = Len(s) + 1
      BY <1>1, <2>2, <3>1
    <3>2. CASE i # Len(s) + 1
      BY <1>1, <2>2, <3>2 DEF None
    <3> QED BY <3>1, <3>2
  <2> QED BY <2>1, <2>2
<1>3. LastWord(t, A, B) => j \in A \/ (j \notin B /\ LastWord(s, A, B))
  <2> SUFFICES ASSUME NEW i \in DOMAIN t, t[i] \in A, \A k \in DOMAIN t : k > i => t[k] \notin B
               PROVE  j \in A \/ (j \notin B /\ LastWord(s, A, B))
    BY DEF LastWord
  <2>1. CASE i = Len(s) + 1
    BY <1>1, <2>1
  <2>2. CASE i # Len(s) + 1
    <3>1. i \in DOMAIN s /\ s[i] \in A /\ j \notin B
      BY <1>1, <2>2
    <3>2. ASSUME NEW k \in DOMAIN s, k > i PROVE s[k] \notin B
      BY <1>1, <3>2
    <3> QED BY <3>1, <3>2 DEF LastWord
  <2> QED BY <2>1, <2>2
<1>4. j \in A => LastWord(t, A, B)
  <2> SUFFICES ASSUME j \in A PROVE LastWord(t, A, B)
    OBVIOUS
  <2>1. Len(s) + 1 \in DOMAIN t /\ t[Len(s) + 1] \in A /\ \A k \in DOMAIN t : ~(k > Len(s) + 1)
    BY <1>1
  <2> QED BY <2>1 DEF LastWord
<1>5. j \notin B /\ LastWord(s, A, B) => LastWord(t, A, B)
  <2> SUFFICES ASSUME j \notin B, NEW i \in DOMAIN s, s[i] \in A, \A k \in DOMAIN s : k > i => s[k] \notin B
               PROVE  LastWord(t, A, B)
    BY DEF LastWord
  <2>1. i \in DOMAIN t /\ t[i] \in A
    BY <1>1
  <2>2. ASSUME NEW k \in DOMAIN t, k > i PROVE t[k] \notin B
    <3>1. CASE k = Len(s) + 1
      BY <1>1, <3>1
    <3>2. CASE k # Len(s) + 1
      <4>1. k \in DOMAIN s /\ t[k] = s[k]
        BY <1>1, <3>2
      <4> QED BY <4>1, <2>2
    <3> QED BY <3>1, <3>2
  <2> QED BY <2>1, <2>2 DEF LastWord
<1> QED BY <1>1, <1>2, <1>3, <1>4, <1>5 DEF t

LEMMA LastOfTail ==
    ASSUME NEW S, NEW s \in Seq(S), s # <<>>, NEW A, NEW B
    PROVE  /\ Tail(s) \in Seq(S) /\ Head(s) \in S /\ Len(Tail(s)) = Len(s) - 1
           /\ LastWord(s, A, B) => LastWord(Tail(s), A, B) \/ (Head(s) \in A /\ None(Tail(s), B))
           /\ None(s, B) <=> Head(s) \notin B /\ None(Tail(s), B)
<1> DEFINE t == Tail(s)
<1>1. /\ t \in Seq(S) /\ Len(t) = Len(s) - 1 /\ DOMAIN t = 1..(Len(s) - 1) /\ DOMAIN s = 1..Len(s)
      /\ Len(s) \in Nat \ {0} /\ Head(s) = s[1] /\ Head(s) \in S
      /\ \A i \in 1..(Len(s) - 1) : t[i] = s[i + 1]
  BY HeadTailProperties, LenProperties, EmptySeq
<1> HIDE DEF t
<1>2. None(s, B) <=> Head(s) \notin B /\ None(t, B)
  <2>1. ASSUME None(s, B) PROVE Head(s) \notin B /\ None(t, B)
    BY <1>1, <2>1 DEF None
  <2>2. ASSUME Head(s) \notin B, None(t, B) PROVE None(s, B)
    <3> SUFFICES ASSUME NEW i \in DOMAIN s PROVE s[i] \notin B
      BY DEF None
    <3>1. CASE i = 1
      BY <1>1, <2>2, <3>1
    <3>2. CASE i # 1
      <4>1. i - 1 \in DOMAIN t /\ t[i - 1] = s[i]
        BY <1>1, <3>2
      <4> QED BY <2>2, <4>1 DEF None
    <3> QED BY <3>1, <3>2
  <2> QED BY <2>1, <2>2
<1>3. LastWord(s, A, B) => LastWord(t, A, B) \/ (Head(s) \in A /\ None(t, B))
  <2> SUFFICES ASSUME NEW i \in DOMAIN s, s[i] \in A, \A k \in DOMAIN s : k > i => s[k] \notin B
               PROVE  LastWord(t, A, B) \/ (Head(s) \in A /\ None(t, B))
    BY DEF LastWord
  <2>1. ASSUME NEW k \in DOMAIN t, k > i - 1 PROVE t[k] \notin B
    <3>1. k + 1 \in DOMAIN s /\ k + 1 > i /\ t[k] = s[k + 1]
      BY <1>1, <2>1
    <3> QED BY <3>1
  <2>2. CASE i = 1
    <3>1. None(t, B)
      BY <1>1, <2>1, <2>2 DEF None
    <3> QED BY <1>1, <2>2, <3>1
  <2>3. CASE i # 1
    <3>1. i - 1 \in DOMAIN t /\ t[i - 1] \in A
      BY <1>1, <2>3
    <3> QED BY <2>1, <3>1 DEF LastWord
  <2> QED BY <2>2, <2>3
<1> QED BY <1>1, <1>2, <1>3 DEF t

LEMMA LastOfEmpty ==
    ASSUME NEW A, NEW B
    PROVE  None(<<>>, B) /\ ~LastWord(<<>>, A, B)
BY DEF None, LastWord

LEMMA LastAmongNone ==
    ASSUME NEW s, NEW A, NEW B, None(s, A)
    PROVE  ~LastWord(s, A, B)
BY DEF None, LastWord

\* An element that is in s and is not followed by any of B.
LEMMA LastWeaker ==
    ASSUME NEW s, NEW A, NEW B, NEW A2, NEW B2, A \subseteq A2, B2 \subseteq B, LastWord(s, A, B)
    PROVE  LastWord(s, A2, B2)
BY DEF LastWord

LEMMA NoneWeaker ==
    ASSUME NEW s, NEW B, NEW B2, B2 \subseteq B, None(s, B)
    PROVE  None(s, B2)
BY DEF None

(***************************************************************************)
(* Lemmas about paths.                                                     *)
(***************************************************************************)
LEMMA Paths ==
    ASSUME NEW x \in Followed
    PROVE  /\ x \in WaFiles /\ x \in WaPaths /\ x \in WaIds /\ x \notin Dirs /\ x # "l" /\ x # "t"
           /\ Canonical(x) = x
           /\ x = "f" \/ x = "g"
           /\ x = "f" => Above(x) = {"r"}
           /\ x = "g" => Above(x) = {"r", "d"}
           /\ Over(x) = {x} \cup Above(x) /\ Over(x) \subseteq WaPaths
           /\ \A p \in WaPaths : x \in Concerned(p) <=> p \in Over(x)
           /\ \A p \in Removable : p \in Over(x) <=> x \in SubtreeOf(p)
BY WaAssumption DEF Followed, WaPaths, WaIds, Dirs, Canonical, Above, Over, Concerned, SubtreeOf, Removable

(***************************************************************************)
(* Lemmas about the notify callback.                                       *)
(***************************************************************************)
LEMMA IntentsOfOne ==
    ASSUME NEW p
    PROVE  /\ \A kind \in {"remove", "from"} : Intents(kind, <<p>>) = <<Job("delete", p)>>
           /\ \A kind \in {"create", "modify", "to"} : Intents(kind, <<p>>) = <<Job("refresh", p)>>
<1>1. DOMAIN <<p>> = {1} /\ <<p>>[1] = p
  OBVIOUS
<1>2. \A kind \in {"delete", "refresh"} : [i \in DOMAIN <<p>> |-> Job(kind, <<p>>[i])] = <<Job(kind, p)>>
  <2> SUFFICES ASSUME NEW kind PROVE [i \in DOMAIN <<p>> |-> Job(kind, <<p>>[i])] = <<Job(kind, p)>>
    OBVIOUS
  <2>1. [i \in {1} |-> Job(kind, p)] = <<Job(kind, p)>>
    OBVIOUS
  <2> QED BY <1>1, <2>1
<1>3. /\ \A kind \in {"remove", "from"} : Intents(kind, <<p>>) = [i \in DOMAIN <<p>> |-> Job("delete", <<p>>[i])]
      /\ \A kind \in {"create", "modify", "to"} : Intents(kind, <<p>>) = [i \in DOMAIN <<p>> |-> Job("refresh", <<p>>[i])]
  BY DEF Intents
<1> QED BY <1>2, <1>3

LEMMA FourOfTwo ==
    ASSUME NEW a, NEW b
    PROVE  (<<a>> \o <<b>>) \o <<a, b>> = <<a, b, a, b>>
<1> DEFINE one == <<a>>
           two == <<b>>
           both == <<a, b>>
           t == (one \o two) \o both
           u == <<a, b, a, b>>
<1>1. one \in Seq({a, b}) /\ two \in Seq({a, b}) /\ both \in Seq({a, b}) /\ u \in Seq({a, b})
  OBVIOUS
<1>2. Len(one) = 1 /\ one[1] = a /\ Len(two) = 1 /\ two[1] = b /\ Len(both) = 2 /\ both[1] = a /\ both[2] = b
  OBVIOUS
<1>3. Len(u) = 4 /\ u[1] = a /\ u[2] = b /\ u[3] = a /\ u[4] = b
  OBVIOUS
<1> HIDE DEF one, two, both, u
<1> DEFINE v == one \o two
<1>4. v \in Seq({a, b}) /\ Len(v) = 2 /\ v[1] = a /\ v[2] = b
  <2>1. v \in Seq({a, b}) /\ Len(v) = Len(one) + Len(two)
    BY <1>1, ConcatProperties
  <2>2. \A i \in 1..Len(one) + Len(two) : v[i] = IF i <= Len(one) THEN one[i] ELSE two[i - Len(one)]
    BY <1>1, ConcatProperties
  <2> QED BY <1>2, <2>1, <2>2
<1> HIDE DEF v
<1>5. t \in Seq({a, b}) /\ Len(t) = 4 /\ t[1] = a /\ t[2] = b /\ t[3] = a /\ t[4] = b
  <2>1. v \o both \in Seq({a, b}) /\ Len(v \o both) = Len(v) + Len(both)
    BY <1>1, <1>4, ConcatProperties
  <2>2. \A i \in 1..Len(v) + Len(both) : (v \o both)[i] = IF i <= Len(v) THEN v[i] ELSE both[i - Len(v)]
    BY <1>1, <1>4, ConcatProperties
  <2>3. t = v \o both
    BY DEF v
  <2> HIDE DEF t
  <2> QED BY <1>2, <1>4, <2>1, <2>2, <2>3
<1> HIDE DEF t
<1>6. \A i \in 1..Len(t) : t[i] = u[i]
  BY <1>3, <1>5
<1>7. t = u
  BY <1>1, <1>3, <1>5, <1>6, SeqEqual
<1> QED BY <1>7 DEF t, u, one, two, both

LEMMA IntentsOfRename ==
    Intents("from", <<"f">>) \o Intents("to", <<"g">>) \o Intents("both", <<"f", "g">>) =
      <<Job("delete", "f"), Job("refresh", "g"), Job("delete", "f"), Job("refresh", "g")>>
<1>1. Intents("from", <<"f">>) = <<Job("delete", "f")>> /\ Intents("to", <<"g">>) = <<Job("refresh", "g")>>
  BY IntentsOfOne
<1>2. Intents("both", <<"f", "g">>) = <<Job("delete", "f"), Job("refresh", "g")>>
  BY DEF Intents
<1> QED BY <1>1, <1>2, FourOfTwo

\* What a single intent of a watched directory leaves behind.
Kept(j) ==
    /\ Len(raw) < WaRawCap /\ raw' = Append(raw, j) /\ overflow' = overflow
    /\ waExcused' = waExcused \ Fixed(j) /\ overtaken' = overtaken \ Fixed(j)
Lost(j) ==
    /\ raw' = raw /\ overflow' = TRUE /\ overtaken' = overtaken
    /\ waExcused' = waExcused \cup (IF j.kind = "delete" THEN Concerned(j.path) ELSE {})

LEMMA OneIntent ==
    ASSUME NEW j \in WaJob, raw \in Seq(WaJob), Len(raw) <= WaRawCap, overflow \in BOOLEAN,
           dispatch_notify_event(TRUE, <<j>>)
    PROVE  Kept(j) \/ Lost(j)
<1> DEFINE room == IF Len(<<j>>) > WaRawCap - Len(raw) THEN WaRawCap - Len(raw) ELSE Len(<<j>>)
           kept == SubSeq(<<j>>, 1, room)
           lost == SubSeq(<<j>>, room + 1, Len(<<j>>))
           told == UNION {Fixed(kept[i]) : i \in DOMAIN kept}
           gone == UNION {Concerned(lost[i].path) : i \in {k \in DOMAIN lost : lost[k].kind = "delete"}}
<1>1. /\ raw' = raw \o kept /\ overflow' = OverflowAfter(<<j>>)
      /\ waExcused' = (waExcused \ told) \cup gone /\ overtaken' = overtaken \ told
  BY DEF dispatch_notify_event
<1>2. Len(raw) \in Nat /\ WaRawCap \in Nat /\ Len(<<j>>) = 1
  BY WaAssumption, LenProperties
<1>3. CASE Len(raw) < WaRawCap
  <2>1. room = 1
    BY <1>2, <1>3
  <2>2. kept = <<j>> /\ lost = <<>>
    <3>1. <<j>> \in Seq(WaJob)
      OBVIOUS
    <3>2. SubSeq(<<j>>, 1, 1) = <<j>>
      BY <1>2, <3>1, SubSeqFull
    <3>3. SubSeq(<<j>>, 2, 1) = <<>>
      BY SubSeqEmpty
    <3> QED BY <1>2, <2>1, <3>2, <3>3
  <2>3. told = Fixed(j)
    <3> HIDE DEF kept
    <3>1. DOMAIN kept = {1} /\ kept[1] = j
      BY <2>2
    <3> QED BY <3>1
  <2>4. gone = {}
    <3> HIDE DEF lost
    <3>1. DOMAIN lost = {}
      BY <2>2
    <3> QED BY <3>1
  <2>5. OverflowAfter(<<j>>) = overflow
    BY <1>2, <1>3 DEF OverflowAfter
  <2>6. raw \o <<j>> = Append(raw, j)
    BY AppendIsConcat
  <2> QED BY <1>1, <1>3, <2>2, <2>3, <2>4, <2>5, <2>6 DEF Kept
<1>4. CASE ~(Len(raw) < WaRawCap)
  <2>1. room = 0
    BY <1>2, <1>4
  <2>2. kept = <<>> /\ lost = <<j>>
    <3>1. <<j>> \in Seq(WaJob)
      OBVIOUS
    <3>2. SubSeq(<<j>>, 1, 1) = <<j>>
      BY <1>2, <3>1, SubSeqFull
    <3>3. SubSeq(<<j>>, 1, 0) = <<>>
      BY SubSeqEmpty
    <3> QED BY <1>2, <2>1, <3>2, <3>3
  <2>3. told = {}
    <3> HIDE DEF kept
    <3>1. DOMAIN kept = {}
      BY <2>2
    <3> QED BY <3>1
  <2>4. gone = IF j.kind = "delete" THEN Concerned(j.path) ELSE {}
    <3> HIDE DEF lost
    <3>1. DOMAIN lost = {1} /\ lost[1] = j
      BY <2>2
    <3> QED BY <3>1
  <2>5. OverflowAfter(<<j>>) = TRUE
    BY <1>2, <1>4 DEF OverflowAfter
  <2>6. raw \o <<>> = raw
    BY ConcatEmptySeq
  <2> QED BY <1>1, <2>2, <2>3, <2>4, <2>5, <2>6 DEF Lost
<1> QED BY <1>3, <1>4

\* What the rename of "f" to "g" leaves behind: the first n of its four intents.
DelF == Job("delete", "f")
RefG == Job("refresh", "g")
Grown(n) ==
    LET r1 == Append(raw, DelF)
        r2 == Append(r1, RefG)
        r3 == Append(r2, DelF)
        r4 == Append(r3, RefG)
    IN  CASE n = 0 -> raw [] n = 1 -> r1 [] n = 2 -> r2 [] n = 3 -> r3 [] n = 4 -> r4

Renamed(n) ==
    /\ n \in 0..4 /\ Len(raw) + n <= WaRawCap
    /\ raw' = Grown(n)
    /\ overflow' = (overflow \/ n < 4)
    /\ overtaken' = overtaken \ ((IF n >= 1 THEN {"f"} ELSE {}) \cup (IF n >= 2 THEN {"g"} ELSE {}))
    /\ waExcused' = (waExcused \ ((IF n >= 1 THEN {"f"} ELSE {}) \cup (IF n >= 2 THEN {"g"} ELSE {})))
                        \cup (IF n <= 2 THEN {"f"} ELSE {})

\* What Grown is at each number of intents that found room.
LEMMA GrownEach ==
    /\ Grown(1) = Append(raw, DelF)
    /\ Grown(2) = Append(Append(raw, DelF), RefG)
    /\ Grown(3) = Append(Append(Append(raw, DelF), RefG), DelF)
    /\ Grown(4) = Append(Append(Append(Append(raw, DelF), RefG), DelF), RefG)
<1>1. Grown(1) = Append(raw, DelF)
  BY DEF Grown
<1>2. Grown(2) = Append(Append(raw, DelF), RefG)
  BY DEF Grown
<1>3. Grown(3) = Append(Append(Append(raw, DelF), RefG), DelF)
  BY DEF Grown
<1>4. Grown(4) = Append(Append(Append(Append(raw, DelF), RefG), DelF), RefG)
  BY DEF Grown
<1> QED BY <1>1, <1>2, <1>3, <1>4

LEMMA FourIntents ==
    ASSUME {"f", "g"} \subseteq WaFiles, raw \in Seq(WaJob), Len(raw) <= WaRawCap, overflow \in BOOLEAN,
           dispatch_notify_event(TRUE, <<DelF, RefG, DelF, RefG>>)
    PROVE  \E n \in 0..4 : Renamed(n)
<1> DEFINE w == <<DelF, RefG, DelF, RefG>>
           room == IF Len(w) > WaRawCap - Len(raw) THEN WaRawCap - Len(raw) ELSE Len(w)
           kept == SubSeq(w, 1, room)
           lost == SubSeq(w, room + 1, Len(w))
           told == UNION {Fixed(kept[i]) : i \in DOMAIN kept}
           gone == UNION {Concerned(lost[i].path) : i \in {k \in DOMAIN lost : lost[k].kind = "delete"}}
<1>1. /\ raw' = raw \o kept /\ overflow' = OverflowAfter(w)
      /\ waExcused' = (waExcused \ told) \cup gone /\ overtaken' = overtaken \ told
  BY DEF dispatch_notify_event
<1>2. DelF \in WaJob /\ RefG \in WaJob
  BY DEF DelF, RefG, Job, WaJob, Removable, WaPaths, WaIds
<1>3. /\ w \in Seq(WaJob) /\ Len(w) = 4
      /\ w[1] = DelF /\ w[2] = RefG /\ w[3] = DelF /\ w[4] = RefG
  BY <1>2
<1> HIDE DEF w
<1>4. Len(raw) \in Nat /\ WaRawCap \in Nat
  BY WaAssumption, LenProperties
<1>5. room \in 0..4 /\ Len(raw) + room <= WaRawCap /\ OverflowAfter(w) = (overflow \/ room < 4)
  BY <1>3, <1>4 DEF OverflowAfter
<1>6. Fixed(DelF) = {"f"} /\ Concerned("f") = {"f"} /\ Fixed(RefG) = {"g"} /\ DelF.kind = "delete" /\ DelF.path = "f" /\ RefG.kind = "refresh"
  BY WaAssumption DEF DelF, RefG, Job, Fixed, Concerned, Above
<1> HIDE DEF room
<1>7. /\ kept \in Seq(WaJob) /\ DOMAIN kept = 1..room /\ \A i \in 1..room : kept[i] = w[i]
      /\ DOMAIN lost = 1..(4 - room) /\ \A i \in 1..(4 - room) : lost[i] = w[room + i]
  <2>1. \A i \in 1..room : w[i] \in WaJob
    BY <1>3, <1>5, <1>2
  <2>2. /\ kept \in Seq(WaJob) /\ Len(kept) = room /\ \A i \in 1..room : kept[i] = w[i]
    BY <1>5, <2>1, SubSeqProperties
  <2>3. \A i \in (room + 1)..4 : w[i] \in WaJob
    BY <1>3, <1>5, <1>2
  <2>4. /\ lost \in Seq(WaJob) /\ Len(lost) = 4 - room /\ \A i \in 1..(4 - room) : lost[i] = w[room + i]
    BY <1>3, <1>5, <2>3, SubSeqProperties
  <2> QED BY <2>2, <2>4, LenProperties
<1> HIDE DEF kept, lost
<1>8. told = (IF room >= 1 THEN {"f"} ELSE {}) \cup (IF room >= 2 THEN {"g"} ELSE {})
  <2>1. told = UNION {Fixed(w[i]) : i \in 1..room}
    BY <1>7
  <2>2. ASSUME NEW n \in 0..4 PROVE UNION {Fixed(w[i]) : i \in 1..n} = (IF n >= 1 THEN {"f"} ELSE {}) \cup (IF n >= 2 THEN {"g"} ELSE {})
    BY <1>3, <1>6
  <2> QED BY <1>5, <2>1, <2>2
<1>9. gone = IF room <= 2 THEN {"f"} ELSE {}
  <2>1. \A i \in DOMAIN lost : lost[i].kind = "delete" => Concerned(lost[i].path) = {"f"}
    <3>1. \A i \in DOMAIN lost : lost[i] \in {DelF, RefG}
      BY <1>3, <1>5, <1>7
    <3> QED BY <1>6, <3>1
  <2>2. CASE room <= 2
    <3>1. (3 - room) \in DOMAIN lost /\ lost[3 - room] = DelF
      BY <1>3, <1>5, <1>7, <2>2
    <3> QED BY <1>6, <2>1, <2>2, <3>1
  <2>3. CASE ~(room <= 2)
    <3>1. \A i \in DOMAIN lost : lost[i] = RefG
      BY <1>3, <1>5, <1>7, <2>3
    <3> QED BY <1>6, <2>3, <3>1
  <2> QED BY <2>2, <2>3
<1>10. raw \o kept = Grown(room)
  <2> DEFINE k(n) == SubSeq(w, 1, n)
  <2>1. k(0) = <<>>
    BY SubSeqEmpty
  <2>2. ASSUME NEW n \in 1..4, NEW m \in 0..3, n = m + 1 PROVE raw \o k(n) = Append(raw \o k(m), w[n])
    <3>0. n - 1 = m
      BY <2>2
    <3>1. k(n) = k(m) \o <<w[n]>>
      BY <1>3, <3>0, SubSeqRecursiveSecond
    <3>2. k(m) \in Seq(WaJob) /\ w[n] \in WaJob /\ <<w[n]>> \in Seq(WaJob)
      <4>1. \A i \in 1..m : w[i] \in WaJob
        BY <1>2, <1>3
      <4>2. w[n] \in WaJob
        BY <1>2, <1>3
      <4> QED BY <4>1, <4>2, SubSeqProperties
    <3> HIDE DEF k
    <3>3. raw \o k(n) = (raw \o k(m)) \o <<w[n]>>
      BY <3>1, <3>2, ConcatAssociative
    <3>4. raw \o k(m) \in Seq(WaJob)
      BY <3>2, ConcatProperties
    <3> QED BY <3>2, <3>3, <3>4, AppendIsConcat
  <2>3. raw \o k(0) = raw
    BY <2>1, ConcatEmptySeq
  <2> HIDE DEF k
  <2>4. raw \o k(1) = Grown(1) /\ raw \o k(2) = Grown(2) /\ raw \o k(3) = Grown(3) /\ raw \o k(4) = Grown(4)
    <3>0. /\ raw \o k(1) = Append(raw \o k(0), DelF)
          /\ raw \o k(2) = Append(raw \o k(1), RefG)
          /\ raw \o k(3) = Append(raw \o k(2), DelF)
          /\ raw \o k(4) = Append(raw \o k(3), RefG)
      <4>1. raw \o k(1) = Append(raw \o k(0), w[1])
        <5>1. 1 \in 1..4 /\ 0 \in 0..3 /\ 1 = 0 + 1
          OBVIOUS
        <5> QED BY <2>2, <5>1, Zenon
      <4>2. raw \o k(2) = Append(raw \o k(1), w[2])
        <5>1. 2 \in 1..4 /\ 1 \in 0..3 /\ 2 = 1 + 1
          OBVIOUS
        <5> QED BY <2>2, <5>1, Zenon
      <4>3. raw \o k(3) = Append(raw \o k(2), w[3])
        <5>1. 3 \in 1..4 /\ 2 \in 0..3 /\ 3 = 2 + 1
          OBVIOUS
        <5> QED BY <2>2, <5>1, Zenon
      <4>4. raw \o k(4) = Append(raw \o k(3), w[4])
        <5>1. 4 \in 1..4 /\ 3 \in 0..3 /\ 4 = 3 + 1
          OBVIOUS
        <5> QED BY <2>2, <5>1, Zenon
      <4> QED BY <4>1, <4>2, <4>3, <4>4, <1>3
    <3>1. raw \o k(1) = Append(raw, DelF)
      BY <2>3, <3>0
    <3>2. raw \o k(2) = Append(Append(raw, DelF), RefG)
      BY <3>0, <3>1, Zenon
    <3>3. raw \o k(3) = Append(Append(Append(raw, DelF), RefG), DelF)
      BY <3>0, <3>2, Zenon
    <3>4. raw \o k(4) = Append(Append(Append(Append(raw, DelF), RefG), DelF), RefG)
      BY <3>0, <3>3, Zenon
    <3> QED BY <3>1, <3>2, <3>3, <3>4, GrownEach, Zenon
  <2>5. Grown(0) = raw
    BY DEF Grown
  <2>6. kept = k(room)
    BY DEF kept, k
  <2>7. raw \o k(room) = Grown(room)
    <3>1. room = 0 \/ room = 1 \/ room = 2 \/ room = 3 \/ room = 4
      BY <1>5
    <3> QED BY <2>3, <2>4, <2>5, <3>1, Zenon
  <2> QED BY <2>6, <2>7, Zenon
<1> QED BY <1>1, <1>5, <1>8, <1>9, <1>10 DEF Renamed

\* In what the rename leaves in the channel, the last word on "g" is its refresh.
LEMMA GrownLast ==
    ASSUME NEW n \in 0..4, raw \in Seq(WaJob), DelF \in WaJob, RefG \in WaJob, NEW A, NEW B
    PROVE  /\ Grown(n) \in Seq(WaJob) /\ Len(Grown(n)) = Len(raw) + n
           /\ \A i \in DOMAIN Grown(n) : (i \in DOMAIN raw /\ Grown(n)[i] = raw[i]) \/ Grown(n)[i] \in {DelF, RefG}
           /\ (n >= 1 => DelF \notin B) /\ (n >= 2 => RefG \notin B) =>
                 /\ LastWord(raw, A, B) => LastWord(Grown(n), A, B)
                 /\ None(Grown(n), B) <=> None(raw, B)
           /\ n >= 1 /\ DelF \in A /\ RefG \notin B => LastWord(Grown(n), A, B)
           /\ n >= 2 /\ RefG \in A /\ DelF \notin B => LastWord(Grown(n), A, B)
<1> DEFINE r1 == Append(raw, DelF)
           r2 == Append(r1, RefG)
           r3 == Append(r2, DelF)
           r4 == Append(r3, RefG)
<1>1. ASSUME NEW s \in Seq(WaJob), NEW j \in WaJob
      PROVE  \A i \in DOMAIN Append(s, j) : (i \in DOMAIN s /\ Append(s, j)[i] = s[i]) \/ Append(s, j)[i] = j
  BY AppendProperties, LenProperties
<1>2. /\ r1 \in Seq(WaJob) /\ r2 \in Seq(WaJob) /\ r3 \in Seq(WaJob) /\ r4 \in Seq(WaJob)
      /\ Len(r1) = Len(raw) + 1 /\ Len(r2) = Len(r1) + 1 /\ Len(r3) = Len(r2) + 1 /\ Len(r4) = Len(r3) + 1
      /\ LastWord(r1, A, B) <=> DelF \in A \/ (DelF \notin B /\ LastWord(raw, A, B))
      /\ LastWord(r2, A, B) <=> RefG \in A \/ (RefG \notin B /\ LastWord(r1, A, B))
      /\ LastWord(r3, A, B) <=> DelF \in A \/ (DelF \notin B /\ LastWord(r2, A, B))
      /\ LastWord(r4, A, B) <=> RefG \in A \/ (RefG \notin B /\ LastWord(r3, A, B))
      /\ None(r1, B) <=> None(raw, B) /\ DelF \notin B
      /\ None(r2, B) <=> None(r1, B) /\ RefG \notin B
      /\ None(r3, B) <=> None(r2, B) /\ DelF \notin B
      /\ None(r4, B) <=> None(r3, B) /\ RefG \notin B
  <2>1. r1 \in Seq(WaJob)
    BY LastOfAppend
  <2>2. r2 \in Seq(WaJob)
    <3> HIDE DEF r1
    <3> QED BY <2>1, LastOfAppend
  <2>3. r3 \in Seq(WaJob)
    <3> HIDE DEF r2
    <3> QED BY <2>2, LastOfAppend
  <2>4. r4 \in Seq(WaJob) /\ Len(r4) = Len(r3) + 1
        /\ (LastWord(r4, A, B) <=> RefG \in A \/ (RefG \notin B /\ LastWord(r3, A, B)))
        /\ (None(r4, B) <=> None(r3, B) /\ RefG \notin B)
    <3> HIDE DEF r3
    <3> QED BY <2>3, LastOfAppend
  <2>5. Len(r3) = Len(r2) + 1
        /\ (LastWord(r3, A, B) <=> DelF \in A \/ (DelF \notin B /\ LastWord(r2, A, B)))
        /\ (None(r3, B) <=> None(r2, B) /\ DelF \notin B)
    <3> HIDE DEF r2
    <3> QED BY <2>2, LastOfAppend
  <2>6. Len(r2) = Len(r1) + 1
        /\ (LastWord(r2, A, B) <=> RefG \in A \/ (RefG \notin B /\ LastWord(r1, A, B)))
        /\ (None(r2, B) <=> None(r1, B) /\ RefG \notin B)
    <3> HIDE DEF r1
    <3> QED BY <2>1, LastOfAppend
  <2>7. Len(r1) = Len(raw) + 1
        /\ (LastWord(r1, A, B) <=> DelF \in A \/ (DelF \notin B /\ LastWord(raw, A, B)))
        /\ (None(r1, B) <=> None(raw, B) /\ DelF \notin B)
    BY LastOfAppend
  <2> HIDE DEF r1, r2, r3, r4
  <2> QED BY <2>1, <2>2, <2>3, <2>4, <2>5, <2>6, <2>7
<1>3. /\ \A i \in DOMAIN r1 : (i \in DOMAIN raw /\ r1[i] = raw[i]) \/ r1[i] = DelF
      /\ \A i \in DOMAIN r2 : (i \in DOMAIN r1 /\ r2[i] = r1[i]) \/ r2[i] = RefG
      /\ \A i \in DOMAIN r3 : (i \in DOMAIN r2 /\ r3[i] = r2[i]) \/ r3[i] = DelF
      /\ \A i \in DOMAIN r4 : (i \in DOMAIN r3 /\ r4[i] = r3[i]) \/ r4[i] = RefG
  BY <1>1, <1>2
<1>4. Grown(0) = raw /\ Grown(1) = r1 /\ Grown(2) = r2 /\ Grown(3) = r3 /\ Grown(4) = r4
  BY DEF Grown
<1>5. Len(raw) \in Nat
  BY LenProperties
<1> HIDE DEF r1, r2, r3, r4
<1>6. \A i \in DOMAIN Grown(n) : (i \in DOMAIN raw /\ Grown(n)[i] = raw[i]) \/ Grown(n)[i] \in {DelF, RefG}
  BY <1>3, <1>4
<1>7. Grown(n) \in Seq(WaJob) /\ Len(Grown(n)) = Len(raw) + n
  BY <1>2, <1>4, <1>5
<1>8. (n >= 1 => DelF \notin B) /\ (n >= 2 => RefG \notin B) =>
         /\ LastWord(raw, A, B) => LastWord(Grown(n), A, B)
         /\ None(Grown(n), B) <=> None(raw, B)
  BY <1>2, <1>4
<1>9. n >= 1 /\ DelF \in A /\ RefG \notin B => LastWord(Grown(n), A, B)
  BY <1>2, <1>4
<1>10. n >= 2 /\ RefG \in A /\ DelF \notin B => LastWord(Grown(n), A, B)
  BY <1>2, <1>4
<1> QED BY <1>6, <1>7, <1>8, <1>9, <1>10

(***************************************************************************)
(* Lemmas about the directories to watch.                                  *)
(***************************************************************************)
LEMMA EveryElement ==
    ASSUME NEW D, D \subseteq Dirs, NEW s \in SetToSeqs(D)
    PROVE  s \in Seq(D) /\ \A q \in D : \E i \in 1..Len(s) : s[i] = q
<1>1. IsFiniteSet(D) /\ Cardinality(D) \in Nat
  <2>1. IsFiniteSet(Dirs)
    <3>1. Dirs = ({} \cup {"r"}) \cup {"d"}
      BY DEF Dirs
    <3>2. IsFiniteSet({} \cup {"r"})
      BY FS_EmptySet, FS_AddElement
    <3> QED BY <3>1, <3>2, FS_AddElement
  <2> QED BY <2>1, FS_Subset, FS_CardinalityType
<1> DEFINE n == Cardinality(D)
<1>2. s \in [1..n -> D] /\ \A i, j \in 1..n : i # j => s[i] # s[j]
  BY DEF SetToSeqs
<1> HIDE DEF n
<1>3. n \in Nat
  BY <1>1 DEF n
<1>4. s \in Seq(D) /\ Len(s) = n
  BY <1>2, <1>3
<1>5. s \in Injection(1..n, D)
  BY <1>2 DEF Injection, IsInjective
<1>6. IsFiniteSet(1..n) /\ Cardinality(1..n) = n
  BY <1>3, FS_Interval
<1>7. s \in Surjection(1..n, D)
  BY <1>1, <1>5, <1>6, FS_Injection DEF n
<1> QED BY <1>4, <1>7 DEF Surjection

LEMMA AskKeepsTypes ==
    ASSUME NEW D, D \subseteq Dirs, ctrl \in Seq(Dirs), Len(ctrl) <= WaCtrlCap, ctrlLost \in BOOLEAN,
           AskToWatch(D)
    PROVE  /\ ctrl' \in Seq(Dirs) /\ Len(ctrl') <= WaCtrlCap /\ ctrlLost' \in BOOLEAN
           /\ ctrlLost => ctrlLost'
           /\ \A i \in DOMAIN ctrl : i \in DOMAIN ctrl' /\ ctrl'[i] = ctrl[i]
           /\ \A q \in D : ctrlLost' \/ \E i \in DOMAIN ctrl' : ctrl'[i] = q
<1> DEFINE room == WaCtrlCap - Len(ctrl)
<1>1. PICK s \in SetToSeqs(D) :
          /\ ctrl' = ctrl \o SubSeq(s, 1, IF Len(s) < room THEN Len(s) ELSE room)
          /\ ctrlLost' = (ctrlLost \/ Len(s) > room)
  BY DEF AskToWatch
<1>2. s \in Seq(D) /\ \A q \in D : \E i \in 1..Len(s) : s[i] = q
  BY EveryElement
<1>3. s \in Seq(Dirs) /\ Len(s) \in Nat
  BY <1>2, SeqMonotonic, LenProperties
<1>4. room \in Nat /\ Len(ctrl) \in Nat /\ Len(ctrl) + room = WaCtrlCap
  BY WaAssumption, LenProperties
<1> DEFINE m == IF Len(s) < room THEN Len(s) ELSE room
<1>5. m \in Nat /\ m <= room /\ m <= Len(s)
  BY <1>3, <1>4
<1> HIDE DEF room
<1> DEFINE k == SubSeq(s, 1, m)
<1>6. k \in Seq(Dirs) /\ Len(k) = m /\ \A i \in 1..m : k[i] = s[i]
  <2> HIDE DEF m
  <2>1. \A i \in 1..m : s[i] \in Dirs
    BY <1>3, <1>5, ElementOfSeq
  <2>2. Len(k) = m /\ k \in Seq(Dirs) /\ \A i \in 1..m : k[i] = s[1 + i - 1]
    BY <1>5, <2>1, SubSeqProperties
  <2> QED BY <2>2
<1>7. ctrl' = ctrl \o k
  BY <1>1 DEF room
<1> HIDE DEF k
<1>8. /\ ctrl' \in Seq(Dirs) /\ Len(ctrl') = Len(ctrl) + m
      /\ \A i \in 1..(Len(ctrl) + m) : ctrl'[i] = IF i <= Len(ctrl) THEN ctrl[i] ELSE k[i - Len(ctrl)]
  <2>1. ctrl' \in Seq(Dirs) /\ Len(ctrl') = Len(ctrl) + Len(k)
    BY <1>6, <1>7, ConcatProperties
  <2>2. \A i \in 1..(Len(ctrl) + Len(k)) : ctrl'[i] = IF i <= Len(ctrl) THEN ctrl[i] ELSE k[i - Len(ctrl)]
    BY <1>6, <1>7, ConcatProperties
  <2> HIDE DEF m
  <2> QED BY <1>6, <2>1, <2>2
<1>9. DOMAIN ctrl' = 1..(Len(ctrl) + m) /\ DOMAIN ctrl = 1..Len(ctrl)
  BY <1>8, LenProperties
<1>10. ctrlLost' \in BOOLEAN /\ (ctrlLost => ctrlLost') /\ (ctrlLost' \/ m = Len(s))
  <2>1. Len(s) > room \/ m = Len(s)
    BY <1>3, <1>4
  <2> QED BY <1>1, <2>1
<1>11. \A i \in DOMAIN ctrl : i \in DOMAIN ctrl' /\ ctrl'[i] = ctrl[i]
  BY <1>4, <1>5, <1>8, <1>9
<1>12. ASSUME NEW q \in D, m = Len(s) PROVE \E i \in DOMAIN ctrl' : ctrl'[i] = q
  <2>1. PICK i \in 1..Len(s) : s[i] = q
    BY <1>2
  <2>2. Len(ctrl) + i \in DOMAIN ctrl' /\ ctrl'[Len(ctrl) + i] = k[i]
    BY <1>3, <1>4, <1>8, <1>9, <1>12
  <2> QED BY <1>6, <1>12, <2>1, <2>2
<1> QED BY <1>4, <1>5, <1>8, <1>10, <1>11, <1>12

--------------------------------------------------------------------------------
(***************************************************************************)
(* The shape of the state.                                                 *)
(***************************************************************************)
LEMMA TypedIsTypeOK == WaTyped => WaTypeOK
BY DEF WaTyped, DiskTyped, RawTyped, CoalescerTyped, ResolversTyped, CtrlTyped, WaTypeOK, Resolving

LEMMA TypedInit == WaInit => WaTyped
<1> SUFFICES ASSUME WaInit PROVE WaTyped
  OBVIOUS
<1> USE DEF WaInit
<1>1. ver \in [WaFiles -> 0..WaMaxVer] /\ dirThere \in BOOLEAN /\ ("g" \in WaFiles /\ ver["g"] > 0 => dirThere)
  BY WaAssumption
<1>2. docs \in [WaIds -> 0..WaMaxVer]
  <2> SUFFICES ASSUME NEW i \in WaIds PROVE docs[i] \in 0..WaMaxVer
    OBVIOUS
  <2>1. CASE \E p \in WaFiles : Canonical(p) = i
    <3>1. (CHOOSE p \in WaFiles : Canonical(p) = i) \in WaFiles
      BY <2>1
    <3> QED BY <1>1, <2>1, <3>1
  <2>2. CASE ~\E p \in WaFiles : Canonical(p) = i
    BY <2>2, WaAssumption
  <2> QED BY <2>1, <2>2
<1>3. watched \subseteq Dirs /\ "r" \in watched
  BY DEF initial_crawl, Dirs
<1>4. RawTyped
  <2>1. <<>> \in Seq(WaJob) /\ Len(<<>>) = 0 /\ DOMAIN <<>> = {}
    BY EmptySeq
  <2>2. raw = <<>> /\ overflow = FALSE /\ waExcused = {} /\ overtaken = {}
    OBVIOUS
  <2> HIDE DEF WaInit
  <2>3. 0 <= WaRawCap
    BY WaAssumption
  <2> QED BY <2>1, <2>2, <2>3 DEF RawTyped
<1>5. CoalescerTyped
  BY DEF CoalescerTyped
<1>6. ResolversTyped
  <2>1. <<>> \in Seq(WaJob) /\ Len(<<>>) = 0
    BY EmptySeq
  <2>2. Idle \in Resolving /\ Idle.at = "idle"
    BY WaAssumption DEF Idle, Resolving
  <2>3. DOMAIN aliases \subseteq {"l"} /\ \A q \in DOMAIN aliases : aliases[q] = "t"
    BY WaAssumption DEF Canonical
  <2> QED BY <2>1, <2>2, <2>3, WaAssumption DEF ResolversTyped
<1>7. CtrlTyped
  <2>1. <<>> \in Seq(Dirs) /\ Len(<<>>) = 0
    BY EmptySeq
  <2>2. ctrl = <<>> /\ ctrlLost = FALSE
    OBVIOUS
  <2> HIDE DEF WaInit
  <2>3. 0 <= WaCtrlCap
    BY WaAssumption
  <2> QED BY <2>1, <2>2, <2>3 DEF CtrlTyped
<1> QED BY <1>1, <1>2, <1>3, <1>4, <1>5, <1>6, <1>7 DEF WaTyped, DiskTyped

LEMMA TypedIntent ==
    ASSUME RawTyped, NEW j \in WaJob, j.path \in WaPaths \ {"r"}, NEW dir,
           dispatch_notify_event(dir \in watched, <<j>>)
    PROVE  RawTyped'
<1>1. CASE dir \in watched
  <2>0. dispatch_notify_event(TRUE, <<j>>)
    BY <1>1 DEF dispatch_notify_event
  <2>1. Kept(j) \/ Lost(j)
    BY <2>0, OneIntent DEF RawTyped
  <2>2. CASE Kept(j)
    <3>1. /\ Append(raw, j) \in Seq(WaJob) /\ Len(Append(raw, j)) = Len(raw) + 1
          /\ DOMAIN Append(raw, j) = 1..(Len(raw) + 1) /\ DOMAIN raw = 1..Len(raw) /\ Len(raw) \in Nat
          /\ Append(raw, j)[Len(raw) + 1] = j
          /\ \A i \in 1..Len(raw) : Append(raw, j)[i] = raw[i]
      BY AppendProperties, LenProperties DEF RawTyped
    <3> DEFINE t == Append(raw, j)
    <3> HIDE DEF t
    <3>2. t \in Seq(WaJob) /\ Len(t) <= WaRawCap /\ \A i \in DOMAIN t : t[i].path \in WaPaths \ {"r"}
      BY <2>2, <3>1, WaAssumption DEF Kept, RawTyped, t
    <3>3. raw' = t
      BY <2>2 DEF Kept, t
    <3> QED BY <2>2, <3>2, <3>3 DEF Kept, RawTyped
  <2>3. CASE Lost(j)
    BY <2>3 DEF Lost, RawTyped, Concerned
  <2> QED BY <2>1, <2>2, <2>3
<1>2. CASE dir \notin watched
  <2>1. UNCHANGED <<raw, overflow, overtaken>>
    BY <1>2 DEF dispatch_notify_event
  <2>2. waExcused' \subseteq WaFiles
    BY <1>2 DEF dispatch_notify_event, RawTyped, Concerned
  <2> QED BY <2>1, <2>2 DEF RawTyped
<1> QED BY <1>1, <1>2

EventUnchanged == UNCHANGED <<pending, rootDue, outbox, waJobs, work, ctrl, aliases, docs, ctrlLost>>

\* The five changes on disk, as the events they raise.
LEMMA EventsOf ==
    /\ \A p \in WaFiles : WriteFile(p) =>
          /\ ver[p] < WaMaxVer /\ (p = "g" => dirThere) /\ ver' = [ver EXCEPT ![p] = @ + 1]
          /\ dispatch_notify_event(ParentDir(p) \in watched, <<Job("refresh", p)>>)
          /\ EventUnchanged /\ UNCHANGED <<dirThere, watched>>
    /\ \A p \in WaFiles : RemoveFile(p) =>
          /\ ver[p] > 0 /\ ver' = [ver EXCEPT ![p] = 0]
          /\ dispatch_notify_event(ParentDir(p) \in watched, <<Job("delete", p)>>)
          /\ EventUnchanged /\ UNCHANGED <<dirThere, watched>>
    /\ RenameFile =>
          /\ {"f", "g"} \subseteq WaFiles /\ dirThere /\ "d" \in watched /\ ver["f"] > 0
          /\ ver' = [ver EXCEPT !["f"] = 0, !["g"] = ver["f"]]
          /\ dispatch_notify_event("r" \in watched, <<DelF, RefG, DelF, RefG>>)
          /\ EventUnchanged /\ UNCHANGED <<dirThere, watched>>
    /\ \A v \in {0, 1} : MoveDirIn(v) =>
          /\ ~dirThere /\ dirThere' = TRUE
          /\ ver' = [p \in WaFiles |-> IF p = "g" THEN v ELSE ver[p]]
          /\ dispatch_notify_event("r" \in watched, <<Job("refresh", "d")>>)
          /\ EventUnchanged /\ UNCHANGED watched
    /\ MoveDirOut =>
          /\ dirThere /\ dirThere' = FALSE
          /\ ver' = [p \in WaFiles |-> IF p = "g" THEN 0 ELSE ver[p]]
          /\ dispatch_notify_event("r" \in watched, <<Job("delete", "d")>>)
          /\ watched' = watched \ {"d"}
          /\ EventUnchanged
<1>1. ASSUME NEW p \in WaFiles, WriteFile(p)
      PROVE  dispatch_notify_event(ParentDir(p) \in watched, <<Job("refresh", p)>>)
  BY <1>1, IntentsOfOne DEF WriteFile, Changes
<1>2. ASSUME NEW p \in WaFiles, RemoveFile(p)
      PROVE  dispatch_notify_event(ParentDir(p) \in watched, <<Job("delete", p)>>)
  BY <1>2, IntentsOfOne DEF RemoveFile, Changes
<1>3. RenameFile => dispatch_notify_event("r" \in watched, <<DelF, RefG, DelF, RefG>>)
  BY IntentsOfRename DEF RenameFile, Changes, DelF, RefG
<1>4. ASSUME NEW v \in {0, 1}, MoveDirIn(v) PROVE dispatch_notify_event("r" \in watched, <<Job("refresh", "d")>>)
  BY <1>4, IntentsOfOne DEF MoveDirIn, Changes
<1>5. MoveDirOut => dispatch_notify_event("r" \in watched, <<Job("delete", "d")>>)
  BY IntentsOfOne DEF MoveDirOut, Changes
<1> QED BY <1>1, <1>2, <1>3, <1>4, <1>5 DEF WriteFile, RemoveFile, RenameFile, MoveDirIn, MoveDirOut, Changes, EventUnchanged

LEMMA IntentsAreJobs ==
    /\ \A p \in WaPaths : Job("refresh", p) \in WaJob
    /\ \A p \in WaPaths \ {"r"} : Job("delete", p) \in WaJob
    /\ \A kind, p : Job(kind, p).kind = kind /\ Job(kind, p).path = p
    /\ {"f", "g"} \subseteq WaFiles => DelF \in WaJob /\ RefG \in WaJob
<1>1. WaPaths \ {"r"} \subseteq Removable
  BY WaAssumption DEF WaPaths, Removable, Dirs, WaIds
<1> QED BY <1>1, WaAssumption DEF Job, WaJob, DelF, RefG, WaPaths, Removable, WaIds

LEMMA TypedEvent ==
    ASSUME WaTyped,
           \/ \E p \in WaFiles : WriteFile(p) \/ RemoveFile(p)
           \/ RenameFile
           \/ \E v \in {0, 1} : MoveDirIn(v)
           \/ MoveDirOut
    PROVE  WaTyped'
<1>1. EventUnchanged => CoalescerTyped' /\ ResolversTyped' /\ CtrlTyped'
  BY DEF WaTyped, CoalescerTyped, ResolversTyped, CtrlTyped, EventUnchanged
<1>2. WaFiles \subseteq WaPaths \ {"r"} /\ "d" \in WaPaths \ {"r"} /\ WaMaxVer \in Nat /\ WaMaxVer >= 1
  BY WaAssumption DEF WaPaths, Dirs
<1>3. ASSUME NEW p \in WaFiles, WriteFile(p) PROVE WaTyped'
  <2>0. /\ ver[p] < WaMaxVer /\ (p = "g" => dirThere) /\ ver' = [ver EXCEPT ![p] = @ + 1]
        /\ dispatch_notify_event(ParentDir(p) \in watched, <<Job("refresh", p)>>)
        /\ EventUnchanged /\ UNCHANGED <<dirThere, watched>>
    BY <1>3, EventsOf
  <2>1. RawTyped'
    <3>1. Job("refresh", p) \in WaJob /\ Job("refresh", p).path \in WaPaths \ {"r"}
      BY <1>2, IntentsAreJobs
    <3> QED BY <2>0, <3>1, TypedIntent DEF WaTyped
  <2>2. ver' \in [WaFiles -> 0..WaMaxVer]
    BY <1>2, <2>0 DEF WaTyped, DiskTyped
  <2>3. DiskTyped'
    BY <1>2, <2>0, <2>2 DEF WaTyped, DiskTyped, EventUnchanged
  <2> QED BY <1>1, <2>0, <2>1, <2>3 DEF WaTyped
<1>4. ASSUME NEW p \in WaFiles, RemoveFile(p) PROVE WaTyped'
  <2>0. /\ ver[p] > 0 /\ ver' = [ver EXCEPT ![p] = 0]
        /\ dispatch_notify_event(ParentDir(p) \in watched, <<Job("delete", p)>>)
        /\ EventUnchanged /\ UNCHANGED <<dirThere, watched>>
    BY <1>4, EventsOf
  <2>1. RawTyped'
    <3>1. Job("delete", p) \in WaJob /\ Job("delete", p).path \in WaPaths \ {"r"}
      BY <1>2, IntentsAreJobs
    <3> QED BY <2>0, <3>1, TypedIntent DEF WaTyped
  <2>2. ver' \in [WaFiles -> 0..WaMaxVer]
    BY <1>2, <2>0 DEF WaTyped, DiskTyped
  <2>3. DiskTyped'
    BY <1>2, <2>0, <2>2 DEF WaTyped, DiskTyped, EventUnchanged
  <2> QED BY <1>1, <2>0, <2>1, <2>3 DEF WaTyped
<1>5. ASSUME RenameFile PROVE WaTyped'
  <2>0. {"f", "g"} \subseteq WaFiles /\ DelF \in WaJob /\ RefG \in WaJob /\ DelF.path = "f" /\ RefG.path = "g"
    BY <1>5, EventsOf, IntentsAreJobs DEF DelF, RefG
  <2>1. PICK n \in 0..4 : Renamed(n)
    BY <1>5, <2>0, EventsOf, FourIntents DEF WaTyped, RawTyped, DiskTyped
  <2>2. RawTyped'
    <3>1. /\ Grown(n) \in Seq(WaJob) /\ Len(Grown(n)) = Len(raw) + n
          /\ \A i \in DOMAIN Grown(n) : (i \in DOMAIN raw /\ Grown(n)[i] = raw[i]) \/ Grown(n)[i] \in {DelF, RefG}
      BY <2>0, GrownLast DEF WaTyped, RawTyped
    <3>2. \A i \in DOMAIN Grown(n) : Grown(n)[i].path \in WaPaths \ {"r"}
      BY <1>2, <2>0, <3>1 DEF WaTyped, RawTyped
    <3> QED BY <2>0, <2>1, <3>1, <3>2 DEF WaTyped, RawTyped, Renamed
  <2>3. DiskTyped'
    BY <1>2, <1>5, EventsOf DEF WaTyped, DiskTyped, EventUnchanged
  <2> QED BY <1>1, <1>5, <2>2, <2>3, EventsOf DEF WaTyped
<1>6. ASSUME NEW v \in {0, 1}, MoveDirIn(v) PROVE WaTyped'
  <2>0. /\ dirThere' = TRUE /\ ver' = [p \in WaFiles |-> IF p = "g" THEN v ELSE ver[p]]
        /\ dispatch_notify_event("r" \in watched, <<Job("refresh", "d")>>)
        /\ EventUnchanged /\ UNCHANGED watched
    BY <1>6, EventsOf
  <2>1. RawTyped'
    <3>1. Job("refresh", "d") \in WaJob /\ Job("refresh", "d").path \in WaPaths \ {"r"}
      BY <1>2, IntentsAreJobs
    <3> QED BY <2>0, <3>1, TypedIntent DEF WaTyped
  <2>2. ver' \in [WaFiles -> 0..WaMaxVer]
    BY <1>2, <2>0 DEF WaTyped, DiskTyped
  <2>3. DiskTyped'
    BY <1>2, <2>0, <2>2 DEF WaTyped, DiskTyped, EventUnchanged
  <2> QED BY <1>1, <2>0, <2>1, <2>3 DEF WaTyped
<1>7. ASSUME MoveDirOut PROVE WaTyped'
  <2>0. /\ dirThere' = FALSE /\ ver' = [p \in WaFiles |-> IF p = "g" THEN 0 ELSE ver[p]]
        /\ dispatch_notify_event("r" \in watched, <<Job("delete", "d")>>)
        /\ EventUnchanged /\ watched' = watched \ {"d"}
    BY <1>7, EventsOf
  <2>1. RawTyped'
    <3>1. Job("delete", "d") \in WaJob /\ Job("delete", "d").path \in WaPaths \ {"r"}
      BY <1>2, IntentsAreJobs
    <3> QED BY <2>0, <3>1, TypedIntent DEF WaTyped
  <2>2. ver' \in [WaFiles -> 0..WaMaxVer]
    BY <1>2, <2>0 DEF WaTyped, DiskTyped
  <2>3. "g" \in WaFiles => ver'["g"] = 0
    BY <2>0
  <2>4. watched' \subseteq Dirs /\ "r" \in watched' /\ UNCHANGED docs
    BY <2>0 DEF WaTyped, DiskTyped, EventUnchanged
  <2>5. DiskTyped'
    <3>1. dirThere' \in BOOLEAN /\ ("g" \in WaFiles /\ ver'["g"] > 0 => dirThere')
      <4>1. dirThere' \in BOOLEAN
        BY <2>0, Zenon
      <4>2. "g" \in WaFiles => ~(ver'["g"] > 0)
        BY <2>3
      <4> QED BY <4>1, <4>2, Zenon
    <3>2. docs' \in [WaIds -> 0..WaMaxVer]
      BY <2>4 DEF WaTyped, DiskTyped
    <3> QED BY <2>2, <2>4, <3>1, <3>2 DEF DiskTyped
  <2> QED BY <1>1, <2>0, <2>1, <2>5 DEF WaTyped
<1> QED BY <1>3, <1>4, <1>5, <1>6, <1>7

LEMMA TypedCoalescer ==
    ASSUME WaTyped, AddWatch \/ CoalescerReceives \/ FlushTick \/ CoalescerSends
    PROVE  WaTyped'
<1> USE DEF WaTyped
<1>1. CASE AddWatch
  <2>1. CtrlTyped'
    <3>1. Tail(ctrl) \in Seq(Dirs) /\ Len(Tail(ctrl)) = Len(ctrl) - 1 /\ Len(ctrl) \in Nat
      BY <1>1, HeadTailProperties, LenProperties DEF AddWatch, CtrlTyped
    <3> QED BY <1>1, <3>1, WaAssumption DEF AddWatch, CtrlTyped
  <2>2. Head(ctrl) \in Dirs
    BY <1>1, HeadTailProperties DEF AddWatch, CtrlTyped
  <2>3. DiskTyped'
    BY <1>1, <2>2 DEF AddWatch, DiskTyped
  <2>4. RawTyped' /\ CoalescerTyped' /\ ResolversTyped'
    BY <1>1 DEF AddWatch, RawTyped, CoalescerTyped, ResolversTyped
  <2> QED BY <2>1, <2>3, <2>4
<1>2. CASE CoalescerReceives
  <2>1. /\ Tail(raw) \in Seq(WaJob) /\ Head(raw) \in WaJob /\ Len(Tail(raw)) = Len(raw) - 1 /\ Len(raw) \in Nat
        /\ Head(raw).path \in WaPaths \ {"r"}
        /\ \A i \in 1..(Len(raw) - 1) : Tail(raw)[i] = raw[i + 1]
        /\ DOMAIN Tail(raw) = 1..(Len(raw) - 1) /\ DOMAIN raw = 1..Len(raw)
    <3>1. raw \in Seq(WaJob) /\ raw # <<>>
      BY <1>2 DEF CoalescerReceives, RawTyped
    <3>2. Len(raw) \in Nat \ {0} /\ Head(raw) = raw[1] /\ DOMAIN raw = 1..Len(raw)
      BY <3>1, EmptySeq, LenProperties
    <3>3. raw[1].path \in WaPaths \ {"r"}
      BY <3>2 DEF RawTyped
    <3> QED BY <3>1, <3>2, <3>3, HeadTailProperties, LenProperties
  <2>2. RawTyped'
    <3> DEFINE t == Tail(raw)
    <3>1. \A i \in DOMAIN t : t[i].path \in WaPaths \ {"r"}
      BY <2>1 DEF RawTyped
    <3> HIDE DEF t
    <3>2. raw' = t /\ UNCHANGED <<overflow, overtaken>> /\ waExcused' \subseteq WaFiles
      BY <1>2 DEF CoalescerReceives, RawTyped, Concerned, t
    <3>3. t \in Seq(WaJob) /\ Len(t) <= WaRawCap
      BY <2>1, WaAssumption DEF t, RawTyped
    <3> QED BY <3>1, <3>2, <3>3 DEF RawTyped
  <2>3. CoalescerTyped'
    BY <1>2, <2>1 DEF CoalescerReceives, CoalescerTyped, WaJob
  <2>4. DiskTyped' /\ ResolversTyped' /\ CtrlTyped'
    BY <1>2 DEF CoalescerReceives, DiskTyped, ResolversTyped, CtrlTyped
  <2> QED BY <2>2, <2>3, <2>4
<1>3. CASE FlushTick
  <2>1. \A p \in WaPaths \ {"r"} : fs_doc_id(p) \in Removable
    BY WaAssumption DEF WaPaths, fs_doc_id, Canonical, Removable, WaIds, Dirs
  <2>2. outbox' \subseteq WaJob
    <3> SUFFICES ASSUME NEW p \in drop_descendant_deletes(pending)
                 PROVE  Job(pending[p], IF pending[p] = "delete" THEN fs_doc_id(p) ELSE p) \in WaJob
      BY <1>3 DEF FlushTick
    <3>1. p \in WaPaths \ {"r"} /\ pending[p] \in {"refresh", "delete"}
      BY DEF drop_descendant_deletes, CoalescerTyped
    <3> QED BY <2>1, <3>1 DEF Job, WaJob
  <2>3. CoalescerTyped'
    <3>1. pending' = <<>> /\ rootDue' \in BOOLEAN
      BY <1>3 DEF FlushTick, RawTyped
    <3>2. DOMAIN pending' = {}
      BY <3>1
    <3> QED BY <2>2, <3>1, <3>2 DEF CoalescerTyped
  <2>4. RawTyped'
    BY <1>3 DEF FlushTick, RawTyped, Concerned
  <2>5. DiskTyped' /\ ResolversTyped' /\ CtrlTyped'
    BY <1>3 DEF FlushTick, DiskTyped, ResolversTyped, CtrlTyped
  <2> QED BY <2>3, <2>4, <2>5
<1>4. CASE CoalescerSends
  <2>1. PICK j \in WaJob : waJobs' = Append(waJobs, j)
    <3>1. Job("refresh", "r") \in WaJob
      BY IntentsAreJobs DEF WaPaths, Dirs
    <3> QED BY <1>4, <3>1 DEF CoalescerSends, CoalescerTyped
  <2>2. ResolversTyped'
    <3>1. Append(waJobs, j) \in Seq(WaJob) /\ Len(Append(waJobs, j)) = Len(waJobs) + 1 /\ Len(waJobs) \in Nat
      BY AppendProperties, LenProperties DEF ResolversTyped
    <3> HIDE DEF WaTyped
    <3>2. Len(waJobs) < WaJobCap /\ UNCHANGED <<work, aliases>>
      BY <1>4 DEF CoalescerSends
    <3> QED BY <2>1, <3>1, <3>2, WaAssumption DEF ResolversTyped, WaTyped
  <2>3. CoalescerTyped'
    BY <1>4 DEF CoalescerSends, CoalescerTyped
  <2>4. DiskTyped' /\ RawTyped' /\ CtrlTyped'
    BY <1>4 DEF CoalescerSends, DiskTyped, RawTyped, CtrlTyped
  <2> QED BY <2>2, <2>3, <2>4
<1> QED BY <1>1, <1>2, <1>3, <1>4

LEMMA TypedResolver ==
    ASSUME WaTyped, NEW w \in WaResolvers,
           ResolverTakes(w) \/ resolve_refresh(w) \/ SendMutation(w) \/ SendSubtree(w)
    PROVE  WaTyped'
<1> USE DEF WaTyped
<1>0. /\ Idle \in Resolving /\ Idle.at = "idle" /\ work[w] \in Resolving
      /\ WaFiles \subseteq WaPaths /\ WaFiles \subseteq WaIds /\ WaPaths \subseteq {"f", "g", "l", "r", "d"} /\ WaJobCap \in Nat
  BY WaAssumption DEF Idle, Resolving, ResolversTyped, WaPaths, WaIds, Dirs
<1>1. CASE ResolverTakes(w)
  <2>1. Head(waJobs) \in WaJob /\ Tail(waJobs) \in Seq(WaJob) /\ Len(Tail(waJobs)) = Len(waJobs) - 1 /\ Len(waJobs) \in Nat
    BY <1>1, HeadTailProperties, LenProperties DEF ResolverTakes, ResolversTyped
  <2> DEFINE t == [Idle EXCEPT !.at = Head(waJobs).kind, !.path = Head(waJobs).path]
  <2>2. t \in Resolving /\ t.at \in {"refresh", "delete"}
        /\ (t.at = "refresh" => t.path \in WaPaths) /\ (t.at = "delete" => t.path \in Removable)
    BY <1>0, <2>1 DEF Idle, Resolving, WaJob, Removable, WaPaths, Dirs
  <2>3. work' = [work EXCEPT ![w] = t] /\ waJobs' = Tail(waJobs) /\ UNCHANGED aliases
    BY <1>1 DEF ResolverTakes
  <2> HIDE DEF t
  <2>4. ResolversTyped'
    BY <1>0, <2>1, <2>2, <2>3 DEF ResolversTyped
  <2>5. RawTyped'
    BY <1>1 DEF ResolverTakes, RawTyped, Touches, Concerned
  <2>6. DiskTyped' /\ CoalescerTyped' /\ CtrlTyped'
    BY <1>1 DEF ResolverTakes, DiskTyped, CoalescerTyped, CtrlTyped
  <2> QED BY <2>4, <2>5, <2>6
<1>2. CASE resolve_refresh(w)
  <2> DEFINE p == work[w].path
  <2>0. work[w].at = "refresh" /\ p \in WaPaths
    BY <1>2 DEF resolve_refresh, ResolversTyped
  <2>1. UNCHANGED waJobs /\ DiskTyped' /\ CoalescerTyped'
    BY <1>2 DEF resolve_refresh, DiskTyped, CoalescerTyped
  <2>2. CASE ~Exists(p)
    <3>1. /\ work' = [work EXCEPT ![w].at = "delete", ![w].path = GoneId(p)]
          /\ aliases' = GoneAliases(p) /\ UNCHANGED <<ctrl, ctrlLost, waExcused, raw, overflow, overtaken>>
      BY <1>2, <2>2 DEF resolve_refresh
    <3>2. p # "r"
      BY <2>2 DEF Exists
    <3>3. GoneId(p) \in Removable
      BY <1>0, <2>0, <2>2, <3>2 DEF GoneId, fs_doc_id, Removable, WaIds, ResolversTyped
    <3>4. DOMAIN aliases' \subseteq {"l"} /\ \A q \in DOMAIN aliases' : aliases'[q] = "t"
      BY <3>1 DEF GoneAliases, forget_alias, ResolversTyped
    <3> DEFINE t == [work[w] EXCEPT !.at = "delete", !.path = GoneId(p)]
    <3>5. t \in Resolving /\ t.at = "delete" /\ t.path \in Removable
      BY <1>0, <3>3 DEF Resolving, Removable, WaPaths, Dirs
    <3>6. work' = [work EXCEPT ![w] = t]
      BY <3>1 DEF ResolversTyped
    <3> HIDE DEF t, p
    <3>7. ResolversTyped'
      BY <2>1, <3>4, <3>5, <3>6 DEF ResolversTyped
    <3> QED BY <2>1, <3>1, <3>7 DEF RawTyped, CtrlTyped
  <2>3. CASE Exists(p) /\ p \in WaFiles
    <3>0. p \notin Dirs
      BY <2>3, WaAssumption DEF Dirs
    <3>1. /\ work' = [work EXCEPT ![w].at = "file", ![w].v = ver[p]]
          /\ aliases' = (IF Canonical(p) = p THEN aliases ELSE note(p))
          /\ UNCHANGED <<ctrl, ctrlLost, waExcused, raw, overflow, overtaken>>
      BY <1>2, <2>3, <3>0 DEF resolve_refresh
    <3>4. DOMAIN aliases' \subseteq {"l"} /\ \A q \in DOMAIN aliases' : aliases'[q] = "t"
      BY <3>1 DEF note, Canonical, ResolversTyped
    <3> DEFINE t == [work[w] EXCEPT !.at = "file", !.v = ver[p]]
    <3>5. t \in Resolving /\ t.at = "file" /\ t.path \in WaFiles
      BY <1>0, <2>3 DEF Resolving, DiskTyped
    <3>6. work' = [work EXCEPT ![w] = t]
      BY <3>1 DEF ResolversTyped
    <3> HIDE DEF t, p
    <3>7. ResolversTyped'
      BY <2>1, <3>4, <3>5, <3>6 DEF ResolversTyped
    <3> QED BY <2>1, <3>1, <3>7 DEF RawTyped, CtrlTyped
  <2>4. CASE Exists(p) /\ p \in Dirs
    <3>0. p \notin WaFiles
      BY <2>4, WaAssumption DEF Dirs
    <3> DEFINE t == IF FilesUnder(p) = {} THEN Idle ELSE [work[w] EXCEPT !.at = "expand", !.todo = FilesUnder(p)]
    <3>1. /\ AskToWatch(SubdirsOf(p)) /\ work' = [work EXCEPT ![w] = t]
          /\ waExcused' = waExcused \ FilesUnder(p) /\ UNCHANGED <<aliases, raw, overflow, overtaken>>
      BY <1>2, <2>4, <3>0 DEF resolve_refresh
    <3>2. t \in Resolving /\ t.at \in {"idle", "expand"}
      BY <1>0 DEF Resolving, FilesUnder
    <3>3. CtrlTyped'
      <4>1. SubdirsOf(p) \subseteq Dirs
        BY DEF SubdirsOf
      <4> QED BY <3>1, <4>1, AskKeepsTypes DEF CtrlTyped
    <3> HIDE DEF t, p
    <3>7. ResolversTyped'
      BY <2>1, <3>1, <3>2 DEF ResolversTyped
    <3> QED BY <2>1, <3>1, <3>3, <3>7 DEF RawTyped
  <2> QED BY <2>0, <2>2, <2>3, <2>4 DEF WaPaths
<1>3. CASE SendMutation(w)
  <2>1. work' = [work EXCEPT ![w] = Idle] /\ UNCHANGED <<waJobs, aliases>>
    BY <1>3 DEF SendMutation
  <2>2. ResolversTyped'
    BY <1>0, <2>1 DEF ResolversTyped
  <2>3. docs' \in [WaIds -> 0..WaMaxVer]
    <3>1. work[w].v \in 0..WaMaxVer /\ 0 \in 0..WaMaxVer
      BY <1>0, WaAssumption DEF Resolving
    <3> QED BY <1>3, <3>1 DEF SendMutation, DiskTyped
  <2>4. DiskTyped' /\ RawTyped' /\ CoalescerTyped' /\ CtrlTyped'
    BY <1>3, <2>3 DEF SendMutation, DiskTyped, RawTyped, CoalescerTyped, CtrlTyped
  <2> QED BY <2>2, <2>4
<1>4. CASE SendSubtree(w)
  <2>1. PICK x \in work[w].todo :
           /\ waJobs' = Append(waJobs, Job("refresh", x))
           /\ work' = [work EXCEPT ![w] = IF work[w].todo = {x} THEN Idle
                                             ELSE [work[w] EXCEPT !.todo = work[w].todo \ {x}]]
    BY <1>4 DEF SendSubtree
  <2> DEFINE t == IF work[w].todo = {x} THEN Idle ELSE [work[w] EXCEPT !.todo = work[w].todo \ {x}]
  <2>2. t \in Resolving /\ t.at \in {"idle", "expand"}
    BY <1>0, <1>4 DEF Resolving, SendSubtree
  <2>3. work' = [work EXCEPT ![w] = t]
    BY <2>1
  <2>8. UNCHANGED aliases /\ Len(waJobs) < WaJobCap
    BY <1>4 DEF SendSubtree
  <2>4. x \in WaPaths
    BY <1>0 DEF Resolving
  <2>5. waJobs' \in Seq(WaJob) /\ Len(waJobs') = Len(waJobs) + 1 /\ Len(waJobs) \in Nat
    BY <2>1, <2>4, IntentsAreJobs, AppendProperties, LenProperties DEF ResolversTyped
  <2> HIDE DEF t
  <2>6. ResolversTyped'
    BY <1>0, <2>2, <2>3, <2>5, <2>8 DEF ResolversTyped
  <2>7. DiskTyped' /\ RawTyped' /\ CoalescerTyped' /\ CtrlTyped'
    BY <1>4 DEF SendSubtree, DiskTyped, RawTyped, CoalescerTyped, CtrlTyped
  <2> QED BY <2>6, <2>7
<1> QED BY <1>1, <1>2, <1>3, <1>4

--------------------------------------------------------------------------------
(***************************************************************************)
(* Deletions and the refreshes that answer them, on their way to the queue.*)
(***************************************************************************)
LEMMA JobsOn ==
    /\ \A h \in WaJob : h = Job(h.kind, h.path) /\ h.kind \in {"refresh", "delete"}
    /\ \A x, p, kind : Job(kind, p) \in Refs(x) <=> kind = "refresh" /\ p \in Over(x)
    /\ \A x, p, kind : Job(kind, p) \in Dels(x) <=> kind = "delete" /\ p \in Over(x)
    /\ \A p, kind : Job(kind, p) \in RefreshD <=> kind = "refresh" /\ p = "d"
    /\ \A p, kind : Job(kind, p) \in DeleteD <=> kind = "delete" /\ p = "d"
<1>1. \A h \in WaJob : h = Job(h.kind, h.path) /\ h.kind \in {"refresh", "delete"}
  BY DEF WaJob, Job
<1>2. \A k1, k2, p1, p2 : Job(k1, p1) = Job(k2, p2) <=> k1 = k2 /\ p1 = p2
  BY DEF Job
<1> QED BY <1>1, <1>2 DEF Refs, Dels, RefreshD, DeleteD

LEMMA AnsweredStays ==
    ASSUME Answered, UNCHANGED <<raw, pending, overflow, overtaken, ver, dirThere>>,
           outbox' \subseteq outbox, watched \subseteq watched'
    PROVE  Answered'
<1>1. \A x : NoDelYet(x) => NoDelYet(x)'
  BY DEF NoDelYet, PendingDel, Intended
<1>2. \A x : RefreshAhead(x) => RefreshAhead(x)'
  BY DEF RefreshAhead, PendingRef, Intended
<1>3. DirAnswered'
  BY DEF Answered, DirAnswered, DirAhead, Intended
<1>4. UnseenAnswered'
  BY <1>1 DEF Answered, UnseenAnswered, Intended
<1>5. \A x \in Followed : FileAnswered(x)'
  BY <1>1, <1>2 DEF Answered, FileAnswered
<1> QED BY <1>3, <1>4, <1>5 DEF Answered

LEMMA AfterReceive ==
    ASSUME WaTyped, CoalescerReceives, NEW A, NEW B
    PROVE  /\ Head(raw) \in WaJob
           /\ LastWord(raw, A, B) => LastWord(raw, A, B)' \/ (Head(raw) \in A /\ None(raw, B)')
           /\ None(raw, B) <=> Head(raw) \notin B /\ None(raw, B)'
           /\ \A p, kind : Intended(p, kind)' <=> IF p = Head(raw).path THEN kind = Head(raw).kind ELSE Intended(p, kind)
<1>1. raw \in Seq(WaJob) /\ raw # <<>> /\ raw' = Tail(raw)
  BY DEF CoalescerReceives, WaTyped, RawTyped
<1>2. /\ Head(raw) \in WaJob
      /\ LastWord(raw, A, B) => LastWord(Tail(raw), A, B) \/ (Head(raw) \in A /\ None(Tail(raw), B))
      /\ None(raw, B) <=> Head(raw) \notin B /\ None(Tail(raw), B)
  BY <1>1, LastOfTail
<1>3. pending' = [p \in DOMAIN pending \cup {Head(raw).path} |->
                     IF p = Head(raw).path THEN Head(raw).kind ELSE pending[p]]
  BY DEF CoalescerReceives
<1>4. \A p, kind : Intended(p, kind)' <=> IF p = Head(raw).path THEN kind = Head(raw).kind ELSE Intended(p, kind)
  BY <1>3 DEF Intended
<1> QED BY <1>1, <1>2, <1>4

LEMMA ReceiveKeeps ==
    ASSUME WaTyped, CoalescerReceives, NEW x
    PROVE  /\ NoDelYet(x) => NoDelYet(x)'
           /\ RefreshAhead(x) => RefreshAhead(x)'
           /\ DirAhead => DirAhead'
<1> DEFINE h == Head(raw)
<1>0. h \in WaJob /\ h = Job(h.kind, h.path) /\ UNCHANGED <<overflow, outbox>>
  BY AfterReceive, JobsOn DEF CoalescerReceives
<1>1. \A p, kind : Intended(p, kind)' <=> IF p = h.path THEN kind = h.kind ELSE Intended(p, kind)
  BY AfterReceive
<1>2. \A A, B : /\ LastWord(raw, A, B) => LastWord(raw, A, B)' \/ (h \in A /\ None(raw, B)')
                /\ None(raw, B) <=> h \notin B /\ None(raw, B)'
  BY AfterReceive
<1>3. /\ h \in Refs(x) <=> h.kind = "refresh" /\ h.path \in Over(x)
      /\ h \in Dels(x) <=> h.kind = "delete" /\ h.path \in Over(x)
      /\ h \in RefreshD <=> h.kind = "refresh" /\ h.path = "d"
      /\ h \in DeleteD <=> h.kind = "delete" /\ h.path = "d"
      /\ h.kind \in {"refresh", "delete"}
  BY <1>0, JobsOn
<1> HIDE DEF h
<1>4. ASSUME NoDelYet(x) PROVE NoDelYet(x)'
  <2>1. None(raw, Dels(x))' /\ h \notin Dels(x)
    BY <1>2, <1>4 DEF NoDelYet
  <2>2. ~PendingDel(x)'
    BY <1>1, <1>3, <1>4, <2>1 DEF NoDelYet, PendingDel
  <2> QED BY <1>0, <1>4, <2>1, <2>2 DEF NoDelYet
<1>5. ASSUME RefreshAhead(x) PROVE RefreshAhead(x)'
  <2>1. CASE overflow
    BY <1>0, <2>1 DEF RefreshAhead
  <2>2. CASE LastWord(raw, Refs(x), Dels(x))
    <3>1. CASE LastWord(raw, Refs(x), Dels(x))'
      BY <3>1 DEF RefreshAhead
    <3>2. CASE h \in Refs(x) /\ None(raw, Dels(x))'
      <4>1. PICK p \in Over(x) : p = h.path /\ h.kind = "refresh"
        BY <1>3, <3>2
      <4>2. Intended(p, "refresh")'
        BY <1>1, <4>1
      <4> QED BY <3>2, <4>1, <4>2 DEF RefreshAhead, PendingRef
    <3> QED BY <1>2, <2>2, <3>1, <3>2
  <2>3. CASE None(raw, Dels(x)) /\ PendingRef(x)
    <3>1. h \notin Dels(x) /\ None(raw, Dels(x))'
      BY <1>2, <2>3
    <3>2. PICK p \in Over(x) : Intended(p, "refresh")
      BY <2>3 DEF PendingRef
    <3>3. Intended(p, "refresh")'
      BY <1>1, <1>3, <3>1, <3>2
    <3> QED BY <3>1, <3>2, <3>3 DEF RefreshAhead, PendingRef
  <2> QED BY <1>5, <2>1, <2>2, <2>3 DEF RefreshAhead
<1>6. ASSUME DirAhead PROVE DirAhead'
  <2>2. CASE overflow
    BY <1>0, <2>2 DEF DirAhead
  <2>3. CASE LastWord(raw, RefreshD, DeleteD)
    BY <1>1, <1>2, <1>3, <2>3 DEF DirAhead
  <2>4. CASE None(raw, DeleteD) /\ Intended("d", "refresh")
    BY <1>1, <1>2, <1>3, <2>4 DEF DirAhead
  <2> QED BY <1>6, <2>2, <2>3, <2>4 DEF DirAhead
<1> QED BY <1>4, <1>5, <1>6

LEMMA AnsweredReceive ==
    ASSUME WaTyped, Answered, CoalescerReceives
    PROVE  Answered'
<1> DEFINE h == Head(raw)
<1>0. h \in WaJob /\ h = Job(h.kind, h.path) /\ UNCHANGED <<overflow, overtaken, outbox, ver, dirThere, watched>>
  BY AfterReceive, JobsOn DEF CoalescerReceives
<1>1. \A p, kind : Intended(p, kind)' <=> IF p = h.path THEN kind = h.kind ELSE Intended(p, kind)
  BY AfterReceive
<1>2. \A A, B : /\ LastWord(raw, A, B) => LastWord(raw, A, B)' \/ (h \in A /\ None(raw, B)')
                /\ None(raw, B) <=> h \notin B /\ None(raw, B)'
  BY AfterReceive
<1>3. /\ \A x : h \in Refs(x) <=> h.kind = "refresh" /\ h.path \in Over(x)
      /\ \A x : h \in Dels(x) <=> h.kind = "delete" /\ h.path \in Over(x)
      /\ h \in RefreshD <=> h.kind = "refresh" /\ h.path = "d"
      /\ h \in DeleteD <=> h.kind = "delete" /\ h.path = "d"
      /\ h.kind \in {"refresh", "delete"}
  BY <1>0, JobsOn
<1> HIDE DEF h
<1>4. \A x : (NoDelYet(x) => NoDelYet(x)') /\ (RefreshAhead(x) => RefreshAhead(x)') /\ (DirAhead => DirAhead')
  BY ReceiveKeeps
<1>6. DirAnswered'
  <2> SUFFICES ASSUME dirThere PROVE DirAhead' \/ (None(raw, DeleteD)' /\ ~Intended("d", "delete")')
    BY <1>0 DEF DirAnswered
  <2>1. DirAhead \/ (None(raw, DeleteD) /\ ~Intended("d", "delete"))
    BY DEF Answered, DirAnswered
  <2>2. CASE DirAhead
    BY <1>4, <2>2
  <2>3. CASE None(raw, DeleteD) /\ ~Intended("d", "delete")
    BY <1>1, <1>2, <1>3, <2>3
  <2> QED BY <2>1, <2>2, <2>3
<1>7. UnseenAnswered'
  <2> SUFFICES ASSUME "g" \in Followed \ overtaken, dirThere, "d" \notin watched
               PROVE  \/ NoDelYet("g")'
                      \/ overflow'
                      \/ LastWord(raw, RefreshD, Dels("g"))'
                      \/ None(raw, Dels("g"))' /\ Intended("d", "refresh")'
    BY <1>0 DEF UnseenAnswered
  <2>0. "d" \in Over("g")
    BY Paths
  <2>1. CASE NoDelYet("g")
    BY <1>4, <2>1
  <2>2. CASE overflow
    BY <1>0, <2>2
  <2>3. CASE LastWord(raw, RefreshD, Dels("g"))
    BY <1>1, <1>2, <1>3, <2>3
  <2>4. CASE None(raw, Dels("g")) /\ Intended("d", "refresh")
    BY <1>1, <1>2, <1>3, <2>0, <2>4
  <2> QED BY <2>1, <2>2, <2>3, <2>4 DEF Answered, UnseenAnswered
<1>8. \A x \in Followed : FileAnswered(x)'
  BY <1>0, <1>4 DEF Answered, FileAnswered
<1> QED BY <1>6, <1>7, <1>8 DEF Answered

LEMMA AfterFlush ==
    ASSUME WaTyped, FlushTick, NEW x \in Followed
    PROVE  /\ outbox' \cap Dels(x) # {} => PendingDel(x)
           /\ x \notin overtaken' => /\ x \notin overtaken
                                     /\ \A p \in Over(x) : Intended(p, "delete") =>
                                           ~overflow /\ \A u \in Above(p) : ~Intended(u, "refresh")
<1>1. \A p \in WaPaths : fs_doc_id(p) \in Over(x) => fs_doc_id(p) = p
  BY Paths DEF fs_doc_id, Canonical, Over
<1>2. \A j \in outbox' : \E p \in DOMAIN pending :
          j = Job(pending[p], IF pending[p] = "delete" THEN fs_doc_id(p) ELSE p)
  BY DEF FlushTick, drop_descendant_deletes
<1>3. ASSUME NEW j \in outbox', j \in Dels(x) PROVE PendingDel(x)
  <2>1. PICK p \in DOMAIN pending : j = Job(pending[p], IF pending[p] = "delete" THEN fs_doc_id(p) ELSE p)
    BY <1>2
  <2>2. pending[p] = "delete" /\ fs_doc_id(p) \in Over(x)
    BY <1>3, <2>1, JobsOn
  <2>3. p \in WaPaths
    BY DEF WaTyped, CoalescerTyped
  <2> QED BY <1>1, <2>2, <2>3 DEF PendingDel, Intended
<1>4. ASSUME x \notin overtaken', NEW p \in Over(x), Intended(p, "delete")
      PROVE  ~overflow /\ \A u \in Above(p) : ~Intended(u, "refresh")
  <2>1. p \in WaPaths /\ x \in Concerned(p)
    BY Paths
  <2>2. p \in DOMAIN pending /\ pending[p] = "delete"
    BY <1>4 DEF Intended
  <2>3. ~(overflow \/ \E u \in Above(p) \cap DOMAIN pending : pending[u] = "refresh")
    BY <1>4, <2>1, <2>2 DEF FlushTick
  <2> QED BY <2>3 DEF Intended
<1>5. overtaken \subseteq overtaken'
  BY DEF FlushTick
<1> QED BY <1>3, <1>4, <1>5

LEMMA AnsweredFlush ==
    ASSUME WaTyped, Answered, FlushTick
    PROVE  Answered'
<1>1. raw = <<>> /\ raw' = <<>> /\ pending' = <<>> /\ UNCHANGED <<ver, dirThere, watched>>
  BY DEF FlushTick
<1>2. \A A, B : None(raw, B) /\ None(raw, B)' /\ ~LastWord(raw, A, B)
  BY <1>1, LastOfEmpty
<1>3. \A p, kind : ~Intended(p, kind)'
  <2>1. DOMAIN pending' = {}
    BY <1>1
  <2> QED BY <2>1 DEF Intended
<1>4. ASSUME NEW x \in Followed, ~PendingDel(x) PROVE NoDelYet(x)'
  BY <1>2, <1>3, <1>4, AfterFlush DEF NoDelYet, PendingDel
<1>5. ASSUME NEW p, Intended(p, "delete") PROVE ~Intended(p, "refresh")
  BY <1>5 DEF Intended
<1>6. DirAnswered'
  BY <1>2, <1>3 DEF DirAnswered
<1>7. UnseenAnswered'
  <2> SUFFICES ASSUME "g" \in Followed \ overtaken', dirThere, "d" \notin watched PROVE ~PendingDel("g")
    BY <1>1, <1>4 DEF UnseenAnswered
  <2>1. "g" \notin overtaken /\ \A p \in Over("g") : Intended(p, "delete") =>
                                  ~overflow /\ \A u \in Above(p) : ~Intended(u, "refresh")
    BY AfterFlush
  <2>2. NoDelYet("g") \/ overflow \/ Intended("d", "refresh")
    BY <1>2, <2>1 DEF Answered, UnseenAnswered
  <2>3. Over("g") = {"g", "r", "d"} /\ "d" \in Above("g") /\ ~Intended("r", "delete")
    BY Paths DEF WaTyped, CoalescerTyped, Intended
  <2>4. CASE NoDelYet("g")
    BY <2>4 DEF NoDelYet
  <2>5. CASE overflow
    BY <2>1, <2>5 DEF PendingDel
  <2>6. CASE Intended("d", "refresh")
    BY <1>5, <2>1, <2>3, <2>6 DEF PendingDel
  <2> QED BY <2>2, <2>4, <2>5, <2>6
<1>8. ASSUME NEW x \in Followed PROVE FileAnswered(x)'
  <2> SUFFICES ASSUME x \notin overtaken', ver[x] > 0 PROVE ~PendingDel(x)
    BY <1>1, <1>4 DEF FileAnswered
  <2>1. x \notin overtaken /\ \A p \in Over(x) : Intended(p, "delete") =>
                                  ~overflow /\ \A u \in Above(p) : ~Intended(u, "refresh")
    BY AfterFlush
  <2>2. NoDelYet(x) \/ overflow \/ PendingRef(x)
    BY <1>2, <2>1 DEF Answered, FileAnswered, RefreshAhead
  <2>3. ~Intended("r", "delete") /\ ~Intended("r", "refresh")
    BY DEF WaTyped, CoalescerTyped, Intended
  <2>4. CASE NoDelYet(x)
    BY <2>4 DEF NoDelYet
  <2>5. CASE overflow
    BY <2>1, <2>5 DEF PendingDel
  <2>6. CASE PendingRef(x)
    <3> SUFFICES ASSUME NEW p \in Over(x), Intended(p, "delete"), NEW q \in Over(x), Intended(q, "refresh")
                 PROVE  FALSE
      BY <2>6 DEF PendingRef, PendingDel
    <3>1. x = "g" /\ p # q /\ p \in {"g", "d"} /\ q \in {"g", "d"}
      <4>1. x \in {"f", "g"} /\ (x = "f" => Over(x) = {"f", "r"}) /\ (x = "g" => Over(x) = {"g", "r", "d"})
        BY Paths
      <4> QED BY <1>5, <2>3, <4>1
    <3>2. CASE p = "g" /\ q = "d"
      BY <2>1, <3>1, <3>2, Paths
    <3>3. CASE p = "d" /\ q = "g"
      <4>1. dirThere
        BY <3>1 DEF WaTyped, DiskTyped, Followed
      <4>2. overflow \/ Intended("d", "refresh") \/ ~Intended("d", "delete")
        BY <1>2, <4>1 DEF Answered, DirAnswered, DirAhead
      <4> QED BY <1>5, <2>1, <3>3, <4>2
    <3> QED BY <3>1, <3>2, <3>3
  <2> QED BY <2>2, <2>4, <2>5, <2>6
<1> QED BY <1>6, <1>7, <1>8 DEF Answered

--------------------------------------------------------------------------------
(***************************************************************************)
(* Changes on disk.                                                        *)
(***************************************************************************)

\* A change in a directory that is not watched.
Unseen(j) ==
    /\ UNCHANGED <<raw, overflow, overtaken>>
    /\ waExcused' = waExcused \cup Concerned(j.path)

LEMMA AnIntent ==
    ASSUME WaTyped, NEW j \in WaJob, NEW dir, dispatch_notify_event(dir \in watched, <<j>>)
    PROVE  \/ dir \in watched /\ (Kept(j) \/ Lost(j))
           \/ dir \notin watched /\ Unseen(j)
<1>1. CASE dir \in watched
  <2>1. dispatch_notify_event(TRUE, <<j>>)
    BY <1>1 DEF dispatch_notify_event
  <2>2. Kept(j) \/ Lost(j)
    BY <2>1, OneIntent DEF WaTyped, RawTyped
  <2> QED BY <1>1, <2>2
<1>2. CASE dir \notin watched
  <2>1. UNCHANGED <<raw, overflow, overtaken>>
    BY <1>2 DEF dispatch_notify_event
  <2>2. waExcused' = waExcused \cup UNION {Concerned(<<j>>[i].path) : i \in DOMAIN <<j>>}
    BY <1>2 DEF dispatch_notify_event
  <2>3. UNION {Concerned(<<j>>[i].path) : i \in DOMAIN <<j>>} = Concerned(j.path)
    <3>1. DOMAIN <<j>> = {1} /\ <<j>>[1] = j
      OBVIOUS
    <3> QED BY <3>1
  <2> QED BY <1>2, <2>1, <2>2, <2>3 DEF Unseen
<1> QED BY <1>1, <1>2

LEMMA AfterIntent ==
    ASSUME WaTyped, NEW j \in WaJob, Kept(j) \/ Lost(j) \/ Unseen(j), EventUnchanged, NEW A, NEW B
    PROVE  /\ overflow => overflow'
           /\ j \in A => Unseen(j) \/ overflow' \/ LastWord(raw, A, B)'
           /\ j \in A => Unseen(j) \/ Lost(j) \/ LastWord(raw, A, B)'
           /\ j \notin B /\ LastWord(raw, A, B) => LastWord(raw, A, B)'
           /\ j \notin B /\ None(raw, B) => None(raw, B)'
           /\ ~None(raw, B) => ~None(raw, B)'
           /\ j \in B => Unseen(j) \/ Lost(j) \/ ~None(raw, B)'
           /\ \A p, kind : Intended(p, kind)' <=> Intended(p, kind)
<1>1. \A p, kind : Intended(p, kind)' <=> Intended(p, kind)
  BY DEF EventUnchanged, Intended
<1>2. CASE Kept(j)
  <2>1. raw \in Seq(WaJob) /\ raw' = Append(raw, j) /\ overflow' = overflow
    BY <1>2 DEF WaTyped, RawTyped, Kept
  <2>2. /\ LastWord(Append(raw, j), A, B) <=> j \in A \/ (j \notin B /\ LastWord(raw, A, B))
        /\ None(Append(raw, j), B) <=> None(raw, B) /\ j \notin B
    BY <2>1, LastOfAppend
  <2>3. /\ LastWord(raw, A, B)' <=> j \in A \/ (j \notin B /\ LastWord(raw, A, B))
        /\ None(raw, B)' <=> None(raw, B) /\ j \notin B
    BY <2>1, <2>2
  <2> QED BY <1>1, <2>1, <2>3
<1>3. CASE Lost(j)
  BY <1>1, <1>3 DEF Lost
<1>4. CASE Unseen(j)
  BY <1>1, <1>4 DEF Unseen
<1> QED BY <1>2, <1>3, <1>4

LEMMA SeenAhead ==
    ASSUME WaTyped, NEW j \in WaJob, Kept(j) \/ Lost(j), NEW A, NEW B, j \in A
    PROVE  overflow' \/ LastWord(raw, A, B)'
<1>1. CASE Kept(j)
  <2>1. raw \in Seq(WaJob) /\ raw' = Append(raw, j)
    BY <1>1 DEF WaTyped, RawTyped, Kept
  <2>2. LastWord(Append(raw, j), A, B)
    BY <2>1, LastOfAppend
  <2> QED BY <2>1, <2>2
<1>2. CASE Lost(j)
  BY <1>2 DEF Lost
<1> QED BY <1>1, <1>2

LEMMA IntentKeeps ==
    ASSUME WaTyped, NEW j \in WaJob, Kept(j) \/ Lost(j) \/ Unseen(j), EventUnchanged, NEW x \in Followed
    PROVE  /\ j \notin Dels(x) /\ NoDelYet(x) => NoDelYet(x)'
           /\ j \notin Dels(x) /\ RefreshAhead(x) => RefreshAhead(x)'
           /\ j \in Refs(x) => Unseen(j) \/ RefreshAhead(x)'
           /\ j \notin Dels(x) /\ ver'[x] = ver[x] /\ PresentFollowed(x) => PresentFollowed(x)'
           /\ j # Job("refresh", x) /\ AbsentFollowed(x) => AbsentFollowed(x)'
<1>0. UNCHANGED <<outbox, rootDue, waJobs, work, docs>>
  BY DEF EventUnchanged
<1>1. \A A, B :
         /\ overflow => overflow'
         /\ j \in A => Unseen(j) \/ overflow' \/ LastWord(raw, A, B)'
         /\ j \notin B /\ LastWord(raw, A, B) => LastWord(raw, A, B)'
         /\ j \notin B /\ None(raw, B) => None(raw, B)'
         /\ ~None(raw, B) => ~None(raw, B)'
  BY AfterIntent
<1>2. \A p, kind : Intended(p, kind)' <=> Intended(p, kind)
  BY AfterIntent
<1>3. j \notin Dels(x) /\ NoDelYet(x) => NoDelYet(x)'
  BY <1>0, <1>1, <1>2 DEF NoDelYet, PendingDel
<1>4. j \notin Dels(x) /\ RefreshAhead(x) => RefreshAhead(x)'
  BY <1>1, <1>2 DEF RefreshAhead, PendingRef
<1>5. j \in Refs(x) => Unseen(j) \/ RefreshAhead(x)'
  BY <1>1 DEF RefreshAhead
<1>6. ASSUME j \notin Dels(x), ver'[x] = ver[x], PresentFollowed(x) PROVE PresentFollowed(x)'
  <2>1. \A w \in WaResolvers : Harms(w, x)' <=> Harms(w, x)
    BY <1>0, <1>6 DEF Harms, At
  <2>2. \A w \in WaResolvers : \A stage : At(w, stage, x)' <=> At(w, stage, x)
    BY <1>0 DEF At
  <2>3. CASE RefreshAhead(x)
    BY <1>4, <1>6, <2>3 DEF PresentFollowed
  <2>4. CASE ~RefreshAhead(x)
    <3>1. NoDelYet(x)'
      BY <1>3, <1>6, <2>4 DEF PresentFollowed
    <3> QED BY <1>0, <1>6, <2>1, <2>2, <2>4, <3>1 DEF PresentFollowed
  <2> QED BY <2>3, <2>4
<1>7. ASSUME j # Job("refresh", x), AbsentFollowed(x) PROVE AbsentFollowed(x)'
  <2>1. \A w \in WaResolvers : \A stage : At(w, stage, x)' <=> At(w, stage, x)
    BY <1>0 DEF At
  <2>2. /\ LastWord(raw, {Job("delete", x)}, {Job("refresh", x)}) => LastWord(raw, {Job("delete", x)}, {Job("refresh", x)})'
        /\ None(raw, {Job("refresh", x)}) => None(raw, {Job("refresh", x)})'
        /\ ~None(raw, Dels(x) \ {Job("delete", x)}) => ~None(raw, Dels(x) \ {Job("delete", x)})'
    BY <1>1, <1>7
  <2> QED BY <1>0, <1>2, <1>7, <2>1, <2>2 DEF AbsentFollowed
<1> QED BY <1>3, <1>4, <1>5, <1>6, <1>7

LEMMA Elsewhere ==
    ASSUME WatcherInv, NEW kind \in {"refresh", "delete"}, NEW p \in WaPaths, Job(kind, p) \in WaJob,
           Kept(Job(kind, p)) \/ Lost(Job(kind, p)) \/ Unseen(Job(kind, p)), EventUnchanged,
           NEW x \in Followed, p \notin Over(x), ver'[x] = ver[x]
    PROVE  FileFollowed(x)' /\ FileAnswered(x)'
<1> DEFINE j == Job(kind, p)
<1>0. j \in WaJob /\ (Kept(j) \/ Lost(j) \/ Unseen(j)) /\ j.kind = kind /\ j.path = p
  BY IntentsAreJobs
<1>1. j \notin Dels(x) /\ j \notin Refs(x) /\ j # Job("refresh", x)
  BY JobsOn, IntentsAreJobs DEF Over
<1> HIDE DEF j
<1>2. x \notin Fixed(j) /\ x \notin Concerned(j.path) /\ x \in WaFiles
  BY <1>0, Paths DEF Fixed, Over
<1>3. (x \in waExcused' <=> x \in waExcused) /\ (x \in overtaken' <=> x \in overtaken)
  BY <1>0, <1>2 DEF Kept, Lost, Unseen
<1>4. FileFollowed(x) /\ FileAnswered(x) /\ WaTyped
  BY DEF WatcherInv, Answered
<1>5. /\ NoDelYet(x) => NoDelYet(x)'
      /\ RefreshAhead(x) => RefreshAhead(x)'
      /\ PresentFollowed(x) => PresentFollowed(x)'
      /\ AbsentFollowed(x) => AbsentFollowed(x)'
  BY <1>0, <1>1, <1>4, IntentKeeps
<1>6. FileAnswered(x)'
  BY <1>3, <1>4, <1>5 DEF FileAnswered
<1>7. FileFollowed(x)'
  BY <1>3, <1>4, <1>5 DEF FileFollowed
<1> QED BY <1>6, <1>7

\* What any intent leaves of the two conjuncts about "d".
LEMMA DirElsewhere ==
    ASSUME WatcherInv, NEW kind \in {"refresh", "delete"}, NEW p \in WaPaths, p # "d", Job(kind, p) \in WaJob,
           Kept(Job(kind, p)) \/ Lost(Job(kind, p)) \/ Unseen(Job(kind, p)), EventUnchanged,
           UNCHANGED <<dirThere, watched>>
    PROVE  DirAnswered' /\ DirRequested'
<1> DEFINE j == Job(kind, p)
<1>0. j \in WaJob /\ (Kept(j) \/ Lost(j) \/ Unseen(j)) /\ j \notin RefreshD /\ j \notin DeleteD
  BY JobsOn
<1> HIDE DEF j
<1>1. WaTyped /\ DirAnswered /\ DirRequested
  BY DEF WatcherInv, Answered
<1>2. /\ overflow => overflow'
      /\ LastWord(raw, RefreshD, DeleteD) => LastWord(raw, RefreshD, DeleteD)'
      /\ None(raw, DeleteD) => None(raw, DeleteD)'
      /\ \A q, k : Intended(q, k)' <=> Intended(q, k)
  BY <1>0, <1>1, AfterIntent
<1>3. DirAhead => DirAhead'
  BY <1>2 DEF DirAhead
<1>4. DirAnswered'
  BY <1>1, <1>2, <1>3 DEF DirAnswered
<1>5. UNCHANGED <<outbox, rootDue, waJobs, work, ctrl, ctrlLost>>
  BY DEF EventUnchanged
<1>6. DirRequested'
  BY <1>1, <1>3, <1>5 DEF DirRequested, At
<1> QED BY <1>4, <1>6

LEMMA UnseenKeeps ==
    ASSUME WatcherInv, NEW kind \in {"refresh", "delete"}, NEW p \in WaPaths, Job(kind, p) \in WaJob,
           Job(kind, p) \notin Dels("g"), "g" \in overtaken => "g" \in overtaken',
           Kept(Job(kind, p)) \/ Lost(Job(kind, p)) \/ Unseen(Job(kind, p)), EventUnchanged,
           UNCHANGED <<dirThere, watched>>
    PROVE  UnseenAnswered'
<1> SUFFICES ASSUME "g" \in Followed, "g" \notin overtaken, dirThere, "d" \notin watched
             PROVE  UnseenAnswered'
  BY DEF UnseenAnswered
<1>1. WaTyped /\ UnseenAnswered
  BY DEF WatcherInv, Answered
<1>2. /\ overflow => overflow'
      /\ LastWord(raw, RefreshD, Dels("g")) => LastWord(raw, RefreshD, Dels("g"))'
      /\ None(raw, Dels("g")) => None(raw, Dels("g"))'
      /\ \A q, k : Intended(q, k)' <=> Intended(q, k)
  BY <1>1, AfterIntent
<1>3. NoDelYet("g") => NoDelYet("g")'
  BY <1>1, IntentKeeps
<1> QED BY <1>1, <1>2, <1>3 DEF UnseenAnswered

LEMMA InvWriteFile ==
    ASSUME WatcherInv, NEW p \in WaFiles, WriteFile(p)
    PROVE  Answered' /\ DirRequested' /\ \A x \in Followed : FileFollowed(x)'
<1> DEFINE j == Job("refresh", p)
<1>0. /\ ver' = [ver EXCEPT ![p] = @ + 1] /\ (p = "g" => dirThere)
      /\ dispatch_notify_event(ParentDir(p) \in watched, <<j>>)
      /\ EventUnchanged /\ UNCHANGED <<dirThere, watched>>
  BY EventsOf
<1>1. WaTyped
  BY DEF WatcherInv
<1>2. p \in WaPaths /\ p \notin Dirs /\ j \in WaJob /\ j.path = p /\ j.kind = "refresh"
  BY IntentsAreJobs, WaAssumption DEF WaPaths, Dirs
<1>3. \/ ParentDir(p) \in watched /\ (Kept(j) \/ Lost(j))
      \/ ParentDir(p) \notin watched /\ Unseen(j)
  BY <1>0, <1>1, <1>2, AnIntent
<1>4. ver \in [WaFiles -> Nat] /\ "r" \in watched
  BY <1>1 DEF WaTyped, DiskTyped
<1>5. ASSUME NEW x \in Followed, p # x PROVE FileFollowed(x)' /\ FileAnswered(x)'
  <2>1. p \notin Over(x) /\ x \in WaFiles
    BY <1>2, <1>5, Paths DEF Dirs
  <2>2. ver'[x] = ver[x]
    BY <1>0, <1>4, <1>5, <2>1
  <2> QED BY <1>0, <1>2, <1>3, <2>1, <2>2, Elsewhere
<1>6. ASSUME p \in Followed PROVE FileFollowed(p)' /\ FileAnswered(p)'
  <2>1. ver'[p] > 0
    BY <1>0, <1>4
  <2>2. j \in Refs(p)
    BY JobsOn, Paths, <1>6 DEF Over
  <2>3. CASE ParentDir(p) \in watched
    <3>2. RefreshAhead(p)'
      BY <1>1, <1>2, <1>3, <2>2, <2>3, SeenAhead DEF RefreshAhead
    <3> QED BY <2>1, <3>2 DEF FileFollowed, FileAnswered, PresentFollowed
  <2>4. CASE ParentDir(p) \notin watched
    <3>1. p = "g" /\ "d" \notin watched /\ dirThere
      BY <1>0, <1>4, <2>4 DEF ParentDir
    <3>2. UNCHANGED <<raw, overflow, overtaken, pending, outbox>> /\ p \in waExcused'
      BY <1>0, <1>2, <1>3, <2>4 DEF Unseen, EventUnchanged, Concerned
    <3>3. UnseenAnswered
      BY DEF WatcherInv, Answered
    <3>4. p \notin overtaken => NoDelYet("g") \/ RefreshAhead("g")
      <4>1. RefreshD \subseteq Refs("g") /\ "d" \in Over("g")
        BY <1>6, <3>1, Paths, JobsOn DEF RefreshD
      <4> SUFFICES ASSUME p \notin overtaken PROVE NoDelYet("g") \/ RefreshAhead("g")
        OBVIOUS
      <4>2. \/ NoDelYet("g") \/ overflow \/ LastWord(raw, RefreshD, Dels("g"))
            \/ None(raw, Dels("g")) /\ Intended("d", "refresh")
        BY <1>6, <3>1, <3>3 DEF UnseenAnswered
      <4>3. LastWord(raw, RefreshD, Dels("g")) => LastWord(raw, Refs("g"), Dels("g"))
        BY <4>1 DEF LastWord
      <4> QED BY <4>1, <4>2, <4>3 DEF RefreshAhead, PendingRef
    <3>5. (NoDelYet("g") => NoDelYet("g")') /\ (RefreshAhead("g") => RefreshAhead("g")')
      BY <3>2 DEF NoDelYet, RefreshAhead, PendingDel, PendingRef, Intended
    <3> QED BY <3>1, <3>2, <3>4, <3>5 DEF FileFollowed, FileAnswered
  <2> QED BY <2>3, <2>4
<1>7. DirAnswered' /\ DirRequested'
  BY <1>0, <1>2, <1>3, DirElsewhere DEF Dirs
<1>8. UnseenAnswered'
  <2>1. j \notin Dels("g")
    BY JobsOn
  <2>2. CASE "g" \in overtaken => "g" \in overtaken'
    BY <1>0, <1>2, <1>3, <2>1, <2>2, UnseenKeeps
  <2>3. CASE "g" \in overtaken /\ "g" \notin overtaken'
    <3>1. "g" \in Fixed(j)
      BY <1>3, <2>3 DEF Kept, Lost, Unseen
    <3>2. p = "g" /\ "d" \in watched
      <4>1. p = "g"
        BY <1>2, <3>1 DEF Fixed
      <4>2. overtaken' # overtaken
        BY <2>3
      <4> QED BY <1>3, <4>1, <4>2 DEF ParentDir, Unseen
    <3> QED BY <1>0, <3>2 DEF UnseenAnswered
  <2> QED BY <2>2, <2>3
<1> QED BY <1>5, <1>6, <1>7, <1>8 DEF Answered

LEMMA InvRemoveFile ==
    ASSUME WatcherInv, NEW p \in WaFiles, RemoveFile(p)
    PROVE  Answered' /\ DirRequested' /\ \A x \in Followed : FileFollowed(x)'
<1> DEFINE j == Job("delete", p)
<1>0. /\ ver' = [ver EXCEPT ![p] = 0]
      /\ dispatch_notify_event(ParentDir(p) \in watched, <<j>>)
      /\ EventUnchanged /\ UNCHANGED <<dirThere, watched>>
  BY EventsOf
<1>1. WaTyped
  BY DEF WatcherInv
<1>2. p \in WaPaths /\ p \notin Dirs /\ j \in WaJob /\ j.path = p /\ j.kind = "delete"
  BY IntentsAreJobs, WaAssumption DEF WaPaths, Dirs
<1>3. \/ ParentDir(p) \in watched /\ (Kept(j) \/ Lost(j))
      \/ ParentDir(p) \notin watched /\ Unseen(j)
  BY <1>0, <1>1, <1>2, AnIntent
<1>4. ver \in [WaFiles -> Nat]
  BY <1>1 DEF WaTyped, DiskTyped
<1>5. ASSUME NEW x \in Followed, p # x PROVE FileFollowed(x)' /\ FileAnswered(x)'
  <2>1. p \notin Over(x) /\ x \in WaFiles
    BY <1>2, <1>5, Paths DEF Dirs
  <2>2. ver'[x] = ver[x]
    BY <1>0, <1>4, <1>5, <2>1
  <2> QED BY <1>0, <1>2, <1>3, <2>1, <2>2, Elsewhere
<1>6. ASSUME p \in Followed PROVE FileFollowed(p)' /\ FileAnswered(p)'
  <2>1. ~(ver'[p] > 0)
    BY <1>0, <1>4
  <2>2. p \in waExcused' \/ AbsentFollowed(p)'
    <3>1. CASE Kept(j)
      <4>1. j \in {j}
        OBVIOUS
      <4>2. raw \in Seq(WaJob) /\ raw' = Append(raw, j)
        BY <1>1, <3>1 DEF WaTyped, RawTyped, Kept
      <4>3. LastWord(Append(raw, j), {j}, {Job("refresh", p)})
        BY <1>2, <4>2, LastOfAppend
      <4> QED BY <4>2, <4>3 DEF AbsentFollowed
    <3>2. CASE Lost(j)
      BY <1>2, <3>2 DEF Lost, Concerned
    <3>3. CASE Unseen(j)
      BY <1>2, <3>3 DEF Unseen, Concerned
    <3> QED BY <1>3, <3>1, <3>2, <3>3
  <2> QED BY <2>1, <2>2 DEF FileFollowed, FileAnswered
<1>7. DirAnswered' /\ DirRequested'
  BY <1>0, <1>2, <1>3, DirElsewhere DEF Dirs
<1>8. UnseenAnswered'
  <2>1. CASE p # "g"
    <3>1. j \notin Dels("g") /\ "g" \notin Fixed(j)
      <4>1. p \notin Over("g") /\ "g" \notin Concerned(p)
        BY <1>2, <2>1, WaAssumption DEF Over, Above, Dirs, Concerned
      <4> QED BY <1>2, <4>1, JobsOn DEF Fixed
    <3>2. "g" \in overtaken => "g" \in overtaken'
      BY <1>3, <3>1 DEF Kept, Lost, Unseen
    <3> QED BY <1>0, <1>2, <1>3, <3>1, <3>2, UnseenKeeps
  <2>2. CASE p = "g" /\ ParentDir(p) \in watched
    BY <1>0, <2>2 DEF UnseenAnswered, ParentDir
  <2>3. CASE p = "g" /\ ParentDir(p) \notin watched
    <3>1. UNCHANGED <<raw, overflow, overtaken, pending, outbox, dirThere, watched>>
      BY <1>0, <1>3, <2>3 DEF Unseen, EventUnchanged
    <3> QED BY <3>1 DEF WatcherInv, Answered, UnseenAnswered, NoDelYet, PendingDel, Intended
  <2> QED BY <2>1, <2>2, <2>3
<1> QED BY <1>5, <1>6, <1>7, <1>8 DEF Answered

LEMMA InvMoveDirIn ==
    ASSUME WatcherInv, NEW v \in {0, 1}, MoveDirIn(v)
    PROVE  Answered' /\ DirRequested' /\ \A x \in Followed : FileFollowed(x)'
<1> DEFINE j == Job("refresh", "d")
<1>0. /\ ~dirThere /\ ver' = [p \in WaFiles |-> IF p = "g" THEN v ELSE ver[p]]
      /\ dispatch_notify_event("r" \in watched, <<j>>)
      /\ EventUnchanged
  BY EventsOf
<1>1. WaTyped /\ "r" \in watched /\ ver \in [WaFiles -> 0..WaMaxVer]
  BY DEF WatcherInv, WaTyped, DiskTyped
<1>2. "d" \in WaPaths /\ j \in WaJob /\ j.path = "d" /\ j.kind = "refresh"
  BY IntentsAreJobs DEF WaPaths, Dirs
<1>3. Kept(j) \/ Lost(j)
  BY <1>0, <1>1, <1>2, AnIntent
<1>4. \A A, B : j \in A => overflow' \/ LastWord(raw, A, B)'
  BY <1>1, <1>2, <1>3, SeenAhead
<1>5. ASSUME NEW x \in Followed, "d" \notin Over(x) PROVE FileFollowed(x)' /\ FileAnswered(x)'
  <2>1. x # "g" /\ x \in WaFiles
    BY <1>5, Paths
  <2>2. ver'[x] = ver[x]
    BY <1>0, <2>1
  <2> QED BY <1>0, <1>2, <1>3, <1>5, <2>2, Elsewhere
<1>6. ASSUME NEW x \in Followed, "d" \in Over(x) PROVE FileFollowed(x)' /\ FileAnswered(x)'
  <2>1. x = "g" /\ x \in WaFiles /\ x # "d"
    BY <1>6, Paths DEF Dirs
  <2>2. RefreshAhead(x)'
    BY <1>4, <1>6, JobsOn DEF RefreshAhead
  <2>3. ver[x] = 0
    BY <1>0, <1>1, <2>1 DEF WaTyped, DiskTyped
  <2>4. UNCHANGED <<waExcused, overtaken>>
    <3>1. Fixed(j) = {}
      BY <1>2, WaAssumption DEF Fixed
    <3> QED BY <1>2, <1>3, <3>1 DEF Kept, Lost
  <2>5. AbsentFollowed(x) => AbsentFollowed(x)'
    <3>1. j # Job("refresh", x)
      BY <2>1, IntentsAreJobs
    <3> QED BY <1>0, <1>1, <1>2, <1>3, <3>1, IntentKeeps
  <2>6. FileFollowed(x)
    BY DEF WatcherInv
  <2> QED BY <2>2, <2>3, <2>4, <2>5, <2>6 DEF FileFollowed, FileAnswered, PresentFollowed
<1>7. DirAhead'
  BY <1>4, JobsOn DEF DirAhead
<1>8. UnseenAnswered'
  <2>1. overflow' \/ LastWord(raw, RefreshD, Dels("g"))'
    BY <1>4, JobsOn
  <2> QED BY <2>1 DEF UnseenAnswered
<1> QED BY <1>5, <1>6, <1>7, <1>8 DEF Answered, DirAnswered, DirRequested

LEMMA InvMoveDirOut ==
    ASSUME WatcherInv, MoveDirOut
    PROVE  Answered' /\ DirRequested' /\ \A x \in Followed : FileFollowed(x)'
<1> DEFINE j == Job("delete", "d")
<1>0. /\ dirThere' = FALSE /\ ver' = [p \in WaFiles |-> IF p = "g" THEN 0 ELSE ver[p]]
      /\ dispatch_notify_event("r" \in watched, <<j>>)
      /\ EventUnchanged
  BY EventsOf
<1>1. WaTyped /\ "r" \in watched /\ raw \in Seq(WaJob)
  BY DEF WatcherInv, WaTyped, DiskTyped, RawTyped
<1>2. "d" \in WaPaths /\ j \in WaJob /\ j.path = "d" /\ j.kind = "delete"
  BY IntentsAreJobs DEF WaPaths, Dirs
<1>3. Kept(j) \/ Lost(j)
  BY <1>0, <1>1, <1>2, AnIntent
<1>5. ASSUME NEW x \in Followed, "d" \notin Over(x) PROVE FileFollowed(x)' /\ FileAnswered(x)'
  <2>1. x # "g" /\ x \in WaFiles
    BY <1>5, Paths
  <2>2. ver'[x] = ver[x]
    BY <1>0, <2>1
  <2> QED BY <1>0, <1>2, <1>3, <1>5, <2>2, Elsewhere
<1>6. ASSUME NEW x \in Followed, "d" \in Over(x) PROVE FileFollowed(x)' /\ FileAnswered(x)'
  <2>1. x = "g" /\ x \in WaFiles /\ x # "d"
    BY <1>6, Paths DEF Dirs
  <2>2. ver'[x] = 0
    BY <1>0, <2>1
  <2>3. CASE Kept(j)
    <3>1. raw' = Append(raw, j)
      BY <2>3 DEF Kept
    <3>2. j \in Dels(x) \ {Job("delete", x)}
      BY <1>6, <2>1, JobsOn, IntentsAreJobs
    <3>3. ~None(Append(raw, j), Dels(x) \ {Job("delete", x)})
      <4>1. \A B : None(Append(raw, j), B) <=> None(raw, B) /\ j \notin B
        BY <1>1, <1>2, LastOfAppend
      <4> HIDE DEF j
      <4> QED BY <3>2, <4>1
    <3>4. AbsentFollowed(x)'
      BY <3>1, <3>3 DEF AbsentFollowed
    <3> QED BY <2>2, <3>4 DEF FileFollowed, FileAnswered
  <2>4. CASE Lost(j)
    <3>1. x \in waExcused'
      BY <1>2, <1>6, <2>4, Paths DEF Lost
    <3> QED BY <2>2, <3>1 DEF FileFollowed, FileAnswered
  <2> QED BY <1>3, <2>3, <2>4
<1>7. DirAnswered' /\ UnseenAnswered' /\ DirRequested'
  BY <1>0 DEF DirAnswered, UnseenAnswered, DirRequested
<1> QED BY <1>5, <1>6, <1>7 DEF Answered

LEMMA InvRenameFile ==
    ASSUME WatcherInv, RenameFile
    PROVE  Answered' /\ DirRequested' /\ \A x \in Followed : FileFollowed(x)'
<1>0. /\ {"f", "g"} \subseteq WaFiles /\ dirThere /\ "d" \in watched /\ ver["f"] > 0
      /\ ver' = [ver EXCEPT !["f"] = 0, !["g"] = ver["f"]]
      /\ dispatch_notify_event("r" \in watched, <<DelF, RefG, DelF, RefG>>)
      /\ EventUnchanged /\ UNCHANGED <<dirThere, watched>>
  BY EventsOf
<1>1. WaTyped /\ "r" \in watched /\ raw \in Seq(WaJob) /\ Len(raw) <= WaRawCap /\ overflow \in BOOLEAN
      /\ ver \in [WaFiles -> 0..WaMaxVer]
  BY DEF WatcherInv, WaTyped, DiskTyped, RawTyped
<1>2. DelF \in WaJob /\ RefG \in WaJob
  BY <1>0, IntentsAreJobs
<1>3. PICK n \in 0..4 : Renamed(n)
  <2>1. ("r" \in watched) = TRUE
    BY <1>1
  <2>2. dispatch_notify_event(TRUE, <<DelF, RefG, DelF, RefG>>)
    BY <1>0, <2>1, Zenon
  <2> QED BY <1>0, <1>1, <2>2, FourIntents
<1>4. raw' = Grown(n) /\ overflow' = (overflow \/ n < 4) /\ n \in 0..4
  BY <1>3 DEF Renamed
<1>5. \A A, B :
         /\ DelF \notin B /\ RefG \notin B =>
               /\ LastWord(raw, A, B) => LastWord(raw, A, B)'
               /\ None(raw, B) => None(raw, B)'
         /\ n >= 1 /\ DelF \in A /\ RefG \notin B => LastWord(raw, A, B)'
         /\ n >= 2 /\ RefG \in A /\ DelF \notin B => LastWord(raw, A, B)'
  <2> SUFFICES ASSUME NEW A, NEW B
               PROVE  /\ DelF \notin B /\ RefG \notin B =>
                            /\ LastWord(raw, A, B) => LastWord(raw, A, B)'
                            /\ None(raw, B) => None(raw, B)'
                      /\ n >= 1 /\ DelF \in A /\ RefG \notin B => LastWord(raw, A, B)'
                      /\ n >= 2 /\ RefG \in A /\ DelF \notin B => LastWord(raw, A, B)'
    OBVIOUS
  <2>1. /\ (n >= 1 => DelF \notin B) /\ (n >= 2 => RefG \notin B) =>
              /\ LastWord(raw, A, B) => LastWord(Grown(n), A, B)
              /\ None(Grown(n), B) <=> None(raw, B)
        /\ n >= 1 /\ DelF \in A /\ RefG \notin B => LastWord(Grown(n), A, B)
        /\ n >= 2 /\ RefG \in A /\ DelF \notin B => LastWord(Grown(n), A, B)
    BY <1>1, <1>2, <1>4, GrownLast
  <2>2. (LastWord(raw, A, B)' <=> LastWord(Grown(n), A, B)) /\ (None(raw, B)' <=> None(Grown(n), B))
    BY <1>4
  <2> QED BY <2>1, <2>2
<1>6. UNCHANGED <<pending, outbox, rootDue, waJobs, work, ctrl, ctrlLost>>
  BY <1>0 DEF EventUnchanged
<1>7. DirAnswered' /\ DirRequested'
  <2>1. DelF \notin DeleteD /\ RefG \notin DeleteD
    BY JobsOn DEF DelF, RefG
  <2>2. /\ LastWord(raw, RefreshD, DeleteD) => LastWord(raw, RefreshD, DeleteD)'
        /\ None(raw, DeleteD) => None(raw, DeleteD)'
    BY <1>5, <2>1
  <2>3. \A p, kind : Intended(p, kind)' <=> Intended(p, kind)
    BY <1>6 DEF Intended
  <2>4. overflow => overflow'
    BY <1>4
  <2>5. DirAnswered
    BY DEF WatcherInv, Answered
  <2>6. DirAnswered'
    BY <1>0, <2>2, <2>3, <2>4, <2>5 DEF DirAnswered, DirAhead
  <2> QED BY <1>0, <2>6 DEF DirRequested
<1>8. UnseenAnswered'
  BY <1>0 DEF UnseenAnswered
<1>9. FileFollowed("g")' /\ FileAnswered("g")'
  <2>1. ver'["g"] > 0
    BY <1>0, <1>1
  <2>2. RefG \in Refs("g") /\ DelF \notin Dels("g")
    <3>1. "g" \in Over("g") /\ "f" \notin Over("g")
      BY DEF Over, Above
    <3> QED BY <3>1, JobsOn DEF RefG, DelF
  <2>3. overflow' \/ LastWord(raw, Refs("g"), Dels("g"))'
    <3>1. CASE n < 4
      BY <1>4, <3>1
    <3>2. CASE ~(n < 4)
      BY <1>4, <1>5, <2>2, <3>2
    <3> QED BY <3>1, <3>2
  <2>4. RefreshAhead("g")'
    BY <2>3 DEF RefreshAhead
  <2> QED BY <2>1, <2>4 DEF FileFollowed, FileAnswered, PresentFollowed
<1>10. FileFollowed("f")' /\ FileAnswered("f")'
  <2>1. ~(ver'["f"] > 0)
    BY <1>0, <1>1
  <2>2. CASE n <= 2
    <3>1. "f" \in waExcused'
      BY <1>3, <2>2 DEF Renamed
    <3> QED BY <2>1, <3>1 DEF FileFollowed, FileAnswered
  <2>3. CASE ~(n <= 2)
    <3>1. DelF \in {Job("delete", "f")} /\ RefG \notin {Job("refresh", "f")} /\ n >= 1
      BY <1>4, <2>3, IntentsAreJobs DEF DelF, RefG
    <3>2. LastWord(raw, {Job("delete", "f")}, {Job("refresh", "f")})'
      BY <1>5, <3>1
    <3>3. AbsentFollowed("f")'
      BY <3>2 DEF AbsentFollowed
    <3> QED BY <2>1, <3>3 DEF FileFollowed, FileAnswered
  <2> QED BY <2>2, <2>3
<1>11. \A x \in Followed : x = "f" \/ x = "g"
  BY Paths
<1> QED BY <1>7, <1>8, <1>9, <1>10, <1>11 DEF Answered

--------------------------------------------------------------------------------
(***************************************************************************)
(* The watches and the coalescer.                                          *)
(***************************************************************************)
LEMMA FollowedStays ==
    ASSUME WatcherInv, NEW x \in Followed, x \in waExcused => x \in waExcused',
           UNCHANGED <<ver, raw, overflow, pending, rootDue, outbox, waJobs, work, docs, overtaken>>
    PROVE  FileFollowed(x)'
<1>1. FileFollowed(x)
  BY DEF WatcherInv
<1>2. (RefreshAhead(x) <=> RefreshAhead(x)') /\ (NoDelYet(x) <=> NoDelYet(x)')
  BY DEF RefreshAhead, NoDelYet, PendingRef, PendingDel, Intended
<1>3. \A w : (Harms(w, x) <=> Harms(w, x)') /\ \A stage : At(w, stage, x) <=> At(w, stage, x)'
  BY DEF Harms, At
<1>4. PresentFollowed(x) => PresentFollowed(x)'
  BY <1>2, <1>3 DEF PresentFollowed
<1>5. AbsentFollowed(x) => AbsentFollowed(x)'
  BY <1>3 DEF AbsentFollowed, Intended
<1> QED BY <1>1, <1>4, <1>5 DEF FileFollowed

LEMMA InvAddWatch ==
    ASSUME WatcherInv, AddWatch
    PROVE  Answered' /\ DirRequested' /\ \A x \in Followed : FileFollowed(x)'
<1>1. /\ ctrl # <<>> /\ ctrl' = Tail(ctrl) /\ ctrl \in Seq(Dirs)
      /\ watched' = IF Exists(Head(ctrl)) THEN watched \cup {Head(ctrl)} ELSE watched
      /\ UNCHANGED <<ver, dirThere, raw, overflow, pending, rootDue, outbox, waJobs,
                     work, docs, waExcused, overtaken, ctrlLost>>
  BY DEF AddWatch, WatcherInv, WaTyped, CtrlTyped
<1>2. Answered'
  <2>1. Answered /\ outbox' \subseteq outbox /\ watched \subseteq watched'
    BY <1>1 DEF WatcherInv
  <2> QED BY <1>1, <2>1, AnsweredStays
<1>3. \A x \in Followed : FileFollowed(x)'
  BY <1>1, FollowedStays
<1>4. DirRequested'
  <2> SUFFICES ASSUME dirThere, "d" \notin watched'
               PROVE  DirRequested'
    BY <1>1 DEF DirRequested
  <2>1. Head(ctrl) # "d"
    BY <1>1 DEF Exists
  <2>2. DirRequested /\ "d" \notin watched
    BY <1>1 DEF WatcherInv
  <2>3. DirAhead => DirAhead'
    BY <1>1 DEF DirAhead, Intended
  <2>4. ASSUME NEW i \in DOMAIN ctrl, ctrl[i] = "d" PROVE \E k \in DOMAIN ctrl' : ctrl'[k] = "d"
    <3>1. /\ Head(ctrl) = ctrl[1] /\ DOMAIN ctrl = 1..Len(ctrl) /\ Len(ctrl) \in Nat
          /\ DOMAIN Tail(ctrl) = 1..(Len(ctrl) - 1) /\ \A k \in 1..(Len(ctrl) - 1) : Tail(ctrl)[k] = ctrl[k + 1]
      BY <1>1, HeadTailProperties, LenProperties
    <3>2. i # 1
      BY <2>1, <2>4, <3>1
    <3>3. i - 1 \in 1..(Len(ctrl) - 1) /\ (i - 1) + 1 = i
      BY <3>1, <3>2
    <3>4. ctrl'[i - 1] = "d" /\ i - 1 \in DOMAIN ctrl'
      BY <1>1, <2>4, <3>1, <3>3
    <3> QED BY <3>4
  <2> QED BY <1>1, <2>2, <2>3, <2>4 DEF DirRequested, At
<1> QED BY <1>2, <1>3, <1>4

LEMMA InvReceive ==
    ASSUME WatcherInv, CoalescerReceives
    PROVE  Answered' /\ DirRequested' /\ \A x \in Followed : FileFollowed(x)'
<1> DEFINE h == Head(raw)
<1>0. WaTyped /\ Answered /\ DirRequested
  BY DEF WatcherInv
<1>1. /\ h \in WaJob /\ h = Job(h.kind, h.path) /\ h.path \in WaPaths \ {"r"} /\ h.kind \in {"refresh", "delete"}
      /\ UNCHANGED <<overflow, overtaken, outbox, ver, dirThere, watched, rootDue, waJobs, work, docs, ctrl, ctrlLost>>
      /\ waExcused' = IF <<h.path, h.kind>> = <<"d", "refresh">> /\ "d" \in DOMAIN pending
                      THEN waExcused \cup Concerned("d") ELSE waExcused
  <2>1. h \in WaJob /\ raw # <<>> /\ raw \in Seq(WaJob)
    BY <1>0, AfterReceive DEF CoalescerReceives, WaTyped, RawTyped
  <2>2. h = raw[1] /\ 1 \in DOMAIN raw
    BY <2>1, HeadTailProperties, LenProperties, EmptySeq
  <2>3. h.path \in WaPaths \ {"r"}
    BY <1>0, <2>2 DEF WaTyped, RawTyped
  <2> QED BY <2>1, <2>3, JobsOn DEF CoalescerReceives
<1>2. \A p, kind : Intended(p, kind)' <=> IF p = h.path THEN kind = h.kind ELSE Intended(p, kind)
  BY <1>0, AfterReceive
<1>3. \A A, B : /\ LastWord(raw, A, B) => LastWord(raw, A, B)' \/ (h \in A /\ None(raw, B)')
                /\ None(raw, B) <=> h \notin B /\ None(raw, B)'
  BY <1>0, AfterReceive
<1> HIDE DEF h
<1>4. ASSUME NEW x \in Followed PROVE FileFollowed(x)'
  <2>0. x \in waExcused => x \in waExcused'
    BY <1>1
  <2>1. FileFollowed(x)
    BY DEF WatcherInv
  <2>2. \A w : (Harms(w, x) <=> Harms(w, x)') /\ \A stage : At(w, stage, x) <=> At(w, stage, x)'
    BY <1>1 DEF Harms, At
  <2>3. PresentFollowed(x) => PresentFollowed(x)'
    <3>1. /\ NoDelYet(x) => NoDelYet(x)'
          /\ RefreshAhead(x) => RefreshAhead(x)'
      BY <1>0, ReceiveKeeps
    <3> QED BY <1>1, <2>2, <3>1 DEF PresentFollowed
  <2>4. ASSUME AbsentFollowed(x), x \notin waExcused' PROVE AbsentFollowed(x)'
    <3> DEFINE del == Job("delete", x)
               ref == Job("refresh", x)
    <3>0. /\ h = del <=> h.kind = "delete" /\ h.path = x
          /\ h = ref <=> h.kind = "refresh" /\ h.path = x
          /\ \A k, p : Job(k, p).kind = k /\ Job(k, p).path = p
      BY <1>1, IntentsAreJobs
    <3>7. Over(x) = {x} \cup Above(x)
      BY Paths
    <3>8. h \in Dels(x) <=> h.kind = "delete" /\ h.path \in Over(x)
      BY <1>1, JobsOn
    <3> HIDE DEF del, ref
    <3>1. CASE LastWord(raw, {del}, {ref})
      <4>1. CASE LastWord(raw, {del}, {ref})'
        BY <4>1 DEF AbsentFollowed, del, ref
      <4>2. CASE h = del /\ None(raw, {ref})'
        <5>1. Intended(x, "delete")'
          BY <1>2, <3>0, <4>2
        <5> QED BY <4>2, <5>1 DEF AbsentFollowed, ref
      <4> QED BY <1>3, <3>1, <4>1, <4>2
    <3>2. CASE ~None(raw, Dels(x) \ {del})
      <4>1. CASE h \in Dels(x) \ {del}
        <5>1. h.kind = "delete" /\ h.path \in Above(x)
          BY <3>0, <3>7, <3>8, <4>1
        <5>2. PICK q : q = h.path
          OBVIOUS
        <5>3. q \in Above(x) /\ Intended(q, "delete")'
          BY <1>2, <5>1, <5>2
        <5> QED BY <5>3 DEF AbsentFollowed
      <4>2. CASE ~None(raw, Dels(x) \ {del})'
        BY <4>2 DEF AbsentFollowed, del
      <4> QED BY <1>3, <3>2, <4>1, <4>2
    <3>3. CASE Intended(x, "delete") /\ None(raw, {ref})
      <4>1. h # ref /\ None(raw, {ref})'
        BY <1>3, <3>3
      <4>2. Intended(x, "delete")'
        BY <1>1, <1>2, <3>0, <3>3, <4>1
      <4> QED BY <4>1, <4>2 DEF AbsentFollowed, ref
    <3>4. CASE \E p \in Above(x) : Intended(p, "delete")
      <4>1. PICK p \in Above(x) : Intended(p, "delete")
        BY <3>4
      <4>2. p # h.path \/ h.kind = "delete"
        <5> SUFFICES ASSUME p = h.path, h.kind = "refresh" PROVE FALSE
          BY <1>1
        <5>1. p = "d" /\ "d" \in WaPaths /\ "d" \in Over(x)
          <6>1. p \in {"r", "d"} /\ p # "r" /\ p \in Over(x) /\ Over(x) \subseteq WaPaths
            BY <1>1, <3>7, <4>1, Paths
          <6> QED BY <6>1
        <5>2. x \in Concerned("d")
          BY <5>1, Paths
        <5>3. "d" \in DOMAIN pending
          BY <4>1, <5>1 DEF Intended
        <5> QED BY <1>1, <2>4, <5>1, <5>2, <5>3
      <4>3. Intended(p, "delete")'
        BY <1>2, <4>1, <4>2
      <4> QED BY <4>1, <4>3 DEF AbsentFollowed
    <3>5. CASE \/ outbox \cap Dels(x) # {} \/ ~None(waJobs, Dels(x))
               \/ \E w \in WaResolvers : /\ At(w, "delete", x)
                                         /\ \A u \in WaResolvers \ {w} : ~(work[u].at = "file" /\ work[u].path = x)
               \/ docs[x] = 0 /\ \A u \in WaResolvers : ~(work[u].at = "file" /\ work[u].path = x)
      BY <1>1, <2>2, <3>5 DEF AbsentFollowed
    <3> QED BY <2>4, <3>1, <3>2, <3>3, <3>4, <3>5 DEF AbsentFollowed, del, ref
  <2> QED BY <1>1, <2>0, <2>1, <2>3, <2>4 DEF FileFollowed
<1>5. DirRequested'
  <2>1. DirAhead => DirAhead'
    BY <1>0, ReceiveKeeps
  <2> QED BY <1>0, <1>1, <2>1 DEF DirRequested, At
<1>6. Answered'
  BY <1>0, AnsweredReceive
<1> QED BY <1>4, <1>5, <1>6

LEMMA InvFlush ==
    ASSUME WatcherInv, FlushTick
    PROVE  Answered' /\ DirRequested' /\ \A x \in Followed : FileFollowed(x)'
<1>0. WaTyped /\ Answered /\ DirRequested
  BY DEF WatcherInv
<1>1. /\ raw = <<>> /\ raw' = <<>> /\ pending' = <<>> /\ ~rootDue /\ outbox = {}
      /\ rootDue' = overflow /\ overflow' = FALSE
      /\ UNCHANGED <<ver, dirThere, watched, waJobs, work, ctrl, docs, waExcused, ctrlLost>>
  BY DEF FlushTick, CoalescerFree
<1>2. \A A, B : None(raw, B) /\ ~LastWord(raw, A, B) /\ None(raw, B)' /\ ~LastWord(raw, A, B)'
  BY <1>1, LastOfEmpty
<1>3. \A p, kind : ~Intended(p, kind)'
  <2>1. DOMAIN pending' = {}
    BY <1>1
  <2> QED BY <2>1 DEF Intended
<1>4. Answered'
  BY <1>0, AnsweredFlush
<1>5. ASSUME NEW p, Intended(p, "refresh") PROVE Job("refresh", p) \in outbox'
  <2>1. p \in drop_descendant_deletes(pending)
    BY <1>5 DEF Intended, drop_descendant_deletes
  <2>2. Job(pending[p], IF pending[p] = "delete" THEN fs_doc_id(p) ELSE p) = Job("refresh", p)
    BY <1>5 DEF Intended
  <2> QED BY <2>1, <2>2 DEF FlushTick
<1>6. ASSUME NEW x \in Followed, ver[x] = 0, NEW p \in Over(x), Intended(p, "delete")
      PROVE  outbox' \cap Dels(x) # {}
  <2>1. ASSUME NEW q \in Over(x), q \in drop_descendant_deletes(pending), Intended(q, "delete")
        PROVE  outbox' \cap Dels(x) # {}
    <3>1. fs_doc_id(q) = q
      <4>1. q = x \/ q \in {"r", "d"}
        BY Paths
      <4>2. x \notin {"r", "d"} /\ x # "l"
        BY Paths DEF Dirs
      <4> QED BY <1>6, <4>1, <4>2 DEF fs_doc_id, Canonical, Exists
    <3>2. Job(pending[q], IF pending[q] = "delete" THEN fs_doc_id(q) ELSE q) = Job("delete", q)
      BY <2>1, <3>1 DEF Intended
    <3>3. Job("delete", q) \in outbox'
      BY <2>1, <3>2 DEF FlushTick
    <3> QED BY <3>3, JobsOn
  <2>2. ~Intended("r", "delete")
    BY <1>0 DEF WaTyped, CoalescerTyped, Intended
  <2>3. CASE \E q \in Above(p) : Intended(q, "delete")
    <3>1. "d" \in Over(x) /\ Intended("d", "delete")
      <4>1. p \in {x, "r", "d"} /\ (p = x => Above(p) \subseteq Over(x)) /\ Above("r") = {} /\ Above("d") = {"r"}
            /\ Over(x) \subseteq {x, "r", "d"}
        <5>1. Above("r") = {} /\ Above("d") = {"r"}
          BY DEF Above
        <5> QED BY <5>1, Paths
      <4>2. PICK q \in Above(p) : Intended(q, "delete")
        BY <2>3
      <4>3. q # "r"
        BY <2>2, <4>2
      <4>4. p = x
        BY <4>1, <4>2, <4>3
      <4>5. q \in Above(x)
        BY <4>2, <4>4
      <4>6. q = "d"
        BY <4>3, <4>5, Paths
      <4> QED BY <4>1, <4>2, <4>4, <4>6
    <3>2. "d" \in drop_descendant_deletes(pending)
      BY <2>2, <3>1 DEF drop_descendant_deletes, is_descendant, Above, Intended
    <3> QED BY <2>1, <3>1, <3>2
  <2>4. CASE ~\E q \in Above(p) : Intended(q, "delete")
    <3>1. p \in drop_descendant_deletes(pending)
      BY <1>6, <2>4 DEF drop_descendant_deletes, is_descendant, Intended
    <3> QED BY <1>6, <2>1, <3>1
  <2> QED BY <2>3, <2>4
<1>7. ASSUME NEW x \in Followed PROVE FileFollowed(x)'
  <2> SUFFICES ASSUME x \notin waExcused', x \notin overtaken'
               PROVE  IF ver'[x] > 0 THEN PresentFollowed(x)' ELSE AbsentFollowed(x)'
    BY DEF FileFollowed
  <2>0. /\ x \in WaFiles /\ ver[x] \in Nat /\ ver' = ver
        /\ IF ver[x] > 0 THEN PresentFollowed(x) ELSE AbsentFollowed(x)
    <3>1. x \notin waExcused /\ x \notin overtaken
      BY <1>1, AfterFlush, <1>0
    <3>2. x \in WaFiles
      BY Paths
    <3> QED BY <1>0, <1>1, <3>1, <3>2 DEF WatcherInv, FileFollowed, WaTyped, DiskTyped
  <2>1. \A w : (Harms(w, x) <=> Harms(w, x)') /\ \A stage : At(w, stage, x) <=> At(w, stage, x)'
    BY <1>1 DEF Harms, At
  <2>2. CASE ver[x] > 0
    <3>1. ~RefreshAhead(x)'
      BY <1>1, <1>2, <1>3 DEF RefreshAhead, PendingRef
    <3>2. NoDelYet(x)'
      BY <1>4, <2>0, <2>2, <3>1 DEF Answered, FileAnswered
    <3>3. PresentFollowed(x)
      BY <2>0, <2>2
    <3>4. \/ rootDue' \/ outbox' \cap Refs(x) # {}
          \/ \E w \in WaResolvers : work'[w].at = "expand" /\ x \in work'[w].todo
          \/ LastWord(waJobs, Refs(x), Dels(x))'
          \/ /\ None(waJobs, Dels(x))'
             /\ \A w \in WaResolvers : ~Harms(w, x)'
             /\ \/ docs'[x] = ver'[x]
                \/ \E w \in WaResolvers : At(w, "refresh", x)'
                \/ \E w \in WaResolvers : work'[w].at = "file" /\ work'[w].path = x
      <4>1. CASE overflow
        BY <1>1, <4>1
      <4>2. CASE PendingRef(x)
        <5>1. PICK p \in Over(x) : Intended(p, "refresh")
          BY <4>2 DEF PendingRef
        <5> QED BY <1>5, <5>1, JobsOn
      <4>3. CASE ~RefreshAhead(x)
        <5>1. UNCHANGED <<waJobs, work, docs, ver>> /\ ~rootDue /\ outbox = {}
          BY <1>1
        <5> QED BY <2>1, <3>3, <4>3, <5>1 DEF PresentFollowed
      <4> QED BY <1>2, <4>1, <4>2, <4>3 DEF RefreshAhead
    <3>7. PresentFollowed(x)'
      BY <3>2, <3>4 DEF PresentFollowed
    <3> QED BY <2>0, <2>2, <3>7
  <2>3. CASE ~(ver[x] > 0)
    <3>0. ver[x] = 0 /\ AbsentFollowed(x)
      BY <2>0, <2>3
    <3>1. CASE Intended(x, "delete") \/ \E p \in Above(x) : Intended(p, "delete")
      <4>1. \E p \in Over(x) : Intended(p, "delete")
        BY <3>1, Paths
      <4>2. (outbox \cap Dels(x))' # {}
        BY <1>6, <3>0, <4>1
      <4>3. AbsentFollowed(x)'
        BY <4>2 DEF AbsentFollowed
      <4> QED BY <2>0, <2>3, <4>3
    <3>2. CASE ~(Intended(x, "delete") \/ \E p \in Above(x) : Intended(p, "delete"))
      <4>1. AbsentFollowed(x)'
        BY <1>1, <1>2, <2>1, <3>0, <3>2 DEF AbsentFollowed
      <4> QED BY <2>0, <2>3, <4>1
    <3> QED BY <3>1, <3>2
  <2> QED BY <2>2, <2>3
<1>8. DirRequested'
  <2>1. DirAhead => rootDue' \/ Job("refresh", "d") \in outbox'
    BY <1>1, <1>2, <1>5 DEF DirAhead
  <2> QED BY <1>0, <1>1, <2>1 DEF DirRequested, At
<1> QED BY <1>4, <1>7, <1>8

LEMMA InvSends ==
    ASSUME WatcherInv, CoalescerSends
    PROVE  Answered' /\ DirRequested' /\ \A x \in Followed : FileFollowed(x)'
<1>0. WaTyped /\ Answered /\ DirRequested /\ waJobs \in Seq(WaJob)
  BY DEF WatcherInv, WaTyped, ResolversTyped
<1>1. UNCHANGED <<ver, dirThere, watched, raw, overflow, pending, work, ctrl, docs, waExcused, overtaken, ctrlLost>>
  BY DEF CoalescerSends
<1>2. PICK j \in WaJob :
         /\ waJobs' = Append(waJobs, j)
         /\ outbox' \subseteq outbox /\ outbox \subseteq outbox' \cup {j}
         /\ \/ rootDue /\ ~rootDue' /\ j = Job("refresh", "r") /\ outbox' = outbox
            \/ ~rootDue /\ ~rootDue' /\ j \in outbox
  <2>1. CASE rootDue
    <3>1. Job("refresh", "r") \in WaJob
      BY IntentsAreJobs DEF WaPaths, Dirs
    <3>2. ~rootDue' /\ waJobs' = Append(waJobs, Job("refresh", "r")) /\ outbox' = outbox
      BY <2>1 DEF CoalescerSends
    <3> QED BY <2>1, <3>1, <3>2
  <2>2. CASE ~rootDue
    <3>1. PICK j \in outbox : outbox' = outbox \ {j} /\ waJobs' = Append(waJobs, j) /\ UNCHANGED rootDue
      BY <2>2 DEF CoalescerSends
    <3>2. j \in WaJob
      BY <1>0 DEF WaTyped, CoalescerTyped
    <3> QED BY <2>2, <3>1, <3>2
  <2> QED BY <2>1, <2>2
<1>3. \A A, B : /\ LastWord(waJobs, A, B)' <=> j \in A \/ (j \notin B /\ LastWord(waJobs, A, B))
                /\ None(waJobs, B)' <=> None(waJobs, B) /\ j \notin B
  <2> SUFFICES ASSUME NEW A, NEW B
               PROVE  /\ LastWord(waJobs, A, B)' <=> j \in A \/ (j \notin B /\ LastWord(waJobs, A, B))
                      /\ None(waJobs, B)' <=> None(waJobs, B) /\ j \notin B
    OBVIOUS
  <2>1. /\ LastWord(Append(waJobs, j), A, B) <=> j \in A \/ (j \notin B /\ LastWord(waJobs, A, B))
        /\ None(Append(waJobs, j), B) <=> None(waJobs, B) /\ j \notin B
    BY <1>0, LastOfAppend
  <2> QED BY <1>2, <2>1
<1>4. Answered'
  BY <1>0, <1>1, <1>2, AnsweredStays
<1>5. ASSUME NEW x \in Followed PROVE FileFollowed(x)'
  <2>1. FileFollowed(x)
    BY DEF WatcherInv
  <2>2. \A w : (Harms(w, x) <=> Harms(w, x)') /\ \A stage : At(w, stage, x) <=> At(w, stage, x)'
    BY <1>1 DEF Harms, At
  <2>3. "r" \in Over(x)
    BY Paths
  <2>4. ASSUME PresentFollowed(x) PROVE PresentFollowed(x)'
    <3>1. CASE RefreshAhead(x)
      BY <1>1, <3>1 DEF PresentFollowed, RefreshAhead, PendingRef, Intended
    <3>2. CASE ~RefreshAhead(x)
      <4>1. NoDelYet(x)
        BY <2>4, <3>2 DEF PresentFollowed
      <4>2. NoDelYet(x)'
        BY <1>1, <1>2, <4>1 DEF NoDelYet, PendingDel, Intended
      <4>3. j \notin Dels(x)
        BY <1>2, <4>1, JobsOn DEF NoDelYet
      <4>4. CASE rootDue
        <5>1. j \in Refs(x)
          BY <1>2, <2>3, <4>4, JobsOn
        <5> QED BY <1>3, <4>2, <5>1 DEF PresentFollowed
      <4>5. CASE outbox \cap Refs(x) # {}
        <5>1. CASE j \in Refs(x)
          BY <1>3, <4>2, <5>1 DEF PresentFollowed
        <5>2. CASE j \notin Refs(x)
          <6>1. outbox' \cap Refs(x) # {}
            BY <1>2, <4>5, <5>2
          <6> QED BY <4>2, <6>1 DEF PresentFollowed
        <5> QED BY <5>1, <5>2
      <4>6. CASE ~rootDue /\ outbox \cap Refs(x) = {}
        <5>1. /\ LastWord(waJobs, Refs(x), Dels(x)) => LastWord(waJobs, Refs(x), Dels(x))'
              /\ None(waJobs, Dels(x)) => None(waJobs, Dels(x))'
          BY <1>3, <4>3
        <5> QED BY <1>1, <2>2, <2>4, <3>2, <4>2, <4>6, <5>1 DEF PresentFollowed
      <4> QED BY <4>4, <4>5, <4>6
    <3> QED BY <3>1, <3>2
  <2>5. ASSUME AbsentFollowed(x) PROVE AbsentFollowed(x)'
    <3>1. outbox \cap Dels(x) # {} => outbox' \cap Dels(x) # {} \/ ~None(waJobs, Dels(x))'
      <4>1. j \in Dels(x) => ~None(waJobs, Dels(x))'
        BY <1>3
      <4>2. outbox \subseteq outbox' \cup {j}
        BY <1>2
      <4> QED BY <4>1, <4>2
    <3>2. ~None(waJobs, Dels(x)) => ~None(waJobs, Dels(x))'
      BY <1>3
    <3> QED BY <1>1, <2>2, <2>5, <3>1, <3>2 DEF AbsentFollowed, Intended
  <2> QED BY <1>1, <2>1, <2>4, <2>5 DEF FileFollowed
<1>6. DirRequested'
  <2>1. "r" \in Over("d") /\ "d" \in Over("d")
    BY DEF Over, Above
  <2>2. rootDue => ~None(waJobs, Refs("d"))'
    BY <1>2, <1>3, <2>1, JobsOn
  <2>3. Job("refresh", "d") \in outbox => Job("refresh", "d") \in outbox' \/ ~None(waJobs, Refs("d"))'
    <3>1. j \in Refs("d") => ~None(waJobs, Refs("d"))'
      BY <1>3
    <3>2. outbox \subseteq outbox' \cup {j} /\ Job("refresh", "d") \in Refs("d")
      BY <1>2, <2>1, JobsOn
    <3> QED BY <3>1, <3>2
  <2>4. ~None(waJobs, Refs("d")) => ~None(waJobs, Refs("d"))'
    BY <1>3
  <2>5. DirAhead => DirAhead'
    BY <1>1 DEF DirAhead, Intended
  <2> QED BY <1>0, <1>1, <2>2, <2>3, <2>4, <2>5 DEF DirRequested, At
<1> QED BY <1>4, <1>5, <1>6

--------------------------------------------------------------------------------
(***************************************************************************)
(* The resolvers.                                                          *)
(***************************************************************************)
LEMMA OneResolver ==
    ASSUME WaTyped, NEW w \in WaResolvers, NEW t, work' = [work EXCEPT ![w] = t], ver' = ver, NEW x
    PROVE  /\ work'[w] = t
           /\ \A u \in WaResolvers : u # w => work'[u] = work[u]
           /\ \A u \in WaResolvers : u # w =>
                 (Harms(u, x)' <=> Harms(u, x)) /\ \A stage : At(u, stage, x)' <=> At(u, stage, x)
           /\ \A stage : At(w, stage, x)' <=> t.at = stage /\ t.path \in Over(x)
           /\ Harms(w, x)' <=> \/ t.at = "delete" /\ t.path \in Over(x)
                               \/ t.at = "file" /\ t.path = x /\ t.v # ver[x]
<1>1. work'[w] = t /\ \A u \in WaResolvers : u # w => work'[u] = work[u]
  BY DEF WaTyped, ResolversTyped
<1>2. \A u \in WaResolvers : u # w =>
         (Harms(u, x)' <=> Harms(u, x)) /\ \A stage : At(u, stage, x)' <=> At(u, stage, x)
  BY <1>1 DEF Harms, At
<1>3. \A stage : At(w, stage, x)' <=> t.at = stage /\ t.path \in Over(x)
  BY <1>1 DEF At
<1>4. Harms(w, x)' <=> \/ t.at = "delete" /\ t.path \in Over(x)
                       \/ t.at = "file" /\ t.path = x /\ t.v # ver[x]
  BY <1>1, <1>3 DEF Harms
<1> QED BY <1>1, <1>2, <1>3, <1>4

LEMMA Upstream ==
    ASSUME UNCHANGED <<raw, overflow, pending, outbox>>, NEW x
    PROVE  /\ RefreshAhead(x)' <=> RefreshAhead(x)
           /\ NoDelYet(x)' <=> NoDelYet(x)
           /\ DirAhead' <=> DirAhead
           /\ \A p, kind : Intended(p, kind)' <=> Intended(p, kind)
           /\ \A A, B : LastWord(raw, A, B)' <=> LastWord(raw, A, B)
           /\ \A B : None(raw, B)' <=> None(raw, B)
<1>1. \A p, kind : Intended(p, kind)' <=> Intended(p, kind)
  BY DEF Intended
<1> QED BY <1>1 DEF RefreshAhead, NoDelYet, DirAhead, PendingRef, PendingDel

LEMMA TouchesIsOver ==
    ASSUME NEW x \in Followed, NEW p
    PROVE  x \in Touches(p) <=> p \in Over(x)
BY Paths DEF Touches

LEMMA InvTakes ==
    ASSUME WatcherInv, NEW w \in WaResolvers, ResolverTakes(w)
    PROVE  Answered' /\ DirRequested' /\ \A x \in Followed : FileFollowed(x)'
<1> DEFINE j == Head(waJobs)
           t == [Idle EXCEPT !.at = j.kind, !.path = j.path]
<1>0. WaTyped /\ Answered /\ DirRequested /\ waJobs \in Seq(WaJob)
  BY DEF WatcherInv, WaTyped, ResolversTyped
<1>1. /\ work[w].at = "idle" /\ waJobs # <<>> /\ waJobs' = Tail(waJobs)
      /\ work' = [work EXCEPT ![w] = t]
      /\ waExcused' = waExcused \cup {x \in Touches(j.path) :
                         \E u \in WaResolvers \ {w} : work[u].at # "idle" /\ x \in Touches(work[u].path)}
      /\ UNCHANGED <<ver, dirThere, watched, raw, overflow, pending, rootDue, outbox, ctrl, docs, overtaken, ctrlLost>>
  BY DEF ResolverTakes
<1>2. j \in WaJob /\ j = Job(j.kind, j.path) /\ j.kind \in {"refresh", "delete"}
  <2>1. j \in WaJob
    BY <1>0, <1>1, HeadTailProperties
  <2> QED BY <2>1, JobsOn
<1>3. t.at = j.kind /\ t.path = j.path
  BY DEF Idle
<1>4. \A A, B : /\ LastWord(waJobs, A, B) => LastWord(waJobs, A, B)' \/ (j \in A /\ None(waJobs, B)')
                /\ None(waJobs, B) <=> j \notin B /\ None(waJobs, B)'
  BY <1>0, <1>1, LastOfTail
<1> HIDE DEF j, t
<1>5. Answered'
  BY <1>0, <1>1, AnsweredStays
<1>6. ASSUME NEW x \in Followed PROVE FileFollowed(x)'
  <2> SUFFICES ASSUME x \notin waExcused', x \notin overtaken'
               PROVE  IF ver'[x] > 0 THEN PresentFollowed(x)' ELSE AbsentFollowed(x)'
    BY DEF FileFollowed
  <2>0. /\ ver' = ver /\ docs' = docs
        /\ IF ver[x] > 0 THEN PresentFollowed(x) ELSE AbsentFollowed(x)
    BY <1>1 DEF WatcherInv, FileFollowed
  <2>1. /\ j \in Refs(x) <=> j.kind = "refresh" /\ j.path \in Over(x)
        /\ j \in Dels(x) <=> j.kind = "delete" /\ j.path \in Over(x)
        /\ x \in Over(x)
    BY <1>2, JobsOn DEF Over
  <2>2. /\ work'[w] = t
        /\ \A u \in WaResolvers : u # w => work'[u] = work[u]
        /\ \A u \in WaResolvers : u # w =>
              (Harms(u, x)' <=> Harms(u, x)) /\ \A stage : At(u, stage, x)' <=> At(u, stage, x)
        /\ \A stage : At(w, stage, x)' <=> t.at = stage /\ t.path \in Over(x)
        /\ Harms(w, x)' <=> \/ t.at = "delete" /\ t.path \in Over(x)
                            \/ t.at = "file" /\ t.path = x /\ t.v # ver[x]
    BY <1>0, <1>1, OneResolver
  <2>3. (RefreshAhead(x)' <=> RefreshAhead(x)) /\ (NoDelYet(x)' <=> NoDelYet(x))
        /\ \A p, kind : Intended(p, kind)' <=> Intended(p, kind)
    BY <1>1, Upstream
  <2>4. ASSUME j.path \in Over(x), NEW u \in WaResolvers, u # w
        PROVE  ~(work[u].at # "idle" /\ work[u].path \in Over(x))
    BY <1>1, <2>4, TouchesIsOver
  <2>5. ASSUME PresentFollowed(x) PROVE PresentFollowed(x)'
    <3>1. CASE RefreshAhead(x)
      BY <2>3, <3>1 DEF PresentFollowed
    <3>2. CASE ~RefreshAhead(x) /\ (rootDue \/ outbox \cap Refs(x) # {})
      BY <1>1, <2>3, <2>5, <3>2 DEF PresentFollowed
    <3>3. CASE NoDelYet(x) /\ \E u \in WaResolvers : work[u].at = "expand" /\ x \in work[u].todo
      <4>1. PICK u \in WaResolvers : work[u].at = "expand" /\ x \in work[u].todo
        BY <3>3
      <4>2. u # w
        BY <1>1, <4>1
      <4>3. work'[u] = work[u]
        BY <2>2, <4>2
      <4> QED BY <2>3, <3>3, <4>1, <4>3 DEF PresentFollowed
    <3>4. CASE NoDelYet(x) /\ LastWord(waJobs, Refs(x), Dels(x))
      <4>1. CASE LastWord(waJobs, Refs(x), Dels(x))'
        BY <2>3, <3>4, <4>1 DEF PresentFollowed
      <4>2. CASE j \in Refs(x) /\ None(waJobs, Dels(x))'
        <5>1. At(w, "refresh", x)' /\ ~Harms(w, x)'
          BY <1>3, <2>1, <2>2, <4>2
        <5>2. \A u \in WaResolvers : u # w => ~Harms(u, x)
          BY <2>1, <2>4, <4>2 DEF Harms, At
        <5>3. \A u \in WaResolvers : ~Harms(u, x)'
          BY <2>2, <5>1, <5>2
        <5> QED BY <2>3, <3>4, <4>2, <5>1, <5>3 DEF PresentFollowed
      <4> QED BY <1>4, <3>4, <4>1, <4>2
    <3>5. CASE /\ NoDelYet(x) /\ None(waJobs, Dels(x))
               /\ \A u \in WaResolvers : ~Harms(u, x)
               /\ \/ docs[x] = ver[x]
                  \/ \E u \in WaResolvers : At(u, "refresh", x)
                  \/ \E u \in WaResolvers : work[u].at = "file" /\ work[u].path = x
      <4>1. j \notin Dels(x) /\ None(waJobs, Dels(x))'
        BY <1>4, <3>5
      <4>2. \A u \in WaResolvers : ~Harms(u, x)'
        BY <1>2, <1>3, <2>1, <2>2, <3>5, <4>1
      <4>3. \/ docs'[x] = ver'[x]
            \/ \E u \in WaResolvers : At(u, "refresh", x)'
            \/ \E u \in WaResolvers : work'[u].at = "file" /\ work'[u].path = x
        <5>1. CASE docs[x] = ver[x]
          BY <2>0, <5>1
        <5>2. ASSUME NEW u \in WaResolvers, At(u, "refresh", x) PROVE At(u, "refresh", x)'
          <6>1. u # w
            BY <1>1, <5>2 DEF At
          <6> QED BY <2>2, <5>2, <6>1
        <5>3. ASSUME NEW u \in WaResolvers, work[u].at = "file", work[u].path = x
              PROVE  work'[u].at = "file" /\ work'[u].path = x
          <6>1. u # w
            BY <1>1, <5>3
          <6> QED BY <2>2, <5>3, <6>1
        <5> QED BY <3>5, <5>1, <5>2, <5>3
      <4> QED BY <2>3, <3>5, <4>1, <4>2, <4>3 DEF PresentFollowed
    <3> QED BY <2>5, <3>1, <3>2, <3>3, <3>4, <3>5 DEF PresentFollowed
  <2>6. ASSUME AbsentFollowed(x) PROVE AbsentFollowed(x)'
    <3>0. work'[w].at # "file"
      BY <1>2, <1>3, <2>2
    <3>1. CASE ~None(waJobs, Dels(x))
      <4>1. CASE ~None(waJobs, Dels(x))'
        BY <4>1 DEF AbsentFollowed
      <4>2. CASE j \in Dels(x)
        <5>1. At(w, "delete", x)'
          BY <1>3, <2>1, <2>2, <4>2
        <5>2. \A u \in WaResolvers \ {w} : ~(work'[u].at = "file" /\ work'[u].path = x)
          BY <2>1, <2>2, <2>4, <4>2
        <5> QED BY <5>1, <5>2 DEF AbsentFollowed
      <4> QED BY <1>4, <3>1, <4>1, <4>2
    <3>2. CASE \E u \in WaResolvers : /\ At(u, "delete", x)
                                      /\ \A v \in WaResolvers \ {u} : ~(work[v].at = "file" /\ work[v].path = x)
      <4>1. PICK u \in WaResolvers : /\ At(u, "delete", x)
                                     /\ \A v \in WaResolvers \ {u} : ~(work[v].at = "file" /\ work[v].path = x)
        BY <3>2
      <4>2. u # w
        BY <1>1, <4>1 DEF At
      <4>3. At(u, "delete", x)' /\ \A v \in WaResolvers \ {u} : ~(work'[v].at = "file" /\ work'[v].path = x)
        BY <2>2, <3>0, <4>1, <4>2
      <4> QED BY <4>3 DEF AbsentFollowed
    <3>3. CASE docs[x] = 0 /\ \A u \in WaResolvers : ~(work[u].at = "file" /\ work[u].path = x)
      <4>1. docs'[x] = 0 /\ \A u \in WaResolvers : ~(work'[u].at = "file" /\ work'[u].path = x)
        BY <2>0, <2>2, <3>0, <3>3
      <4> QED BY <4>1 DEF AbsentFollowed
    <3> QED BY <1>1, <2>3, <2>6, <3>1, <3>2, <3>3 DEF AbsentFollowed
  <2> QED BY <2>0, <2>5, <2>6
<1>7. DirRequested'
  <2>1. DirAhead => DirAhead'
    BY <1>1, Upstream
  <2>2. \A u \in WaResolvers : At(u, "refresh", "d") => At(u, "refresh", "d")'
    <3> SUFFICES ASSUME NEW u \in WaResolvers, At(u, "refresh", "d") PROVE At(u, "refresh", "d")'
      OBVIOUS
    <3>1. u # w
      BY <1>1 DEF At
    <3> QED BY <1>0, <1>1, <3>1, OneResolver
  <2>3. ~None(waJobs, Refs("d")) => ~None(waJobs, Refs("d"))' \/ At(w, "refresh", "d")'
    <3>1. j \in Refs("d") => At(w, "refresh", "d")'
      <4>1. j \in Refs("d") => t.at = "refresh" /\ t.path \in Over("d")
        BY <1>2, <1>3, JobsOn
      <4> QED BY <1>0, <1>1, <4>1, OneResolver
    <3> QED BY <1>4, <3>1
  <2> QED BY <1>0, <1>1, <2>1, <2>2, <2>3 DEF DirRequested
<1> QED BY <1>5, <1>6, <1>7

\* What a step of one resolver has to leave true for a file to be followed.
Writes(w, x) == work[w].at = "file" /\ work[w].path = x
Walks(w, x)  == work[w].at = "expand" /\ x \in work[w].todo

LEMMA ResolverKeeps ==
    ASSUME WatcherInv, NEW w \in WaResolvers, NEW t, work' = [work EXCEPT ![w] = t],
           UNCHANGED <<ver, raw, overflow, pending, rootDue, outbox, overtaken>>,
           NEW x \in Followed, x \in waExcused => x \in waExcused',
           LastWord(waJobs, Refs(x), Dels(x)) => LastWord(waJobs, Refs(x), Dels(x))',
           None(waJobs, Dels(x)) <=> None(waJobs, Dels(x))',
           ver[x] > 0 =>
              /\ Walks(w, x) => Walks(w, x)' \/ LastWord(waJobs, Refs(x), Dels(x))'
              /\ Harms(w, x)' => Harms(w, x)
              /\ ~Harms(w, x) /\ (At(w, "refresh", x) \/ Writes(w, x) \/ docs[x] = ver[x]) =>
                    docs'[x] = ver'[x] \/ At(w, "refresh", x)' \/ Writes(w, x)',
           ~(ver[x] > 0) =>
              /\ Writes(w, x)' => Writes(w, x)
              /\ At(w, "delete", x) => docs'[x] = 0
              /\ docs[x] = 0 /\ ~Writes(w, x) => docs'[x] = 0
    PROVE  FileFollowed(x)'
<1> SUFFICES ASSUME x \notin waExcused', x \notin overtaken'
             PROVE  IF ver'[x] > 0 THEN PresentFollowed(x)' ELSE AbsentFollowed(x)'
  BY DEF FileFollowed
<1>0. WaTyped /\ ver' = ver /\ IF ver[x] > 0 THEN PresentFollowed(x) ELSE AbsentFollowed(x)
  BY DEF WatcherInv, FileFollowed
<1>1. /\ \A u \in WaResolvers : u # w => work'[u] = work[u]
      /\ \A u \in WaResolvers : u # w =>
            (Harms(u, x)' <=> Harms(u, x)) /\ \A stage : At(u, stage, x)' <=> At(u, stage, x)
      /\ \A stage : At(w, stage, x)' <=> t.at = stage /\ t.path \in Over(x)
      /\ work'[w] = t
  BY <1>0, OneResolver
<1>2. \A u \in WaResolvers : u # w => (Writes(u, x)' <=> Writes(u, x)) /\ (Walks(u, x)' <=> Walks(u, x))
  BY <1>1 DEF Writes, Walks
<1>3. (RefreshAhead(x)' <=> RefreshAhead(x)) /\ (NoDelYet(x)' <=> NoDelYet(x))
      /\ (\A p, kind : Intended(p, kind)' <=> Intended(p, kind))
      /\ (\A A, B : LastWord(raw, A, B)' <=> LastWord(raw, A, B))
      /\ (\A B : None(raw, B)' <=> None(raw, B))
  BY Upstream
<1>4. ASSUME ver[x] > 0, PresentFollowed(x) PROVE PresentFollowed(x)'
  <2>1. CASE RefreshAhead(x)
    BY <1>3, <2>1 DEF PresentFollowed
  <2>2. CASE ~RefreshAhead(x)
    <3>0. NoDelYet(x)'
      BY <1>3, <1>4, <2>2 DEF PresentFollowed
    <3>1. CASE rootDue \/ outbox \cap Refs(x) # {} \/ LastWord(waJobs, Refs(x), Dels(x))
      BY <3>0, <3>1 DEF PresentFollowed
    <3>2. ASSUME NEW u \in WaResolvers, Walks(u, x) PROVE PresentFollowed(x)'
      <4>1. Walks(u, x)' \/ LastWord(waJobs, Refs(x), Dels(x))'
        <5>1. CASE u = w
          BY <1>4, <3>2, <5>1
        <5>2. CASE u # w
          BY <1>2, <3>2, <5>2
        <5> QED BY <5>1, <5>2
      <4> QED BY <3>0, <4>1 DEF PresentFollowed, Walks
    <3>3. CASE /\ None(waJobs, Dels(x))
               /\ \A u \in WaResolvers : ~Harms(u, x)
               /\ \/ docs[x] = ver[x]
                  \/ \E u \in WaResolvers : At(u, "refresh", x)
                  \/ \E u \in WaResolvers : Writes(u, x)
      <4>1. \A u \in WaResolvers : ~Harms(u, x)'
        BY <1>1, <1>4, <3>3
      <4>2. \/ docs'[x] = ver'[x]
            \/ \E u \in WaResolvers : At(u, "refresh", x)'
            \/ \E u \in WaResolvers : Writes(u, x)'
        <5>1. CASE docs[x] = ver[x]
          BY <1>4, <3>3, <5>1
        <5>2. ASSUME NEW u \in WaResolvers, At(u, "refresh", x)
              PROVE  docs'[x] = ver'[x] \/ At(u, "refresh", x)' \/ Writes(u, x)'
          <6>1. CASE u = w
            BY <1>4, <3>3, <5>2, <6>1
          <6>2. CASE u # w
            BY <1>1, <5>2, <6>2
          <6> QED BY <6>1, <6>2
        <5>3. ASSUME NEW u \in WaResolvers, Writes(u, x)
              PROVE  docs'[x] = ver'[x] \/ At(u, "refresh", x)' \/ Writes(u, x)'
          <6>1. CASE u = w
            BY <1>4, <3>3, <5>3, <6>1
          <6>2. CASE u # w
            BY <1>2, <5>3, <6>2
          <6> QED BY <6>1, <6>2
        <5> QED BY <3>3, <5>1, <5>2, <5>3
      <4> QED BY <3>0, <3>3, <4>1, <4>2 DEF PresentFollowed, Writes
    <3> QED BY <1>4, <2>2, <3>1, <3>2, <3>3 DEF PresentFollowed, Walks, Writes
  <2> QED BY <2>1, <2>2
<1>5. ASSUME ~(ver[x] > 0), AbsentFollowed(x) PROVE AbsentFollowed(x)'
  <2>1. CASE \E u \in WaResolvers : At(u, "delete", x) /\ \A v \in WaResolvers \ {u} : ~Writes(v, x)
    <3>1. PICK u \in WaResolvers : At(u, "delete", x) /\ \A v \in WaResolvers \ {u} : ~Writes(v, x)
      BY <2>1
    <3>2. CASE u = w
      <4>1. \A v \in WaResolvers : v # w => ~Writes(v, x)'
        BY <1>2, <3>1, <3>2
      <4>2. ~Writes(w, x)'
        <5>1. ~Writes(w, x)
          BY <3>1, <3>2 DEF At, Writes
        <5> QED BY <1>5, <5>1
      <4>3. docs'[x] = 0
        BY <1>5, <3>1, <3>2
      <4> QED BY <4>1, <4>2, <4>3 DEF AbsentFollowed, Writes
    <3>3. CASE u # w
      <4>1. At(u, "delete", x)' /\ \A v \in WaResolvers \ {u} : ~Writes(v, x)'
        BY <1>1, <1>2, <1>5, <3>1, <3>3
      <4> QED BY <4>1 DEF AbsentFollowed, Writes
    <3> QED BY <3>2, <3>3
  <2>2. CASE docs[x] = 0 /\ \A u \in WaResolvers : ~Writes(u, x)
    <3>1. docs'[x] = 0 /\ \A u \in WaResolvers : ~Writes(u, x)'
      BY <1>2, <1>5, <2>2
    <3> QED BY <3>1 DEF AbsentFollowed, Writes
  <2>3. CASE \/ LastWord(raw, {Job("delete", x)}, {Job("refresh", x)})
             \/ ~None(raw, Dels(x) \ {Job("delete", x)})
             \/ Intended(x, "delete") /\ None(raw, {Job("refresh", x)})
             \/ \E p \in Above(x) : Intended(p, "delete")
             \/ outbox \cap Dels(x) # {}
             \/ ~None(waJobs, Dels(x))
    BY <1>3, <2>3 DEF AbsentFollowed
  <2> QED BY <1>5, <2>1, <2>2, <2>3 DEF AbsentFollowed, Writes
<1> QED BY <1>0, <1>4, <1>5

LEMMA DirKeeps ==
    ASSUME WatcherInv, NEW w \in WaResolvers, NEW t, work' = [work EXCEPT ![w] = t],
           UNCHANGED <<ver, dirThere, watched, raw, overflow, pending, rootDue, outbox>>,
           ctrlLost => ctrlLost', ~None(waJobs, Refs("d")) => ~None(waJobs, Refs("d"))',
           \A i \in DOMAIN ctrl : i \in DOMAIN ctrl' /\ ctrl'[i] = ctrl[i],
           dirThere /\ At(w, "refresh", "d") => ctrlLost' \/ \E i \in DOMAIN ctrl' : ctrl'[i] = "d"
    PROVE  DirRequested'
<1>1. WaTyped /\ DirRequested
  BY DEF WatcherInv
<1>2. \A u \in WaResolvers : u # w => (At(u, "refresh", "d")' <=> At(u, "refresh", "d"))
  BY <1>1, OneResolver
<1>3. DirAhead' <=> DirAhead
  BY Upstream
<1> SUFFICES ASSUME dirThere, "d" \notin watched PROVE DirRequested'
  BY DEF DirRequested
<1>4. CASE \E u \in WaResolvers : At(u, "refresh", "d")
  <2>1. PICK u \in WaResolvers : At(u, "refresh", "d")
    BY <1>4
  <2>2. CASE u = w
    BY <2>1, <2>2 DEF DirRequested
  <2>3. CASE u # w
    BY <1>2, <2>1, <2>3 DEF DirRequested
  <2> QED BY <2>2, <2>3
<1>5. CASE ~\E u \in WaResolvers : At(u, "refresh", "d")
  BY <1>1, <1>3, <1>5 DEF DirRequested
<1> QED BY <1>4, <1>5

LEMMA InvResolve ==
    ASSUME WatcherInv, NEW w \in WaResolvers, resolve_refresh(w)
    PROVE  Answered' /\ DirRequested' /\ \A x \in Followed : FileFollowed(x)'
<1> DEFINE p == work[w].path
<1>0. WaTyped /\ Answered
  BY DEF WatcherInv
<1>1. /\ work[w].at = "refresh" /\ p \in WaPaths
      /\ UNCHANGED <<ver, dirThere, watched, raw, overflow, pending, rootDue, outbox, waJobs, docs, overtaken>>
  BY <1>0 DEF resolve_refresh, WaTyped, ResolversTyped
<1>2. Answered'
  BY <1>0, <1>1, AnsweredStays
<1>3. \A x : ~Harms(w, x) /\ ~Writes(w, x) /\ ~Walks(w, x) /\ ~At(w, "delete", x)
             /\ (At(w, "refresh", x) <=> p \in Over(x))
  BY <1>1 DEF Harms, Writes, Walks, At
<1>4. \A A, B : (LastWord(waJobs, A, B)' <=> LastWord(waJobs, A, B)) /\ (None(waJobs, B)' <=> None(waJobs, B))
  BY <1>1
<1>5. ver \in [WaFiles -> Nat] /\ ctrl \in Seq(Dirs) /\ Len(ctrl) <= WaCtrlCap /\ ctrlLost \in BOOLEAN
      /\ ("g" \in WaFiles /\ ver["g"] > 0 => dirThere)
  BY <1>0 DEF WaTyped, DiskTyped, CtrlTyped
<1>6. \A x \in Followed : p \in Over(x) =>
         p = x \/ (p \in Dirs /\ (~Exists(p) => p = "d" /\ x = "g"))
  BY Paths DEF Exists, Dirs
<1>7. CASE ~Exists(p)
  <2>1. /\ work' = [work EXCEPT ![w].at = "delete", ![w].path = GoneId(p)]
        /\ UNCHANGED <<ctrl, ctrlLost, waExcused>>
    BY <1>1, <1>7 DEF resolve_refresh
  <2> DEFINE t == [work[w] EXCEPT !.at = "delete", !.path = GoneId(p)]
  <2>2. t.at = "delete" /\ t.path = GoneId(p)
    BY <1>0, <1>1 DEF WaTyped, ResolversTyped, Resolving
  <2>3. work' = [work EXCEPT ![w] = t]
    BY <1>0, <2>1 DEF WaTyped, ResolversTyped
  <2>4. GoneId(p) = p \/ GoneId(p) = "t"
    BY <1>0, <1>7 DEF GoneId, fs_doc_id, WaTyped, ResolversTyped
  <2> HIDE DEF t, p
  <2>5. ASSUME NEW x \in Followed PROVE FileFollowed(x)'
    <3>1. /\ \A stage : At(w, stage, x)' <=> t.at = stage /\ t.path \in Over(x)
          /\ Harms(w, x)' <=> \/ t.at = "delete" /\ t.path \in Over(x)
                              \/ t.at = "file" /\ t.path = x /\ t.v # ver[x]
          /\ work'[w] = t
      BY <1>0, <1>1, <2>3, OneResolver
    <3>2. ~Writes(w, x)'
      BY <2>2, <3>1 DEF Writes
    <3>3. ASSUME ver[x] > 0 PROVE p \notin Over(x) /\ ~Harms(w, x)'
      <4>1. p \notin Over(x)
        <5> SUFFICES ASSUME p \in Over(x) PROVE FALSE
          OBVIOUS
        <5>1. x \in {"f", "g"} /\ x \in WaFiles
          BY Paths
        <5>2. CASE p = x
          BY <1>7, <3>3, <5>1, <5>2 DEF Exists
        <5>3. CASE p = "d" /\ x = "g"
          BY <1>5, <1>7, <3>3, <5>1, <5>3 DEF Exists
        <5> QED BY <1>6, <1>7, <5>2, <5>3
      <4>2. GoneId(p) \notin Over(x)
        <5>1. "t" \notin Over(x)
          BY Paths, WaAssumption DEF WaPaths, Dirs
        <5> QED BY <2>4, <4>1, <5>1
      <4> QED BY <2>2, <3>1, <4>1, <4>2
    <3>4. /\ ver[x] > 0 => /\ Harms(w, x)' => Harms(w, x)
                           /\ At(w, "refresh", x) \/ Writes(w, x) \/ docs[x] = ver[x] => docs'[x] = ver'[x]
          /\ docs[x] = 0 => docs'[x] = 0
      BY <1>1, <1>3, <3>3
    <3> QED BY <1>1, <1>3, <1>4, <2>1, <2>3, <3>2, <3>4, ResolverKeeps
  <2>6. DirRequested'
    <3>1. dirThere => p \notin Over("d")
      BY <1>7 DEF Exists, Over, Above
    <3> QED BY <1>1, <1>3, <1>4, <2>1, <2>3, <3>1, DirKeeps
  <2> QED BY <1>2, <2>5, <2>6
<1>8. CASE Exists(p) /\ p \in WaFiles
  <2>0. p \notin Dirs
    BY <1>8, WaAssumption DEF Dirs
  <2>1. /\ work' = [work EXCEPT ![w].at = "file", ![w].v = ver[p]]
        /\ UNCHANGED <<ctrl, ctrlLost, waExcused>>
    BY <1>1, <1>8, <2>0 DEF resolve_refresh
  <2> DEFINE t == [work[w] EXCEPT !.at = "file", !.v = ver[p]]
  <2>2. t.at = "file" /\ t.path = p /\ t.v = ver[p]
    BY <1>0, <1>1 DEF WaTyped, ResolversTyped, Resolving
  <2>3. work' = [work EXCEPT ![w] = t]
    BY <1>0, <2>1 DEF WaTyped, ResolversTyped
  <2> HIDE DEF t, p
  <2>5. ASSUME NEW x \in Followed PROVE FileFollowed(x)'
    <3>1. /\ Harms(w, x)' <=> \/ t.at = "delete" /\ t.path \in Over(x)
                              \/ t.at = "file" /\ t.path = x /\ t.v # ver[x]
          /\ work'[w] = t
      BY <1>0, <1>1, <2>3, OneResolver
    <3>2. ~Harms(w, x)' /\ (Writes(w, x)' <=> p = x)
      BY <2>2, <3>1 DEF Writes
    <3>3. At(w, "refresh", x) => p = x
      BY <1>3, <1>6, <2>0
    <3>4. ~(ver[x] > 0) => ~Writes(w, x)'
      <4>1. x \notin Dirs
        BY Paths
      <4> QED BY <1>8, <3>2, <4>1 DEF Exists, Dirs
    <3>5. At(w, "refresh", x) \/ Writes(w, x) \/ docs[x] = ver[x] => docs'[x] = ver'[x] \/ Writes(w, x)'
      BY <1>1, <1>3, <3>2, <3>3
    <3>6. docs[x] = 0 => docs'[x] = 0
      BY <1>1
    <3> QED BY <1>1, <1>3, <1>4, <2>1, <2>3, <3>2, <3>4, <3>5, <3>6, ResolverKeeps
  <2>6. DirRequested'
    <3>1. p \notin Over("d")
      BY <2>0 DEF Over, Above, Dirs
    <3> QED BY <1>1, <1>3, <1>4, <2>1, <2>3, <3>1, DirKeeps
  <2> QED BY <1>2, <2>5, <2>6
<1>9. CASE Exists(p) /\ p \in Dirs
  <2>0. p \notin WaFiles
    BY <1>9, WaAssumption DEF Dirs
  <2> DEFINE t == IF FilesUnder(p) = {} THEN Idle ELSE [work[w] EXCEPT !.at = "expand", !.todo = FilesUnder(p)]
  <2>1. /\ AskToWatch(SubdirsOf(p)) /\ work' = [work EXCEPT ![w] = t]
        /\ waExcused' = waExcused \ FilesUnder(p)
    BY <1>1, <1>9, <2>0 DEF resolve_refresh
  <2>2. t.at \in {"idle", "expand"} /\ (FilesUnder(p) # {} => t.at = "expand" /\ t.todo = FilesUnder(p))
    <3>1. [work[w] EXCEPT !.at = "expand", !.todo = FilesUnder(p)].at = "expand"
      BY <1>0 DEF WaTyped, ResolversTyped, Resolving
    <3>2. [work[w] EXCEPT !.at = "expand", !.todo = FilesUnder(p)].todo = FilesUnder(p)
      BY <1>0 DEF WaTyped, ResolversTyped, Resolving
    <3> QED BY <3>1, <3>2 DEF Idle
  <2>3. SubdirsOf(p) \subseteq Dirs
    BY DEF SubdirsOf
  <2>4. /\ ctrlLost => ctrlLost'
        /\ \A i \in DOMAIN ctrl : i \in DOMAIN ctrl' /\ ctrl'[i] = ctrl[i]
        /\ \A q \in SubdirsOf(p) : ctrlLost' \/ \E i \in DOMAIN ctrl' : ctrl'[i] = q
    BY <1>5, <2>1, <2>3, AskKeepsTypes
  <2> HIDE DEF t, p
  <2>5. ASSUME NEW x \in Followed PROVE FileFollowed(x)'
    <3>1. /\ Harms(w, x)' <=> \/ t.at = "delete" /\ t.path \in Over(x)
                              \/ t.at = "file" /\ t.path = x /\ t.v # ver[x]
          /\ work'[w] = t
      BY <1>0, <1>1, <2>1, OneResolver
    <3>2. ~Harms(w, x)' /\ ~Writes(w, x)'
      BY <2>2, <3>1 DEF Writes
    <3>3. x \in WaFiles /\ Canonical(x) = x /\ x \notin Dirs
      BY Paths
    <3>4. CASE x \in FilesUnder(p)
      <4>1. ver'[x] > 0 /\ x \in WaFiles
        BY <1>1, <3>4 DEF FilesUnder
      <4>2. Walks(w, x)'
        BY <2>2, <3>1, <3>4 DEF Walks
      <4>3. x \notin overtaken' => NoDelYet(x)' \/ RefreshAhead(x)'
        BY <1>2, <4>1 DEF Answered, FileAnswered
      <4> QED BY <4>1, <4>2, <4>3 DEF FileFollowed, PresentFollowed, Walks
    <3>5. CASE x \notin FilesUnder(p)
      <4>1. x \in waExcused => x \in waExcused'
        BY <2>1, <3>5
      <4>2. ver[x] > 0 => ~At(w, "refresh", x)
        <5>1. ver[x] > 0 => p \notin Above(x)
          BY <3>3, <3>5 DEF FilesUnder
        <5>2. p # x
          BY <1>9, <3>3
        <5> QED BY <1>3, <5>1, <5>2 DEF Over
      <4>3. /\ ver[x] > 0 /\ (At(w, "refresh", x) \/ Writes(w, x) \/ docs[x] = ver[x]) => docs'[x] = ver'[x]
            /\ docs[x] = 0 => docs'[x] = 0
        BY <1>1, <1>3, <4>2
      <4> QED BY <1>1, <1>3, <1>4, <2>1, <3>2, <4>1, <4>3, ResolverKeeps
    <3> QED BY <3>4, <3>5
  <2>6. DirRequested'
    <3>1. dirThere /\ p \in Over("d") => "d" \in SubdirsOf(p)
      BY <1>9 DEF SubdirsOf, Exists, Over, Above, Dirs
    <3> QED BY <1>1, <1>3, <1>4, <2>1, <2>4, <3>1, DirKeeps
  <2> QED BY <1>2, <2>5, <2>6
<1> QED BY <1>1, <1>7, <1>8, <1>9 DEF WaPaths

LEMMA InvMutation ==
    ASSUME WatcherInv, NEW w \in WaResolvers, SendMutation(w)
    PROVE  Answered' /\ DirRequested' /\ \A x \in Followed : FileFollowed(x)'
<1> DEFINE p == work[w].path
<1>0. WaTyped /\ Answered /\ docs \in [WaIds -> 0..WaMaxVer]
  BY DEF WatcherInv, WaTyped, DiskTyped
<1>1. /\ work[w].at \in {"file", "delete"}
      /\ work' = [work EXCEPT ![w] = Idle]
      /\ UNCHANGED <<ver, dirThere, watched, raw, overflow, pending, rootDue, outbox, waJobs, ctrl,
                     waExcused, overtaken, ctrlLost>>
      /\ work[w].at = "file" => docs' = [docs EXCEPT ![Canonical(p)] = work[w].v]
      /\ work[w].at = "delete" => docs' = [i \in WaIds |-> IF i \in SubtreeOf(p) THEN 0 ELSE docs[i]]
  BY DEF SendMutation
<1>2. Answered'
  BY <1>0, <1>1, AnsweredStays
<1>3. /\ work[w].at = "file" => p \in WaFiles
      /\ work[w].at = "delete" => p \in Removable
  BY <1>0 DEF WaTyped, ResolversTyped
<1>4. Idle.at = "idle"
  BY DEF Idle
<1>5. ASSUME NEW x \in Followed PROVE FileFollowed(x)'
  <2>1. /\ Harms(w, x)' <=> \/ Idle.at = "delete" /\ Idle.path \in Over(x)
                            \/ Idle.at = "file" /\ Idle.path = x /\ Idle.v # ver[x]
        /\ work'[w] = Idle
    BY <1>0, <1>1, OneResolver
  <2>2. ~Harms(w, x)' /\ ~Writes(w, x)'
    BY <1>4, <2>1 DEF Writes
  <2>3. ~Walks(w, x) /\ ~At(w, "refresh", x)
    BY <1>1 DEF Walks, At
  <2>4. \A A, B : (LastWord(waJobs, A, B)' <=> LastWord(waJobs, A, B)) /\ (None(waJobs, B)' <=> None(waJobs, B))
    BY <1>1
  <2>5. x \in WaIds /\ x # "t" /\ Canonical(x) = x /\ x \in WaFiles /\ \A q \in Removable : q \in Over(x) <=> x \in SubtreeOf(q)
    BY Paths
  <2>6. work[w].at = "file" => docs'[x] = IF p = x THEN work[w].v ELSE docs[x]
    <3>1. p # x => Canonical(p) # x
      BY <2>5 DEF Canonical
    <3> QED BY <1>0, <1>1, <2>5, <3>1
  <2>7. work[w].at = "delete" => docs'[x] = IF p \in Over(x) THEN 0 ELSE docs[x]
    BY <1>1, <1>3, <2>5
  <2>8. ~Harms(w, x) /\ (Writes(w, x) \/ docs[x] = ver[x]) => docs'[x] = ver'[x]
    BY <1>1, <2>6, <2>7 DEF Harms, Writes, At
  <2>9. /\ At(w, "delete", x) => docs'[x] = 0
        /\ docs[x] = 0 /\ ~Writes(w, x) => docs'[x] = 0
    BY <1>1, <2>6, <2>7 DEF Writes, At
  <2> QED BY <1>1, <2>2, <2>3, <2>4, <2>8, <2>9, ResolverKeeps
<1>6. DirRequested'
  <2>1. ~At(w, "refresh", "d")
    BY <1>1 DEF At
  <2> QED BY <1>1, <2>1, DirKeeps
<1> QED BY <1>2, <1>5, <1>6

LEMMA InvSubtree ==
    ASSUME WatcherInv, NEW w \in WaResolvers, SendSubtree(w)
    PROVE  Answered' /\ DirRequested' /\ \A x \in Followed : FileFollowed(x)'
<1>0. WaTyped /\ Answered /\ waJobs \in Seq(WaJob) /\ work[w] \in Resolving
  BY DEF WatcherInv, WaTyped, ResolversTyped
<1>1. PICK y \in work[w].todo :
         /\ waJobs' = Append(waJobs, Job("refresh", y))
         /\ work' = [work EXCEPT ![w] = IF work[w].todo = {y} THEN Idle
                                           ELSE [work[w] EXCEPT !.todo = work[w].todo \ {y}]]
  BY DEF SendSubtree
<1> DEFINE t == IF work[w].todo = {y} THEN Idle ELSE [work[w] EXCEPT !.todo = work[w].todo \ {y}]
           j == Job("refresh", y)
<1>2. /\ work[w].at = "expand" /\ work' = [work EXCEPT ![w] = t]
      /\ UNCHANGED <<ver, dirThere, watched, raw, overflow, pending, rootDue, outbox, ctrl, docs,
                     waExcused, overtaken, ctrlLost>>
  BY <1>1 DEF SendSubtree
<1>3. /\ t.at \in {"idle", "expand"}
      /\ \A x \in work[w].todo : x # y => t.at = "expand" /\ x \in t.todo
  BY <1>0, <1>2 DEF Idle, Resolving
<1>4. j \in WaJob /\ waJobs' = Append(waJobs, j)
  <2>1. y \in WaPaths
    BY <1>0 DEF Resolving, WaPaths
  <2> QED BY <1>1, <2>1, IntentsAreJobs
<1>5. \A A, B : /\ LastWord(waJobs, A, B)' <=> j \in A \/ (j \notin B /\ LastWord(waJobs, A, B))
                /\ None(waJobs, B)' <=> None(waJobs, B) /\ j \notin B
  <2> SUFFICES ASSUME NEW A, NEW B
               PROVE  /\ LastWord(waJobs, A, B)' <=> j \in A \/ (j \notin B /\ LastWord(waJobs, A, B))
                      /\ None(waJobs, B)' <=> None(waJobs, B) /\ j \notin B
    OBVIOUS
  <2> HIDE DEF j
  <2>1. /\ LastWord(Append(waJobs, j), A, B) <=> j \in A \/ (j \notin B /\ LastWord(waJobs, A, B))
        /\ None(Append(waJobs, j), B) <=> None(waJobs, B) /\ j \notin B
    BY <1>0, <1>4, LastOfAppend
  <2> QED BY <1>4, <2>1
<1>6. \A x : j \notin Dels(x) /\ (x = y => j \in Refs(x))
  BY JobsOn DEF Over
<1> HIDE DEF t, j
<1>7. Answered'
  BY <1>0, <1>2, AnsweredStays
<1>8. ASSUME NEW x \in Followed PROVE FileFollowed(x)'
  <2>1. /\ Harms(w, x)' <=> \/ t.at = "delete" /\ t.path \in Over(x)
                            \/ t.at = "file" /\ t.path = x /\ t.v # ver[x]
        /\ work'[w] = t
    BY <1>0, <1>2, OneResolver
  <2>2. ~Harms(w, x)' /\ ~Writes(w, x)'
    BY <1>3, <2>1 DEF Writes
  <2>3. ~Writes(w, x) /\ ~At(w, "refresh", x) /\ ~At(w, "delete", x)
    BY <1>2 DEF Writes, At
  <2>4. /\ LastWord(waJobs, Refs(x), Dels(x)) => LastWord(waJobs, Refs(x), Dels(x))'
        /\ None(waJobs, Dels(x)) <=> None(waJobs, Dels(x))'
    BY <1>5, <1>6
  <2>5. Walks(w, x) => Walks(w, x)' \/ LastWord(waJobs, Refs(x), Dels(x))'
    <3>1. CASE x = y
      BY <1>5, <1>6, <3>1
    <3>2. CASE x # y
      BY <1>3, <2>1, <3>2 DEF Walks
    <3> QED BY <3>1, <3>2
  <2> QED BY <1>2, <2>2, <2>3, <2>4, <2>5, ResolverKeeps
<1>9. DirRequested'
  <2>1. ~At(w, "refresh", "d")
    BY <1>2 DEF At
  <2>2. ~None(waJobs, Refs("d")) => ~None(waJobs, Refs("d"))'
    BY <1>5
  <2> QED BY <1>2, <2>1, <2>2, DirKeeps
<1> QED BY <1>7, <1>8, <1>9

--------------------------------------------------------------------------------
(***************************************************************************)
(* The invariant and what follows from it.                                 *)
(***************************************************************************)
LEMMA WatcherInit == WaInit => WatcherInv
<1> SUFFICES ASSUME WaInit PROVE WatcherInv
  OBVIOUS
<1>1. WaTyped
  BY TypedInit
<1>2. /\ raw = <<>> /\ outbox = {} /\ waJobs = <<>> /\ overflow = FALSE
      /\ work = [w \in WaResolvers |-> Idle]
      /\ dirThere => "d" \in watched
  BY DEF WaInit, initial_crawl
<1>3. \A p, kind : ~Intended(p, kind)
  BY DEF WaInit, Intended
<1>4. \A A, B : None(raw, B) /\ None(waJobs, B)
  BY <1>2, LastOfEmpty
<1>5. \A x : NoDelYet(x)
  BY <1>2, <1>3, <1>4 DEF NoDelYet, PendingDel
<1>6. Answered
  BY <1>2, <1>3, <1>4, <1>5 DEF Answered, DirAnswered, UnseenAnswered, FileAnswered
<1>7. DirRequested
  BY <1>2 DEF DirRequested
<1>8. ASSUME NEW x \in Followed PROVE FileFollowed(x)
  <2>1. x \in WaFiles /\ x \in WaIds /\ Canonical(x) = x /\ \A p \in WaFiles : Canonical(p) = x => p = x
    BY Paths DEF Canonical
  <2>2. (CHOOSE p \in WaFiles : Canonical(p) = x) = x
    BY <2>1
  <2>3. docs[x] = ver[x]
    BY <2>1, <2>2 DEF WaInit
  <2>4. \A w \in WaResolvers : work[w].at = "idle"
    BY <1>2 DEF Idle
  <2>5. ver[x] \in Nat
    BY <1>1, <2>1 DEF WaTyped, DiskTyped
  <2>6. PresentFollowed(x)
    BY <1>4, <1>5, <2>3, <2>4 DEF PresentFollowed, Harms, At
  <2>7. ~(ver[x] > 0) => AbsentFollowed(x)
    BY <2>3, <2>4, <2>5 DEF AbsentFollowed
  <2> QED BY <2>6, <2>7 DEF FileFollowed
<1> QED BY <1>1, <1>6, <1>7, <1>8 DEF WatcherInv

LEMMA WatcherStep == WatcherInv /\ [WaNext]_waVars => WatcherInv'
<1> SUFFICES ASSUME WatcherInv, [WaNext]_waVars PROVE WatcherInv'
  OBVIOUS
<1>0. WaTyped
  BY DEF WatcherInv
<1>1. ASSUME NEW p \in WaFiles, WriteFile(p) PROVE WatcherInv'
  BY <1>0, <1>1, TypedEvent, InvWriteFile DEF WatcherInv
<1>2. ASSUME NEW p \in WaFiles, RemoveFile(p) PROVE WatcherInv'
  BY <1>0, <1>2, TypedEvent, InvRemoveFile DEF WatcherInv
<1>3. CASE RenameFile
  BY <1>0, <1>3, TypedEvent, InvRenameFile DEF WatcherInv
<1>4. ASSUME NEW v \in {0, 1}, MoveDirIn(v) PROVE WatcherInv'
  BY <1>0, <1>4, TypedEvent, InvMoveDirIn DEF WatcherInv
<1>5. CASE MoveDirOut
  BY <1>0, <1>5, TypedEvent, InvMoveDirOut DEF WatcherInv
<1>6. CASE AddWatch
  BY <1>0, <1>6, TypedCoalescer, InvAddWatch DEF WatcherInv
<1>7. CASE CoalescerReceives
  BY <1>0, <1>7, TypedCoalescer, InvReceive DEF WatcherInv
<1>8. CASE FlushTick
  BY <1>0, <1>8, TypedCoalescer, InvFlush DEF WatcherInv
<1>9. CASE CoalescerSends
  BY <1>0, <1>9, TypedCoalescer, InvSends DEF WatcherInv
<1>10. ASSUME NEW w \in WaResolvers, ResolverTakes(w) PROVE WatcherInv'
  BY <1>0, <1>10, TypedResolver, InvTakes DEF WatcherInv
<1>11. ASSUME NEW w \in WaResolvers, resolve_refresh(w) PROVE WatcherInv'
  BY <1>0, <1>11, TypedResolver, InvResolve DEF WatcherInv
<1>12. ASSUME NEW w \in WaResolvers, SendMutation(w) PROVE WatcherInv'
  BY <1>0, <1>12, TypedResolver, InvMutation DEF WatcherInv
<1>13. ASSUME NEW w \in WaResolvers, SendSubtree(w) PROVE WatcherInv'
  BY <1>0, <1>13, TypedResolver, InvSubtree DEF WatcherInv
<1>14. CASE UNCHANGED waVars
  <2>1. UNCHANGED <<ver, dirThere, watched, raw, overflow, pending, rootDue, outbox,
                    waJobs, work, ctrl, aliases, docs, waExcused, overtaken, ctrlLost>>
    BY <1>14 DEF waVars
  <2>2. WaTyped'
    BY <1>0, <2>1 DEF WaTyped, DiskTyped, RawTyped, CoalescerTyped, ResolversTyped, CtrlTyped
  <2>3. Answered'
    <3>1. outbox' \subseteq outbox /\ watched \subseteq watched' /\ Answered
      BY <2>1 DEF WatcherInv
    <3> QED BY <2>1, <3>1, AnsweredStays
  <2>4. DirRequested'
    <3>1. DirRequested
      BY DEF WatcherInv
    <3> QED BY <2>1, <3>1 DEF DirRequested, DirAhead, Intended, At
  <2>5. \A x \in Followed : FileFollowed(x)'
    BY <2>1, FollowedStays
  <2> QED BY <2>2, <2>3, <2>4, <2>5 DEF WatcherInv
<1> QED BY <1>1, <1>2, <1>3, <1>4, <1>5, <1>6, <1>7, <1>8, <1>9, <1>10, <1>11, <1>12, <1>13, <1>14 DEF WaNext

LEMMA InvIsNoticed == WatcherInv => NothingUnnoticed
<1> SUFFICES ASSUME WatcherInv, Quiet PROVE NothingUnnoticed
  BY DEF NothingUnnoticed, IndexFollowsDisk, DirectoriesWatched
<1>1. /\ raw = <<>> /\ ~overflow /\ pending = <<>> /\ ~rootDue /\ outbox = {} /\ waJobs = <<>>
      /\ \A w \in WaResolvers : work[w].at = "idle"
  BY DEF Quiet, CoalescerFree
<1>2. \A A, B : /\ ~LastWord(raw, A, B) /\ ~LastWord(waJobs, A, B)
                /\ None(raw, B) /\ None(waJobs, B)
  BY <1>1, LastOfEmpty
<1>3. \A p, kind : ~Intended(p, kind)
  <2>1. DOMAIN pending = {}
    BY <1>1
  <2> QED BY <2>1 DEF Intended
<1>4. \A w \in WaResolvers : \A stage, x : stage # "idle" => ~At(w, stage, x)
  BY <1>1 DEF At
<1>5. ASSUME NEW x \in WaFiles \ (waExcused \cup overtaken \cup {"l"}) PROVE docs[x] = ver[x]
  <2>1. x \in Followed /\ ver[x] \in Nat
    BY DEF Followed, WatcherInv, WaTyped, DiskTyped
  <2>2. FileFollowed(x)
    BY <2>1 DEF WatcherInv
  <2>3. CASE ver[x] > 0
    <3>1. PresentFollowed(x)
      BY <2>2, <2>3 DEF FileFollowed
    <3>2. ~RefreshAhead(x)
      BY <1>1, <1>2, <1>3 DEF RefreshAhead, PendingRef
    <3> QED BY <1>1, <1>2, <1>4, <3>1, <3>2 DEF PresentFollowed
  <2>4. CASE ~(ver[x] > 0)
    <3>1. AbsentFollowed(x)
      BY <2>2, <2>4 DEF FileFollowed
    <3>2. docs[x] = 0
      BY <1>1, <1>2, <1>3, <1>4, <3>1 DEF AbsentFollowed
    <3> QED BY <2>1, <2>4, <3>2
  <2> QED BY <2>3, <2>4
<1>6. ASSUME ctrl = <<>>, ~ctrlLost, NEW q \in Dirs, Exists(q) PROVE q \in watched
  <2>1. CASE q = "r"
    BY <2>1 DEF WatcherInv, WaTyped, DiskTyped
  <2>2. CASE q = "d"
    <3>1. dirThere
      BY <1>6, <2>2 DEF Exists
    <3>2. ~DirAhead
      BY <1>1, <1>2, <1>3 DEF DirAhead
    <3>3. DOMAIN ctrl = {}
      BY <1>6
    <3> QED BY <1>1, <1>2, <1>4, <1>6, <2>2, <3>1, <3>2, <3>3 DEF WatcherInv, DirRequested
  <2> QED BY <2>1, <2>2 DEF Dirs
<1> QED BY <1>5, <1>6 DEF NothingUnnoticed, IndexFollowsDisk, DirectoriesWatched

\* The queues of the watcher keep their capacities and every part of its state
\* its shape (watcher.rs: the three bounded channels and what is put in them).
THEOREM WatcherTyped == WaSpec => []WaTypeOK
<1>1. WatcherInv => WaTypeOK
  BY TypedIsTypeOK DEF WatcherInv
<1> QED BY <1>1, WatcherInit, WatcherStep, PTL DEF WaSpec

\* Nothing on disk goes unnoticed, whatever the queues hold, however many
\* resolvers there are and however often the tree changes: once everything has
\* drained the index is the disk and every directory is watched, but for the
\* losses named in waExcused, overtaken and ctrlLost (watcher.rs).
THEOREM NothingMissed == WaSpec => []NothingUnnoticed
BY WatcherInit, WatcherStep, InvIsNoticed, PTL DEF WaSpec
--------------------------------------------------------------------------------
(***************************************************************************)
(* The four components of one instance: a behaviour of it is one of each.  *)
(***************************************************************************)
\* A behaviour of the instance is one of the part that moves; the others rest.
LEMMA SurfacesApart == SurfacesSpec => WaSpec /\ EwSpec /\ LwSpec /\ RwSpec
<1>1. SurfacesInit => WaInit /\ EwInit /\ LwInit /\ RwInit
  BY DEF SurfacesInit
<1>2. [SurfacesNext]_<<waVars, ewVars, lwVars, rwVars, part>> =>
          [WaNext]_waVars /\ [EwNext]_ewVars /\ [LwNext]_lwVars /\ [RwNext]_rwVars
  BY DEF SurfacesNext
<1> QED
  BY <1>1, <1>2, PTL DEF SurfacesSpec, WaSpec, EwSpec, LwSpec, RwSpec

\* Every variable of the watcher, the embed worker, the launcher window and
\* its rows has its type.
THEOREM SurfacesTyped == SurfacesSpec => []SurfacesTypeOK
<1>1. WaTypeOK /\ EwTypeOK /\ LwTypeOK /\ RwTypeOK => SurfacesTypeOK
  BY DEF SurfacesTypeOK
<1> QED
  BY <1>1, SurfacesApart, WatcherTyped, EmbedTyped, WindowTyped, RowsTyped, PTL

\* The launcher shows the answer to the query it holds, in rows that are the
\* hits they show: whatever the order of keys, timers and replies, and in
\* whatever order GTK recycles the rows (factory.rs, window.rs).
THEOREM LauncherSoundAlways == SurfacesSpec => []LauncherSound
<1>1. LauncherHonest /\ RowsSound => LauncherSound
  BY DEF LauncherSound
<1> QED
  BY <1>1, SurfacesApart, WindowHonest, RowsAlwaysSound, PTL
===============================================================================
