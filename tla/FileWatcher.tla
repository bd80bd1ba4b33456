------------------------------ MODULE FileWatcher ------------------------------
(***************************************************************************)
(* The file watcher (crates/lixun-indexer/src/watcher.rs): the path from a *)
(* change on disk to a mutation of the index.  The notify thread owns the  *)
(* inotify watches and pushes raw events without waiting, the coalescer    *)
(* keeps one intent per path and flushes it every three seconds, two       *)
(* resolvers turn intents into mutations and walk new directories.         *)
(* The tree is the smallest one in which all of it matters: the root "r"   *)
(* with the file "f", the directory "d", the file "g" in "d", and "l", a   *)
(* file reached through a symbolic link, whose document is "t".            *)
(* "f" is named so that its name begins with the name of "d".              *)
(***************************************************************************)
EXTENDS Naturals, Sequences, FiniteSets, SequencesExt

CONSTANTS
    WaFiles,        \* the files of {"f", "g", "l"} that come and go
    WaRawCap,       \* RAW_EVENT_QUEUE_CAP
    WaJobCap,       \* REFRESH_QUEUE_CAP
    WaCtrlCap,      \* CONTROL_QUEUE_CAP
    WaResolvers,    \* RESOLVER_WORKERS
    WaMaxVer,       \* bound on the versions of a file
    WaMaxEvents     \* bound on the changes on disk

ASSUME WaAssumption ==
    /\ WaFiles \subseteq {"f", "g", "l"}
    /\ WaRawCap \in Nat /\ WaJobCap \in Nat /\ WaCtrlCap \in Nat
    /\ WaMaxVer \in Nat \ {0} /\ WaMaxEvents \in Nat

VARIABLES
    ver,        \* disk: the version of each file, 0 when there is none
    dirThere,   \* disk: "d" exists
    watched,    \* the directories inotify watches
    raw,        \* raw_tx/raw_rx: events on their way to the coalescer
    overflow,   \* OVERFLOW_FLAG
    pending,    \* pending: path -> "refresh" or "delete"
    rootDue,    \* the coalescer is sending the rescan of the root
    outbox,     \* jobs the coalescer is still sending, in no order
    waJobs,     \* refresh_tx/refresh_rx
    work,       \* what each resolver is at
    ctrl,       \* ctrl_tx/ctrl_rx: directories to watch
    aliases,    \* SymlinkAliases: observed path -> document id
    docs,       \* the index: document id -> version
    waExcused,    \* files whose last change nobody was told of (history)
    overtaken,  \* files with a deletion flushed with a walk of them (history)
    ctrlLost,   \* a directory to watch was dropped (history)
    events      \* changes on disk so far

waVars == <<ver, dirThere, watched, raw, overflow, pending, rootDue, outbox,
            waJobs, work, ctrl, aliases, docs, waExcused, overtaken, ctrlLost, events>>

Dirs == {"r", "d"}
WaPaths == WaFiles \cup Dirs
WaIds == {"f", "g", "l", "t"}

\* The directories a path lies in, by path components.
Above(p) == CASE p = "g" -> {"r", "d"} [] p = "r" -> {} [] OTHER -> {"r"}

\* The same by comparing strings: the name of "f" begins with that of "d".
Above_strings(p) == IF p = "f" THEN {"r", "d"} ELSE Above(p)

ParentDir(p) == IF p = "g" THEN "d" ELSE "r"
Exists(p) == CASE p = "r" -> TRUE [] p = "d" -> dirThere [] OTHER -> ver[p] > 0

is_descendant_strings(child, parent) == parent \in Above_strings(child)
is_descendant(child, parent) == parent \in Above(child)

\* The documents DeleteSubtree of an id removes.
SubtreeOf(id) == {id} \cup (IF id = "d" THEN {"g"} ELSE {})

\* fs_doc_id: the canonical id while the path can be resolved, else the raw one.
Canonical(p) == IF p = "l" THEN "t" ELSE p
fs_doc_id(p) == IF Exists(p) THEN Canonical(p) ELSE p

Idle == [at |-> "idle", path |-> "-", todo |-> {}, v |-> 0]
Job(kind, p) == [kind |-> kind, path |-> p]

\* initial_crawl: every directory under the roots is watched, not the files.
initial_crawl == {"r"} \cup (IF dirThere THEN {"d"} ELSE {})

WaInit ==
    /\ dirThere \in BOOLEAN
    /\ ver \in [WaFiles -> {0, 1}] /\ ("g" \in WaFiles /\ ~dirThere => ver["g"] = 0)
    /\ watched = initial_crawl
    /\ raw = <<>> /\ overflow = FALSE /\ pending = [p \in {} |-> "refresh"]
    /\ rootDue = FALSE /\ outbox = {} /\ waJobs = <<>> /\ ctrl = <<>>
    /\ work = [w \in WaResolvers |-> Idle]
    /\ docs = [i \in WaIds |-> IF \E p \in WaFiles : Canonical(p) = i
                               THEN ver[CHOOSE p \in WaFiles : Canonical(p) = i] ELSE 0]
    /\ aliases = [p \in {q \in WaFiles : ver[q] > 0 /\ Canonical(q) # q} |-> Canonical(p)]
    /\ waExcused = {} /\ overtaken = {} /\ ctrlLost = FALSE /\ events = 0

-----------------------------------------------------------------------------
(* The notify callback.                                                     *)

\* The intents of one notify event.
Intents(kind, paths) ==
    CASE kind \in {"remove", "from"} -> [i \in DOMAIN paths |-> Job("delete", paths[i])]
      [] kind \in {"create", "modify", "to"} -> [i \in DOMAIN paths |-> Job("refresh", paths[i])]
      [] kind = "both" -> <<Job("delete", paths[1]), Job("refresh", paths[2])>>
      [] OTHER -> <<>>

\* The files a change of the path may concern.
Concerned(p) == {x \in WaFiles : x = p \/ p \in Above(x)}

\* The files that are right again once the job has been done.
Fixed(job) == IF job.kind = "delete" THEN Concerned(job.path) ELSE {job.path} \cap WaFiles

\* try_send of every intent: what does not fit raises the flag and is gone.
OverflowAfter_unset(intents) == overflow
OverflowAfter(intents) == overflow \/ Len(raw) + Len(intents) > WaRawCap

\* dispatch_notify_event: an event is only seen through the watch of its
\* directory.  History: a deletion lost here is found by no rescan.
dispatch_notify_event(seen, intents) ==
    IF seen
    THEN LET room == IF Len(intents) > WaRawCap - Len(raw) THEN WaRawCap - Len(raw)
                     ELSE Len(intents)
             kept == SubSeq(intents, 1, room)
             lost == SubSeq(intents, room + 1, Len(intents))
             told == UNION {Fixed(kept[i]) : i \in DOMAIN kept}
             gone == UNION {Concerned(lost[i].path) : i \in {j \in DOMAIN lost : lost[j].kind = "delete"}}
         IN  /\ raw' = raw \o kept
             /\ overflow' = OverflowAfter(intents)
             /\ waExcused' = (waExcused \ told) \cup gone
             /\ overtaken' = overtaken \ told
    ELSE /\ waExcused' = waExcused \cup UNION {Concerned(intents[i].path) : i \in DOMAIN intents}
         /\ UNCHANGED <<raw, overflow, overtaken>>

\* A change on disk and the event inotify reports of it.
Changes(intents, dir) ==
    /\ events < WaMaxEvents /\ events' = events + 1
    /\ dispatch_notify_event(dir \in watched, intents)
    /\ UNCHANGED <<pending, rootDue, outbox, waJobs, work, ctrl, aliases, docs, ctrlLost>>

WriteFile(p) ==
    /\ ver[p] < WaMaxVer /\ (p = "g" => dirThere)
    /\ ver' = [ver EXCEPT ![p] = @ + 1]
    /\ Changes(Intents(IF ver[p] = 0 THEN "create" ELSE "modify", <<p>>), ParentDir(p))
    /\ UNCHANGED <<dirThere, watched>>

RemoveFile(p) ==
    /\ ver[p] > 0
    /\ ver' = [ver EXCEPT ![p] = 0]
    /\ Changes(Intents("remove", <<p>>), ParentDir(p))
    /\ UNCHANGED <<dirThere, watched>>

\* "f" replaces "g" by a rename inside the watched tree: inotify reports both
\* ends and the pair.  (An end in an unwatched directory reports nothing.)
RenameFile ==
    /\ {"f", "g"} \subseteq WaFiles /\ dirThere /\ "d" \in watched /\ ver["f"] > 0
    /\ ver' = [ver EXCEPT !["f"] = 0, !["g"] = ver["f"]]
    /\ Changes(Intents("from", <<"f">>) \o Intents("to", <<"g">>) \o Intents("both", <<"f", "g">>), "r")
    /\ UNCHANGED <<dirThere, watched>>

\* A directory comes or goes with its content: one event, of the directory.
MoveDirIn(v) ==
    /\ ~dirThere /\ dirThere' = TRUE
    /\ ver' = [p \in WaFiles |-> IF p = "g" THEN v ELSE ver[p]]
    /\ Changes(Intents("to", <<"d">>), "r")
    /\ UNCHANGED watched

\* The notify backend drops the watch of a directory that was moved away.
MoveDirOut ==
    /\ dirThere /\ dirThere' = FALSE
    /\ ver' = [p \in WaFiles |-> IF p = "g" THEN 0 ELSE ver[p]]
    /\ watched' = watched \ {"d"}
    /\ Changes(Intents("from", <<"d">>), "r")

\* notify_thread_main, Control::AddWatch: fails when the directory is gone.
AddWatch ==
    /\ ctrl # <<>> /\ ctrl' = Tail(ctrl)
    /\ watched' = IF Exists(Head(ctrl)) THEN watched \cup {Head(ctrl)} ELSE watched
    /\ UNCHANGED <<ver, dirThere, raw, overflow, pending, rootDue, outbox, waJobs,
                   work, aliases, docs, waExcused, overtaken, ctrlLost, events>>

-----------------------------------------------------------------------------
(* The coalescer.                                                           *)

CoalescerFree == ~rootDue /\ outbox = {}

\* The last intent of a path is the one that counts.  History: a directory that
\* comes back before its deletion is flushed is only walked again, and the
\* files it came back without are not deleted.
CoalescerReceives ==
    /\ CoalescerFree /\ raw # <<>>
    /\ pending' = [p \in DOMAIN pending \cup {Head(raw).path} |->
                     IF p = Head(raw).path THEN Head(raw).kind ELSE pending[p]]
    /\ raw' = Tail(raw)
    /\ waExcused' = IF <<Head(raw).path, Head(raw).kind>> = <<"d", "refresh">> /\ "d" \in DOMAIN pending
                  THEN waExcused \cup Concerned("d") ELSE waExcused
    /\ UNCHANGED <<ver, dirThere, watched, overflow, rootDue, outbox, waJobs, work,
                   ctrl, aliases, docs, overtaken, ctrlLost, events>>

\* A deletion under a directory that is deleted as well is redundant.
drop_descendant_deletes(snapshot) ==
    LET deletes == {p \in DOMAIN snapshot : snapshot[p] = "delete"}
    IN  {p \in DOMAIN snapshot :
           ~(p \in deletes /\ \E q \in deletes : is_descendant(p, q))}

\* flush_tick (biased: only when no raw event waits).  A rescan of the root
\* comes before the intents; doc ids of deletions are made here.
FlushTick ==
    /\ CoalescerFree /\ raw = <<>> /\ (overflow \/ pending # <<>>)
    /\ rootDue' = overflow /\ overflow' = FALSE
    /\ outbox' = {Job(pending[p], IF pending[p] = "delete" THEN fs_doc_id(p) ELSE p) :
                    p \in drop_descendant_deletes(pending)}
    /\ pending' = <<>>
    /\ overtaken' = overtaken \cup UNION {Concerned(p) : p \in {q \in DOMAIN pending :
                       /\ pending[q] = "delete"
                       /\ overflow \/ \E u \in Above(q) \cap DOMAIN pending : pending[u] = "refresh"}}
    /\ UNCHANGED <<ver, dirThere, watched, raw, waJobs, work, ctrl, aliases, docs,
                   waExcused, ctrlLost, events>>

\* refresh_tx.send(..).await: waits for room.
CoalescerSends ==
    /\ Len(waJobs) < WaJobCap
    /\ \/ /\ rootDue /\ rootDue' = FALSE
          /\ waJobs' = Append(waJobs, Job("refresh", "r"))
          /\ UNCHANGED outbox
       \/ /\ ~rootDue
          /\ \E j \in outbox : outbox' = outbox \ {j} /\ waJobs' = Append(waJobs, j)
          /\ UNCHANGED rootDue
    /\ UNCHANGED <<ver, dirThere, watched, raw, overflow, pending, work, ctrl,
                   aliases, docs, waExcused, overtaken, ctrlLost, events>>

-----------------------------------------------------------------------------
(* The resolvers.                                                           *)

Touches(path) == IF path \in WaPaths THEN Concerned(path) ELSE {}

\* rx.recv(): history, two resolvers that hold jobs of one file finish in any
\* order and the older one may be the last.
ResolverTakes(w) ==
    /\ work[w].at = "idle" /\ waJobs # <<>>
    /\ waJobs' = Tail(waJobs)
    /\ work' = [work EXCEPT ![w] = [Idle EXCEPT !.at = Head(waJobs).kind, !.path = Head(waJobs).path]]
    /\ waExcused' = waExcused \cup {x \in Touches(Head(waJobs).path) :
                     \E u \in WaResolvers \ {w} : work[u].at # "idle" /\ x \in Touches(work[u].path)}
    /\ UNCHANGED <<ver, dirThere, watched, raw, overflow, pending, rootDue, outbox,
                   ctrl, aliases, docs, overtaken, ctrlLost, events>>

\* WalkDir of a directory: its subdirectories with itself, and its files
\* (links are not followed, a link is no file of the walk).
SubdirsOf_below(p) == {q \in Dirs : Exists(q) /\ p \in Above(q)}
SubdirsOf(p) == {q \in Dirs : Exists(q) /\ (q = p \/ p \in Above(q))}
FilesUnder(p) == {x \in WaFiles : ver[x] > 0 /\ p \in Above(x) /\ Canonical(x) = x}

\* ctrl_tx.try_send for each subdirectory: what does not fit is dropped.
AskToWatch_all(dirs) ==
    /\ \E s \in SetToSeqs(dirs) : ctrl' = ctrl \o s
    /\ UNCHANGED ctrlLost
AskToWatch(dirs) ==
    LET room == WaCtrlCap - Len(ctrl)
    IN  \E s \in SetToSeqs(dirs) :
          /\ ctrl' = ctrl \o SubSeq(s, 1, IF Len(s) < room THEN Len(s) ELSE room)
          /\ ctrlLost' = (ctrlLost \/ Len(s) > room)

\* SymlinkAliasNoter: note, and forget of every alias of a document.
note(p) == [q \in DOMAIN aliases \cup {p} |-> IF q = p THEN Canonical(p) ELSE aliases[q]]
forget_alias(id) == [q \in {x \in DOMAIN aliases : aliases[x] # id} |-> aliases[q]]

\* Resolved::Gone: the id of the document, and the aliases afterwards.
GoneId(p) == IF p \in DOMAIN aliases THEN aliases[p] ELSE fs_doc_id(p)
GoneAliases(p) == IF p \in DOMAIN aliases THEN forget_alias(aliases[p]) ELSE aliases

\* resolve_refresh: what the path is now.  An alias is noted when the document
\* of a file has another id than its path.
resolve_refresh(w) ==
    LET p == work[w].path IN
    /\ work[w].at = "refresh"
    /\ \/ /\ ~Exists(p)                                                  \* Gone
          /\ work' = [work EXCEPT ![w].at = "delete", ![w].path = GoneId(p)]
          /\ aliases' = GoneAliases(p)
          /\ UNCHANGED <<ctrl, ctrlLost, waExcused>>
       \/ /\ Exists(p) /\ p \in WaFiles                                  \* File
          /\ work' = [work EXCEPT ![w].at = "file", ![w].v = ver[p]]
          /\ aliases' = IF Canonical(p) = p THEN aliases ELSE note(p)
          /\ UNCHANGED <<ctrl, ctrlLost, waExcused>>
       \/ /\ Exists(p) /\ p \in Dirs                                     \* Directory
          /\ AskToWatch(SubdirsOf(p))
          /\ work' = [work EXCEPT ![w] = IF FilesUnder(p) = {} THEN Idle
                                         ELSE [@ EXCEPT !.at = "expand", !.todo = FilesUnder(p)]]
          /\ waExcused' = waExcused \ FilesUnder(p)
          /\ UNCHANGED aliases
    /\ UNCHANGED <<ver, dirThere, watched, raw, overflow, pending, rootDue, outbox,
                   waJobs, docs, overtaken, events>>

\* mutation_tx.send(..).await: Upsert of the document, DeleteSubtree of the id.
SendMutation(w) ==
    /\ \/ work[w].at = "file" /\ docs' = [docs EXCEPT ![Canonical(work[w].path)] = work[w].v]
       \/ work[w].at = "delete" /\ docs' = [i \in WaIds |->
                                              IF i \in SubtreeOf(work[w].path) THEN 0 ELSE docs[i]]
    /\ work' = [work EXCEPT ![w] = Idle]
    /\ UNCHANGED <<ver, dirThere, watched, raw, overflow, pending, rootDue, outbox,
                   waJobs, ctrl, aliases, waExcused, overtaken, ctrlLost, events>>

\* refresh_tx.send(..).await for every file of the walk, into the queue the
\* resolvers themselves drain.
SendSubtree(w) ==
    /\ work[w].at = "expand" /\ Len(waJobs) < WaJobCap
    /\ \E x \in work[w].todo :
         /\ waJobs' = Append(waJobs, Job("refresh", x))
         /\ work' = [work EXCEPT ![w] = IF work[w].todo = {x} THEN Idle ELSE [work[w] EXCEPT !.todo = @ \ {x}]]
    /\ UNCHANGED <<ver, dirThere, watched, raw, overflow, pending, rootDue, outbox,
                   ctrl, aliases, docs, waExcused, overtaken, ctrlLost, events>>

WaNext ==
    \/ \E p \in WaFiles : WriteFile(p) \/ RemoveFile(p)
    \/ RenameFile
    \/ \E v \in {0, 1} : MoveDirIn(v)
    \/ MoveDirOut
    \/ AddWatch \/ CoalescerReceives \/ FlushTick \/ CoalescerSends
    \/ \E w \in WaResolvers :
         ResolverTakes(w) \/ resolve_refresh(w) \/ SendMutation(w) \/ SendSubtree(w)

WaSpec == WaInit /\ [][WaNext]_waVars

-----------------------------------------------------------------------------
Quiet ==
    /\ raw = <<>> /\ ~overflow /\ pending = <<>> /\ CoalescerFree /\ waJobs = <<>>
    /\ \A w \in WaResolvers : work[w].at = "idle"

\* The queues keep their capacities and every part of the state its shape:
\* none of the three senders that do not wait, nor the two that do, may put
\* more into a queue than it was made for.
WaTypeOK ==
    /\ ver \in [WaFiles -> 0..WaMaxVer] /\ dirThere \in BOOLEAN /\ watched \subseteq Dirs
    /\ Len(raw) <= WaRawCap /\ Len(waJobs) <= WaJobCap /\ Len(ctrl) <= WaCtrlCap
    /\ overflow \in BOOLEAN /\ rootDue \in BOOLEAN /\ ctrlLost \in BOOLEAN
    /\ DOMAIN pending \subseteq WaPaths
    /\ \A p \in DOMAIN pending : pending[p] \in {"refresh", "delete"}
    /\ \A w \in WaResolvers : work[w].at \in {"idle", "refresh", "delete", "file", "expand"}
    /\ docs \in [WaIds -> 0..WaMaxVer] /\ waExcused \cup overtaken \subseteq WaFiles

\* Once everything has drained, the index shows each file as it is on disk,
\* through any overflow of the event queue, coalescing of intents, move of a
\* directory or order of the flushed jobs.  The losses of this code are
\* left out by name (waExcused): a deletion dropped on overflow, a change in a
\* directory that is not watched yet, a directory back before its deletion was
\* flushed, two resolvers at one file, a deletion flushed with a walk that
\* finds the file again (OverflowRecovers) and the file behind a link (LinksLeaveNoGhost).
IndexFollowsDisk ==
    Quiet => \A p \in WaFiles \ (waExcused \cup overtaken \cup {"l"}) : docs[p] = ver[p]

\* Once everything has drained and unless a request was dropped, a directory
\* that exists is watched, however it came and went: otherwise every later
\* change in it is missed without a trace.
DirectoriesWatched ==
    Quiet /\ ctrl = <<>> /\ ~ctrlLost => \A q \in Dirs : Exists(q) => q \in watched

\* Nothing on disk goes unnoticed: the index as it is, the watches for what is
\* to come.
NothingUnnoticed == IndexFollowsDisk /\ DirectoriesWatched

-----------------------------------------------------------------------------
(* What comments of the code say and the code does not do.                  *)

\* What the coalescer says of its recovery, that it degrades granularity and
\* not correctness: once everything has drained after an overflow, a file that
\* is on disk is in the index as it is.  The deletions it flushes after the
\* rescan were recorded before it and remove what the rescan found.
OverflowRecovers ==
    Quiet => \A p \in WaFiles \ (waExcused \cup {"l"}) : ver[p] > 0 => docs[p] = ver[p]

\* What crates/lixun-sources/src/symlink_alias.rs says of deletions: the alias
\* recovers the canonical id, so no document of a file that was removed under
\* a link stays behind once everything has drained.
LinksLeaveNoGhost ==
    Quiet /\ "l" \in WaFiles \ waExcused => (ver["l"] = 0 => docs["t"] = 0)
=============================================================================
