------------------------------ MODULE MailSources ------------------------------
(***************************************************************************)
(* The sources of mail and what drives them.  Thunderbird's message data-  *)
(* base is read from a cursor by a tick and by a full reindex; a maildir   *)
(* follows the events of the plugin watcher, its debounce and cooldown;    *)
(* attachments are cut out of mbox files; and the plugins' factories turn  *)
(* the configuration into instances.  What a source emits is in the index  *)
(* at once: the order in which the writer applies it is IndexWriter's.     *)
(***************************************************************************)
EXTENDS Integers, Sequences, FiniteSets, FiniteSetsExt, SequencesExt

CONSTANTS
    MsMax,       \* bound: messages in the database
    MsLimit,     \* gloda_batch_size
    MsBackoffs,  \* retries of a busy database
    MsPaths,     \* where the one message of the maildir may lie: new, then cur
    MsQueueMax,  \* EVENT_CHANNEL_CAP
    MsChanges,   \* bound: changes of the maildir
    MsMboxes,    \* mbox files, as sequences of messages [eol, parts]
    MsConfigs    \* configurations: [entries, profile, installs, profiles]

VARIABLES
    msScene,  \* which source the behaviour follows
    msGloda,  \* rows, cursor file, index; the tick and the reindex under way
    msDir,    \* the maildir, its events, the dispatched task, its index
    msBox,    \* the mbox file and the attachments indexed of it
    msSetup   \* the configuration and the instances built of it

msVars == <<msScene, msGloda, msDir, msBox, msSetup>>

MsNobody == [pc |-> "idle"]

--------------------------------------------------------------------------------
(* GlodaSource *)

\* query_messages: the next rows above a cursor that are not deleted, with the
\* text Thunderbird has stored for them by now.
Page(cursor) ==
    LET after == {r \in msGloda.rows : r.id > cursor /\ ~r.deleted}
    IN  {r \in after : Cardinality({q \in after : q.id < r.id}) < MsLimit}

Highest(rows, cursor) == Max({r.id : r \in rows} \cup {cursor})

\* Upserts of rows: a later one replaces an earlier one of the same message.
Upserted(index, rows) == {d \in index : \A r \in rows : r.id # d.id} \cup {[id |-> r.id, text |-> r.text] : r \in rows}

\* Thunderbird stores a message, its text, or its removal.
Thunderbird ==
    /\ msScene = "gloda"
    /\ \/ Cardinality(msGloda.rows) < MsMax
          /\ \E text \in BOOLEAN :
                 msGloda' = [msGloda EXCEPT !.rows = @ \cup {[id |-> Cardinality(msGloda.rows) + 1, deleted |-> FALSE, text |-> text]}]
       \/ \E r \in msGloda.rows : ~r.text /\ msGloda' = [msGloda EXCEPT !.rows = (@ \ {r}) \cup {[r EXCEPT !.text = TRUE]}]
       \/ \E r \in msGloda.rows : ~r.deleted /\ msGloda' = [msGloda EXCEPT !.rows = (@ \ {r}) \cup {[r EXCEPT !.deleted = TRUE]}]
    /\ UNCHANGED <<msScene, msDir, msBox, msSetup>>

\* run_one's tick: on_tick reads the cursor.
TickBegins ==
    /\ msScene = "gloda" /\ msGloda.tick = MsNobody
    /\ msGloda' = [msGloda EXCEPT !.tick = [pc |-> "asks", cursor |-> msGloda.cursor, tries |-> 0]]
    /\ UNCHANGED <<msScene, msDir, msBox, msSetup>>

\* with_busy_retry: once more after each backoff, then the tick is put off.
with_busy_retry(tries) == tries < MsBackoffs

\* A busy answer: tried again, or given up until the next tick.
TickBusy ==
    /\ msGloda.tick.pc = "asks"
    /\ msGloda' = [msGloda EXCEPT !.tick = IF with_busy_retry(@.tries) THEN [@ EXCEPT !.tries = @ + 1] ELSE MsNobody]
    /\ UNCHANGED <<msScene, msDir, msBox, msSetup>>

\* The answer; nothing new ends the tick.
TickReads ==
    /\ msGloda.tick.pc = "asks"
    /\ msGloda' = [msGloda EXCEPT !.tick = IF Page(@.cursor) = {} THEN MsNobody
                                           ELSE [pc |-> "emits", cursor |-> @.cursor, rows |-> Page(@.cursor)]]
    /\ UNCHANGED <<msScene, msDir, msBox, msSetup>>

\* One batch is emitted, and only then the cursor file follows.
TickWrites_cursor_first ==
    /\ msGloda.tick.pc \in {"emits", "saves"}
    /\ msGloda' = IF msGloda.tick.pc = "emits"
                  THEN [msGloda EXCEPT !.cursor = Highest(msGloda.tick.rows, msGloda.tick.cursor), !.tick.pc = "saves"]
                  ELSE [msGloda EXCEPT !.index = Upserted(@, msGloda.tick.rows), !.tick = MsNobody]
    /\ UNCHANGED <<msScene, msDir, msBox, msSetup>>

TickWrites ==
    /\ msGloda.tick.pc \in {"emits", "saves"}
    /\ msGloda' = IF msGloda.tick.pc = "emits"
                  THEN [msGloda EXCEPT !.index = Upserted(@, msGloda.tick.rows), !.tick.pc = "saves"]
                  ELSE [msGloda EXCEPT !.cursor = Highest(msGloda.tick.rows, msGloda.tick.cursor), !.tick = MsNobody]
    /\ UNCHANGED <<msScene, msDir, msBox, msSetup>>

\* reindex_full: the instance's documents go, then the cursor file.
GlodaReindexBegins ==
    /\ msScene = "gloda"
    /\ \/ /\ msGloda.full = MsNobody /\ msGloda.reindexes > 0
          /\ msGloda' = [msGloda EXCEPT !.index = {}, !.reindexes = @ - 1, !.full = [pc |-> "forgets"]]
       \/ /\ msGloda.full.pc = "forgets"
          /\ msGloda' = [msGloda EXCEPT !.cursor = 0, !.full = [pc |-> "asks", cursor |-> 0, beside |-> msGloda.tick # MsNobody]]
    /\ UNCHANGED <<msScene, msDir, msBox, msSetup>>

\* Page after page; the last one writes the cursor, and a database that stays
\* busy ends the pass where it is, which the next tick continues from zero.
GlodaReindexReads ==
    /\ msGloda.full.pc = "asks"
    /\ LET rows == Page(msGloda.full.cursor)
       IN  \/ /\ rows # {}
              /\ msGloda' = [msGloda EXCEPT !.index = Upserted(@, rows), !.full.cursor = Highest(rows, @)]
           \/ /\ rows = {}
              /\ msGloda' = [msGloda EXCEPT !.cursor = msGloda.full.cursor, !.full = MsNobody]
           \/ msGloda' = [msGloda EXCEPT !.full = MsNobody, !.givenUp = @ \/ msGloda.full.beside]
    /\ UNCHANGED <<msScene, msDir, msBox, msSetup>>

--------------------------------------------------------------------------------
(* plugin_fs_watcher, MaildirSource *)

\* The callback of notify: a full queue drops the event.
Notified(dir, events) ==
    IF Len(dir.queue) + Len(events) =< MsQueueMax THEN [dir EXCEPT !.queue = @ \o events]
    ELSE [dir EXCEPT !.lost = TRUE]

\* Mail arrives, is moved (which notify reports three times), is removed, or is
\* moved out of the tree (which it reports as a change of the old name).
MailChanges ==
    /\ msScene = "maildir" /\ msDir.changes > 0
    /\ LET on == [msDir EXCEPT !.changes = @ - 1]
       IN  \E p \in MsPaths :
              \/ msDir.files = {} /\ msDir' = Notified([on EXCEPT !.files = {p}], <<[kind |-> "created", paths |-> <<p>>]>>)
              \/ /\ p \in msDir.files
                 /\ \/ msDir' = Notified([on EXCEPT !.files = {}], <<[kind |-> "removed", paths |-> <<p>>]>>)
                    \/ msDir' = Notified([on EXCEPT !.files = {}, !.lost = TRUE], <<[kind |-> "modified", paths |-> <<p>>]>>)
                    \/ \E q \in MsPaths \ {p} :
                           msDir' = Notified([on EXCEPT !.files = {q}],
                               <<[kind |-> "modified", paths |-> <<p>>], [kind |-> "modified", paths |-> <<q>>],
                                 [kind |-> "renamed", paths |-> <<p, q>>]>>)
    /\ UNCHANGED <<msScene, msGloda, msBox, msSetup>>

\* start: events are gathered until two seconds pass without one.
WatcherReceives ==
    /\ msDir.queue # <<>>
    /\ msDir' = [msDir EXCEPT !.queue = Tail(@), !.batch = Append(@, Head(msDir.queue))]
    /\ UNCHANGED <<msScene, msGloda, msBox, msSetup>>

\* map_notify_kind: each path of an event becomes an event of its own.
Spread(batch) ==
    FlattenSeq([i \in 1 .. Len(batch) |->
        [j \in 1 .. Len(batch[i].paths) |-> [kind |-> batch[i].kind, path |-> batch[i].paths[j], from |-> batch[i].paths[1]]]])

\* The debounce ends: the batch is dispatched, or dropped within the cooldown.
WatcherDispatches ==
    /\ msDir.queue = <<>> /\ msDir.batch # <<>>
    /\ msDir' = IF msDir.cooling THEN [msDir EXCEPT !.batch = <<>>, !.lost = TRUE]
                ELSE [msDir EXCEPT !.batch = <<>>, !.cooling = TRUE, !.task = Spread(msDir.batch)]
    /\ UNCHANGED <<msScene, msGloda, msBox, msSetup>>

\* Five seconds, in which a dispatched batch is taken to be handled.
CooldownEnds ==
    /\ msDir.cooling /\ msDir.task = <<>>
    /\ msDir' = [msDir EXCEPT !.cooling = FALSE]
    /\ UNCHANGED <<msScene, msGloda, msBox, msSetup>>

\* parse_message: a file that cannot be read gives no document.
parse_message(path) == {path} \cap msDir.files

\* on_fs_events, one event: a rename deletes the old name, whichever path it is of.
AfterEvent_keeps_old_name(index, e) ==
    CASE e.kind \in {"created", "modified", "renamed"} -> index \cup parse_message(e.path)
      [] e.kind = "removed" -> index \ {e.path}

AfterEvent(index, e) ==
    CASE e.kind \in {"created", "modified"} -> index \cup parse_message(e.path)
      [] e.kind = "removed" -> index \ {e.path}
      [] e.kind = "renamed" -> (index \ {e.from}) \cup parse_message(e.path)

on_fs_events ==
    /\ msDir.task # <<>>
    /\ msDir' = [msDir EXCEPT !.task = Tail(@), !.index = AfterEvent(@, Head(msDir.task)),
                              !.lost = @ \/ msDir.full # MsNobody]
    /\ UNCHANGED <<msScene, msGloda, msBox, msSetup>>

\* reindex_full of the maildir: its documents go, the tree is walked, and what
\* was read is emitted in a batch afterwards.
MaildirReindex ==
    /\ msScene = "maildir"
    /\ \/ /\ msDir.full = MsNobody /\ msDir.reindexes > 0
          /\ msDir' = [msDir EXCEPT !.index = {}, !.reindexes = @ - 1, !.full = [pc |-> "walks"]]
       \/ /\ msDir.full.pc = "walks"
          /\ msDir' = [msDir EXCEPT !.full = [pc |-> "emits", docs |-> msDir.files]]
       \/ /\ msDir.full.pc = "emits"
          /\ msDir' = [msDir EXCEPT !.index = @ \cup msDir.full.docs, !.full = MsNobody]
    /\ UNCHANGED <<msScene, msGloda, msBox, msSetup>>

--------------------------------------------------------------------------------
(* mbox files and their attachments *)

\* A file, byte by byte, as far as its reader tells bytes apart: the start and
\* the end of an envelope line, headers, blank lines, and bodies by their part.
Mark(tag) == <<tag, 0, 0>>
PartBytes(m, p) == <<Mark("part"), Mark("blank"), <<"body", m, p>>, <<"body", m, p>>>>
MessageBytes(m, msg) ==
    <<Mark("From"), Mark(msg.eol), Mark("header"), Mark("blank")>> \o FlattenSeq([p \in 1 .. msg.parts |-> PartBytes(m, p)])
FileBytes(mbox) == FlattenSeq([m \in 1 .. Len(mbox) |-> MessageBytes(m, mbox[m])])

Positions(bytes, tag) == {i \in 1 .. Len(bytes) : bytes[i] = Mark(tag)}
FirstAfter(places, at, otherwise) == Min({i \in places : i >= at} \cup {otherwise})

\* split_mbox_messages: from one envelope line to the next, or all of it.
split_mbox_messages(bytes) ==
    LET starts == Positions(bytes, "From")
    IN  IF starts = {} THEN {<<1, Len(bytes)>>}
        ELSE {<<s, FirstAfter(starts, s + 1, Len(bytes) + 1) - 1>> : s \in starts}

\* strip_mbox_envelope: where the message begins in its slice, past the first CRLF,
\* if there is any, else past the first LF.
strip_mbox_envelope(slice) ==
    LET crlf == Positions(slice, "crlf")
        lf == Positions(slice, "lf")
    IN  CASE slice[1] # Mark("From") -> 0
          [] slice[1] = Mark("From") /\ crlf # {} -> Min(crlf)
          [] slice[1] = Mark("From") /\ crlf = {} -> Min(lf)

\* WalkContext: the message's place in the file, on which its parts' places rest.
msg_offset_of_slice(from, start) == from - 1

msg_offset(from, start) == (from - 1) + start

\* walk_parts, find_headers_end: the parts of one message in order, each with the
\* place and the length of its body.
walk_parts(msg, offset) ==
    LET starts == Positions(msg, "part")
        place(s) == FirstAfter(Positions(msg, "blank"), s, Len(msg))
        ends(s) == FirstAfter(starts, s + 1, Len(msg) + 1) - 1
    IN  {[index |-> Cardinality({t \in starts : t < s}), off |-> offset + place(s), len |-> ends(s) - place(s)] : s \in starts}

\* parse_mbox_parts_from_bytes and index_all: what is indexed of a file, from
\* one reading of it.
index_all(mbox) ==
    LET bytes == FileBytes(mbox)
        parts(m) == LET slice == SubSeq(bytes, m[1], m[2])
                        start == strip_mbox_envelope(slice)
                    IN  walk_parts(SubSeq(slice, start + 1, Len(slice)), msg_offset(m[1], start))
    IN  UNION {{[msg |-> Cardinality(Positions(SubSeq(bytes, 1, m[1]), "From")), part |-> p] : p \in parts(m)} :
                   m \in split_mbox_messages(bytes)}

\* The attachments' reindex_full, which only the user asks for.
AttachmentsReindex ==
    /\ msScene = "mbox"
    /\ msBox' = [msBox EXCEPT !.docs = index_all(msBox.mbox), !.read = msBox.mbox]
    /\ UNCHANGED <<msScene, msGloda, msDir, msSetup>>

\* Thunderbird compacts the file; on_fs_events of the attachments does nothing.
Compacts ==
    /\ msScene = "mbox" /\ Len(msBox.mbox) > 1
    /\ msBox' = [msBox EXCEPT !.mbox = Tail(@)]
    /\ UNCHANGED <<msScene, msGloda, msDir, msSetup>>

--------------------------------------------------------------------------------
(* Factories and registry *)

\* parse_profiles_ini_selected: the profile an installation names and a section
\* lists, else the last one marked as default, else the installation's directory.
parse_profiles_ini(ini, exists) ==
    LET marked == SelectSeq(ini.profiles, LAMBDA p : p.default)
        listed == {ini.profiles[i].path : i \in 1 .. Len(ini.profiles)}
    IN  CASE ini.install \in listed -> ini.install
          [] ini.install \notin listed /\ marked # <<>> -> marked[Len(marked)].path
          [] ini.install \notin listed /\ marked = <<>> -> IF ini.install \in exists THEN ini.install ELSE "none"

\* find_profile: nothing without Thunderbird's directory; without a choice, any
\* directory with .default in its name.
find_profile(ini, exists) ==
    CASE exists = {} -> {"none"}
      [] exists # {} /\ parse_profiles_ini(ini, exists) # "none" -> {parse_profiles_ini(ini, exists)}
      [] exists # {} /\ parse_profiles_ini(ini, exists) = "none" -> exists

\* ThunderbirdFactory::build; only a configured profile is looked for on disk.
BuildThunderbird(tb, exists) ==
    CASE ~tb.enabled -> {<<>>}
      [] tb.enabled /\ tb.batch = 0 -> {<<"error">>}
      [] tb.enabled /\ tb.batch # 0 ->
             {IF p = "none" \/ (p = tb.profile /\ p \notin exists) THEN <<>>
              ELSE <<"builtin:gloda">> \o (IF tb.attachments THEN <<"builtin:tb_attachments">> ELSE <<>>) :
                  p \in IF tb.profile # "none" THEN {tb.profile} ELSE find_profile(tb.ini, exists)}

\* MaildirFactory::build: a repeated id is an error, also of a disabled entry.
BuildMaildir_trusting(entries) ==
    LET used == SelectSeq(entries, LAMBDA e : e.enabled /\ e.paths > 0)
    IN  [i \in 1 .. Len(used) |-> used[i].id]

BuildMaildir(entries) ==
    IF \E i, j \in 1 .. Len(entries) : i # j /\ entries[i].id = entries[j].id THEN <<"error">>
    ELSE LET used == SelectSeq(entries, LAMBDA e : e.enabled /\ e.paths > 0)
         IN  [i \in 1 .. Len(used) |-> used[i].id]

\* register, in the order of the factories; an error keeps the plugin out.
Registered(built) == FlattenSeq([i \in 1 .. Len(built) |-> IF built[i] = <<"error">> THEN <<>> ELSE built[i]])

\* The start of the daemon builds the instances.
BuildsSources ==
    /\ msScene = "setup" /\ msSetup.instances = <<"unbuilt">>
    /\ \E tb \in BuildThunderbird(msSetup.config.thunderbird, msSetup.config.exists) :
           msSetup' = [msSetup EXCEPT !.instances = Registered(<<tb, BuildMaildir(msSetup.config.maildir)>>)]
    /\ UNCHANGED <<msScene, msGloda, msDir, msBox>>

--------------------------------------------------------------------------------

MsInit ==
    /\ msGloda = [rows |-> {}, cursor |-> 0, index |-> {}, tick |-> MsNobody, full |-> MsNobody, reindexes |-> 1, givenUp |-> FALSE]
    /\ msDir = [files |-> {}, queue |-> <<>>, batch |-> <<>>, task |-> <<>>, index |-> {}, cooling |-> FALSE, lost |-> FALSE,
                changes |-> MsChanges, reindexes |-> 1, full |-> MsNobody]
    /\ \E mbox \in MsMboxes : msBox = [mbox |-> mbox, read |-> <<>>, docs |-> {}]
    /\ \E config \in MsConfigs : msSetup = [config |-> config, instances |-> <<"unbuilt">>]
    /\ msScene \in {"gloda", "maildir", "mbox", "setup"}
    /\ msScene # "mbox" => Len(msBox.mbox) = 1
    /\ msScene # "setup" => ~msSetup.config.thunderbird.enabled

MsNext ==
    \/ Thunderbird \/ TickBegins \/ TickBusy \/ TickReads \/ TickWrites \/ GlodaReindexBegins \/ GlodaReindexReads
    \/ MailChanges \/ WatcherReceives \/ WatcherDispatches \/ CooldownEnds \/ on_fs_events \/ MaildirReindex
    \/ AttachmentsReindex \/ Compacts \/ BuildsSources

MsSpec == MsInit /\ [][MsNext]_msVars

MsTypeOK ==
    /\ msGloda.cursor \in 0 .. MsMax /\ msGloda.tick.pc \in {"idle", "asks", "emits", "saves"} /\ msGloda.full.pc \in {"idle", "forgets", "asks"}
    /\ msDir.files \subseteq MsPaths /\ msDir.index \subseteq MsPaths /\ Len(msDir.queue) =< MsQueueMax
    /\ msDir.full.pc \in {"idle", "walks", "emits"}

--------------------------------------------------------------------------------
(* Properties *)

\* No message is passed over: every row up to the cursor file that is not
\* deleted has been emitted, through busy databases, removals and a reindex
\* beside the tick, except when a reindex that a tick with the old cursor
\* overlapped was given up (gloda.rs:433), or while a reindex is under way.
NoMailPassedOver ==
    msGloda.givenUp \/ msGloda.full # MsNobody \/ \A r \in msGloda.rows :
        r.id =< msGloda.cursor /\ ~r.deleted => \E d \in msGloda.index : d.id = r.id

\* When nothing is under way and no event was lost (a full queue, the cooldown,
\* a move out of the tree, an event handled during a reindex), the index has
\* exactly the messages of the maildir.
MaildirInStep ==
    msDir.queue = <<>> /\ msDir.batch = <<>> /\ msDir.task = <<>> /\ msDir.full = MsNobody /\ ~msDir.lost
        => msDir.index = msDir.files

\* Each attachment is cut exactly: the bytes it points to in the file that was
\* read are all of its part's body and nothing else, if line ends are not mixed.
AttachmentsAreCut ==
    (\A i, j \in 1 .. Len(msBox.read) : msBox.read[i].eol = msBox.read[j].eol) =>
        \A d \in msBox.docs :
            LET bytes == FileBytes(msBox.read)
                body == <<"body", d.msg, d.part.index + 1>>
            IN  {i \in 1 .. Len(bytes) : bytes[i] = body} = (d.part.off + 1) .. (d.part.off + d.part.len)

\* Two maildirs never share an instance, whose documents a reindex deletes by its
\* id, and attachments come only with the messages they belong to.
InstancesApart ==
    LET ids == msSetup.instances
    IN  /\ \A i, j \in 1 .. Len(ids) : i # j => ids[i] # ids[j]
        /\ "builtin:tb_attachments" \in ToSet(ids) => "builtin:gloda" \in ToSet(ids)

MailSound == NoMailPassedOver /\ MaildirInStep /\ AttachmentsAreCut /\ InstancesApart

\* indexer.rs:221 "will catch up via on_fs_events/on_tick": refuted, what a
\* cooldown discards nothing brings back.
MaildirCatchesUp ==
    msDir.queue = <<>> /\ msDir.batch = <<>> /\ msDir.task = <<>> /\ msDir.full = MsNobody => msDir.index = msDir.files

\* A message that Thunderbird indexed before its text is indexed with it later:
\* refuted, the cursor has passed it.
TextArrives == \A r \in msGloda.rows : r.text /\ r.id =< msGloda.cursor /\ msGloda.tick = MsNobody => [id |-> r.id, text |-> TRUE] \in msGloda.index

\* An attachment can still be opened where it was found: refuted by a
\* compaction of the file, which nothing follows (attachments.rs:208).
AttachmentsStay ==
    \A d \in msBox.docs : d.part.off + d.part.len =< Len(FileBytes(msBox.mbox))
================================================================================
