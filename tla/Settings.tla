------------------------------ MODULE Settings ------------------------------
(***************************************************************************)
(* config.toml and everyone who reads or writes it                         *)
(* (lixun-config/src/lib.rs, lixun-core/src/impact.rs, the ImpactSet       *)
(* request of lixun-daemon/src/main.rs, and the dashboard's toggles in     *)
(* lixun-cli/src/dashboard/config_mutation.rs).                            *)
(*                                                                         *)
(* The daemon reads the file once, at start; the user edits it at any      *)
(* time; the daemon and the dashboard edit one key each, by reading the    *)
(* whole file, truncating it and writing it again.  A document is a        *)
(* function from keys <<section, key>> to small integers: numbers are      *)
(* themselves, booleans 0 and 1, levels 0..3, lists their lengths and      *)
(* strings the index of a case the code tells apart.                       *)
(***************************************************************************)
EXTENDS Integers, FiniteSets, Sequences, TLC

CONSTANTS
  CfDocs,        \* the documents a user saves
  CfWriters,     \* client tasks of the daemon and dashboards that edit a key
  CfEdits,       \* <<key, value>> pairs they may be asked to persist
  CfCpus,        \* num_cpus::get()
  CfMaxSteps     \* bound on user edits, requests and restarts

VARIABLES
  cfFile,    \* [kind, doc]: "absent", "syntax" (does not parse) or "doc"
  cfUp,      \* the running daemon, or CfDown
  cfJob,     \* per writer: idle, or the new document and how far it got
  cfUser,    \* ghost: what the user and the finished edits made of the file
  cfSaid,    \* ghost: the last answer of each writer's request
  cfSteps

cfVars == <<cfFile, cfUp, cfJob, cfUser, cfSaid, cfSteps>>

CfEmpty == << >>
BadValue == -9      \* a value of the wrong type: serde rejects the document
NaN == -1           \* opacity = nan
CfDown == [on |-> FALSE]
CfIdle == [at |-> "idle"]

---------------------------------------------------------------------------
(* The impact profile: lixun-core/src/impact.rs.                            *)

Low == 0
Medium == 1
High == 2
Unlimited == 3
Levels == Low .. Unlimited

Raised(n, floor) == IF n < floor THEN floor ELSE n
Capped(n, cap) == IF n > cap THEN cap ELSE n
Clamp(n, lo, hi) == Capped(Raised(n, lo), hi)

(* One row per knob, its value at Low, Medium, High and Unlimited (MB for   *)
(* sizes, 0 for "no hint").                                                 *)
from_level(level, num_cpus) ==
  LET pick(low, medium, high, unlimited) ==
        <<low, medium, high, unlimited>>[level + 1]
  IN [ tokio_worker_threads    |-> pick(2, Raised(num_cpus \div 2, 2), num_cpus, num_cpus),
       onnx_intra_threads      |-> pick(1, 2, 4, num_cpus),
       onnx_inter_threads      |-> pick(1, 1, 2, num_cpus),
       rayon_threads           |-> pick(1, 2, Capped(num_cpus, 4), num_cpus),
       tantivy_heap_bytes      |-> pick(32, 64, 100, 200),
       tantivy_num_threads     |-> pick(1, 2, 4, num_cpus),
       embed_batch_hint        |-> pick(8, 16, 32, 64),
       embed_concurrency_hint  |-> pick(1, 1, 0, 0),
       ocr_jobs_per_tick       |-> pick(5, 20, 100, 200),
       ocr_adaptive_throttle   |-> pick(1, 1, 0, 0),
       ocr_nice_level          |-> pick(19, 15, 5, 0),
       ocr_io_class_idle       |-> pick(1, 1, 0, 0),
       ocr_worker_interval     |-> pick(30, 5, 1, 1),
       extract_cache_max_bytes |-> pick(100, 200, 500, 2000),
       max_file_size_bytes     |-> pick(5, 20, 50, 500),
       gloda_batch_size        |-> pick(200, 1000, 2500, 5000),
       daemon_nice             |-> pick(10, 5, 0, 0),
       daemon_sched_idle       |-> pick(1, 0, 0, 0) ]

---------------------------------------------------------------------------
(* Reading a document: Config::from_toml_str, section by section.           *)

KNOWN_TOP_LEVEL_KEYS == {"core", "ranking", "keybindings", "preview", "gui",
                         "extract", "ocr", "impact"}

LEGACY_TOP_LEVEL_KEYS == {"roots", "exclude", "exclude_regex",
                          "max_file_size_mb", "extractor_timeout_secs"}

(* Built-in defaults of the keys the model keeps. *)
Default ==
  ( <<"core", "exclude">>                  :> 12 ) @@   \* default_excludes()
  ( <<"core", "exclude_regex">>            :> 0 ) @@
  ( <<"core", "max_file_size_mb">>         :> 50 ) @@
  ( <<"core", "max_results">>              :> 30 ) @@
  ( <<"ranking", "apps">>                  :> 130 ) @@
  ( <<"ranking", "latch_cap">>             :> 300 ) @@
  ( <<"keybindings", "history_up">>        :> 1 ) @@
  ( <<"keybindings", "previous_result">>   :> 1 ) @@
  ( <<"keybindings", "filter_all">>        :> 3 ) @@
  ( <<"keybindings", "reset_gui_position">> :> 2 ) @@
  ( <<"preview", "max_file_size_mb">>      :> 50 ) @@
  ( <<"gui", "width_percent">>             :> 40 ) @@
  ( <<"gui", "max_width_px">>              :> 900 ) @@
  ( <<"gui", "preview_max_width_px">>      :> 1400 ) @@
  ( <<"gui", "opacity">>                   :> 70 ) @@
  ( <<"gui", "theme">>                     :> 0 ) @@
  ( <<"search", "web_engine_url">>         :> 3 ) @@
  ( <<"impact", "level">>                  :> High ) @@
  ( <<"impact", "on_battery_level">>       :> Low ) @@
  ( <<"extract", "cache_max_mb">>          :> 500 ) @@
  ( <<"ocr", "enabled">>                   :> 0 ) @@
  ( <<"ocr", "max_pages_per_pdf">>         :> 0 ) @@   \* 0: unlimited
  ( <<"ocr", "worker_interval_secs">>      :> 5 ) @@
  ( <<"ocr", "jobs_per_tick">>             :> 20 ) @@
  ( <<"ocr", "adaptive_throttle">>         :> 0 ) @@
  ( <<"ocr", "nice_level">>                :> 5 ) @@
  ( <<"ocr", "io_class_idle">>             :> 0 )

(* The keys of `section' the document sets, over what cfg holds. *)
Overlay(cfg, doc, section) ==
  [k \in DOMAIN cfg |->
     IF k[1] = section /\ k \in DOMAIN doc THEN doc[k] ELSE cfg[k]]

Put(cfg, k, v) == [cfg EXCEPT ![k] = v]

(* Excludes of the user extend the built-in ones; an invalid regex (0 here) *)
(* is skipped and the rest of the document stands.                          *)
core_section(cfg, doc) ==
  LET set == Overlay(cfg, doc, "core")
      excludes == <<"core", "exclude">>
  IN [set EXCEPT ![excludes] = IF excludes \in DOMAIN doc
                               THEN cfg[excludes] + doc[excludes]
                               ELSE cfg[excludes]]

(* Every key of a [ranking] table that is absent takes its default again;   *)
(* nothing is clamped.                                                      *)
ranking_section(cfg, doc) == Overlay(cfg, doc, "ranking")

keybindings_section(cfg, doc) == Overlay(cfg, doc, "keybindings")

preview_section(cfg, doc) == Overlay(cfg, doc, "preview")

gui_section(cfg, doc) ==
  LET set == Overlay(cfg, doc, "gui")
      opacity(v) == IF v = NaN THEN NaN ELSE Clamp(v, 0, 100)
  IN [set EXCEPT ![<<"gui", "width_percent">>] = Clamp(@, 10, 95),
                 ![<<"gui", "max_width_px">>] = Raised(@, 200),
                 ![<<"gui", "preview_max_width_px">>] = Raised(@, 400),
                 ![<<"gui", "opacity">>] = opacity(@)]

(* 0 is a blank template, 1 one without {query}: both keep the default. *)
search_section(cfg, doc) ==
  LET url == <<"search", "web_engine_url">>
  IN IF url \in DOMAIN doc /\ doc[url] \notin {0, 1} THEN Put(cfg, url, doc[url])
                                                    ELSE cfg

impact_section(cfg, doc) == Overlay(cfg, doc, "impact")

(* The resolved level seeds the extract, file size and OCR knobs; what the  *)
(* document sets itself comes after.                                        *)
profile_seeds(cfg, doc) ==
  LET p == from_level(cfg[<<"impact", "level">>], CfCpus)
      size == <<"core", "max_file_size_mb">>
  IN [cfg EXCEPT ![size] = IF size \in DOMAIN doc THEN @ ELSE p.max_file_size_bytes,
                 ![<<"extract", "cache_max_mb">>] = p.extract_cache_max_bytes,
                 ![<<"ocr", "worker_interval_secs">>] = p.ocr_worker_interval,
                 ![<<"ocr", "jobs_per_tick">>] = p.ocr_jobs_per_tick,
                 ![<<"ocr", "adaptive_throttle">>] = p.ocr_adaptive_throttle,
                 ![<<"ocr", "nice_level">>] = p.ocr_nice_level,
                 ![<<"ocr", "io_class_idle">>] = p.ocr_io_class_idle]

extract_section(cfg, doc) == Overlay(cfg, doc, "extract")

ocr_section(cfg, doc) == Overlay(cfg, doc, "ocr")

(* Mutant: zero jobs per tick stay zero. *)
validate_and_normalize_lax(cfg) ==
  [cfg EXCEPT ![<<"ocr", "nice_level">>] = Clamp(@, 0, 19)]

validate_and_normalize(cfg) ==
  [cfg EXCEPT ![<<"ocr", "worker_interval_secs">>] = Raised(@, 1),
              ![<<"ocr", "jobs_per_tick">>] = Raised(@, 1),
              ![<<"ocr", "nice_level">>] = Clamp(@, 0, 19),
              ![<<"core", "max_results">>] = Clamp(@, 1, 1000)]

(* What the built-in sections do not claim goes to the plugins. *)
plugin_sections(doc) ==
  {k[1] : k \in DOMAIN doc} \ (KNOWN_TOP_LEVEL_KEYS \cup LEGACY_TOP_LEVEL_KEYS)

(* The section's keys the loader knows by name, content_filter among them. *)
KNOWN_SECTION_KEYS ==
  {k \in DOMAIN Default : k[1] # "search"} \cup {<<"ocr", "content_filter">>}

unknown_key_warnings(doc) ==
  {k \in DOMAIN doc : /\ k[1] \in KNOWN_TOP_LEVEL_KEYS \ {"preview"}
                      /\ k \notin KNOWN_SECTION_KEYS}

(* Accelerator strings, by index: their modifiers as written and their key. *)
AccelText == << [mods |-> << >>, key |-> "up"],
                [mods |-> <<"ctrl">>, key |-> "0"],
                [mods |-> <<"ctrl">>, key |-> "grave"],
                [mods |-> <<"primary">>, key |-> "0"],
                [mods |-> <<"hypr">>, key |-> "0"],
                [mods |-> << >>, key |-> "super+space"] >>
ModifierOf == [shift |-> 1, ctrl |-> 2, control |-> 2, primary |-> 2,
               alt |-> 4, super |-> 8, meta |-> 16, hyper |-> 32]
NotAnAccel == [mods |-> {}, key |-> "none"]

normalize_accel(i) ==
  LET a == AccelText[i]
  IN IF \/ \E m \in 1..Len(a.mods) : a.mods[m] \notin DOMAIN ModifierOf
        \/ a.key = "super+space"
     THEN NotAnAccel
     ELSE [mods |-> {ModifierOf[a.mods[m]] : m \in 1..Len(a.mods)}, key |-> a.key]

(* The unordered pairs of actions bound to one accelerator. *)
duplicate_accel_warnings(cfg) ==
  LET actions == {k \in DOMAIN cfg : k[1] = "keybindings"}
      exempt == {<<"keybindings", "history_up">>, <<"keybindings", "previous_result">>}
  IN {pair \in SUBSET actions :
        /\ Cardinality(pair) = 2
        /\ pair # exempt
        /\ \A a, b \in pair : normalize_accel(cfg[a]) = normalize_accel(cfg[b])
        /\ \A a \in pair : normalize_accel(cfg[a]) # NotAnAccel}

(* Mutant: the profile is applied after the explicit [ocr] keys. *)
from_toml_str_seeded_last(doc) ==
  LET a == impact_section(search_section(gui_section(preview_section(
             keybindings_section(ranking_section(core_section(Default, doc), doc),
             doc), doc), doc), doc), doc)
  IN validate_and_normalize(profile_seeds(ocr_section(extract_section(a, doc), doc), doc))

from_toml_str(doc) ==
  LET a == impact_section(search_section(gui_section(preview_section(
             keybindings_section(ranking_section(core_section(Default, doc), doc),
             doc), doc), doc), doc), doc)
  IN validate_and_normalize(ocr_section(extract_section(profile_seeds(a, doc), doc), doc))

(* A plugin's own section is forwarded as it is. *)
Typed(doc) ==
  \A k \in DOMAIN doc : \/ k[1] \notin KNOWN_TOP_LEVEL_KEYS /\ k # <<"search", "web_engine_url">>
                        \/ doc[k] # BadValue

Readable(f) == f.kind = "absent" \/ (f.kind = "doc" /\ Typed(f.doc))

(* Config::load_or_default: built-in defaults and an error for a file that  *)
(* does not load.  No file at all is not an error.                          *)
load_or_default(f) ==
  [cfg |-> IF f.kind = "doc" /\ Typed(f.doc) THEN from_toml_str(f.doc) ELSE Default,
   plugins |-> IF f.kind = "doc" /\ Typed(f.doc) THEN plugin_sections(f.doc) ELSE {},
   error |-> ~ Readable(f)]

---------------------------------------------------------------------------
(* The factories and, of them, those that need no section. *)
Factories == {"semantic", "search", "calculator"}
default_enabled == {"calculator"}

(* Mutant: the first section that does not build ends the registration. *)
register_plugin_sources_all_or_none(doc, sections) ==
  IF \E k \in DOMAIN doc : k[1] \in sections /\ doc[k] = BadValue
  THEN [built |-> {}, warned |-> {}] ELSE [built |-> Factories \cap sections, warned |-> {}]

(* Each factory with a section, or needing none, builds its sources; one    *)
(* whose section is malformed is skipped with a warning and the others      *)
(* stand.                                                                   *)
register_plugin_sources(doc, sections) ==
  LET asked == {f \in Factories : f \in sections \/ f \in default_enabled}
      malformed == {f \in asked : \E k \in DOMAIN doc : k[1] = f /\ doc[k] = BadValue}
  IN [built |-> asked \ malformed, warned |-> malformed]

(* The OCR worker's own settings: at start those of the configuration, at   *)
(* every tick those of the profile in the swap.                             *)
spawn_ocr_worker(cfg) ==
  [interval |-> cfg[<<"ocr", "worker_interval_secs">>],
   jobs     |-> cfg[<<"ocr", "jobs_per_tick">>],
   nice     |-> IF cfg[<<"ocr", "adaptive_throttle">>] = 1
                THEN cfg[<<"ocr", "nice_level">>] ELSE NaN]

ArcSwapOcrRefresh(level) ==
  LET p == from_level(level, CfCpus)
  IN [interval |-> p.ocr_worker_interval,
      jobs     |-> p.ocr_jobs_per_tick,
      nice     |-> IF p.ocr_adaptive_throttle = 1 THEN p.ocr_nice_level ELSE NaN]

CfInit ==
  /\ cfFile = [kind |-> "absent", doc |-> CfEmpty]
  /\ cfUp = CfDown
  /\ cfJob = [w \in CfWriters |-> CfIdle]
  /\ cfUser = [file |-> cfFile, clash |-> FALSE]
  /\ cfSaid = [w \in CfWriters |-> "nothing"]
  /\ cfSteps = 0

CfCount == cfSteps < CfMaxSteps /\ cfSteps' = cfSteps + 1
CfBusy == \E w \in CfWriters : cfJob[w].at # "idle"

(* The user saves a document, or one with a syntax error, with an editor    *)
(* that replaces the file at once.                                          *)
CfUserSaves ==
  /\ CfCount
  /\ \E f \in {[kind |-> "doc", doc |-> d] : d \in CfDocs}
              \cup {[kind |-> "syntax", doc |-> CfEmpty]} :
        /\ cfFile' = f
        /\ cfUser' = [file |-> f, clash |-> CfBusy]
  /\ UNCHANGED <<cfUp, cfJob, cfSaid>>

(* main and async_main: load, resolve the profile once for the swap and     *)
(* once for everything that cannot change later.                            *)
CfDaemonStarts ==
  /\ ~ cfUp.on
  /\ CfCount
  /\ LET l == load_or_default(cfFile)
         level == l.cfg[<<"impact", "level">>]
     IN cfUp' = [on |-> TRUE, cfg |-> l.cfg, plugins |-> l.plugins, error |-> l.error,
                  sources |-> register_plugin_sources(cfFile.doc, l.plugins),
                  of |-> cfFile, level |-> level, cold |-> from_level(level, CfCpus),
                  worker |-> spawn_ocr_worker(l.cfg), ticked |-> FALSE]
  /\ UNCHANGED <<cfFile, cfJob, cfUser, cfSaid>>

(* The daemon dies, and what its client tasks were doing with it.  A file   *)
(* that was truncated and not yet written stays empty.                      *)
CfDaemonDies ==
  /\ cfUp.on
  /\ LET own == {w \in CfWriters : cfJob[w].at # "idle"
                                   /\ cfJob[w].edit[1] = <<"impact", "level">>}
         cut == \E w \in own : cfJob[w].at = "truncated"
     IN /\ cfUser' = [cfUser EXCEPT !.clash = @ \/ cut]
        /\ cfJob' = [w \in CfWriters |-> IF w \in own THEN CfIdle ELSE cfJob[w]]
  /\ cfUp' = CfDown
  /\ UNCHANGED <<cfFile, cfSaid, cfSteps>>

CfOcrTick ==
  /\ cfUp.on
  /\ cfUp.cfg[<<"ocr", "enabled">>] = 1
  /\ cfUp' = [cfUp EXCEPT !.worker = ArcSwapOcrRefresh(cfUp.level), !.ticked = TRUE]
  /\ UNCHANGED <<cfFile, cfJob, cfUser, cfSaid, cfSteps>>

(* Mutant: the edited section is all that is written back. *)
Edited_alone(f, k, v) == k :> v

(* The document with one key replaced, every other key verbatim; a file     *)
(* that is not there becomes one with that key alone.                       *)
Edited(f, k, v) == (k :> v) @@ f.doc

(* Mutant: a file that does not parse is taken for an empty one. *)
CanEdit_anything(f) == TRUE

(* toml_edit parses what serde would reject for its types, but not a file   *)
(* with a syntax error: the edit then fails and the file stays as it is.    *)
CanEdit(f) == f.kind # "syntax"

(* ImpactSet: the new level is live before the file is touched, so it stays *)
(* live when persisting fails.  Without `persist' nothing else happens.     *)
CfImpactSet(w) ==
  /\ cfUp.on
  /\ cfJob[w].at = "idle"
  /\ CfCount
  /\ \E e \in CfEdits, persist \in BOOLEAN :
       /\ e[1] = <<"impact", "level">>
       /\ cfUp' = [cfUp EXCEPT !.level = e[2]]
       /\ IF persist /\ CanEdit(cfFile)
          THEN /\ cfJob' = [cfJob EXCEPT ![w] =
                     [at |-> "read", edit |-> e, new |-> Edited(cfFile, e[1], e[2])]]
               /\ cfUser' = [cfUser EXCEPT !.clash = @ \/ CfBusy]
               /\ UNCHANGED cfSaid
          ELSE /\ cfSaid' = [cfSaid EXCEPT ![w] = IF persist THEN "error" ELSE "applied"]
               /\ UNCHANGED <<cfJob, cfUser>>
  /\ UNCHANGED cfFile

(* toggle_ocr and toggle_semantic of the dashboard, a process of its own:   *)
(* the daemon need not run, and learns of it at its next start.             *)
CfToggle(w) ==
  /\ cfJob[w].at = "idle"
  /\ CfCount
  /\ \E e \in CfEdits :
       /\ e[1] # <<"impact", "level">>
       /\ IF CanEdit(cfFile)
          THEN /\ cfJob' = [cfJob EXCEPT ![w] =
                     [at |-> "read", edit |-> e, new |-> Edited(cfFile, e[1], e[2])]]
               /\ cfUser' = [cfUser EXCEPT !.clash = @ \/ CfBusy]
               /\ UNCHANGED cfSaid
          ELSE /\ cfSaid' = [cfSaid EXCEPT ![w] = "error"]
               /\ UNCHANGED <<cfJob, cfUser>>
  /\ UNCHANGED <<cfFile, cfUp>>

(* fs::write opens with O_TRUNC ... *)
CfTruncates(w) ==
  /\ cfJob[w].at = "read"
  /\ cfFile' = [kind |-> "doc", doc |-> CfEmpty]
  /\ cfJob' = [cfJob EXCEPT ![w].at = "truncated"]
  /\ UNCHANGED <<cfUp, cfUser, cfSaid, cfSteps>>

(* ... and then writes, or fails (a full disk), leaving the empty file. *)
CfWrites(w) ==
  /\ cfJob[w].at = "truncated"
  /\ LET file == [kind |-> "doc", doc |-> cfJob[w].new]
         e == cfJob[w].edit
     IN \/ /\ cfFile' = file
           /\ cfUser' = [cfUser EXCEPT !.file = [kind |-> "doc", doc |-> (e[1] :> e[2]) @@ cfUser.file.doc]]
           /\ cfSaid' = [cfSaid EXCEPT ![w] = "persisted"]
        \/ /\ cfUser' = [cfUser EXCEPT !.clash = TRUE]
           /\ cfSaid' = [cfSaid EXCEPT ![w] = "error"]
           /\ UNCHANGED cfFile
  /\ cfJob' = [cfJob EXCEPT ![w] = CfIdle]
  /\ UNCHANGED <<cfUp, cfSteps>>

CfNext ==
  \/ CfUserSaves \/ CfDaemonStarts \/ CfDaemonDies \/ CfOcrTick
  \/ \E w \in CfWriters : CfImpactSet(w) \/ CfToggle(w) \/ CfTruncates(w) \/ CfWrites(w)

---------------------------------------------------------------------------
(* The file holds a document, the daemon a level, each writer one edit.     *)
CfTypeOK ==
  /\ cfFile.kind \in {"absent", "syntax", "doc"}
  /\ cfUp.on => cfUp.level \in Levels /\ DOMAIN cfUp.cfg = DOMAIN Default
  /\ \A w \in CfWriters : cfJob[w].at \in {"idle", "read", "truncated"}
  /\ cfSteps \in 0..CfMaxSteps

(* Persisting one setting never costs another: unless two edits overlapped  *)
(* or one was cut off in the middle, the file is what the user saved last   *)
(* with the finished edits on top (`preserving every other key verbatim'). *)
OtherSettingsKept == ~ cfUser.clash /\ ~ CfBusy => cfFile = cfUser.file

(* A file the user broke is left for them to mend: no edit overwrites it    *)
(* unless it was under way when they saved.                                 *)
BrokenFileKept ==
  cfUser.file.kind = "syntax" /\ ~ cfUser.clash => cfFile.kind = "syntax"

(* Whatever was in the file, the running daemon has usable numbers: no      *)
(* zero interval (tokio::time::interval panics), no empty OCR batch, no     *)
(* window of no size, a niceness the kernel takes, at least one result.     *)
SettingsUsable ==
  cfUp.on =>
    LET c(s, k) == cfUp.cfg[<<s, k>>]
    IN /\ c("ocr", "worker_interval_secs") >= 1 /\ c("ocr", "jobs_per_tick") >= 1
       /\ c("ocr", "nice_level") \in 0..19 /\ c("core", "max_results") \in 1..1000
       /\ c("gui", "width_percent") \in 10..95 /\ c("gui", "max_width_px") >= 200
       /\ c("search", "web_engine_url") \notin {0, 1}

(* A key the document sets beats the impact level, a key it does not set    *)
(* follows the level, whatever order the sections come in.                  *)
ExplicitBeatsProfile ==
  cfUp.on /\ cfUp.of.kind = "doc" /\ ~ cfUp.error =>
    LET d == cfUp.of.doc
        seeded(k, knob) ==
          LET base == IF k \in DOMAIN d THEN d[k]
                      ELSE from_level(cfUp.cfg[<<"impact", "level">>], CfCpus)[knob]
          IN cfUp.cfg[k] \in {base, Raised(base, 1), Capped(base, 19)}
    IN /\ seeded(<<"ocr", "jobs_per_tick">>, "ocr_jobs_per_tick")
       /\ seeded(<<"ocr", "nice_level">>, "ocr_nice_level")
       /\ seeded(<<"ocr", "worker_interval_secs">>, "ocr_worker_interval")
       /\ seeded(<<"core", "max_file_size_mb">>, "max_file_size_bytes")
       /\ seeded(<<"extract", "cache_max_mb">>, "extract_cache_max_bytes")

(* A daemon that could not read its file says so and runs on the built-in   *)
(* settings; and what it calls an error is never a file it did read.  A     *)
(* malformed plugin section costs that plugin alone.                        *)
DegradesHonestly ==
  cfUp.on => /\ cfUp.error => cfUp.cfg = Default /\ cfUp.plugins = {}
              /\ cfUp.error <=> ~ Readable(cfUp.of)
              /\ cfUp.plugins \cap LEGACY_TOP_LEVEL_KEYS = {}
              /\ default_enabled \subseteq cfUp.sources.built \cup cfUp.sources.warned
              /\ \A f \in Factories \cap cfUp.plugins :
                   (f \in cfUp.sources.warned)
                      = (\E k \in DOMAIN cfUp.of.doc : k[1] = f /\ cfUp.of.doc[k] = BadValue)

(* Of the keys a readable file sets, each is honoured, warned about, legacy *)
(* or a plugin's; content_filter alone is known and never read.             *)
NothingIgnored ==
  cfUp.on /\ cfUp.of.kind = "doc" /\ ~ cfUp.error =>
    \A k \in DOMAIN cfUp.of.doc :
      \/ k \in DOMAIN cfUp.cfg \/ k \in unknown_key_warnings(cfUp.of.doc)
      \/ k[1] \in LEGACY_TOP_LEVEL_KEYS \/ k[1] \in cfUp.plugins \/ k[1] = "preview"
      \/ k = <<"ocr", "content_filter">>

(* Two actions on one key combination are reported however their modifiers  *)
(* are spelled, and the pair that shares `Up' on purpose is not.            *)
CollisionsReported ==
  cfUp.on =>
    LET bound == cfUp.cfg[<<"keybindings", "filter_all">>]
        clash == {<<"keybindings", "filter_all">>, <<"keybindings", "reset_gui_position">>}
    IN /\ cfUp.cfg[<<"keybindings", "reset_gui_position">>] = 2 =>
            (clash \in duplicate_accel_warnings(cfUp.cfg) <=> bound \in {2, 4})
       /\ \A pair \in duplicate_accel_warnings(cfUp.cfg) :
            ~ (pair \subseteq {<<"keybindings", "history_up">>,
                               <<"keybindings", "previous_result">>})

SettingsSound ==
  /\ OtherSettingsKept /\ BrokenFileKept /\ SettingsUsable /\ ExplicitBeatsProfile
  /\ DegradesHonestly /\ NothingIgnored /\ CollisionsReported

(* What the comment at lib.rs:1235 says of the [ocr] keys, and the worker   *)
(* does not keep past its first tick: an explicit key governs the worker.   *)
PinnedOcrKeysHold ==
  cfUp.on /\ cfUp.of.kind = "doc" /\ <<"ocr", "jobs_per_tick">> \in DOMAIN cfUp.of.doc
    => cfUp.worker.jobs = cfUp.cfg[<<"ocr", "jobs_per_tick">>]

(* Overlapping edits lose settings: the condition of OtherSettingsKept is   *)
(* needed.                                                                  *)
NoSettingEverLost == ~ CfBusy => cfFile.kind # "doc" \/ cfUser.file.kind # "doc"
                                 \/ DOMAIN cfUser.file.doc \subseteq DOMAIN cfFile.doc
=============================================================================
