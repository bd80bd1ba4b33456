------------------------------ MODULE MCSettings ------------------------------
(***************************************************************************)
(* Settings files and edits for TLC.                                       *)
(***************************************************************************)
EXTENDS Settings

\* Two files that go to the limits of what is accepted, and one of wrong types.
SettingsFiles ==
  { (<<"core", "exclude">> :> 2) @@ (<<"core", "max_results">> :> 0) @@ (<<"gui", "width_percent">> :> 99)
      @@ (<<"ocr", "jobs_per_tick">> :> 0) @@ (<<"ocr", "enabled">> :> 1) @@ (<<"search", "web_engine_url">> :> 1)
      @@ (<<"ocr", "content_filter">> :> 1) @@ (<<"roots", "">> :> 1),
    (<<"impact", "level">> :> Low) @@ (<<"ocr", "nice_level">> :> 40) @@ (<<"ocr", "worker_interval_secs">> :> 0)
      @@ (<<"keybindings", "filter_all">> :> 4) @@ (<<"gui", "opacity">> :> NaN) @@ (<<"semantic", "enabled">> :> BadValue)
      @@ (<<"search", "keyword">> :> 1) @@ (<<"core", "max_reslts">> :> 5),
    (<<"core", "max_results">> :> BadValue) }
SettingsEdits == {<<<<"impact", "level">>, Low>>, <<<<"impact", "level">>, Medium>>, <<<<"ocr", "enabled">>, 1>>, <<<<"semantic", "enabled">>, 0>>}
CfSpec == CfInit /\ [][CfNext]_cfVars
================================================================================
