------------------------------ MODULE MCServices ------------------------------
(***************************************************************************)
(* The services around the daemon's requests, for TLC: the launcher        *)
(* process, the hotkey listener, the power profile, the search for the     *)
(* session's environment, the semantic worker's sessions and an embedder   *)
(* slot.  The parts share no variable, so a behaviour belongs to the one   *)
(* part its initial state picks and the others rest.                       *)
(***************************************************************************)
EXTENDS LauncherControl, DaemonHost, SemanticSession

VARIABLE part

ServicesInit ==
    /\ GcInit /\ HostInit /\ SmInit /\ SlotInit
    /\ part \in {"control", "hotkeys", "power", "env", "semantic", "slot"}
    /\ part # "control" => sock = NoGui

ServicesNext ==
    /\ UNCHANGED part
    /\ \/ part = "control"  /\ GcNext    /\ UNCHANGED <<hostVars, smVars, slotVars>>
       \/ part = "hotkeys"  /\ HkNext    /\ UNCHANGED <<gcVars, powerVars, env, smVars, slotVars>>
       \/ part = "power"    /\ PowerNext /\ UNCHANGED <<gcVars, hkVars, env, smVars, slotVars>>
       \/ part = "env"      /\ discover_gui_env_async
                            /\ UNCHANGED <<gcVars, hkVars, powerVars, smVars, slotVars>>
       \/ part = "semantic" /\ SmNext    /\ UNCHANGED <<gcVars, hostVars, slotVars>>
       \/ part = "slot"     /\ SlotNext  /\ UNCHANGED <<gcVars, hostVars, smVars>>

\* Each part's fairness, as its own specification states it.
ServicesFairness ==
    /\ \A d \in Askers : WF_gcVars(part = "control" /\ Dispatch(d))
    /\ WF_smVars(part = "semantic" /\ SmStep)
    /\ \A q \in Requests : WF_smVars(part = "semantic" /\ SmRequest(q))
    /\ \A s \in Sessions : WF_smVars(part = "semantic" /\ WriterFails(s))

ServicesSpec ==
    /\ ServicesInit /\ [][ServicesNext]_<<gcVars, hostVars, smVars, slotVars, part>>
    /\ ServicesFairness

\* The type invariants of the parts.
ServicesTypeOK == GcTypeOK /\ HostTypeOK /\ SmTypeOK

\* Whoever waits is answered, whatever dies or is slow meanwhile: a call that needs
\* the launcher process, but for one that reads from a launcher that lives and does
\* not answer, and a search or a query of the semantic worker, but for one that
\* waits for room in the queue of a worker that lives and does not read.
CallersReturn == RequestsReturn /\ SemanticRequestsEnd
================================================================================
