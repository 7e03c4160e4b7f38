---------------------------- MODULE MCRunPipeline ----------------------------
(***************************************************************************)
(* RunPipeline for TLC: action properties, liveness properties, and the    *)
(* symmetry of a safety run.                                               *)
(***************************************************************************)
EXTENDS RunPipeline, TLC

Symmetry == Permutations(Runs) \union Permutations(Workers) \union Permutations(Requests)

(* A terminal status stands.  run_service.py:24 calls cancelling an ended  *)
(* run "idempotent", its test asserts the status is "unchanged"            *)
(* (tests/test_run_service.py:153), and line 26 says of a run cancelled    *)
(* while it is queued "mark directly; worker will skip on dequeue".        *)
TerminalStands == [][\A r \in Runs : Ended(r) => StatusOf(r)' = StatusOf(r)]_vars

(* Without failures every submitted run ends, cancelled or not, whatever   *)
(* cancel requests meet it (submit, the list, run_worker, _process_one).   *)
EveryRunEnds == \A r \in Runs : (row[r] # NoRow) ~> [](Ended(r))

(* Without failures whatever status a run ends in is announced on its      *)
(* channel: by the worker after its final commit, and by the cancel        *)
(* endpoint for the runs no worker will announce (runs.py:77-80).          *)
EveryOutcomeAnnounced ==
    \A r \in Runs : \A s \in Terminal : (StatusOf(r) = s) ~> (Event[s] \in events[r])
=============================================================================
