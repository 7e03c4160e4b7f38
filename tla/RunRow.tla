------------------------------- MODULE RunRow -------------------------------
(***************************************************************************)
(* The Run entity (app/domain/run.py) and the way a session writes it back *)
(* to Postgres (SqlAlchemyRunRepository.update and the flush that follows).*)
(*                                                                         *)
(* A row keeps the status and, for each group of nullable columns, whether *)
(* it holds a value: result, error, and the four metric columns, which     *)
(* record_metrics always fills together.                                   *)
(***************************************************************************)

Status   == {"queued", "running", "succeeded", "failed", "cancelled"}
Terminal == {"succeeded", "failed", "cancelled"}

Row == [status: Status, result: BOOLEAN, error: BOOLEAN, metrics: BOOLEAN]

(* A row none of whose nullable columns holds a value. *)
Blank(s) == [status |-> s, result |-> FALSE, error |-> FALSE, metrics |-> FALSE]

(* Run.submit, as add() inserts it. *)
NewRun == Blank("queued")

(* The statuses a mark_* method accepts before it raises InvalidTransition. *)
MarkFrom(s) ==
    CASE s = "running"               -> {"queued"}
      [] s \in {"succeeded", "failed"} -> {"running"}
      [] s = "cancelled"             -> {"queued", "running"}

(* Mutant of Mark: the status changes, the outcome is not kept. *)
MarkStatusOnly(run, s) ==
    [status |-> s, result |-> run.result, error |-> run.error, metrics |-> run.metrics]

(* mark_running, mark_succeeded(result), mark_failed(error), mark_cancelled *)
Mark(run, s) ==
    [status  |-> s,
     result  |-> IF s = "succeeded" THEN TRUE ELSE run.result,
     error   |-> IF s = "failed" THEN TRUE ELSE run.error,
     metrics |-> run.metrics]

RecordMetrics(run) ==
    [status |-> run.status, result |-> run.result, error |-> run.error, metrics |-> TRUE]

(***************************************************************************)
(* update() assigns every column of the ORM instance; the flush sends only *)
(* those that differ from the values the instance was loaded with, as      *)
(* UPDATE ... SET ... WHERE id = :id, with no test of the stored values.   *)
(***************************************************************************)
Column(stored, loaded, new) == IF new # loaded THEN new ELSE stored

Flush(stored, loaded, run) ==
    [status  |-> Column(stored.status,  loaded.status,  run.status),
     result  |-> Column(stored.result,  loaded.result,  run.result),
     error   |-> Column(stored.error,   loaded.error,   run.error),
     metrics |-> Column(stored.metrics, loaded.metrics, run.metrics)]
=============================================================================
