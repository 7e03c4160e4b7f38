------------------------------ MODULE RunLedger ------------------------------
(***************************************************************************)
(* What the pipeline promises about one run seen from outside, whatever    *)
(* the interleaving and whatever fails: how its status may change, how     *)
(* often it is executed and how often an outcome is stored.  The program   *)
(* has no such table; RunPipeline is shown to implement it.                *)
(***************************************************************************)
EXTENDS Naturals

CONSTANT Runs

VARIABLES
    status,     \* the status column, "none" before the row exists
    starts,     \* how many times a worker claimed the run
    finishes    \* how many times a worker stored an outcome for it

ledger == <<status, starts, finishes>>

Init ==
    /\ status = [r \in Runs |-> "none"]
    /\ starts = [r \in Runs |-> 0]
    /\ finishes = [r \in Runs |-> 0]

Create(r) ==
    /\ status[r] = "none"
    /\ status' = [status EXCEPT ![r] = "queued"]
    /\ UNCHANGED <<starts, finishes>>

(* A claim may overwrite a cancellation it did not see, never an outcome. *)
Start(r) ==
    /\ status[r] \in {"queued", "cancelled"}
    /\ starts[r] = 0
    /\ status' = [status EXCEPT ![r] = "running"]
    /\ starts' = [starts EXCEPT ![r] = 1]
    /\ UNCHANGED finishes

(* An outcome is stored once, for a run that was started; it may overwrite *)
(* a cancellation, never another outcome.                                  *)
Finish(r, s) ==
    /\ status[r] \in {"running", "cancelled"}
    /\ starts[r] = 1
    /\ finishes[r] = 0
    /\ status' = [status EXCEPT ![r] = s]
    /\ finishes' = [finishes EXCEPT ![r] = 1]
    /\ UNCHANGED starts

(* A cancellation that began while the run was queued may land at any time. *)
Cancel(r) ==
    /\ status[r] \notin {"none", "cancelled"}
    /\ status' = [status EXCEPT ![r] = "cancelled"]
    /\ UNCHANGED <<starts, finishes>>

Next ==
    \E r \in Runs :
        \/ Create(r)
        \/ Start(r)
        \/ \E s \in {"succeeded", "failed", "cancelled"} : Finish(r, s)
        \/ Cancel(r)

Spec == Init /\ [][Next]_ledger
=============================================================================
