------------------------------ MODULE RunResend ------------------------------
(***************************************************************************)
(* RunPipeline over a Redis client that sends a command again when its     *)
(* reply is lost, as redis-py may do by its default policy for retries     *)
(* (redis.py builds the clients without a policy of their own).            *)
(*                                                                         *)
(* BRPOP, SET and PUBLISH add nothing: a BRPOP sent again is DequeueLost   *)
(* and then Dequeue, the key is already set, the event already in the set. *)
(* An LPUSH sent again puts the id on the list twice, so two workers may   *)
(* hold one run.  What keeps the second from executing it is the status    *)
(* test of the claim (worker.py:134), and that is a read of its own.       *)
(***************************************************************************)
EXTENDS RunPipeline

VARIABLES
    resent,     \* runs whose LPUSH was applied and is sent again; once each
    raced       \* history: runs two workers were claiming at once

resendVars == <<vars, resent, raced>>

Claiming(r) == {w \in Workers : job[w] = r /\ wpc[w] \in ClaimSteps \ {"claim_get"}}

(* The race: two workers between the SELECT and the COMMIT of a claim of r. *)
Overlap(r) == \E v, w \in Claiming(r) : v # w

ResendInit == Init /\ resent = {} /\ raced = {}

(* The LPUSH reaches Redis, its reply is lost; SubmitEnqueue is the retry, *)
(* SubmitFails the end of the retries.                                     *)
EnqueueReplyLost(r) ==
    /\ submit[r] = "committed"
    /\ r \notin resent
    /\ queue' = Append(queue, r)
    /\ resent' = resent \union {r}
    /\ UNCHANGED <<row, signal, events, submitVars, workerVars, cancelVars, history, raced>>

PipelineStep ==
    /\ Next
    /\ raced' = raced \union {r \in Runs : Overlap(r)'}
    /\ UNCHANGED resent

ResendNext == PipelineStep \/ \E r \in Runs : EnqueueReplyLost(r)

ResendSpec == ResendInit /\ [][ResendNext]_resendVars

(* The fairness of FairSpec: a retry of LPUSH is finite, and the steps of  *)
(* handlers, workers and agents are those of RunPipeline.                  *)
FairResendSpec ==
    /\ ResendSpec
    /\ HandlersRun
    /\ \A w \in Workers : WF_vars(AgentStep(w))

-----------------------------------------------------------------------------
(* It takes a duplicate and a race to do harm.  Two claims of a run        *)
(* overlap only if its id was pushed twice; and an id pushed twice is      *)
(* harmless as long as no two workers are between the SELECT and the       *)
(* COMMIT of its claim at once: the run is executed and finished at most   *)
(* once, its columns agree and its events do not contradict each other     *)
(* (worker.py:134-140).  One worker process never races with itself.       *)
HarmOnlyByRace ==
    \A r \in Runs \ (raced \intersect resent) :
        /\ starts[r] <= 1 /\ finishes[r] <= starts[r]
        /\ row[r] # NoRow => ColumnsAgree(row[r])
        /\ ~({"done", "error"} \subseteq events[r])
        /\ "done" \in events[r]  => StatusOf(r) \in {"succeeded", "cancelled"}
        /\ "error" \in events[r] => StatusOf(r) \in {"failed", "cancelled"}

(* Duplicates and races never leave a run behind: it ends, unless a        *)
(* handler or a worker that had it in its hands failed half-way.           *)
ResentRunEnds ==
    \A r \in Runs : (row[r] # NoRow) ~> (Ended(r) \/ r \in interrupted)
=============================================================================
