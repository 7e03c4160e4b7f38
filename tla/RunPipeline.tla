----------------------------- MODULE RunPipeline -----------------------------
(***************************************************************************)
(* The life of the runs: POST /runs (RunService.submit), the Redis list,   *)
(* the worker processes (_process_one) and POST /runs/{id}/cancel          *)
(* (cancel_run and its endpoint), over one Postgres table and one Redis.   *)
(*                                                                         *)
(* Every action is the code between two awaits that reach Postgres or      *)
(* Redis.  A transaction runs at READ COMMITTED: each SELECT returns the   *)
(* row last committed, and what update() assigned is visible to others     *)
(* only at COMMIT, where the flush writes it (RunRow!Flush).               *)
(*                                                                         *)
(* What the agent does between the claim and the result is the subject of  *)
(* other modules; here it is one step with a nondeterministic outcome.     *)
(***************************************************************************)
EXTENDS RunRow, Naturals, Sequences, FiniteSets

CONSTANTS
    Runs,       \* run ids that may be submitted
    Workers,    \* worker processes consuming the list
    Requests,   \* concurrent cancel requests; a request slot is reused
    FaultsOn,   \* may processes stop and calls to Postgres or Redis fail?
    NoRun,      \* "this handler serves no run"
    NoRow       \* "no such row", and "no instance loaded"

ASSUME FaultsAssumption == FaultsOn \in BOOLEAN
ASSUME NoRunAssumption  == NoRun \notin Runs
ASSUME NoRowAssumption  == NoRow \notin Row

VARIABLES
    row,        \* the runs table, as committed
    queue,      \* the list runs:pending, oldest first
    signal,     \* runs whose cancel key exists in Redis
    events,     \* terminal events published so far on each run's channel
    submit,     \* how far the submit handler of each run got
    wpc, job,   \* worker: next step, run being processed
    wobj, worm, \* worker: Run to be written back, values it was loaded with
    outcome,    \* worker: how the agent ended
    cpc, target,\* cancel request: next step, run to cancel
    cobj, corm, \* cancel request: Run in hand, values it was loaded with
    starts,     \* history: committed claims of each run
    finishes,   \* history: committed outcomes of each run
    interrupted \* history: runs whose handler or worker failed half-way

submitVars == <<submit>>
workerVars == <<wpc, job, wobj, worm, outcome>>
cancelVars == <<cpc, target, cobj, corm>>
history    == <<starts, finishes, interrupted>>
vars == <<row, queue, signal, events, submitVars, workerVars, cancelVars, history>>

ClaimSteps == {"claim_get", "claim_update", "claim_commit"}
FinalSteps == {"final_get", "final_update", "final_commit"}
WorkerSteps == {"idle", "execute", "publish"} \union ClaimSteps \union FinalSteps
CancelSteps == {"idle", "get", "update", "commit", "signal", "publish"}

(* Mutants of Event: the status itself as event type; failures as done. *)
EventIsStatus == [succeeded |-> "succeeded", failed |-> "failed", cancelled |-> "cancelled"]
EventDoneAnyway == [succeeded |-> "done", failed |-> "done", cancelled |-> "cancelled"]

(* The terminal SSE event that stands for each terminal status. *)
Event == [succeeded |-> "done", failed |-> "error", cancelled |-> "cancelled"]

(* What a SELECT of the run finds: its status, or no row. *)
StatusOf(r) == IF row[r] = NoRow THEN "none" ELSE row[r].status

Executing(r) == \E w \in Workers : job[w] = r /\ wpc[w] = "execute"

Init ==
    /\ row = [r \in Runs |-> NoRow]
    /\ queue = << >>
    /\ signal = {}
    /\ events = [r \in Runs |-> {}]
    /\ submit = [r \in Runs |-> "new"]
    /\ wpc = [w \in Workers |-> "idle"]
    /\ job = [w \in Workers |-> NoRun]
    /\ wobj = [w \in Workers |-> NoRow]
    /\ worm = [w \in Workers |-> NoRow]
    /\ outcome = [w \in Workers |-> "none"]
    /\ cpc = [c \in Requests |-> "idle"]
    /\ target = [c \in Requests |-> NoRun]
    /\ cobj = [c \in Requests |-> NoRow]
    /\ corm = [c \in Requests |-> NoRow]
    /\ starts = [r \in Runs |-> 0]
    /\ finishes = [r \in Runs |-> 0]
    /\ interrupted = {}

-----------------------------------------------------------------------------
(* RunService.submit: commit the row, then LPUSH its id. *)

SubmitCommit(r) ==
    /\ submit[r] = "new"
    /\ submit' = [submit EXCEPT ![r] = "committed"]
    /\ row' = [row EXCEPT ![r] = NewRun]
    /\ UNCHANGED <<queue, signal, events, workerVars, cancelVars, history>>

SubmitEnqueue(r) ==
    /\ submit[r] = "committed"
    /\ submit' = [submit EXCEPT ![r] = "done"]
    /\ queue' = Append(queue, r)
    /\ UNCHANGED <<row, signal, events, workerVars, cancelVars, history>>

(* The API process stops, or the LPUSH raises, after the commit. *)
SubmitFails(r) ==
    /\ FaultsOn
    /\ submit[r] = "committed"
    /\ submit' = [submit EXCEPT ![r] = "failed"]
    /\ interrupted' = interrupted \union {r}
    /\ UNCHANGED <<row, queue, signal, events, workerVars, cancelVars, starts, finishes>>

-----------------------------------------------------------------------------
(* The worker: run_worker pops an id and _process_one takes it through the *)
(* claim transaction, the agent, the final transaction and the event.      *)

Goto(w, step) == wpc' = [wpc EXCEPT ![w] = step]

BackToIdle(w) ==
    /\ wpc' = [wpc EXCEPT ![w] = "idle"]
    /\ job' = [job EXCEPT ![w] = NoRun]
    /\ wobj' = [wobj EXCEPT ![w] = NoRow]
    /\ worm' = [worm EXCEPT ![w] = NoRow]
    /\ outcome' = [outcome EXCEPT ![w] = "none"]

(* Mutant of Dequeue: the id is read, not popped. *)
DequeuePeek(w) ==
    /\ wpc[w] = "idle"
    /\ queue # << >>
    /\ job' = [job EXCEPT ![w] = Head(queue)]
    /\ Goto(w, "claim_get")
    /\ UNCHANGED <<row, queue, signal, events, submitVars, wobj, worm, outcome, cancelVars, history>>

Dequeue(w) ==
    /\ wpc[w] = "idle"
    /\ queue # << >>
    /\ queue' = Tail(queue)
    /\ job' = [job EXCEPT ![w] = Head(queue)]
    /\ Goto(w, "claim_get")
    /\ UNCHANGED <<row, signal, events, submitVars, wobj, worm, outcome, cancelVars, history>>

(* BRPOP took the element but its reply was lost: dequeue() returns None   *)
(* or raises, and the id is in no list any more.                           *)
DequeueLost(w) ==
    /\ FaultsOn
    /\ wpc[w] = "idle"
    /\ queue # << >>
    /\ queue' = Tail(queue)
    /\ interrupted' = interrupted \union {Head(queue)}
    /\ UNCHANGED <<row, signal, events, submitVars, workerVars, cancelVars, starts, finishes>>

(* The run is missing, or is no longer queued: skip it. *)
ClaimSkip(w) ==
    /\ wpc[w] = "claim_get"
    /\ StatusOf(job[w]) # "queued"
    /\ BackToIdle(w)
    /\ UNCHANGED <<row, queue, signal, events, submitVars, cancelVars, history>>

(* Mutant of ClaimGet: a run found running is taken up again. *)
ClaimGetResume(w) ==
    /\ wpc[w] = "claim_get"
    /\ StatusOf(job[w]) \in {"queued", "running"}
    /\ wobj' = [wobj EXCEPT ![w] = Mark(row[job[w]], "running")]
    /\ worm' = [worm EXCEPT ![w] = row[job[w]]]
    /\ Goto(w, "claim_update")
    /\ UNCHANGED <<row, queue, signal, events, submitVars, job, outcome, cancelVars, history>>

ClaimGet(w) ==
    /\ wpc[w] = "claim_get"
    /\ StatusOf(job[w]) = "queued"
    /\ wobj' = [wobj EXCEPT ![w] = Mark(row[job[w]], "running")]
    /\ worm' = [worm EXCEPT ![w] = row[job[w]]]
    /\ Goto(w, "claim_update")
    /\ UNCHANGED <<row, queue, signal, events, submitVars, job, outcome, cancelVars, history>>

(* repo.update: session.get returns the instance of the first get if the   *)
(* identity map still holds it, and otherwise selects the row again.       *)
ClaimUpdate(w) ==
    /\ wpc[w] = "claim_update"
    /\ \E loaded \in {worm[w], row[job[w]]} : worm' = [worm EXCEPT ![w] = loaded]
    /\ Goto(w, "claim_commit")
    /\ UNCHANGED <<row, queue, signal, events, submitVars, job, wobj, outcome, cancelVars, history>>

ClaimCommit(w) ==
    /\ wpc[w] = "claim_commit"
    /\ row' = [row EXCEPT ![job[w]] = Flush(row[job[w]], worm[w], wobj[w])]
    /\ starts' = [starts EXCEPT ![job[w]] = @ + 1]
    /\ wobj' = [wobj EXCEPT ![w] = NoRow]
    /\ worm' = [worm EXCEPT ![w] = NoRow]
    /\ Goto(w, "execute")
    /\ UNCHANGED <<queue, signal, events, submitVars, job, outcome, cancelVars, finishes, interrupted>>

AgentEnds(w, s) ==
    /\ wpc[w] = "execute"
    /\ outcome' = [outcome EXCEPT ![w] = s]
    /\ Goto(w, "final_get")
    /\ UNCHANGED <<row, queue, signal, events, submitVars, job, wobj, worm, cancelVars, history>>

(* Mutant of AgentRaises: the exception skips the final transaction. *)
AgentRaisesUncaught(w) ==
    /\ wpc[w] = "execute"
    /\ BackToIdle(w)
    /\ UNCHANGED <<row, queue, signal, events, submitVars, cancelVars, history>>

(* The loop returned, or raised an exception that becomes error = str(exc). *)
AgentReturns(w) == AgentEnds(w, "succeeded")
AgentRaises(w)  == AgentEnds(w, "failed")

(* The loop's should_cancel or the watchdog saw the cancel key. *)
AgentCancelled(w) ==
    /\ job[w] \in signal
    /\ AgentEnds(w, "cancelled")

FinalGet(w) ==
    /\ wpc[w] = "final_get"
    /\ StatusOf(job[w]) \in MarkFrom(outcome[w])
    /\ wobj' = [wobj EXCEPT ![w] = RecordMetrics(Mark(row[job[w]], outcome[w]))]
    /\ worm' = [worm EXCEPT ![w] = row[job[w]]]
    /\ Goto(w, "final_update")
    /\ UNCHANGED <<row, queue, signal, events, submitVars, job, outcome, cancelVars, history>>

(* mark_* raises InvalidTransition: rolled back, logged by run_worker, and *)
(* neither the metrics nor the terminal event of this run go anywhere.     *)
FinalRejected(w) ==
    /\ wpc[w] = "final_get"
    /\ StatusOf(job[w]) \notin MarkFrom(outcome[w])
    /\ BackToIdle(w)
    /\ UNCHANGED <<row, queue, signal, events, submitVars, cancelVars, history>>

FinalUpdate(w) ==
    /\ wpc[w] = "final_update"
    /\ \E loaded \in {worm[w], row[job[w]]} : worm' = [worm EXCEPT ![w] = loaded]
    /\ Goto(w, "final_commit")
    /\ UNCHANGED <<row, queue, signal, events, submitVars, job, wobj, outcome, cancelVars, history>>

FinalCommit(w) ==
    /\ wpc[w] = "final_commit"
    /\ row' = [row EXCEPT ![job[w]] = Flush(row[job[w]], worm[w], wobj[w])]
    /\ finishes' = [finishes EXCEPT ![job[w]] = @ + 1]
    /\ wobj' = [wobj EXCEPT ![w] = NoRow]
    /\ worm' = [worm EXCEPT ![w] = NoRow]
    /\ Goto(w, "publish")
    /\ UNCHANGED <<queue, signal, events, submitVars, job, outcome, cancelVars, starts, interrupted>>

PublishOutcome(w) ==
    /\ wpc[w] = "publish"
    /\ events' = [events EXCEPT ![job[w]] = @ \union {Event[outcome[w]]}]
    /\ BackToIdle(w)
    /\ UNCHANGED <<row, queue, signal, submitVars, cancelVars, history>>

(* The process stops (SIGTERM calls loop.stop(); a crash) and a new one    *)
(* takes its place, or an exception reaches the handler in run_worker.     *)
WorkerAbandons(w) ==
    /\ FaultsOn
    /\ wpc[w] # "idle"
    /\ interrupted' = interrupted \union {job[w]}
    /\ BackToIdle(w)
    /\ UNCHANGED <<row, queue, signal, events, submitVars, cancelVars, starts, finishes>>

-----------------------------------------------------------------------------
(* POST /runs/{id}/cancel *)

CancelBackToIdle(c) ==
    /\ cpc' = [cpc EXCEPT ![c] = "idle"]
    /\ target' = [target EXCEPT ![c] = NoRun]
    /\ cobj' = [cobj EXCEPT ![c] = NoRow]
    /\ corm' = [corm EXCEPT ![c] = NoRow]

CancelArrives(c, r) ==
    /\ cpc[c] = "idle"
    /\ cpc' = [cpc EXCEPT ![c] = "get"]
    /\ target' = [target EXCEPT ![c] = r]
    /\ UNCHANGED <<row, queue, signal, events, submitVars, workerVars, cobj, corm, history>>

(* No such run (404), or it already succeeded or failed: nothing to do. *)
CancelNothing(c) ==
    /\ cpc[c] = "get"
    /\ StatusOf(target[c]) \in {"none", "succeeded", "failed"}
    /\ CancelBackToIdle(c)
    /\ UNCHANGED <<row, queue, signal, events, submitVars, workerVars, history>>

(* Already cancelled: cancel_run returns early, the endpoint publishes. *)
CancelAgain(c) ==
    /\ cpc[c] = "get"
    /\ StatusOf(target[c]) = "cancelled"
    /\ cobj' = [cobj EXCEPT ![c] = row[target[c]]]
    /\ cpc' = [cpc EXCEPT ![c] = "publish"]
    /\ UNCHANGED <<row, queue, signal, events, submitVars, workerVars, target, corm, history>>

CancelQueued(c) ==
    /\ cpc[c] = "get"
    /\ StatusOf(target[c]) = "queued"
    /\ cobj' = [cobj EXCEPT ![c] = Mark(row[target[c]], "cancelled")]
    /\ corm' = [corm EXCEPT ![c] = row[target[c]]]
    /\ cpc' = [cpc EXCEPT ![c] = "update"]
    /\ UNCHANGED <<row, queue, signal, events, submitVars, workerVars, target, history>>

CancelRunning(c) ==
    /\ cpc[c] = "get"
    /\ StatusOf(target[c]) = "running"
    /\ cobj' = [cobj EXCEPT ![c] = row[target[c]]]
    /\ cpc' = [cpc EXCEPT ![c] = "signal"]
    /\ UNCHANGED <<row, queue, signal, events, submitVars, workerVars, target, corm, history>>

CancelUpdate(c) ==
    /\ cpc[c] = "update"
    /\ \E loaded \in {corm[c], row[target[c]]} : corm' = [corm EXCEPT ![c] = loaded]
    /\ cpc' = [cpc EXCEPT ![c] = "commit"]
    /\ UNCHANGED <<row, queue, signal, events, submitVars, workerVars, target, cobj, history>>

CancelCommit(c) ==
    /\ cpc[c] = "commit"
    /\ row' = [row EXCEPT ![target[c]] = Flush(row[target[c]], corm[c], cobj[c])]
    /\ corm' = [corm EXCEPT ![c] = NoRow]
    /\ cpc' = [cpc EXCEPT ![c] = "signal"]
    /\ UNCHANGED <<queue, signal, events, submitVars, workerVars, target, cobj, history>>

(* Mutant of CancelSignal: announcing the cancellation is left to a worker. *)
CancelSignalOnly(c) ==
    /\ cpc[c] = "signal"
    /\ signal' = signal \union {target[c]}
    /\ CancelBackToIdle(c)
    /\ UNCHANGED <<row, queue, events, submitVars, workerVars, history>>

(* signal.request; the endpoint goes on to publish if its Run is cancelled. *)
CancelSignal(c) ==
    /\ cpc[c] = "signal"
    /\ signal' = signal \union {target[c]}
    /\ \/ /\ cobj[c].status = "cancelled"
          /\ cpc' = [cpc EXCEPT ![c] = "publish"]
          /\ UNCHANGED <<target, cobj, corm>>
       \/ /\ cobj[c].status # "cancelled"
          /\ CancelBackToIdle(c)
    /\ UNCHANGED <<row, queue, events, submitVars, workerVars, history>>

CancelPublish(c) ==
    /\ cpc[c] = "publish"
    /\ events' = [events EXCEPT ![target[c]] = @ \union {"cancelled"}]
    /\ CancelBackToIdle(c)
    /\ UNCHANGED <<row, queue, signal, submitVars, workerVars, history>>

(* The API process stops, or Postgres or Redis raise: no retry. *)
CancelFails(c) ==
    /\ FaultsOn
    /\ cpc[c] # "idle"
    /\ CancelBackToIdle(c)
    /\ UNCHANGED <<row, queue, signal, events, submitVars, workerVars, history>>

(* The key expires an hour after the last request; a watchdog that polls   *)
(* every half second does not miss it while its run executes.              *)
SignalExpires(r) ==
    /\ r \in signal
    /\ ~Executing(r)
    /\ signal' = signal \ {r}
    /\ UNCHANGED <<row, queue, events, submitVars, workerVars, cancelVars, history>>

-----------------------------------------------------------------------------
SubmitStep(r) == SubmitCommit(r) \/ SubmitEnqueue(r) \/ SubmitFails(r)

AgentStep(w) == AgentReturns(w) \/ AgentRaises(w) \/ AgentCancelled(w)

ProcessStep(w) ==
    \/ Dequeue(w)
    \/ ClaimSkip(w) \/ ClaimGet(w) \/ ClaimUpdate(w) \/ ClaimCommit(w)
    \/ FinalGet(w) \/ FinalRejected(w) \/ FinalUpdate(w) \/ FinalCommit(w)
    \/ PublishOutcome(w)

WorkerStep(w) == ProcessStep(w) \/ AgentStep(w) \/ DequeueLost(w) \/ WorkerAbandons(w)

CancelStep(c) ==
    \/ CancelNothing(c) \/ CancelAgain(c) \/ CancelQueued(c) \/ CancelRunning(c)
    \/ CancelUpdate(c) \/ CancelCommit(c) \/ CancelSignal(c) \/ CancelPublish(c)

Next ==
    \/ \E r \in Runs : SubmitStep(r) \/ SignalExpires(r)
    \/ \E w \in Workers : WorkerStep(w)
    \/ \E c \in Requests : \/ \E r \in Runs : CancelArrives(c, r)
                           \/ CancelStep(c)
                           \/ CancelFails(c)

Spec == Init /\ [][Next]_vars

(* An API handler that has begun runs on; the worker's loop and asyncio's  *)
(* scheduler run every step that is ready.                                 *)
HandlersRun ==
    /\ \A r \in Runs : WF_vars(SubmitEnqueue(r))
    /\ \A c \in Requests : WF_vars(CancelStep(c))
    /\ \A w \in Workers : WF_vars(ProcessStep(w))

(* The agent's iterations and every tool call are bounded, so it ends. *)
FairSpec == Spec /\ HandlersRun /\ \A w \in Workers : WF_vars(AgentStep(w))

-----------------------------------------------------------------------------
(* Types; only terminal event types a client knows are published. *)
TypeOK ==
    /\ row \in [Runs -> Row \union {NoRow}]
    /\ queue \in Seq(Runs)
    /\ signal \in SUBSET Runs
    /\ events \in [Runs -> SUBSET {"done", "error", "cancelled"}]
    /\ submit \in [Runs -> {"new", "committed", "done", "failed"}]
    /\ wpc \in [Workers -> WorkerSteps]
    /\ job \in [Workers -> Runs \union {NoRun}]
    /\ wobj \in [Workers -> Row \union {NoRow}]
    /\ worm \in [Workers -> Row \union {NoRow}]
    /\ outcome \in [Workers -> Terminal \union {"none"}]
    /\ cpc \in [Requests -> CancelSteps]
    /\ target \in [Requests -> Runs \union {NoRun}]
    /\ cobj \in [Requests -> Row \union {NoRow}]
    /\ corm \in [Requests -> Row \union {NoRow}]
    /\ starts \in [Runs -> Nat]
    /\ finishes \in [Runs -> Nat]
    /\ interrupted \in SUBSET Runs

InQueue(r) == \E i \in DOMAIN queue : queue[i] = r
Held(r) == \E w \in Workers : job[w] = r
Ended(r) == StatusOf(r) \in Terminal

(* No run is executed twice, whatever fails: the list hands an id to one   *)
(* worker, its claim commits at most once and its outcome at most once.    *)
AtMostOnce ==
    /\ \A r \in Runs : starts[r] <= 1 /\ finishes[r] <= starts[r]
    /\ \A v, w \in Workers : job[v] = job[w] /\ job[v] # NoRun => v = w

(* No run is lost silently: a run that exists, has not ended and met no    *)
(* failure is still in somebody's hands, the submit handler's, the list's  *)
(* or a worker's (the window run_service.py:44-46 is about).               *)
Custody ==
    \A r \in Runs :
        (row[r] # NoRow /\ ~Ended(r) /\ r \notin interrupted)
            => (submit[r] = "committed" \/ InQueue(r) \/ Held(r))

(* result, error and metrics are those of the status; a cancelled run may  *)
(* keep the outcome a late cancel request overwrote.                       *)
ColumnsAgree(run) ==
    /\ run.status = "succeeded" => run.result /\ ~run.error /\ run.metrics
    /\ run.status = "failed"    => ~run.result /\ run.error /\ run.metrics
    /\ run.status = "cancelled" => ~(run.result /\ run.error)
    /\ run.status \in {"queued", "running"} => ~run.result /\ ~run.error /\ ~run.metrics

(* The columns tell the same story as the status, although each flush      *)
(* writes only some of them over whatever others committed in between.     *)
OutcomeConsistent == \A r \in Runs : row[r] # NoRow => ColumnsAgree(row[r])

(* The done event is never contradicted by an error event, and the row of  *)
(* an announced run is the one announced, or was cancelled afterwards.     *)
EventsMatchRow ==
    \A r \in Runs :
        /\ ~({"done", "error"} \subseteq events[r])
        /\ "done" \in events[r]  => StatusOf(r) \in {"succeeded", "cancelled"}
        /\ "error" \in events[r] => StatusOf(r) \in {"failed", "cancelled"}

-----------------------------------------------------------------------------
(* The pipeline seen through the status column and the two counters. *)

(* RunLedger with the status column as its status. *)
Ledger == INSTANCE RunLedger WITH status <- [r \in Runs |-> StatusOf(r)]

(* Every step of the handlers and workers is a step of RunLedger or leaves *)
(* status, starts and finishes alone: an outcome is stored at most once    *)
(* and only for a claimed run, nothing goes back to queued, succeeded and  *)
(* failed never replace each other.                                        *)
ImplementsLedger == Ledger!Spec

-----------------------------------------------------------------------------
(* The inductive strengthening of the invariants above. *)

NoColumns(run) == ~run.result /\ ~run.error /\ ~run.metrics

(* The list holds no id twice, and only of runs nobody claimed. *)
QueueInv ==
    /\ \A i, j \in 1..Len(queue) : queue[i] = queue[j] => i = j
    /\ \A i \in 1..Len(queue) :
          /\ submit[queue[i]] = "done"
          /\ starts[queue[i]] = 0
          /\ ~Held(queue[i])

(* A busy worker holds a submitted run no other worker holds, and where it *)
(* stands tells how often the run was claimed and finished.                *)
HolderInv ==
    /\ \A w \in Workers : wpc[w] = "idle" <=> job[w] = NoRun
    /\ \A v, w \in Workers : job[v] = job[w] /\ job[v] # NoRun => v = w
    /\ \A w \in Workers : wpc[w] # "idle" =>
          /\ submit[job[w]] = "done"
          /\ starts[job[w]] = IF wpc[w] \in ClaimSteps THEN 0 ELSE 1
          /\ finishes[job[w]] = IF wpc[w] = "publish" THEN 1 ELSE 0

(* How often a run was claimed and finished confines its row. *)
PhaseInv ==
    \A r \in Runs :
        /\ starts[r] \in {0, 1} /\ finishes[r] \in {0, 1}
        /\ row[r] = NoRow <=> submit[r] = "new"
        /\ submit[r] # "done" => starts[r] = 0
        /\ starts[r] = 0 => finishes[r] = 0 /\ StatusOf(r) \in {"none", "queued", "cancelled"}
        /\ starts[r] = 1 /\ finishes[r] = 0 => StatusOf(r) \in {"running", "cancelled"}
        /\ finishes[r] = 1 => StatusOf(r) \in Terminal
        /\ row[r] # NoRow /\ finishes[r] = 0 => NoColumns(row[r])

(* What a worker in a transaction is about to write, and over what. *)
WorkerInv ==
    \A w \in Workers :
        /\ wpc[w] \in {"claim_update", "claim_commit"} =>
              /\ wobj[w] = Blank("running")
              /\ worm[w] \in Row /\ NoColumns(worm[w])
              /\ worm[w].status \in {"queued", "cancelled"}
        /\ wpc[w] \in FinalSteps \union {"publish"} => outcome[w] \in Terminal
        /\ wpc[w] \in {"final_update", "final_commit"} =>
              /\ wobj[w] = RecordMetrics(Mark(Blank("running"), outcome[w]))
              /\ worm[w] \in Row /\ NoColumns(worm[w])
              /\ worm[w].status \in {"running", "cancelled"}
              /\ worm[w].status = "cancelled" => StatusOf(job[w]) = "cancelled"
        /\ wpc[w] = "publish" => StatusOf(job[w]) \in {outcome[w], "cancelled"}

(* What a cancel request is about to write, and over what. *)
CancelInv ==
    \A c \in Requests :
        /\ cpc[c] # "idle" => target[c] \in Runs
        /\ cpc[c] \in {"signal", "publish"} => cobj[c] \in Row
        /\ cpc[c] \in {"update", "commit"} =>
              /\ cobj[c] = Blank("cancelled")
              /\ corm[c] \in Row /\ row[target[c]] # NoRow
              /\ corm[c].status = "cancelled" /\ ~NoColumns(corm[c]) =>
                    StatusOf(target[c]) = "cancelled" /\ finishes[target[c]] = 1

(* A run whose outcome was announced has left its worker. *)
AnnouncedInv ==
    \A r \in Runs :
        {"done", "error"} \intersect events[r] # {} => finishes[r] = 1 /\ ~Held(r)

(* Inductive: it implies the safety properties and every step keeps it. *)
IInv ==
    /\ TypeOK
    /\ QueueInv
    /\ HolderInv
    /\ PhaseInv
    /\ OutcomeConsistent
    /\ WorkerInv
    /\ CancelInv
    /\ AnnouncedInv
    /\ EventsMatchRow
    /\ Custody
=============================================================================
