-------------------------- MODULE RunPipelineProofs --------------------------
(***************************************************************************)
(* Theorems about RunPipeline, for any sets of runs, workers and cancel    *)
(* requests, with and without failures.                                    *)
(***************************************************************************)
EXTENDS RunPipeline, TLAPS

-----------------------------------------------------------------------------
(* What the operators of RunRow return. *)

(* A submitted run is a row (Run.submit). *)
LEMMA NewRunType == NewRun \in Row
  BY DEF NewRun, Blank, Row, Status

(* Marking a row, and recording its metrics, gives a row. *)
LEMMA MarkType ==
  ASSUME NEW run \in Row, NEW s \in Status
  PROVE  Mark(run, s) \in Row /\ RecordMetrics(Mark(run, s)) \in Row
  BY DEF Mark, RecordMetrics, Row

(* A row without columns is known by its status, and so is the Run that    *)
(* mark_running and mark_cancelled make of it.                             *)
LEMMA BlankRow ==
  ASSUME NEW run \in Row, NoColumns(run)
  PROVE  run = Blank(run.status)
<1>1. run = [status |-> run.status, result |-> run.result,
             error |-> run.error, metrics |-> run.metrics]
  BY DEF Row
<1>2. run.result = FALSE /\ run.error = FALSE /\ run.metrics = FALSE
  BY DEF NoColumns, Row
<1> QED
  BY <1>1, <1>2 DEF Blank

(* mark_running and mark_cancelled touch no column but the status. *)
LEMMA MarkBlank ==
  ASSUME NEW s, NEW t \in {"running", "cancelled"}
  PROVE  Mark(Blank(s), t) = Blank(t)
  BY DEF Mark, Blank

(* A flush over a row still without columns, from an instance loaded from  *)
(* such a row: the claim, which always leaves the row running.             *)
LEMMA ClaimFlush ==
  ASSUME NEW stored \in Row, NoColumns(stored),
         NEW loaded \in Row, NoColumns(loaded), loaded.status \in {"queued", "cancelled"}
  PROVE  LET new == Flush(stored, loaded, Blank("running"))
         IN  new \in Row /\ new.status = "running" /\ NoColumns(new)
  BY DEF Flush, Column, Row, Blank, NoColumns, Status

(* The flush of an outcome leaves the row with that status and its columns. *)
LEMMA FinalFlush ==
  ASSUME NEW stored \in Row, NoColumns(stored),
         NEW loaded \in Row, NoColumns(loaded), loaded.status \in {"running", "cancelled"},
         loaded.status = "cancelled" => stored.status = "cancelled",
         NEW s \in Terminal
  PROVE  LET run == RecordMetrics(Mark(Blank("running"), s))
             new == Flush(stored, loaded, run)
         IN  new \in Row /\ new.status = s /\ ColumnsAgree(new)
  BY DEF Flush, Column, Row, Blank, NoColumns, Status, Mark, RecordMetrics, Terminal, ColumnsAgree

(* The flush of a cancellation cancels the row, or writes nothing when the *)
(* instance was loaded from a row already cancelled.                       *)
LEMMA CancelFlush ==
  ASSUME NEW stored \in Row, ColumnsAgree(stored),
         NEW loaded \in Row,
         loaded.status = "cancelled" /\ ~NoColumns(loaded) => stored.status = "cancelled"
  PROVE  LET new == Flush(stored, loaded, Blank("cancelled"))
         IN  /\ new \in Row
             /\ new.status = "cancelled" \/ new = stored
             /\ ColumnsAgree(new)
             /\ NoColumns(stored) => NoColumns(new)
  BY DEF Flush, Column, Row, Blank, NoColumns, Status, ColumnsAgree

-----------------------------------------------------------------------------
(* What the invariant says of a worker and of a request about to write. *)

(* A worker that is busy holds a run that has a row. *)
LEMMA BusyWorker ==
  ASSUME IInv, NEW w \in Workers, wpc[w] # "idle"
  PROVE  job[w] \in Runs /\ row[job[w]] \in Row
<1>1. job[w] \in Runs
  BY DEF IInv, TypeOK, HolderInv
<1>2. submit[job[w]] # "new"
  BY DEF IInv, HolderInv
<1> QED
  BY <1>1, <1>2 DEF IInv, TypeOK, PhaseInv

(* What the commit of a claim writes, over what, and how often so far. *)
LEMMA ClaimWrites ==
  ASSUME IInv, NEW w \in Workers, wpc[w] = "claim_commit"
  PROVE  LET new == Flush(row[job[w]], worm[w], wobj[w])
         IN  new \in Row /\ new.status = "running" /\ NoColumns(new)
<1>1. job[w] \in Runs /\ row[job[w]] \in Row
  BY BusyWorker
<1>2. finishes[job[w]] = 0
  BY DEF IInv, HolderInv, ClaimSteps
<1>3. NoColumns(row[job[w]])
  BY <1>1, <1>2, NoRowAssumption DEF IInv, PhaseInv
<1>4. /\ wobj[w] = Blank("running")
      /\ worm[w] \in Row /\ NoColumns(worm[w])
      /\ worm[w].status \in {"queued", "cancelled"}
  BY DEF IInv, WorkerInv
<1> QED
  BY <1>1, <1>3, <1>4, ClaimFlush

(* What the commit of an outcome writes, over what, and how often so far. *)
LEMMA FinalWrites ==
  ASSUME IInv, NEW w \in Workers, wpc[w] = "final_commit"
  PROVE  LET new == Flush(row[job[w]], worm[w], wobj[w])
         IN  /\ outcome[w] \in Terminal
             /\ new \in Row /\ new.status = outcome[w] /\ ColumnsAgree(new)
<1>1. job[w] \in Runs /\ row[job[w]] \in Row
  BY BusyWorker
<1>2. finishes[job[w]] = 0
  BY DEF IInv, HolderInv, FinalSteps
<1>3. NoColumns(row[job[w]])
  BY <1>1, <1>2, NoRowAssumption DEF IInv, PhaseInv
<1>4. outcome[w] \in Terminal
  BY DEF IInv, WorkerInv, FinalSteps
<1>5. /\ wobj[w] = RecordMetrics(Mark(Blank("running"), outcome[w]))
      /\ worm[w] \in Row /\ NoColumns(worm[w])
      /\ worm[w].status \in {"running", "cancelled"}
  BY DEF IInv, WorkerInv
<1>6. worm[w].status = "cancelled" => row[job[w]].status = "cancelled"
  BY <1>1, NoRowAssumption DEF IInv, WorkerInv, StatusOf
<1> QED
  BY <1>1, <1>3, <1>4, <1>5, <1>6, FinalFlush

(* What a cancel request's commit writes: cancelled, or the row unchanged. *)
LEMMA CancelWrites ==
  ASSUME IInv, NEW c \in Requests, cpc[c] = "commit"
  PROVE  LET old == row[target[c]]
             new == Flush(old, corm[c], cobj[c])
         IN  /\ target[c] \in Runs /\ old \in Row /\ new \in Row
             /\ new.status = "cancelled" \/ new = old
             /\ ColumnsAgree(new)
             /\ NoColumns(old) => NoColumns(new)
<1>1. target[c] \in Runs /\ row[target[c]] # NoRow
  BY DEF IInv, CancelInv
<1>2. row[target[c]] \in Row
  BY <1>1 DEF IInv, TypeOK
<1>3. ColumnsAgree(row[target[c]])
  BY <1>1 DEF IInv, OutcomeConsistent
<1>4. cobj[c] = Blank("cancelled") /\ corm[c] \in Row
  BY DEF IInv, CancelInv
<1>5. corm[c].status = "cancelled" /\ ~NoColumns(corm[c]) => row[target[c]].status = "cancelled"
  BY <1>1 DEF IInv, CancelInv, StatusOf
<1> QED
  BY <1>1, <1>2, <1>3, <1>4, <1>5, CancelFlush

(* A row without columns is a row. *)
LEMMA BlankType ==
  ASSUME NEW s \in Status
  PROVE  Blank(s) \in Row
  BY DEF Blank, Row

(* Only its first element leaves a list. *)
LEMMA TailKeeps ==
  ASSUME NEW S, NEW s \in Seq(S), s # << >>, NEW i \in DOMAIN s, s[i] # Head(s)
  PROVE  \E j \in DOMAIN Tail(s) : Tail(s)[j] = s[i]
<1>1. i \in 2..Len(s) /\ Len(Tail(s)) = Len(s) - 1
  OBVIOUS
<1>2. i - 1 \in DOMAIN Tail(s) /\ Tail(s)[i - 1] = s[i]
  BY <1>1
<1> QED
  BY <1>2

(* Popping the head leaves every other id in the list. *)
LEMMA PopKeeps ==
  ASSUME TypeOK, queue # << >>, queue' = Tail(queue)
  PROVE  \A x \in Runs : InQueue(x) => x = Head(queue) \/ InQueue(x)'
<1> SUFFICES ASSUME NEW i \in DOMAIN queue, queue[i] # Head(queue)
             PROVE  \E j \in DOMAIN Tail(queue) : Tail(queue)[j] = queue[i]
  BY DEF InQueue
<1> QED
  BY TailKeeps DEF TypeOK

(* The list stays clean when a worker lets go of its run. *)
LEMMA QueueOutlivesJob ==
  ASSUME IInv, NEW w \in Workers,
         UNCHANGED <<queue, submit, starts>>, job' = [job EXCEPT ![w] = NoRun]
  PROVE  QueueInv'
<1>1. \A v \in Workers : job'[v] \in {job[v], NoRun}
  BY DEF IInv, TypeOK
<1>2. \A i \in 1..Len(queue) : queue[i] \in Runs
  BY DEF IInv, TypeOK
<1>3. \A i \in 1..Len(queue) : \A v \in Workers : job'[v] # queue[i]
  BY <1>1, <1>2, NoRunAssumption DEF IInv, QueueInv, Held
<1> QED
  BY <1>3 DEF IInv, QueueInv, Held

(* A worker may leave a run that has ended. *)
LEMMA WorkerLeaves ==
  ASSUME IInv, NEW w \in Workers, Ended(job[w]),
         UNCHANGED <<row, queue, submit, interrupted>>, job' = [job EXCEPT ![w] = NoRun]
  PROVE  Custody'
<1>1. \A x \in Runs : Held(x) => x = job[w] \/ Held(x)'
  BY DEF IInv, TypeOK, Held
<1> QED
  BY <1>1 DEF IInv, TypeOK, Custody, InQueue, Ended, StatusOf



-----------------------------------------------------------------------------
(* Every step of Next preserves each part of the invariant. *)

(* Every step keeps the types. *)
LEMMA TypeStep ==
  ASSUME IInv, [Next]_vars
  PROVE  TypeOK'
<1> USE DEF IInv, submitVars, workerVars, cancelVars, history
<1>1. ASSUME NEW r \in Runs, SubmitCommit(r) PROVE TypeOK'
  BY <1>1, NewRunType DEF SubmitCommit, TypeOK, WorkerSteps, CancelSteps,
       ClaimSteps, FinalSteps
<1>2. ASSUME NEW r \in Runs, SubmitEnqueue(r) PROVE TypeOK'
  BY <1>2 DEF SubmitEnqueue, TypeOK, WorkerSteps, CancelSteps, ClaimSteps,
       FinalSteps
<1>3. ASSUME NEW r \in Runs, SubmitFails(r) PROVE TypeOK'
  BY <1>3 DEF SubmitFails, TypeOK, WorkerSteps, CancelSteps, ClaimSteps,
       FinalSteps
<1>4. ASSUME NEW r \in Runs, SignalExpires(r) PROVE TypeOK'
  BY <1>4 DEF SignalExpires, TypeOK, WorkerSteps, CancelSteps, ClaimSteps,
       FinalSteps
<1>5. ASSUME NEW w \in Workers, Dequeue(w) PROVE TypeOK'
  BY <1>5 DEF Dequeue, Goto, TypeOK, WorkerSteps, CancelSteps, ClaimSteps,
       FinalSteps
<1>6. ASSUME NEW w \in Workers, DequeueLost(w) PROVE TypeOK'
  BY <1>6 DEF DequeueLost, TypeOK, WorkerSteps, CancelSteps, ClaimSteps,
       FinalSteps
<1>7. ASSUME NEW w \in Workers, ClaimSkip(w) PROVE TypeOK'
  BY <1>7 DEF ClaimSkip, BackToIdle, TypeOK, WorkerSteps, CancelSteps,
       ClaimSteps, FinalSteps
<1>8. ASSUME NEW w \in Workers, ClaimGet(w) PROVE TypeOK'
  <2>1. row[job[w]] \in Row
    BY <1>8, BusyWorker DEF ClaimGet
  <2>2. Mark(row[job[w]], "running") \in Row
    BY <2>1, MarkType DEF Status
  <2> QED
    BY <1>8, <2>1, <2>2 DEF ClaimGet, Goto, TypeOK, WorkerSteps, ClaimSteps
<1>9. ASSUME NEW w \in Workers, ClaimUpdate(w) PROVE TypeOK'
  BY <1>9, BusyWorker DEF ClaimUpdate, Goto, TypeOK, WorkerSteps, CancelSteps,
       ClaimSteps, FinalSteps
<1>10. ASSUME NEW w \in Workers, ClaimCommit(w) PROVE TypeOK'
  BY <1>10, BusyWorker, ClaimWrites DEF ClaimCommit, Goto, TypeOK,
       WorkerSteps, CancelSteps, ClaimSteps, FinalSteps
<1>11. ASSUME NEW w \in Workers, AgentStep(w) PROVE TypeOK'
  <2>1. \E s \in Terminal : AgentEnds(w, s)
    BY <1>11 DEF AgentStep, AgentReturns, AgentRaises, AgentCancelled, Terminal
  <2> QED
    BY <2>1 DEF AgentEnds, Goto, TypeOK, WorkerSteps, FinalSteps
<1>12. ASSUME NEW w \in Workers, FinalGet(w) PROVE TypeOK'
  <2>1. row[job[w]] \in Row
    BY <1>12, BusyWorker DEF FinalGet
  <2>2. outcome[w] \in Status
    BY <1>12 DEF FinalGet, WorkerInv, FinalSteps, Terminal, Status
  <2>3. RecordMetrics(Mark(row[job[w]], outcome[w])) \in Row
    BY <2>1, <2>2, MarkType
  <2> QED
    BY <1>12, <2>1, <2>3 DEF FinalGet, Goto, TypeOK, WorkerSteps, FinalSteps
<1>13. ASSUME NEW w \in Workers, FinalRejected(w) PROVE TypeOK'
  BY <1>13 DEF FinalRejected, BackToIdle, TypeOK, WorkerSteps, CancelSteps,
       ClaimSteps, FinalSteps
<1>14. ASSUME NEW w \in Workers, FinalUpdate(w) PROVE TypeOK'
  BY <1>14, BusyWorker DEF FinalUpdate, Goto, TypeOK, WorkerSteps,
       CancelSteps, ClaimSteps, FinalSteps
<1>15. ASSUME NEW w \in Workers, FinalCommit(w) PROVE TypeOK'
  BY <1>15, BusyWorker, FinalWrites DEF FinalCommit, Goto, TypeOK,
       WorkerSteps, CancelSteps, ClaimSteps, FinalSteps
<1>16. ASSUME NEW w \in Workers, PublishOutcome(w) PROVE TypeOK'
  <2>1. job[w] \in Runs
    BY <1>16, BusyWorker DEF PublishOutcome
  <2>2. Event[outcome[w]] \in {"done", "error", "cancelled"}
    BY <1>16 DEF PublishOutcome, WorkerInv, Terminal, Event
  <2> QED
    BY <1>16, <2>1, <2>2 DEF PublishOutcome, BackToIdle, TypeOK, WorkerSteps
<1>17. ASSUME NEW w \in Workers, WorkerAbandons(w) PROVE TypeOK'
  BY <1>17, BusyWorker DEF WorkerAbandons, BackToIdle, TypeOK, WorkerSteps,
       CancelSteps, ClaimSteps, FinalSteps
<1>18. ASSUME NEW c \in Requests, NEW r \in Runs, CancelArrives(c, r) PROVE TypeOK'
  BY <1>18 DEF CancelArrives, TypeOK, WorkerSteps, CancelSteps, ClaimSteps,
       FinalSteps
<1>19. ASSUME NEW c \in Requests, CancelNothing(c) PROVE TypeOK'
  BY <1>19 DEF CancelNothing, CancelBackToIdle, TypeOK, WorkerSteps,
       CancelSteps, ClaimSteps, FinalSteps
<1>20. ASSUME NEW c \in Requests, CancelAgain(c) PROVE TypeOK'
  BY <1>20 DEF CancelAgain, CancelInv, TypeOK, WorkerSteps, CancelSteps,
       ClaimSteps, FinalSteps
<1>21. ASSUME NEW c \in Requests, CancelQueued(c) PROVE TypeOK'
  <2>1. target[c] \in Runs /\ row[target[c]] \in Row
    BY <1>21 DEF CancelQueued, CancelInv, TypeOK, StatusOf
  <2>2. Mark(row[target[c]], "cancelled") \in Row
    BY <2>1, MarkType DEF Status
  <2> QED
    BY <1>21, <2>1, <2>2 DEF CancelQueued, TypeOK, CancelSteps
<1>22. ASSUME NEW c \in Requests, CancelRunning(c) PROVE TypeOK'
  BY <1>22 DEF CancelRunning, CancelInv, TypeOK, WorkerSteps, CancelSteps,
       ClaimSteps, FinalSteps
<1>23. ASSUME NEW c \in Requests, CancelUpdate(c) PROVE TypeOK'
  BY <1>23 DEF CancelUpdate, CancelInv, TypeOK, WorkerSteps, CancelSteps,
       ClaimSteps, FinalSteps
<1>24. ASSUME NEW c \in Requests, CancelCommit(c) PROVE TypeOK'
  BY <1>24, CancelWrites DEF CancelCommit, TypeOK, WorkerSteps, CancelSteps,
       ClaimSteps, FinalSteps
<1>25. ASSUME NEW c \in Requests, CancelSignal(c) PROVE TypeOK'
  <2>1. target[c] \in Runs
    BY <1>25 DEF CancelSignal, CancelInv
  <2>2. CASE cobj[c].status = "cancelled"
    BY <1>25, <2>1, <2>2 DEF CancelSignal, TypeOK, CancelSteps
  <2>3. CASE cobj[c].status # "cancelled"
    BY <1>25, <2>1, <2>3 DEF CancelSignal, CancelBackToIdle, TypeOK, CancelSteps
  <2> QED
    BY <2>2, <2>3
<1>26. ASSUME NEW c \in Requests, CancelPublish(c) PROVE TypeOK'
  BY <1>26 DEF CancelPublish, CancelBackToIdle, CancelInv, TypeOK,
       WorkerSteps, CancelSteps, ClaimSteps, FinalSteps
<1>27. ASSUME NEW c \in Requests, CancelFails(c) PROVE TypeOK'
  BY <1>27 DEF CancelFails, CancelBackToIdle, TypeOK, WorkerSteps,
       CancelSteps, ClaimSteps, FinalSteps
<1>28. CASE UNCHANGED vars
  BY <1>28 DEF vars, TypeOK, WorkerSteps, CancelSteps, ClaimSteps, FinalSteps
<1> QED
  BY <1>1, <1>2, <1>3, <1>4, <1>5, <1>6, <1>7, <1>8, <1>9, <1>10, <1>11,
       <1>12, <1>13, <1>14, <1>15, <1>16, <1>17, <1>18, <1>19, <1>20, <1>21,
       <1>22, <1>23, <1>24, <1>25, <1>26, <1>27, <1>28 DEF Next, SubmitStep,
       WorkerStep, ProcessStep, CancelStep

(* Every step keeps the list free of duplicates and of claimed runs. *)
LEMMA QueueStep ==
  ASSUME IInv, [Next]_vars
  PROVE  QueueInv'
<1> USE DEF IInv, submitVars, workerVars, cancelVars, history
<1>1. ASSUME NEW r \in Runs, SubmitCommit(r) PROVE QueueInv'
  BY <1>1 DEF SubmitCommit, TypeOK, QueueInv, Held
<1>2. ASSUME NEW r \in Runs, SubmitEnqueue(r) PROVE QueueInv'
  BY <1>2, NoRunAssumption DEF SubmitEnqueue, PhaseInv, HolderInv, TypeOK,
       QueueInv, Held
<1>3. ASSUME NEW r \in Runs, SubmitFails(r) PROVE QueueInv'
  BY <1>3 DEF SubmitFails, TypeOK, QueueInv, Held
<1>4. ASSUME NEW w \in Workers, Dequeue(w) PROVE QueueInv'
  BY <1>4 DEF Dequeue, Goto, HolderInv, TypeOK, QueueInv, Held
<1>5. ASSUME NEW w \in Workers, DequeueLost(w) PROVE QueueInv'
  BY <1>5 DEF DequeueLost, TypeOK, QueueInv, Held
<1>6. ASSUME NEW w \in Workers, ClaimSkip(w) PROVE QueueInv'
  BY <1>6, QueueOutlivesJob DEF ClaimSkip, BackToIdle
<1>7. ASSUME NEW w \in Workers, ClaimCommit(w) PROVE QueueInv'
  BY <1>7, BusyWorker DEF ClaimCommit, Goto, HolderInv, TypeOK, QueueInv, Held
<1>8. ASSUME NEW w \in Workers, FinalRejected(w) PROVE QueueInv'
  BY <1>8, QueueOutlivesJob DEF FinalRejected, BackToIdle
<1>9. ASSUME NEW w \in Workers, PublishOutcome(w) PROVE QueueInv'
  BY <1>9, QueueOutlivesJob DEF PublishOutcome, BackToIdle
<1>10. ASSUME NEW w \in Workers, WorkerAbandons(w) PROVE QueueInv'
  BY <1>10, QueueOutlivesJob DEF WorkerAbandons, BackToIdle
<1>11. ASSUME NEW r \in Runs, SignalExpires(r) PROVE QueueInv'
  <2>1. UNCHANGED <<queue, submit, starts, job>>
    BY <1>11 DEF SignalExpires
  <2> QED
    BY <2>1 DEF TypeOK, QueueInv, Held
<1>12. ASSUME NEW w \in Workers,
            ClaimGet(w) \/ ClaimUpdate(w) \/ AgentStep(w) \/ FinalGet(w) \/
            FinalUpdate(w) \/ FinalCommit(w)
     PROVE  QueueInv'
  <2>1. UNCHANGED <<queue, submit, starts, job>>
    BY <1>12 DEF ClaimGet, ClaimUpdate, AgentStep, AgentReturns, AgentRaises,
         AgentCancelled, AgentEnds, FinalGet, FinalUpdate, FinalCommit, Goto
  <2> QED
    BY <2>1 DEF TypeOK, QueueInv, Held
<1>13. ASSUME NEW c \in Requests, NEW r \in Runs, CancelArrives(c, r) PROVE QueueInv'
  <2>1. UNCHANGED <<queue, submit, starts, job>>
    BY <1>13 DEF CancelArrives
  <2> QED
    BY <2>1 DEF TypeOK, QueueInv, Held
<1>14. ASSUME NEW c \in Requests,
            CancelNothing(c) \/ CancelAgain(c) \/ CancelQueued(c) \/
            CancelRunning(c) \/ CancelUpdate(c) \/ CancelCommit(c) \/
            CancelSignal(c) \/ CancelPublish(c) \/ CancelFails(c)
     PROVE  QueueInv'
  <2>1. UNCHANGED <<queue, submit, starts, job>>
    BY <1>14 DEF CancelNothing, CancelAgain, CancelQueued, CancelRunning,
         CancelUpdate, CancelCommit, CancelSignal, CancelPublish, CancelFails,
         CancelBackToIdle
  <2> QED
    BY <2>1 DEF TypeOK, QueueInv, Held
<1>15. CASE UNCHANGED vars
  BY <1>15 DEF vars, TypeOK, QueueInv, Held
<1> QED
  BY <1>1, <1>2, <1>3, <1>4, <1>5, <1>6, <1>7, <1>8, <1>9, <1>10, <1>11,
       <1>12, <1>13, <1>14, <1>15 DEF Next, SubmitStep, WorkerStep,
       ProcessStep, CancelStep

(* Every step keeps each run with at most one worker, and the counters of the
   run in line with the worker's place in _process_one. *)
LEMMA HolderStep ==
  ASSUME IInv, [Next]_vars
  PROVE  HolderInv'
<1> USE DEF IInv, submitVars, workerVars, cancelVars, history
<1>1. ASSUME NEW r \in Runs, SubmitCommit(r) PROVE HolderInv'
  BY <1>1 DEF SubmitCommit, TypeOK, HolderInv, ClaimSteps, FinalSteps
<1>2. ASSUME NEW r \in Runs, SubmitEnqueue(r) PROVE HolderInv'
  BY <1>2 DEF SubmitEnqueue, TypeOK, HolderInv, ClaimSteps, FinalSteps
<1>3. ASSUME NEW r \in Runs, SubmitFails(r) PROVE HolderInv'
  BY <1>3 DEF SubmitFails, TypeOK, HolderInv, ClaimSteps, FinalSteps
<1>4. ASSUME NEW w \in Workers, Dequeue(w) PROVE HolderInv'
  BY <1>4, BusyWorker DEF Dequeue, Goto, QueueInv, Held, PhaseInv, TypeOK,
       HolderInv, ClaimSteps, FinalSteps
<1>5. ASSUME NEW w \in Workers, ClaimSkip(w) PROVE HolderInv'
  BY <1>5, BusyWorker DEF ClaimSkip, BackToIdle, TypeOK, HolderInv,
       ClaimSteps, FinalSteps
<1>6. ASSUME NEW w \in Workers, ClaimGet(w) PROVE HolderInv'
  BY <1>6, BusyWorker DEF ClaimGet, Goto, TypeOK, HolderInv, ClaimSteps,
       FinalSteps
<1>7. ASSUME NEW w \in Workers, ClaimUpdate(w) PROVE HolderInv'
  BY <1>7, BusyWorker DEF ClaimUpdate, Goto, TypeOK, HolderInv, ClaimSteps,
       FinalSteps
<1>8. ASSUME NEW w \in Workers, ClaimCommit(w) PROVE HolderInv'
  BY <1>8, BusyWorker DEF ClaimCommit, Goto, TypeOK, HolderInv, ClaimSteps,
       FinalSteps
<1>9. ASSUME NEW w \in Workers, AgentStep(w) PROVE HolderInv'
  <2>1. wpc[w] = "execute" /\ wpc' = [wpc EXCEPT ![w] = "final_get"]
    BY <1>9 DEF AgentStep, AgentReturns, AgentRaises, AgentCancelled, AgentEnds, Goto
  <2>2. UNCHANGED <<job, submit, starts, finishes>>
    BY <1>9 DEF AgentStep, AgentReturns, AgentRaises, AgentCancelled, AgentEnds
  <2> QED
    BY <2>1, <2>2 DEF TypeOK, HolderInv, ClaimSteps, FinalSteps
<1>10. ASSUME NEW w \in Workers, FinalGet(w) PROVE HolderInv'
  BY <1>10, BusyWorker DEF FinalGet, Goto, TypeOK, HolderInv, ClaimSteps,
       FinalSteps
<1>11. ASSUME NEW w \in Workers, FinalRejected(w) PROVE HolderInv'
  BY <1>11, BusyWorker DEF FinalRejected, BackToIdle, TypeOK, HolderInv,
       ClaimSteps, FinalSteps
<1>12. ASSUME NEW w \in Workers, FinalUpdate(w) PROVE HolderInv'
  BY <1>12, BusyWorker DEF FinalUpdate, Goto, TypeOK, HolderInv, ClaimSteps,
       FinalSteps
<1>13. ASSUME NEW w \in Workers, FinalCommit(w) PROVE HolderInv'
  BY <1>13, BusyWorker DEF FinalCommit, Goto, TypeOK, HolderInv, ClaimSteps,
       FinalSteps
<1>14. ASSUME NEW w \in Workers, PublishOutcome(w) PROVE HolderInv'
  BY <1>14, BusyWorker DEF PublishOutcome, BackToIdle, TypeOK, HolderInv,
       ClaimSteps, FinalSteps
<1>15. ASSUME NEW w \in Workers, WorkerAbandons(w) PROVE HolderInv'
  BY <1>15, BusyWorker DEF WorkerAbandons, BackToIdle, TypeOK, HolderInv,
       ClaimSteps, FinalSteps
<1>16. ASSUME NEW r \in Runs, SignalExpires(r) PROVE HolderInv'
  <2>1. UNCHANGED <<wpc, job, submit, starts, finishes>>
    BY <1>16 DEF SignalExpires
  <2> QED
    BY <2>1 DEF TypeOK, HolderInv, ClaimSteps, FinalSteps
<1>17. ASSUME NEW w \in Workers, DequeueLost(w) PROVE HolderInv'
  <2>1. UNCHANGED <<wpc, job, submit, starts, finishes>>
    BY <1>17 DEF DequeueLost
  <2> QED
    BY <2>1 DEF TypeOK, HolderInv, ClaimSteps, FinalSteps
<1>18. ASSUME NEW c \in Requests, NEW r \in Runs, CancelArrives(c, r) PROVE HolderInv'
  <2>1. UNCHANGED <<wpc, job, submit, starts, finishes>>
    BY <1>18 DEF CancelArrives
  <2> QED
    BY <2>1 DEF TypeOK, HolderInv, ClaimSteps, FinalSteps
<1>19. ASSUME NEW c \in Requests,
            CancelNothing(c) \/ CancelAgain(c) \/ CancelQueued(c) \/
            CancelRunning(c) \/ CancelUpdate(c) \/ CancelCommit(c) \/
            CancelSignal(c) \/ CancelPublish(c) \/ CancelFails(c)
     PROVE  HolderInv'
  <2>1. UNCHANGED <<wpc, job, submit, starts, finishes>>
    BY <1>19 DEF CancelNothing, CancelAgain, CancelQueued, CancelRunning,
         CancelUpdate, CancelCommit, CancelSignal, CancelPublish, CancelFails,
         CancelBackToIdle
  <2> QED
    BY <2>1 DEF TypeOK, HolderInv, ClaimSteps, FinalSteps
<1>20. CASE UNCHANGED vars
  BY <1>20 DEF vars, TypeOK, HolderInv, ClaimSteps, FinalSteps
<1> QED
  BY <1>1, <1>2, <1>3, <1>4, <1>5, <1>6, <1>7, <1>8, <1>9, <1>10, <1>11,
       <1>12, <1>13, <1>14, <1>15, <1>16, <1>17, <1>18, <1>19, <1>20 DEF Next,
       SubmitStep, WorkerStep, ProcessStep, CancelStep

(* Every step keeps the row within what the counters of its run allow. *)
LEMMA PhaseStep ==
  ASSUME IInv, [Next]_vars
  PROVE  PhaseInv'
<1> USE DEF IInv, submitVars, workerVars, cancelVars, history
<1>1. ASSUME NEW r \in Runs, SubmitCommit(r) PROVE PhaseInv'
  BY <1>1, NewRunType, NoRowAssumption DEF SubmitCommit, NewRun, Blank,
       NoColumns, Terminal, TypeOK, PhaseInv, StatusOf
<1>2. ASSUME NEW r \in Runs, SubmitEnqueue(r) PROVE PhaseInv'
  BY <1>2 DEF SubmitEnqueue, TypeOK, PhaseInv, StatusOf
<1>3. ASSUME NEW r \in Runs, SubmitFails(r) PROVE PhaseInv'
  BY <1>3 DEF SubmitFails, TypeOK, PhaseInv, StatusOf
<1>4. ASSUME NEW w \in Workers, ClaimCommit(w) PROVE PhaseInv'
  BY <1>4, BusyWorker, ClaimWrites, NoRowAssumption DEF ClaimCommit, Goto,
       HolderInv, ClaimSteps, TypeOK, PhaseInv, StatusOf
<1>5. ASSUME NEW w \in Workers, FinalCommit(w) PROVE PhaseInv'
  <2> DEFINE new == Flush(row[job[w]], worm[w], wobj[w])
  <2>1. job[w] \in Runs /\ new \in Row /\ new.status \in Terminal
    BY <1>5, BusyWorker, FinalWrites DEF FinalCommit
  <2>2. submit[job[w]] = "done" /\ starts[job[w]] = 1 /\ finishes[job[w]] = 0
    BY <1>5 DEF FinalCommit, HolderInv, ClaimSteps
  <2>3. row' = [row EXCEPT ![job[w]] = new] /\ finishes' = [finishes EXCEPT ![job[w]] = 1]
    BY <1>5, <2>2 DEF FinalCommit
  <2>4. UNCHANGED <<submit, starts>>
    BY <1>5 DEF FinalCommit
  <2> HIDE DEF new
  <2> QED
    BY <2>1, <2>2, <2>3, <2>4, NoRowAssumption DEF TypeOK, PhaseInv, StatusOf
<1>6. ASSUME NEW c \in Requests, CancelCommit(c) PROVE PhaseInv'
  BY <1>6, CancelWrites, NoRowAssumption DEF CancelCommit, Terminal, TypeOK,
       PhaseInv, StatusOf
<1>7. ASSUME NEW r \in Runs, SignalExpires(r) PROVE PhaseInv'
  <2>1. UNCHANGED <<row, submit, starts, finishes>>
    BY <1>7 DEF SignalExpires
  <2> QED
    BY <2>1 DEF TypeOK, PhaseInv, StatusOf
<1>8. ASSUME NEW w \in Workers,
            Dequeue(w) \/ DequeueLost(w) \/ ClaimSkip(w) \/ ClaimGet(w) \/
            ClaimUpdate(w) \/ AgentStep(w) \/ FinalGet(w) \/ FinalRejected(w)
            \/ FinalUpdate(w) \/ PublishOutcome(w) \/ WorkerAbandons(w)
     PROVE  PhaseInv'
  <2>1. UNCHANGED <<row, submit, starts, finishes>>
    BY <1>8 DEF Dequeue, DequeueLost, ClaimSkip, ClaimGet, ClaimUpdate,
         AgentStep, AgentReturns, AgentRaises, AgentCancelled, AgentEnds,
         FinalGet, FinalRejected, FinalUpdate, PublishOutcome, WorkerAbandons,
         Goto, BackToIdle
  <2> QED
    BY <2>1 DEF TypeOK, PhaseInv, StatusOf
<1>9. ASSUME NEW c \in Requests, NEW r \in Runs, CancelArrives(c, r) PROVE PhaseInv'
  <2>1. UNCHANGED <<row, submit, starts, finishes>>
    BY <1>9 DEF CancelArrives
  <2> QED
    BY <2>1 DEF TypeOK, PhaseInv, StatusOf
<1>10. ASSUME NEW c \in Requests,
            CancelNothing(c) \/ CancelAgain(c) \/ CancelQueued(c) \/
            CancelRunning(c) \/ CancelUpdate(c) \/ CancelSignal(c) \/
            CancelPublish(c) \/ CancelFails(c)
     PROVE  PhaseInv'
  <2>1. UNCHANGED <<row, submit, starts, finishes>>
    BY <1>10 DEF CancelNothing, CancelAgain, CancelQueued, CancelRunning,
         CancelUpdate, CancelSignal, CancelPublish, CancelFails,
         CancelBackToIdle
  <2> QED
    BY <2>1 DEF TypeOK, PhaseInv, StatusOf
<1>11. CASE UNCHANGED vars
  BY <1>11 DEF vars, TypeOK, PhaseInv, StatusOf
<1> QED
  BY <1>1, <1>2, <1>3, <1>4, <1>5, <1>6, <1>7, <1>8, <1>9, <1>10, <1>11 DEF
       Next, SubmitStep, WorkerStep, ProcessStep, CancelStep

(* Every flush leaves columns that agree with the status. *)
LEMMA OutcomeStep ==
  ASSUME IInv, [Next]_vars
  PROVE  OutcomeConsistent'
<1> USE DEF IInv, submitVars, workerVars, cancelVars, history
<1>1. ASSUME NEW r \in Runs, SubmitCommit(r) PROVE OutcomeConsistent'
  BY <1>1 DEF SubmitCommit, NewRun, Blank, ColumnsAgree, TypeOK,
       OutcomeConsistent
<1>2. ASSUME NEW w \in Workers, ClaimCommit(w) PROVE OutcomeConsistent'
  BY <1>2, BusyWorker, ClaimWrites DEF ClaimCommit, Goto, ColumnsAgree,
       NoColumns, TypeOK, OutcomeConsistent
<1>3. ASSUME NEW w \in Workers, FinalCommit(w) PROVE OutcomeConsistent'
  BY <1>3, BusyWorker, FinalWrites DEF FinalCommit, Goto, TypeOK,
       OutcomeConsistent
<1>4. ASSUME NEW c \in Requests, CancelCommit(c) PROVE OutcomeConsistent'
  BY <1>4, CancelWrites DEF CancelCommit, TypeOK, OutcomeConsistent
<1>5. ASSUME NEW r \in Runs,
            SubmitEnqueue(r) \/ SubmitFails(r) \/ SignalExpires(r)
     PROVE  OutcomeConsistent'
  <2>1. UNCHANGED <<row>>
    BY <1>5 DEF SubmitEnqueue, SubmitFails, SignalExpires
  <2> QED
    BY <2>1 DEF TypeOK, OutcomeConsistent
<1>6. ASSUME NEW w \in Workers,
            Dequeue(w) \/ DequeueLost(w) \/ ClaimSkip(w) \/ ClaimGet(w) \/
            ClaimUpdate(w) \/ AgentStep(w) \/ FinalGet(w) \/ FinalRejected(w)
            \/ FinalUpdate(w) \/ PublishOutcome(w) \/ WorkerAbandons(w)
     PROVE  OutcomeConsistent'
  <2>1. UNCHANGED <<row>>
    BY <1>6 DEF Dequeue, DequeueLost, ClaimSkip, ClaimGet, ClaimUpdate,
         AgentStep, AgentReturns, AgentRaises, AgentCancelled, AgentEnds,
         FinalGet, FinalRejected, FinalUpdate, PublishOutcome, WorkerAbandons,
         Goto, BackToIdle
  <2> QED
    BY <2>1 DEF TypeOK, OutcomeConsistent
<1>7. ASSUME NEW c \in Requests, NEW r \in Runs, CancelArrives(c, r) PROVE OutcomeConsistent'
  <2>1. UNCHANGED <<row>>
    BY <1>7 DEF CancelArrives
  <2> QED
    BY <2>1 DEF TypeOK, OutcomeConsistent
<1>8. ASSUME NEW c \in Requests,
            CancelNothing(c) \/ CancelAgain(c) \/ CancelQueued(c) \/
            CancelRunning(c) \/ CancelUpdate(c) \/ CancelSignal(c) \/
            CancelPublish(c) \/ CancelFails(c)
     PROVE  OutcomeConsistent'
  <2>1. UNCHANGED <<row>>
    BY <1>8 DEF CancelNothing, CancelAgain, CancelQueued, CancelRunning,
         CancelUpdate, CancelSignal, CancelPublish, CancelFails,
         CancelBackToIdle
  <2> QED
    BY <2>1 DEF TypeOK, OutcomeConsistent
<1>9. CASE UNCHANGED vars
  BY <1>9 DEF vars, TypeOK, OutcomeConsistent
<1> QED
  BY <1>1, <1>2, <1>3, <1>4, <1>5, <1>6, <1>7, <1>8, <1>9 DEF Next,
       SubmitStep, WorkerStep, ProcessStep, CancelStep

(* Every step keeps what the workers are about to write; in particular a
   final transaction that saw the run cancelled finds it still cancelled. *)
LEMMA WorkerStepInv ==
  ASSUME IInv, [Next]_vars
  PROVE  WorkerInv'
<1> USE DEF IInv, submitVars, workerVars, cancelVars, history
<1>1. ASSUME NEW r \in Runs, SubmitCommit(r) PROVE WorkerInv'
  BY <1>1 DEF SubmitCommit, HolderInv, TypeOK, WorkerInv, FinalSteps, StatusOf
<1>2. ASSUME NEW w \in Workers, Dequeue(w) PROVE WorkerInv'
  BY <1>2 DEF Dequeue, Goto, TypeOK, WorkerInv, FinalSteps, StatusOf
<1>3. ASSUME NEW w \in Workers, ClaimSkip(w) PROVE WorkerInv'
  BY <1>3 DEF ClaimSkip, BackToIdle, TypeOK, WorkerInv, FinalSteps, StatusOf
<1>4. ASSUME NEW w \in Workers, ClaimGet(w) PROVE WorkerInv'
  <2>1. job[w] \in Runs /\ row[job[w]] \in Row /\ row[job[w]].status = "queued"
    BY <1>4, BusyWorker, NoRowAssumption DEF ClaimGet, StatusOf
  <2>2. NoColumns(row[job[w]])
    BY <1>4, <2>1, NoRowAssumption DEF ClaimGet, HolderInv, PhaseInv, ClaimSteps
  <2>3. Mark(row[job[w]], "running") = Blank("running")
    BY <2>1, <2>2, BlankRow, MarkBlank
  <2> QED
    BY <1>4, <2>1, <2>2, <2>3 DEF ClaimGet, Goto, TypeOK, WorkerInv, FinalSteps, StatusOf
<1>5. ASSUME NEW w \in Workers, ClaimUpdate(w) PROVE WorkerInv'
  <2>1. job[w] \in Runs /\ row[job[w]] \in Row
    BY <1>5, BusyWorker DEF ClaimUpdate
  <2>2. starts[job[w]] = 0 /\ finishes[job[w]] = 0
    BY <1>5 DEF ClaimUpdate, HolderInv, ClaimSteps
  <2>3. StatusOf(job[w]) \in {"none", "queued", "cancelled"}
    BY <2>1, <2>2 DEF PhaseInv
  <2>4. row[job[w]].status \in {"queued", "cancelled"}
    BY <2>1, <2>3, NoRowAssumption DEF StatusOf, Row, Status
  <2>5. NoColumns(row[job[w]])
    BY <2>1, <2>2, NoRowAssumption DEF PhaseInv
  <2> QED
    BY <1>5, <2>1, <2>4, <2>5 DEF ClaimUpdate, Goto, TypeOK, WorkerInv, FinalSteps, StatusOf
<1>6. ASSUME NEW w \in Workers, ClaimCommit(w) PROVE WorkerInv'
  <2> DEFINE new == Flush(row[job[w]], worm[w], wobj[w])
  <2>1. job[w] \in Runs /\ new \in Row
    BY <1>6, BusyWorker, ClaimWrites DEF ClaimCommit
  <2>2. \A v \in Workers : v # w => job[v] # job[w]
    BY <2>1, NoRunAssumption DEF HolderInv
  <2>3. row' = [row EXCEPT ![job[w]] = new] /\ wpc' = [wpc EXCEPT ![w] = "execute"]
    BY <1>6 DEF ClaimCommit, Goto
  <2>4. /\ UNCHANGED <<job, outcome>>
        /\ wobj' = [wobj EXCEPT ![w] = NoRow]
        /\ worm' = [worm EXCEPT ![w] = NoRow]
    BY <1>6 DEF ClaimCommit
  <2> HIDE DEF new
  <2> QED
    BY <2>1, <2>2, <2>3, <2>4 DEF TypeOK, WorkerInv, FinalSteps, StatusOf
<1>7. ASSUME NEW w \in Workers, AgentStep(w) PROVE WorkerInv'
  <2>1. PICK s \in Terminal : AgentEnds(w, s)
    BY <1>7 DEF AgentStep, AgentReturns, AgentRaises, AgentCancelled, Terminal
  <2> QED
    BY <2>1 DEF AgentEnds, Goto, TypeOK, WorkerInv, FinalSteps, StatusOf
<1>8. ASSUME NEW w \in Workers, FinalGet(w) PROVE WorkerInv'
  <2>1. job[w] \in Runs /\ row[job[w]] \in Row
    BY <1>8, BusyWorker DEF FinalGet
  <2>2. starts[job[w]] = 1 /\ finishes[job[w]] = 0
    BY <1>8 DEF FinalGet, HolderInv, ClaimSteps
  <2>3. outcome[w] \in Terminal
    BY <1>8 DEF FinalGet, WorkerInv, FinalSteps
  <2>4. NoColumns(row[job[w]]) /\ row[job[w]].status = "running"
    BY <1>8, <2>1, <2>2, <2>3, NoRowAssumption DEF FinalGet, PhaseInv, StatusOf, MarkFrom, Terminal
  <2>5. row[job[w]] = Blank("running")
    BY <2>1, <2>4, BlankRow
  <2> QED
    BY <1>8, <2>1, <2>3, <2>4, <2>5 DEF FinalGet, Goto, TypeOK, WorkerInv, FinalSteps, StatusOf
<1>9. ASSUME NEW w \in Workers, FinalRejected(w) PROVE WorkerInv'
  BY <1>9 DEF FinalRejected, BackToIdle, TypeOK, WorkerInv, FinalSteps,
       StatusOf
<1>10. ASSUME NEW w \in Workers, FinalUpdate(w) PROVE WorkerInv'
  <2>1. job[w] \in Runs /\ row[job[w]] \in Row
    BY <1>10, BusyWorker DEF FinalUpdate
  <2>2. starts[job[w]] = 1 /\ finishes[job[w]] = 0
    BY <1>10 DEF FinalUpdate, HolderInv, ClaimSteps
  <2>3. NoColumns(row[job[w]]) /\ row[job[w]].status \in {"running", "cancelled"}
    BY <2>1, <2>2, NoRowAssumption DEF PhaseInv, StatusOf
  <2> QED
    BY <1>10, <2>1, <2>3, NoRowAssumption DEF FinalUpdate, Goto, TypeOK, WorkerInv, FinalSteps, StatusOf
<1>11. ASSUME NEW w \in Workers, FinalCommit(w) PROVE WorkerInv'
  <2> DEFINE new == Flush(row[job[w]], worm[w], wobj[w])
  <2>1. job[w] \in Runs /\ new \in Row /\ new.status = outcome[w] /\ outcome[w] \in Terminal
    BY <1>11, BusyWorker, FinalWrites DEF FinalCommit
  <2>2. \A v \in Workers : v # w => job[v] # job[w]
    BY <2>1, NoRunAssumption DEF HolderInv
  <2>3. row' = [row EXCEPT ![job[w]] = new] /\ wpc' = [wpc EXCEPT ![w] = "publish"]
    BY <1>11 DEF FinalCommit, Goto
  <2>4. /\ UNCHANGED <<job, outcome>>
        /\ wobj' = [wobj EXCEPT ![w] = NoRow]
        /\ worm' = [worm EXCEPT ![w] = NoRow]
    BY <1>11 DEF FinalCommit
  <2> HIDE DEF new
  <2> QED
    BY <2>1, <2>2, <2>3, <2>4, NoRowAssumption DEF TypeOK, WorkerInv, FinalSteps, StatusOf
<1>12. ASSUME NEW w \in Workers, PublishOutcome(w) PROVE WorkerInv'
  BY <1>12 DEF PublishOutcome, BackToIdle, TypeOK, WorkerInv, FinalSteps,
       StatusOf
<1>13. ASSUME NEW w \in Workers, WorkerAbandons(w) PROVE WorkerInv'
  BY <1>13 DEF WorkerAbandons, BackToIdle, TypeOK, WorkerInv, FinalSteps,
       StatusOf
<1>14. ASSUME NEW c \in Requests, CancelCommit(c) PROVE WorkerInv'
  BY <1>14, CancelWrites, NoRowAssumption DEF CancelCommit, TypeOK, WorkerInv,
       FinalSteps, StatusOf
<1>15. ASSUME NEW r \in Runs,
            SubmitEnqueue(r) \/ SubmitFails(r) \/ SignalExpires(r)
     PROVE  WorkerInv'
  <2>1. UNCHANGED <<wpc, wobj, worm, outcome, row, job>>
    BY <1>15 DEF SubmitEnqueue, SubmitFails, SignalExpires
  <2> QED
    BY <2>1 DEF TypeOK, WorkerInv, FinalSteps, StatusOf
<1>16. ASSUME NEW w \in Workers, DequeueLost(w) PROVE WorkerInv'
  <2>1. UNCHANGED <<wpc, wobj, worm, outcome, row, job>>
    BY <1>16 DEF DequeueLost
  <2> QED
    BY <2>1 DEF TypeOK, WorkerInv, FinalSteps, StatusOf
<1>17. ASSUME NEW c \in Requests, NEW r \in Runs, CancelArrives(c, r) PROVE WorkerInv'
  <2>1. UNCHANGED <<wpc, wobj, worm, outcome, row, job>>
    BY <1>17 DEF CancelArrives
  <2> QED
    BY <2>1 DEF TypeOK, WorkerInv, FinalSteps, StatusOf
<1>18. ASSUME NEW c \in Requests,
            CancelNothing(c) \/ CancelAgain(c) \/ CancelQueued(c) \/
            CancelRunning(c) \/ CancelUpdate(c) \/ CancelSignal(c) \/
            CancelPublish(c) \/ CancelFails(c)
     PROVE  WorkerInv'
  <2>1. UNCHANGED <<wpc, wobj, worm, outcome, row, job>>
    BY <1>18 DEF CancelNothing, CancelAgain, CancelQueued, CancelRunning,
         CancelUpdate, CancelSignal, CancelPublish, CancelFails,
         CancelBackToIdle
  <2> QED
    BY <2>1 DEF TypeOK, WorkerInv, FinalSteps, StatusOf
<1>19. CASE UNCHANGED vars
  BY <1>19 DEF vars, TypeOK, WorkerInv, FinalSteps, StatusOf
<1> QED
  BY <1>1, <1>2, <1>3, <1>4, <1>5, <1>6, <1>7, <1>8, <1>9, <1>10, <1>11,
       <1>12, <1>13, <1>14, <1>15, <1>16, <1>17, <1>18, <1>19 DEF Next,
       SubmitStep, WorkerStep, ProcessStep, CancelStep

(* Every step keeps what the cancel requests are about to write. *)
LEMMA CancelStepInv ==
  ASSUME IInv, [Next]_vars
  PROVE  CancelInv'
<1> USE DEF IInv, submitVars, workerVars, cancelVars, history
<1>1. ASSUME NEW r \in Runs, SubmitCommit(r) PROVE CancelInv'
  BY <1>1, NewRunType, NoRowAssumption DEF SubmitCommit, PhaseInv, TypeOK,
       CancelInv, StatusOf
<1>2. ASSUME NEW w \in Workers, ClaimCommit(w) PROVE CancelInv'
  <2> DEFINE new == Flush(row[job[w]], worm[w], wobj[w])
  <2>1. job[w] \in Runs /\ new \in Row
    BY <1>2, BusyWorker, ClaimWrites DEF ClaimCommit
  <2>2. finishes[job[w]] = 0
    BY <1>2 DEF ClaimCommit, HolderInv, ClaimSteps
  <2>3. row' = [row EXCEPT ![job[w]] = new] /\ UNCHANGED <<cpc, target, cobj, corm, finishes>>
    BY <1>2 DEF ClaimCommit
  <2> HIDE DEF new
  <2> QED
    BY <2>1, <2>2, <2>3, NoRowAssumption DEF TypeOK, CancelInv, StatusOf
<1>3. ASSUME NEW w \in Workers, FinalCommit(w) PROVE CancelInv'
  <2> DEFINE new == Flush(row[job[w]], worm[w], wobj[w])
  <2>1. job[w] \in Runs /\ new \in Row
    BY <1>3, BusyWorker, FinalWrites DEF FinalCommit
  <2>2. finishes[job[w]] = 0
    BY <1>3 DEF FinalCommit, HolderInv, ClaimSteps
  <2>3. row' = [row EXCEPT ![job[w]] = new] /\ UNCHANGED <<cpc, target, cobj, corm>>
    BY <1>3 DEF FinalCommit
  <2>4. finishes' = [finishes EXCEPT ![job[w]] = 1]
    BY <1>3, <2>2 DEF FinalCommit
  <2> HIDE DEF new
  <2> QED
    BY <2>1, <2>2, <2>3, <2>4, NoRowAssumption DEF TypeOK, CancelInv, StatusOf
<1>4. ASSUME NEW c \in Requests, NEW r \in Runs, CancelArrives(c, r) PROVE CancelInv'
  BY <1>4 DEF CancelArrives, TypeOK, CancelInv, StatusOf
<1>5. ASSUME NEW c \in Requests, CancelNothing(c) PROVE CancelInv'
  BY <1>5 DEF CancelNothing, CancelBackToIdle, TypeOK, CancelInv, StatusOf
<1>6. ASSUME NEW c \in Requests, CancelAgain(c) PROVE CancelInv'
  BY <1>6 DEF CancelAgain, TypeOK, CancelInv, StatusOf
<1>7. ASSUME NEW c \in Requests, CancelQueued(c) PROVE CancelInv'
  <2>1. target[c] \in Runs /\ row[target[c]] \in Row /\ row[target[c]].status = "queued"
    BY <1>7, NoRowAssumption DEF CancelQueued, CancelInv, TypeOK, StatusOf
  <2>2. NoColumns(row[target[c]])
    BY <2>1, NoRowAssumption DEF OutcomeConsistent, ColumnsAgree, NoColumns
  <2>3. Mark(row[target[c]], "cancelled") = Blank("cancelled")
    BY <2>1, <2>2, BlankRow, MarkBlank
  <2> QED
    BY <1>7, <2>1, <2>2, <2>3, NoRowAssumption DEF CancelQueued, TypeOK, CancelInv, StatusOf
<1>8. ASSUME NEW c \in Requests, CancelRunning(c) PROVE CancelInv'
  BY <1>8 DEF CancelRunning, TypeOK, CancelInv, StatusOf
<1>9. ASSUME NEW c \in Requests, CancelUpdate(c) PROVE CancelInv'
  <2>1. target[c] \in Runs /\ row[target[c]] \in Row
    BY <1>9 DEF CancelUpdate, CancelInv, TypeOK
  <2>2. row[target[c]].status = "cancelled" /\ ~NoColumns(row[target[c]]) => finishes[target[c]] = 1
    BY <2>1, NoRowAssumption DEF PhaseInv
  <2> QED
    BY <1>9, <2>1, <2>2, NoRowAssumption DEF CancelUpdate, TypeOK, CancelInv, StatusOf
<1>10. ASSUME NEW c \in Requests, CancelCommit(c) PROVE CancelInv'
  <2> DEFINE new == Flush(row[target[c]], corm[c], cobj[c])
  <2>1. /\ target[c] \in Runs /\ new \in Row
        /\ new.status = "cancelled" \/ new = row[target[c]]
    BY <1>10, CancelWrites DEF CancelCommit
  <2>5. cobj[c] \in Row
    BY <1>10, BlankType DEF CancelCommit, CancelInv, Status
  <2>2. row' = [row EXCEPT ![target[c]] = new] /\ UNCHANGED <<target, cobj, finishes>>
    BY <1>10 DEF CancelCommit
  <2>3. cpc' = [cpc EXCEPT ![c] = "signal"] /\ corm' = [corm EXCEPT ![c] = NoRow]
    BY <1>10 DEF CancelCommit
  <2> HIDE DEF new
  <2> QED
    BY <2>1, <2>2, <2>3, <2>5, NoRowAssumption DEF TypeOK, CancelInv, StatusOf
<1>11. ASSUME NEW c \in Requests, CancelSignal(c) PROVE CancelInv'
  BY <1>11 DEF CancelSignal, CancelBackToIdle, TypeOK, CancelInv, StatusOf
<1>12. ASSUME NEW c \in Requests, CancelPublish(c) PROVE CancelInv'
  BY <1>12 DEF CancelPublish, CancelBackToIdle, TypeOK, CancelInv, StatusOf
<1>13. ASSUME NEW c \in Requests, CancelFails(c) PROVE CancelInv'
  BY <1>13 DEF CancelFails, CancelBackToIdle, TypeOK, CancelInv, StatusOf
<1>14. ASSUME NEW r \in Runs,
            SubmitEnqueue(r) \/ SubmitFails(r) \/ SignalExpires(r)
     PROVE  CancelInv'
  <2>1. UNCHANGED <<cpc, target, cobj, corm, row, finishes>>
    BY <1>14 DEF SubmitEnqueue, SubmitFails, SignalExpires
  <2> QED
    BY <2>1 DEF TypeOK, CancelInv, StatusOf
<1>15. ASSUME NEW w \in Workers,
            Dequeue(w) \/ DequeueLost(w) \/ ClaimSkip(w) \/ ClaimGet(w) \/
            ClaimUpdate(w) \/ AgentStep(w) \/ FinalGet(w) \/ FinalRejected(w)
            \/ FinalUpdate(w) \/ PublishOutcome(w) \/ WorkerAbandons(w)
     PROVE  CancelInv'
  <2>1. UNCHANGED <<cpc, target, cobj, corm, row, finishes>>
    BY <1>15 DEF Dequeue, DequeueLost, ClaimSkip, ClaimGet, ClaimUpdate,
         AgentStep, AgentReturns, AgentRaises, AgentCancelled, AgentEnds,
         FinalGet, FinalRejected, FinalUpdate, PublishOutcome, WorkerAbandons,
         Goto, BackToIdle
  <2> QED
    BY <2>1 DEF TypeOK, CancelInv, StatusOf
<1>16. CASE UNCHANGED vars
  BY <1>16 DEF vars, TypeOK, CancelInv, StatusOf
<1> QED
  BY <1>1, <1>2, <1>3, <1>4, <1>5, <1>6, <1>7, <1>8, <1>9, <1>10, <1>11,
       <1>12, <1>13, <1>14, <1>15, <1>16 DEF Next, SubmitStep, WorkerStep,
       ProcessStep, CancelStep

(* A run that was announced is in no worker's hands. *)
LEMMA AnnouncedStep ==
  ASSUME IInv, [Next]_vars
  PROVE  AnnouncedInv'
<1> USE DEF IInv, submitVars, workerVars, cancelVars, history
<1>1. ASSUME NEW w \in Workers, Dequeue(w) PROVE AnnouncedInv'
  BY <1>1 DEF Dequeue, Goto, QueueInv, PhaseInv, TypeOK, AnnouncedInv, Held
<1>2. ASSUME NEW w \in Workers, ClaimSkip(w) PROVE AnnouncedInv'
  BY <1>2, NoRunAssumption DEF ClaimSkip, BackToIdle, TypeOK, AnnouncedInv,
       Held
<1>3. ASSUME NEW w \in Workers, FinalRejected(w) PROVE AnnouncedInv'
  BY <1>3, NoRunAssumption DEF FinalRejected, BackToIdle, TypeOK,
       AnnouncedInv, Held
<1>4. ASSUME NEW w \in Workers, FinalCommit(w) PROVE AnnouncedInv'
  BY <1>4 DEF FinalCommit, Goto, HolderInv, ClaimSteps, TypeOK, AnnouncedInv,
       Held
<1>5. ASSUME NEW w \in Workers, PublishOutcome(w) PROVE AnnouncedInv'
  BY <1>5, BusyWorker, NoRunAssumption DEF PublishOutcome, BackToIdle,
       HolderInv, TypeOK, AnnouncedInv, Held
<1>6. ASSUME NEW w \in Workers, WorkerAbandons(w) PROVE AnnouncedInv'
  BY <1>6, NoRunAssumption DEF WorkerAbandons, BackToIdle, TypeOK,
       AnnouncedInv, Held
<1>7. ASSUME NEW c \in Requests, CancelPublish(c) PROVE AnnouncedInv'
  BY <1>7 DEF CancelPublish, CancelBackToIdle, TypeOK, AnnouncedInv, Held
<1>8. ASSUME NEW r \in Runs,
            SubmitCommit(r) \/ SubmitEnqueue(r) \/ SubmitFails(r) \/
            SignalExpires(r)
     PROVE  AnnouncedInv'
  <2>1. UNCHANGED <<events, finishes, job>>
    BY <1>8 DEF SubmitCommit, SubmitEnqueue, SubmitFails, SignalExpires
  <2> QED
    BY <2>1 DEF TypeOK, AnnouncedInv, Held
<1>9. ASSUME NEW w \in Workers,
            DequeueLost(w) \/ ClaimGet(w) \/ ClaimUpdate(w) \/ ClaimCommit(w)
            \/ AgentStep(w) \/ FinalGet(w) \/ FinalUpdate(w)
     PROVE  AnnouncedInv'
  <2>1. UNCHANGED <<events, finishes, job>>
    BY <1>9 DEF DequeueLost, ClaimGet, ClaimUpdate, ClaimCommit, AgentStep,
         AgentReturns, AgentRaises, AgentCancelled, AgentEnds, FinalGet,
         FinalUpdate, Goto
  <2> QED
    BY <2>1 DEF TypeOK, AnnouncedInv, Held
<1>10. ASSUME NEW c \in Requests, NEW r \in Runs, CancelArrives(c, r) PROVE AnnouncedInv'
  <2>1. UNCHANGED <<events, finishes, job>>
    BY <1>10 DEF CancelArrives
  <2> QED
    BY <2>1 DEF TypeOK, AnnouncedInv, Held
<1>11. ASSUME NEW c \in Requests,
            CancelNothing(c) \/ CancelAgain(c) \/ CancelQueued(c) \/
            CancelRunning(c) \/ CancelUpdate(c) \/ CancelCommit(c) \/
            CancelSignal(c) \/ CancelFails(c)
     PROVE  AnnouncedInv'
  <2>1. UNCHANGED <<events, finishes, job>>
    BY <1>11 DEF CancelNothing, CancelAgain, CancelQueued, CancelRunning,
         CancelUpdate, CancelCommit, CancelSignal, CancelFails,
         CancelBackToIdle
  <2> QED
    BY <2>1 DEF TypeOK, AnnouncedInv, Held
<1>12. CASE UNCHANGED vars
  BY <1>12 DEF vars, TypeOK, AnnouncedInv, Held
<1> QED
  BY <1>1, <1>2, <1>3, <1>4, <1>5, <1>6, <1>7, <1>8, <1>9, <1>10, <1>11, <1>12
       DEF Next, SubmitStep, WorkerStep, ProcessStep, CancelStep

(* Every step keeps the announced outcome and the row in line. *)
LEMMA EventsStep ==
  ASSUME IInv, [Next]_vars
  PROVE  EventsMatchRow'
<1> USE DEF IInv, submitVars, workerVars, cancelVars, history
<1>1. ASSUME NEW r \in Runs, SubmitCommit(r) PROVE EventsMatchRow'
  BY <1>1 DEF SubmitCommit, AnnouncedInv, PhaseInv, TypeOK, EventsMatchRow,
       StatusOf
<1>2. ASSUME NEW w \in Workers, ClaimCommit(w) PROVE EventsMatchRow'
  BY <1>2, BusyWorker, ClaimWrites DEF ClaimCommit, Goto, AnnouncedInv, Held,
       TypeOK, EventsMatchRow, StatusOf
<1>3. ASSUME NEW w \in Workers, FinalCommit(w) PROVE EventsMatchRow'
  BY <1>3, BusyWorker, FinalWrites DEF FinalCommit, Goto, AnnouncedInv, Held,
       TypeOK, EventsMatchRow, StatusOf
<1>4. ASSUME NEW w \in Workers, PublishOutcome(w) PROVE EventsMatchRow'
  <2>1. job[w] \in Runs /\ outcome[w] \in Terminal
    BY <1>4, BusyWorker DEF PublishOutcome, WorkerInv
  <2>2. events[job[w]] \intersect {"done", "error"} = {}
    BY <2>1 DEF AnnouncedInv, Held
  <2>3. StatusOf(job[w]) \in {outcome[w], "cancelled"}
    BY <1>4 DEF PublishOutcome, WorkerInv
  <2>4. events' = [events EXCEPT ![job[w]] = @ \union {Event[outcome[w]]}] /\ UNCHANGED row
    BY <1>4 DEF PublishOutcome
  <2> QED
    BY <2>1, <2>2, <2>3, <2>4 DEF TypeOK, EventsMatchRow, StatusOf, Event, Terminal
<1>5. ASSUME NEW c \in Requests, CancelCommit(c) PROVE EventsMatchRow'
  BY <1>5, CancelWrites, NoRowAssumption DEF CancelCommit, TypeOK,
       EventsMatchRow, StatusOf
<1>6. ASSUME NEW c \in Requests, CancelPublish(c) PROVE EventsMatchRow'
  BY <1>6 DEF CancelPublish, CancelBackToIdle, TypeOK, EventsMatchRow,
       StatusOf
<1>7. ASSUME NEW r \in Runs,
            SubmitEnqueue(r) \/ SubmitFails(r) \/ SignalExpires(r)
     PROVE  EventsMatchRow'
  <2>1. UNCHANGED <<events, row>>
    BY <1>7 DEF SubmitEnqueue, SubmitFails, SignalExpires
  <2> QED
    BY <2>1 DEF TypeOK, EventsMatchRow, StatusOf
<1>8. ASSUME NEW w \in Workers,
            Dequeue(w) \/ DequeueLost(w) \/ ClaimSkip(w) \/ ClaimGet(w) \/
            ClaimUpdate(w) \/ AgentStep(w) \/ FinalGet(w) \/ FinalRejected(w)
            \/ FinalUpdate(w) \/ WorkerAbandons(w)
     PROVE  EventsMatchRow'
  <2>1. UNCHANGED <<events, row>>
    BY <1>8 DEF Dequeue, DequeueLost, ClaimSkip, ClaimGet, ClaimUpdate,
         AgentStep, AgentReturns, AgentRaises, AgentCancelled, AgentEnds,
         FinalGet, FinalRejected, FinalUpdate, WorkerAbandons, Goto,
         BackToIdle
  <2> QED
    BY <2>1 DEF TypeOK, EventsMatchRow, StatusOf
<1>9. ASSUME NEW c \in Requests, NEW r \in Runs, CancelArrives(c, r) PROVE EventsMatchRow'
  <2>1. UNCHANGED <<events, row>>
    BY <1>9 DEF CancelArrives
  <2> QED
    BY <2>1 DEF TypeOK, EventsMatchRow, StatusOf
<1>10. ASSUME NEW c \in Requests,
            CancelNothing(c) \/ CancelAgain(c) \/ CancelQueued(c) \/
            CancelRunning(c) \/ CancelUpdate(c) \/ CancelSignal(c) \/
            CancelFails(c)
     PROVE  EventsMatchRow'
  <2>1. UNCHANGED <<events, row>>
    BY <1>10 DEF CancelNothing, CancelAgain, CancelQueued, CancelRunning,
         CancelUpdate, CancelSignal, CancelFails, CancelBackToIdle
  <2> QED
    BY <2>1 DEF TypeOK, EventsMatchRow, StatusOf
<1>11. CASE UNCHANGED vars
  BY <1>11 DEF vars, TypeOK, EventsMatchRow, StatusOf
<1> QED
  BY <1>1, <1>2, <1>3, <1>4, <1>5, <1>6, <1>7, <1>8, <1>9, <1>10, <1>11 DEF
       Next, SubmitStep, WorkerStep, ProcessStep, CancelStep

(* No step drops a run that has not ended and met no failure. *)
LEMMA CustodyStep ==
  ASSUME IInv, [Next]_vars
  PROVE  Custody'
<1> USE DEF IInv, submitVars, workerVars, cancelVars, history
<1>1. ASSUME NEW r \in Runs, SubmitCommit(r) PROVE Custody'
  BY <1>1 DEF SubmitCommit, TypeOK, Custody, InQueue, Held, Ended, StatusOf
<1>2. ASSUME NEW r \in Runs, SubmitEnqueue(r) PROVE Custody'
  <2>1. UNCHANGED <<row, interrupted, job>> /\ submit' = [submit EXCEPT ![r] = "done"]
    BY <1>2 DEF SubmitEnqueue
  <2>2. queue' = Append(queue, r) /\ queue \in Seq(Runs)
    BY <1>2 DEF SubmitEnqueue, TypeOK
  <2>3. \A x \in Runs : x = r \/ InQueue(x) => InQueue(x)'
    BY <2>2 DEF InQueue
  <2> QED
    BY <2>1, <2>3 DEF TypeOK, Custody, Held, Ended, StatusOf
<1>3. ASSUME NEW r \in Runs, SubmitFails(r) PROVE Custody'
  BY <1>3 DEF SubmitFails, TypeOK, Custody, InQueue, Held, Ended, StatusOf
<1>4. ASSUME NEW w \in Workers, Dequeue(w) PROVE Custody'
  <2>1. UNCHANGED <<row, interrupted, submit>> /\ job' = [job EXCEPT ![w] = Head(queue)]
    BY <1>4 DEF Dequeue
  <2>2. \A x \in Runs : InQueue(x) => x = Head(queue) \/ InQueue(x)'
    BY <1>4, PopKeeps DEF Dequeue
  <2>3. \A x \in Runs : Held(x) => Held(x)'
    BY <1>4, NoRunAssumption DEF Dequeue, HolderInv, TypeOK, Held
  <2>4. job'[w] = Head(queue)
    BY <2>1 DEF TypeOK
  <2> QED
    BY <2>1, <2>2, <2>3, <2>4 DEF TypeOK, Custody, Held, Ended, StatusOf
<1>5. ASSUME NEW w \in Workers, DequeueLost(w) PROVE Custody'
  <2>1. UNCHANGED <<row, job, submit>> /\ interrupted' = interrupted \union {Head(queue)}
    BY <1>5 DEF DequeueLost, workerVars
  <2>2. \A x \in Runs : InQueue(x) => x = Head(queue) \/ InQueue(x)'
    BY <1>5, PopKeeps DEF DequeueLost
  <2> QED
    BY <2>1, <2>2 DEF TypeOK, Custody, Held, Ended, StatusOf
<1>6. ASSUME NEW w \in Workers, ClaimSkip(w) PROVE Custody'
  <2>1. job[w] \in Runs /\ row[job[w]] \in Row
    BY <1>6, BusyWorker DEF ClaimSkip
  <2>2. StatusOf(job[w]) # "none"
    BY <2>1, NoRowAssumption DEF StatusOf, Row, Status
  <2>3. Ended(job[w])
    BY <1>6, <2>1, <2>2 DEF ClaimSkip, HolderInv, PhaseInv, ClaimSteps, Ended, Terminal
  <2> QED
    BY <1>6, <2>3, WorkerLeaves DEF ClaimSkip, BackToIdle
<1>7. ASSUME NEW w \in Workers, ClaimCommit(w) PROVE Custody'
  BY <1>7, BusyWorker DEF ClaimCommit, Goto, TypeOK, Custody, InQueue, Held,
       Ended, StatusOf
<1>8. ASSUME NEW w \in Workers, FinalRejected(w) PROVE Custody'
  <2>1. job[w] \in Runs /\ outcome[w] \in Terminal
    BY <1>8, BusyWorker DEF FinalRejected, WorkerInv, FinalSteps
  <2>2. StatusOf(job[w]) \in {"running", "cancelled"}
    BY <1>8, <2>1 DEF FinalRejected, HolderInv, PhaseInv, ClaimSteps
  <2>3. Ended(job[w])
    BY <1>8, <2>1, <2>2 DEF FinalRejected, MarkFrom, Ended, Terminal
  <2> QED
    BY <1>8, <2>3, WorkerLeaves DEF FinalRejected, BackToIdle
<1>9. ASSUME NEW w \in Workers, FinalCommit(w) PROVE Custody'
  BY <1>9, BusyWorker DEF FinalCommit, Goto, TypeOK, Custody, InQueue, Held,
       Ended, StatusOf
<1>10. ASSUME NEW w \in Workers, PublishOutcome(w) PROVE Custody'
  <2>1. job[w] \in Runs /\ finishes[job[w]] = 1
    BY <1>10, BusyWorker DEF PublishOutcome, HolderInv
  <2>2. Ended(job[w])
    BY <2>1 DEF PhaseInv, Ended
  <2> QED
    BY <1>10, <2>2, WorkerLeaves DEF PublishOutcome, BackToIdle
<1>11. ASSUME NEW w \in Workers, WorkerAbandons(w) PROVE Custody'
  <2>1. UNCHANGED <<row, submit, queue>> /\ job' = [job EXCEPT ![w] = NoRun]
    BY <1>11 DEF WorkerAbandons, BackToIdle
  <2>2. interrupted' = interrupted \union {job[w]}
    BY <1>11 DEF WorkerAbandons
  <2>3. \A x \in Runs : Held(x) => x = job[w] \/ Held(x)'
    BY <2>1 DEF TypeOK, Held
  <2> QED
    BY <2>1, <2>2, <2>3 DEF TypeOK, Custody, InQueue, Ended, StatusOf
<1>12. ASSUME NEW c \in Requests, CancelCommit(c) PROVE Custody'
  BY <1>12, CancelWrites, NoRowAssumption DEF CancelCommit, Terminal, TypeOK,
       Custody, InQueue, Held, Ended, StatusOf
<1>13. ASSUME NEW r \in Runs, SignalExpires(r) PROVE Custody'
  <2>1. UNCHANGED <<row, interrupted, submit, queue, job>>
    BY <1>13 DEF SignalExpires
  <2> QED
    BY <2>1 DEF TypeOK, Custody, InQueue, Held, Ended, StatusOf
<1>14. ASSUME NEW w \in Workers,
            ClaimGet(w) \/ ClaimUpdate(w) \/ AgentStep(w) \/ FinalGet(w) \/
            FinalUpdate(w)
     PROVE  Custody'
  <2>1. UNCHANGED <<row, interrupted, submit, queue, job>>
    BY <1>14 DEF ClaimGet, ClaimUpdate, AgentStep, AgentReturns, AgentRaises,
         AgentCancelled, AgentEnds, FinalGet, FinalUpdate, Goto
  <2> QED
    BY <2>1 DEF TypeOK, Custody, InQueue, Held, Ended, StatusOf
<1>15. ASSUME NEW c \in Requests, NEW r \in Runs, CancelArrives(c, r) PROVE Custody'
  <2>1. UNCHANGED <<row, interrupted, submit, queue, job>>
    BY <1>15 DEF CancelArrives
  <2> QED
    BY <2>1 DEF TypeOK, Custody, InQueue, Held, Ended, StatusOf
<1>16. ASSUME NEW c \in Requests,
            CancelNothing(c) \/ CancelAgain(c) \/ CancelQueued(c) \/
            CancelRunning(c) \/ CancelUpdate(c) \/ CancelSignal(c) \/
            CancelPublish(c) \/ CancelFails(c)
     PROVE  Custody'
  <2>1. UNCHANGED <<row, interrupted, submit, queue, job>>
    BY <1>16 DEF CancelNothing, CancelAgain, CancelQueued, CancelRunning,
         CancelUpdate, CancelSignal, CancelPublish, CancelFails,
         CancelBackToIdle
  <2> QED
    BY <2>1 DEF TypeOK, Custody, InQueue, Held, Ended, StatusOf
<1>17. CASE UNCHANGED vars
  BY <1>17 DEF vars, TypeOK, Custody, InQueue, Held, Ended, StatusOf
<1> QED
  BY <1>1, <1>2, <1>3, <1>4, <1>5, <1>6, <1>7, <1>8, <1>9, <1>10, <1>11,
       <1>12, <1>13, <1>14, <1>15, <1>16, <1>17 DEF Next, SubmitStep,
       WorkerStep, ProcessStep, CancelStep

-----------------------------------------------------------------------------
(* The invariant holds at first and is inductive. *)

(* The invariant holds before any run is submitted. *)
LEMMA InitInv == Init => IInv
<1> SUFFICES ASSUME Init PROVE IInv
  OBVIOUS
<1> USE DEF Init
<1>1. TypeOK
  BY DEF TypeOK, WorkerSteps, CancelSteps
<1>2. QueueInv /\ HolderInv
  BY DEF QueueInv, HolderInv
<1>3. PhaseInv /\ OutcomeConsistent
  BY DEF PhaseInv, OutcomeConsistent, StatusOf
<1>4. WorkerInv /\ CancelInv
  BY DEF WorkerInv, CancelInv, FinalSteps
<1>5. AnnouncedInv /\ EventsMatchRow /\ Custody
  BY DEF AnnouncedInv, EventsMatchRow, Custody
<1> QED
  BY <1>1, <1>2, <1>3, <1>4, <1>5 DEF IInv

(* Every step of a handler, worker or request keeps every part of it. *)
LEMMA NextInv == IInv /\ [Next]_vars => IInv'
  BY TypeStep, QueueStep, HolderStep, PhaseStep, OutcomeStep, WorkerStepInv,
     CancelStepInv, AnnouncedStep, EventsStep, CustodyStep DEF IInv

(* The inductive invariant holds in every reachable state. *)
THEOREM Invariance == Spec => []IInv
  BY InitInv, NextInv, PTL DEF Spec

(* The handlers and workers keep their variables within their types. *)
THEOREM TypeCorrect == Spec => []TypeOK
<1>1. IInv => TypeOK
  BY DEF IInv
<1> QED
  BY <1>1, Invariance, PTL

(* No run is claimed twice or finished twice, and no two workers hold it,  *)
(* whatever the cancel requests do and wherever a process fails.           *)
THEOREM ExecutedAtMostOnce == Spec => []AtMostOnce
<1>1. IInv => AtMostOnce
  BY DEF IInv, AtMostOnce, PhaseInv, HolderInv
<1> QED
  BY <1>1, Invariance, PTL

(* A run that exists, has not ended and met no failure is in the hands of  *)
(* its submit handler, of the list or of a worker.                         *)
THEOREM NoRunIsLost == Spec => []Custody
<1>1. IInv => Custody
  BY DEF IInv
<1> QED
  BY <1>1, Invariance, PTL

(* Concurrent partial flushes never leave columns that contradict the      *)
(* status of the row.                                                      *)
THEOREM ColumnsMatchStatus == Spec => []OutcomeConsistent
<1>1. IInv => OutcomeConsistent
  BY DEF IInv
<1> QED
  BY <1>1, Invariance, PTL

(* A done or error event is never contradicted by the other one, nor by a  *)
(* row that holds the other outcome.                                       *)
THEOREM AnnouncedOutcomeStands == Spec => []EventsMatchRow
<1>1. IInv => EventsMatchRow
  BY DEF IInv
<1> QED
  BY <1>1, Invariance, PTL

-----------------------------------------------------------------------------
(* RunPipeline implements RunLedger: three of its commits are steps of the *)
(* ledger, the cancel endpoint's is one or writes nothing, and no other    *)
(* action touches the status column or the counters.                       *)

StatusColumn == [r \in Runs |-> StatusOf(r)]

(* A write to one row changes one entry of the status column. *)
LEMMA WriteRow ==
  ASSUME TypeOK, NEW r \in Runs, NEW new \in Row, row' = [row EXCEPT ![r] = new]
  PROVE  StatusColumn' = [StatusColumn EXCEPT ![r] = new.status]
  BY NoRowAssumption DEF TypeOK, StatusColumn, StatusOf

(* An empty table is an empty ledger. *)
LEMMA LedgerInit == Init => Ledger!Init
  BY DEF Init, Ledger!Init, StatusOf

(* Every step of the pipeline is a step of the ledger or leaves it alone. *)
LEMMA LedgerNext ==
  ASSUME IInv, [Next]_vars
  PROVE  [Ledger!Next]_Ledger!ledger
<1> USE DEF submitVars, workerVars, cancelVars, history
<1>1. ASSUME NEW r \in Runs, SubmitCommit(r) PROVE Ledger!Create(r)
  <2>1. StatusColumn' = [StatusColumn EXCEPT ![r] = "queued"]
    BY <1>1, NewRunType, WriteRow DEF IInv, SubmitCommit, NewRun, Blank
  <2>2. StatusOf(r) = "none"
    BY <1>1 DEF IInv, PhaseInv, SubmitCommit, StatusOf
  <2> QED
    BY <1>1, <2>1, <2>2 DEF SubmitCommit, Ledger!Create, StatusColumn
<1>2. ASSUME NEW w \in Workers, ClaimCommit(w) PROVE Ledger!Start(job[w])
  <2>1. job[w] \in Runs /\ row[job[w]] \in Row
    BY <1>2, BusyWorker DEF ClaimCommit
  <2>2. StatusColumn' = [StatusColumn EXCEPT ![job[w]] = "running"]
    BY <1>2, <2>1, ClaimWrites, WriteRow DEF IInv, ClaimCommit
  <2>3. starts[job[w]] = 0
    BY <1>2 DEF IInv, HolderInv, ClaimCommit, ClaimSteps
  <2>4. StatusOf(job[w]) \in {"queued", "cancelled"}
    BY <2>1, <2>3, NoRowAssumption DEF IInv, PhaseInv, StatusOf, Row, Status
  <2> QED
    BY <1>2, <2>1, <2>2, <2>3, <2>4 DEF ClaimCommit, Ledger!Start, StatusColumn
<1>3. ASSUME NEW w \in Workers, FinalCommit(w)
      PROVE  \E s \in {"succeeded", "failed", "cancelled"} : Ledger!Finish(job[w], s)
  <2>1. job[w] \in Runs /\ outcome[w] \in Terminal
    BY <1>3, BusyWorker, FinalWrites DEF FinalCommit
  <2>2. StatusColumn' = [StatusColumn EXCEPT ![job[w]] = outcome[w]]
    BY <1>3, <2>1, FinalWrites, WriteRow DEF IInv, FinalCommit
  <2>3. starts[job[w]] = 1 /\ finishes[job[w]] = 0
    BY <1>3 DEF IInv, HolderInv, FinalCommit, ClaimSteps
  <2>4. StatusOf(job[w]) \in {"running", "cancelled"}
    BY <2>1, <2>3 DEF IInv, PhaseInv
  <2>5. Ledger!Finish(job[w], outcome[w])
    BY <1>3, <2>1, <2>2, <2>3, <2>4 DEF FinalCommit, Ledger!Finish, StatusColumn
  <2> QED
    BY <2>1, <2>5 DEF Terminal
<1>4. ASSUME NEW c \in Requests, CancelCommit(c)
      PROVE  Ledger!Cancel(target[c]) \/ UNCHANGED Ledger!ledger
  <2> DEFINE new == Flush(row[target[c]], corm[c], cobj[c])
  <2>1. /\ target[c] \in Runs /\ row[target[c]] \in Row /\ new \in Row
        /\ new.status = "cancelled" \/ new = row[target[c]]
    BY <1>4, CancelWrites DEF CancelCommit
  <2>2. StatusColumn' = [StatusColumn EXCEPT ![target[c]] = new.status]
    BY <1>4, <2>1, WriteRow DEF IInv, CancelCommit
  <2>3. StatusOf(target[c]) = row[target[c]].status /\ row[target[c]].status # "none"
    BY <2>1, NoRowAssumption DEF StatusOf, Row, Status
  <2>4. UNCHANGED <<starts, finishes>>
    BY <1>4 DEF CancelCommit
  <2> HIDE DEF new
  <2>5. CASE new.status = StatusOf(target[c])
    <3>1. StatusColumn' = StatusColumn
      BY <2>1, <2>2, <2>5 DEF StatusColumn
    <3> QED
      BY <2>4, <3>1 DEF Ledger!ledger, StatusColumn
  <2>6. CASE new.status # StatusOf(target[c])
    <3>1. new.status = "cancelled"
      BY <2>1, <2>3, <2>6
    <3> QED
      BY <2>1, <2>2, <2>3, <2>4, <2>6, <3>1 DEF Ledger!Cancel, StatusColumn
  <2> QED
    BY <2>5, <2>6
<1>5. ASSUME UNCHANGED <<row, starts, finishes>> PROVE UNCHANGED Ledger!ledger
  BY <1>5 DEF Ledger!ledger, StatusOf
<1>6. ASSUME NEW r \in Runs, SubmitEnqueue(r) \/ SubmitFails(r) \/ SignalExpires(r)
      PROVE  UNCHANGED <<row, starts, finishes>>
  BY <1>6 DEF SubmitEnqueue, SubmitFails, SignalExpires
<1>7. ASSUME NEW w \in Workers,
             \/ Dequeue(w) \/ DequeueLost(w) \/ ClaimSkip(w) \/ ClaimGet(w)
             \/ ClaimUpdate(w) \/ AgentStep(w) \/ FinalGet(w) \/ FinalRejected(w)
             \/ FinalUpdate(w) \/ PublishOutcome(w) \/ WorkerAbandons(w)
      PROVE  UNCHANGED <<row, starts, finishes>>
  BY <1>7 DEF Dequeue, DequeueLost, ClaimSkip, ClaimGet, ClaimUpdate, AgentStep,
       AgentReturns, AgentRaises, AgentCancelled, AgentEnds, FinalGet,
       FinalRejected, FinalUpdate, PublishOutcome, WorkerAbandons
<1>8. ASSUME NEW c \in Requests,
             \/ \E r \in Runs : CancelArrives(c, r)
             \/ CancelNothing(c) \/ CancelAgain(c) \/ CancelQueued(c)
             \/ CancelRunning(c) \/ CancelUpdate(c) \/ CancelSignal(c)
             \/ CancelPublish(c) \/ CancelFails(c)
      PROVE  UNCHANGED <<row, starts, finishes>>
  BY <1>8 DEF CancelArrives, CancelNothing, CancelAgain, CancelQueued, CancelRunning,
       CancelUpdate, CancelSignal, CancelPublish, CancelFails
<1>9. ASSUME NEW w \in Workers, WorkerStep(w) PROVE [Ledger!Next]_Ledger!ledger
  <2>1. job[w] \in Runs \/ wpc[w] = "idle"
    BY BusyWorker
  <2>2. CASE ClaimCommit(w)
    BY <1>2, <2>1, <2>2 DEF ClaimCommit, Ledger!Next
  <2>3. CASE FinalCommit(w)
    BY <1>3, <2>1, <2>3 DEF FinalCommit, Ledger!Next
  <2> QED
    BY <1>5, <1>7, <1>9, <2>2, <2>3 DEF WorkerStep, ProcessStep
<1>10. ASSUME NEW c \in Requests,
              CancelStep(c) \/ CancelFails(c) \/ \E r \in Runs : CancelArrives(c, r)
       PROVE  [Ledger!Next]_Ledger!ledger
  <2>1. CASE CancelCommit(c)
    BY <1>4, <2>1, CancelWrites DEF CancelCommit, Ledger!Next
  <2> QED
    BY <1>5, <1>8, <1>10, <2>1 DEF CancelStep
<1>11. ASSUME NEW r \in Runs, SubmitStep(r) \/ SignalExpires(r)
       PROVE  [Ledger!Next]_Ledger!ledger
  BY <1>1, <1>5, <1>6, <1>11 DEF SubmitStep, Ledger!Next
<1>12. CASE UNCHANGED vars
  BY <1>5, <1>12 DEF vars
<1> QED
  BY <1>9, <1>10, <1>11, <1>12 DEF Next

(* The pipeline implements the ledger: whatever the interleaving and       *)
(* whatever fails, the status of a run, its claims and its outcomes change *)
(* only in the ways the abstract specification allows.                     *)
THEOREM PipelineImplementsLedger == Spec => ImplementsLedger
  BY LedgerInit, LedgerNext, Invariance, PTL DEF Spec, ImplementsLedger, Ledger!Spec

(* What stands of a terminal status where TerminalStands fails: a success  *)
(* or a failure is replaced by nothing but a late cancellation, neither by *)
(* another outcome nor by a claim (run_service.cancel_run, worker.py:134). *)
OutcomeStands ==
  [][\A r \in Runs : StatusOf(r) \in {"succeeded", "failed"} =>
        StatusOf(r)' \in {StatusOf(r), "cancelled"}]_vars

(* An outcome in the table is replaced by a cancellation at most. *)
THEOREM OnlyCancelReplacesOutcome == Spec => OutcomeStands
<1>1. ASSUME IInv, [Next]_vars, NEW r \in Runs, StatusOf(r) \in {"succeeded", "failed"}
      PROVE  StatusOf(r)' \in {StatusOf(r), "cancelled"}
  <2>1. [Ledger!Next]_Ledger!ledger
    BY <1>1, LedgerNext
  <2>2. CASE UNCHANGED Ledger!ledger
    <3>1. StatusColumn' = StatusColumn
      BY <2>2 DEF Ledger!ledger, StatusColumn
    <3>2. StatusColumn[r] = StatusOf(r) /\ StatusColumn'[r] = StatusOf(r)'
      BY DEF StatusColumn
    <3> QED
      BY <3>1, <3>2
  <2>3. ASSUME NEW x \in Runs,
               Ledger!Create(x) \/ Ledger!Start(x) \/ Ledger!Cancel(x)
                 \/ \E s \in {"succeeded", "failed", "cancelled"} : Ledger!Finish(x, s)
        PROVE  StatusOf(r)' \in {StatusOf(r), "cancelled"}
    <3>1. StatusColumn[r] = StatusOf(r) /\ StatusColumn'[r] = StatusOf(r)'
      BY DEF StatusColumn
    <3>2. PICK s : StatusColumn' = [StatusColumn EXCEPT ![x] = s] /\ (x = r => s = "cancelled")
      BY <1>1, <2>3, <3>1
      DEF StatusColumn, Ledger!Create, Ledger!Start, Ledger!Cancel, Ledger!Finish
    <3>3. StatusColumn'[r] = IF x = r THEN s ELSE StatusColumn[r]
      BY <3>2 DEF StatusColumn
    <3> QED
      BY <3>1, <3>2, <3>3
  <2> QED
    BY <2>1, <2>2, <2>3 DEF Ledger!Next
<1> DEFINE Stands == \A r \in Runs : StatusOf(r) \in {"succeeded", "failed"} =>
                        StatusOf(r)' \in {StatusOf(r), "cancelled"}
<1>2. IInv /\ [Next]_vars => [Stands]_vars
  BY <1>1
<1>3. OutcomeStands <=> [][Stands]_vars
  BY DEF OutcomeStands
<1> HIDE DEF Stands
<1> QED
  BY <1>2, <1>3, Invariance, PTL DEF Spec
=============================================================================
