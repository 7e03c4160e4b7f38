--------------------------- MODULE RunResendProofs ---------------------------
(***************************************************************************)
(* What a duplicate id can and cannot do, for any runs, workers and cancel *)
(* requests: harm needs two workers between the SELECT and the COMMIT of a *)
(* claim of the same run.                                                  *)
(***************************************************************************)
EXTENDS RunResend, RunPipelineProofs

-----------------------------------------------------------------------------
(* The invariant *)

(* Holds for every run, raced or not: who is where, and that a transaction *)
(* in flight has rows in hand.                                             *)
HandsInv ==
    /\ \A r \in Runs : row[r] = NoRow <=> submit[r] = "new"
    /\ \A w \in Workers :
          /\ wpc[w] = "idle" <=> job[w] = NoRun
          /\ wpc[w] \notin {"idle", "claim_get"} => row[job[w]] # NoRow
          /\ wpc[w] \in {"claim_update", "claim_commit", "final_update", "final_commit"} =>
                wobj[w] \in Row /\ worm[w] \in Row
          /\ wpc[w] \in FinalSteps \union {"publish"} => outcome[w] \in Terminal
    /\ \A c \in Requests :
          /\ cpc[c] # "idle" => target[c] \in Runs
          /\ cpc[c] \in {"update", "commit", "signal", "publish"} => cobj[c] \in Row
          /\ cpc[c] \in {"update", "commit"} => corm[c] \in Row /\ row[target[c]] # NoRow

(* A run pushed once is in the list or in the hands of one worker. *)
Once(r) ==
    /\ \A i, j \in 1..Len(queue) : queue[i] = r /\ queue[j] = r => i = j
    /\ InQueue(r) \/ Held(r) => submit[r] = "done"
    /\ ~(InQueue(r) /\ Held(r))
    /\ \A v, w \in Workers : job[v] = r /\ job[w] = r => v = w

(* Worker w has found run r queued and has not let go of it. *)
Engaged(w, r) == job[w] = r /\ wpc[w] \notin {"idle", "claim_get"}

(* How often a run was claimed and finished confines its row. *)
CountsInv(r) ==
    /\ starts[r] \in {0, 1} /\ finishes[r] \in {0, 1}
    /\ starts[r] = 0 => finishes[r] = 0 /\ StatusOf(r) \in {"none", "queued", "cancelled"}
    /\ starts[r] = 1 /\ finishes[r] = 0 => StatusOf(r) \in {"running", "cancelled"}
    /\ finishes[r] = 1 => StatusOf(r) \in Terminal
    /\ row[r] # NoRow => ColumnsAgree(row[r]) /\ (finishes[r] = 0 => NoColumns(row[r]))

(* One worker at most is past the status test of the claim; where it       *)
(* stands tells the counters and what it is about to write.                *)
EngagedInv(r) ==
    /\ \A v, w \in Workers : Engaged(v, r) /\ Engaged(w, r) => v = w
    /\ \A w \in Workers : Engaged(w, r) =>
          /\ starts[r] = IF wpc[w] \in ClaimSteps THEN 0 ELSE 1
          /\ finishes[r] = IF wpc[w] = "publish" THEN 1 ELSE 0
          /\ wpc[w] \in {"claim_update", "claim_commit"} =>
                /\ wobj[w] = Blank("running") /\ NoColumns(worm[w])
                /\ worm[w].status \in {"queued", "cancelled"}
          /\ wpc[w] \in {"final_update", "final_commit"} =>
                /\ wobj[w] = RecordMetrics(Mark(Blank("running"), outcome[w]))
                /\ NoColumns(worm[w]) /\ worm[w].status \in {"running", "cancelled"}
                /\ worm[w].status = "cancelled" => StatusOf(r) = "cancelled"
          /\ wpc[w] = "publish" => StatusOf(r) \in {outcome[w], "cancelled"}

(* A cancel request about to write. *)
Writing(c, r) == target[c] = r /\ cpc[c] \in {"update", "commit"}

LateCancelInv(r) ==
    \A c \in Requests : Writing(c, r) =>
        /\ cobj[c] = Blank("cancelled")
        /\ corm[c].status = "cancelled" /\ ~NoColumns(corm[c]) =>
              StatusOf(r) = "cancelled" /\ finishes[r] = 1

(* A run whose outcome was announced has left its worker. *)
ShownInv(r) ==
    /\ {"done", "error"} \intersect events[r] # {} =>
          finishes[r] = 1 /\ \A w \in Workers : ~Engaged(w, r)
    /\ ~({"done", "error"} \subseteq events[r])
    /\ "done" \in events[r]  => StatusOf(r) \in {"succeeded", "cancelled"}
    /\ "error" \in events[r] => StatusOf(r) \in {"failed", "cancelled"}

Calm(r) == CountsInv(r) /\ EngagedInv(r) /\ LateCancelInv(r) /\ ShownInv(r)

(* What resending a command does is confined to the runs whose id was      *)
(* pushed twice, and to those of them that two workers claimed at once.    *)
ResendInv ==
    /\ TypeOK /\ HandsInv
    /\ raced \subseteq resent /\ resent \subseteq Runs
    /\ \A r \in Runs \ resent : Once(r)
    /\ \A r \in Runs \ raced : Calm(r)

-----------------------------------------------------------------------------
(* Types, and what is in hand *)

LEMMA FlushType ==
  ASSUME NEW stored \in Row, NEW loaded \in Row, NEW run \in Row
  PROVE  Flush(stored, loaded, run) \in Row
  BY DEF Flush, Column, Row

(* A worker past the test of the claim holds a run with a row, and so does *)
(* a cancel request about to write.                                        *)
LEMMA RowsInHand ==
  ASSUME TypeOK, HandsInv
  PROVE  /\ \A w \in Workers : wpc[w] # "idle" => job[w] \in Runs
         /\ \A w \in Workers : wpc[w] \notin {"idle", "claim_get"} => row[job[w]] \in Row
         /\ \A c \in Requests : cpc[c] \in {"update", "commit"} => row[target[c]] \in Row
         /\ \A r \in Runs : StatusOf(r) # "none" => row[r] \in Row /\ StatusOf(r) = row[r].status
  BY DEF TypeOK, HandsInv, StatusOf

LEMMA WorkerTypes ==
  ASSUME TypeOK, HandsInv, NEW w \in Workers, WorkerStep(w)
  PROVE  TypeOK'
<1> USE DEF submitVars, workerVars, cancelVars, history
<1>1. CASE Dequeue(w)
  BY <1>1 DEF Dequeue, Goto, TypeOK, WorkerSteps, ClaimSteps
<1>2. CASE DequeueLost(w)
  BY <1>2 DEF DequeueLost, TypeOK
<1>3. CASE ClaimSkip(w) \/ FinalRejected(w)
  BY <1>3 DEF ClaimSkip, FinalRejected, BackToIdle, TypeOK, WorkerSteps
<1>4. CASE ClaimGet(w)
  <2>1. row[job[w]] \in Row
    BY <1>4, RowsInHand DEF ClaimGet
  <2>2. Mark(row[job[w]], "running") \in Row
    BY <2>1, MarkType DEF Status
  <2> QED
    BY <1>4, <2>1, <2>2 DEF ClaimGet, Goto, TypeOK, WorkerSteps, ClaimSteps
<1>5. CASE ClaimUpdate(w)
  BY <1>5, RowsInHand DEF ClaimUpdate, Goto, TypeOK, WorkerSteps, ClaimSteps
<1>6. CASE ClaimCommit(w)
  <2>1. job[w] \in Runs /\ Flush(row[job[w]], worm[w], wobj[w]) \in Row
    BY <1>6, RowsInHand, FlushType DEF ClaimCommit, HandsInv
  <2> QED
    BY <1>6, <2>1 DEF ClaimCommit, Goto, TypeOK, WorkerSteps
<1>7. CASE AgentStep(w)
  <2>1. PICK s \in Terminal : AgentEnds(w, s)
    BY <1>7 DEF AgentStep, AgentReturns, AgentRaises, AgentCancelled, Terminal
  <2> QED
    BY <2>1 DEF AgentEnds, Goto, TypeOK, WorkerSteps, FinalSteps
<1>8. CASE FinalGet(w)
  <2>1. row[job[w]] \in Row
    BY <1>8, RowsInHand DEF FinalGet
  <2>2. outcome[w] \in Status
    BY <1>8 DEF FinalGet, HandsInv, FinalSteps, Terminal, Status
  <2>3. RecordMetrics(Mark(row[job[w]], outcome[w])) \in Row
    BY <2>1, <2>2, MarkType
  <2> QED
    BY <1>8, <2>1, <2>3 DEF FinalGet, Goto, TypeOK, WorkerSteps, FinalSteps
<1>9. CASE FinalUpdate(w)
  BY <1>9, RowsInHand DEF FinalUpdate, Goto, TypeOK, WorkerSteps, FinalSteps
<1>10. CASE FinalCommit(w)
  <2>1. job[w] \in Runs /\ Flush(row[job[w]], worm[w], wobj[w]) \in Row
    BY <1>10, RowsInHand, FlushType DEF FinalCommit, HandsInv
  <2> QED
    BY <1>10, <2>1 DEF FinalCommit, Goto, TypeOK, WorkerSteps
<1>11. CASE PublishOutcome(w)
  <2>1. job[w] \in Runs
    BY <1>11, RowsInHand DEF PublishOutcome
  <2>2. Event[outcome[w]] \in {"done", "error", "cancelled"}
    BY <1>11 DEF PublishOutcome, HandsInv, Terminal, Event
  <2> QED
    BY <1>11, <2>1, <2>2 DEF PublishOutcome, BackToIdle, TypeOK, WorkerSteps
<1>12. CASE WorkerAbandons(w)
  BY <1>12, RowsInHand DEF WorkerAbandons, BackToIdle, TypeOK, WorkerSteps
<1> QED
  BY <1>1, <1>2, <1>3, <1>4, <1>5, <1>6, <1>7, <1>8, <1>9, <1>10, <1>11, <1>12
  DEF WorkerStep, ProcessStep

LEMMA CancelTypes ==
  ASSUME TypeOK, HandsInv, NEW c \in Requests,
         (\E r \in Runs : CancelArrives(c, r)) \/ CancelStep(c) \/ CancelFails(c)
  PROVE  TypeOK'
<1> USE DEF submitVars, workerVars, cancelVars, history
<1>1. CASE \E r \in Runs : CancelArrives(c, r)
  BY <1>1 DEF CancelArrives, TypeOK, CancelSteps
<1>2. CASE CancelNothing(c) \/ CancelFails(c)
  BY <1>2 DEF CancelNothing, CancelFails, CancelBackToIdle, TypeOK, CancelSteps
<1>3. CASE CancelAgain(c)
  BY <1>3 DEF CancelAgain, HandsInv, TypeOK, CancelSteps
<1>9. CASE CancelRunning(c)
  BY <1>9 DEF CancelRunning, HandsInv, TypeOK, CancelSteps
<1>4. CASE CancelQueued(c)
  <2>1. target[c] \in Runs /\ row[target[c]] \in Row
    BY <1>4, RowsInHand DEF CancelQueued, HandsInv
  <2>2. Mark(row[target[c]], "cancelled") \in Row
    BY <2>1, MarkType DEF Status
  <2> QED
    BY <1>4, <2>1, <2>2 DEF CancelQueued, TypeOK, CancelSteps
<1>5. CASE CancelUpdate(c)
  BY <1>5, RowsInHand DEF CancelUpdate, TypeOK, CancelSteps
<1>6. CASE CancelCommit(c)
  <2>1. target[c] \in Runs /\ Flush(row[target[c]], corm[c], cobj[c]) \in Row
    BY <1>6, RowsInHand, FlushType DEF CancelCommit, HandsInv
  <2> QED
    BY <1>6, <2>1 DEF CancelCommit, TypeOK, CancelSteps
<1>7. CASE CancelSignal(c)
  <2>1. target[c] \in Runs
    BY <1>7 DEF CancelSignal, HandsInv
  <2>2. CASE cobj[c].status = "cancelled"
    BY <1>7, <2>1, <2>2 DEF CancelSignal, TypeOK, CancelSteps
  <2>3. CASE cobj[c].status # "cancelled"
    BY <1>7, <2>1, <2>3 DEF CancelSignal, CancelBackToIdle, TypeOK, CancelSteps
  <2> QED
    BY <2>2, <2>3
<1>8. CASE CancelPublish(c)
  BY <1>8 DEF CancelPublish, CancelBackToIdle, HandsInv, TypeOK, CancelSteps
<1> QED
  BY <1>1, <1>2, <1>3, <1>4, <1>5, <1>6, <1>7, <1>8, <1>9 DEF CancelStep

LEMMA TypesKept ==
  ASSUME TypeOK, HandsInv, Next
  PROVE  TypeOK'
<1> USE DEF submitVars, workerVars, cancelVars, history
<1>1. ASSUME NEW r \in Runs, SubmitCommit(r) PROVE TypeOK'
  BY <1>1, NewRunType DEF SubmitCommit, TypeOK
<1>2. ASSUME NEW r \in Runs, SubmitEnqueue(r) PROVE TypeOK'
  BY <1>2 DEF SubmitEnqueue, TypeOK
<1>3. ASSUME NEW r \in Runs, SubmitFails(r) PROVE TypeOK'
  BY <1>3 DEF SubmitFails, TypeOK
<1>4. ASSUME NEW r \in Runs, SignalExpires(r) PROVE TypeOK'
  BY <1>4 DEF SignalExpires, TypeOK
<1> QED
  BY <1>1, <1>2, <1>3, <1>4, WorkerTypes, CancelTypes DEF Next, SubmitStep

(* Rows stay; whoever is in a transaction has rows in hand. *)
LEMMA WorkerHands ==
  ASSUME TypeOK, HandsInv, TypeOK', NEW w \in Workers, WorkerStep(w)
  PROVE  HandsInv'
<1> USE DEF submitVars, workerVars, cancelVars, history
<1>1. CASE Dequeue(w)
  BY <1>1, NoRunAssumption DEF Dequeue, Goto, TypeOK, HandsInv, FinalSteps
<1>2. CASE DequeueLost(w)
  BY <1>2 DEF DequeueLost, HandsInv
<1>3. CASE ClaimSkip(w) \/ FinalRejected(w) \/ WorkerAbandons(w) \/ PublishOutcome(w)
  <2>1. BackToIdle(w) /\ UNCHANGED <<row, submit, cpc, target, cobj, corm>>
    BY <1>3 DEF ClaimSkip, FinalRejected, WorkerAbandons, PublishOutcome
  <2> QED
    BY <2>1 DEF BackToIdle, TypeOK, HandsInv, FinalSteps
<1>4. CASE ClaimGet(w)
  <2>1. job[w] \in Runs /\ row[job[w]] \in Row /\ row[job[w]] # NoRow
    BY <1>4, RowsInHand, NoRowAssumption DEF ClaimGet
  <2>2. Mark(row[job[w]], "running") \in Row
    BY <2>1, MarkType DEF Status
  <2> QED
    BY <1>4, <2>1, <2>2 DEF ClaimGet, Goto, TypeOK, HandsInv, FinalSteps
<1>5. CASE ClaimUpdate(w)
  BY <1>5, RowsInHand DEF ClaimUpdate, Goto, TypeOK, HandsInv, FinalSteps
<1>6. CASE ClaimCommit(w)
  <2>1. PICK new \in Row : row' = [row EXCEPT ![job[w]] = new]
    BY <1>6, RowsInHand, FlushType DEF ClaimCommit, HandsInv
  <2>2. new # NoRow /\ job[w] \in Runs
    BY <1>6, <2>1, RowsInHand, NoRowAssumption DEF ClaimCommit
  <2>3. /\ wpc[w] = "claim_commit" /\ wpc' = [wpc EXCEPT ![w] = "execute"]
        /\ wobj' = [wobj EXCEPT ![w] = NoRow] /\ worm' = [worm EXCEPT ![w] = NoRow]
        /\ UNCHANGED <<submit, job, outcome, cpc, target, cobj, corm>>
    BY <1>6 DEF ClaimCommit, Goto
  <2> QED
    BY <2>1, <2>2, <2>3 DEF TypeOK, HandsInv, FinalSteps
<1>7. CASE AgentStep(w)
  <2>1. PICK s \in Terminal : AgentEnds(w, s)
    BY <1>7 DEF AgentStep, AgentReturns, AgentRaises, AgentCancelled, Terminal
  <2> QED
    BY <2>1 DEF AgentEnds, Goto, TypeOK, HandsInv, FinalSteps
<1>8. CASE FinalGet(w)
  <2>1. row[job[w]] \in Row
    BY <1>8, RowsInHand DEF FinalGet
  <2>2. outcome[w] \in Terminal /\ outcome[w] \in Status
    BY <1>8 DEF FinalGet, HandsInv, FinalSteps, Terminal, Status
  <2>3. RecordMetrics(Mark(row[job[w]], outcome[w])) \in Row
    BY <2>1, <2>2, MarkType
  <2> QED
    BY <1>8, <2>1, <2>2, <2>3 DEF FinalGet, Goto, TypeOK, HandsInv, FinalSteps
<1>9. CASE FinalUpdate(w)
  BY <1>9, RowsInHand DEF FinalUpdate, Goto, TypeOK, HandsInv, FinalSteps
<1>10. CASE FinalCommit(w)
  <2>1. PICK new \in Row : row' = [row EXCEPT ![job[w]] = new]
    BY <1>10, RowsInHand, FlushType DEF FinalCommit, HandsInv
  <2>2. new # NoRow /\ job[w] \in Runs
    BY <1>10, <2>1, RowsInHand, NoRowAssumption DEF FinalCommit
  <2>3. /\ wpc[w] = "final_commit" /\ wpc' = [wpc EXCEPT ![w] = "publish"]
        /\ wobj' = [wobj EXCEPT ![w] = NoRow] /\ worm' = [worm EXCEPT ![w] = NoRow]
        /\ UNCHANGED <<submit, job, outcome, cpc, target, cobj, corm>>
    BY <1>10 DEF FinalCommit, Goto
  <2> QED
    BY <2>1, <2>2, <2>3 DEF TypeOK, HandsInv, FinalSteps
<1> QED
  BY <1>1, <1>2, <1>3, <1>4, <1>5, <1>6, <1>7, <1>8, <1>9, <1>10
  DEF WorkerStep, ProcessStep

LEMMA CancelHands ==
  ASSUME TypeOK, HandsInv, TypeOK', NEW c \in Requests,
         (\E r \in Runs : CancelArrives(c, r)) \/ CancelStep(c) \/ CancelFails(c)
  PROVE  HandsInv'
<1> USE DEF submitVars, workerVars, cancelVars, history
<1>1. CASE \E r \in Runs : CancelArrives(c, r)
  BY <1>1 DEF CancelArrives, TypeOK, HandsInv
<1>2. CASE CancelNothing(c) \/ CancelFails(c) \/ CancelPublish(c)
  <2>1. CancelBackToIdle(c) /\ UNCHANGED <<row, submit, wpc, job, wobj, worm, outcome>>
    BY <1>2 DEF CancelNothing, CancelFails, CancelPublish
  <2> QED
    BY <2>1 DEF CancelBackToIdle, TypeOK, HandsInv
<1>3. CASE CancelAgain(c)
  BY <1>3, RowsInHand DEF CancelAgain, TypeOK, HandsInv
<1>4. CASE CancelRunning(c)
  BY <1>4, RowsInHand DEF CancelRunning, TypeOK, HandsInv
<1>5. CASE CancelQueued(c)
  <2>1. target[c] \in Runs /\ row[target[c]] \in Row /\ row[target[c]] # NoRow
    BY <1>5, RowsInHand, NoRowAssumption DEF CancelQueued, HandsInv
  <2>2. Mark(row[target[c]], "cancelled") \in Row
    BY <2>1, MarkType DEF Status
  <2> QED
    BY <1>5, <2>1, <2>2 DEF CancelQueued, TypeOK, HandsInv
<1>6. CASE CancelUpdate(c)
  BY <1>6, RowsInHand DEF CancelUpdate, TypeOK, HandsInv
<1>7. CASE CancelCommit(c)
  <2>1. PICK new \in Row : row' = [row EXCEPT ![target[c]] = new]
    BY <1>7, RowsInHand, FlushType DEF CancelCommit, HandsInv
  <2>2. new # NoRow /\ target[c] \in Runs
    BY <1>7, <2>1, NoRowAssumption DEF CancelCommit, HandsInv
  <2>3. /\ cpc[c] = "commit" /\ cpc' = [cpc EXCEPT ![c] = "signal"] /\ corm' = [corm EXCEPT ![c] = NoRow]
        /\ UNCHANGED <<submit, wpc, job, wobj, worm, outcome, target, cobj>>
    BY <1>7 DEF CancelCommit
  <2> QED
    BY <2>1, <2>2, <2>3 DEF TypeOK, HandsInv
<1>8. CASE CancelSignal(c)
  <2>1. CASE cobj[c].status = "cancelled"
    BY <1>8, <2>1 DEF CancelSignal, TypeOK, HandsInv
  <2>2. CASE cobj[c].status # "cancelled"
    BY <1>8, <2>2 DEF CancelSignal, CancelBackToIdle, TypeOK, HandsInv
  <2> QED
    BY <2>1, <2>2
<1> QED
  BY <1>1, <1>2, <1>3, <1>4, <1>5, <1>6, <1>7, <1>8 DEF CancelStep

LEMMA HandsKept ==
  ASSUME TypeOK, HandsInv, TypeOK', Next
  PROVE  HandsInv'
<1> USE DEF submitVars, workerVars, cancelVars, history
<1>1. ASSUME NEW r \in Runs, SubmitCommit(r) PROVE HandsInv'
  <2>1. NewRun # NoRow
    BY NewRunType, NoRowAssumption
  <2>2. /\ row' = [row EXCEPT ![r] = NewRun] /\ submit' = [submit EXCEPT ![r] = "committed"]
        /\ UNCHANGED <<wpc, job, wobj, worm, outcome, cpc, target, cobj, corm>>
    BY <1>1 DEF SubmitCommit
  <2>3. \A x \in Runs : row[x] # NoRow => row'[x] # NoRow
    BY <2>1, <2>2 DEF TypeOK
  <2> QED
    BY <2>1, <2>2, <2>3, RowsInHand DEF TypeOK, HandsInv
<1>2. ASSUME NEW r \in Runs, SubmitEnqueue(r) \/ SubmitFails(r) PROVE HandsInv'
  <2>1. /\ submit[r] = "committed" /\ submit' \in {[submit EXCEPT ![r] = "done"], [submit EXCEPT ![r] = "failed"]}
        /\ UNCHANGED <<row, wpc, job, wobj, worm, outcome, cpc, target, cobj, corm>>
    BY <1>2 DEF SubmitEnqueue, SubmitFails
  <2> QED
    BY <2>1 DEF TypeOK, HandsInv
<1>3. ASSUME NEW r \in Runs, SignalExpires(r) PROVE HandsInv'
  BY <1>3 DEF SignalExpires, HandsInv
<1> QED
  BY <1>1, <1>2, <1>3, WorkerHands, CancelHands DEF Next, SubmitStep

-----------------------------------------------------------------------------
(* A run pushed once is in one place *)

(* What a list holds after a pop and after a push. *)
LEMMA TailAt ==
  ASSUME NEW S, NEW s \in Seq(S), s # << >>
  PROVE  /\ s[1] = Head(s) /\ 1 \in 1..Len(s)
         /\ \A i \in 1..Len(Tail(s)) : i + 1 \in 1..Len(s) /\ i + 1 # 1 /\ Tail(s)[i] = s[i + 1]
         /\ \A i, j \in 1..Len(Tail(s)) : i + 1 = j + 1 => i = j
  OBVIOUS

LEMMA AppendAt ==
  ASSUME NEW S, NEW s \in Seq(S), NEW x \in S
  PROVE  /\ Len(s) \in Nat /\ Len(Append(s, x)) = Len(s) + 1
         /\ \A i \in 1..(Len(s) + 1) :
               Append(s, x)[i] = IF i = Len(s) + 1 THEN x ELSE s[i]
         /\ \A i \in 1..(Len(s) + 1) : i # Len(s) + 1 => i \in 1..Len(s)
  OBVIOUS

(* Whoever lets go of a run, or takes none, leaves the others in place. *)
LEMMA OnceLetGo ==
  ASSUME TypeOK, NEW r \in Runs, Once(r), queue' = queue,
         submit[r] = "done" => submit'[r] = "done",
         \A w \in Workers : job'[w] \in {job[w], NoRun}
  PROVE  Once(r)'
  BY NoRunAssumption DEF Once, InQueue, Held

LEMMA OncePushed ==
  ASSUME TypeOK, NEW r \in Runs, Once(r), NEW x \in Runs,
         queue' = Append(queue, x), job' = job,
         submit[r] = "done" => submit'[r] = "done",
         x = r => ~InQueue(r) /\ ~Held(r) /\ submit'[r] = "done"
  PROVE  Once(r)'
<1>1. /\ Len(queue) \in Nat /\ Len(queue') = Len(queue) + 1
      /\ \A i \in 1..(Len(queue) + 1) : queue'[i] = IF i = Len(queue) + 1 THEN x ELSE queue[i]
      /\ \A i \in 1..(Len(queue) + 1) : i # Len(queue) + 1 => i \in 1..Len(queue)
  BY AppendAt DEF TypeOK
<1>2. InQueue(r)' => x = r \/ InQueue(r)
  <2>1. DOMAIN queue = 1..Len(queue) /\ DOMAIN queue' = 1..Len(queue')
    BY DEF TypeOK
  <2> QED
    BY <1>1, <2>1 DEF InQueue
<1>3. Held(r)' <=> Held(r)
  BY DEF Held
<1>4. ASSUME NEW i \in 1..Len(queue'), NEW j \in 1..Len(queue'), queue'[i] = r, queue'[j] = r
      PROVE  i = j
  <2>1. CASE x = r
    <3>1. \A k \in 1..Len(queue) : queue[k] # r
      BY <2>1 DEF InQueue, TypeOK
    <3> QED
      BY <1>1, <1>4, <2>1, <3>1
  <2>2. CASE x # r
    BY <1>1, <1>4, <2>2 DEF Once
  <2> QED
    BY <2>1, <2>2
<1> QED
  BY <1>2, <1>3, <1>4 DEF Once

LEMMA OncePopped ==
  ASSUME TypeOK, NEW r \in Runs, Once(r), queue # << >>, queue' = Tail(queue),
         submit' = submit,
         \/ job' = job
         \/ \E w \in Workers : job[w] = NoRun /\ job' = [job EXCEPT ![w] = Head(queue)]
  PROVE  Once(r)'
<1>1. /\ queue[1] = Head(queue) /\ 1 \in 1..Len(queue)
      /\ \A i \in 1..Len(queue') : i + 1 \in 1..Len(queue) /\ i + 1 # 1 /\ queue'[i] = queue[i + 1]
      /\ \A i, j \in 1..Len(queue') : i + 1 = j + 1 => i = j
  BY TailAt DEF TypeOK
<1>2. DOMAIN queue = 1..Len(queue) /\ DOMAIN queue' = 1..Len(queue')
  BY DEF TypeOK
<1>3. InQueue(r)' => InQueue(r)
  BY <1>1, <1>2 DEF InQueue
<1>4. Head(queue) = r => InQueue(r) /\ ~Held(r) /\ ~InQueue(r)'
  BY <1>1, <1>2 DEF InQueue, Once
<1>5. ASSUME NEW i \in 1..Len(queue'), NEW j \in 1..Len(queue'), queue'[i] = r, queue'[j] = r
      PROVE  i = j
  BY <1>1, <1>5 DEF Once
<1>6. CASE job' = job
  <2>1. Held(r)' <=> Held(r)
    BY <1>6 DEF Held
  <2> QED
    BY <1>3, <1>5, <1>6, <2>1 DEF Once
<1>7. ASSUME NEW w \in Workers, job[w] = NoRun, job' = [job EXCEPT ![w] = Head(queue)]
      PROVE  Once(r)'
  <2>1. \A v \in Workers : job'[v] = IF v = w THEN Head(queue) ELSE job[v]
    BY <1>7 DEF TypeOK
  <2>2. Held(r)' => Head(queue) = r \/ Held(r)
    BY <2>1 DEF Held
  <2>3. \A v, u \in Workers : job'[v] = r /\ job'[u] = r => v = u
    BY <1>4, <2>1 DEF Once, Held
  <2> QED
    BY <1>3, <1>4, <1>5, <2>2, <2>3 DEF Once
<1> QED
  BY <1>6, <1>7

LEMMA OnceKept ==
  ASSUME TypeOK, HandsInv, Next, NEW r \in Runs, Once(r)
  PROVE  Once(r)'
<1> USE DEF submitVars, workerVars, cancelVars, history
<1>1. ASSUME NEW x \in Runs, SubmitCommit(x) \/ SubmitFails(x) PROVE Once(r)'
  BY <1>1, OnceLetGo DEF SubmitCommit, SubmitFails, TypeOK
<1>2. ASSUME NEW x \in Runs, SubmitEnqueue(x) PROVE Once(r)'
  <2>1. queue' = Append(queue, x) /\ job' = job /\ submit[x] = "committed"
        /\ submit' = [submit EXCEPT ![x] = "done"]
    BY <1>2 DEF SubmitEnqueue
  <2>2. x = r => ~InQueue(r) /\ ~Held(r) /\ submit'[r] = "done"
    BY <2>1 DEF Once, TypeOK
  <2>3. submit[r] = "done" => submit'[r] = "done"
    BY <2>1 DEF TypeOK
  <2> QED
    BY <2>1, <2>2, <2>3, OncePushed
<1>3. ASSUME NEW w \in Workers, Dequeue(w) PROVE Once(r)'
  <2>1. job[w] = NoRun /\ queue # << >> /\ queue' = Tail(queue) /\ submit' = submit
        /\ job' = [job EXCEPT ![w] = Head(queue)]
    BY <1>3 DEF Dequeue, HandsInv
  <2> QED
    BY <2>1, OncePopped
<1>4. ASSUME NEW w \in Workers, DequeueLost(w) PROVE Once(r)'
  BY <1>4, OncePopped DEF DequeueLost
<1>5. CASE /\ queue' = queue /\ submit' = submit
           /\ job' = job \/ \E w \in Workers : job' = [job EXCEPT ![w] = NoRun]
  <2>1. \A w \in Workers : job'[w] \in {job[w], NoRun}
    BY <1>5 DEF TypeOK
  <2> QED
    BY <1>5, <2>1, OnceLetGo
<1>6. ASSUME NEW w \in Workers, WorkerStep(w), ~Dequeue(w), ~DequeueLost(w)
      PROVE  /\ queue' = queue /\ submit' = submit
             /\ job' = job \/ job' = [job EXCEPT ![w] = NoRun]
  BY <1>6 DEF WorkerStep, ProcessStep, AgentStep, AgentReturns, AgentRaises, AgentCancelled,
       AgentEnds, ClaimSkip, ClaimGet, ClaimUpdate, ClaimCommit, FinalGet, FinalRejected,
       FinalUpdate, FinalCommit, PublishOutcome, WorkerAbandons, BackToIdle
<1>7. ASSUME NEW c \in Requests,
             (\E x \in Runs : CancelArrives(c, x)) \/ CancelStep(c) \/ CancelFails(c)
      PROVE  queue' = queue /\ submit' = submit /\ job' = job
  BY <1>7 DEF CancelStep, CancelArrives, CancelNothing, CancelAgain, CancelQueued, CancelRunning,
       CancelUpdate, CancelCommit, CancelSignal, CancelPublish, CancelFails
<1>8. ASSUME NEW x \in Runs, SignalExpires(x)
      PROVE  queue' = queue /\ submit' = submit /\ job' = job
  BY <1>8 DEF SignalExpires
<1> QED
  BY <1>1, <1>2, <1>3, <1>4, <1>5, <1>6, <1>7, <1>8 DEF Next, SubmitStep

-----------------------------------------------------------------------------
(* A run no two workers claimed at once stays calm *)

(* What others do leaves it alone. *)
LEMMA Untouched ==
  ASSUME NEW r \in Runs, Calm(r),
         row'[r] = row[r], starts'[r] = starts[r], finishes'[r] = finishes[r],
         events'[r] \intersect {"done", "error"} = events[r] \intersect {"done", "error"},
         \A w \in Workers : Engaged(w, r)' =>
            /\ Engaged(w, r) /\ wpc'[w] = wpc[w] /\ wobj'[w] = wobj[w]
            /\ worm'[w] = worm[w] /\ outcome'[w] = outcome[w],
         \A c \in Requests : Writing(c, r)' =>
            Writing(c, r) /\ cobj'[c] = cobj[c] /\ corm'[c] = corm[c]
  PROVE  Calm(r)'
<1>1. StatusOf(r)' = StatusOf(r)
  BY DEF StatusOf
<1>2. CountsInv(r)'
  BY <1>1 DEF Calm, CountsInv
<1>3. EngagedInv(r)'
  BY <1>1 DEF Calm, EngagedInv
<1>4. LateCancelInv(r)'
  BY <1>1 DEF Calm, LateCancelInv
<1>5. \A e \in {"done", "error"} : e \in events'[r] <=> e \in events[r]
  OBVIOUS
<1>6. ShownInv(r)'
  BY <1>1, <1>5 DEF Calm, ShownInv
<1> QED
  BY <1>2, <1>3, <1>4, <1>6 DEF Calm

(* A worker changes nothing of another worker or of a cancel request. *)
LEMMA WorkerFrame ==
  ASSUME TypeOK, NEW w \in Workers, WorkerStep(w)
  PROVE  /\ \A v \in Workers \ {w} :
               /\ wpc'[v] = wpc[v] /\ job'[v] = job[v] /\ wobj'[v] = wobj[v]
               /\ worm'[v] = worm[v] /\ outcome'[v] = outcome[v]
         /\ UNCHANGED cancelVars
<1> USE DEF workerVars, TypeOK
<1>1. CASE Dequeue(w)
  BY <1>1 DEF Dequeue, Goto
<1>2. CASE DequeueLost(w)
  BY <1>2 DEF DequeueLost
<1>3. CASE BackToIdle(w) /\ UNCHANGED cancelVars
  BY <1>3 DEF BackToIdle
<1>4. CASE ClaimGet(w) \/ ClaimUpdate(w) \/ ClaimCommit(w)
  BY <1>4 DEF ClaimGet, ClaimUpdate, ClaimCommit, Goto
<1>5. CASE FinalGet(w) \/ FinalUpdate(w) \/ FinalCommit(w)
  BY <1>5 DEF FinalGet, FinalUpdate, FinalCommit, Goto
<1>6. CASE AgentStep(w)
  BY <1>6 DEF AgentStep, AgentReturns, AgentRaises, AgentCancelled, AgentEnds, Goto
<1>7. CASE ClaimSkip(w) \/ FinalRejected(w) \/ PublishOutcome(w) \/ WorkerAbandons(w)
  BY <1>3, <1>7 DEF ClaimSkip, FinalRejected, PublishOutcome, WorkerAbandons
<1> QED
  BY <1>1, <1>2, <1>4, <1>5, <1>6, <1>7 DEF WorkerStep, ProcessStep

(* A worker that holds no run, or another one, leaves this run alone. *)
LEMMA WorkerElsewhere ==
  ASSUME TypeOK, HandsInv, NEW w \in Workers, WorkerStep(w),
         NEW r \in Runs, Calm(r), job[w] # r
  PROVE  Calm(r)'
<1> USE DEF TypeOK, submitVars, workerVars, history
<1>1. ~Engaged(w, r)'
  <2>1. job'[w] \in {job[w], NoRun} \/ wpc'[w] = "claim_get"
    BY DEF WorkerStep, ProcessStep, AgentStep, AgentReturns, AgentRaises, AgentCancelled,
         AgentEnds, Dequeue, DequeueLost, ClaimSkip, ClaimGet, ClaimUpdate, ClaimCommit,
         FinalGet, FinalRejected, FinalUpdate, FinalCommit, PublishOutcome, WorkerAbandons,
         BackToIdle, Goto
  <2> QED
    BY <2>1, NoRunAssumption DEF Engaged
<1>2. /\ row'[r] = row[r] /\ starts'[r] = starts[r] /\ finishes'[r] = finishes[r]
      /\ events'[r] = events[r]
  BY DEF WorkerStep, ProcessStep, AgentStep, AgentReturns, AgentRaises, AgentCancelled,
       AgentEnds, Dequeue, DequeueLost, ClaimSkip, ClaimGet, ClaimUpdate, ClaimCommit,
       FinalGet, FinalRejected, FinalUpdate, FinalCommit, PublishOutcome, WorkerAbandons
<1>3. \A v \in Workers \ {w} : Engaged(v, r)' => Engaged(v, r)
  BY WorkerFrame DEF Engaged
<1>4. \A c \in Requests : Writing(c, r)' =>
         Writing(c, r) /\ cobj'[c] = cobj[c] /\ corm'[c] = corm[c]
  BY WorkerFrame DEF Writing, cancelVars
<1> QED
  BY <1>1, <1>2, <1>3, <1>4, WorkerFrame, Untouched

(* A worker that lets go of the run. *)
LEMMA CalmLetGo ==
  ASSUME TypeOK, HandsInv, NEW w \in Workers, WorkerStep(w), BackToIdle(w),
         NEW r \in Runs, Calm(r), UNCHANGED <<row, events, starts, finishes>>
  PROVE  Calm(r)'
<1>1. ~Engaged(w, r)'
  BY NoRunAssumption DEF BackToIdle, Engaged, TypeOK
<1>2. \A v \in Workers \ {w} : Engaged(v, r)' => Engaged(v, r)
  BY WorkerFrame DEF Engaged
<1>3. \A c \in Requests : Writing(c, r)' =>
         Writing(c, r) /\ cobj'[c] = cobj[c] /\ corm'[c] = corm[c]
  BY WorkerFrame DEF Writing, cancelVars
<1> QED
  BY <1>1, <1>2, <1>3, WorkerFrame, Untouched

(* The worker found the run queued. *)
LEMMA CalmClaimGet ==
  ASSUME TypeOK, HandsInv, NEW w \in Workers, ClaimGet(w),
         NEW r \in Runs, Calm(r), job[w] = r, ~Overlap(r)'
  PROVE  Calm(r)'
<1>1. /\ UNCHANGED <<row, events, starts, finishes, job, outcome, cancelVars>>
      /\ wpc[w] = "claim_get" /\ StatusOf(r) = "queued"
      /\ wpc' = [wpc EXCEPT ![w] = "claim_update"]
      /\ wobj' = [wobj EXCEPT ![w] = Mark(row[r], "running")]
      /\ worm' = [worm EXCEPT ![w] = row[r]]
  BY DEF ClaimGet, Goto, history
<1>2. row[r] \in Row /\ row[r].status = "queued" /\ row[r] # NoRow
  BY <1>1, RowsInHand, NoRowAssumption
<1>3. starts[r] = 0 /\ finishes[r] = 0 /\ NoColumns(row[r])
  BY <1>1, <1>2 DEF Calm, CountsInv, Terminal
<1>4. row[r] = Blank("queued") /\ Mark(row[r], "running") = Blank("running")
  BY <1>2, <1>3, BlankRow, MarkBlank
<1>5. /\ job'[w] = r /\ wpc'[w] = "claim_update" /\ wobj'[w] = Blank("running") /\ worm'[w] = row[r]
      /\ \A v \in Workers \ {w} :
            /\ wpc'[v] = wpc[v] /\ job'[v] = job[v] /\ wobj'[v] = wobj[v]
            /\ worm'[v] = worm[v] /\ outcome'[v] = outcome[v]
  BY <1>1, <1>4 DEF TypeOK
<1>6. ASSUME NEW v \in Workers \ {w} PROVE ~Engaged(v, r)'
  <2>1. SUFFICES ASSUME Engaged(v, r)' PROVE Overlap(r)'
    OBVIOUS
  <2>2. Engaged(v, r)
    BY <1>5, <2>1 DEF Engaged
  <2>3. wpc[v] \in ClaimSteps \ {"claim_get"}
    BY <1>3, <2>2 DEF Calm, EngagedInv, Engaged
  <2>4. v \in Claiming(r)' /\ w \in Claiming(r)'
    BY <1>5, <2>2, <2>3 DEF Claiming, Engaged, ClaimSteps
  <2> QED
    BY <2>4 DEF Overlap
<1>7. CountsInv(r)' /\ LateCancelInv(r)'
  BY <1>1 DEF Calm, CountsInv, LateCancelInv, Writing, StatusOf, cancelVars
<1>8. EngagedInv(r)'
  BY <1>1, <1>2, <1>3, <1>5, <1>6 DEF EngagedInv, ClaimSteps
<1>9. ShownInv(r)'
  BY <1>1, <1>3 DEF Calm, ShownInv, StatusOf
<1> QED
  BY <1>7, <1>8, <1>9 DEF Calm

LEMMA CalmClaimUpdate ==
  ASSUME TypeOK, HandsInv, NEW w \in Workers, ClaimUpdate(w),
         NEW r \in Runs, Calm(r), job[w] = r
  PROVE  Calm(r)'
<1>1. PICK loaded \in {worm[w], row[r]} :
         /\ UNCHANGED <<row, events, starts, finishes, job, wobj, outcome, cancelVars>>
         /\ wpc[w] = "claim_update" /\ wpc' = [wpc EXCEPT ![w] = "claim_commit"]
         /\ worm' = [worm EXCEPT ![w] = loaded]
  BY DEF ClaimUpdate, Goto, history
<1>2. Engaged(w, r) /\ row[r] \in Row /\ row[r] # NoRow
  BY <1>1, RowsInHand, NoRowAssumption DEF Engaged
<1>3. /\ starts[r] = 0 /\ finishes[r] = 0 /\ wobj[w] = Blank("running")
      /\ NoColumns(worm[w]) /\ worm[w].status \in {"queued", "cancelled"}
  BY <1>1, <1>2 DEF Calm, EngagedInv, ClaimSteps
<1>4. NoColumns(row[r]) /\ row[r].status \in {"queued", "cancelled"}
  BY <1>2, <1>3 DEF Calm, CountsInv, StatusOf, Row, Status
<1>5. /\ wpc'[w] = "claim_commit" /\ worm'[w] = loaded
      /\ \A v \in Workers \ {w} : wpc'[v] = wpc[v] /\ worm'[v] = worm[v]
  BY <1>1 DEF TypeOK
<1>6. \A v \in Workers : Engaged(v, r)' <=> Engaged(v, r)
  BY <1>1, <1>5 DEF Engaged
<1>7. CountsInv(r)' /\ LateCancelInv(r)'
  BY <1>1 DEF Calm, CountsInv, LateCancelInv, Writing, StatusOf, cancelVars
<1>8. \A v \in Workers : Engaged(v, r) => v = w
  BY <1>2 DEF Calm, EngagedInv
<1>9. EngagedInv(r)'
  BY <1>1, <1>3, <1>4, <1>5, <1>6, <1>8 DEF EngagedInv, ClaimSteps
<1>10. ShownInv(r)'
  BY <1>1, <1>6 DEF Calm, ShownInv, StatusOf
<1> QED
  BY <1>7, <1>9, <1>10 DEF Calm

LEMMA CalmClaimCommit ==
  ASSUME TypeOK, HandsInv, NEW w \in Workers, ClaimCommit(w),
         NEW r \in Runs, Calm(r), job[w] = r
  PROVE  Calm(r)'
<1> DEFINE new == Flush(row[r], worm[w], wobj[w])
<1>1. /\ UNCHANGED <<events, finishes, job, outcome, cancelVars>>
      /\ wpc[w] = "claim_commit" /\ wpc' = [wpc EXCEPT ![w] = "execute"]
      /\ row' = [row EXCEPT ![r] = new] /\ starts' = [starts EXCEPT ![r] = @ + 1]
  BY DEF ClaimCommit, Goto
<1>2. Engaged(w, r) /\ row[r] \in Row /\ row[r] # NoRow
  BY <1>1, RowsInHand, NoRowAssumption DEF Engaged
<1>3. /\ starts[r] = 0 /\ finishes[r] = 0 /\ wobj[w] = Blank("running") /\ worm[w] \in Row
      /\ NoColumns(worm[w]) /\ worm[w].status \in {"queued", "cancelled"}
  BY <1>1, <1>2 DEF Calm, EngagedInv, ClaimSteps, HandsInv
<1>4. NoColumns(row[r])
  BY <1>2, <1>3 DEF Calm, CountsInv
<1>5. new \in Row /\ new.status = "running" /\ NoColumns(new)
  BY <1>2, <1>3, <1>4, ClaimFlush
<1> HIDE DEF new
<1>6. /\ row'[r] = new /\ StatusOf(r)' = "running" /\ starts'[r] = 1 /\ finishes'[r] = 0
      /\ events' = events /\ wpc'[w] = "execute"
      /\ \A v \in Workers \ {w} : wpc'[v] = wpc[v]
  BY <1>1, <1>3, <1>5, NoRowAssumption DEF TypeOK, StatusOf
<1>7. \A v \in Workers : Engaged(v, r)' <=> Engaged(v, r)
  BY <1>1, <1>6 DEF Engaged
<1>8. CountsInv(r)'
  BY <1>5, <1>6 DEF CountsInv, ColumnsAgree, NoColumns
<1>9. LateCancelInv(r)'
  BY <1>1, <1>3 DEF Calm, LateCancelInv, Writing, cancelVars
<1>10. \A v \in Workers : Engaged(v, r) => v = w
  BY <1>2 DEF Calm, EngagedInv
<1>11. EngagedInv(r)'
  BY <1>6, <1>7, <1>10 DEF EngagedInv, ClaimSteps
<1>12. ShownInv(r)'
  BY <1>3, <1>6 DEF Calm, ShownInv
<1> QED
  BY <1>8, <1>9, <1>11, <1>12 DEF Calm

LEMMA CalmAgent ==
  ASSUME TypeOK, HandsInv, NEW w \in Workers, AgentStep(w),
         NEW r \in Runs, Calm(r), job[w] = r
  PROVE  Calm(r)'
<1>1. PICK s \in Terminal : AgentEnds(w, s)
  BY DEF AgentStep, AgentReturns, AgentRaises, AgentCancelled, Terminal
<1>2. /\ UNCHANGED <<row, events, starts, finishes, job, wobj, worm, cancelVars>>
      /\ wpc[w] = "execute" /\ wpc'[w] = "final_get"
      /\ \A v \in Workers \ {w} : wpc'[v] = wpc[v] /\ outcome'[v] = outcome[v]
  BY <1>1 DEF AgentEnds, Goto, TypeOK, history
<1>3. \A v \in Workers : Engaged(v, r)' <=> Engaged(v, r)
  BY <1>2 DEF Engaged
<1>4. CountsInv(r)' /\ LateCancelInv(r)'
  BY <1>2 DEF Calm, CountsInv, LateCancelInv, Writing, StatusOf, cancelVars
<1>5. Engaged(w, r)
  BY <1>2 DEF Engaged
<1>6. /\ starts[r] = 1 /\ finishes[r] = 0
      /\ \A v \in Workers : Engaged(v, r) => v = w
  BY <1>2, <1>5 DEF Calm, EngagedInv, ClaimSteps
<1>7. EngagedInv(r)'
  BY <1>2, <1>3, <1>6 DEF EngagedInv, ClaimSteps
<1>8. ShownInv(r)'
  BY <1>2, <1>3 DEF Calm, ShownInv, StatusOf
<1> QED
  BY <1>4, <1>7, <1>8 DEF Calm

LEMMA CalmFinalGet ==
  ASSUME TypeOK, HandsInv, NEW w \in Workers, FinalGet(w),
         NEW r \in Runs, Calm(r), job[w] = r
  PROVE  Calm(r)'
<1>1. /\ UNCHANGED <<row, events, starts, finishes, job, outcome, cancelVars>>
      /\ wpc[w] = "final_get" /\ StatusOf(r) \in MarkFrom(outcome[w])
      /\ wpc' = [wpc EXCEPT ![w] = "final_update"]
      /\ wobj' = [wobj EXCEPT ![w] = RecordMetrics(Mark(row[r], outcome[w]))]
      /\ worm' = [worm EXCEPT ![w] = row[r]]
  BY DEF FinalGet, Goto, history
<1>2. Engaged(w, r) /\ row[r] \in Row /\ row[r] # NoRow /\ outcome[w] \in Terminal
  BY <1>1, RowsInHand, NoRowAssumption DEF Engaged, HandsInv, FinalSteps
<1>3. /\ starts[r] = 1 /\ finishes[r] = 0
      /\ \A v \in Workers : Engaged(v, r) => v = w
  BY <1>1, <1>2 DEF Calm, EngagedInv, ClaimSteps
<1>4. StatusOf(r) \in {"running", "cancelled"} /\ NoColumns(row[r])
  BY <1>2, <1>3 DEF Calm, CountsInv
<1>5. row[r].status = "running"
  BY <1>1, <1>2, <1>4 DEF StatusOf, MarkFrom, Terminal
<1>6. row[r] = Blank("running")
  BY <1>2, <1>4, <1>5, BlankRow
<1>7. /\ wpc'[w] = "final_update" /\ worm'[w] = row[r]
      /\ wobj'[w] = RecordMetrics(Mark(Blank("running"), outcome[w]))
      /\ \A v \in Workers \ {w} : wpc'[v] = wpc[v]
  BY <1>1, <1>6 DEF TypeOK
<1>8. \A v \in Workers : Engaged(v, r)' <=> Engaged(v, r)
  BY <1>1, <1>7 DEF Engaged
<1>9. CountsInv(r)' /\ LateCancelInv(r)'
  BY <1>1 DEF Calm, CountsInv, LateCancelInv, Writing, StatusOf, cancelVars
<1>10. EngagedInv(r)'
  BY <1>1, <1>3, <1>4, <1>5, <1>7, <1>8 DEF EngagedInv, ClaimSteps
<1>11. ShownInv(r)'
  BY <1>1, <1>8 DEF Calm, ShownInv, StatusOf
<1> QED
  BY <1>9, <1>10, <1>11 DEF Calm

LEMMA CalmFinalUpdate ==
  ASSUME TypeOK, HandsInv, NEW w \in Workers, FinalUpdate(w),
         NEW r \in Runs, Calm(r), job[w] = r
  PROVE  Calm(r)'
<1>1. PICK loaded \in {worm[w], row[r]} :
         /\ UNCHANGED <<row, events, starts, finishes, job, wobj, outcome, cancelVars>>
         /\ wpc[w] = "final_update" /\ wpc' = [wpc EXCEPT ![w] = "final_commit"]
         /\ worm' = [worm EXCEPT ![w] = loaded]
  BY DEF FinalUpdate, Goto, history
<1>2. Engaged(w, r) /\ row[r] \in Row /\ row[r] # NoRow
  BY <1>1, RowsInHand, NoRowAssumption DEF Engaged
<1>3. /\ starts[r] = 1 /\ finishes[r] = 0
      /\ wobj[w] = RecordMetrics(Mark(Blank("running"), outcome[w]))
      /\ NoColumns(worm[w]) /\ worm[w].status \in {"running", "cancelled"}
      /\ worm[w].status = "cancelled" => StatusOf(r) = "cancelled"
      /\ \A v \in Workers : Engaged(v, r) => v = w
  BY <1>1, <1>2 DEF Calm, EngagedInv, ClaimSteps
<1>4. NoColumns(row[r]) /\ row[r].status \in {"running", "cancelled"} /\ StatusOf(r) = row[r].status
  BY <1>2, <1>3 DEF Calm, CountsInv, StatusOf, Row, Status
<1>5. /\ wpc'[w] = "final_commit" /\ worm'[w] = loaded
      /\ \A v \in Workers \ {w} : wpc'[v] = wpc[v] /\ worm'[v] = worm[v]
  BY <1>1 DEF TypeOK
<1>6. \A v \in Workers : Engaged(v, r)' <=> Engaged(v, r)
  BY <1>1, <1>5 DEF Engaged
<1>7. CountsInv(r)' /\ LateCancelInv(r)' /\ StatusOf(r)' = StatusOf(r)
  BY <1>1 DEF Calm, CountsInv, LateCancelInv, Writing, StatusOf, cancelVars
<1>8. EngagedInv(r)'
  BY <1>1, <1>3, <1>4, <1>5, <1>6, <1>7 DEF EngagedInv, ClaimSteps
<1>9. ShownInv(r)'
  BY <1>1, <1>6 DEF Calm, ShownInv, StatusOf
<1> QED
  BY <1>7, <1>8, <1>9 DEF Calm

LEMMA CalmFinalCommit ==
  ASSUME TypeOK, HandsInv, NEW w \in Workers, FinalCommit(w),
         NEW r \in Runs, Calm(r), job[w] = r
  PROVE  Calm(r)'
<1> DEFINE new == Flush(row[r], worm[w], wobj[w])
<1>1. /\ UNCHANGED <<events, starts, job, outcome, cancelVars>>
      /\ wpc[w] = "final_commit" /\ wpc' = [wpc EXCEPT ![w] = "publish"]
      /\ row' = [row EXCEPT ![r] = new] /\ finishes' = [finishes EXCEPT ![r] = @ + 1]
  BY DEF FinalCommit, Goto
<1>2. Engaged(w, r) /\ row[r] \in Row /\ row[r] # NoRow /\ outcome[w] \in Terminal
  BY <1>1, RowsInHand, NoRowAssumption DEF Engaged, HandsInv, FinalSteps
<1>3. /\ starts[r] = 1 /\ finishes[r] = 0 /\ worm[w] \in Row
      /\ wobj[w] = RecordMetrics(Mark(Blank("running"), outcome[w]))
      /\ NoColumns(worm[w]) /\ worm[w].status \in {"running", "cancelled"}
      /\ worm[w].status = "cancelled" => StatusOf(r) = "cancelled"
      /\ \A v \in Workers : Engaged(v, r) => v = w
  BY <1>1, <1>2 DEF Calm, EngagedInv, ClaimSteps, HandsInv
<1>4. NoColumns(row[r]) /\ (worm[w].status = "cancelled" => row[r].status = "cancelled")
  BY <1>2, <1>3 DEF Calm, CountsInv, StatusOf
<1>5. new \in Row /\ new.status = outcome[w] /\ ColumnsAgree(new)
  BY <1>2, <1>3, <1>4, FinalFlush
<1> HIDE DEF new
<1>6. /\ row'[r] = new /\ StatusOf(r)' = outcome[w] /\ starts'[r] = 1 /\ finishes'[r] = 1
      /\ events' = events /\ outcome' = outcome /\ wpc'[w] = "publish"
      /\ \A v \in Workers \ {w} : wpc'[v] = wpc[v]
  BY <1>1, <1>3, <1>5, NoRowAssumption DEF TypeOK, StatusOf
<1>7. \A v \in Workers : Engaged(v, r)' <=> Engaged(v, r)
  BY <1>1, <1>6 DEF Engaged
<1>8. CountsInv(r)'
  BY <1>2, <1>5, <1>6 DEF CountsInv
<1>9. LateCancelInv(r)'
  BY <1>1, <1>3 DEF Calm, LateCancelInv, Writing, cancelVars
<1>10. EngagedInv(r)'
  BY <1>3, <1>6, <1>7 DEF EngagedInv, ClaimSteps
<1>11. ShownInv(r)'
  BY <1>3, <1>6 DEF Calm, ShownInv
<1> QED
  BY <1>8, <1>9, <1>10, <1>11 DEF Calm

LEMMA CalmPublish ==
  ASSUME TypeOK, HandsInv, NEW w \in Workers, PublishOutcome(w),
         NEW r \in Runs, Calm(r), job[w] = r
  PROVE  Calm(r)'
<1>1. /\ UNCHANGED <<row, starts, finishes, cancelVars>> /\ wpc[w] = "publish"
      /\ events' = [events EXCEPT ![r] = @ \union {Event[outcome[w]]}]
      /\ wpc' = [wpc EXCEPT ![w] = "idle"]
  BY DEF PublishOutcome, BackToIdle, history
<1>2. Engaged(w, r) /\ outcome[w] \in Terminal
  BY <1>1 DEF Engaged, HandsInv
<1>3. /\ finishes[r] = 1 /\ StatusOf(r) \in {outcome[w], "cancelled"}
      /\ \A v \in Workers : Engaged(v, r) => v = w
  BY <1>1, <1>2 DEF Calm, EngagedInv
<1>4. "done" \notin events[r] /\ "error" \notin events[r]
  BY <1>2 DEF Calm, ShownInv
<1>5. /\ \A v \in Workers \ {w} :
            /\ wpc'[v] = wpc[v] /\ job'[v] = job[v] /\ wobj'[v] = wobj[v]
            /\ worm'[v] = worm[v] /\ outcome'[v] = outcome[v]
      /\ wpc'[w] = "idle"
  BY <1>1, WorkerFrame DEF WorkerStep, ProcessStep, TypeOK
<1>6. \A v \in Workers : ~Engaged(v, r)'
  BY <1>3, <1>5 DEF Engaged
<1>7. CountsInv(r)' /\ LateCancelInv(r)' /\ StatusOf(r)' = StatusOf(r)
  BY <1>1 DEF Calm, CountsInv, LateCancelInv, Writing, StatusOf, cancelVars
<1>8. EngagedInv(r)'
  BY <1>6 DEF EngagedInv
<1>9. events'[r] = events[r] \union {Event[outcome[w]]}
  BY <1>1 DEF TypeOK
<1>10. \/ outcome[w] = "succeeded" /\ Event[outcome[w]] = "done"
       \/ outcome[w] = "failed" /\ Event[outcome[w]] = "error"
       \/ outcome[w] = "cancelled" /\ Event[outcome[w]] = "cancelled"
  BY <1>2 DEF Event, Terminal
<1>11. ShownInv(r)'
  BY <1>1, <1>3, <1>4, <1>6, <1>7, <1>9, <1>10 DEF ShownInv
<1> QED
  BY <1>7, <1>8, <1>11 DEF Calm

LEMMA CalmWorker ==
  ASSUME TypeOK, HandsInv, NEW w \in Workers, WorkerStep(w),
         NEW r \in Runs, Calm(r), ~Overlap(r)'
  PROVE  Calm(r)'
<1>1. CASE job[w] # r
  BY <1>1, WorkerElsewhere
<1>2. CASE job[w] = r
  <2>1. wpc[w] # "idle"
    BY <1>2, NoRunAssumption DEF HandsInv
  <2>2. CASE ClaimSkip(w) \/ FinalRejected(w) \/ WorkerAbandons(w)
    BY <2>2, CalmLetGo DEF ClaimSkip, FinalRejected, WorkerAbandons, history
  <2> QED
    BY <1>2, <2>1, <2>2, CalmClaimGet, CalmClaimUpdate, CalmClaimCommit, CalmAgent,
       CalmFinalGet, CalmFinalUpdate, CalmFinalCommit, CalmPublish
    DEF WorkerStep, ProcessStep, Dequeue, DequeueLost
<1> QED
  BY <1>1, <1>2

(* A cancel request changes nothing of a worker or of another request. *)
LEMMA CancelFrame ==
  ASSUME TypeOK, NEW c \in Requests,
         (\E x \in Runs : CancelArrives(c, x)) \/ CancelStep(c) \/ CancelFails(c)
  PROVE  /\ UNCHANGED <<wpc, job, wobj, worm, outcome, starts, finishes>>
         /\ \A d \in Requests \ {c} :
               /\ cpc'[d] = cpc[d] /\ target'[d] = target[d]
               /\ cobj'[d] = cobj[d] /\ corm'[d] = corm[d]
         /\ target'[c] \in {target[c], NoRun} \/ cpc'[c] = "get"
  BY DEF workerVars, history, TypeOK, CancelStep, CancelArrives, CancelNothing, CancelAgain,
       CancelQueued, CancelRunning, CancelUpdate, CancelCommit, CancelSignal, CancelPublish,
       CancelFails, CancelBackToIdle

(* A request that is not about to write the run leaves it alone. *)
LEMMA CalmCancelElse ==
  ASSUME TypeOK, HandsInv, NEW c \in Requests,
         (\E x \in Runs : CancelArrives(c, x)) \/ CancelStep(c) \/ CancelFails(c),
         NEW r \in Runs, Calm(r),
         \/ target[c] # r
         \/ ~CancelQueued(c) /\ ~CancelUpdate(c) /\ ~CancelCommit(c)
  PROVE  Calm(r)'
<1>1. row'[r] = row[r]
  BY DEF TypeOK, CancelStep, CancelArrives, CancelNothing, CancelAgain, CancelQueued,
       CancelRunning, CancelUpdate, CancelCommit, CancelSignal, CancelPublish, CancelFails
<1>2. events'[r] \intersect {"done", "error"} = events[r] \intersect {"done", "error"}
  <2>1. events' = events \/ events' = [events EXCEPT ![target[c]] = @ \union {"cancelled"}]
    BY DEF CancelStep, CancelArrives, CancelNothing, CancelAgain, CancelQueued,
         CancelRunning, CancelUpdate, CancelCommit, CancelSignal, CancelPublish, CancelFails
  <2>2. events'[r] \in {events[r], events[r] \union {"cancelled"}}
    BY <2>1 DEF TypeOK
  <2> QED
    BY <2>2
<1>3. ~Writing(c, r)'
  <2>1. CASE target[c] # r
    BY <2>1, CancelFrame, NoRunAssumption DEF Writing
  <2>2. CASE ~CancelQueued(c) /\ ~CancelUpdate(c) /\ ~CancelCommit(c)
    <3>1. cpc'[c] \notin {"update", "commit"}
      BY <2>2 DEF TypeOK, CancelStep, CancelArrives, CancelNothing, CancelAgain, CancelRunning,
         CancelSignal, CancelPublish, CancelFails, CancelBackToIdle
    <3> QED
      BY <3>1 DEF Writing
  <2> QED
    BY <2>1, <2>2
<1>4. \A d \in Requests : Writing(d, r)' =>
         Writing(d, r) /\ cobj'[d] = cobj[d] /\ corm'[d] = corm[d]
  BY <1>3, CancelFrame DEF Writing
<1>5. \A w \in Workers : Engaged(w, r)' <=> Engaged(w, r)
  BY CancelFrame DEF Engaged
<1> QED
  BY <1>1, <1>2, <1>4, <1>5, CancelFrame, Untouched

(* The request found the run queued. *)
LEMMA CalmCancelQueued ==
  ASSUME TypeOK, HandsInv, NEW c \in Requests, CancelQueued(c),
         NEW r \in Runs, Calm(r), target[c] = r
  PROVE  Calm(r)'
<1>1. /\ UNCHANGED <<row, events, starts, finishes, workerVars, target>>
      /\ StatusOf(r) = "queued" /\ cpc' = [cpc EXCEPT ![c] = "update"]
      /\ cobj' = [cobj EXCEPT ![c] = Mark(row[r], "cancelled")]
      /\ corm' = [corm EXCEPT ![c] = row[r]]
  BY DEF CancelQueued, history
<1>2. row[r] \in Row /\ row[r].status = "queued" /\ row[r] # NoRow
  BY <1>1, RowsInHand, NoRowAssumption
<1>3. finishes[r] = 0 /\ NoColumns(row[r])
  BY <1>1, <1>2 DEF Calm, CountsInv, Terminal
<1>4. row[r] = Blank("queued") /\ Mark(row[r], "cancelled") = Blank("cancelled")
  BY <1>2, <1>3, BlankRow, MarkBlank
<1>5. /\ cobj'[c] = Blank("cancelled") /\ corm'[c] = row[r]
      /\ \A d \in Requests \ {c} : cpc'[d] = cpc[d] /\ cobj'[d] = cobj[d] /\ corm'[d] = corm[d]
  BY <1>1, <1>4 DEF TypeOK
<1>6. LateCancelInv(r)'
  BY <1>1, <1>2, <1>5 DEF Calm, LateCancelInv, Writing, StatusOf
<1>7. CountsInv(r)' /\ EngagedInv(r)' /\ ShownInv(r)'
  BY <1>1 DEF Calm, CountsInv, EngagedInv, ShownInv, Engaged, StatusOf, workerVars
<1> QED
  BY <1>6, <1>7 DEF Calm

LEMMA CalmCancelUpdate ==
  ASSUME TypeOK, HandsInv, NEW c \in Requests, CancelUpdate(c),
         NEW r \in Runs, Calm(r), target[c] = r
  PROVE  Calm(r)'
<1>1. PICK loaded \in {corm[c], row[r]} :
         /\ UNCHANGED <<row, events, starts, finishes, workerVars, target, cobj>>
         /\ cpc[c] = "update" /\ cpc' = [cpc EXCEPT ![c] = "commit"]
         /\ corm' = [corm EXCEPT ![c] = loaded]
  BY DEF CancelUpdate, history
<1>2. Writing(c, r) /\ row[r] \in Row /\ row[r] # NoRow
  BY <1>1, RowsInHand, NoRowAssumption DEF Writing
<1>3. cobj[c] = Blank("cancelled")
      /\ (loaded.status = "cancelled" /\ ~NoColumns(loaded) =>
             StatusOf(r) = "cancelled" /\ finishes[r] = 1)
  BY <1>2 DEF Calm, LateCancelInv, CountsInv, StatusOf
<1>4. /\ corm'[c] = loaded
      /\ \A d \in Requests \ {c} : cpc'[d] = cpc[d] /\ corm'[d] = corm[d]
  BY <1>1 DEF TypeOK
<1>5. LateCancelInv(r)'
  BY <1>1, <1>3, <1>4 DEF Calm, LateCancelInv, Writing, StatusOf
<1>6. CountsInv(r)' /\ EngagedInv(r)' /\ ShownInv(r)'
  BY <1>1 DEF Calm, CountsInv, EngagedInv, ShownInv, Engaged, StatusOf, workerVars
<1> QED
  BY <1>5, <1>6 DEF Calm

LEMMA CalmCancelCommit ==
  ASSUME TypeOK, HandsInv, NEW c \in Requests, CancelCommit(c),
         NEW r \in Runs, Calm(r), target[c] = r
  PROVE  Calm(r)'
<1> DEFINE new == Flush(row[r], corm[c], cobj[c])
<1>1. /\ UNCHANGED <<events, starts, finishes, workerVars, target, cobj>>
      /\ cpc[c] = "commit" /\ cpc' = [cpc EXCEPT ![c] = "signal"]
      /\ row' = [row EXCEPT ![r] = new] /\ corm' = [corm EXCEPT ![c] = NoRow]
  BY DEF CancelCommit, history
<1>2. Writing(c, r) /\ row[r] \in Row /\ row[r] # NoRow /\ corm[c] \in Row
  BY <1>1, RowsInHand, NoRowAssumption DEF Writing, HandsInv
<1>3. cobj[c] = Blank("cancelled") /\ ColumnsAgree(row[r])
      /\ (corm[c].status = "cancelled" /\ ~NoColumns(corm[c]) => row[r].status = "cancelled")
  BY <1>2 DEF Calm, LateCancelInv, CountsInv, StatusOf
<1>4. /\ new \in Row /\ (new.status = "cancelled" \/ new = row[r])
      /\ ColumnsAgree(new) /\ (NoColumns(row[r]) => NoColumns(new))
  BY <1>2, <1>3, CancelFlush
<1> HIDE DEF new
<1>5. /\ row'[r] = new /\ row'[r] # NoRow /\ StatusOf(r)' \in {"cancelled", StatusOf(r)}
      /\ starts' = starts /\ finishes' = finishes /\ events' = events
  BY <1>1, <1>2, <1>4, NoRowAssumption DEF TypeOK, StatusOf
<1>6. /\ cpc'[c] = "signal"
      /\ \A d \in Requests \ {c} : cpc'[d] = cpc[d] /\ corm'[d] = corm[d]
  BY <1>1 DEF TypeOK
<1>7. LateCancelInv(r)'
  BY <1>1, <1>5, <1>6 DEF Calm, LateCancelInv, Writing
<1>8. CountsInv(r)'
  BY <1>2, <1>4, <1>5 DEF Calm, CountsInv, Terminal
<1>9. EngagedInv(r)'
  BY <1>1, <1>5 DEF Calm, EngagedInv, Engaged, workerVars
<1>10. ShownInv(r)'
  BY <1>1, <1>5 DEF Calm, ShownInv, Engaged, workerVars
<1> QED
  BY <1>7, <1>8, <1>9, <1>10 DEF Calm

LEMMA CalmCancel ==
  ASSUME TypeOK, HandsInv, NEW c \in Requests,
         (\E x \in Runs : CancelArrives(c, x)) \/ CancelStep(c) \/ CancelFails(c),
         NEW r \in Runs, Calm(r)
  PROVE  Calm(r)'
  BY CalmCancelElse, CalmCancelQueued, CalmCancelUpdate, CalmCancelCommit

(* The row is inserted: nobody has the run in hand yet. *)
LEMMA CalmSubmit ==
  ASSUME TypeOK, HandsInv, NEW r \in Runs, Calm(r), SubmitCommit(r)
  PROVE  Calm(r)'
<1>1. /\ submit[r] = "new" /\ row' = [row EXCEPT ![r] = NewRun]
      /\ UNCHANGED <<events, workerVars, cancelVars, starts, finishes>>
  BY DEF SubmitCommit, history
<1>2. row[r] = NoRow /\ StatusOf(r) = "none"
  BY <1>1 DEF HandsInv, StatusOf
<1>3. starts[r] = 0 /\ finishes[r] = 0
  BY <1>2 DEF Calm, CountsInv, Terminal
<1>4. row'[r] = NewRun /\ StatusOf(r)' = "queued"
  BY <1>1, NewRunType, NoRowAssumption DEF StatusOf, TypeOK, NewRun, Blank
<1>5. \A w \in Workers : ~Engaged(w, r)
  BY <1>2 DEF HandsInv, Engaged
<1>6. \A c \in Requests : ~Writing(c, r)
  BY <1>2 DEF HandsInv, Writing
<1>7. CountsInv(r)'
  BY <1>1, <1>3, <1>4 DEF CountsInv, NewRun, Blank, ColumnsAgree, NoColumns
<1>8. EngagedInv(r)' /\ LateCancelInv(r)'
  BY <1>1, <1>5, <1>6 DEF EngagedInv, LateCancelInv, Engaged, Writing, workerVars, cancelVars
<1>9. ShownInv(r)'
  BY <1>1, <1>3 DEF Calm, ShownInv
<1> QED
  BY <1>7, <1>8, <1>9 DEF Calm

LEMMA CalmKept ==
  ASSUME TypeOK, HandsInv, Next, NEW r \in Runs, Calm(r), ~Overlap(r)'
  PROVE  Calm(r)'
<1>1. ASSUME NEW x \in Runs, SubmitStep(x) \/ SignalExpires(x), ~(SubmitCommit(x) /\ x = r)
      PROVE  Calm(r)'
  <2>1. /\ row'[r] = row[r]
        /\ UNCHANGED <<events, starts, finishes, wpc, job, wobj, worm, outcome,
                       cpc, target, cobj, corm>>
    BY <1>1 DEF SubmitStep, SubmitCommit, SubmitEnqueue, SubmitFails, SignalExpires, TypeOK,
       workerVars, cancelVars, history
  <2> QED
    BY <2>1, Untouched DEF Engaged, Writing
<1> QED
  BY <1>1, CalmSubmit, CalmWorker, CalmCancel DEF Next, SubmitStep

-----------------------------------------------------------------------------
(* The invariant, and what it says of harm *)

LEMMA ResendInitInv == ResendInit => ResendInv
<1> SUFFICES ASSUME ResendInit PROVE ResendInv
  OBVIOUS
<1>1. TypeOK
  BY InitInv DEF ResendInit, IInv
<1>2. HandsInv
  BY DEF ResendInit, Init, HandsInv, FinalSteps
<1>3. ASSUME NEW r \in Runs PROVE Once(r)
  BY NoRunAssumption DEF ResendInit, Init, Once, InQueue, Held
<1>4. ASSUME NEW r \in Runs PROVE Calm(r)
  BY NoRunAssumption DEF ResendInit, Init, Calm, CountsInv, EngagedInv, LateCancelInv, ShownInv,
     Engaged, Writing, StatusOf
<1> QED
  BY <1>1, <1>2, <1>3, <1>4 DEF ResendInit, ResendInv

LEMMA ResendNextInv == ResendInv /\ [ResendNext]_resendVars => ResendInv'
<1>1. ASSUME ResendInv, PipelineStep PROVE ResendInv'
  <2>1. TypeOK' /\ HandsInv'
    BY <1>1, TypesKept, HandsKept DEF ResendInv, PipelineStep
  <2>2. \A r \in Runs \ resent : Once(r)'
    BY <1>1, OnceKept DEF ResendInv, PipelineStep
  <2>3. \A r \in Runs \ resent : ~Overlap(r)'
    BY <2>2 DEF Once, Overlap, Claiming
  <2>4. raced' = raced \union {r \in Runs : Overlap(r)'} /\ resent' = resent
    BY <1>1 DEF PipelineStep
  <2>5. \A r \in Runs \ raced' : Calm(r)'
    BY <1>1, <2>4, CalmKept DEF ResendInv, PipelineStep
  <2> QED
    BY <1>1, <2>1, <2>2, <2>3, <2>4, <2>5 DEF ResendInv
<1>2. ASSUME ResendInv, NEW s \in Runs, EnqueueReplyLost(s) PROVE ResendInv'
  <2>1. /\ queue' = Append(queue, s) /\ resent' = resent \union {s} /\ raced' = raced
        /\ UNCHANGED <<row, signal, events, submit, wpc, job, wobj, worm, outcome,
                       cpc, target, cobj, corm, starts, finishes, interrupted>>
    BY <1>2 DEF EnqueueReplyLost, submitVars, workerVars, cancelVars, history
  <2>2. TypeOK' /\ HandsInv'
    BY <1>2, <2>1 DEF ResendInv, TypeOK, HandsInv
  <2>3. \A r \in Runs \ resent' : Once(r)'
    BY <1>2, <2>1, OncePushed DEF ResendInv
  <2>4. \A r \in Runs \ raced' : Calm(r)'
    BY <1>2, <2>1, Untouched DEF ResendInv, Engaged, Writing
  <2> QED
    BY <1>2, <2>1, <2>2, <2>3, <2>4 DEF ResendInv
<1>3. ASSUME ResendInv, UNCHANGED resendVars PROVE ResendInv'
  BY <1>3 DEF resendVars, vars, submitVars, workerVars, cancelVars, history, ResendInv, TypeOK,
     HandsInv, Once, InQueue, Held, Calm, CountsInv, EngagedInv, LateCancelInv, ShownInv, Engaged,
     Writing, StatusOf
<1> QED
  BY <1>1, <1>2, <1>3 DEF ResendNext

THEOREM ResendInvariance == ResendSpec => []ResendInv
  BY ResendInitInv, ResendNextInv, PTL DEF ResendSpec

(* A duplicate id does harm only if two workers claim the run at once: as   *)
(* long as they do not, it is executed and finished at most once, its       *)
(* columns agree and its events do not contradict each other               *)
(* (worker.py:134-140).                                                     *)
THEOREM HarmNeedsARace == ResendSpec => []HarmOnlyByRace
<1>1. ResendInv => HarmOnlyByRace
  BY DEF ResendInv, HarmOnlyByRace, Calm, CountsInv, ShownInv
<1> QED
  BY <1>1, ResendInvariance, PTL

-----------------------------------------------------------------------------
(* OutcomeStands, with commands that may be sent again: unless two workers *)
(* raced for the run, its stored outcome is replaced by a late             *)
(* cancellation at most, never by another outcome or by a second claim     *)
(* (worker.py:134-140, run_service.cancel_run).                            *)
CalmOutcomeStands ==
  [][\A r \in Runs \ raced : StatusOf(r) \in {"succeeded", "failed"} =>
        StatusOf(r)' \in {StatusOf(r), "cancelled"}]_resendVars

(* Only three commits and the insertion write a row. *)
LEMMA WritersOfRow ==
  ASSUME Next, TypeOK, NEW r \in Runs, row'[r] # row[r]
  PROVE  \/ SubmitCommit(r)
         \/ \E w \in Workers : job[w] = r /\ (ClaimCommit(w) \/ FinalCommit(w))
         \/ \E c \in Requests : target[c] = r /\ CancelCommit(c)
<1>1. ASSUME NEW x \in Runs, SubmitStep(x) \/ SignalExpires(x) PROVE SubmitCommit(r)
  BY <1>1 DEF SubmitStep, SubmitCommit, SubmitEnqueue, SubmitFails, SignalExpires, TypeOK
<1>2. ASSUME NEW w \in Workers, WorkerStep(w)
      PROVE  job[w] = r /\ (ClaimCommit(w) \/ FinalCommit(w))
  <2>1. ClaimCommit(w) \/ FinalCommit(w)
    BY <1>2 DEF WorkerStep, ProcessStep, AgentStep, AgentReturns, AgentRaises, AgentCancelled,
         AgentEnds, Dequeue, DequeueLost, ClaimSkip, ClaimGet, ClaimUpdate, FinalGet,
         FinalRejected, FinalUpdate, PublishOutcome, WorkerAbandons
  <2>2. job[w] = r
    BY <2>1 DEF ClaimCommit, FinalCommit, TypeOK
  <2> QED
    BY <2>1, <2>2
<1>3. ASSUME NEW c \in Requests,
             (\E x \in Runs : CancelArrives(c, x)) \/ CancelStep(c) \/ CancelFails(c)
      PROVE  target[c] = r /\ CancelCommit(c)
  <2>1. CancelCommit(c)
    BY <1>3 DEF CancelStep, CancelArrives, CancelNothing, CancelAgain, CancelQueued,
         CancelRunning, CancelUpdate, CancelSignal, CancelPublish, CancelFails
  <2>2. target[c] = r
    BY <2>1 DEF CancelCommit, TypeOK
  <2> QED
    BY <2>1, <2>2
<1> QED
  BY <1>1, <1>2, <1>3 DEF Next

(* A calm run that has its outcome is past every claim and final commit. *)
LEMMA CalmOutcomeStep ==
  ASSUME TypeOK, HandsInv, Next, NEW r \in Runs, Calm(r),
         StatusOf(r) \in {"succeeded", "failed"}
  PROVE  StatusOf(r)' \in {StatusOf(r), "cancelled"}
<1>1. row[r] \in Row /\ row[r] # NoRow /\ starts[r] = 1 /\ finishes[r] = 1
  BY RowsInHand, NoRowAssumption DEF Calm, CountsInv
<1>2. CASE row'[r] = row[r]
  BY <1>2 DEF StatusOf
<1>3. CASE row'[r] # row[r]
  <2>1. ~SubmitCommit(r)
    BY <1>1 DEF SubmitCommit, HandsInv
  <2>2. ASSUME NEW w \in Workers, job[w] = r, ClaimCommit(w) \/ FinalCommit(w) PROVE FALSE
    <3>1. Engaged(w, r) /\ wpc[w] \in {"claim_commit", "final_commit"}
      BY <2>2 DEF Engaged, ClaimCommit, FinalCommit
    <3> QED
      BY <1>1, <3>1 DEF Calm, EngagedInv, ClaimSteps
  <2>3. ASSUME NEW c \in Requests, target[c] = r, CancelCommit(c)
        PROVE  StatusOf(r)' \in {StatusOf(r), "cancelled"}
    <3> DEFINE new == Flush(row[r], corm[c], cobj[c])
    <3>1. Writing(c, r) /\ corm[c] \in Row /\ row' = [row EXCEPT ![r] = new]
      BY <2>3 DEF CancelCommit, Writing, HandsInv
    <3>2. cobj[c] = Blank("cancelled") /\ ColumnsAgree(row[r])
          /\ (corm[c].status = "cancelled" /\ ~NoColumns(corm[c]) => row[r].status = "cancelled")
      BY <1>1, <3>1 DEF Calm, LateCancelInv, CountsInv, StatusOf
    <3>3. new \in Row /\ (new.status = "cancelled" \/ new = row[r])
      BY <1>1, <3>1, <3>2, CancelFlush
    <3> HIDE DEF new
    <3>4. row'[r] = new /\ new # NoRow
      BY <3>1, <3>3, NoRowAssumption DEF TypeOK
    <3> QED
      BY <1>1, <3>3, <3>4 DEF StatusOf
  <2> QED
    BY <1>3, <2>1, <2>2, <2>3, WritersOfRow
<1> QED
  BY <1>2, <1>3

(* Duplicates or not, an outcome stands unless the run was raced for. *)
THEOREM OutcomeStandsWithoutRace == ResendSpec => CalmOutcomeStands
<1> DEFINE Stands == \A r \in Runs \ raced : StatusOf(r) \in {"succeeded", "failed"} =>
                        StatusOf(r)' \in {StatusOf(r), "cancelled"}
<1>1. ASSUME ResendInv, PipelineStep PROVE Stands
  BY <1>1, CalmOutcomeStep DEF ResendInv, PipelineStep
<1>2. ASSUME NEW s \in Runs, EnqueueReplyLost(s) PROVE Stands
  BY <1>2 DEF EnqueueReplyLost, StatusOf
<1>3. ResendInv /\ [ResendNext]_resendVars => [Stands]_resendVars
  BY <1>1, <1>2 DEF ResendNext
<1>4. CalmOutcomeStands <=> [][Stands]_resendVars
  BY DEF CalmOutcomeStands
<1> HIDE DEF Stands
<1> QED
  BY <1>3, <1>4, ResendInvariance, PTL DEF ResendSpec
=============================================================================
