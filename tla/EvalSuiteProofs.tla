--------------------------- MODULE EvalSuiteProofs ---------------------------
(***************************************************************************)
(* Proofs about EvalHarness and EvalSuite: what a verdict and an exit code *)
(* mean, for any transcript, any number of clients and of cases.           *)
(***************************************************************************)
EXTENDS EvalSuite, EventStreamProofs

-----------------------------------------------------------------------------
(* What a client is sent is of the run *)

(* The steps of the first n messages. *)
StepsStored(n) == UNION {EventsIn(DeriveEvents(m)) : m \in 1..n}

OfTheRun(s, n) == \A i \in 1..Len(s) : Closing(s[i]) \/ s[i] \in StepsStored(n)

(* Nothing is sent that is not stored, and a run succeeds only after the   *)
(* last event of its last message was published.                           *)
StoredInv ==
    /\ stage \in {"queued", "claiming", "agent"} => outcome = "none"
    /\ outcome = "succeeded" => CaughtUp
    /\ \A c \in Clients : OfTheRun(sent[c], stored) /\ OfTheRun(inbox[c], stored)

LEMMA MoreStored ==
    ASSUME NEW n \in Nat, NEW m \in Nat, n <= m
    PROVE  StepsStored(n) \subseteq StepsStored(m) /\ \A s : OfTheRun(s, n) => OfTheRun(s, m)
  <1>1. StepsStored(n) \subseteq StepsStored(m)
    <2>1. 1..n \subseteq 1..m
      OBVIOUS
    <2>2. QED
      BY <2>1 DEF StepsStored
  <1>2. QED
    BY <1>1 DEF OfTheRun

LEMMA OneMoreOfTheRun ==
    ASSUME NEW n, NEW s \in Seq(EventSet), OfTheRun(s, n),
           NEW e \in EventSet, Closing(e) \/ e \in StepsStored(n)
    PROVE  OfTheRun(Append(s, e), n)
  <1>1. PICK t : t = Append(s, e)
    OBVIOUS
  <1>2. Len(s) \in Nat /\ Len(t) = Len(s) + 1 /\ t[Len(s) + 1] = e /\ \A i \in 1..Len(s) : t[i] = s[i]
    BY <1>1
  <1>3. QED
    BY <1>1, <1>2 DEF OfTheRun

LEMMA OneLessOfTheRun ==
    ASSUME NEW n, NEW s \in Seq(EventSet), OfTheRun(s, n), s # << >>
    PROVE  OfTheRun(Tail(s), n) /\ (Closing(Head(s)) \/ Head(s) \in StepsStored(n)) /\ Head(s) \in EventSet
  <1>1. /\ Len(s) \in Nat /\ Len(s) >= 1 /\ Head(s) = s[1] /\ Head(s) \in EventSet
        /\ Len(Tail(s)) = Len(s) - 1 /\ \A i \in 1..Len(Tail(s)) : Tail(s)[i] = s[i + 1]
    BY HeadTailProperties
  <1>2. QED
    BY <1>1 DEF OfTheRun

LEMMA EmptyOfTheRun == \A n : OfTheRun(<< >>, n)
  BY DEF OfTheRun

LEMMA ReplayOfTheRun ==
    ASSUME NEW r \in 0..Len(Transcript), NEW n \in Nat, r <= n
    PROVE  OfTheRun(Replay[r], n)
  <1>1. ReplayUpTo(Replay[r], r) /\ r \in Nat
    BY Replayed, ReplayStepwise
  <1>2. ASSUME NEW i \in 1..Len(Replay[r])
        PROVE  Replay[r][i] \in StepsStored(n)
    <2>1. Replay[r][i] \in EventsIn(Replay[r])
      BY DEF EventsIn
    <2>2. PICK m \in 1..r : Replay[r][i] \in EventsIn(DeriveEvents(m))
      BY <1>1, <2>1 DEF ReplayUpTo
    <2>3. m \in 1..n
      BY <1>1
    <2>4. QED
      BY <2>2, <2>3 DEF StepsStored
  <1>3. QED
    BY <1>2 DEF OfTheRun

LEMMA StoredInit == Init => StoredInv
  BY EmptyOfTheRun DEF Init, StoredInv

(* A PUBLISH adds at most its event to what waits for a client. *)
LEMMA PublishOfTheRun ==
    ASSUME IInv, StoredInv, NEW e \in EventSet, Publish(e), stored' = stored,
           Closing(e) \/ e \in StepsStored(stored), NEW c \in Clients
    PROVE  OfTheRun(sent'[c], stored') /\ OfTheRun(inbox'[c], stored')
  <1>1. inbox[c] \in Seq(EventSet) /\ OfTheRun(sent[c], stored) /\ OfTheRun(inbox[c], stored)
    BY DEF IInv, TypeOK, StoredInv
  <1>2. sent'[c] = sent[c] /\ (inbox'[c] = inbox[c] \/ inbox'[c] = Append(inbox[c], e))
    BY PublishMeans DEF IInv, Hears
  <1>3. QED
    BY <1>1, <1>2, OneMoreOfTheRun

(* The steps that publish nothing. *)
LEMMA StoredQuietStep ==
    ASSUME IInv, StoredInv, QuietStep
    PROVE  StoredInv'
  <1>1. UNCHANGED <<sent, inbox>> /\ stored \in Nat /\ (stored' = stored \/ stored' = stored + 1)
    BY QuietStepFrame DEF clientVars
  <1>2. stored' \in Nat /\ stored <= stored'
    BY <1>1
  <1>3. \A c \in Clients : OfTheRun(sent'[c], stored') /\ OfTheRun(inbox'[c], stored')
    BY <1>1, <1>2, MoreStored DEF StoredInv
  <1>4. /\ stage' \in {"queued", "claiming", "agent"} => outcome' = "none"
        /\ outcome' = "succeeded" => CaughtUp'
    <2>1. CASE StoreMessage
      BY <2>1 DEF StoreMessage, StoredInv
    <2>2. CASE \E s \in Terminal : AgentEnds(s)
      BY <2>2 DEF AgentEnds, CaughtUp
    <2>3. CASE ClaimGet \/ ClaimSkip \/ ClaimCommit \/ FinalGet \/ FinalRejected \/ FinalCommit \/ WorkerStops
      BY <2>3 DEF ClaimGet, ClaimSkip, ClaimCommit, FinalGet, FinalRejected, FinalCommit, WorkerStops, Write,
                  StoredInv, CaughtUp
    <2>4. CASE \E k \in Requests : CancelGet(k) \/ CancelAgain(k) \/ CancelCommit(k) \/ CancelFails(k)
      BY <2>4 DEF CancelGet, CancelAgain, CancelCommit, CancelFails, Write, StoredInv, CaughtUp
    <2>5. QED
      BY <2>1, <2>2, <2>3, <2>4 DEF QuietStep
  <1>5. QED
    BY <1>3, <1>4 DEF StoredInv

LEMMA StoredPublishEvent ==
    ASSUME IInv, StoredInv, PublishEvent
    PROVE  StoredInv'
  <1>1. Len(Transcript) \in Nat /\ stored \in 0..Len(Transcript) /\ stored \in Nat /\ emitted \in Nat
    BY ReplayStepwise DEF IInv, TypeOK
  <1>2. PICK e : e = DeriveEvents(stored)[emitted + 1]
    OBVIOUS
  <1>3. stage = "agent" /\ ~CaughtUp /\ Publish(e) /\ UNCHANGED <<stored, stage, outcome>>
    BY <1>2 DEF PublishEvent
  <1>4. stored \in Messages /\ emitted + 1 \in 1..Len(DeriveEvents(stored))
    <2>1. stored # 0 /\ emitted <= Len(DeriveEvents(stored)) /\ emitted # Len(DeriveEvents(stored))
      BY <1>1, <1>3 DEF IInv, RunInv, EmitInv, CaughtUp
    <2>2. stored \in Messages
      BY <1>1, <2>1 DEF Messages
    <2>3. Len(DeriveEvents(stored)) \in Nat
      BY <2>2, Derived, LenProperties
    <2>4. QED
      BY <1>1, <2>1, <2>2, <2>3
  <1>5. e \in EventSet /\ e \in StepsStored(stored)
    <2>1. e \in EventsIn(DeriveEvents(stored))
      BY <1>2, <1>4 DEF EventsIn
    <2>2. e \in StepsOf(stored)
      BY <1>2, <1>4, Derived, ElementOfSeq
    <2>3. stored \in 1..stored
      BY <1>1, <1>4 DEF Messages
    <2>4. QED
      BY <1>4, <2>1, <2>2, <2>3, StepEvents DEF StepsStored
  <1>6. \A c \in Clients : OfTheRun(sent'[c], stored') /\ OfTheRun(inbox'[c], stored')
    BY <1>3, <1>5, PublishOfTheRun
  <1>7. outcome' = "none"
    BY <1>3 DEF StoredInv
  <1>8. QED
    BY <1>6, <1>7 DEF StoredInv

(* The end is announced, by the worker or by a cancel request. *)
LEMMA StoredEnd ==
    ASSUME IInv, StoredInv, NEW s \in Terminal, Publish(EndEvent(s)),
           UNCHANGED <<stored, emitted, outcome>>, stage' \in {stage, "over"}
    PROVE  StoredInv'
  <1>1. PICK e : e = EndEvent(s)
    OBVIOUS
  <1>2. e \in EventSet /\ Closing(e) /\ Publish(e)
    BY <1>1, EndEvents
  <1>3. \A c \in Clients : OfTheRun(sent'[c], stored') /\ OfTheRun(inbox'[c], stored')
    BY <1>2, PublishOfTheRun
  <1>4. CaughtUp' = CaughtUp
    BY DEF CaughtUp
  <1>5. QED
    BY <1>3, <1>4 DEF StoredInv

(* The clients' steps. *)
LEMMA StoredClientStep ==
    ASSUME IInv, StoredInv, NEW d \in Clients, ReadRun(d) \/ Serve(d) \/ Leave(d)
    PROVE  StoredInv'
  <1>1. /\ stored' = stored /\ stage' = stage /\ status' = status /\ outcome' = outcome
        /\ CaughtUp' = CaughtUp
    BY ClientStepFrame DEF runVars, CaughtUp
  <1>2. stored \in Nat /\ replayed[d] \in 0..Len(Transcript) /\ replayed[d] <= stored
    BY ReplayStepwise DEF IInv, TypeOK, ClientInv, PhaseInv
  <1>3. ASSUME NEW c \in Clients
        PROVE  OfTheRun(sent'[c], stored) /\ OfTheRun(inbox'[c], stored)
    <2>1. /\ sent[c] \in Seq(EventSet) /\ inbox[c] \in Seq(EventSet)
          /\ OfTheRun(sent[c], stored) /\ OfTheRun(inbox[c], stored)
      BY DEF IInv, TypeOK, StoredInv
    <2>2. CASE c # d
      BY <2>1, <2>2, ClientStepFrame
    <2>3. CASE c = d
      <3>1. OfTheRun(Replay[replayed[c]], stored) /\ Replay[replayed[c]] \in Seq(EventSet)
        BY <1>2, <2>3, ReplayOfTheRun, ReplayIs
      <3>2. \/ sent'[c] = sent[c]
            \/ sent'[c] = Replay[replayed[c]]
            \/ seen[c] \in Terminal /\ sent'[c] = Append(Replay[replayed[c]], EndEvent(seen[c]))
            \/ inbox[c] # << >> /\ sent'[c] = Append(sent[c], Head(inbox[c]))
        BY <2>3 DEF IInv, TypeOK, ReadRun, Serve, ReadHistory, ReplayLive, ReplayEnded, Subscribe, Forward, Leave
      <3>3. \/ inbox'[c] = inbox[c] \/ inbox'[c] = << >>
            \/ inbox[c] # << >> /\ inbox'[c] = Tail(inbox[c])
        BY <2>3 DEF IInv, TypeOK, ReadRun, Serve, ReadHistory, ReplayLive, ReplayEnded, Subscribe, Forward, Leave
      <3>4. OfTheRun(inbox'[c], stored)
        BY <2>1, <3>3, OneLessOfTheRun, EmptyOfTheRun
      <3>5. OfTheRun(sent'[c], stored)
        BY <2>1, <3>1, <3>2, OneMoreOfTheRun, OneLessOfTheRun, EndEvents
      <3>6. QED
        BY <3>4, <3>5
    <2>4. QED
      BY <2>2, <2>3
  <1>4. QED
    BY <1>1, <1>3 DEF StoredInv

LEMMA StoredStep ==
    ASSUME IInv, StoredInv, [Next]_vars
    PROVE  StoredInv'
  <1>1. CASE UNCHANGED vars
    BY <1>1 DEF StoredInv, CaughtUp, vars, runVars, clientVars
  <1>2. CASE Announce
    <2>1. outcome \in Terminal
      BY <1>2 DEF IInv, RunInv, StageInv, Announce
    <2>2. QED
      BY <1>2, <2>1, StoredEnd DEF Announce
  <1>3. ASSUME NEW k \in Requests, CancelPublish(k)
        PROVE  StoredInv'
    BY <1>3, StoredEnd DEF CancelPublish, Terminal
  <1>4. QED
    BY <1>1, <1>2, <1>3, StoredQuietStep, StoredPublishEvent, StoredClientStep
       DEF Next, RunStep, CancelStep, CancelGoesOn, QuietStep

(* Another run starts in an initial state of its own. *)
LEMMA Afresh == Init' => IInv' /\ StoredInv'
  BY InitHolds, StoredInit, PTL

-----------------------------------------------------------------------------
(* One case *)

(* What the harness makes of the event that ends the stream. *)
Verdict(event) == IF event.type = "done" THEN "succeeded" ELSE event.type

(* The harness has read a whole stream up to the event that ends it. *)
AllRead ==
    /\ cpc[Harness] = "closed"
    /\ read = Len(sent[Harness])
    /\ runStatus = Verdict(LastSent(Harness))

(* A verdict is reached on all there was to read; a stream without an end  *)
(* leaves the status unknown, and then no case passes.                     *)
CaseInv ==
    /\ read \in Nat /\ passed \in BOOLEAN /\ contains \in BOOLEAN /\ asksTool \in BOOLEAN
    /\ \A e \in wanted : e.type = "tool_call"
    /\ hpc # "reported" => ~passed
    /\ hpc \in {"submit", "open", "stream"} => runStatus = "unknown"
    /\ hpc = "judge" => runStatus = "unknown" \/ AllRead
    /\ hpc = "reported" =>
          \/ runStatus \in {"harness_error", "unknown"} /\ ~passed
          \/ AllRead /\ (passed <=> /\ runStatus = "succeeded"
                                    /\ contains
                                    /\ asksTool => CallsRead # {})

LEMMA CaseInit == HarnessInit => CaseInv
  <1> SUFFICES ASSUME HarnessInit PROVE CaseInv
    OBVIOUS
  <1>1. asksTool \in BOOLEAN /\ \A e \in wanted : e.type = "tool_call"
    BY DEF HarnessInit, Cases
  <1>2. hpc = "submit" /\ runStatus = "unknown" /\ read \in Nat /\ passed = FALSE /\ contains = FALSE
    BY DEF HarnessInit
  <1>3. QED
    BY <1>1, <1>2 DEF CaseInv

(* A step of the case that leaves the run and its stream alone, or is the  *)
(* stream's first or last.                                                 *)
LEMMA HarnessStepIsNext ==
    ASSUME HarnessNext
    PROVE  [Next]_vars
  BY HarnessAssumption DEF HarnessNext, CaseStep, Submit, OpenStream, OpenRefused, ReadStep, ReadEnd, Judge,
     ReadTimeout, StreamBreaks, StreamError, StreamEndsEarly, HandlerEnds, SubmitFails, ServerStep, Serve, Next

(* Once the stream is closed nothing more is sent. *)
LEMMA ReadForGood ==
    ASSUME cpc[Harness] = "closed",
           \/ RunStep \/ WorkerStops \/ Serve(Harness)
           \/ \E k \in Requests : CancelStep(k)
    PROVE  cpc'[Harness] = "closed" /\ sent'[Harness] = sent[Harness]
  <1>1. ~Serve(Harness)
    BY DEF Serve, ReadHistory, ReplayLive, ReplayEnded, Subscribe, Forward
  <1>2. CASE RunStep \/ WorkerStops
    BY <1>2 DEF RunStep, ClaimGet, ClaimSkip, ClaimCommit, StoreMessage, PublishEvent, AgentEnds, FinalGet,
                FinalRejected, FinalCommit, Announce, WorkerStops, Publish, clientVars
  <1>3. ASSUME NEW k \in Requests, CancelStep(k)
        PROVE  cpc' = cpc /\ sent' = sent
    BY <1>3 DEF CancelStep, CancelGoesOn, CancelGet, CancelAgain, CancelCommit, CancelPublish, CancelFails,
                Publish, clientVars
  <1>4. QED
    BY <1>1, <1>2, <1>3

(* The event that ends the stream is the last one. *)
LEMMA EndIsLast ==
    ASSUME IInv, NEW i \in Nat, i < Len(sent[Harness]), Closing(sent[Harness][i + 1])
    PROVE  cpc[Harness] = "closed" /\ i + 1 = Len(sent[Harness])
  <1>1. PICK s : s = sent[Harness]
    OBVIOUS
  <1>2. s \in Seq(EventSet) /\ Len(s) \in Nat
    BY <1>1, HarnessAssumption DEF IInv, TypeOK
  <1>3. i + 1 \in 1..Len(s) /\ Closing(s[i + 1])
    BY <1>1, <1>2
  <1>4. cpc[Harness] = "closed"
    BY <1>1, <1>3, HarnessAssumption DEF IInv, ClientInv, PhaseInv
  <1>5. i + 1 = Len(s)
    BY <1>1, <1>3, <1>4, HarnessAssumption DEF IInv, ClientInv, ClosedInv
  <1>6. QED
    BY <1>1, <1>4, <1>5

LEMMA CaseKeeps ==
    ASSUME IInv, CaseInv, HarnessNext
    PROVE  CaseInv'
  <1>1. CASE Submit \/ OpenStream \/ OpenRefused \/ ReadStep \/ StreamEndsEarly
    BY <1>1 DEF CaseInv, caseVars, Submit, OpenStream, OpenRefused, ReadStep, StreamEndsEarly
  <1>2. CASE SubmitFails \/ ReadTimeout \/ StreamBreaks
    <2>1. GiveUp /\ hpc # "reported"
      BY <1>2 DEF SubmitFails, ReadTimeout, StreamBreaks, StreamError
    <2>2. QED
      BY <2>1 DEF CaseInv, GiveUp, caseVars
  <1>3. CASE ReadEnd
    <2>1. /\ hpc = "stream" /\ hpc' = "judge" /\ read < Len(sent[Harness]) /\ read' = read + 1
          /\ Closing(sent[Harness][read + 1]) /\ runStatus' = Verdict(sent[Harness][read + 1])
          /\ UNCHANGED <<vars, passed, caseVars>>
      BY <1>3 DEF ReadEnd, Verdict
    <2>2. cpc[Harness] = "closed" /\ read + 1 = Len(sent[Harness])
      BY <2>1, EndIsLast DEF CaseInv
    <2>3. UNCHANGED <<cpc, sent>>
      BY <2>1 DEF vars, runVars, clientVars
    <2>4. AllRead'
      BY <2>1, <2>2, <2>3 DEF AllRead, LastSent, Verdict
    <2>5. QED
      BY <2>1, <2>4 DEF CaseInv, caseVars
  <1>4. CASE Judge
    <2>1. /\ hpc = "judge" /\ hpc' = "reported" /\ contains' \in BOOLEAN
          /\ passed' = (runStatus = "succeeded" /\ contains' /\ (asksTool => CallsRead # {}))
          /\ UNCHANGED <<cpc, sent, read, runStatus, asksTool, wanted>>
      BY <1>4 DEF Judge, vars, runVars, clientVars
    <2>2. AllRead' = AllRead /\ CallsRead' = CallsRead
      BY <2>1 DEF AllRead, CallsRead, LastSent, Verdict
    <2>3. QED
      BY <2>1, <2>2 DEF CaseInv
  <1>5. CASE ServerStep
    <2>1. /\ hpc # "reported" /\ UNCHANGED <<hpc, read, runStatus, passed, contains, asksTool, wanted>>
          /\ \/ RunStep \/ WorkerStops \/ Serve(Harness)
             \/ \E k \in Requests : CancelStep(k)
      BY <1>5 DEF ServerStep, harnessVars, caseVars
    <2>2. ASSUME AllRead
          PROVE  AllRead'
      <3>1. cpc'[Harness] = "closed" /\ sent'[Harness] = sent[Harness]
        BY <2>1, <2>2, ReadForGood DEF AllRead
      <3>2. QED
        BY <2>1, <2>2, <3>1 DEF AllRead, LastSent, Verdict
    <2>3. QED
      BY <2>1, <2>2 DEF CaseInv
  <1>6. QED
    BY <1>1, <1>2, <1>3, <1>4, <1>5 DEF HarnessNext, CaseStep

(* Of a run that succeeded every step stored was published. *)
LEMMA AllPublished ==
    ASSUME IInv, StoredInv, outcome = "succeeded"
    PROVE  StepsStored(stored) \subseteq Published
  <1>1. /\ stored \in 0..Len(Transcript) /\ stored \in Nat /\ emitted \in Nat
        /\ emitted = IF stored = 0 THEN 0 ELSE Len(DeriveEvents(stored))
    BY ReplayStepwise DEF IInv, TypeOK, StoredInv, CaughtUp
  <1>2. ASSUME NEW e \in StepsStored(stored)
        PROVE  e \in PublishedUpTo(stored, emitted)
    <2>1. PICK m \in 1..stored : e \in EventsIn(DeriveEvents(m))
      BY <1>2 DEF StepsStored
    <2>2. PICK k \in 1..Len(DeriveEvents(m)) : e = DeriveEvents(m)[k]
      BY <2>1 DEF EventsIn
    <2>3. m < stored \/ k <= emitted
      <3>1. CASE m = stored
        <4>1. stored # 0 /\ k \in 1..emitted
          BY <1>1, <3>1
        <4>2. QED
          BY <1>1, <4>1
      <3>2. CASE m # stored
        BY <1>1, <3>2
      <3>3. QED
        BY <3>1, <3>2
    <2>4. QED
      BY <1>1, <2>2, <2>3, PublishedSteps
  <1>3. QED
    BY <1>2, PublishedIs

(* What a stream that ended says of the run: "succeeded" of none that did  *)
(* not succeed, and nothing else of one that did but the "cancelled" of a  *)
(* request that wrote over the row.                                        *)
LEMMA VerdictIs ==
    ASSUME IInv, AllRead
    PROVE  /\ runStatus = "succeeded" => Succeeded /\ LastSent(Harness).type # "cancelled"
           /\ Succeeded => runStatus = "succeeded" \/ (runStatus = "cancelled" /\ overwrote)
  <1>1. Tells(LastSent(Harness))
    BY HarnessAssumption DEF IInv, ClientInv, ClosedInv, AllRead
  <1>2. PICK s \in Terminal : LastSent(Harness) = EndEvent(s) /\ Told(s)
    BY <1>1 DEF Tells
  <1>3. /\ s = "succeeded" => runStatus = "succeeded"
        /\ s = "failed" => runStatus = "error"
        /\ s = "cancelled" => runStatus = "cancelled"
        /\ s # "cancelled" => LastSent(Harness).type # "cancelled"
    BY <1>2 DEF AllRead, Verdict, EndEvent, Terminal
  <1>4. s # "cancelled" => stage \in {"announce", "over", "silent"} /\ outcome = s
    BY <1>2 DEF Told
  <1>5. Succeeded /\ s = "cancelled" => overwrote
    BY <1>2 DEF Succeeded, Told, IInv, RunInv, StageInv
  <1>6. QED
    BY <1>3, <1>4, <1>5 DEF Succeeded, Terminal

(* A call read is a call the run published. *)
LEMMA NoFalsePassHolds == IInv /\ StoredInv /\ CaseInv => NoFalsePass
  <1> SUFFICES ASSUME IInv, StoredInv, CaseInv, passed PROVE CaseHolds
    BY DEF NoFalsePass
  <1>1. AllRead /\ runStatus = "succeeded" /\ contains /\ (asksTool => CallsRead # {})
    BY DEF CaseInv
  <1>2. Succeeded /\ outcome = "succeeded"
    BY <1>1, VerdictIs DEF Succeeded
  <1>3. ASSUME NEW e \in CallsRead
        PROVE  e \in wanted \intersect Published
    <2>1. PICK s : s = sent[Harness]
      OBVIOUS
    <2>2. s \in Seq(EventSet) /\ read = Len(s) /\ OfTheRun(s, stored)
      BY <1>1, <2>1, HarnessAssumption DEF IInv, TypeOK, StoredInv, AllRead
    <2>3. e \in wanted /\ \E i \in 1..Len(s) : e = s[i]
      BY <1>3, <2>1, <2>2 DEF CallsRead
    <2>4. ~Closing(e)
      BY <2>3 DEF CaseInv, Closing
    <2>5. e \in StepsStored(stored)
      BY <2>2, <2>3, <2>4 DEF OfTheRun
    <2>6. QED
      BY <1>2, <2>3, <2>5, AllPublished
  <1>4. QED
    BY <1>1, <1>2, <1>3 DEF CaseHolds

LEMMA FailedByStreamOnlyHolds == IInv /\ CaseInv => FailedByStreamOnly
  <1> SUFFICES ASSUME IInv, CaseInv, hpc = "reported", ~passed, runStatus # "harness_error", CaseHolds,
                      runStatus # "unknown", ~(runStatus = "cancelled" /\ overwrote)
               PROVE  asksTool /\ (wanted \intersect Published) \subseteq missed[Harness]
    BY DEF FailedByStreamOnly
  <1>1. AllRead /\ ~(runStatus = "succeeded" /\ contains /\ (asksTool => CallsRead # {}))
    BY DEF CaseInv
  <1>2. runStatus = "succeeded" /\ contains /\ LastSent(Harness).type # "cancelled"
    BY <1>1, VerdictIs DEF CaseHolds
  <1>3. asksTool /\ CallsRead = {}
    BY <1>1, <1>2
  <1>4. Published \subseteq Sent(Harness) \union missed[Harness]
    BY <1>1, <1>2, HarnessAssumption, NothingElseLostHolds DEF NothingElseLost, AllRead
  <1>5. ASSUME NEW e \in wanted, e \in Sent(Harness)
        PROVE  FALSE
    <2>1. sent[Harness] \in Seq(EventSet) /\ DOMAIN sent[Harness] = 1..Len(sent[Harness])
      BY HarnessAssumption, LenProperties DEF IInv, TypeOK
    <2>2. QED
      BY <1>1, <1>3, <1>5, <2>1 DEF Sent, CallsRead, AllRead
  <1>6. QED
    BY <1>3, <1>4, <1>5

-----------------------------------------------------------------------------
(* The cases one after another *)

(* The results so far, and how many of them were earned. *)
SuiteInv ==
    /\ results \in Seq(BOOLEAN)
    /\ earned \in Nat /\ earned <= Len(results)
    /\ (\A i \in 1..Len(results) : results[i]) <=> earned = Len(results)
    /\ exitCode = "none" => Len(results) < NumCases
    /\ exitCode # "none" => Len(results) = NumCases /\ exitCode = ExitCode(results)

SInv == IInv /\ StoredInv /\ CaseInv /\ SuiteInv

LEMMA SuiteInitHolds == SuiteInit => SInv
  <1> SUFFICES ASSUME SuiteInit PROVE SInv
    OBVIOUS
  <1>1. IInv /\ StoredInv /\ CaseInv
    BY InitHolds, StoredInit, CaseInit DEF SuiteInit, HarnessInit
  <1>2. << >> \in Seq(BOOLEAN) /\ Len(<< >>) = 0
    OBVIOUS
  <1>3. SuiteInv
    BY <1>2, CasesAssumption DEF SuiteInit, SuiteInv
  <1>4. QED
    BY <1>1, <1>3 DEF SInv

(* One result more, earned by a case that passes. *)
LEMMA OneMoreResult ==
    ASSUME NEW r \in Seq(BOOLEAN), NEW p \in BOOLEAN, NEW n \in Nat, NEW m, n <= Len(r),
           (\A i \in 1..Len(r) : r[i]) <=> n = Len(r),
           m = IF p THEN n + 1 ELSE n
    PROVE  /\ Append(r, p) \in Seq(BOOLEAN) /\ Len(Append(r, p)) = Len(r) + 1
           /\ m \in Nat /\ m <= Len(r) + 1
           /\ (\A i \in 1..(Len(r) + 1) : Append(r, p)[i]) <=> m = Len(r) + 1
  <1>1. PICK t : t = Append(r, p)
    OBVIOUS
  <1>2. /\ Len(r) \in Nat /\ t \in Seq(BOOLEAN) /\ Len(t) = Len(r) + 1 /\ t[Len(r) + 1] = p
        /\ \A i \in 1..Len(r) : t[i] = r[i]
    BY <1>1
  <1>3. m \in Nat /\ m <= Len(r) + 1 /\ (m = Len(r) + 1 <=> p /\ n = Len(r))
    BY <1>2
  <1>4. (\A i \in 1..(Len(r) + 1) : t[i]) <=> p /\ \A i \in 1..Len(r) : r[i]
    <2>1. Len(r) + 1 \in 1..(Len(r) + 1) /\ \A i \in 1..Len(r) : i \in 1..(Len(r) + 1)
      BY <1>2
    <2>2. \A i \in 1..(Len(r) + 1) : i = Len(r) + 1 \/ i \in 1..Len(r)
      BY <1>2
    <2>3. QED
      BY <1>2, <2>1, <2>2, Zenon
  <1>5. QED
    BY <1>1, <1>2, <1>3, <1>4, Zenon

LEMMA ReportMeans ==
    ASSUME SInv, Report
    PROVE  /\ results' \in Seq(BOOLEAN) /\ Len(results') = Len(results) + 1
           /\ earned' \in Nat /\ earned' <= Len(results')
           /\ (\A i \in 1..Len(results') : results'[i]) <=> earned' = Len(results')
           /\ exitCode = "none" /\ Len(results) \in Nat
  <1>1. passed => CaseHolds
    BY NoFalsePassHolds DEF SInv, NoFalsePass
  <1>2. results' = Append(results, passed) /\ earned' = IF passed THEN earned + 1 ELSE earned
    BY <1>1 DEF Report
  <1>3. /\ results \in Seq(BOOLEAN) /\ passed \in BOOLEAN /\ earned \in Nat /\ earned <= Len(results)
        /\ (\A i \in 1..Len(results) : results[i]) <=> earned = Len(results)
    BY DEF SInv, SuiteInv, CaseInv
  <1>4. /\ Append(results, passed) \in Seq(BOOLEAN) /\ Len(Append(results, passed)) = Len(results) + 1
        /\ earned' \in Nat /\ earned' <= Len(results) + 1
        /\ (\A i \in 1..(Len(results) + 1) : Append(results, passed)[i]) <=> earned' = Len(results) + 1
    BY <1>2, <1>3, OneMoreResult
  <1>5. Len(results) \in Nat /\ exitCode = "none"
    BY <1>3 DEF Report
  <1>6. QED
    BY <1>2, <1>4, <1>5, Zenon

LEMMA SuiteStepKeeps == SInv /\ [SuiteNext]_suiteVars => SInv'
  <1> SUFFICES ASSUME SInv, [SuiteNext]_suiteVars PROVE SInv'
    OBVIOUS
  <1>1. CASE CaseNext
    <2>1. [Next]_vars /\ UNCHANGED <<results, exitCode, earned>> /\ HarnessNext
      BY <1>1, HarnessStepIsNext DEF CaseNext
    <2>2. IInv' /\ StoredInv' /\ CaseInv'
      BY <2>1, StepKeeps, StoredStep, CaseKeeps DEF SInv
    <2>3. SuiteInv'
      BY <2>1 DEF SInv, SuiteInv
    <2>4. QED
      BY <2>2, <2>3 DEF SInv
  <1>2. CASE NextCase
    <2>1. Report /\ Len(results) + 1 < NumCases /\ FreshRun /\ FreshCase /\ exitCode' = exitCode
      BY <1>2 DEF NextCase
    <2>2. Init'
      BY <2>1 DEF FreshRun, Init
    <2>3. IInv' /\ StoredInv'
      BY <2>2, Afresh
    <2>4. CaseInv'
      BY <2>1 DEF FreshCase, Cases, CaseInv
    <2>5. SuiteInv'
      BY <2>1, ReportMeans, CasesAssumption DEF SuiteInv
    <2>6. QED
      BY <2>3, <2>4, <2>5 DEF SInv
  <1>3. CASE Exit
    <2>1. Report /\ Len(results) + 1 = NumCases /\ exitCode' = ExitCode(results') /\ UNCHANGED allVars
      BY <1>3 DEF Exit
    <2>2. IInv' /\ StoredInv' /\ CaseInv'
      <3>1. UNCHANGED vars /\ UNCHANGED <<hpc, read, runStatus, passed, contains, asksTool, wanted>>
        BY <2>1 DEF allVars, harnessVars, caseVars
      <3>2. IInv' /\ StoredInv'
        BY <3>1, StutterKeeps, StoredStep DEF SInv
      <3>3. CaseInv'
        BY <3>1 DEF SInv, CaseInv, AllRead, CallsRead, LastSent, Verdict, vars, runVars, clientVars
      <3>4. QED
        BY <3>2, <3>3
    <2>3. SuiteInv'
      <3>1. exitCode' # "none"
        BY <2>1 DEF ExitCode
      <3>2. QED
        BY <2>1, <3>1, ReportMeans DEF SuiteInv, ExitCode
    <2>4. QED
      BY <2>2, <2>3 DEF SInv
  <1>4. CASE UNCHANGED suiteVars
    <2>1. /\ UNCHANGED vars /\ UNCHANGED <<results, exitCode, earned>>
          /\ UNCHANGED <<hpc, read, runStatus, passed, contains, asksTool, wanted>>
      BY <1>4 DEF suiteVars, allVars, harnessVars, caseVars
    <2>2. IInv' /\ StoredInv'
      BY <2>1, StutterKeeps, StoredStep DEF SInv
    <2>3. CaseInv'
      BY <2>1 DEF SInv, CaseInv, AllRead, CallsRead, LastSent, Verdict, vars, runVars, clientVars
    <2>4. SuiteInv'
      BY <2>1 DEF SInv, SuiteInv
    <2>5. QED
      BY <2>2, <2>3, <2>4 DEF SInv
  <1>5. QED
    BY <1>1, <1>2, <1>3, <1>4 DEF SuiteNext

THEOREM SuiteInvariance == SuiteSpec => []SInv
  BY SuiteInitHolds, SuiteStepKeeps, PTL DEF SuiteSpec

(* A case passes only if the run succeeded and the agent made the call     *)
(* (runner.py), whatever reached the harness late, twice or not at all.    *)
THEOREM PassesAreEarned == SuiteSpec => []NoFalsePass
  <1>1. SInv => NoFalsePass
    BY NoFalsePassHolds DEF SInv
  <1>2. QED
    BY <1>1, SuiteInvariance, PTL

(* A run that fulfils its case is failed by its stream only: every call of *)
(* the expected tool fell into the gap before the SUBSCRIBE, the stream    *)
(* was refused or had no end (harness.py), or a cancel that lost the race  *)
(* for the row closed it (runs.py).                                        *)
THEOREM OnlyTheStreamFails == SuiteSpec => []FailedByStreamOnly
  <1>1. SInv => FailedByStreamOnly
    BY FailedByStreamOnlyHolds DEF SInv
  <1>2. QED
    BY <1>1, SuiteInvariance, PTL

(* The exit code is 0 exactly when every case passed on a run that         *)
(* fulfilled it (eval/__main__.py), for any number of cases.               *)
THEOREM ExitCodeIsHonest == SuiteSpec => []ExitHonest
  <1>1. ASSUME SInv, exitCode # "none"
        PROVE  exitCode = "0" <=> earned = NumCases
    <2>1. /\ results \in Seq(BOOLEAN) /\ DOMAIN results = 1..Len(results)
          /\ Len(results) = NumCases /\ exitCode = ExitCode(results)
          /\ (\A i \in 1..Len(results) : results[i]) <=> earned = Len(results)
      BY <1>1, LenProperties DEF SInv, SuiteInv
    <2>2. exitCode = "0" <=> \A i \in 1..Len(results) : results[i]
      BY <2>1 DEF ExitCode
    <2>3. QED
      BY <2>1, <2>2
  <1>2. SInv => ExitHonest
    BY <1>1 DEF ExitHonest
  <1>3. QED
    BY <1>2, SuiteInvariance, PTL
=============================================================================
