----------------------------- MODULE EvalHarness -----------------------------
(***************************************************************************)
(* _run_case of the eval harness: it submits a run, reads the event stream *)
(* of that run up to a terminal event, and judges the run by what it read. *)
(* The run and the API's side of the stream are EventStream; the harness   *)
(* is one of its clients and reads what the handler has sent.  It checks   *)
(* the status of the submission only: whatever else answers the GET is     *)
(* read as a stream, and a stream that ends counts as read.                *)
(***************************************************************************)
EXTENDS EventStream

CONSTANT Harness

ASSUME HarnessAssumption == Harness \in Clients

VARIABLES
    hpc,        \* next step of _run_case
    read,       \* lines of the stream read so far
    runStatus,  \* run_status of the CaseResult
    passed,     \* passed of the CaseResult
    contains,   \* has the result the expected text, or is none asked for?
    asksTool,   \* has the case a "tool_called" assertion?
    wanted      \* the tool_call events that name the expected tool

caseVars == <<contains, asksTool, wanted>>
harnessVars == <<hpc, read, runStatus, passed>>
allVars == <<vars, harnessVars, caseVars>>

Steps == UNION {{DeriveEvents(m)[k] : k \in DOMAIN DeriveEvents(m)} : m \in Messages}

(* What a case may assert of its run; the calls that name a tool are those *)
(* of one case, so there are none without the assertion.                   *)
Cases == {case \in [asksTool : BOOLEAN,
                    wanted : SUBSET {e \in Steps : e.type = "tool_call"}] :
            ~case.asksTool => case.wanted = {}}

HarnessInit ==
    /\ Init
    /\ hpc = "submit"
    /\ read = 0
    /\ runStatus = "unknown"
    /\ passed = FALSE
    /\ contains = FALSE
    /\ \E case \in Cases : asksTool = case.asksTool /\ wanted = case.wanted

(* The API answered 201: the run is committed and in the list. *)
Submit ==
    /\ hpc = "submit"
    /\ hpc' = "open"
    /\ UNCHANGED <<vars, read, runStatus, passed, caseVars>>

(* Reported without a verdict: the submission or the stream failed. *)
GiveUp ==
    /\ hpc' = "reported"
    /\ runStatus' = "harness_error"
    /\ passed' = FALSE
    /\ UNCHANGED <<read, caseVars>>

SubmitFails ==
    /\ StopsOn
    /\ hpc = "submit"
    /\ GiveUp
    /\ UNCHANGED vars

(* GET /runs/{id}/events reaches run_events. *)
OpenStream ==
    /\ hpc = "open"
    /\ ReadRun(Harness)
    /\ hpc' = "stream"
    /\ UNCHANGED <<read, runStatus, passed, caseVars>>

(* The GET is answered with an error: no line of the body starts with      *)
(* "data: ", and nobody looks at the status.                               *)
OpenRefused ==
    /\ StopsOn
    /\ hpc = "open"
    /\ hpc' = "judge"
    /\ UNCHANGED <<vars, read, runStatus, passed, caseVars>>

(* A line that is no terminal event. *)
ReadStep ==
    /\ hpc = "stream"
    /\ read < Len(sent[Harness])
    /\ ~Closing(sent[Harness][read + 1])
    /\ read' = read + 1
    /\ UNCHANGED <<vars, hpc, runStatus, passed, caseVars>>

(* Mutant of ReadEnd: any terminal event counts as success. *)
ReadAnyEnd ==
    /\ hpc = "stream"
    /\ read < Len(sent[Harness])
    /\ Closing(sent[Harness][read + 1])
    /\ read' = read + 1
    /\ runStatus' = "succeeded"
    /\ hpc' = "judge"
    /\ UNCHANGED <<vars, passed, caseVars>>

(* Mutant of ReadEnd: the event's type is the status, done included. *)
ReadEndUntranslated ==
    /\ hpc = "stream"
    /\ read < Len(sent[Harness])
    /\ Closing(sent[Harness][read + 1])
    /\ runStatus' = sent[Harness][read + 1].type
    /\ read' = read + 1
    /\ hpc' = "judge"
    /\ UNCHANGED <<vars, passed, caseVars>>

(* The terminal event: its type becomes the status, done counts as         *)
(* succeeded, and the loop breaks.                                         *)
ReadEnd ==
    /\ hpc = "stream"
    /\ read < Len(sent[Harness])
    /\ LET event == sent[Harness][read + 1]
       IN  /\ Closing(event)
           /\ runStatus' = IF event.type = "done" THEN "succeeded" ELSE event.type
    /\ read' = read + 1
    /\ hpc' = "judge"
    /\ UNCHANGED <<vars, passed, caseVars>>

(* The calls of the expected tool among the lines read. *)
CallsRead == wanted \intersect {sent[Harness][i] : i \in 1..read}

(* The gate on the status, then the two assertions: on the text the done   *)
(* event came with, which is any, and on the calls.                        *)
Judge ==
    /\ hpc = "judge"
    /\ contains' \in BOOLEAN
    /\ passed' = (/\ runStatus = "succeeded"
                  /\ contains'
                  /\ asksTool => CallsRead # {})
    /\ hpc' = "reported"
    /\ UNCHANGED <<vars, read, runStatus, asksTool, wanted>>

(* The response is over, and with it the handler if it still sends. *)
HandlerEnds ==
    \/ Leave(Harness)
    \/ cpc[Harness] \notin {"replay", "subscribe", "listen"} /\ UNCHANGED vars

(* An exception while the stream is read. *)
StreamError == hpc = "stream" /\ GiveUp /\ HandlerEnds

(* Mutant of ReadTimeout: the stream is read without a timeout. *)
ReadForever == FALSE

(* Nothing arrived for PER_CASE_TIMEOUT seconds: httpx raises ReadTimeout. *)
ReadTimeout ==
    /\ read = Len(sent[Harness])
    /\ StreamError

(* The connection breaks: httpx raises. *)
StreamBreaks == StopsOn /\ StreamError

(* The body ends in order without a terminal event; so does the loop.      *)
StreamEndsEarly ==
    /\ StopsOn
    /\ hpc = "stream"
    /\ read = Len(sent[Harness])
    /\ HandlerEnds
    /\ hpc' = "judge"
    /\ UNCHANGED <<read, runStatus, passed, caseVars>>

(* What serves the run: no step before it is submitted, none that matters  *)
(* once the case is reported; the handler of the harness starts with       *)
(* OpenStream.  Other clients of the API may cancel the run.               *)
ServerStep ==
    /\ hpc \notin {"submit", "reported"}
    /\ \/ RunStep \/ WorkerStops \/ Serve(Harness)
       \/ \E k \in Requests : CancelStep(k)
    /\ UNCHANGED <<harnessVars, caseVars>>

CaseStep == Submit \/ OpenStream \/ ReadStep \/ ReadEnd \/ Judge \/ ReadTimeout

HarnessNext ==
    CaseStep \/ SubmitFails \/ OpenRefused \/ StreamBreaks \/ StreamEndsEarly \/ ServerStep

-----------------------------------------------------------------------------
(* The worker stored that the run succeeded; a cancel that raced it may    *)
(* have written over the row since.                                        *)
Succeeded == stage \in {"announce", "over", "silent"} /\ outcome = "succeeded"

CaseHolds ==
    /\ Succeeded
    /\ contains
    /\ asksTool => wanted \intersect Published # {}

(* A case passes only if the run itself did: the worker stored a success   *)
(* and the agent made the call, whatever reached the harness late or       *)
(* twice.                                                                  *)
NoFalsePass == passed => CaseHolds

(* A run that fulfils its case and is not a harness_error is failed by its *)
(* stream only: every call of the tool was published between the SELECT    *)
(* and the SUBSCRIBE of the handler (runs.py:92-130), or the stream was    *)
(* refused or ended without a terminal event (harness.py:66-105), or it    *)
(* was closed by a cancel that lost the race for the row (runs.py:77-82).  *)
FailedByStreamOnly ==
    (hpc = "reported" /\ ~passed /\ runStatus # "harness_error" /\ CaseHolds)
        => \/ asksTool /\ (wanted \intersect Published) \subseteq missed[Harness]
           \/ runStatus = "unknown"
           \/ runStatus = "cancelled" /\ overwrote
=============================================================================
