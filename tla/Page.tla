--------------------------------- MODULE Page ---------------------------------
(***************************************************************************)
(* The browser page (static/index.html): one user, one run at a time, an   *)
(* EventSource on that run's stream, and the requests of the two buttons.  *)
(* A callback runs to its end before the next one begins; the awaits of    *)
(* submitRun and cancelRun let callbacks of other requests in between.     *)
(*                                                                         *)
(* The server is what RunPipeline and EventStream make of it, seen from    *)
(* the page: a run is live and then ends with one of three events, and a   *)
(* stream that subscribes too late misses that event.                      *)
(***************************************************************************)
EXTENDS Naturals, Sequences

CONSTANTS
    Runs,       \* runs the user may start
    Requests,   \* cancel requests that may be under way at once
    NoRun       \* "no run": activeRunId is null

ASSUME NoRunAssumption == NoRun \notin Runs

VARIABLES
    active,     \* activeRunId
    open,       \* runs whose EventSource is not closed
    submitOn,   \* the submit button is enabled
    cancelOn,   \* the cancel button is enabled
    shown,      \* lines of the #stream element, with the run they are about
    posting,    \* submitRun: its POST /runs
    posted,     \* the run the API created for that POST
    asking,     \* cancelRun: the run each POST /runs/{id}/cancel is about
    status,     \* server: what became of each run
    stopping,   \* server: running runs with the cancel key set
    handler,    \* server: handler of each run's stream
    pipe,       \* lines under way to each EventSource
    ended,      \* history: runs whose terminal event reached the page
    missed,     \* history: runs whose terminal event the handler missed
    letGo,      \* history: runs the page gave up on, by a failure
    revived     \* history: cancelled runs a worker claimed all the same

pageVars   == <<active, open, submitOn, cancelOn, shown, posting, posted>>
serverVars == <<status, stopping, handler, pipe>>
history    == <<ended, missed, letGo, revived>>
vars == <<pageVars, asking, serverVars, history>>

(* Mutant of Ends: a row's status in place of the event's type. *)
EndsByStatus == {"done", "failed", "cancelled"}

(* Types of the events that end a stream. *)
Ends == {"done", "error", "cancelled"}

Line(kind, r) == [kind |-> kind, run |-> r]

Init ==
    /\ active = NoRun
    /\ open = {}
    /\ submitOn = TRUE /\ cancelOn = TRUE
    /\ shown = {}
    /\ posting = "no" /\ posted = NoRun
    /\ asking = [q \in Requests |-> NoRun]
    /\ status = [r \in Runs |-> "none"]
    /\ stopping = {}
    /\ handler = [r \in Runs |-> "none"]
    /\ pipe = [r \in Runs |-> << >>]
    /\ ended = {} /\ missed = {} /\ letGo = {} /\ revived = {}

-----------------------------------------------------------------------------
(* submitRun *)

(* Mutant of SetIdle: the cancel button is hidden but not enabled again. *)
SetIdleKeepsCancel ==
    /\ active' = NoRun
    /\ submitOn' = TRUE
    /\ UNCHANGED cancelOn

SetIdle ==
    /\ active' = NoRun
    /\ submitOn' = TRUE
    /\ cancelOn' = TRUE

ClickSubmit ==
    /\ submitOn
    /\ submitOn' = FALSE
    /\ shown' = {Line("submitting", NoRun)}
    /\ posting' = "sent"
    /\ UNCHANGED <<active, open, cancelOn, posted, asking, serverVars, history>>

(* The API commits and enqueues the run (RunPipeline). *)
CreateRun(r) ==
    /\ posting = "sent"
    /\ status[r] = "none"
    /\ status' = [status EXCEPT ![r] = "live"]
    /\ posting' = "created"
    /\ posted' = r
    /\ UNCHANGED <<active, open, submitOn, cancelOn, shown, asking, stopping, handler, pipe, history>>

(* fetch rejects, or the answer is no 2xx: the run may exist all the same. *)
SubmitFails ==
    /\ posting # "no"
    /\ shown' = {Line("submit_failed", NoRun)}
    /\ submitOn' = TRUE
    /\ letGo' = letGo \union ({posted} \ {NoRun})
    /\ posting' = "no"
    /\ posted' = NoRun
    /\ UNCHANGED <<active, open, cancelOn, asking, serverVars, ended, missed, revived>>

(* 201: the run's id is shown, its EventSource opened, setRunning called. *)
Submitted ==
    /\ posting = "created"
    /\ shown' = {Line("trace", posted)}
    /\ open' = open \union {posted}
    /\ handler' = [handler EXCEPT ![posted] = "requested"]
    /\ active' = posted
    /\ submitOn' = FALSE
    /\ posting' = "no"
    /\ posted' = NoRun
    /\ UNCHANGED <<cancelOn, asking, status, stopping, pipe, history>>

-----------------------------------------------------------------------------
(* es.onmessage and es.onerror *)

(* es.close(): no line that is still under way is delivered; the server    *)
(* notices and leaves the generator.                                       *)
CloseStream(r) ==
    /\ open' = open \ {r}
    /\ handler' = [handler EXCEPT ![r] = "closed"]
    /\ pipe' = [pipe EXCEPT ![r] = << >>]

(* Mutants of OnEnd: the stream is left open; a cancellation is no end. *)
OnEndKeepsStream(r, type) ==
    /\ shown' = shown \union {Line("end", r)}
    /\ SetIdle
    /\ pipe' = [pipe EXCEPT ![r] = Tail(@)]
    /\ UNCHANGED <<open, handler>>

OnEndUnlessCancelled(r, type) ==
    IF type = "cancelled"
    THEN /\ pipe' = [pipe EXCEPT ![r] = Tail(@)]
         /\ UNCHANGED <<shown, active, submitOn, cancelOn, open, handler>>
    ELSE /\ shown' = shown \union {Line("end", r)}
         /\ CloseStream(r)
         /\ SetIdle

OnEnd(r, type) ==
    /\ shown' = shown \union {Line("end", r)}
    /\ CloseStream(r)
    /\ SetIdle

ReceiveStep(r) ==
    /\ r \in open
    /\ pipe[r] # << >> /\ Head(pipe[r]) = "step"
    /\ shown' = shown \union {Line("step", r)}
    /\ pipe' = [pipe EXCEPT ![r] = Tail(@)]
    /\ UNCHANGED <<active, open, submitOn, cancelOn, posting, posted, asking, status, stopping,
                   handler, history>>

ReceiveEnd(r) ==
    /\ r \in open
    /\ pipe[r] # << >> /\ Head(pipe[r]) \in Ends
    /\ OnEnd(r, Head(pipe[r]))
    /\ ended' = ended \union {r}
    /\ UNCHANGED <<posting, posted, asking, status, stopping, missed, letGo, revived>>

(* Mutant of OnError: the page only tells of the error. *)
OnErrorStaysRunning(r) ==
    /\ CloseStream(r)
    /\ shown' = shown \union {Line("disconnected", r)}
    /\ UNCHANGED <<active, submitOn, cancelOn>>

OnError(r) ==
    /\ CloseStream(r)
    /\ shown' = shown \union {Line("disconnected", r)}
    /\ SetIdle

(* Any error of the stream, the end of the response included. *)
ReceiveError(r) ==
    /\ r \in open
    /\ pipe[r] # << >> /\ Head(pipe[r]) = "eof"
    /\ OnError(r)
    /\ letGo' = letGo \union {r}
    /\ UNCHANGED <<posting, posted, asking, status, stopping, ended, missed, revived>>

-----------------------------------------------------------------------------
(* cancelRun *)

ClickCancel(q) ==
    /\ active # NoRun /\ cancelOn
    /\ asking[q] = NoRun
    /\ cancelOn' = FALSE
    /\ shown' = shown \union {Line("cancelling", active)}
    /\ asking' = [asking EXCEPT ![q] = active]
    /\ UNCHANGED <<active, open, submitOn, posting, posted, serverVars, history>>

(* Mutant of CancelAnswered: an accepted cancellation counts as the end. *)
CancelAnsweredIsEnd(q) ==
    /\ asking[q] # NoRun
    /\ asking' = [asking EXCEPT ![q] = NoRun]
    /\ SetIdle
    /\ UNCHANGED <<open, shown, posting, posted, serverVars, history>>

(* fetch resolves, whatever the HTTP status: nothing else happens. *)
CancelAnswered(q) ==
    /\ asking[q] # NoRun
    /\ asking' = [asking EXCEPT ![q] = NoRun]
    /\ UNCHANGED <<pageVars, serverVars, history>>

(* fetch rejects, perhaps after the page has gone on to another run. *)
CancelFailed(q) ==
    /\ asking[q] # NoRun
    /\ shown' = shown \union {Line("cancel_failed", asking[q])}
    /\ cancelOn' = TRUE
    /\ asking' = [asking EXCEPT ![q] = NoRun]
    /\ UNCHANGED <<active, open, submitOn, posting, posted, serverVars, history>>

-----------------------------------------------------------------------------
(* The server *)

(* A terminal event is published: a handler that listens forwards it and   *)
(* ends the response; one that has read the row but not yet subscribed     *)
(* never hears of it.                                                      *)
Announce(r, type) ==
    /\ missed' = IF handler[r] = "read" THEN missed \union {r} ELSE missed
    /\ IF handler[r] = "listening"
       THEN /\ pipe' = [pipe EXCEPT ![r] = @ \o <<type, "eof">>]
            /\ handler' = [handler EXCEPT ![r] = "closed"]
       ELSE UNCHANGED <<pipe, handler>>

(* The stream's handler reads the row. *)
ReadRun(r) ==
    /\ handler[r] = "requested"
    /\ IF status[r] \in Ends
       THEN /\ pipe' = [pipe EXCEPT ![r] = @ \o <<status[r], "eof">>]
            /\ handler' = [handler EXCEPT ![r] = "closed"]
       ELSE /\ handler' = [handler EXCEPT ![r] = "read"]
            /\ UNCHANGED pipe
    /\ UNCHANGED <<pageVars, asking, status, stopping, history>>

Subscribe(r) ==
    /\ handler[r] = "read"
    /\ handler' = [handler EXCEPT ![r] = "listening"]
    /\ UNCHANGED <<pageVars, asking, status, stopping, pipe, history>>

(* A step is published; bound: one line of each run is under way at once. *)
Step(r) ==
    /\ status[r] = "live" /\ handler[r] = "listening"
    /\ pipe[r] = << >>
    /\ pipe' = [pipe EXCEPT ![r] = <<"step">>]
    /\ UNCHANGED <<pageVars, asking, status, stopping, handler, history>>

RunEnds(r, type) ==
    /\ status[r] = "live"
    /\ type = "cancelled" => r \in stopping
    /\ status' = [status EXCEPT ![r] = type]
    /\ Announce(r, type)
    /\ UNCHANGED <<pageVars, asking, stopping, ended, letGo, revived>>

(* A claim that read the row as queued overwrites a cancellation (the      *)
(* finding of RunPipelineTerminal); bound: once for each run.              *)
ClaimOverwrites(r) ==
    /\ status[r] = "cancelled" /\ r \notin revived
    /\ status' = [status EXCEPT ![r] = "live"]
    /\ revived' = revived \union {r}
    /\ UNCHANGED <<pageVars, asking, stopping, handler, pipe, ended, missed, letGo>>

(* The cancel endpoint: a running run is signalled; a queued one, or one   *)
(* that was queued when it read the row, is cancelled and announced at     *)
(* once; a run cancelled before is announced again.                        *)
HandleCancel(q) ==
    /\ asking[q] # NoRun
    /\ LET r == asking[q]
       IN  \/ /\ status[r] = "live"
              /\ stopping' = stopping \union {r}
              /\ UNCHANGED <<status, handler, pipe, missed>>
           \/ /\ status[r] # "none"
              /\ status' = [status EXCEPT ![r] = "cancelled"]
              /\ Announce(r, "cancelled")
              /\ UNCHANGED stopping
    /\ UNCHANGED <<pageVars, asking, ended, letGo, revived>>

(* The connection breaks or the API stops: what is under way may be lost. *)
StreamBreaks(r) ==
    /\ r \in open
    /\ pipe[r] # <<"eof">>
    /\ \E n \in 0..Len(pipe[r]) :
          /\ \A i \in 1..n : pipe[r][i] # "eof"
          /\ pipe' = [pipe EXCEPT ![r] = Append(SubSeq(@, 1, n), "eof")]
    /\ handler' = [handler EXCEPT ![r] = "closed"]
    /\ UNCHANGED <<pageVars, asking, status, stopping, history>>

-----------------------------------------------------------------------------
Callback(r) == ReceiveStep(r) \/ ReceiveEnd(r) \/ ReceiveError(r)

Serve(r) == ReadRun(r) \/ Subscribe(r) \/ \E type \in Ends : RunEnds(r, type)

Next ==
    \/ ClickSubmit \/ SubmitFails \/ Submitted
    \/ \E r \in Runs : \/ CreateRun(r) \/ Callback(r) \/ Serve(r)
                        \/ Step(r) \/ ClaimOverwrites(r) \/ StreamBreaks(r)
    \/ \E q \in Requests : ClickCancel(q) \/ HandleCancel(q) \/ CancelAnswered(q) \/ CancelFailed(q)

Spec == Init /\ [][Next]_vars

(* A line that arrived is handed to its callback, a stream that was asked  *)
(* for is served, and runs end (RunPipeline: EveryRunEnds).                *)
FairSpec == Spec /\ \A r \in Runs : WF_vars(Callback(r)) /\ WF_vars(Serve(r))

-----------------------------------------------------------------------------
Kinds == {"submitting", "submit_failed", "trace", "step", "end", "disconnected", "cancelling", "cancel_failed"}

(* Types; only event types the page knows travel. *)
TypeOK ==
    /\ active \in Runs \union {NoRun}
    /\ open \in SUBSET Runs
    /\ submitOn \in BOOLEAN /\ cancelOn \in BOOLEAN
    /\ shown \subseteq [kind : Kinds, run : Runs \union {NoRun}]
    /\ posting \in {"no", "sent", "created"}
    /\ posted \in Runs \union {NoRun}
    /\ asking \in [Requests -> Runs \union {NoRun}]
    /\ status \in [Runs -> {"none", "live", "done", "error", "cancelled"}]
    /\ stopping \in SUBSET Runs
    /\ handler \in [Runs -> {"none", "requested", "read", "listening", "closed"}]
    /\ pipe \in [Runs -> Seq({"step", "eof", "done", "error", "cancelled"})]
    /\ ended \in SUBSET Runs /\ missed \in SUBSET Runs
    /\ letGo \in SUBSET Runs /\ revived \in SUBSET Runs

(* The page listens to the run it shows and to no other, so that a late    *)
(* event or error of an earlier run can neither write into the lines of    *)
(* the next one nor end it (index.html:216-271).                           *)
ShowsOneRun ==
    /\ open \subseteq {active}
    /\ \A l \in shown : l.kind \in {"trace", "step", "end", "disconnected"} =>
          \A k \in shown : k.kind = "trace" => k.run = l.run

(* A run that goes on is one the page shows or is about to show, and can   *)
(* cancel, unless its stream or the answer to its submission failed, or it *)
(* goes on although it was cancelled (index.html:244-271).                 *)
LetGoOnlyByFailure ==
    \A r \in Runs : status[r] = "live" => r \in letGo \union revived \union {active, posted}

(* The controls agree with what is under way: submit is enabled exactly    *)
(* when nothing is, and a disabled cancel button is never left over from   *)
(* an earlier run.                                                         *)
ControlsMatch ==
    /\ submitOn <=> (active = NoRun /\ posting = "no")
    /\ ~cancelOn => Line("cancelling", active) \in shown

(* The user is told how a run ended: once its terminal event has arrived   *)
(* the run's page has a line for it, whatever else is written there, and   *)
(* the end of the response is not taken for a broken stream.               *)
EndIsShown ==
    \A r \in ended :
        /\ Line("trace", r) \in shown => Line("end", r) \in shown
        /\ Line("disconnected", r) \notin shown
        /\ r \notin open

(* The page comes back from every run, by its end or by an error, unless   *)
(* the stream's handler subscribed too late to hear of the end.            *)
ComesBack == \A r \in Runs : (active = r) ~> (active # r \/ r \in missed)
=============================================================================
