------------------------------ MODULE PageProofs ------------------------------
(***************************************************************************)
(* Proofs about Page: its safety properties, for any runs and any number   *)
(* of cancel requests under way.                                           *)
(***************************************************************************)
EXTENDS Page, TLAPS

(* Nothing is posted while a run is shown; a run is posted from the moment *)
(* the API created it, shown or ended only after that.                     *)
PostInv ==
    /\ posting # "no" => active = NoRun
    /\ posted # NoRun <=> posting = "created"
    /\ posted # NoRun => status[posted] # "none" /\ posted \notin ended
    /\ active # NoRun => status[active] # "none"
    /\ \A r \in ended : status[r] # "none"

(* The lines are about the run that is shown, of which nothing was said    *)
(* yet that would end it.                                                  *)
LinesInv ==
    /\ active # NoRun => \A k \in shown : k.kind = "trace" => k.run = active
    /\ \A r \in open : Line("disconnected", r) \notin shown
    /\ ~cancelOn => active # NoRun

EndUnderWay(r) == \E i \in 1..Len(pipe[r]) : pipe[r][i] \in Ends

(* A terminal event travels only of a run that has ended, unless a claim   *)
(* took it up again.                                                       *)
PipeInv ==
    \A r \in Runs : EndUnderWay(r) => status[r] \notin {"none", "live"} \/ r \in revived

IInv ==
    /\ TypeOK /\ PostInv /\ LinesInv /\ PipeInv
    /\ ShowsOneRun /\ LetGoOnlyByFailure /\ ControlsMatch /\ EndIsShown

-----------------------------------------------------------------------------
(* A step of the server that leaves the page alone and takes no run back   *)
(* to life, but for a claim that revives it, keeps the invariant.          *)
LEMMA ServerStepKeepsPage ==
    ASSUME IInv, TypeOK', PipeInv',
           UNCHANGED <<pageVars, ended, letGo>>,
           revived \subseteq revived',
           \A r \in Runs : status[r] # "none" => status'[r] # "none",
           \A r \in Runs : status'[r] = "live" => status[r] = "live" \/ r \in revived'
    PROVE  IInv'
  <1>1. PostInv'
    BY DEF IInv, PostInv, TypeOK, pageVars
  <1>2. LinesInv' /\ ShowsOneRun' /\ ControlsMatch' /\ EndIsShown'
    BY DEF IInv, LinesInv, ShowsOneRun, ControlsMatch, EndIsShown, pageVars, Line
  <1>3. LetGoOnlyByFailure'
    BY DEF IInv, LetGoOnlyByFailure, pageVars
  <1>4. QED
    BY <1>1, <1>2, <1>3 DEF IInv

(* A line is a record of its kind and the run it is about. *)
LEMMA LineType ==
    ASSUME NEW kind \in Kinds, NEW r \in Runs \union {NoRun}
    PROVE  Line(kind, r) \in [kind : Kinds, run : Runs \union {NoRun}]
  BY DEF Line

(* The lines of one run's stream change as given, all others stay. *)
LEMMA PipeOf ==
    ASSUME TypeOK, NEW r \in Runs, NEW lines \in Seq({"step", "eof", "done", "error", "cancelled"}),
           pipe' = [pipe EXCEPT ![r] = lines]
    PROVE  /\ pipe' \in [Runs -> Seq({"step", "eof", "done", "error", "cancelled"})]
           /\ \A s \in Runs \ {r} : EndUnderWay(s)' <=> EndUnderWay(s)
           /\ EndUnderWay(r)' <=> \E i \in 1..Len(lines) : lines[i] \in Ends
  BY DEF TypeOK, EndUnderWay

(* What changes on one stream adds no end of a run that goes on. *)
LEMMA PipeKept ==
    ASSUME IInv, NEW r \in Runs, NEW lines \in Seq({"step", "eof", "done", "error", "cancelled"}),
           pipe' = [pipe EXCEPT ![r] = lines],
           UNCHANGED <<status, revived>>,
           (\E i \in 1..Len(lines) : lines[i] \in Ends)
              => EndUnderWay(r) \/ status[r] \notin {"none", "live"}
    PROVE  PipeInv'
  <1> SUFFICES ASSUME NEW s \in Runs, EndUnderWay(s)'
               PROVE  (status[s] \notin {"none", "live"} \/ s \in revived)'
    BY DEF PipeInv
  <1>1. CASE s = r
    BY <1>1, PipeOf DEF IInv, PipeInv
  <1>2. CASE s # r
    BY <1>2, PipeOf DEF IInv, PipeInv
  <1>3. QED
    BY <1>1, <1>2

(* The last line of a stream's response follows what was under way. *)
LEMMA Appended ==
    ASSUME NEW lines \in Seq({"step", "eof", "done", "error", "cancelled"}), NEW type \in Ends
    PROVE  lines \o <<type, "eof">> \in Seq({"step", "eof", "done", "error", "cancelled"})
  BY DEF Ends

(* A stream that broke delivers part of what was under way. *)
LEMMA Broken ==
    ASSUME NEW lines \in Seq({"step", "eof", "done", "error", "cancelled"}), NEW n \in 0..Len(lines)
    PROVE  LET rest == Append(SubSeq(lines, 1, n), "eof")
           IN  /\ rest \in Seq({"step", "eof", "done", "error", "cancelled"})
               /\ \A i \in 1..Len(rest) : rest[i] \in Ends => i \in 1..Len(lines) /\ lines[i] \in Ends
  BY DEF Ends

(* An announcement, on the run's own stream and of a run that has ended. *)
LEMMA Announced ==
    ASSUME IInv, NEW r \in Runs, NEW type \in Ends, Announce(r, type),
           status' = [status EXCEPT ![r] = type], UNCHANGED revived
    PROVE  /\ PipeInv'
           /\ pipe' \in [Runs -> Seq({"step", "eof", "done", "error", "cancelled"})]
           /\ handler' \in [Runs -> {"none", "requested", "read", "listening", "closed"}]
           /\ missed' \in SUBSET Runs
           /\ status' \in [Runs -> {"none", "live", "done", "error", "cancelled"}]
  <1>1. /\ status' \in [Runs -> {"none", "live", "done", "error", "cancelled"}]
        /\ status'[r] \notin {"none", "live"}
        /\ \A s \in Runs \ {r} : status'[s] = status[s]
    BY DEF IInv, TypeOK, Ends
  <1>2. missed' \in SUBSET Runs
    BY DEF IInv, TypeOK, Announce
  <1>3. CASE handler[r] = "listening"
    <2>1. /\ pipe' = [pipe EXCEPT ![r] = pipe[r] \o <<type, "eof">>]
          /\ handler' = [handler EXCEPT ![r] = "closed"]
      BY <1>3 DEF Announce
    <2>2. pipe[r] \o <<type, "eof">> \in Seq({"step", "eof", "done", "error", "cancelled"})
      BY Appended DEF IInv, TypeOK
    <2>3. PipeInv'
      BY <1>1, <2>1, <2>2, PipeOf DEF IInv, PipeInv
    <2>4. QED
      BY <1>1, <1>2, <2>1, <2>2, <2>3, PipeOf DEF IInv, TypeOK
  <1>4. CASE handler[r] # "listening"
    <2>1. UNCHANGED <<pipe, handler>>
      BY <1>4 DEF Announce
    <2>2. PipeInv'
      BY <1>1, <2>1 DEF IInv, PipeInv, EndUnderWay
    <2>3. QED
      BY <1>1, <1>2, <2>1, <2>2 DEF IInv, TypeOK
  <1>5. QED
    BY <1>3, <1>4

-----------------------------------------------------------------------------
(* submitRun *)

(* The click, and what becomes of its POST. *)
LEMMA SubmitKeeps ==
    ASSUME IInv, ClickSubmit \/ SubmitFails \/ Submitted \/ \E r \in Runs : CreateRun(r)
    PROVE  IInv'
  <1>1. CASE ClickSubmit
    <2>1. TypeOK'
      <3>1. {Line("submitting", NoRun)} \subseteq [kind : Kinds, run : Runs \union {NoRun}]
        BY LineType DEF Kinds
      <3>2. QED
        BY <1>1, <3>1 DEF IInv, TypeOK, ClickSubmit, serverVars, history
    <2>2. PostInv' /\ LinesInv' /\ PipeInv'
      BY <1>1 DEF IInv, TypeOK, PostInv, LinesInv, PipeInv, EndUnderWay, ShowsOneRun, ControlsMatch,
                  ClickSubmit, serverVars, history, Line
    <2>3. ShowsOneRun' /\ LetGoOnlyByFailure' /\ ControlsMatch' /\ EndIsShown'
      BY <1>1 DEF IInv, TypeOK, LinesInv, PostInv, ShowsOneRun, LetGoOnlyByFailure, ControlsMatch,
                  EndIsShown, ClickSubmit, serverVars, history, Line
    <2>4. QED
      BY <2>1, <2>2, <2>3 DEF IInv
  <1>2. CASE SubmitFails
    <2>1. TypeOK'
      <3>1. {Line("submit_failed", NoRun)} \subseteq [kind : Kinds, run : Runs \union {NoRun}]
        BY LineType DEF Kinds
      <3>2. QED
        BY <1>2, <3>1 DEF IInv, TypeOK, SubmitFails, serverVars
    <2>2. PostInv' /\ LinesInv' /\ PipeInv'
      BY <1>2, NoRunAssumption
      DEF IInv, TypeOK, PostInv, LinesInv, PipeInv, EndUnderWay, ShowsOneRun, SubmitFails, serverVars, Line
    <2>3. ShowsOneRun' /\ LetGoOnlyByFailure' /\ ControlsMatch' /\ EndIsShown'
      BY <1>2, NoRunAssumption
      DEF IInv, TypeOK, LinesInv, PostInv, ShowsOneRun, LetGoOnlyByFailure, ControlsMatch, EndIsShown,
          SubmitFails, serverVars, Line
    <2>4. QED
      BY <2>1, <2>2, <2>3 DEF IInv
  <1>3. CASE Submitted
    <2>1. posted \in Runs /\ active = NoRun /\ open = {} /\ cancelOn
      BY <1>3, NoRunAssumption DEF IInv, TypeOK, PostInv, LinesInv, ShowsOneRun, Submitted
    <2>2. TypeOK'
      <3>1. {Line("trace", posted)} \subseteq [kind : Kinds, run : Runs \union {NoRun}]
        BY <2>1, LineType DEF Kinds
      <3>2. QED
        BY <1>3, <2>1, <3>1 DEF IInv, TypeOK, Submitted, history
    <2>3. PostInv' /\ LinesInv' /\ PipeInv'
      BY <1>3, <2>1, NoRunAssumption
      DEF IInv, TypeOK, PostInv, LinesInv, PipeInv, EndUnderWay, Submitted, history, Line
    <2>4. ShowsOneRun' /\ LetGoOnlyByFailure' /\ ControlsMatch' /\ EndIsShown'
      BY <1>3, <2>1, NoRunAssumption
      DEF IInv, TypeOK, LinesInv, PostInv, ShowsOneRun, LetGoOnlyByFailure, ControlsMatch, EndIsShown,
          Submitted, history, Line
    <2>5. QED
      BY <2>2, <2>3, <2>4 DEF IInv
  <1>4. ASSUME NEW r \in Runs, CreateRun(r)
        PROVE  IInv'
    <2>1. posted = NoRun /\ active = NoRun
      BY <1>4 DEF IInv, PostInv, CreateRun
    <2>2. TypeOK'
      BY <1>4 DEF IInv, TypeOK, CreateRun, history
    <2>3. PostInv' /\ LinesInv' /\ PipeInv'
      BY <1>4, <2>1, NoRunAssumption
      DEF IInv, TypeOK, PostInv, LinesInv, PipeInv, EndUnderWay, CreateRun, history, Line
    <2>4. ShowsOneRun' /\ LetGoOnlyByFailure' /\ ControlsMatch' /\ EndIsShown'
      BY <1>4, <2>1, NoRunAssumption
      DEF IInv, TypeOK, LinesInv, PostInv, ShowsOneRun, LetGoOnlyByFailure, ControlsMatch, EndIsShown,
          CreateRun, history, Line
    <2>5. QED
      BY <2>2, <2>3, <2>4 DEF IInv
  <1>5. QED
    BY <1>1, <1>2, <1>3, <1>4
-----------------------------------------------------------------------------
(* es.onmessage and es.onerror *)

(* A stream whose lines are handed over is that of the run shown: nothing  *)
(* is posted, and the controls are those of a run under way.               *)
LEMMA Listening ==
    ASSUME IInv, NEW r \in Runs, r \in open
    PROVE  /\ active = r /\ open = {r} /\ posting = "no" /\ posted = NoRun
           /\ status[r] # "none" /\ r \notin ended
  BY NoRunAssumption DEF IInv, ShowsOneRun, PostInv, EndIsShown

(* Closing the one open stream drops what was under way on it. *)
LEMMA Closed ==
    ASSUME IInv, NEW r \in Runs, r \in open, CloseStream(r), UNCHANGED <<status, revived>>
    PROVE  /\ open' = {}
           /\ handler' \in [Runs -> {"none", "requested", "read", "listening", "closed"}]
           /\ pipe' \in [Runs -> Seq({"step", "eof", "done", "error", "cancelled"})]
           /\ PipeInv'
  <1>1. pipe' = [pipe EXCEPT ![r] = << >>] /\ << >> \in Seq({"step", "eof", "done", "error", "cancelled"})
    BY DEF CloseStream
  <1>2. PipeInv'
    <2>1. ~ \E i \in 1..Len(<< >>) : << >>[i] \in Ends
      OBVIOUS
    <2>2. QED
      BY <1>1, <2>1, PipeKept
  <1>3. QED
    BY <1>1, <1>2, PipeOf, Listening DEF IInv, TypeOK, CloseStream

(* A callback keeps the invariant: a step adds a line of the run shown, an *)
(* end or an error leaves nothing listened to and the page idle.           *)
LEMMA CallbackKeeps ==
    ASSUME IInv, NEW r \in Runs, Callback(r)
    PROVE  IInv'
  <1>1. CASE ReceiveStep(r)
    <2>1. Tail(pipe[r]) \in Seq({"step", "eof", "done", "error", "cancelled"})
      BY <1>1 DEF ReceiveStep, IInv, TypeOK
    <2>2. pipe' = [pipe EXCEPT ![r] = Tail(pipe[r])]
      BY <1>1 DEF ReceiveStep
    <2>3. \A i \in 1..Len(Tail(pipe[r])) :
             Tail(pipe[r])[i] \in Ends => \E j \in 1..Len(pipe[r]) : pipe[r][j] \in Ends
      BY <1>1 DEF ReceiveStep, IInv, TypeOK
    <2>4. active = r /\ shown' = shown \union {Line("step", r)}
      BY <1>1, Listening DEF ReceiveStep
    <2>5. {Line("step", r)} \subseteq [kind : Kinds, run : Runs \union {NoRun}]
      BY LineType DEF Kinds
    <2>6. TypeOK'
      BY <1>1, <2>1, <2>2, <2>4, <2>5, PipeOf DEF IInv, TypeOK, ReceiveStep, history
    <2>7. PipeInv'
      <3>1. (\E i \in 1..Len(Tail(pipe[r])) : Tail(pipe[r])[i] \in Ends) => EndUnderWay(r)
        BY <2>3 DEF EndUnderWay
      <3>2. UNCHANGED <<status, revived>>
        BY <1>1 DEF ReceiveStep, history
      <3>3. QED
        BY <2>1, <2>2, <3>1, <3>2, PipeKept
    <2>8. PostInv' /\ LinesInv'
      BY <1>1, <2>4 DEF IInv, PostInv, LinesInv, ReceiveStep, history, Line
    <2>9. ShowsOneRun' /\ LetGoOnlyByFailure' /\ ControlsMatch' /\ EndIsShown'
      BY <1>1, <2>4, NoRunAssumption
      DEF IInv, LinesInv, ShowsOneRun, LetGoOnlyByFailure, ControlsMatch, EndIsShown, ReceiveStep,
          history, Line
    <2>10. QED
      BY <2>6, <2>7, <2>8, <2>9 DEF IInv
  <1>2. CASE ReceiveEnd(r)
    <2>1. /\ active = r /\ open = {r} /\ posting = "no" /\ posted = NoRun
          /\ status[r] # "none" /\ r \notin ended
      BY <1>2, Listening DEF ReceiveEnd
    <2>2. /\ CloseStream(r) /\ SetIdle
          /\ shown' = shown \union {Line("end", r)}
          /\ ended' = ended \union {r}
          /\ UNCHANGED <<posting, posted, asking, status, stopping, missed, letGo, revived>>
      BY <1>2 DEF ReceiveEnd, OnEnd
    <2>3. {Line("end", r)} \subseteq [kind : Kinds, run : Runs \union {NoRun}]
      BY LineType DEF Kinds
    <2>4. /\ open' = {} /\ PipeInv'
          /\ handler' \in [Runs -> {"none", "requested", "read", "listening", "closed"}]
          /\ pipe' \in [Runs -> Seq({"step", "eof", "done", "error", "cancelled"})]
      BY <2>1, <2>2, Closed
    <2>5. TypeOK'
      BY <2>1, <2>2, <2>3, <2>4 DEF IInv, TypeOK, SetIdle
    <2>6. EndUnderWay(r)
      BY <1>2 DEF ReceiveEnd, EndUnderWay, IInv, TypeOK
    <2>7. status[r] # "live" \/ r \in revived
      BY <2>6 DEF IInv, PipeInv
    <2>8. PostInv' /\ LinesInv'
      BY <2>1, <2>2, <2>4, NoRunAssumption DEF IInv, PostInv, LinesInv, SetIdle, Line
    <2>9. ShowsOneRun' /\ ControlsMatch' /\ EndIsShown'
      BY <2>1, <2>2, <2>4, NoRunAssumption
      DEF IInv, LinesInv, ShowsOneRun, ControlsMatch, EndIsShown, SetIdle, Line
    <2>10. LetGoOnlyByFailure'
      BY <2>1, <2>2, <2>7 DEF IInv, LetGoOnlyByFailure, SetIdle
    <2>11. QED
      BY <2>4, <2>5, <2>8, <2>9, <2>10 DEF IInv
  <1>3. CASE ReceiveError(r)
    <2>1. /\ active = r /\ open = {r} /\ posting = "no" /\ posted = NoRun
          /\ status[r] # "none" /\ r \notin ended
      BY <1>3, Listening DEF ReceiveError
    <2>2. /\ CloseStream(r) /\ SetIdle
          /\ shown' = shown \union {Line("disconnected", r)}
          /\ letGo' = letGo \union {r}
          /\ UNCHANGED <<posting, posted, asking, status, stopping, ended, missed, revived>>
      BY <1>3 DEF ReceiveError, OnError
    <2>3. {Line("disconnected", r)} \subseteq [kind : Kinds, run : Runs \union {NoRun}]
      BY LineType DEF Kinds
    <2>4. /\ open' = {} /\ PipeInv'
          /\ handler' \in [Runs -> {"none", "requested", "read", "listening", "closed"}]
          /\ pipe' \in [Runs -> Seq({"step", "eof", "done", "error", "cancelled"})]
      BY <2>1, <2>2, Closed
    <2>5. TypeOK'
      BY <2>1, <2>2, <2>3, <2>4 DEF IInv, TypeOK, SetIdle
    <2>6. PostInv' /\ LinesInv'
      BY <2>1, <2>2, <2>4, NoRunAssumption DEF IInv, PostInv, LinesInv, SetIdle, Line
    <2>7. ShowsOneRun' /\ ControlsMatch' /\ EndIsShown'
      BY <2>1, <2>2, <2>4, NoRunAssumption
      DEF IInv, LinesInv, ShowsOneRun, ControlsMatch, EndIsShown, SetIdle, Line
    <2>8. LetGoOnlyByFailure'
      BY <2>1, <2>2 DEF IInv, LetGoOnlyByFailure, SetIdle
    <2>9. QED
      BY <2>4, <2>5, <2>6, <2>7, <2>8 DEF IInv
  <1>4. QED
    BY <1>1, <1>2, <1>3 DEF Callback

-----------------------------------------------------------------------------
(* cancelRun *)

(* The click and what its fetch comes to, perhaps when another run is      *)
(* shown: the button may be enabled early, never disabled for good.        *)
LEMMA CancelKeeps ==
    ASSUME IInv, NEW q \in Requests, ClickCancel(q) \/ CancelAnswered(q) \/ CancelFailed(q)
    PROVE  IInv'
  <1>1. CASE ClickCancel(q)
    <2>1. {Line("cancelling", active)} \subseteq [kind : Kinds, run : Runs \union {NoRun}]
      BY LineType DEF Kinds, IInv, TypeOK
    <2>2. TypeOK'
      BY <1>1, <2>1 DEF IInv, TypeOK, ClickCancel, serverVars, history
    <2>3. PostInv' /\ LinesInv' /\ PipeInv'
      BY <1>1 DEF IInv, PostInv, LinesInv, PipeInv, EndUnderWay, ClickCancel, serverVars, history, Line
    <2>4. ShowsOneRun' /\ LetGoOnlyByFailure' /\ ControlsMatch' /\ EndIsShown'
      BY <1>1 DEF IInv, ShowsOneRun, LetGoOnlyByFailure, ControlsMatch, EndIsShown, ClickCancel,
                  serverVars, history, Line
    <2>5. QED
      BY <2>2, <2>3, <2>4 DEF IInv
  <1>2. CASE CancelAnswered(q)
    <2>1. TypeOK' /\ PipeInv'
      BY <1>2 DEF IInv, TypeOK, PipeInv, EndUnderWay, CancelAnswered, pageVars, serverVars, history
    <2>2. QED
      BY <1>2, <2>1, ServerStepKeepsPage DEF CancelAnswered, serverVars, history
  <1>3. CASE CancelFailed(q)
    <2>1. {Line("cancel_failed", asking[q])} \subseteq [kind : Kinds, run : Runs \union {NoRun}]
      BY LineType DEF Kinds, IInv, TypeOK
    <2>2. TypeOK'
      BY <1>3, <2>1 DEF IInv, TypeOK, CancelFailed, serverVars, history
    <2>3. PostInv' /\ LinesInv' /\ PipeInv'
      BY <1>3 DEF IInv, PostInv, LinesInv, PipeInv, EndUnderWay, CancelFailed, serverVars, history, Line
    <2>4. ShowsOneRun' /\ LetGoOnlyByFailure' /\ ControlsMatch' /\ EndIsShown'
      BY <1>3 DEF IInv, ShowsOneRun, LetGoOnlyByFailure, ControlsMatch, EndIsShown, CancelFailed,
                  serverVars, history, Line
    <2>5. QED
      BY <2>2, <2>3, <2>4 DEF IInv
  <1>4. QED
    BY <1>1, <1>2, <1>3

-----------------------------------------------------------------------------
(* The server *)

(* A stream is served: what its handler forwards of a run's end is true of *)
(* the row.                                                                *)
LEMMA ServeKeeps ==
    ASSUME IInv, NEW r \in Runs, Serve(r) \/ Step(r) \/ StreamBreaks(r)
    PROVE  IInv'
  <1>1. CASE ReadRun(r)
    <2>1. CASE status[r] \in Ends
      <3>1. /\ pipe' = [pipe EXCEPT ![r] = pipe[r] \o <<status[r], "eof">>]
            /\ handler' = [handler EXCEPT ![r] = "closed"]
        BY <1>1, <2>1 DEF ReadRun
      <3>2. pipe[r] \o <<status[r], "eof">> \in Seq({"step", "eof", "done", "error", "cancelled"})
        BY <2>1, Appended DEF IInv, TypeOK
      <3>3. TypeOK'
        BY <1>1, <3>1, <3>2, PipeOf DEF IInv, TypeOK, ReadRun, pageVars, history
      <3>4. PipeInv'
        BY <1>1, <2>1, <3>1, <3>2, PipeKept DEF ReadRun, history, Ends
      <3>5. QED
        BY <1>1, <3>3, <3>4, ServerStepKeepsPage DEF ReadRun, history
    <2>2. CASE status[r] \notin Ends
      <3>1. TypeOK' /\ PipeInv'
        BY <1>1, <2>2 DEF IInv, TypeOK, PipeInv, EndUnderWay, ReadRun, pageVars, history
      <3>2. QED
        BY <1>1, <3>1, ServerStepKeepsPage DEF ReadRun, history
    <2>3. QED
      BY <2>1, <2>2
  <1>2. CASE Subscribe(r)
    <2>1. TypeOK' /\ PipeInv'
      BY <1>2 DEF IInv, TypeOK, PipeInv, EndUnderWay, Subscribe, pageVars, history
    <2>2. QED
      BY <1>2, <2>1, ServerStepKeepsPage DEF Subscribe, history
  <1>3. ASSUME NEW type \in Ends, RunEnds(r, type)
        PROVE  IInv'
    <2>1. /\ PipeInv' /\ missed' \in SUBSET Runs
          /\ pipe' \in [Runs -> Seq({"step", "eof", "done", "error", "cancelled"})]
          /\ handler' \in [Runs -> {"none", "requested", "read", "listening", "closed"}]
          /\ status' \in [Runs -> {"none", "live", "done", "error", "cancelled"}]
      BY <1>3, Announced DEF RunEnds
    <2>2. TypeOK'
      BY <1>3, <2>1 DEF IInv, TypeOK, RunEnds, pageVars
    <2>3. \A s \in Runs : status'[s] = IF s = r THEN type ELSE status[s]
      BY <1>3 DEF RunEnds, IInv, TypeOK
    <2>4. QED
      BY <1>3, <2>1, <2>2, <2>3, ServerStepKeepsPage DEF RunEnds, Ends
  <1>4. CASE Step(r)
    <2>1. <<"step">> \in Seq({"step", "eof", "done", "error", "cancelled"})
      OBVIOUS
    <2>2. pipe' = [pipe EXCEPT ![r] = <<"step">>]
      BY <1>4 DEF Step
    <2>3. TypeOK'
      BY <1>4, <2>1, <2>2, PipeOf DEF IInv, TypeOK, Step, pageVars, history
    <2>4. PipeInv'
      <3>1. ~ \E i \in 1..Len(<<"step">>) : <<"step">>[i] \in Ends
        BY DEF Ends
      <3>2. UNCHANGED <<status, revived>>
        BY <1>4 DEF Step, history
      <3>3. QED
        BY <2>1, <2>2, <3>1, <3>2, PipeKept
    <2>5. QED
      BY <1>4, <2>3, <2>4, ServerStepKeepsPage DEF Step, history
  <1>5. CASE StreamBreaks(r)
    <2>1. PICK n \in 0..Len(pipe[r]) :
             pipe' = [pipe EXCEPT ![r] = Append(SubSeq(pipe[r], 1, n), "eof")]
      BY <1>5 DEF StreamBreaks
    <2> DEFINE rest == Append(SubSeq(pipe[r], 1, n), "eof")
    <2>2. /\ rest \in Seq({"step", "eof", "done", "error", "cancelled"})
          /\ \A i \in 1..Len(rest) : rest[i] \in Ends => i \in 1..Len(pipe[r]) /\ pipe[r][i] \in Ends
      BY Broken DEF IInv, TypeOK
    <2> HIDE DEF rest
    <2>3. pipe' = [pipe EXCEPT ![r] = rest]
      BY <2>1 DEF rest
    <2>4. TypeOK'
      BY <1>5, <2>2, <2>3, PipeOf DEF IInv, TypeOK, StreamBreaks, pageVars, history
    <2>5. PipeInv'
      BY <1>5, <2>2, <2>3, PipeKept DEF EndUnderWay, StreamBreaks, history
    <2>6. QED
      BY <1>5, <2>4, <2>5, ServerStepKeepsPage DEF StreamBreaks, history
  <1>6. QED
    BY <1>1, <1>2, <1>3, <1>4, <1>5 DEF Serve

(* A cancel request is handled long before its answer, or without one; a   *)
(* stale claim takes a cancelled run up again.                             *)
LEMMA CancelServed ==
    ASSUME IInv,
           (\E q \in Requests : HandleCancel(q)) \/ (\E r \in Runs : ClaimOverwrites(r))
    PROVE  IInv'
  <1>1. ASSUME NEW q \in Requests, HandleCancel(q)
        PROVE  IInv'
    <2> DEFINE r == asking[q]
    <2>1. r \in Runs
      BY <1>1 DEF HandleCancel, IInv, TypeOK
    <2> HIDE DEF r
    <2>2. CASE stopping' = stopping \union {r} /\ UNCHANGED <<status, handler, pipe, missed>>
      <3>1. TypeOK' /\ PipeInv'
        BY <1>1, <2>1, <2>2 DEF IInv, TypeOK, PipeInv, EndUnderWay, HandleCancel, pageVars
      <3>2. QED
        BY <1>1, <2>2, <3>1, ServerStepKeepsPage DEF HandleCancel
    <2>3. CASE /\ status[r] # "none"
               /\ status' = [status EXCEPT ![r] = "cancelled"]
               /\ Announce(r, "cancelled")
               /\ UNCHANGED stopping
      <3>1. /\ PipeInv' /\ missed' \in SUBSET Runs
            /\ pipe' \in [Runs -> Seq({"step", "eof", "done", "error", "cancelled"})]
            /\ handler' \in [Runs -> {"none", "requested", "read", "listening", "closed"}]
            /\ status' \in [Runs -> {"none", "live", "done", "error", "cancelled"}]
        BY <1>1, <2>1, <2>3, Announced DEF HandleCancel, Ends
      <3>2. TypeOK'
        BY <1>1, <2>3, <3>1 DEF IInv, TypeOK, HandleCancel, pageVars
      <3>3. \A s \in Runs : status'[s] = IF s = r THEN "cancelled" ELSE status[s]
        BY <2>3 DEF IInv, TypeOK
      <3>4. QED
        BY <1>1, <3>1, <3>2, <3>3, ServerStepKeepsPage DEF HandleCancel
    <2>4. QED
      BY <1>1, <2>2, <2>3 DEF HandleCancel, r
  <1>2. ASSUME NEW r \in Runs, ClaimOverwrites(r)
        PROVE  IInv'
    <2>1. \A s \in Runs : status'[s] = IF s = r THEN "live" ELSE status[s]
      BY <1>2 DEF ClaimOverwrites, IInv, TypeOK
    <2>2. TypeOK'
      BY <1>2 DEF IInv, TypeOK, ClaimOverwrites, pageVars
    <2>3. PipeInv'
      BY <1>2, <2>1 DEF IInv, PipeInv, EndUnderWay, ClaimOverwrites
    <2>4. QED
      BY <1>2, <2>1, <2>2, <2>3, ServerStepKeepsPage DEF ClaimOverwrites
  <1>3. QED
    BY <1>1, <1>2

-----------------------------------------------------------------------------
(* Whatever the user clicks and the server does, and in whatever order     *)
(* requests and streams are answered, the page's invariant holds.          *)
THEOREM Invariance == Spec => []IInv
  <1>1. Init => IInv
    <2> SUFFICES ASSUME Init PROVE IInv
      OBVIOUS
    <2>1. TypeOK
      BY DEF Init, TypeOK
    <2>2. PostInv /\ LinesInv /\ PipeInv
      BY DEF Init, PostInv, LinesInv, PipeInv, EndUnderWay
    <2>3. ShowsOneRun /\ LetGoOnlyByFailure /\ ControlsMatch /\ EndIsShown
      BY DEF Init, ShowsOneRun, LetGoOnlyByFailure, ControlsMatch, EndIsShown
    <2>4. QED
      BY <2>1, <2>2, <2>3 DEF IInv
  <1>2. IInv /\ [Next]_vars => IInv'
    <2> SUFFICES ASSUME IInv, [Next]_vars PROVE IInv'
      OBVIOUS
    <2>1. CASE UNCHANGED vars
      BY <2>1 DEF IInv, TypeOK, PostInv, LinesInv, PipeInv, EndUnderWay, ShowsOneRun, LetGoOnlyByFailure,
                  ControlsMatch, EndIsShown, vars, pageVars, serverVars, history
    <2>2. CASE Next
      BY <2>2, SubmitKeeps, CallbackKeeps, ServeKeeps, CancelKeeps, CancelServed DEF Next
    <2>3. QED
      BY <2>1, <2>2
  <1>3. QED
    BY <1>1, <1>2, PTL DEF Spec

(* The variables keep their types: only known events travel. *)
THEOREM TypeCorrect == Spec => []TypeOK
  BY Invariance, PTL DEF IInv

(* No late event or error of an earlier run reaches the lines of the next  *)
(* one (index.html:216-271).                                               *)
THEOREM OneRunAtATime == Spec => []ShowsOneRun
  BY Invariance, PTL DEF IInv

(* A run that goes on is shown or about to be, or was lost by a failure    *)
(* (index.html:244-271).                                                   *)
THEOREM NoRunLetGo == Spec => []LetGoOnlyByFailure
  BY Invariance, PTL DEF IInv

(* The buttons agree with what is under way. *)
THEOREM ControlsAgree == Spec => []ControlsMatch
  BY Invariance, PTL DEF IInv

(* An end that arrived is not followed by an error of its stream. *)
THEOREM EndStaysShown == Spec => []EndIsShown
  BY Invariance, PTL DEF IInv
=============================================================================
