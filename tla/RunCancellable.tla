--------------------------- MODULE RunCancellable ---------------------------
(***************************************************************************)
(* _run_cancellable in the worker: the agent's coroutine as a task, the    *)
(* watchdog that polls the cancel key and cancels the task, and the        *)
(* _process_one coroutine that awaits first the one and then the other.    *)
(*                                                                         *)
(* The three are tasks of one asyncio loop: a step runs up to the next     *)
(* await, so task.done() and task.cancel() see the task between two of its *)
(* steps.  Task.cancel() takes effect when the task is next resumed.       *)
(***************************************************************************)
EXTENDS AgentLoop

VARIABLES
    cancelling, \* task.cancel() was called while the task was not done
    watchdog,   \* where the watchdog is, or how it ended
    main,       \* _process_one: awaiting the task, the watchdog, or past both
    result      \* what _run_cancellable gives: an outcome of the run

vars == <<loopVars, cancelling, watchdog, main, result>>

Init ==
    /\ LoopInit
    /\ cancelling = FALSE
    /\ watchdog = "sleeping"
    /\ main = "await_task"
    /\ result = "none"

TaskDone == pc \in Ended

(* The agent's task takes a step of its own ... *)
TaskStep ==
    /\ ~cancelling
    /\ LoopStep \/ Raise
    /\ UNCHANGED <<cancelling, watchdog, main, result>>

(* ... or is resumed with CancelledError. *)
TaskInterrupted ==
    /\ cancelling
    /\ Interrupt
    /\ UNCHANGED <<cancelling, watchdog, main, result>>

UserRequests == Request /\ UNCHANGED <<cancelling, watchdog, main, result>>

(* The poll interval is over. *)
WatchdogWakes ==
    /\ watchdog = "sleeping"
    /\ watchdog' = IF TaskDone THEN "returned" ELSE "asking"
    /\ UNCHANGED <<loopVars, cancelling, main, result>>

(* Mutant of WatchdogAnswered: it polls only once. *)
WatchdogPollsOnce ==
    /\ watchdog = "asking"
    /\ watchdog' = "returned"
    /\ cancelling' = (requested /\ ~TaskDone)
    /\ UNCHANGED <<loopVars, main, result>>

(* The answer of is_requested arrives; the task may have ended meanwhile,  *)
(* and then cancel() does nothing.                                         *)
WatchdogAnswered ==
    /\ watchdog = "asking"
    /\ watchdog' = IF requested THEN "returned" ELSE "sleeping"
    /\ cancelling' = (requested /\ ~TaskDone)
    /\ UNCHANGED <<loopVars, main, result>>

(* Redis fails: the exception ends the watchdog and waits to be retrieved. *)
WatchdogDies ==
    /\ FaultsOn
    /\ watchdog = "asking"
    /\ watchdog' = "died"
    /\ UNCHANGED <<loopVars, cancelling, main, result>>

(* watchdog.cancel(): it has an effect when the watchdog is next resumed,  *)
(* and none on one that is done.                                           *)
CancelWatchdog ==
    watchdog' = IF watchdog \in {"sleeping", "asking"} THEN "cancelling" ELSE watchdog

(* Mutants of TaskAwaited: the watchdog is not cancelled; the outcome is   *)
(* taken from the cancel key.                                              *)
TaskAwaitedOnly ==
    /\ main = "await_task"
    /\ TaskDone
    /\ result' = CASE pc = "returned" -> "succeeded"
                   [] pc = "raised"   -> "failed"
                   [] pc \in {"run_cancelled", "interrupted"} -> "cancelled"
    /\ main' = "await_watchdog"
    /\ UNCHANGED <<loopVars, cancelling, watchdog>>

TaskAwaitedByKey ==
    /\ main = "await_task"
    /\ TaskDone
    /\ result' = IF requested THEN "cancelled" ELSE IF pc = "returned" THEN "succeeded" ELSE "failed"
    /\ CancelWatchdog
    /\ main' = "await_watchdog"
    /\ UNCHANGED <<loopVars, cancelling>>

(* await task returns or raises; the finally clause cancels the watchdog.  *)
TaskAwaited ==
    /\ main = "await_task"
    /\ TaskDone
    /\ result' = CASE pc = "returned" -> "succeeded"
                   [] pc = "raised"   -> "failed"
                   [] pc \in {"run_cancelled", "interrupted"} -> "cancelled"
    /\ CancelWatchdog
    /\ main' = "await_watchdog"
    /\ UNCHANGED <<loopVars, cancelling>>

(* The watchdog is resumed with CancelledError, asleep or in its poll. *)
WatchdogCancelled ==
    /\ watchdog = "cancelling"
    /\ watchdog' = "cancelled"
    /\ UNCHANGED <<loopVars, cancelling, main, result>>

(* await watchdog, until it is done: its CancelledError is suppressed, any *)
(* other exception leaves the finally clause in place of the task's        *)
(* result.                                                                 *)
WatchdogAwaited ==
    /\ main = "await_watchdog"
    /\ watchdog \in {"returned", "died", "cancelled"}
    /\ result' = IF watchdog = "died" THEN "failed" ELSE result
    /\ main' = "done"
    /\ UNCHANGED <<loopVars, cancelling, watchdog>>

(* What the event loop runs when it is ready, the agent's own calls apart. *)
Supervise ==
    \/ TaskInterrupted
    \/ WatchdogWakes \/ WatchdogAnswered
    \/ TaskAwaited \/ WatchdogCancelled \/ WatchdogAwaited

Next == TaskStep \/ UserRequests \/ WatchdogDies \/ Supervise

Spec == Init /\ [][Next]_vars

(* The agent may hang in a call, and the watchdog in its poll; timers fire *)
(* and what is ready is run.  Weak fairness of the parts: the poll must    *)
(* not starve the interrupt.                                               *)
StuckTaskSpec ==
    /\ Spec
    /\ WF_vars(TaskInterrupted)
    /\ WF_vars(WatchdogWakes) /\ WF_vars(WatchdogCancelled)
    /\ WF_vars(TaskAwaited) /\ WF_vars(WatchdogAwaited)

-----------------------------------------------------------------------------
(* Types of the loop, the watchdog and their parent. *)
TypeOK ==
    /\ LoopTypeOK
    /\ cancelling \in BOOLEAN
    /\ watchdog \in {"sleeping", "asking", "cancelling", "returned", "died", "cancelled"}
    /\ main \in {"await_task", "await_watchdog", "done"}
    /\ result \in {"none", "succeeded", "failed", "cancelled"}

(* Unless the watchdog's own poll failed, the outcome is the one the agent *)
(* came to: a finished answer is never reported cancelled, a cancellation  *)
(* is never reported as success or failure, and only a request cancels.    *)
OutcomeIsAgents ==
    (main = "done" /\ watchdog # "died") =>
        /\ result = "succeeded" <=> pc = "returned"
        /\ result = "cancelled" <=> pc \in {"run_cancelled", "interrupted"}
        /\ result = "cancelled" => requested

(* Once the agent is done its outcome is reported, although the parent     *)
(* awaits the watchdog too and the watchdog may wait for a Redis that      *)
(* never answers: it is cancelled in its poll (worker.py:116-119).         *)
EndedTaskIsReported == TaskDone ~> main = "done"

(* The promise of its docstring and of tests/test_worker.py:133: a         *)
(* request stops the run although the agent is stuck, in a model call or   *)
(* a tool, as long as Redis answers the watchdog.                          *)
RequestStopsRun ==
    WF_vars(WatchdogAnswered) => (requested ~> (main = "done" \/ watchdog = "died"))

(* Whatever the model answers, _run_cancellable is over after a bounded    *)
(* number of turns: by an answer, the iteration limit or a cancel, as long *)
(* as each call of the agent returns (loop.py:60-93).                      *)
AgentAlwaysEnds == WF_vars(TaskStep) => <>(main = "done")

(* What tests/test_worker.py:153 says: "If no cancel signal,               *)
(* _run_cancellable returns the coro result."                              *)
ReturnsCoroResult ==
    (main = "done" /\ ~requested /\ pc = "returned") => result = "succeeded"
=============================================================================
