------------------------------ MODULE ToolCalls ------------------------------
(***************************************************************************)
(* The tool calls of one agent, and of the sub-agent one of them may start *)
(* (tools/base.py, tools/memory.py, subagent.py).  dispatch looks the tool *)
(* up in the registry of the loop that calls, tests its capability and     *)
(* awaits the handler under a timeout; whatever is raised becomes the      *)
(* tool's output and the loop goes on.                                     *)
(*                                                                         *)
(* There are two levels: the agent, and a sub-agent while a delegate call  *)
(* of the agent lasts.  Conversations are left to AgentLoop; here a loop   *)
(* is the number of its turns and of the calls left in its last answer.    *)
(***************************************************************************)
EXTENDS Naturals

CONSTANTS
    MaxTurns,   \* iterations of a loop
    MaxCalls    \* bound: tool calls in one answer

ASSUME BoundsAssumption == MaxTurns \in Nat \ {0} /\ MaxCalls \in Nat \ {0}

VARIABLES
    pc,      \* per level: what its loop is waiting for, or how it ended
    call,    \* per level: the tool being run
    turns,   \* per level: answers so far
    left,    \* per level: calls of the last answer not dealt with
    saved,   \* rows of the memories table added by this agent
    told,    \* history: calls of remember that reported success
    cut,     \* history: calls of remember that ended while inserting
    metered, \* llm_calls of the run's one MeteredLLMClient
    billed,  \* history: answers the provider came to
    unheard  \* history: model calls that ended without their answer

memoryVars == <<saved, told, cut>>
meterVars  == <<metered, billed, unheard>>
vars == <<pc, call, turns, left, memoryVars, meterVars>>

Levels == {"agent", "sub"}

Builtins     == {"get_current_time", "http_fetch", "file_read"}
MemoryTools  == {"remember", "recall"}
Delegates    == {"delegate_to_researcher", "delegate_to_summarizer"}
Names        == Builtins \union MemoryTools \union Delegates \union {"no_such_tool"}

Capability(n) == CASE n = "http_fetch" -> "network"
                   [] n = "file_read"  -> "fs_read"
                   [] OTHER            -> "none"

(* The capabilities of each sub-agent's definition. *)
Definition(n) == IF n = "delegate_to_researcher" THEN {"network"} ELSE {}

(* The registry the worker builds, and the one a delegate's handler builds. *)
Registered(l) == Builtins \union MemoryTools \union (IF l = "agent" THEN Delegates ELSE {})

(* Mutant of Allowed: the sub-agent inherits the agent's capabilities. *)
AllowedInherited(l) == {"network", "fs_read"}

Allowed(l) == IF l = "agent" THEN {"network", "fs_read"} ELSE Definition(call["agent"])

Visible(l, n) == n \in Registered(l) /\ Capability(n) \in {"none"} \union Allowed(l)

(* Handlers without an await: they hold the event loop, so that no timer   *)
(* fires and nobody is cancelled until they return.                        *)
Synchronous == {"get_current_time", "file_read"}

Blocked == \E l \in Levels : call[l] \in Synchronous

Running == {"run", "embed", "insert", "nested"}
Over    == {"returned", "raised", "interrupted"}

Init ==
    /\ pc = [agent |-> "model", sub |-> "off"]
    /\ call = [l \in Levels |-> "none"]
    /\ turns = [l \in Levels |-> 0]
    /\ left = [l \in Levels |-> 0]
    /\ saved = 0 /\ told = 0 /\ cut = 0
    /\ metered = 0 /\ billed = 0 /\ unheard = 0

-----------------------------------------------------------------------------
(* The results of answer n are stored: the next iteration, or giving up. *)
AfterTurn(n) == IF n < MaxTurns THEN "model" ELSE "raised"

(* What a loop does once one of its calls has an output. *)
AfterCall(l) == IF left[l] > 1 THEN "dispatch" ELSE AfterTurn(turns[l])

CallDone(l) ==
    /\ pc' = [pc EXCEPT ![l] = AfterCall(l)]
    /\ call' = [call EXCEPT ![l] = "none"]
    /\ left' = [left EXCEPT ![l] = @ - 1]
    /\ UNCHANGED turns

(* Mutant of Meter: a sub-agent's answers are not the run's. *)
MeterAgentOnly(l) ==
    /\ metered' = IF l = "agent" THEN metered + 1 ELSE metered
    /\ billed' = billed + 1
    /\ UNCHANGED unheard

(* MeteredLLMClient.complete has its answer: the agent's client is the     *)
(* sub-agents' client too.                                                 *)
Meter(l) ==
    /\ metered' = metered + 1
    /\ billed' = billed + 1
    /\ UNCHANGED unheard

(* The calls of the model under way at level l or below end without their  *)
(* answer; the provider may have come to it even so.                       *)
Unheard(l) ==
    IF \E k \in {l, "sub"} : pc[k] = "model"
    THEN billed' \in {billed, billed + 1} /\ unheard' = unheard + 1 /\ UNCHANGED metered
    ELSE UNCHANGED meterVars

(* The model's answer: final, or asking for tools and naming k of them. *)
Answer(l) ==
    /\ pc[l] = "model"
    /\ Meter(l)
    /\ turns' = [turns EXCEPT ![l] = @ + 1]
    /\ \/ pc' = [pc EXCEPT ![l] = "returned"] /\ UNCHANGED left
       \/ pc' = [pc EXCEPT ![l] = AfterTurn(turns[l] + 1)] /\ UNCHANGED left
       \/ \E k \in 1..MaxCalls :
             /\ left' = [left EXCEPT ![l] = k]
             /\ pc' = [pc EXCEPT ![l] = "dispatch"]
    /\ UNCHANGED <<call, memoryVars>>

(* The call of the model raises, or the poll before it, or the callback    *)
(* after it, which gets an answer that was metered.                        *)
ModelFails(l) ==
    /\ pc[l] = "model"
    /\ pc' = [pc EXCEPT ![l] = "raised"]
    /\ Unheard(l) \/ Meter(l)
    /\ UNCHANGED <<call, turns, left, memoryVars>>

(* UnknownTool or CapabilityDenied. *)
Reject(l) ==
    /\ pc[l] = "dispatch"
    /\ \E n \in Names : ~Visible(l, n)
    /\ CallDone(l)
    /\ UNCHANGED <<memoryVars, meterVars>>

(* Any visible tool but a delegate: memory tools embed their text first. *)
Start(l) ==
    /\ pc[l] = "dispatch"
    /\ \E n \in Names \ Delegates :
          /\ Visible(l, n)
          /\ call' = [call EXCEPT ![l] = n]
          /\ pc' = [pc EXCEPT ![l] = IF n \in MemoryTools THEN "embed" ELSE "run"]
    /\ UNCHANGED <<turns, left, memoryVars, meterVars>>

(* A delegate's handler starts a fresh loop with the registry of its       *)
(* definition; there is one such loop at most, as there is one level.      *)
Delegate(l) ==
    /\ pc[l] = "dispatch"
    /\ \E n \in Delegates :
          /\ Visible(l, n)
          /\ call' = [call EXCEPT ![l] = n]
    /\ pc' = [pc EXCEPT ![l] = "nested", !["sub"] = "model"]
    /\ turns' = [turns EXCEPT !["sub"] = 0]
    /\ left' = [left EXCEPT !["sub"] = 0]
    /\ UNCHANGED <<memoryVars, meterVars>>

Embedded(l) ==
    /\ pc[l] = "embed"
    /\ pc' = [pc EXCEPT ![l] = IF call[l] = "remember" THEN "insert" ELSE "run"]
    /\ UNCHANGED <<call, turns, left, memoryVars, meterVars>>

(* Mutant of Inserted: success is reported before the commit. *)
InsertedLater(l) ==
    /\ pc[l] = "insert"
    /\ told' = told + 1
    /\ CallDone(l)
    /\ UNCHANGED <<saved, cut, meterVars>>

(* The INSERT is committed and remember returns. *)
Inserted(l) ==
    /\ pc[l] = "insert"
    /\ saved' = saved + 1
    /\ told' = told + 1
    /\ CallDone(l)
    /\ UNCHANGED <<cut, meterVars>>

(* http_fetch or recall returns. *)
Returns(l) ==
    /\ pc[l] = "run" /\ ~Blocked
    /\ CallDone(l)
    /\ UNCHANGED <<memoryVars, meterVars>>

(* A handler without an await returns or raises. *)
ReturnsAtOnce(l) ==
    /\ pc[l] = "run" /\ Blocked
    /\ CallDone(l)
    /\ UNCHANGED <<memoryVars, meterVars>>

(* The sub-agent's loop ended: its text, or its exception, is the output. *)
NestedEnds ==
    /\ pc["agent"] = "nested"
    /\ pc["sub"] \in {"returned", "raised"}
    /\ pc' = [agent |-> AfterCall("agent"), sub |-> "off"]
    /\ call' = [call EXCEPT !["agent"] = "none"]
    /\ left' = [left EXCEPT !["agent"] = @ - 1]
    /\ UNCHANGED <<turns, memoryVars, meterVars>>

(* What becomes of an INSERT cut off at level l or below: committed or not. *)
CutOff(l) ==
    IF \E k \in {l, "sub"} : pc[k] = "insert"
    THEN saved' \in {saved, saved + 1} /\ cut' = cut + 1 /\ UNCHANGED told
    ELSE UNCHANGED memoryVars

(* The handler raises; an INSERT may have been committed even so. *)
Raises(l) ==
    /\ pc[l] \in Running \ {"nested"} /\ ~Blocked
    /\ CutOff(l)
    /\ CallDone(l)
    /\ UNCHANGED meterVars

(* Mutant of Timeout: delegates have none. *)
TimeoutUnlessNested(l) ==
    /\ pc[l] \in Running \ {"nested"} /\ ~Blocked
    /\ CutOff(l)
    /\ CallDone(l)
    /\ UNCHANGED meterVars

(* wait_for cancels the handler at whatever await it stands, and with it a *)
(* sub-agent; TimeoutError becomes the output.                             *)
Timeout(l) ==
    /\ pc[l] \in Running /\ ~Blocked
    /\ CutOff(l)
    /\ Unheard(l)
    /\ pc' = [pc EXCEPT !["sub"] = "off", ![l] = AfterCall(l)]
    /\ call' = [k \in Levels |-> IF k \in {l, "sub"} THEN "none" ELSE call[k]]
    /\ left' = [left EXCEPT ![l] = @ - 1]
    /\ UNCHANGED turns

(* The watchdog cancels the agent's task: CancelledError is no Exception   *)
(* and passes through every level.                                         *)
Interrupt ==
    /\ pc["agent"] \notin Over /\ ~Blocked
    /\ CutOff("agent")
    /\ Unheard("agent")
    /\ pc' = [agent |-> "interrupted", sub |-> "off"]
    /\ call' = [l \in Levels |-> "none"]
    /\ UNCHANGED <<turns, left>>

-----------------------------------------------------------------------------
(* What the loop does by itself, whether or not its tools ever return. *)
LoopStep(l) == Answer(l) \/ ModelFails(l) \/ Reject(l) \/ Start(l) \/ Delegate(l) \/ Timeout(l)
               \/ ReturnsAtOnce(l)

ToolStep(l) == Embedded(l) \/ Inserted(l) \/ Returns(l) \/ Raises(l)

Next == \/ \E l \in Levels : LoopStep(l) \/ ToolStep(l)
        \/ NestedEnds
        \/ Interrupt

Spec == Init /\ [][Next]_vars

(* The agent's loop runs on, its model answers or fails, its timers fire,  *)
(* and a handler without an await ends; nothing is assumed of the other    *)
(* tools, the embedder, Postgres or a sub-agent's loop and model.          *)
FairSpec == Spec /\ WF_vars(LoopStep("agent")) /\ WF_vars(ReturnsAtOnce("sub"))

-----------------------------------------------------------------------------
(* A sub-agent lives exactly as long as the agent's call that started it,  *)
(* timed out or interrupted calls included, and runs no delegate and no    *)
(* tool beyond its definition (subagent.py:8-9, specialists.py:45); no     *)
(* call is left in hand by a level that does not wait for it.              *)
SubAgentConfined ==
    /\ \A l \in Levels : pc[l] \in Running <=> call[l] # "none"
    /\ pc["sub"] # "off" <=> pc["agent"] = "nested"
    /\ pc["agent"] = "nested" <=> call["agent"] \in Delegates
    /\ pc["sub"] \in Running =>
          /\ call["sub"] \notin Delegates
          /\ Capability(call["sub"]) \in {"none"} \union Definition(call["agent"])

(* What the agents were told is in the table: each reported remember is a  *)
(* row, and a row nobody was told of is of a call cut off while inserting. *)
MemoryHonest == told <= saved /\ saved <= told + cut

(* The run's metrics count every answer its loops received, those of the   *)
(* sub-agents included, and miss of the provider's bill only answers to    *)
(* calls that were cut off or failed (llm.py:29-42, worker.py:143-175).    *)
MeterHonest == metered <= billed /\ billed <= metered + unheard

(* A hanging tool or sub-agent does not hang the agent: each call ends by  *)
(* its timeout and the iterations are bounded (base.py:58, loop.py:60).    *)
AgentEnds == <>(pc["agent"] \in Over)
=============================================================================
