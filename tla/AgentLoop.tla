------------------------------ MODULE AgentLoop ------------------------------
(***************************************************************************)
(* AgentLoop.run: the conversation with the model, its compaction, the     *)
(* tool calls, and the copy of every message that on_message stores.       *)
(*                                                                         *)
(* A message keeps its role, the turn it belongs to, how many tool_use or  *)
(* tool_result blocks it has, and its size as estimate_tokens counts it.   *)
(* Every action ends at an await; at each of them the coroutine may be     *)
(* resumed by an exception instead (Raise, Interrupt).                     *)
(***************************************************************************)
EXTENDS Integers, Sequences, SequencesExt, FiniteSets

CONSTANTS
    MaxIterations,  \* turns before the loop gives up
    ContextLimit,   \* estimated tokens above which it compacts
    KeepRecent,     \* messages kept besides the first one
    Sizes,          \* sizes a message may have
    MaxTools,       \* bound: tool_use blocks in one answer
    FaultsOn        \* may Postgres, Redis or the model API raise?

ASSUME LoopAssumption ==
    /\ MaxIterations \in Nat \ {0} /\ ContextLimit \in Nat /\ MaxTools \in Nat
    /\ Sizes \subseteq Nat /\ FaultsOn \in BOOLEAN

(* The window is the first message and an even, positive number of recent  *)
(* ones (10 wherever the program builds a loop).                           *)
ASSUME KeepRecentAssumption == KeepRecent \in Nat \ {0} /\ KeepRecent % 2 = 0

VARIABLES
    requested,  \* the cancel key of the run is set
    pc,         \* where the coroutine is waiting, or how it ended
    turn,       \* answers appended to the conversation
    messages,   \* the conversation, as sent to the model
    transcript, \* the messages stored by on_message, in seq order
    pending,    \* the message being stored
    more,       \* stop_reason of the last answer is "tool_use"
    results,    \* tool calls of the last answer dealt with
    received    \* answers the model gave to this loop

loopVars == <<requested, pc, turn, messages, transcript, pending, more, results, received>>

Message == [role : {"user", "assistant"}, turn : 0..MaxIterations, tools : 0..MaxTools, size : Sizes]

Waiting == {"prompt", "check", "model", "answer", "tools", "results"}
Ended   == {"returned", "raised", "run_cancelled", "interrupted"}

-----------------------------------------------------------------------------
(* compaction.py *)

Tokens(msgs) == FoldLeft(LAMBDA sum, m : sum + m.size, 0, msgs)

(* Mutants of Compact: one message too many; the prompt is dropped too. *)
CompactKeepsOneMore(msgs) ==
    IF Len(msgs) <= KeepRecent + 1
    THEN msgs
    ELSE <<Head(msgs)>> \o SubSeq(msgs, Len(msgs) - KeepRecent, Len(msgs))

CompactDropsPrompt(msgs) ==
    IF Len(msgs) <= KeepRecent + 1
    THEN msgs
    ELSE SubSeq(msgs, Len(msgs) - KeepRecent, Len(msgs))

Compact(msgs) ==
    IF Len(msgs) <= KeepRecent + 1
    THEN msgs
    ELSE <<Head(msgs)>> \o SubSeq(msgs, Len(msgs) - KeepRecent + 1, Len(msgs))

-----------------------------------------------------------------------------
LoopInit ==
    /\ requested = FALSE
    /\ pc = "prompt"
    /\ turn = 0
    /\ messages = << >>
    /\ transcript = << >>
    /\ pending \in {m \in Message : m.role = "user" /\ m.turn = 0 /\ m.tools = 0}
    /\ more = FALSE
    /\ results = 0
    /\ received = 0

(* The user asks to cancel: the key appears in Redis. *)
Request ==
    /\ ~requested
    /\ requested' = TRUE
    /\ UNCHANGED <<pc, turn, messages, transcript, pending, more, results, received>>

Store ==
    /\ transcript' = Append(transcript, pending)
    /\ messages' = Append(messages, pending)

StorePrompt ==
    /\ pc = "prompt"
    /\ Store
    /\ pc' = "check"
    /\ UNCHANGED <<requested, turn, pending, more, results, received>>

(* should_cancel says no; compact when the conversation is too long. *)
BeginTurn ==
    /\ pc = "check"
    /\ ~requested
    /\ messages' = IF Tokens(messages) > ContextLimit THEN Compact(messages) ELSE messages
    /\ pc' = "model"
    /\ UNCHANGED <<requested, turn, transcript, pending, more, results, received>>

SeeCancel ==
    /\ pc = "check"
    /\ requested
    /\ pc' = "run_cancelled"
    /\ UNCHANGED <<requested, turn, messages, transcript, pending, more, results, received>>

(* The model answers; MeteredLLMClient counts the call. *)
Answer ==
    /\ pc = "model"
    /\ \E n \in 0..MaxTools, size \in Sizes :
          pending' = [role |-> "assistant", turn |-> turn + 1, tools |-> n, size |-> size]
    /\ more' \in BOOLEAN
    /\ received' = received + 1
    /\ pc' = "answer"
    /\ UNCHANGED <<requested, turn, messages, transcript, results>>

(* Mutant of StoreAnswer: the loop returns before on_message. *)
ReturnBeforeStore ==
    /\ pc = "answer"
    /\ IF more THEN Store ELSE UNCHANGED <<messages, transcript>>
    /\ turn' = turn + 1
    /\ results' = 0
    /\ pc' = IF more THEN "tools" ELSE "returned"
    /\ UNCHANGED <<requested, pending, more, received>>

StoreAnswer ==
    /\ pc = "answer"
    /\ Store
    /\ turn' = turn + 1
    /\ results' = 0
    /\ pc' = IF more THEN "tools" ELSE "returned"
    /\ UNCHANGED <<requested, pending, more, received>>

(* Mutant of DispatchTool: one dispatch too many. *)
DispatchOneMore ==
    /\ pc = "tools"
    /\ results <= pending.tools
    /\ results' = results + 1
    /\ UNCHANGED <<requested, pc, turn, messages, transcript, pending, more, received>>

(* dispatch returns, or raises (unknown tool, missing capability, timeout, *)
(* the tool's own error) and the exception becomes the tool's output.      *)
DispatchTool ==
    /\ pc = "tools"
    /\ results < pending.tools
    /\ results' = results + 1
    /\ UNCHANGED <<requested, pc, turn, messages, transcript, pending, more, received>>

(* Mutant of CollectResults: an answer without tool calls is waited on. *)
CollectSomeResults ==
    /\ pc = "tools"
    /\ results = pending.tools /\ results > 0
    /\ \E size \in Sizes :
          pending' = [role |-> "user", turn |-> turn, tools |-> results, size |-> size]
    /\ pc' = "results"
    /\ UNCHANGED <<requested, turn, messages, transcript, more, results, received>>

CollectResults ==
    /\ pc = "tools"
    /\ results = pending.tools
    /\ \E size \in Sizes :
          pending' = [role |-> "user", turn |-> turn, tools |-> results, size |-> size]
    /\ pc' = "results"
    /\ UNCHANGED <<requested, turn, messages, transcript, more, results, received>>

(* After the last iteration the loop raises RuntimeError. *)
StoreResults ==
    /\ pc = "results"
    /\ Store
    /\ pc' = IF turn < MaxIterations THEN "check" ELSE "raised"
    /\ UNCHANGED <<requested, turn, pending, more, results, received>>

(* The coroutine ends at its await; on_message may have committed already. *)
StopAt(end) ==
    /\ pc \in Waiting
    /\ pc' = end
    /\ \/ UNCHANGED transcript
       \/ /\ pc \in {"prompt", "answer", "results"}
          /\ transcript' = Append(transcript, pending)
    /\ UNCHANGED <<requested, turn, messages, pending, more, results, received>>

(* Any exception but a tool's. *)
Raise ==
    /\ FaultsOn
    /\ pc # "tools"
    /\ StopAt("raised")

(* Task.cancel(): CancelledError, which the loop does not catch. *)
Interrupt == StopAt("interrupted")

LoopStep ==
    \/ StorePrompt \/ BeginTurn \/ SeeCancel \/ Answer \/ StoreAnswer
    \/ DispatchTool \/ CollectResults \/ StoreResults

LoopNext == LoopStep \/ Raise \/ Interrupt \/ Request

LoopSpec == LoopInit /\ [][LoopNext]_loopVars

-----------------------------------------------------------------------------
(* Types; no more results than calls, no more turns than the limit. *)
LoopTypeOK ==
    /\ requested \in BOOLEAN
    /\ pc \in Waiting \union Ended
    /\ turn \in 0..MaxIterations
    /\ messages \in Seq(Message)
    /\ transcript \in Seq(Message)
    /\ pending \in Message
    /\ more \in BOOLEAN
    /\ results \in 0..MaxTools
    /\ received \in 0..MaxIterations

(* Every request the model gets is a conversation its API accepts, however *)
(* often it was compacted: the prompt first, then answers and tool results *)
(* in turn, each result message right after the answer whose tool calls it *)
(* answers, one result per call; and the last word is the user's.          *)
RequestWellFormed ==
    pc = "model" =>
        /\ Len(messages) % 2 = 1
        /\ messages[1] = transcript[1]
        /\ \A i \in 1..Len(messages) :
              messages[i].role = IF i % 2 = 0 THEN "assistant" ELSE "user"
        /\ \A i \in 1..Len(messages) : (i > 1 /\ i % 2 = 1) =>
              /\ messages[i].turn = messages[i - 1].turn
              /\ messages[i].tools = messages[i - 1].tools

(* Compaction forgets only the middle: a request is the prompt and an      *)
(* unbroken recent part of the stored transcript, at least KeepRecent long *)
(* when there is that much.                                                *)
RequestIsRecent ==
    pc = "model" =>
        /\ Len(messages) >= 1 + KeepRecent \/ messages = transcript
        /\ messages = <<transcript[1]>>
                \o SubSeq(transcript, Len(transcript) - Len(messages) + 2, Len(transcript))

Answers == Cardinality({i \in 1..Len(transcript) : transcript[i].role = "assistant"})

(* What is stored is the whole conversation, without a gap or a repeat,    *)
(* however the run ended: every answer the model gave is stored, but for   *)
(* the last one when the run ended before on_message had committed it.     *)
TranscriptComplete ==
    /\ \A i \in 1..Len(transcript) :
          /\ transcript[i].role = IF i % 2 = 0 THEN "assistant" ELSE "user"
          /\ transcript[i].turn = i \div 2
    /\ received - Answers \in {0, 1}
    /\ pc = "returned" => received = Answers /\ transcript[Len(transcript)].role = "assistant"
=============================================================================
