------------------------- MODULE RunCancellableProofs -------------------------
(***************************************************************************)
(* Proofs about AgentLoop and RunCancellable: what the model is asked and  *)
(* what is stored, for any window, limit, sizes and number of iterations,  *)
(* and the outcome _run_cancellable gives.                                 *)
(***************************************************************************)
EXTENDS RunCancellable, FiniteSetTheorems, SequenceTheorems, TLAPS

(* Position i of the conversation: whose word it is, and of which turn. *)
InPlace(m, i) ==
    /\ m.role = IF i % 2 = 0 THEN "assistant" ELSE "user"
    /\ m.turn = i \div 2

(* The stored messages are in place, and each result message answers the   *)
(* calls of the message before it.                                         *)
TranscriptInv ==
    /\ \A i \in 1..Len(transcript) : InPlace(transcript[i], i)
    /\ \A i \in 2..Len(transcript) : i % 2 = 1 => transcript[i].tools = transcript[i - 1].tools

(* Where the loop is in its turn, and what it is about to store. *)
TurnInv ==
    /\ pc \in {"prompt", "check", "model", "answer"} => turn < MaxIterations
    /\ pc = "prompt" =>
          turn = 0 /\ transcript = << >> /\ messages = << >> /\ InPlace(pending, 1)
    /\ pc \in {"check", "model", "answer"} => Len(transcript) = 2 * turn + 1
    /\ pc \in {"tools", "results"} => turn > 0 /\ Len(transcript) = 2 * turn
    /\ pc = "answer" => InPlace(pending, 2 * turn + 2)
    /\ pc = "tools" => pending = transcript[2 * turn] /\ results <= pending.tools
    /\ pc = "results" => InPlace(pending, 2 * turn + 1) /\ pending.tools = transcript[2 * turn].tools

Recent(i) == i + Len(transcript) - Len(messages)

(* The conversation is the prompt and the end of the transcript, and what  *)
(* compaction left out is a whole number of turns.                         *)
WindowInv ==
    pc \in Waiting \ {"prompt"} =>
        /\ Len(messages) \in 1..Len(transcript)
        /\ \E d \in Nat : Len(transcript) = Len(messages) + 2 * d
        /\ messages[1] = transcript[1]
        /\ \A i \in 2..Len(messages) : messages[i] = transcript[Recent(i)]
        /\ Len(messages) >= 1 + KeepRecent \/ Len(messages) = Len(transcript)

(* How many answers were received and stored. *)
AnswersInv ==
    /\ pc \in Waiting \ {"answer"} => received = turn /\ Answers = turn
    /\ pc = "answer" => received = turn + 1 /\ Answers = turn
    /\ received - Answers \in {0, 1}
    /\ pc = "returned" => received = Answers /\ transcript[Len(transcript)].role = "assistant"

LoopInv == LoopTypeOK /\ TranscriptInv /\ TurnInv /\ WindowInv /\ AnswersInv

-----------------------------------------------------------------------------
(* Even and odd positions. *)
LEMMA Parity ==
    /\ \A n \in Nat : (2 * n) % 2 = 0 /\ (2 * n) \div 2 = n
    /\ \A n \in Nat : (2 * n + 1) % 2 = 1 /\ (2 * n + 1) \div 2 = n
    /\ \A n, d \in Nat : (n + 2 * d) % 2 = n % 2
    /\ \A n \in Nat : n % 2 \in {0, 1}
  OBVIOUS

(* Half of the window is a whole number of messages. *)
LEMMA HalfWindow == \E h \in Nat \ {0} : KeepRecent = 2 * h
  BY KeepRecentAssumption

(* Storing a message that is in place keeps the transcript in order. *)
LEMMA StoredInPlace ==
    ASSUME TranscriptInv, transcript \in Seq(Message), pending \in Message,
           InPlace(pending, Len(transcript) + 1),
           ((Len(transcript) + 1) % 2 = 1 /\ Len(transcript) > 0)
              => pending.tools = transcript[Len(transcript)].tools,
           transcript' = Append(transcript, pending)
    PROVE  TranscriptInv' /\ transcript' \in Seq(Message)
  <1>1. /\ transcript' \in Seq(Message) /\ Len(transcript) \in Nat
        /\ Len(transcript') = Len(transcript) + 1
        /\ transcript'[Len(transcript) + 1] = pending
        /\ \A i \in 1..Len(transcript) : transcript'[i] = transcript[i]
    OBVIOUS
  <1>2. ASSUME NEW i \in 1..Len(transcript')
        PROVE  InPlace(transcript'[i], i)
    BY <1>1 DEF TranscriptInv
  <1>3. ASSUME NEW i \in 2..Len(transcript'), i % 2 = 1
        PROVE  transcript'[i].tools = transcript'[i - 1].tools
    BY <1>1, <1>3 DEF TranscriptInv
  <1>4. QED
    BY <1>1, <1>2, <1>3 DEF TranscriptInv

(* Storing a message counts as an answer if it is the assistant's. *)
LEMMA StoredAnswers ==
    ASSUME transcript \in Seq(Message), pending \in Message,
           transcript' = Append(transcript, pending)
    PROVE  /\ Answers \in Nat
           /\ Answers' = IF pending.role = "assistant" THEN Answers + 1 ELSE Answers
  <1> DEFINE S == {i \in 1..Len(transcript) : transcript[i].role = "assistant"}
             T == {i \in 1..Len(transcript') : transcript'[i].role = "assistant"}
             n == Len(transcript) + 1
  <1>1. /\ Len(transcript) \in Nat /\ Len(transcript') = n
        /\ transcript'[n] = pending
        /\ \A i \in 1..Len(transcript) : transcript'[i] = transcript[i]
    OBVIOUS
  <1>2. IsFiniteSet(S) /\ Cardinality(S) \in Nat
    <2>1. IsFiniteSet(1..Len(transcript))
      BY <1>1, FS_Interval
    <2>2. S \in SUBSET (1..Len(transcript))
      OBVIOUS
    <2>3. IsFiniteSet(S)
      BY <2>1, <2>2, FS_Subset
    <2>4. QED
      BY <2>3, FS_CardinalityType
  <1>3. T = IF pending.role = "assistant" THEN S \union {n} ELSE S
    BY <1>1
  <1>4. n \notin S
    BY <1>1
  <1>5. Cardinality(T) = IF pending.role = "assistant" THEN Cardinality(S) + 1 ELSE Cardinality(S)
    BY <1>2, <1>3, <1>4, FS_AddElement
  <1>6. QED
    BY <1>2, <1>5 DEF Answers

(* A conversation that grows with the transcript stays a window of it. *)
LEMMA StoredWindow ==
    ASSUME LoopTypeOK, WindowInv, pc \in Waiting \ {"prompt"}, Store
    PROVE  /\ messages' \in Seq(Message)
           /\ Len(messages') \in 1..Len(transcript')
           /\ \E d \in Nat : Len(transcript') = Len(messages') + 2 * d
           /\ messages'[1] = transcript'[1]
           /\ \A i \in 2..Len(messages') : messages'[i] = transcript'[Recent(i)']
           /\ Len(messages') >= 1 + KeepRecent \/ Len(messages') = Len(transcript')
  <1>1. /\ Len(messages) \in Nat /\ messages' \in Seq(Message)
        /\ Len(messages') = Len(messages) + 1
        /\ messages'[Len(messages) + 1] = pending
        /\ \A i \in 1..Len(messages) : messages'[i] = messages[i]
    BY DEF Store, LoopTypeOK
  <1>2. /\ Len(transcript) \in Nat
        /\ Len(transcript') = Len(transcript) + 1
        /\ transcript'[Len(transcript) + 1] = pending
        /\ \A i \in 1..Len(transcript) : transcript'[i] = transcript[i]
    BY DEF Store, LoopTypeOK
  <1>3. /\ Len(messages) \in 1..Len(transcript)
        /\ messages[1] = transcript[1]
        /\ \A i \in 2..Len(messages) : messages[i] = transcript[i + Len(transcript) - Len(messages)]
        /\ Len(messages) >= 1 + KeepRecent \/ Len(messages) = Len(transcript)
    BY DEF WindowInv, Recent
  <1>4. PICK d \in Nat : Len(transcript) = Len(messages) + 2 * d
    BY DEF WindowInv
  <1>5. Len(transcript') = Len(messages') + 2 * d
    BY <1>1, <1>2, <1>4
  <1>6. ASSUME NEW i \in 2..Len(messages')
        PROVE  messages'[i] = transcript'[i + Len(transcript') - Len(messages')]
    <2>1. CASE i = Len(messages')
      <3>1. i + Len(transcript') - Len(messages') = Len(transcript) + 1
        BY <1>1, <1>2, <2>1
      <3>2. QED
        BY <1>1, <1>2, <2>1, <3>1
    <2>2. CASE i # Len(messages')
      <3>1. i \in 2..Len(messages)
        BY <1>1, <1>6, <2>2
      <3>2. /\ i + Len(transcript') - Len(messages') = i + Len(transcript) - Len(messages)
            /\ i + Len(transcript) - Len(messages) \in 1..Len(transcript)
        BY <1>1, <1>2, <1>3, <3>1
      <3>3. QED
        BY <1>1, <1>2, <1>3, <3>1, <3>2
    <2>3. QED
      BY <2>1, <2>2
  <1>7. \A i \in 2..Len(messages') : messages'[i] = transcript'[Recent(i)']
    BY <1>6 DEF Recent
  <1>8. /\ Len(messages') \in 1..Len(transcript')
        /\ messages'[1] = transcript'[1]
        /\ Len(messages') >= 1 + KeepRecent \/ Len(messages') = Len(transcript')
    BY <1>1, <1>2, <1>3, KeepRecentAssumption
  <1>9. QED
    BY <1>1, <1>5, <1>7, <1>8

(* Compaction keeps the first message and the last KeepRecent ones. *)
LEMMA Compacted ==
    ASSUME NEW msgs \in Seq(Message), Len(msgs) > KeepRecent + 1
    PROVE  /\ Compact(msgs) \in Seq(Message)
           /\ Len(Compact(msgs)) = KeepRecent + 1
           /\ Compact(msgs)[1] = msgs[1]
           /\ \A i \in 2..(KeepRecent + 1) : Compact(msgs)[i] = msgs[i + Len(msgs) - (KeepRecent + 1)]
  <1> DEFINE rest == SubSeq(msgs, Len(msgs) - KeepRecent + 1, Len(msgs))
  <1>1. Len(msgs) \in Nat /\ KeepRecent \in Nat /\ msgs # << >>
    BY KeepRecentAssumption
  <1>2. /\ rest \in Seq(Message) /\ Len(rest) = KeepRecent
        /\ \A i \in 1..KeepRecent : rest[i] = msgs[Len(msgs) - KeepRecent + i]
    BY <1>1, SubSeqProperties
  <1>3. <<Head(msgs)>> \in Seq(Message) /\ Len(<<Head(msgs)>>) = 1 /\ Head(msgs) = msgs[1]
    BY <1>1
  <1> HIDE DEF rest
  <1>4. Compact(msgs) = <<Head(msgs)>> \o rest
    BY <1>1 DEF Compact, rest
  <1>5. /\ <<Head(msgs)>> \o rest \in Seq(Message)
        /\ Len(<<Head(msgs)>> \o rest) = 1 + KeepRecent
        /\ \A i \in 1..(1 + KeepRecent) :
              (<<Head(msgs)>> \o rest)[i] = IF i <= 1 THEN <<Head(msgs)>>[i] ELSE rest[i - 1]
    BY <1>1, <1>2, <1>3, ConcatProperties
  <1>6. QED
    BY <1>1, <1>2, <1>3, <1>4, <1>5
-----------------------------------------------------------------------------
(* The loop's steps *)

(* Storing the prompt begins the conversation. *)
LEMMA StorePromptKeeps ==
    ASSUME LoopInv, StorePrompt
    PROVE  LoopInv'
  <1>1. /\ pc = "prompt" /\ pc' = "check" /\ turn = 0 /\ turn' = 0
        /\ transcript = << >> /\ messages = << >> /\ InPlace(pending, 1)
        /\ UNCHANGED <<requested, pending, more, results, received>>
    BY DEF LoopInv, TurnInv, StorePrompt
  <1>2. transcript' = Append(transcript, pending) /\ messages' = transcript'
    BY <1>1 DEF StorePrompt, Store
  <1>3. /\ transcript' \in Seq(Message) /\ Len(transcript') = 1 /\ Len(transcript) = 0
        /\ TranscriptInv'
    BY <1>1, <1>2, StoredInPlace DEF LoopInv, LoopTypeOK
  <1>4. Answers' = Answers
    BY <1>1, <1>2, StoredAnswers DEF LoopInv, LoopTypeOK, InPlace
  <1>5. LoopTypeOK'
    BY <1>1, <1>2, <1>3 DEF LoopInv, LoopTypeOK, Waiting
  <1>6. TurnInv'
    BY <1>1, <1>3, LoopAssumption DEF TurnInv
  <1>7. WindowInv'
    <2>1. \E d \in Nat : Len(transcript') = Len(transcript') + 2 * d
      BY <1>3
    <2>2. \A i \in 2..Len(messages') : FALSE
      BY <1>2, <1>3
    <2>3. QED
      BY <1>2, <1>3, <2>1, <2>2 DEF WindowInv
  <1>8. AnswersInv'
    BY <1>1, <1>4 DEF LoopInv, AnswersInv, Waiting
  <1>9. QED
    BY <1>3, <1>5, <1>6, <1>7, <1>8 DEF LoopInv

(* A turn begins: what compaction forgets is a whole number of turns, since *)
(* the window and the conversation are odd, and the last messages stay.    *)
LEMMA BeginTurnKeeps ==
    ASSUME LoopInv, BeginTurn
    PROVE  LoopInv'
  <1>1. /\ pc = "check" /\ pc' = "model"
        /\ UNCHANGED <<requested, turn, transcript, pending, more, results, received>>
    BY DEF BeginTurn
  <1>2. /\ Len(messages) \in Nat /\ messages \in Seq(Message)
        /\ Len(transcript) \in Nat /\ turn \in Nat
    BY LoopAssumption DEF LoopInv, LoopTypeOK
  <1>3. /\ Len(messages) \in 1..Len(transcript)
        /\ messages[1] = transcript[1]
        /\ \A i \in 2..Len(messages) : messages[i] = transcript[i + Len(transcript) - Len(messages)]
        /\ Len(messages) >= 1 + KeepRecent \/ Len(messages) = Len(transcript)
        /\ \E d \in Nat : Len(transcript) = Len(messages) + 2 * d
    BY <1>1 DEF LoopInv, WindowInv, Waiting, Recent
  <1>4. Len(transcript) = 2 * turn + 1
    BY <1>1 DEF LoopInv, TurnInv
  <1>5. Answers' = Answers
    BY <1>1 DEF Answers
  <1>6. /\ messages' \in Seq(Message)
        /\ Len(messages') \in 1..Len(transcript)
        /\ messages'[1] = transcript[1]
        /\ \A i \in 2..Len(messages') : messages'[i] = transcript[i + Len(transcript) - Len(messages')]
        /\ Len(messages') >= 1 + KeepRecent \/ Len(messages') = Len(transcript)
        /\ \E d \in Nat : Len(transcript) = Len(messages') + 2 * d
    <2>1. CASE messages' = messages
      BY <1>2, <1>3, <2>1
    <2>2. CASE messages' = Compact(messages) /\ Len(messages) > KeepRecent + 1
      <3>1. /\ messages' \in Seq(Message) /\ Len(messages') = KeepRecent + 1
            /\ messages'[1] = messages[1]
            /\ \A i \in 2..(KeepRecent + 1) :
                  messages'[i] = messages[i + Len(messages) - (KeepRecent + 1)]
        BY <1>2, <2>2, Compacted
      <3>2. PICK h \in Nat \ {0} : KeepRecent = 2 * h
        BY HalfWindow
      <3>3. Len(transcript) = Len(messages') + 2 * (turn - h) /\ turn - h \in Nat
        <4>1. Len(messages') = 2 * h + 1 /\ Len(messages) > 2 * h + 1 /\ Len(messages) <= 2 * turn + 1
          BY <1>2, <1>3, <1>4, <2>2, <3>1, <3>2
        <4>2. turn - h \in Nat
          BY <1>2, <4>1
        <4>3. QED
          BY <1>2, <1>4, <4>1, <4>2
      <3>4. ASSUME NEW i \in 2..(KeepRecent + 1)
            PROVE  messages'[i] = transcript[i + Len(transcript) - Len(messages')]
        <4>1. i + Len(messages) - (KeepRecent + 1) \in 2..Len(messages)
          BY <1>2, <2>2, <3>2
        <4>2. messages'[i] = transcript[(i + Len(messages) - (KeepRecent + 1)) + Len(transcript) - Len(messages)]
          BY <1>3, <3>1, <4>1
        <4>3. (i + Len(messages) - (KeepRecent + 1)) + Len(transcript) - Len(messages)
                 = i + Len(transcript) - Len(messages')
          BY <1>2, <3>1, <3>2
        <4>4. QED
          BY <4>2, <4>3
      <3>5. Len(messages') \in 1..Len(transcript) /\ Len(messages') >= 1 + KeepRecent
        BY <1>2, <1>3, <2>2, <3>1, <3>2
      <3>6. QED
        BY <1>3, <3>1, <3>3, <3>4, <3>5
    <2>3. messages' = messages \/ messages' = Compact(messages)
      BY DEF BeginTurn
    <2>4. Len(messages) > KeepRecent + 1 \/ Compact(messages) = messages
      BY <1>2, KeepRecentAssumption DEF Compact
    <2>5. QED
      BY <2>1, <2>2, <2>3, <2>4
  <1>7. LoopTypeOK'
    BY <1>1, <1>6 DEF LoopInv, LoopTypeOK, Waiting
  <1>8. TranscriptInv'
    BY <1>1 DEF LoopInv, TranscriptInv
  <1>9. TurnInv'
    BY <1>1 DEF LoopInv, TurnInv
  <1>10. WindowInv'
    BY <1>1, <1>6 DEF WindowInv, Recent
  <1>11. AnswersInv'
    BY <1>1, <1>5 DEF LoopInv, AnswersInv, Waiting
  <1>12. QED
    BY <1>7, <1>8, <1>9, <1>10, <1>11 DEF LoopInv

(* The model answers: the answer is the next message to store. *)
LEMMA AnswerKeeps ==
    ASSUME LoopInv, Answer
    PROVE  LoopInv'
  <1>1. /\ pc = "model" /\ pc' = "answer" /\ received' = received + 1 /\ more' \in BOOLEAN
        /\ UNCHANGED <<requested, turn, messages, transcript, results>>
    BY DEF Answer
  <1>2. PICK n \in 0..MaxTools, size \in Sizes :
           pending' = [role |-> "assistant", turn |-> turn + 1, tools |-> n, size |-> size]
    BY DEF Answer
  <1>3. turn \in 0..MaxIterations /\ turn < MaxIterations /\ turn + 1 \in 0..MaxIterations
    BY <1>1, LoopAssumption DEF LoopInv, LoopTypeOK, TurnInv
  <1>4. pending' \in Message
    BY <1>2, <1>3 DEF Message
  <1>5. InPlace(pending', 2 * turn + 2)
    <2>1. (2 * turn + 2) % 2 = 0 /\ (2 * turn + 2) \div 2 = turn + 1
      BY <1>3, LoopAssumption
    <2>2. QED
      BY <1>2, <2>1 DEF InPlace
  <1>6. received = turn /\ Answers = turn /\ Answers' = Answers
    BY <1>1 DEF LoopInv, AnswersInv, Waiting, Answers
  <1>7. LoopTypeOK'
    BY <1>1, <1>3, <1>4, <1>6 DEF LoopInv, LoopTypeOK, Waiting
  <1>8. TranscriptInv' /\ WindowInv'
    BY <1>1 DEF LoopInv, TranscriptInv, WindowInv, Waiting, Recent
  <1>9. TurnInv'
    BY <1>1, <1>3, <1>5 DEF LoopInv, TurnInv
  <1>10. AnswersInv'
    BY <1>1, <1>3, <1>6 DEF AnswersInv
  <1>11. QED
    BY <1>7, <1>8, <1>9, <1>10 DEF LoopInv

(* The answer is stored, and the loop returns or turns to its tools. *)
LEMMA StoreAnswerKeeps ==
    ASSUME LoopInv, StoreAnswer
    PROVE  LoopInv'
  <1>1. /\ pc = "answer" /\ pc' \in {"tools", "returned"} /\ Store
        /\ turn' = turn + 1 /\ results' = 0
        /\ UNCHANGED <<requested, pending, more, received>>
    BY DEF StoreAnswer
  <1>2. /\ turn \in 0..MaxIterations /\ turn < MaxIterations /\ turn \in Nat
        /\ Len(transcript) = 2 * turn + 1 /\ InPlace(pending, 2 * turn + 2)
        /\ pending \in Message /\ transcript \in Seq(Message)
        /\ transcript' = Append(transcript, pending)
    BY <1>1, LoopAssumption DEF LoopInv, LoopTypeOK, TurnInv, Store
  <1>3. (2 * turn + 2) % 2 = 0 /\ (2 * turn + 2) \div 2 = turn + 1 /\ pending.role = "assistant"
    BY <1>2 DEF InPlace
  <1>4. /\ TranscriptInv' /\ transcript' \in Seq(Message)
        /\ Len(transcript') = 2 * turn + 2 /\ transcript'[2 * turn + 2] = pending
    BY <1>2, <1>3, StoredInPlace DEF LoopInv
  <1>5. Answers' = turn + 1 /\ received = turn + 1
    BY <1>1, <1>2, <1>3, StoredAnswers DEF LoopInv, AnswersInv
  <1>6. messages' \in Seq(Message) /\ WindowInv'
    BY <1>1, StoredWindow DEF LoopInv, WindowInv, Waiting
  <1>7. LoopTypeOK'
    BY <1>1, <1>2, <1>4, <1>6, LoopAssumption DEF LoopInv, LoopTypeOK, Waiting, Ended
  <1>8. TurnInv'
    <2>1. turn' > 0 /\ 2 * turn' = 2 * turn + 2 /\ 0 <= pending.tools
      BY <1>1, <1>2 DEF Message
    <2>2. QED
      BY <1>1, <1>4, <2>1 DEF TurnInv
  <1>9. AnswersInv'
    BY <1>1, <1>2, <1>3, <1>4, <1>5 DEF AnswersInv, Waiting
  <1>10. QED
    BY <1>4, <1>6, <1>7, <1>8, <1>9 DEF LoopInv

(* A tool call has its output, or the results are put together. *)
LEMMA ToolsKeep ==
    ASSUME LoopInv, DispatchTool \/ CollectResults
    PROVE  LoopInv'
  <1>1. /\ pc = "tools" /\ turn \in Nat /\ turn > 0 /\ turn \in 0..MaxIterations
        /\ Len(transcript) = 2 * turn
        /\ pending = transcript[2 * turn] /\ pending \in Message /\ pending.tools \in 0..MaxTools
        /\ results \in 0..MaxTools
        /\ UNCHANGED <<requested, turn, messages, transcript, more, received>>
    BY LoopAssumption DEF LoopInv, LoopTypeOK, TurnInv, DispatchTool, CollectResults, Message
  <1>2. Answers' = Answers
    BY <1>1 DEF Answers
  <1>3. CASE DispatchTool
    <2>1. /\ pc' = pc /\ pending' = pending
          /\ results' = results + 1 /\ results < pending.tools
      BY <1>3 DEF DispatchTool
    <2>2. results' <= pending.tools /\ results' \in 0..MaxTools
      BY <1>1, <2>1, LoopAssumption
    <2>3. LoopTypeOK'
      BY <1>1, <2>1, <2>2 DEF LoopInv, LoopTypeOK
    <2>4. TranscriptInv' /\ WindowInv' /\ AnswersInv'
      BY <1>1, <1>2, <2>1 DEF LoopInv, TranscriptInv, WindowInv, AnswersInv, Recent
    <2>5. TurnInv'
      BY <1>1, <2>1, <2>2 DEF TurnInv
    <2>6. QED
      BY <2>3, <2>4, <2>5 DEF LoopInv
  <1>4. CASE CollectResults
    <2>1. pc' = "results" /\ results' = results /\ results = pending.tools
      BY <1>4 DEF CollectResults
    <2>2. PICK size \in Sizes :
             pending' = [role |-> "user", turn |-> turn, tools |-> results, size |-> size]
      BY <1>4 DEF CollectResults
    <2>3. pending' \in Message /\ pending'.tools = transcript[2 * turn].tools
      BY <1>1, <2>1, <2>2 DEF Message
    <2>4. InPlace(pending', 2 * turn + 1)
      BY <1>1, <2>2, Parity DEF InPlace
    <2>5. LoopTypeOK'
      BY <1>1, <2>1, <2>3 DEF LoopInv, LoopTypeOK, Waiting
    <2>6. TranscriptInv' /\ WindowInv' /\ AnswersInv'
      BY <1>1, <1>2, <2>1 DEF LoopInv, TranscriptInv, WindowInv, AnswersInv, Waiting, Recent
    <2>7. TurnInv'
      BY <1>1, <2>1, <2>3, <2>4 DEF TurnInv
    <2>8. QED
      BY <2>5, <2>6, <2>7 DEF LoopInv
  <1>5. QED
    BY <1>3, <1>4

(* The results are stored: the next turn begins, or the loop gives up. *)
LEMMA StoreResultsKeeps ==
    ASSUME LoopInv, StoreResults
    PROVE  LoopInv'
  <1>1. /\ pc = "results" /\ pc' = (IF turn < MaxIterations THEN "check" ELSE "raised") /\ Store
        /\ UNCHANGED <<requested, turn, pending, more, results, received>>
    BY DEF StoreResults
  <1>2. /\ turn \in Nat /\ turn > 0 /\ Len(transcript) = 2 * turn
        /\ InPlace(pending, 2 * turn + 1) /\ pending.tools = transcript[2 * turn].tools
        /\ pending \in Message /\ transcript \in Seq(Message)
        /\ transcript' = Append(transcript, pending)
    BY <1>1, LoopAssumption DEF LoopInv, LoopTypeOK, TurnInv, Store
  <1>3. pending.role = "user"
    BY <1>2, Parity DEF InPlace
  <1>4. TranscriptInv' /\ transcript' \in Seq(Message) /\ Len(transcript') = 2 * turn + 1
    BY <1>2, StoredInPlace DEF LoopInv
  <1>5. Answers' = Answers /\ Answers = turn /\ received = turn
    BY <1>1, <1>2, <1>3, StoredAnswers DEF LoopInv, AnswersInv, Waiting
  <1>6. messages' \in Seq(Message) /\ WindowInv'
    BY <1>1, StoredWindow DEF LoopInv, WindowInv, Waiting
  <1>7. LoopTypeOK'
    BY <1>1, <1>4, <1>6 DEF LoopInv, LoopTypeOK, Waiting, Ended
  <1>8. TurnInv'
    BY <1>1, <1>2, <1>4 DEF TurnInv
  <1>9. AnswersInv'
    BY <1>1, <1>2, <1>5 DEF AnswersInv, Waiting
  <1>10. QED
    BY <1>4, <1>6, <1>7, <1>8, <1>9 DEF LoopInv

(* The loop ends at an await; the message under way may be stored or not.  *)
LEMMA StopKeeps ==
    ASSUME LoopInv, NEW end \in Ended \ {"returned"}, StopAt(end)
    PROVE  LoopInv'
  <1>1. /\ pc \in Waiting /\ pc' = end
        /\ UNCHANGED <<requested, turn, messages, pending, more, results, received>>
    BY DEF StopAt
  <1>2. /\ pc' \notin Waiting /\ pc' # "returned" /\ turn \in Nat
        /\ pending \in Message /\ transcript \in Seq(Message)
    BY <1>1, LoopAssumption DEF LoopInv, LoopTypeOK, Waiting, Ended
  <1>3. TranscriptInv' /\ transcript' \in Seq(Message) /\ received - Answers' \in {0, 1}
    <2>1. CASE transcript' = transcript
      BY <1>2, <2>1 DEF LoopInv, TranscriptInv, AnswersInv, Answers
    <2>2. CASE pc \in {"prompt", "answer", "results"} /\ transcript' = Append(transcript, pending)
      <3>1. /\ InPlace(pending, Len(transcript) + 1)
            /\ pc = "results" => pending.tools = transcript[Len(transcript)].tools
            /\ pc = "prompt" => Len(transcript) = 0
            /\ pc = "answer" => (Len(transcript) + 1) % 2 = 0
        BY <1>2, <2>2 DEF LoopInv, TurnInv
      <3>2. TranscriptInv' /\ transcript' \in Seq(Message)
        BY <1>2, <2>2, <3>1, StoredInPlace DEF LoopInv
      <3>3. Answers \in Nat /\ Answers' = IF pending.role = "assistant" THEN Answers + 1 ELSE Answers
        BY <1>2, <2>2, StoredAnswers
      <3>4. pc # "answer" => pending.role = "user"
        <4>1. CASE pc = "prompt"
          BY <4>1 DEF LoopInv, TurnInv, InPlace
        <4>2. CASE pc = "results"
          BY <1>2, <4>2, Parity DEF LoopInv, TurnInv, InPlace
        <4>3. QED
          BY <2>2, <4>1, <4>2
      <3>5. received - Answers' \in {0, 1}
        BY <1>2, <2>2, <3>3, <3>4 DEF LoopInv, AnswersInv, Waiting
      <3>6. QED
        BY <3>2, <3>5
    <2>3. QED
      BY <2>1, <2>2 DEF StopAt
  <1>4. LoopTypeOK'
    BY <1>1, <1>3 DEF LoopInv, LoopTypeOK
  <1>5. TurnInv' /\ WindowInv' /\ AnswersInv'
    BY <1>1, <1>2, <1>3 DEF TurnInv, WindowInv, AnswersInv, Waiting
  <1>6. QED
    BY <1>3, <1>4, <1>5 DEF LoopInv

(* Every step of the loop keeps the conversation and the transcript as     *)
(* they should be.                                                         *)
LEMMA LoopStepKeeps ==
    ASSUME LoopInv, [LoopNext]_loopVars
    PROVE  LoopInv'
  <1>1. CASE SeeCancel
    BY <1>1 DEF LoopInv, LoopTypeOK, TranscriptInv, TurnInv, WindowInv, AnswersInv, Answers, SeeCancel,
                Waiting, Ended
  <1>2. CASE Request
    BY <1>2 DEF LoopInv, LoopTypeOK, TranscriptInv, TurnInv, WindowInv, AnswersInv, Answers, Request,
                Recent
  <1>3. CASE UNCHANGED loopVars
    BY <1>3 DEF LoopInv, LoopTypeOK, TranscriptInv, TurnInv, WindowInv, AnswersInv, Answers, loopVars,
                Recent
  <1>4. CASE Raise \/ Interrupt
    BY <1>4, StopKeeps DEF Raise, Interrupt, Ended
  <1>5. QED
    BY <1>1, <1>2, <1>3, <1>4, StorePromptKeeps, BeginTurnKeeps, AnswerKeeps, StoreAnswerKeeps, ToolsKeep,
       StoreResultsKeeps
    DEF LoopNext, LoopStep
-----------------------------------------------------------------------------
(* What follows for the requests and for the transcript *)

(* The window, stated with SubSeq. *)
LEMMA WindowIsRecent ==
    ASSUME LoopInv, pc = "model"
    PROVE  RequestIsRecent
  <1> DEFINE k == Len(transcript) - Len(messages) + 2
             rest == SubSeq(transcript, k, Len(transcript))
             whole == <<transcript[1]>> \o rest
  <1>1. /\ messages \in Seq(Message) /\ transcript \in Seq(Message)
        /\ Len(messages) \in Nat /\ Len(transcript) \in Nat
        /\ Len(messages) \in 1..Len(transcript)
        /\ messages[1] = transcript[1]
        /\ \A i \in 2..Len(messages) : messages[i] = transcript[i + Len(transcript) - Len(messages)]
        /\ Len(messages) >= 1 + KeepRecent \/ Len(messages) = Len(transcript)
    BY DEF LoopInv, LoopTypeOK, WindowInv, Waiting, Recent
  <1>2. /\ rest \in Seq(Message) /\ Len(rest) = Len(messages) - 1
        /\ \A i \in 1..(Len(messages) - 1) : rest[i] = transcript[k + i - 1]
    <2>1. k \in 1..(Len(transcript) + 1)
      BY <1>1
    <2>2. \A i \in k..Len(transcript) : transcript[i] \in Message
      BY <1>1, <2>1
    <2>3. /\ k \in Int /\ Len(transcript) \in Int /\ k <= Len(transcript) + 1
          /\ Len(transcript) - k + 1 = Len(messages) - 1
          /\ k > Len(transcript) => Len(messages) - 1 = 0
      <3>1. Len(messages) \in Nat /\ Len(transcript) \in Nat /\ Len(messages) >= 1
        BY <1>1
      <3>2. QED
        BY <3>1
    <2> HIDE DEF k
    <2>4. /\ rest \in Seq(Message)
          /\ Len(rest) = IF k <= Len(transcript) THEN Len(transcript) - k + 1 ELSE 0
          /\ \A i \in 1..(Len(transcript) - k + 1) : rest[i] = transcript[k + i - 1]
      BY <2>2, <2>3, SubSeqProperties
    <2>5. Len(rest) = Len(messages) - 1
      BY <2>3, <2>4
    <2>6. QED
      BY <2>3, <2>4, <2>5
  <1>3. transcript[1] \in Message
    BY <1>1
  <1> HIDE DEF rest
  <1>4. /\ whole \in Seq(Message) /\ Len(whole) = Len(messages)
        /\ whole[1] = transcript[1]
        /\ \A i \in 2..Len(messages) : whole[i] = rest[i - 1]
    <2>1. <<transcript[1]>> \in Seq(Message) /\ Len(<<transcript[1]>>) = 1
      BY <1>3
    <2>2. QED
      BY <1>1, <1>2, <2>1, ConcatProperties
  <1>5. \A i \in 2..Len(messages) : rest[i - 1] = transcript[i + Len(transcript) - Len(messages)]
    <2>1. ASSUME NEW i \in 2..Len(messages)
          PROVE  i - 1 \in 1..(Len(messages) - 1) /\ k + (i - 1) - 1 = i + Len(transcript) - Len(messages)
      BY <1>1
    <2>2. QED
      BY <1>2, <2>1
  <1> HIDE DEF whole
  <1>6. messages = whole
    <2>1. \A i \in 1..Len(messages) : messages[i] = whole[i]
      BY <1>1, <1>4, <1>5
    <2>2. QED
      BY <1>1, <1>4, <2>1, SeqEqual
  <1>7. Len(messages) = Len(transcript) => messages = transcript
    <2>1. ASSUME Len(messages) = Len(transcript)
          PROVE  \A i \in 1..Len(messages) : messages[i] = transcript[i]
      BY <1>1, <2>1
    <2>2. QED
      BY <1>1, <2>1, SeqEqual
  <1>8. QED
    BY <1>1, <1>6, <1>7 DEF RequestIsRecent, whole, rest

(* Leaving out whole turns keeps the places: what is at an even position   *)
(* of the window was at an even position of the transcript.                *)
LEMMA WindowIsWellFormed ==
    ASSUME LoopInv, pc = "model"
    PROVE  RequestWellFormed
  <1>1. /\ turn \in Nat /\ Len(transcript) = 2 * turn + 1
        /\ Len(messages) \in Nat /\ Len(messages) \in 1..Len(transcript)
        /\ messages[1] = transcript[1]
        /\ \A i \in 2..Len(messages) : messages[i] = transcript[i + Len(transcript) - Len(messages)]
    BY LoopAssumption DEF LoopInv, LoopTypeOK, TurnInv, WindowInv, Waiting, Recent
  <1>2. PICK d \in Nat : Len(transcript) = Len(messages) + 2 * d
    BY DEF LoopInv, WindowInv, Waiting
  <1>3. turn - d \in Nat /\ Len(messages) = 2 * (turn - d) + 1
    BY <1>1, <1>2
  <1>4. Len(messages) % 2 = 1
    BY <1>3, Parity
  <1>5. ASSUME NEW i \in 2..Len(messages)
        PROVE  /\ i \in Nat /\ i + 2 * d \in 2..Len(transcript)
               /\ (i + 2 * d) % 2 = i % 2
               /\ messages[i] = transcript[i + 2 * d]
    <2>1. i \in Nat /\ i + 2 * d \in 2..Len(transcript)
      BY <1>1, <1>2
    <2>2. (i + 2 * d) % 2 = i % 2
      BY <2>1, Parity
    <2>3. i + Len(transcript) - Len(messages) = i + 2 * d
      <3>1. Len(transcript) \in Nat /\ Len(messages) \in Nat /\ i \in Nat
        BY <1>1, <2>1
      <3>2. \A l, m, e, k \in Nat : l = m + 2 * e => k + l - m = k + 2 * e
        OBVIOUS
      <3>3. QED
        BY <1>2, <3>1, <3>2
    <2>4. messages[i] = transcript[i + 2 * d]
      BY <1>1, <2>3
    <2>5. QED
      BY <2>1, <2>2, <2>4
  <1>6. ASSUME NEW i \in 1..Len(messages)
        PROVE  messages[i].role = IF i % 2 = 0 THEN "assistant" ELSE "user"
    <2>1. CASE i = 1
      BY <1>1, <2>1 DEF LoopInv, TranscriptInv, InPlace
    <2>2. CASE i # 1
      <3>1. i \in 2..Len(messages) /\ i + 2 * d \in 1..Len(transcript)
        BY <1>1, <1>5, <2>2
      <3>2. QED
        BY <1>5, <3>1 DEF LoopInv, TranscriptInv, InPlace
    <2>3. QED
      BY <2>1, <2>2
  <1>7. ASSUME NEW i \in 1..Len(messages), i > 1, i % 2 = 1
        PROVE  messages[i].turn = messages[i - 1].turn /\ messages[i].tools = messages[i - 1].tools
    <2> DEFINE j == i + 2 * d
    <2>1. i \in Nat /\ i # 2 /\ i \in 2..Len(messages) /\ i - 1 \in 2..Len(messages)
      BY <1>1, <1>7
    <2>2. messages[i] = transcript[j] /\ j % 2 = 1 /\ j \in 2..Len(transcript)
      BY <1>5, <1>7, <2>1
    <2>3. (i - 1) + 2 * d = j - 1
      BY <2>1
    <2>4. messages[i - 1] = transcript[j - 1]
      BY <1>5, <2>1, <2>3
    <2>5. j \in Nat /\ j \in 1..Len(transcript) /\ j - 1 \in 1..Len(transcript)
      BY <1>1, <2>1, <2>2
    <2> HIDE DEF j
    <2>6. j \div 2 = (j - 1) \div 2
      BY <2>2, <2>5
    <2>7. QED
      BY <2>2, <2>4, <2>5, <2>6 DEF LoopInv, TranscriptInv, InPlace
  <1>8. QED
    BY <1>1, <1>4, <1>6, <1>7 DEF RequestWellFormed

LEMMA StoredIsComplete ==
    ASSUME LoopInv
    PROVE  TranscriptComplete
  BY DEF LoopInv, TranscriptInv, InPlace, AnswersInv, TranscriptComplete

-----------------------------------------------------------------------------
(* The supervision *)

Outcome == CASE pc = "returned" -> "succeeded"
             [] pc = "raised"   -> "failed"
             [] pc \in {"run_cancelled", "interrupted"} -> "cancelled"

(* Only a request cancels; the outcome is taken when the task is done, and *)
(* only the watchdog's own failure replaces it.                            *)
SupInv ==
    /\ cancelling \in BOOLEAN
    /\ watchdog \in {"sleeping", "asking", "cancelling", "returned", "died", "cancelled"}
    /\ main \in {"await_task", "await_watchdog", "done"}
    /\ result \in {"none", "succeeded", "failed", "cancelled"}
    /\ cancelling \/ pc \in {"run_cancelled", "interrupted"} => requested
    /\ main # "await_task" => TaskDone /\ watchdog \notin {"sleeping", "asking"}
    /\ main = "done" => watchdog \in {"returned", "died", "cancelled"}
    /\ watchdog \in {"cancelling", "cancelled"} => main # "await_task"
    /\ main = "await_watchdog" => result = Outcome
    /\ main = "done" => result = IF watchdog = "died" THEN "failed" ELSE Outcome

IInv == LoopInv /\ SupInv

(* The first prompt is in place and nothing is stored. *)
LEMMA InitHolds == Init => IInv
  <1> SUFFICES ASSUME Init PROVE IInv
    OBVIOUS
  <1>1. /\ pc = "prompt" /\ turn = 0 /\ messages = << >> /\ transcript = << >> /\ received = 0
        /\ requested = FALSE /\ more = FALSE /\ results = 0
        /\ pending \in Message /\ pending.role = "user" /\ pending.turn = 0
    BY DEF Init, LoopInit
  <1>2. Len(transcript) = 0 /\ messages \in Seq(Message) /\ transcript \in Seq(Message)
    BY <1>1
  <1>3. Answers = 0
    <2>1. {i \in 1..Len(transcript) : transcript[i].role = "assistant"} = {}
      BY <1>2
    <2>2. QED
      BY <2>1, FS_EmptySet DEF Answers
  <1>4. InPlace(pending, 1)
    BY <1>1 DEF InPlace
  <1>5. LoopTypeOK
    <2>1. requested \in BOOLEAN /\ more \in BOOLEAN
      BY <1>1
    <2>2. 0 \in 0..MaxIterations /\ 0 \in 0..MaxTools
      BY LoopAssumption
    <2>3. QED
      BY <1>1, <1>2, <2>1, <2>2 DEF LoopTypeOK, Waiting
  <1>6. TranscriptInv /\ TurnInv /\ WindowInv /\ AnswersInv
    BY <1>1, <1>2, <1>3, <1>4, LoopAssumption DEF TranscriptInv, TurnInv, WindowInv, AnswersInv, Waiting
  <1>7. SupInv
    BY <1>1 DEF Init, SupInv
  <1>8. QED
    BY <1>5, <1>6, <1>7 DEF IInv, LoopInv

(* What a step of the program does to the loop is a step of the loop. *)
LEMMA StepIsLoopStep == [Next]_vars => [LoopNext]_loopVars
  BY DEF Next, vars, TaskStep, TaskInterrupted, UserRequests, WatchdogDies, Supervise, WatchdogWakes,
         WatchdogAnswered, TaskAwaited, WatchdogCancelled, WatchdogAwaited, LoopNext

(* The task ends once, and is cancelled only when a request was made. *)
LEMMA TaskKeeps ==
    ASSUME LoopTypeOK, SupInv, TaskStep \/ TaskInterrupted \/ UserRequests
    PROVE  SupInv'
  <1>1. UNCHANGED <<cancelling, watchdog, main, result>>
    BY DEF TaskStep, TaskInterrupted, UserRequests
  <1>2. CASE UserRequests
    BY <1>1, <1>2 DEF UserRequests, Request, SupInv, TaskDone, Outcome
  <1>3. CASE TaskStep \/ TaskInterrupted
    <2>1. pc \in Waiting /\ ~TaskDone
      BY <1>3 DEF TaskStep, TaskInterrupted, LoopStep, StorePrompt, BeginTurn, SeeCancel, Answer,
                  StoreAnswer, DispatchTool, CollectResults, StoreResults, Raise, Interrupt, StopAt,
                  Waiting, Ended, TaskDone
    <2>2. main = "await_task"
      BY <2>1 DEF SupInv
    <2>3. requested' = requested
      BY <1>3 DEF TaskStep, TaskInterrupted, LoopStep, StorePrompt, BeginTurn, SeeCancel, Answer,
                  StoreAnswer, DispatchTool, CollectResults, StoreResults, Raise, Interrupt, StopAt
    <2>4. pc' \in {"run_cancelled", "interrupted"} => requested
      BY <1>3 DEF TaskStep, TaskInterrupted, LoopStep, StorePrompt, BeginTurn, SeeCancel, Answer,
                  StoreAnswer, DispatchTool, CollectResults, StoreResults, Raise, Interrupt, StopAt, SupInv
    <2>5. QED
      BY <1>1, <2>2, <2>3, <2>4 DEF SupInv
  <1>4. QED
    BY <1>2, <1>3

(* The supervision takes the outcome and ends the watchdog with the task. *)
LEMMA SupervisionKeeps ==
    ASSUME LoopTypeOK, SupInv,
           \/ WatchdogWakes \/ WatchdogAnswered \/ WatchdogDies
           \/ TaskAwaited \/ WatchdogCancelled \/ WatchdogAwaited
    PROVE  SupInv'
  <1>1. UNCHANGED <<requested, pc>>
    BY DEF WatchdogWakes, WatchdogAnswered, WatchdogDies, TaskAwaited, WatchdogCancelled, WatchdogAwaited, loopVars
  <1>2. TaskDone' = TaskDone /\ Outcome' = Outcome
    BY <1>1 DEF TaskDone, Outcome
  <1>3. CASE WatchdogWakes \/ WatchdogAnswered \/ WatchdogDies
    <2>1. main = "await_task" /\ main' = main /\ result' = result
      BY <1>3 DEF WatchdogWakes, WatchdogAnswered, WatchdogDies, SupInv
    <2>2. watchdog' \in {"sleeping", "asking", "returned", "died"}
      BY <1>3 DEF WatchdogWakes, WatchdogAnswered, WatchdogDies
    <2>3. cancelling' \in BOOLEAN /\ (cancelling' => requested)
      <3>1. CASE WatchdogAnswered
        BY <3>1, Zenon DEF WatchdogAnswered
      <3>2. CASE WatchdogWakes \/ WatchdogDies
        BY <3>2 DEF WatchdogWakes, WatchdogDies, SupInv
      <3>3. QED
        BY <1>3, <3>1, <3>2
    <2>4. QED
      BY <1>1, <2>1, <2>2, <2>3 DEF SupInv
  <1>4. CASE TaskAwaited
    <2>1. /\ TaskDone /\ main' = "await_watchdog" /\ result' = Outcome /\ cancelling' = cancelling
          /\ watchdog' = IF watchdog \in {"sleeping", "asking"} THEN "cancelling" ELSE watchdog
      BY <1>4 DEF TaskAwaited, CancelWatchdog, Outcome
    <2>2. Outcome \in {"succeeded", "failed", "cancelled"}
      BY <2>1 DEF TaskDone, Ended, Outcome
    <2>3. QED
      BY <1>1, <1>2, <2>1, <2>2 DEF SupInv
  <1>5. CASE WatchdogAwaited
    <2>1. /\ main = "await_watchdog" /\ main' = "done" /\ watchdog \in {"returned", "died", "cancelled"}
          /\ result' = IF watchdog = "died" THEN "failed" ELSE result
          /\ UNCHANGED <<cancelling, watchdog>>
      BY <1>5 DEF WatchdogAwaited
    <2>2. QED
      BY <1>1, <1>2, <2>1 DEF SupInv
  <1>6. CASE WatchdogCancelled
    <2>1. /\ watchdog = "cancelling" /\ watchdog' = "cancelled"
          /\ UNCHANGED <<cancelling, main, result>>
      BY <1>6 DEF WatchdogCancelled
    <2>2. main = "await_watchdog"
      BY <2>1 DEF SupInv
    <2>3. QED
      BY <1>1, <1>2, <2>1, <2>2 DEF SupInv
  <1>7. QED
    BY <1>3, <1>4, <1>5, <1>6

LEMMA StepKeeps == IInv /\ [Next]_vars => IInv'
  <1> SUFFICES ASSUME IInv, [Next]_vars PROVE IInv'
    OBVIOUS
  <1>1. LoopInv'
    BY StepIsLoopStep, LoopStepKeeps DEF IInv
  <1>2. SupInv'
    <2>1. CASE UNCHANGED vars
      BY <2>1 DEF IInv, SupInv, vars, loopVars, TaskDone, Outcome
    <2>2. QED
      BY <2>1, TaskKeeps, SupervisionKeeps DEF IInv, LoopInv, Next, Supervise
  <1>3. QED
    BY <1>1, <1>2 DEF IInv

THEOREM Invariance == Spec => []IInv
  BY InitHolds, StepKeeps, PTL DEF Spec

(* The loop inside the program behaves as the loop alone does: whatever    *)
(* the watchdog and its parent do, to the conversation, the transcript and *)
(* the cancel key it is a step of AgentLoop or nothing (worker.py calls    *)
(* AgentLoop.run as it is).                                                *)
THEOREM RunsTheLoop == Spec => LoopSpec
  <1>1. Init => LoopInit
    BY DEF Init
  <1>2. QED
    BY <1>1, StepIsLoopStep, PTL DEF Spec, LoopSpec

(* The types of the loop, the watchdog and their parent. *)
THEOREM TypeCorrect == Spec => []TypeOK
  <1>1. IInv => TypeOK
    BY DEF IInv, LoopInv, SupInv, TypeOK
  <1>2. QED
    BY <1>1, Invariance, PTL

(* Every request the model gets is a conversation its API accepts, for any *)
(* even window, limit, sizes and number of turns (loop.py, compaction.py). *)
THEOREM RequestsAreAccepted == Spec => []RequestWellFormed
  <1>1. IInv => RequestWellFormed
    BY WindowIsWellFormed DEF IInv, RequestWellFormed
  <1>2. QED
    BY <1>1, Invariance, PTL

(* Compaction forgets only the middle of the conversation, however often   *)
(* it is applied to its own result (compaction.py).                        *)
THEOREM OnlyMiddleForgotten == Spec => []RequestIsRecent
  <1>1. IInv => RequestIsRecent
    BY WindowIsRecent DEF IInv, RequestIsRecent
  <1>2. QED
    BY <1>1, Invariance, PTL

(* What on_message stores is the whole conversation, however the run       *)
(* ended, but for the answer under way.                                    *)
THEOREM NothingUnstored == Spec => []TranscriptComplete
  <1>1. IInv => TranscriptComplete
    BY StoredIsComplete DEF IInv
  <1>2. QED
    BY <1>1, Invariance, PTL

(* Unless the watchdog's poll failed, the outcome of the run is the one    *)
(* the agent came to, and only a request cancels (worker.py).              *)
THEOREM OutcomeIsKept == Spec => []OutcomeIsAgents
  <1>1. IInv => OutcomeIsAgents
    BY DEF IInv, SupInv, OutcomeIsAgents, TaskDone, Ended, Outcome
  <1>2. QED
    BY <1>1, Invariance, PTL
=============================================================================
