--------------------------- MODULE ToolCallsProofs ---------------------------
(***************************************************************************)
(* Proofs about ToolCalls, for any number of turns and of calls in one     *)
(* answer.  The bookkeeping of memory rows and of metered answers is       *)
(* inductive by itself; the confinement of the sub-agent needs to know     *)
(* where each of the two levels can be.                                    *)
(***************************************************************************)
EXTENDS ToolCalls, TLAPS

Places == {"model", "dispatch", "off"} \union Running \union Over

(* Types of what the levels do; no more turns and calls than the bounds. *)
TypeInv ==
    /\ pc \in [Levels -> Places]
    /\ call \in [Levels -> Names \union {"none"}]
    /\ turns \in [Levels -> 0..MaxTurns]
    /\ left \in [Levels -> 0..MaxCalls]

(* Only the agent delegates and only it is interrupted; a loop that asks   *)
(* the model has turns left, and one that deals with calls has one at hand. *)
LevelInv ==
    /\ pc["agent"] # "off" /\ pc["sub"] \notin {"nested", "interrupted"}
    /\ \A l \in Levels :
          /\ pc[l] = "model" => turns[l] < MaxTurns
          /\ pc[l] \in Running \union {"dispatch"} => left[l] > 0

ControlInv == TypeInv /\ LevelInv /\ SubAgentConfined

MemoryInv == saved \in Nat /\ told \in Nat /\ cut \in Nat /\ MemoryHonest

MeterInv == metered \in Nat /\ billed \in Nat /\ unheard \in Nat /\ MeterHonest

-----------------------------------------------------------------------------
(* The agent's registry has the delegates, a sub-agent's has not, and a    *)
(* sub-agent's capabilities are those of its definition.                   *)
LEMMA Visibility ==
    /\ \A n : ~(Visible("sub", n) /\ n \in Delegates)
    /\ \A n : Visible("sub", n) => Capability(n) \in {"none"} \union Definition(call["agent"])
    /\ \A l \in Levels : \A n : Visible(l, n) => n \in Names
  BY DEF Visible, Registered, Builtins, MemoryTools, Delegates, Allowed, Names, Levels

(* Where a loop goes on once a call is over: with the next call, with the  *)
(* model, or to its end.                                                   *)
LEMMA AfterCallPlace ==
    ASSUME TypeInv, NEW l \in Levels
    PROVE  /\ AfterCall(l) \in {"dispatch", "model", "raised"}
           /\ AfterCall(l) = "dispatch" => left[l] - 1 > 0
           /\ AfterCall(l) = "model" => turns[l] < MaxTurns
  BY BoundsAssumption DEF TypeInv, AfterCall, AfterTurn

(* A call that is over leaves its level with no call in hand; the other    *)
(* level is not touched.                                                   *)
LEMMA CallDoneControl ==
    ASSUME ControlInv, NEW l \in Levels, CallDone(l),
           pc[l] \in {"dispatch"} \union (Running \ {"nested"})
    PROVE  ControlInv'
  <1>1. TypeInv'
    BY AfterCallPlace, BoundsAssumption
    DEF ControlInv, TypeInv, LevelInv, CallDone, Places, Running, Over
  <1>2. LevelInv'
    BY AfterCallPlace, BoundsAssumption
    DEF ControlInv, TypeInv, LevelInv, CallDone, Levels, Running
  <1>3. SubAgentConfined'
    BY AfterCallPlace
    DEF ControlInv, TypeInv, LevelInv, SubAgentConfined, CallDone, Levels, Running, Delegates,
        Builtins, MemoryTools, Names
  <1>4. QED
    BY <1>1, <1>2, <1>3 DEF ControlInv

-----------------------------------------------------------------------------
(* Every action keeps the levels where they belong. *)
LEMMA ControlStep ==
    ASSUME ControlInv, [Next]_vars
    PROVE  ControlInv'
  <1>1. ASSUME NEW l \in Levels, Answer(l)
        PROVE  ControlInv'
    <2>1. TypeInv'
      BY <1>1, BoundsAssumption
      DEF ControlInv, TypeInv, LevelInv, Answer, AfterTurn, Places, Running, Over
    <2>2. LevelInv'
      BY <1>1, BoundsAssumption
      DEF ControlInv, TypeInv, LevelInv, Answer, AfterTurn, Levels, Running
    <2>3. SubAgentConfined'
      BY <1>1 DEF ControlInv, TypeInv, SubAgentConfined, Answer, AfterTurn, Levels, Running
    <2>4. QED
      BY <2>1, <2>2, <2>3 DEF ControlInv
  <1>2. ASSUME NEW l \in Levels, ModelFails(l)
        PROVE  ControlInv'
    BY <1>2 DEF ControlInv, TypeInv, LevelInv, SubAgentConfined, ModelFails, Places, Levels, Running, Over
  <1>3. ASSUME NEW l \in Levels, Reject(l)
        PROVE  ControlInv'
    BY <1>3, CallDoneControl DEF Reject
  <1>4. ASSUME NEW l \in Levels, Start(l)
        PROVE  ControlInv'
    <2>1. PICK n \in Names \ Delegates :
             /\ Visible(l, n)
             /\ call' = [call EXCEPT ![l] = n]
             /\ pc' = [pc EXCEPT ![l] = IF n \in MemoryTools THEN "embed" ELSE "run"]
      BY <1>4 DEF Start
    <2>2. TypeInv'
      BY <1>4, <2>1 DEF ControlInv, TypeInv, Start, Places, Running
    <2>3. LevelInv'
      BY <1>4, <2>1 DEF ControlInv, TypeInv, LevelInv, Start, Levels, Running
    <2>4. n # "none"
      BY DEF Names, Builtins, MemoryTools, Delegates
    <2>5. SubAgentConfined'
      BY <1>4, <2>1, <2>4, Visibility
      DEF ControlInv, TypeInv, SubAgentConfined, Start, Levels, Running
    <2>6. QED
      BY <2>2, <2>3, <2>5 DEF ControlInv
  <1>5. ASSUME NEW l \in Levels, Delegate(l)
        PROVE  ControlInv'
    <2>1. l = "agent"
      BY <1>5, Visibility DEF Delegate, Levels
    <2>2. PICK n \in Delegates : call' = [call EXCEPT !["agent"] = n]
      BY <1>5, <2>1 DEF Delegate
    <2>3. n \in Names /\ n # "none"
      BY DEF Names, Delegates
    <2>4. pc' = [agent |-> "nested", sub |-> "model"]
      BY <1>5, <2>1 DEF Delegate, ControlInv, TypeInv, Levels
    <2>5. TypeInv'
      BY <1>5, <2>2, <2>3, <2>4, BoundsAssumption
      DEF ControlInv, TypeInv, Delegate, Places, Levels, Running
    <2>6. LevelInv'
      BY <1>5, <2>1, <2>4, BoundsAssumption
      DEF ControlInv, TypeInv, LevelInv, Delegate, Levels, Running
    <2>7. SubAgentConfined'
      BY <1>5, <2>1, <2>2, <2>3, <2>4
      DEF ControlInv, TypeInv, LevelInv, SubAgentConfined, Delegate, Levels, Running
    <2>8. QED
      BY <2>5, <2>6, <2>7 DEF ControlInv
  <1>6. ASSUME NEW l \in Levels, Embedded(l)
        PROVE  ControlInv'
    BY <1>6 DEF ControlInv, TypeInv, LevelInv, SubAgentConfined, Embedded, Places, Levels, Running
  <1>7. ASSUME NEW l \in Levels, Inserted(l)
        PROVE  ControlInv'
    BY <1>7, CallDoneControl DEF Inserted, Running
  <1>8. ASSUME NEW l \in Levels, Returns(l)
        PROVE  ControlInv'
    BY <1>8, CallDoneControl DEF Returns, Running
  <1>9. ASSUME NEW l \in Levels, ReturnsAtOnce(l)
        PROVE  ControlInv'
    BY <1>9, CallDoneControl DEF ReturnsAtOnce, Running
  <1>10. ASSUME NEW l \in Levels, Raises(l)
         PROVE  ControlInv'
    BY <1>10, CallDoneControl DEF Raises
  <1>11. CASE NestedEnds
    <2>1. "agent" \in Levels
      BY DEF Levels
    <2>2. TypeInv'
      BY <1>11, <2>1, AfterCallPlace, BoundsAssumption
      DEF ControlInv, TypeInv, LevelInv, NestedEnds, Places, Levels, Running, Over
    <2>3. LevelInv'
      BY <1>11, <2>1, AfterCallPlace, BoundsAssumption
      DEF ControlInv, TypeInv, LevelInv, NestedEnds, Levels, Running
    <2>4. SubAgentConfined'
      BY <1>11, <2>1, AfterCallPlace
      DEF ControlInv, TypeInv, SubAgentConfined, NestedEnds, Levels, Running, Delegates
    <2>5. QED
      BY <2>2, <2>3, <2>4 DEF ControlInv
  <1>12. ASSUME NEW l \in Levels, Timeout(l)
         PROVE  ControlInv'
    <2>1. TypeInv'
      BY <1>12, AfterCallPlace, BoundsAssumption
      DEF ControlInv, TypeInv, LevelInv, Timeout, Places, Levels, Running, Over
    <2>2. LevelInv'
      BY <1>12, AfterCallPlace, BoundsAssumption
      DEF ControlInv, TypeInv, LevelInv, Timeout, Levels, Running
    <2>3. SubAgentConfined'
      BY <1>12, AfterCallPlace
      DEF ControlInv, TypeInv, SubAgentConfined, Timeout, Levels, Running, Delegates
    <2>4. QED
      BY <2>1, <2>2, <2>3 DEF ControlInv
  <1>13. CASE Interrupt
    BY <1>13
    DEF ControlInv, TypeInv, LevelInv, SubAgentConfined, Interrupt, Places, Levels, Running, Over,
        Delegates
  <1>14. CASE UNCHANGED vars
    BY <1>14
    DEF ControlInv, TypeInv, LevelInv, SubAgentConfined, vars
  <1>15. QED
    BY <1>1, <1>2, <1>3, <1>4, <1>5, <1>6, <1>7, <1>8, <1>9, <1>10, <1>11, <1>12, <1>13, <1>14
    DEF Next, LoopStep, ToolStep

(* An INSERT cut off, or none: rows and reports stay together. *)
LEMMA CutOffHonest ==
    ASSUME MemoryInv, NEW l \in Levels, CutOff(l)
    PROVE  MemoryInv'
  BY DEF MemoryInv, MemoryHonest, CutOff, memoryVars

(* Every action counts a report with its row, and a row nobody was told of *)
(* with the call it was cut off from.                                      *)
LEMMA MemoryStep ==
    ASSUME MemoryInv, [Next]_vars
    PROVE  MemoryInv'
  <1>1. CASE UNCHANGED memoryVars
    BY <1>1 DEF MemoryInv, MemoryHonest, memoryVars
  <1>2. ASSUME NEW l \in Levels, Inserted(l)
        PROVE  MemoryInv'
    BY <1>2 DEF MemoryInv, MemoryHonest, Inserted
  <1>3. ASSUME NEW l \in Levels, Raises(l) \/ Timeout(l)
        PROVE  MemoryInv'
    BY <1>3, CutOffHonest DEF Raises, Timeout
  <1>4. CASE Interrupt
    BY <1>4, CutOffHonest DEF Interrupt, Levels
  <1>5. ASSUME NEW l \in Levels, LoopStep(l), ~Timeout(l)
        PROVE  UNCHANGED memoryVars
    BY <1>5
    DEF LoopStep, Answer, ModelFails, Reject, Start, Delegate, ReturnsAtOnce, memoryVars
  <1>6. ASSUME NEW l \in Levels, ToolStep(l), ~Inserted(l), ~Raises(l)
        PROVE  UNCHANGED memoryVars
    BY <1>6 DEF ToolStep, Embedded, Returns, memoryVars
  <1>7. NestedEnds \/ UNCHANGED vars => UNCHANGED memoryVars
    BY DEF NestedEnds, vars, memoryVars
  <1>8. QED
    BY <1>1, <1>2, <1>3, <1>4, <1>5, <1>6, <1>7 DEF Next

(* A model call under way that ends without its answer is one more the     *)
(* provider may have come to.                                              *)
LEMMA UnheardHonest ==
    ASSUME MeterInv, NEW l \in Levels, Unheard(l)
    PROVE  MeterInv'
  BY DEF MeterInv, MeterHonest, Unheard, meterVars

(* Every action counts an answer with the bill, and an answer nobody heard *)
(* with the call that ended.                                               *)
LEMMA MeterStep ==
    ASSUME MeterInv, [Next]_vars
    PROVE  MeterInv'
  <1>1. CASE UNCHANGED meterVars
    BY <1>1 DEF MeterInv, MeterHonest, meterVars
  <1>2. ASSUME NEW l \in Levels, Meter(l)
        PROVE  MeterInv'
    BY <1>2 DEF MeterInv, MeterHonest, Meter
  <1>3. ASSUME NEW l \in Levels, Answer(l) \/ ModelFails(l) \/ Timeout(l)
        PROVE  MeterInv'
    BY <1>2, <1>3, UnheardHonest DEF Answer, ModelFails, Timeout
  <1>4. CASE Interrupt
    BY <1>4, UnheardHonest DEF Interrupt, Levels
  <1>5. ASSUME NEW l \in Levels, LoopStep(l), ~Answer(l), ~ModelFails(l), ~Timeout(l)
        PROVE  UNCHANGED meterVars
    BY <1>5 DEF LoopStep, Reject, Start, Delegate, ReturnsAtOnce, meterVars
  <1>6. ASSUME NEW l \in Levels, ToolStep(l)
        PROVE  UNCHANGED meterVars
    BY <1>6 DEF ToolStep, Embedded, Inserted, Returns, Raises, meterVars
  <1>7. NestedEnds \/ UNCHANGED vars => UNCHANGED meterVars
    BY DEF NestedEnds, vars, meterVars
  <1>8. QED
    BY <1>1, <1>3, <1>4, <1>5, <1>6, <1>7 DEF Next

-----------------------------------------------------------------------------
(* A sub-agent never outlives the agent's call that started it, and never  *)
(* uses a tool beyond its definition (subagent.py:8-9, specialists.py:45). *)
THEOREM SubAgentStaysConfined == Spec => []SubAgentConfined
  <1>1. Init => ControlInv
    BY BoundsAssumption
    DEF Init, ControlInv, TypeInv, LevelInv, SubAgentConfined, Places, Levels, Running, Over, Names,
        Delegates
  <1>2. ControlInv /\ [Next]_vars => ControlInv'
    BY ControlStep
  <1>3. ControlInv => SubAgentConfined
    BY DEF ControlInv
  <1>4. QED
    BY <1>1, <1>2, <1>3, PTL DEF Spec

(* Whatever is timed out, interrupted or raises, each remember that was    *)
(* reported is a row (memory.py:10-14).                                    *)
THEOREM MemoryStaysHonest == Spec => []MemoryHonest
  <1>1. Init => MemoryInv
    BY DEF Init, MemoryInv, MemoryHonest
  <1>2. MemoryInv /\ [Next]_vars => MemoryInv'
    BY MemoryStep
  <1>3. MemoryInv => MemoryHonest
    BY DEF MemoryInv
  <1>4. QED
    BY <1>1, <1>2, <1>3, PTL DEF Spec

(* The run's metrics never count an answer that was not billed, and miss   *)
(* only answers nobody heard (llm.py:29-42).                               *)
THEOREM MeterStaysHonest == Spec => []MeterHonest
  <1>1. Init => MeterInv
    BY DEF Init, MeterInv, MeterHonest
  <1>2. MeterInv /\ [Next]_vars => MeterInv'
    BY MeterStep
  <1>3. MeterInv => MeterHonest
    BY DEF MeterInv
  <1>4. QED
    BY <1>1, <1>2, <1>3, PTL DEF Spec
=============================================================================
