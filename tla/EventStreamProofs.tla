-------------------------- MODULE EventStreamProofs --------------------------
(***************************************************************************)
(* Proofs about EventStream: what a client is sent, for any transcript and *)
(* any number of clients.                                                  *)
(***************************************************************************)
EXTENDS EventStream, SequenceTheorems, WellFoundedInduction, NaturalsInduction, TLAPS

(* The events of one message, and of the first n messages. *)
StepTypes == {"text", "tool_call", "tool_result"}
StepsOf(m) == [type : StepTypes, msg : {m}, block : Nat]
StepsUpTo(n) == [type : StepTypes, msg : 1..n, block : Nat]

InBlockOrder(s) == \A i, j \in 1..Len(s) : i < j => s[i].block < s[j].block

-----------------------------------------------------------------------------
(* Recursion over the blocks of a message and over the transcript *)

(* Induction, over a set of numbers. *)
LEMMA Induction ==
    ASSUME NEW S, 0 \in S, \A n \in Nat : n \in S => n + 1 \in S
    PROVE  Nat \subseteq S
  <1> DEFINE less == {p \in Nat \X Nat : p[1] < p[2]}
             rest == Nat \ S
  <1>1. IsWellFoundedOn(less, Nat)
    BY NatLessThanWellFounded DEF OpToRel
  <1>2. ASSUME rest # {}
        PROVE  FALSE
    <2>1. PICK n \in rest : \A m \in rest : <<m, n>> \notin less
      BY <1>1, <1>2, WFMin
    <2>2. n \in Nat /\ n # 0 /\ n - 1 \in Nat /\ (n - 1) + 1 = n
      OBVIOUS
    <2>3. <<n - 1, n>> \in less
      BY <2>2
    <2>4. n - 1 \in S
      BY <2>1, <2>2, <2>3
    <2>5. QED
      BY <2>2, <2>4
  <1>3. QED
    BY <1>2

(* A sequence put together piece by piece exists. *)
LEMMA Gathered ==
    ASSUME NEW n \in Nat, NEW piece
    PROVE  \E f : f = [i \in 0..n |-> IF i = 0 THEN << >> ELSE f[i - 1] \o piece[i]]
  <1> DEFINE S == {k \in Nat : \E f : f = [i \in 0..k |-> IF i = 0 THEN << >> ELSE f[i - 1] \o piece[i]]}
  <1>1. 0 \in S
    <2> DEFINE f == [i \in 0..0 |-> << >>]
    <2>1. f = [i \in 0..0 |-> IF i = 0 THEN << >> ELSE f[i - 1] \o piece[i]]
      OBVIOUS
    <2>2. QED
      BY <2>1
  <1>2. ASSUME NEW k \in Nat, k \in S
        PROVE  k + 1 \in S
    <2>1. PICK f : f = [i \in 0..k |-> IF i = 0 THEN << >> ELSE f[i - 1] \o piece[i]]
      BY <1>2
    <2>0. \A i \in 0..k : f[i] = IF i = 0 THEN << >> ELSE f[i - 1] \o piece[i]
      <3> DEFINE h == [i \in 0..k |-> IF i = 0 THEN << >> ELSE f[i - 1] \o piece[i]]
      <3>1. \A i \in 0..k : h[i] = IF i = 0 THEN << >> ELSE f[i - 1] \o piece[i]
        OBVIOUS
      <3>2. f = h
        BY <2>1
      <3> HIDE DEF h
      <3>3. QED
        BY <3>1, <3>2
    <2> DEFINE g == [i \in 0..(k + 1) |-> IF i = k + 1 THEN f[k] \o piece[k + 1] ELSE f[i]]
               h == [i \in 0..(k + 1) |-> IF i = 0 THEN << >> ELSE g[i - 1] \o piece[i]]
    <2>2. ASSUME NEW i \in 0..(k + 1)
          PROVE  g[i] = h[i]
      <3>1. CASE i = 0
        <4>1. g[i] = f[0] /\ h[i] = << >>
          BY <3>1
        <4>2. QED
          BY <2>0, <4>1
      <3>2. CASE i \in 1..k
        <4>1. g[i] = f[i] /\ i - 1 \in 0..k /\ g[i - 1] = f[i - 1] /\ h[i] = g[i - 1] \o piece[i]
          BY <3>2
        <4>2. f[i] = f[i - 1] \o piece[i]
          <5>1. i \in 0..k /\ i # 0
            BY <3>2
          <5>2. QED
            BY <2>0, <5>1
        <4>3. QED
          BY <4>1, <4>2
      <3>3. CASE i = k + 1
        <4>1. i \in 0..(k + 1) /\ i # 0 /\ i - 1 = k /\ k \in 0..(k + 1) /\ k # k + 1
          BY <3>3
        <4>2. g[i] = f[k] \o piece[k + 1] /\ g[k] = f[k]
          BY <3>3, <4>1
        <4>3. h[i] = g[k] \o piece[k + 1]
          BY <3>3, <4>1
        <4>4. QED
          BY <4>2, <4>3
      <3>4. QED
        BY <3>1, <3>2, <3>3
    <2>3. g = h
      BY <2>2
    <2>4. \E e : e = [i \in 0..(k + 1) |-> IF i = 0 THEN << >> ELSE e[i - 1] \o piece[i]]
      <3> HIDE DEF g
      <3>1. QED
        BY <2>3
    <2>5. k + 1 \in Nat
      OBVIOUS
    <2>6. QED
      BY <2>4, <2>5, Zenon
  <1>3. QED
    BY <1>1, <1>2, Induction

(* Such a function, value by value. *)
LEMMA Stepwise ==
    ASSUME NEW n \in Nat, NEW piece, NEW f,
           f = [i \in 0..n |-> IF i = 0 THEN << >> ELSE f[i - 1] \o piece[i]]
    PROVE  f[0] = << >> /\ \A i \in 1..n : f[i] = f[i - 1] \o piece[i]
  <1> DEFINE h == [i \in 0..n |-> IF i = 0 THEN << >> ELSE f[i - 1] \o piece[i]]
  <1>1. 0 \in 0..n /\ \A i \in 1..n : i \in 0..n /\ i # 0
    OBVIOUS
  <1>2. \A i \in 0..n : h[i] = IF i = 0 THEN << >> ELSE f[i - 1] \o piece[i]
    OBVIOUS
  <1>3. f = h
    OBVIOUS
  <1> HIDE DEF h
  <1>4. QED
    BY <1>1, <1>2, <1>3

(* The blocks of a message. *)
LEMMA BlocksType ==
    ASSUME NEW m \in Messages
    PROVE  Len(Transcript[m].blocks) \in Nat /\ \A i \in 1..Len(Transcript[m].blocks) :
              Transcript[m].blocks[i] \in Blocks
  <1> DEFINE R == [role : {"user", "assistant"}, blocks : Seq(Blocks)]
  <1>1. Transcript \in Seq(R)
    BY TranscriptAssumption
  <1>2. \A r \in R : r.blocks \in Seq(Blocks)
    OBVIOUS
  <1> HIDE DEF R
  <1>3. Transcript[m] \in R
    BY <1>1 DEF Messages
  <1>4. QED
    BY <1>2, <1>3

(* derive_events goes through the blocks in order. *)
LEMMA DerivedStepwise ==
    ASSUME NEW m \in Messages
    PROVE  \E f : /\ f[0] = << >>
                  /\ \A i \in 1..Len(Transcript[m].blocks) : f[i] = f[i - 1] \o BlockEvents(m, i)
                  /\ DeriveEvents(m) = f[Len(Transcript[m].blocks)]
  <1> DEFINE n == Len(Transcript[m].blocks)
             piece == [i \in 1..n |-> BlockEvents(m, i)]
             P(f) == f = [i \in 0..n |-> IF i = 0 THEN << >> ELSE f[i - 1] \o BlockEvents(m, i)]
  <1>1. n \in Nat
    BY BlocksType
  <1>2. \A f : P(f) <=> f = [i \in 0..n |-> IF i = 0 THEN << >> ELSE f[i - 1] \o piece[i]]
    <2>1. \A i \in 0..n : i # 0 => piece[i] = BlockEvents(m, i)
      BY <1>1
    <2> HIDE DEF piece
    <2>2. QED
      BY <2>1
  <1>3. \E f : P(f)
    <2>1. PICK f : f = [i \in 0..n |-> IF i = 0 THEN << >> ELSE f[i - 1] \o piece[i]]
      BY <1>1, Gathered
    <2> HIDE DEF P
    <2>2. QED
      BY <1>2, <2>1
  <1>4. PICK f : f = CHOOSE g : P(g)
    OBVIOUS
  <1>5. P(f)
    BY <1>3, <1>4
  <1>6. DeriveEvents(m) = f[n]
    BY <1>4 DEF DeriveEvents
  <1>7. f = [i \in 0..n |-> IF i = 0 THEN << >> ELSE f[i - 1] \o piece[i]]
    BY <1>2, <1>5
  <1>8. f[0] = << >> /\ \A i \in 1..n : f[i] = f[i - 1] \o piece[i]
    <2> HIDE DEF piece, n
    <2>1. QED
      BY <1>1, <1>7, Stepwise
  <1>9. \A i \in 1..n : f[i] = f[i - 1] \o BlockEvents(m, i)
    BY <1>8
  <1>10. QED
    BY <1>6, <1>8, <1>9

(* A block becomes no event, or one that says where it comes from. *)
LEMMA BlockEventsType ==
    ASSUME NEW m \in Messages, NEW i \in 1..Len(Transcript[m].blocks)
    PROVE  \/ BlockEvents(m, i) = << >>
           \/ \E e \in StepsOf(m) : e.block = i /\ BlockEvents(m, i) = <<e>>
  <1>1. CASE ~Shown(m, i)
    BY <1>1 DEF BlockEvents
  <1>2. CASE Shown(m, i)
    <2> DEFINE e == [type |-> EventType(Transcript[m].blocks[i]), msg |-> m, block |-> i]
    <2>1. Transcript[m].blocks[i] \in {"text", "tool_use", "tool_result"}
      BY <1>2 DEF Shown
    <2>2. EventType(Transcript[m].blocks[i]) \in StepTypes
      BY <2>1 DEF EventType, StepTypes
    <2>3. e \in StepsOf(m) /\ e.block = i
      BY <2>2, BlocksType DEF StepsOf
    <2>4. BlockEvents(m, i) = <<e>>
      BY <1>2 DEF BlockEvents
    <2>5. QED
      BY <2>3, <2>4
  <1>3. QED
    BY <1>1, <1>2

(* What the first i blocks of message m gave. *)
DerivedUpTo(s, m, i) ==
    s \in Seq(StepsOf(m)) /\ InBlockOrder(s) /\ \A k \in 1..Len(s) : s[k].block <= i

(* The next block adds no event, or one after the others. *)
LEMMA NextBlock ==
    ASSUME NEW m \in Messages, NEW i \in Nat, i + 1 \in 1..Len(Transcript[m].blocks),
           NEW s, DerivedUpTo(s, m, i)
    PROVE  DerivedUpTo(s \o BlockEvents(m, i + 1), m, i + 1)
  <1>1. s \in Seq(StepsOf(m)) /\ Len(s) \in Nat /\ \A k \in 1..Len(s) : s[k] \in StepsOf(m)
    BY DEF DerivedUpTo
  <1>2. \A k \in 1..Len(s) : s[k].block \in Nat /\ s[k].block <= i
    BY <1>1 DEF DerivedUpTo, StepsOf
  <1>3. CASE BlockEvents(m, i + 1) = << >>
    <2>1. s \o BlockEvents(m, i + 1) = s
      BY <1>1, <1>3, ConcatEmptySeq
    <2>2. \A k \in 1..Len(s) : s[k].block <= i + 1
      BY <1>2
    <2>3. QED
      BY <2>1, <2>2 DEF DerivedUpTo
  <1>4. CASE \E e \in StepsOf(m) : e.block = i + 1 /\ BlockEvents(m, i + 1) = <<e>>
    <2>1. PICK e \in StepsOf(m) : e.block = i + 1 /\ BlockEvents(m, i + 1) = <<e>>
      BY <1>4
    <2> DEFINE t == s \o BlockEvents(m, i + 1)
    <2>2. <<e>> \in Seq(StepsOf(m)) /\ Len(<<e>>) = 1 /\ <<e>>[1] = e
      OBVIOUS
    <2>3. /\ s \o <<e>> \in Seq(StepsOf(m)) /\ Len(s \o <<e>>) = Len(s) + 1
          /\ \A k \in 1..(Len(s) + 1) :
                (s \o <<e>>)[k] = IF k <= Len(s) THEN s[k] ELSE <<e>>[k - Len(s)]
      BY <1>1, <2>2, ConcatProperties
    <2>4. t = s \o <<e>>
      BY <2>1
    <2> HIDE DEF t
    <2>5. /\ t \in Seq(StepsOf(m)) /\ Len(t) = Len(s) + 1
          /\ t[Len(s) + 1] = e /\ \A k \in 1..Len(s) : t[k] = s[k]
      BY <1>1, <2>2, <2>3, <2>4
    <2>6. InBlockOrder(t)
      <3>1. ASSUME NEW j \in 1..Len(t), NEW k \in 1..Len(t), j < k
            PROVE  t[j].block < t[k].block
        <4>1. j \in 1..Len(s) /\ t[j] = s[j]
          BY <1>1, <2>5, <3>1
        <4>2. CASE k = Len(s) + 1
          BY <1>2, <2>1, <2>5, <4>1, <4>2
        <4>3. CASE k # Len(s) + 1
          <5>1. k \in 1..Len(s) /\ t[k] = s[k]
            BY <1>1, <2>5, <4>3
          <5>2. QED
            BY <3>1, <4>1, <5>1 DEF DerivedUpTo, InBlockOrder
        <4>4. QED
          BY <4>2, <4>3
      <3>2. QED
        BY <3>1 DEF InBlockOrder
    <2>7. \A k \in 1..Len(t) : t[k].block <= i + 1
      <3>1. ASSUME NEW k \in 1..Len(t)
            PROVE  t[k].block <= i + 1
        <4>1. CASE k = Len(s) + 1
          BY <2>1, <2>5, <4>1
        <4>2. CASE k # Len(s) + 1
          <5>1. k \in 1..Len(s) /\ t[k] = s[k]
            BY <1>1, <2>5, <4>2
          <5>2. QED
            BY <1>2, <5>1
        <4>3. QED
          BY <4>1, <4>2
      <3>2. QED
        BY <3>1
    <2>8. QED
      BY <2>5, <2>6, <2>7 DEF DerivedUpTo, t
  <1>5. QED
    BY <1>3, <1>4, BlockEventsType

(* The events of a message are of the documented types, in block order.   *)
LEMMA Derived ==
    ASSUME NEW m \in Messages
    PROVE  DeriveEvents(m) \in Seq(StepsOf(m)) /\ InBlockOrder(DeriveEvents(m))
  <1> DEFINE n == Len(Transcript[m].blocks)
  <1>1. n \in Nat
    BY BlocksType
  <1>2. PICK f : /\ f[0] = << >>
                 /\ \A i \in 1..n : f[i] = f[i - 1] \o BlockEvents(m, i)
                 /\ DeriveEvents(m) = f[n]
    BY DerivedStepwise
  <1> DEFINE S == {i \in Nat : i <= n => DerivedUpTo(f[i], m, i)}
  <1>3. 0 \in S
    <2>1. << >> \in Seq(StepsOf(m)) /\ Len(<< >>) = 0
      OBVIOUS
    <2>2. DerivedUpTo(<< >>, m, 0)
      BY <2>1 DEF DerivedUpTo, InBlockOrder
    <2>3. QED
      BY <1>2, <2>2
  <1>4. ASSUME NEW i \in Nat, i \in S
        PROVE  i + 1 \in S
    <2> SUFFICES ASSUME i + 1 <= n PROVE DerivedUpTo(f[i + 1], m, i + 1)
      OBVIOUS
    <2>1. i + 1 \in 1..n /\ (i + 1) - 1 = i /\ DerivedUpTo(f[i], m, i)
      BY <1>1, <1>4
    <2>2. f[i + 1] = f[i] \o BlockEvents(m, i + 1)
      BY <1>2, <2>1
    <2>3. QED
      BY <2>1, <2>2, NextBlock
  <1>5. n \in S
    <2> HIDE DEF S
    <2>1. QED
      BY <1>1, <1>3, <1>4, Induction
  <1>6. QED
    BY <1>1, <1>2, <1>5 DEF DerivedUpTo

(* The replay of the transcript, message by message. *)
LEMMA ReplayStepwise ==
    /\ Len(Transcript) \in Nat
    /\ Replay[0] = << >>
    /\ \A n \in Messages : Replay[n] = Replay[n - 1] \o DeriveEvents(n)
  <1> DEFINE L == Len(Transcript)
             piece == [n \in 1..L |-> DeriveEvents(n)]
             P(f) == f = [n \in 0..L |-> IF n = 0 THEN << >> ELSE f[n - 1] \o DeriveEvents(n)]
  <1>1. L \in Nat
    BY TranscriptAssumption
  <1>2. \A f : P(f) <=> f = [n \in 0..L |-> IF n = 0 THEN << >> ELSE f[n - 1] \o piece[n]]
    <2>1. \A n \in 0..L : n # 0 => piece[n] = DeriveEvents(n)
      BY <1>1
    <2> HIDE DEF piece
    <2>2. QED
      BY <2>1
  <1>3. \E f : P(f)
    <2>1. PICK f : f = [n \in 0..L |-> IF n = 0 THEN << >> ELSE f[n - 1] \o piece[n]]
      BY <1>1, Gathered
    <2> HIDE DEF P
    <2>2. QED
      BY <1>2, <2>1
  <1>4. Replay = CHOOSE f : P(f)
    BY DEF Replay
  <1>5. P(Replay)
    BY <1>3, <1>4
  <1>6. Replay = [n \in 0..L |-> IF n = 0 THEN << >> ELSE Replay[n - 1] \o piece[n]]
    BY <1>2, <1>5
  <1>7. Replay[0] = << >> /\ \A n \in 1..L : Replay[n] = Replay[n - 1] \o piece[n]
    <2> HIDE DEF piece, L
    <2>1. QED
      BY <1>1, <1>6, Stepwise
  <1>8. QED
    BY <1>1, <1>7 DEF Messages

EventsIn(s) == {s[i] : i \in 1..Len(s)}

(* What replaying the first n messages gives. *)
ReplayUpTo(s, n) ==
    /\ s \in Seq(StepsUpTo(n))
    /\ \A m \in 1..n : EventsIn(DeriveEvents(m)) \subseteq EventsIn(s)
    /\ \A e \in EventsIn(s) : \E m \in 1..n : e \in EventsIn(DeriveEvents(m))

LEMMA ReplayNext ==
    ASSUME NEW n \in Nat, n + 1 \in Messages, NEW s, ReplayUpTo(s, n)
    PROVE  ReplayUpTo(s \o DeriveEvents(n + 1), n + 1)
  <1> DEFINE d == DeriveEvents(n + 1)
  <1>1. s \in Seq(StepsUpTo(n + 1))
    <2>1. StepsUpTo(n) \subseteq StepsUpTo(n + 1)
      BY DEF StepsUpTo
    <2>2. QED
      BY <2>1, SeqMonotonic DEF ReplayUpTo
  <1>2. d \in Seq(StepsUpTo(n + 1))
    <2>1. StepsOf(n + 1) \subseteq StepsUpTo(n + 1)
      BY DEF StepsOf, StepsUpTo
    <2>2. d \in Seq(StepsOf(n + 1))
      BY Derived
    <2> HIDE DEF d
    <2>3. QED
      BY <2>1, <2>2, SeqMonotonic
  <1> HIDE DEF d
  <1>3. /\ s \o d \in Seq(StepsUpTo(n + 1)) /\ Len(s \o d) = Len(s) + Len(d)
        /\ Len(s) \in Nat /\ Len(d) \in Nat
        /\ \A i \in 1..(Len(s) + Len(d)) : (s \o d)[i] = IF i <= Len(s) THEN s[i] ELSE d[i - Len(s)]
    BY <1>1, <1>2, ConcatProperties
  <1>4. EventsIn(s) \subseteq EventsIn(s \o d)
    <2>1. ASSUME NEW i \in 1..Len(s)
          PROVE  i \in 1..Len(s \o d) /\ (s \o d)[i] = s[i]
      BY <1>3
    <2>2. QED
      BY <2>1 DEF EventsIn
  <1>5. EventsIn(d) \subseteq EventsIn(s \o d)
    <2>1. ASSUME NEW i \in 1..Len(d)
          PROVE  Len(s) + i \in 1..Len(s \o d) /\ (s \o d)[Len(s) + i] = d[i]
      BY <1>3
    <2>2. QED
      BY <2>1 DEF EventsIn
  <1>6. ASSUME NEW m \in 1..(n + 1)
        PROVE  EventsIn(DeriveEvents(m)) \subseteq EventsIn(s \o d)
    <2>1. CASE m \in 1..n
      BY <1>4, <2>1 DEF ReplayUpTo
    <2>2. CASE m = n + 1
      BY <1>5, <2>2 DEF d
    <2>3. QED
      BY <2>1, <2>2
  <1>7. ASSUME NEW e \in EventsIn(s \o d)
        PROVE  \E m \in 1..(n + 1) : e \in EventsIn(DeriveEvents(m))
    <2>1. PICK i \in 1..(Len(s) + Len(d)) : e = (s \o d)[i]
      BY <1>3, <1>7 DEF EventsIn
    <2>2. CASE i <= Len(s)
      <3>1. i \in 1..Len(s) /\ e = s[i]
        BY <1>3, <2>1, <2>2
      <3>2. PICK m \in 1..n : e \in EventsIn(DeriveEvents(m))
        BY <3>1 DEF ReplayUpTo, EventsIn
      <3>3. m \in 1..(n + 1)
        OBVIOUS
      <3>4. QED
        BY <3>2, <3>3
    <2>3. CASE ~(i <= Len(s))
      <3>1. i - Len(s) \in 1..Len(d) /\ e = d[i - Len(s)] /\ n + 1 \in 1..(n + 1)
        BY <1>3, <2>1, <2>3
      <3>2. e \in EventsIn(d)
        BY <3>1 DEF EventsIn
      <3>3. QED
        BY <3>1, <3>2 DEF d
    <2>4. QED
      BY <2>2, <2>3
  <1>8. QED
    BY <1>3, <1>6, <1>7 DEF ReplayUpTo, d

LEMMA Replayed == \A n \in 0..Len(Transcript) : ReplayUpTo(Replay[n], n)
  <1> DEFINE S == {n \in Nat : n <= Len(Transcript) => ReplayUpTo(Replay[n], n)}
  <1>1. Len(Transcript) \in Nat
    BY ReplayStepwise
  <1>2. 0 \in S
    <2>1. << >> \in Seq(StepsUpTo(0)) /\ 1..0 = {}
      OBVIOUS
    <2>2. ReplayUpTo(<< >>, 0)
      <3>1. EventsIn(<< >>) = {}
        BY DEF EventsIn
      <3>2. QED
        BY <2>1, <3>1 DEF ReplayUpTo
    <2>3. QED
      BY <2>2, ReplayStepwise
  <1>3. ASSUME NEW n \in Nat, n \in S
        PROVE  n + 1 \in S
    <2> SUFFICES ASSUME n + 1 <= Len(Transcript) PROVE ReplayUpTo(Replay[n + 1], n + 1)
      OBVIOUS
    <2>1. n + 1 \in Messages /\ (n + 1) - 1 = n /\ ReplayUpTo(Replay[n], n)
      BY <1>1, <1>3 DEF Messages
    <2>2. Replay[n + 1] = Replay[n] \o DeriveEvents(n + 1)
      BY <2>1, ReplayStepwise
    <2>3. QED
      BY <2>1, <2>2, ReplayNext
  <1>4. Nat \subseteq S
    <2> HIDE DEF S
    <2>1. QED
      BY <1>2, <1>3, Induction
  <1>5. QED
    BY <1>1, <1>4

(* Events of steps and the events that close a stream. *)
LEMMA StepEvents ==
    /\ \A n \in 0..Len(Transcript) : StepsUpTo(n) \subseteq EventSet
    /\ \A m \in Messages : StepsOf(m) \subseteq EventSet
    /\ \A n : \A e \in StepsUpTo(n) \union StepsOf(n) : ~Closing(e)
  <1>1. Len(Transcript) \in Nat
    BY ReplayStepwise
  <1>2. QED
    BY <1>1 DEF StepsUpTo, StepsOf, StepTypes, EventSet, Closing, Messages

LEMMA EndEvents ==
    \A s \in Terminal : /\ EndEvent(s) \in EventSet /\ Closing(EndEvent(s))
                        /\ EndEvent(s).msg = Len(Transcript) + 1
  <1>1. Len(Transcript) \in Nat
    BY ReplayStepwise
  <1>2. QED
    BY <1>1 DEF EndEvent, EventSet, Closing, Terminal

(* What was published once the first n events of message s were. *)
PublishedUpTo(s, n) ==
    UNION {{DeriveEvents(m)[k] : k \in {k \in DOMAIN DeriveEvents(m) : m < s \/ k <= n}} : m \in 1..s}

LEMMA PublishedSteps ==
    ASSUME NEW s \in 0..Len(Transcript), NEW n \in Nat, NEW e
    PROVE  e \in PublishedUpTo(s, n) <=>
              \E m \in 1..s : \E k \in 1..Len(DeriveEvents(m)) : (m < s \/ k <= n) /\ e = DeriveEvents(m)[k]
  <1>1. \A m \in 1..s : m \in Messages
    BY ReplayStepwise DEF Messages
  <1>2. \A m \in 1..s : DOMAIN DeriveEvents(m) = 1..Len(DeriveEvents(m))
    BY <1>1, Derived, LenProperties
  <1>3. e \in PublishedUpTo(s, n) <=>
           \E m \in 1..s : \E k \in DOMAIN DeriveEvents(m) : (m < s \/ k <= n) /\ e = DeriveEvents(m)[k]
    BY DEF PublishedUpTo
  <1>4. QED
    BY <1>2, <1>3

(* Every published step is in the replay of the messages stored. *)
LEMMA PublishedReplayed ==
    ASSUME NEW s \in 0..Len(Transcript), NEW n \in Nat
    PROVE  PublishedUpTo(s, n) \subseteq EventsIn(Replay[s])
  <1>1. ReplayUpTo(Replay[s], s)
    BY Replayed
  <1>2. ASSUME NEW e \in PublishedUpTo(s, n)
        PROVE  e \in EventsIn(Replay[s])
    <2>1. PICK m \in 1..s : \E k \in 1..Len(DeriveEvents(m)) : e = DeriveEvents(m)[k]
      BY <1>2, PublishedSteps
    <2>2. e \in EventsIn(DeriveEvents(m))
      BY <2>1 DEF EventsIn
    <2>3. QED
      BY <1>1, <2>2 DEF ReplayUpTo
  <1>3. QED
    BY <1>2

-----------------------------------------------------------------------------
(* The invariant *)

(* What the row may say at each stage of the run, and says if nobody wrote *)
(* over it.                                                                *)
StageInv ==
    /\ stage \in {"queued", "claiming"} =>
          outcome = "none" /\ stored = 0 /\ status \in {"queued", "cancelled"}
    /\ stage \in {"agent", "finish", "finishing"} =>
          status \in {"running", "cancelled"} /\ (~overwrote => status = "running")
    /\ stage \in {"finish", "finishing", "announce", "over", "silent"} => outcome \in Terminal
    /\ stage \in {"announce", "over", "silent"} =>
          status \in {outcome, "cancelled"} /\ (~overwrote => status = outcome)
    /\ stage = "dropped" => status = "cancelled"
    /\ stage = "stopped" => status \in {"queued", "running", "cancelled"}

CancelInv ==
    \A k \in Requests : cancel[k] = "publish" => status # "queued" /\ (~overwrote => status = "cancelled")

EmitInv == emitted <= IF stored = 0 THEN 0 ELSE Len(DeriveEvents(stored))

RunInv == StageInv /\ CancelInv /\ EmitInv

(* A client may have been told that the run ended in s. *)
Told(s) ==
    /\ s \in Terminal
    /\ s # "cancelled" => stage \in {"announce", "over", "silent"} /\ outcome = s
    /\ s = "cancelled" => status # "queued"
    /\ ~overwrote => s = status

(* Event e is one that closes a stream, and may have been published. *)
Tells(e) == \E s \in Terminal : e = EndEvent(s) /\ Told(s)

(* Event e is of a step, and not after the last one published. *)
Past(e) ==
    /\ ~Closing(e)
    /\ \/ e.msg < stored
       \/ e.msg = stored /\ \E k \in 1..emitted : e.block <= DeriveEvents(stored)[k].block

(* What client c was sent and what waits in its subscription, as one       *)
(* sequence, and where in it the replay ends.                              *)
Nth(s, q, i) == IF i <= Len(s) THEN s[i] ELSE q[i - Len(s)]
Total(c) == Len(sent[c]) + Len(inbox[c])
At(c, i) == Nth(sent[c], inbox[c], i)
Base(c) == Len(Replay[replayed[c]])

PhaseInv(c) ==
    /\ cpc[c] \in {"idle", "history", "replay"} => sent[c] = << >>
    /\ cpc[c] # "listen" => inbox[c] = << >>
    /\ cpc[c] = "subscribe" => sent[c] = Replay[replayed[c]]
    /\ cpc[c] # "closed" => \A i \in 1..Len(sent[c]) : ~Closing(sent[c][i])
    /\ replayed[c] <= stored
    /\ seen[c] \in Terminal => Told(seen[c])

(* Nothing published is missing, except what is in missed or late. *)
CoverInv(c) ==
    /\ cpc[c] \in {"replay", "subscribe"} =>
          Published \subseteq EventsIn(Replay[replayed[c]]) \union missed[c]
    /\ cpc[c] \in {"listen", "closed"} =>
          Published \subseteq {At(c, i) : i \in 1..Total(c)} \union missed[c] \union late[c]

(* Steps come too late only for a stream that a "cancelled" closes while   *)
(* the run goes on, and then somebody wrote over the row.                  *)
LateInv(c) ==
    /\ cpc[c] \in {"idle", "history", "replay", "subscribe"} => late[c] = {}
    /\ cpc[c] \in {"listen", "closed"} =>
          \A e \in late[c] : Closing(e) \/ (overwrote /\ Total(c) # 0 /\ At(c, Total(c)) = EndEvent("cancelled"))

(* After the replay come events in order, none of a message before the     *)
(* last one replayed.                                                      *)
OrderInv(c) ==
    cpc[c] \in {"listen", "closed"} =>
        /\ Base(c) <= Len(sent[c])
        /\ \A i, j \in (Base(c) + 1)..Total(c) : i < j => Before(At(c, i), At(c, j))
        /\ \A i \in (Base(c) + 1)..Total(c) : At(c, i).msg >= replayed[c]

(* A subscription holds steps already published, and at its end what       *)
(* closes the stream, once that was announced.                             *)
ListenInv(c) ==
    cpc[c] = "listen" =>
        \A i \in (Base(c) + 1)..Total(c) : Past(At(c, i)) \/ (Tells(At(c, i)) /\ i = Total(c))

ClosedInv(c) ==
    cpc[c] = "closed" =>
        /\ sent[c] # << >> /\ Tells(LastSent(c))
        /\ \A i \in 1..Len(sent[c]) : Closing(sent[c][i]) => i = Len(sent[c])

ClientInv(c) ==
    PhaseInv(c) /\ CoverInv(c) /\ LateInv(c) /\ OrderInv(c) /\ ListenInv(c) /\ ClosedInv(c)

IInv == TypeOK /\ RunInv /\ \A c \in Clients : ClientInv(c)

LEMMA PublishedIs == Published = PublishedUpTo(stored, emitted)
  BY DEF Published, PublishedUpTo

-----------------------------------------------------------------------------
(* What the run's steps mean for a client *)

(* An event more in the subscription. *)
LEMMA OneMore ==
    ASSUME NEW s \in Seq(EventSet), NEW q \in Seq(EventSet), NEW e \in EventSet
    PROVE  /\ Len(s) + Len(q) \in Nat /\ Len(s) + Len(Append(q, e)) = Len(s) + Len(q) + 1
           /\ \A i \in 1..(Len(s) + Len(q)) :
                 Nth(s, q, i) \in EventSet /\ Nth(s, Append(q, e), i) = Nth(s, q, i)
           /\ Nth(s, Append(q, e), Len(s) + Len(q) + 1) = e
  BY DEF Nth

(* An event moves from the subscription to what was sent. *)
LEMMA OneMoved ==
    ASSUME NEW s \in Seq(EventSet), NEW q \in Seq(EventSet), q # << >>
    PROVE  /\ Len(Append(s, Head(q))) + Len(Tail(q)) = Len(s) + Len(q)
           /\ \A i \in 1..(Len(s) + Len(q)) : Nth(Append(s, Head(q)), Tail(q), i) = Nth(s, q, i)
  BY DEF Nth

(* What a client was sent, or has in its subscription, are events. *)
LEMMA StreamType ==
    ASSUME TypeOK, NEW c \in Clients
    PROVE  /\ Base(c) \in Nat /\ Total(c) \in Nat
           /\ Len(sent[c]) \in Nat /\ Len(sent[c]) <= Total(c)
           /\ \A i \in 1..Total(c) : At(c, i) \in EventSet
  <1>1. PICK s, q : s = sent[c] /\ q = inbox[c]
    OBVIOUS
  <1>2. s \in Seq(EventSet) /\ q \in Seq(EventSet) /\ replayed[c] \in 0..Len(Transcript)
    BY <1>1 DEF TypeOK
  <1>3. Len(s) \in Nat /\ Len(q) \in Nat /\ Len(s) + Len(q) \in Nat /\ Len(s) <= Len(s) + Len(q)
    BY <1>2
  <1>4. \A i \in 1..(Len(s) + Len(q)) : Nth(s, q, i) \in EventSet
    BY <1>2, <1>3 DEF Nth
  <1>5. Len(Replay[replayed[c]]) \in Nat
    BY <1>2, Replayed DEF ReplayUpTo
  <1>6. QED
    BY <1>1, <1>3, <1>4, <1>5, Zenon DEF Base, Total, At

(* Once told, a client stays rightly told. *)
StillTold == (overwrote => overwrote') /\ \A s \in Terminal : Told(s) => Told(s)'

LEMMA StillTells ==
    ASSUME StillTold, NEW e, Tells(e)
    PROVE  Tells(e)'
  <1>1. PICK s \in Terminal : e = EndEvent(s) /\ Told(s)
    BY DEF Tells
  <1>2. Told(s)'
    BY <1>1 DEF StillTold
  <1>3. e = EndEvent(s)' /\ s \in Terminal
    BY <1>1 DEF EndEvent
  <1>4. QED
    BY <1>2, <1>3 DEF Tells

(* A client that hears nothing of the step. *)
LEMMA Unmoved ==
    ASSUME TypeOK, NEW c \in Clients, ClientInv(c),
           cpc'[c] = cpc[c], seen'[c] = seen[c], replayed'[c] = replayed[c],
           inbox'[c] = inbox[c], sent'[c] = sent[c],
           missed[c] \subseteq missed'[c], late[c] \subseteq late'[c],
           cpc[c] \in {"idle", "history", "replay", "subscribe"} => late'[c] = late[c],
           cpc[c] \in {"listen", "closed"}
              => \A e \in late'[c] \ late[c] :
                    Closing(e) \/ (overwrote' /\ Total(c) # 0 /\ At(c, Total(c)) = EndEvent("cancelled")),
           cpc[c] \in {"replay", "subscribe"} => Published' \subseteq Published \union missed'[c],
           cpc[c] \in {"listen", "closed"}
              => Published' \subseteq Published \union missed'[c] \union late'[c],
           \A e \in EventSet : Past(e) => Past(e)',
           stored \in Nat, stored' \in Nat, stored <= stored', replayed[c] \in Nat,
           StillTold
    PROVE  ClientInv(c)'
  <1>1. Total(c)' = Total(c) /\ Base(c)' = Base(c) /\ \A i : At(c, i)' = At(c, i)
    BY DEF Total, Base, At
  <1>2. PhaseInv(c)'
    BY DEF ClientInv, PhaseInv, StillTold
  <1>3. CoverInv(c)'
    BY <1>1 DEF ClientInv, CoverInv
  <1>4. LateInv(c)'
    <2>1. At(c, Total(c))' = At(c, Total(c))
      BY <1>1 DEF At, Total
    <2>2. ASSUME NEW e \in late'[c], cpc[c] \in {"listen", "closed"}
          PROVE  Closing(e) \/ (overwrote' /\ Total(c) # 0 /\ At(c, Total(c)) = EndEvent("cancelled"))
      <3>1. CASE e \in late[c]
        BY <2>2, <3>1 DEF ClientInv, LateInv, StillTold
      <3>2. CASE e \notin late[c]
        BY <2>2, <3>2
      <3>3. QED
        BY <3>1, <3>2
    <2>3. cpc[c] \in {"idle", "history", "replay", "subscribe"} => late'[c] = {}
      BY DEF ClientInv, LateInv
    <2>4. QED
      BY <1>1, <2>1, <2>2, <2>3 DEF LateInv, Closing, EndEvent
  <1>5. OrderInv(c)'
    BY <1>1 DEF ClientInv, OrderInv
  <1>6. ListenInv(c)'
    <2>1. \A i \in (Base(c) + 1)..Total(c) : At(c, i) \in EventSet
      BY StreamType
    <2>2. ASSUME NEW i \in (Base(c) + 1)..Total(c), cpc[c] = "listen"
          PROVE  Past(At(c, i))' \/ (Tells(At(c, i))' /\ i = Total(c))
      <3>1. PICK e \in EventSet : e = At(c, i)
        BY <2>1
      <3>2. At(c, i)' = e
        BY <1>1, <3>1
      <3>3. CASE Past(e)
        BY <3>2, <3>3 DEF Past
      <3>4. CASE Tells(e) /\ i = Total(c)
        BY <3>2, <3>4, StillTells DEF Tells
      <3>5. QED
        BY <2>2, <3>1, <3>3, <3>4 DEF ClientInv, ListenInv
    <2>3. QED
      BY <1>1, <2>2 DEF ListenInv
  <1>7. ClosedInv(c)'
    <2>1. PICK e : e = LastSent(c)
      OBVIOUS
    <2>2. LastSent(c)' = e
      BY <2>1 DEF LastSent
    <2>3. Tells(e) => Tells(LastSent(c))'
      BY <2>2, StillTells DEF Tells
    <2>4. QED
      BY <2>1, <2>3 DEF ClientInv, ClosedInv
  <1>8. QED
    BY <1>2, <1>3, <1>4, <1>5, <1>6, <1>7 DEF ClientInv

(* Client c has a subscription and gets event e, which is next in order. *)
Hears(c, e) ==
    /\ Listens(c) /\ cpc'[c] = cpc[c] /\ seen'[c] = seen[c] /\ replayed'[c] = replayed[c]
    /\ inbox'[c] = Append(inbox[c], e) /\ sent'[c] = sent[c]
    /\ missed'[c] = missed[c] /\ late'[c] = late[c]

IsNext(e) ==
    /\ e \in EventSet /\ e.msg >= stored
    /\ stored' = stored /\ StillTold
    /\ \A f \in EventSet : Past(f) => Before(f, e) /\ Past(f)'
    /\ Past(e)' \/ Tells(e)'
    /\ Published' \subseteq Published \union {e}

(* A subscription that takes an event holds only steps. *)
LEMMA ListensToSteps ==
    ASSUME TypeOK, NEW c \in Clients, ClientInv(c), Listens(c)
    PROVE  /\ \A i \in 1..Total(c) : ~Closing(At(c, i))
           /\ \A i \in (Base(c) + 1)..Total(c) : Past(At(c, i))
  <1>1. PICK s, q : s = sent[c] /\ q = inbox[c]
    OBVIOUS
  <1>2. s \in Seq(EventSet) /\ q \in Seq(EventSet) /\ Len(s) \in Nat /\ Len(q) \in Nat
        /\ DOMAIN q = 1..Len(q) /\ Total(c) = Len(s) + Len(q)
    BY <1>1, LenProperties DEF TypeOK, Total
  <1>3. ASSUME NEW i \in 1..Total(c)
        PROVE  ~Closing(At(c, i))
    <2>1. CASE i <= Len(s)
      <3>1. i \in 1..Len(s) /\ At(c, i) = s[i]
        BY <1>1, <1>2, <2>1 DEF At, Nth
      <3>2. QED
        BY <1>1, <3>1 DEF ClientInv, PhaseInv, Listens
    <2>2. CASE ~(i <= Len(s))
      <3>1. i \in 1..(Len(s) + Len(q))
        BY <1>2
      <3>2. i - Len(s) \in 1..Len(q)
        BY <1>2, <2>2, <3>1
      <3>3. At(c, i) = q[i - Len(s)]
        BY <1>1, <2>2 DEF At, Nth
      <3>4. QED
        BY <1>1, <1>2, <3>2, <3>3 DEF Listens
    <2>3. QED
      BY <2>1, <2>2
  <1>4. ASSUME NEW i \in (Base(c) + 1)..Total(c)
        PROVE  Past(At(c, i))
    <2>1. i \in 1..Total(c)
      BY StreamType
    <2>2. ~Tells(At(c, i))
      BY <1>3, <2>1, EndEvents DEF Tells
    <2>3. QED
      BY <2>2 DEF ClientInv, ListenInv, Listens
  <1>5. QED
    BY <1>3, <1>4

(* One that takes none has the event that closes the stream, at its end. *)
LEMMA ClosingIsLast ==
    ASSUME TypeOK, NEW c \in Clients, ClientInv(c), cpc[c] \in {"listen", "closed"}, ~Listens(c)
    PROVE  Total(c) # 0 /\ Tells(At(c, Total(c)))
  <1>1. PICK s, q : s = sent[c] /\ q = inbox[c]
    OBVIOUS
  <1>2. s \in Seq(EventSet) /\ q \in Seq(EventSet) /\ Len(s) \in Nat /\ Len(q) \in Nat
        /\ DOMAIN q = 1..Len(q) /\ Total(c) = Len(s) + Len(q)
    BY <1>1, LenProperties DEF TypeOK, Total
  <1>3. CASE cpc[c] = "closed"
    <2>1. Len(q) = 0
      BY <1>1, <1>3 DEF ClientInv, PhaseInv
    <2>2. At(c, Total(c)) = LastSent(c)
      BY <1>1, <1>2, <2>1 DEF At, Nth, LastSent
    <2>3. Len(s) # 0
      BY <1>1, <1>2, <1>3, EmptySeq DEF ClientInv, ClosedInv
    <2>4. QED
      BY <1>2, <1>3, <2>1, <2>2, <2>3 DEF ClientInv, ClosedInv
  <1>4. CASE cpc[c] = "listen"
    <2>1. PICK j \in 1..Len(q) : Closing(q[j])
      BY <1>1, <1>2, <1>4 DEF Listens
    <2>2. PICK i : i = Len(s) + j
      OBVIOUS
    <2>3. i \in Nat /\ i > Len(s) /\ i <= Total(c) /\ ~(i <= Len(s)) /\ i - Len(s) = j
      BY <1>2, <2>1, <2>2
    <2>4. At(c, i) = q[j]
      BY <1>1, <2>3 DEF At, Nth
    <2>5. i \in (Base(c) + 1)..Total(c)
      <3>1. Base(c) <= Len(s) /\ Base(c) \in Nat /\ Total(c) \in Nat
        BY <1>1, <1>4, StreamType DEF ClientInv, OrderInv
      <3>2. QED
        BY <1>2, <2>3, <3>1
    <2>6. ~Past(At(c, i))
      BY <2>1, <2>4 DEF Past
    <2>7. Tells(At(c, i)) /\ i = Total(c)
      BY <1>4, <2>5, <2>6 DEF ClientInv, ListenInv
    <2>8. QED
      BY <1>2, <2>3, <2>7
  <1>5. QED
    BY <1>3, <1>4

(* A client whose subscription gets the published event e. *)
LEMMA Delivered ==
    ASSUME TypeOK, NEW c \in Clients, ClientInv(c), NEW e, Hears(c, e), IsNext(e)
    PROVE  ClientInv(c)'
  <1>0. cpc[c] = "listen" /\ cpc'[c] = "listen"
    BY DEF Hears, Listens
  <1>1. /\ sent[c] \in Seq(EventSet) /\ inbox[c] \in Seq(EventSet)
        /\ replayed[c] \in 0..Len(Transcript)
        /\ stored \in Nat /\ replayed[c] \in Nat /\ replayed[c] <= stored /\ e \in EventSet
    BY ReplayStepwise DEF TypeOK, ClientInv, PhaseInv, IsNext
  <1>2. Base(c)' = Base(c)
    BY DEF Base, Hears
  <1>3. Base(c) \in Nat /\ Total(c) \in Nat /\ Base(c) <= Total(c)
    <2>1. Base(c) <= Len(sent[c])
      BY <1>0 DEF ClientInv, OrderInv
    <2>2. QED
      BY <2>1, StreamType
  <1>4. /\ Total(c)' = Total(c) + 1
        /\ \A i \in 1..Total(c) : At(c, i)' = At(c, i) /\ At(c, i) \in EventSet
        /\ \A i : i = Total(c) + 1 => At(c, i)' = e
    <2>1. PICK s, q, n : s = sent[c] /\ q = inbox[c] /\ n = Len(s) + Len(q)
      OBVIOUS
    <2>2. s \in Seq(EventSet) /\ q \in Seq(EventSet) /\ e \in EventSet
      BY <1>1, <2>1
    <2>3. /\ Len(s) + Len(Append(q, e)) = n + 1
          /\ \A i \in 1..n : Nth(s, q, i) \in EventSet /\ Nth(s, Append(q, e), i) = Nth(s, q, i)
          /\ Nth(s, Append(q, e), n + 1) = e
      <3>1. /\ Len(s) + Len(Append(q, e)) = Len(s) + Len(q) + 1
            /\ \A i \in 1..(Len(s) + Len(q)) :
                  Nth(s, q, i) \in EventSet /\ Nth(s, Append(q, e), i) = Nth(s, q, i)
            /\ Nth(s, Append(q, e), Len(s) + Len(q) + 1) = e
        BY <2>2, OneMore, Zenon
      <3>2. QED
        BY <2>1, <3>1, Zenon
    <2>4. sent'[c] = s /\ inbox'[c] = Append(q, e)
      BY <2>1 DEF Hears
    <2>5. Total(c) = n /\ Total(c)' = n + 1
      BY <2>1, <2>3, <2>4 DEF Total
    <2>6. \A i : At(c, i) = Nth(s, q, i) /\ At(c, i)' = Nth(s, Append(q, e), i)
      BY <2>1, <2>4 DEF At
    <2>7. QED
      BY <2>3, <2>5, <2>6
  <1>5. \A i : i = Total(c) + 1 => At(c, i)' = e
    BY <1>4
  <1>6. PhaseInv(c)'
    BY <1>0, <1>1 DEF ClientInv, PhaseInv, Hears, IsNext, StillTold
  <1>7. CoverInv(c)'
    <2>1. Published' \subseteq {At(c, i) : i \in 1..Total(c)} \union missed[c] \union late[c] \union {e}
      BY <1>0 DEF ClientInv, CoverInv, IsNext
    <2>2. {At(c, i) : i \in 1..Total(c)} \subseteq {At(c, i)' : i \in 1..(Total(c) + 1)}
      <3>1. \A i \in 1..Total(c) : i \in 1..(Total(c) + 1) /\ At(c, i)' = At(c, i)
        BY <1>3, <1>4
      <3>2. QED
        BY <3>1
    <2>3. e \in {At(c, i)' : i \in 1..(Total(c) + 1)}
      <3>1. Total(c) + 1 \in 1..(Total(c) + 1)
        BY <1>3
      <3>2. QED
        BY <1>5, <3>1
    <2>4. missed'[c] = missed[c] /\ late'[c] = late[c]
      BY DEF Hears
    <2>5. Published' \subseteq {At(c, i)' : i \in 1..(Total(c) + 1)} \union missed'[c] \union late'[c]
      BY <2>1, <2>2, <2>3, <2>4
    <2>6. QED
      BY <1>0, <1>4, <2>5 DEF CoverInv
  <1>8. ASSUME NEW i \in (Base(c) + 1)..(Total(c) + 1)
        PROVE  \/ i \in (Base(c) + 1)..Total(c) /\ i \in 1..Total(c) /\ At(c, i)' = At(c, i)
               \/ i = Total(c) + 1 /\ At(c, i)' = e
    BY <1>3, <1>4, <1>5
  <1>9. \A i \in (Base(c) + 1)..Total(c) : At(c, i) \in EventSet /\ Past(At(c, i))
    BY <1>3, <1>4, ListensToSteps DEF Hears
  <1>10. OrderInv(c)'
    <2>1. ASSUME NEW i \in (Base(c) + 1)..(Total(c) + 1), NEW j \in (Base(c) + 1)..(Total(c) + 1), i < j
          PROVE  Before(At(c, i)', At(c, j)')
      <3>1. i \in (Base(c) + 1)..Total(c) /\ At(c, i)' = At(c, i)
        BY <1>3, <1>8, <2>1
      <3>2. CASE j = Total(c) + 1
        BY <1>5, <1>9, <3>1, <3>2 DEF IsNext
      <3>3. CASE j # Total(c) + 1
        <4>1. j \in (Base(c) + 1)..Total(c) /\ At(c, j)' = At(c, j)
          BY <1>8, <3>3
        <4>2. QED
          BY <1>0, <2>1, <3>1, <4>1 DEF ClientInv, OrderInv
      <3>4. QED
        BY <3>2, <3>3
    <2>2. ASSUME NEW i \in (Base(c) + 1)..(Total(c) + 1)
          PROVE  At(c, i)'.msg >= replayed[c]
      <3>1. CASE i = Total(c) + 1
        BY <1>1, <1>5, <3>1 DEF EventSet, IsNext
      <3>2. CASE i # Total(c) + 1
        BY <1>0, <1>8, <3>2 DEF ClientInv, OrderInv
      <3>3. QED
        BY <3>1, <3>2
    <2>3. QED
      BY <1>0, <1>2, <1>3, <1>4, <2>1, <2>2 DEF OrderInv, ClientInv, Hears
  <1>11. ListenInv(c)'
    <2>1. ASSUME NEW i \in (Base(c) + 1)..(Total(c) + 1)
          PROVE  Past(At(c, i))' \/ (Tells(At(c, i))' /\ i = Total(c) + 1)
      <3>1. CASE i = Total(c) + 1
        <4>1. At(c, i)' = e
          BY <1>5, <3>1
        <4>2. QED
          BY <3>1, <4>1 DEF IsNext, Past, Tells
      <3>2. CASE i # Total(c) + 1
        <4>1. i \in (Base(c) + 1)..Total(c) /\ At(c, i)' = At(c, i)
          BY <1>8, <3>2
        <4>2. Past(At(c, i))'
          BY <1>9, <4>1 DEF IsNext, Past
        <4>3. QED
          BY <4>2
      <3>3. QED
        BY <3>1, <3>2
    <2>2. QED
      BY <1>2, <1>3, <1>4, <2>1 DEF ListenInv
  <1>12. LateInv(c)'
    <2>1. ASSUME NEW f \in late[c]
          PROVE  Closing(f)
      <3>1. Total(c) # 0 => Total(c) \in 1..Total(c)
        BY <1>3
      <3>2. Total(c) # 0 => ~Closing(At(c, Total(c)))
        BY <3>1, ListensToSteps DEF Hears
      <3>3. Closing(EndEvent("cancelled"))
        BY EndEvents DEF Terminal
      <3>4. QED
        BY <1>0, <3>2, <3>3 DEF ClientInv, LateInv
    <2>2. QED
      BY <1>0, <2>1 DEF LateInv, Hears, Closing
  <1>13. ClosedInv(c)'
    BY <1>0 DEF ClosedInv
  <1>14. QED
    BY <1>6, <1>7, <1>10, <1>11, <1>12, <1>13 DEF ClientInv

(* PUBLISH, seen by one client. *)
LEMMA PublishMeans ==
    ASSUME TypeOK, NEW e \in EventSet, Publish(e), NEW c \in Clients
    PROVE  /\ cpc'[c] = cpc[c] /\ seen'[c] = seen[c] /\ replayed'[c] = replayed[c] /\ sent'[c] = sent[c]
           /\ Listens(c) => Hears(c, e)
           /\ ~Listens(c) => inbox'[c] = inbox[c]
           /\ missed[c] \subseteq missed'[c] /\ late[c] \subseteq late'[c]
           /\ cpc[c] \in {"replay", "subscribe"} => e \in missed'[c]
           /\ cpc[c] \notin {"listen", "closed"} => late'[c] = late[c]
           /\ cpc[c] \in {"listen", "closed"} /\ ~Listens(c) => late'[c] = late[c] \union {e}
           /\ inbox'[c] \in Seq(EventSet)
           /\ missed'[c] \in SUBSET EventSet /\ late'[c] \in SUBSET EventSet
  <1>1. /\ inbox'[c] = IF Listens(c) THEN Append(inbox[c], e) ELSE inbox[c]
        /\ missed'[c] = IF cpc[c] \in {"replay", "subscribe"} THEN missed[c] \union {e} ELSE missed[c]
        /\ late'[c] = IF cpc[c] \in {"listen", "closed"} /\ ~Listens(c)
                      THEN late[c] \union {e} ELSE late[c]
        /\ UNCHANGED <<cpc, seen, replayed, sent>>
    BY DEF Publish, Unread
  <1>2. inbox[c] \in Seq(EventSet) /\ missed[c] \in SUBSET EventSet /\ late[c] \in SUBSET EventSet
    BY DEF TypeOK
  <1>3. Listens(c) => cpc[c] = "listen"
    BY DEF Listens
  <1>4. QED
    BY <1>1, <1>2, <1>3 DEF Hears

LEMMA PublishTypes ==
    ASSUME TypeOK, NEW e \in EventSet, Publish(e)
    PROVE  /\ inbox' \in [Clients -> Seq(EventSet)]
           /\ missed' \in [Clients -> SUBSET EventSet] /\ late' \in [Clients -> SUBSET EventSet]
           /\ UNCHANGED <<cpc, seen, replayed, sent>>
  <1>1. \A c \in Clients : /\ inbox'[c] \in Seq(EventSet)
                           /\ missed'[c] \in SUBSET EventSet /\ late'[c] \in SUBSET EventSet
    BY PublishMeans
  <1>2. /\ inbox' = [c \in Clients |-> inbox'[c]]
        /\ missed' = [c \in Clients |-> missed'[c]] /\ late' = [c \in Clients |-> late'[c]]
    BY DEF Publish, Unread
  <1>3. QED
    BY <1>1, <1>2 DEF Publish

(* An event published to streams that take it or have their closing event. *)
LEMMA PublishKeeps ==
    ASSUME IInv, NEW e, Publish(e), IsNext(e), NEW c \in Clients,
           ~Closing(e) => \A s \in Terminal : Told(s) => s = "cancelled" /\ overwrote
    PROVE  ClientInv(c)'
  <1> USE DEF IInv
  <1>1. /\ stored \in Nat /\ stored' \in Nat /\ stored <= stored' /\ replayed[c] \in Nat
        /\ e \in EventSet /\ StillTold /\ \A f \in EventSet : Past(f) => Past(f)'
        /\ Published' \subseteq Published \union {e}
    BY ReplayStepwise DEF TypeOK, IsNext
  <1>2. CASE Listens(c)
    BY <1>1, <1>2, PublishMeans, Delivered
  <1>3. CASE ~Listens(c)
    <2>1. /\ cpc'[c] = cpc[c] /\ seen'[c] = seen[c] /\ replayed'[c] = replayed[c]
          /\ sent'[c] = sent[c] /\ inbox'[c] = inbox[c]
          /\ missed[c] \subseteq missed'[c] /\ late[c] \subseteq late'[c]
          /\ cpc[c] \in {"replay", "subscribe"} => e \in missed'[c]
          /\ cpc[c] \notin {"listen", "closed"} => late'[c] = late[c]
          /\ cpc[c] \in {"listen", "closed"} => late'[c] = late[c] \union {e}
      BY <1>1, <1>3, PublishMeans
    <2>2. cpc[c] \in {"listen", "closed"}
             => Closing(e) \/ (overwrote' /\ Total(c) # 0 /\ At(c, Total(c)) = EndEvent("cancelled"))
      BY <1>1, <1>3, ClosingIsLast DEF Tells, StillTold
    <2>3. QED
      BY <1>1, <2>1, <2>2, Unmoved
  <1>4. QED
    BY <1>2, <1>3

-----------------------------------------------------------------------------
(* The run's steps *)

(* The worker's and the requests' steps that publish nothing. *)
QuietStep ==
    \/ ClaimGet \/ ClaimSkip \/ ClaimCommit \/ StoreMessage
    \/ \E s \in Terminal : AgentEnds(s)
    \/ FinalGet \/ FinalRejected \/ FinalCommit \/ WorkerStops
    \/ \E k \in Requests : CancelGet(k) \/ CancelAgain(k) \/ CancelCommit(k) \/ CancelFails(k)

LEMMA QuietStepFrame ==
    ASSUME IInv, QuietStep
    PROVE  /\ UNCHANGED clientVars
           /\ Len(Transcript) \in Nat /\ stored \in 0..Len(Transcript) /\ stored \in Nat /\ emitted \in Nat
           /\ \/ stored' = stored /\ emitted' = emitted
              \/ /\ stage = "agent" /\ CaughtUp /\ stored' = stored + 1
                 /\ stored' \in 0..Len(Transcript) /\ emitted' = 0
  <1>1. Len(Transcript) \in Nat /\ stored \in 0..Len(Transcript) /\ stored \in Nat /\ emitted \in Nat
    BY ReplayStepwise DEF IInv, TypeOK
  <1>2. CASE StoreMessage
    BY <1>1, <1>2 DEF StoreMessage
  <1>3. CASE ~StoreMessage
    BY <1>1, <1>3 DEF QuietStep, ClaimGet, ClaimSkip, ClaimCommit, AgentEnds, FinalGet, FinalRejected,
       FinalCommit, WorkerStops, CancelGet, CancelAgain, CancelCommit, CancelFails
  <1>4. QED
    BY <1>1, <1>2, <1>3

LEMMA QuietStepTypes ==
    ASSUME IInv, QuietStep
    PROVE  TypeOK'
  <1>1. UNCHANGED <<cpc, seen, replayed, inbox, sent, missed, late>>
    BY QuietStepFrame DEF clientVars
  <1>2. stored' \in 0..Len(Transcript) /\ emitted' \in Nat
    BY QuietStepFrame
  <1>3. /\ status' \in {"queued", "running"} \union Terminal
        /\ outcome' \in {"none"} \union Terminal
        /\ overwrote' \in BOOLEAN
    BY DEF IInv, TypeOK, RunInv, StageInv, Terminal, Write, QuietStep, ClaimGet, ClaimSkip, ClaimCommit,
       StoreMessage, AgentEnds, FinalGet, FinalRejected, FinalCommit, WorkerStops,
       CancelGet, CancelAgain, CancelCommit, CancelFails
  <1>4. stage' \in {"queued", "claiming", "agent", "finish", "finishing", "announce",
                    "over", "dropped", "stopped", "silent"}
    BY DEF IInv, TypeOK, QuietStep, ClaimGet, ClaimSkip, ClaimCommit,
       StoreMessage, AgentEnds, FinalGet, FinalRejected, FinalCommit, WorkerStops,
       CancelGet, CancelAgain, CancelCommit, CancelFails
  <1>5. cancel' \in [Requests -> {"idle", "commit", "publish", "failed"}]
    BY DEF IInv, TypeOK, QuietStep, ClaimGet, ClaimSkip, ClaimCommit,
       StoreMessage, AgentEnds, FinalGet, FinalRejected, FinalCommit, WorkerStops,
       CancelGet, CancelAgain, CancelCommit, CancelFails
  <1>6. QED
    BY <1>1, <1>2, <1>3, <1>4, <1>5 DEF IInv, TypeOK

(* The row, step by step.  A commit that writes over a status its writer   *)
(* had not read is remembered in overwrote; any other finds the row where  *)
(* the stage says it is.                                                   *)
LEMMA QuietStepStage ==
    ASSUME IInv, QuietStep
    PROVE  StageInv'
  <1> USE DEF IInv, TypeOK, RunInv, StageInv, Terminal
  <1>1. CASE ClaimGet \/ ClaimSkip
    BY <1>1 DEF ClaimGet, ClaimSkip
  <1>2. CASE ClaimCommit
    BY <1>2 DEF ClaimCommit, Write
  <1>3. CASE StoreMessage
    BY <1>3 DEF StoreMessage
  <1>4. CASE \E s \in Terminal : AgentEnds(s)
    BY <1>4 DEF AgentEnds
  <1>5. CASE FinalGet \/ FinalRejected
    BY <1>5 DEF FinalGet, FinalRejected
  <1>6. CASE FinalCommit
    BY <1>6 DEF FinalCommit, Write
  <1>7. CASE WorkerStops
    BY <1>7 DEF WorkerStops
  <1>8. ASSUME NEW k \in Requests, CancelGet(k) \/ CancelAgain(k) \/ CancelFails(k)
        PROVE  StageInv'
    BY <1>8 DEF CancelGet, CancelAgain, CancelFails
  <1>9. ASSUME NEW k \in Requests, CancelCommit(k)
        PROVE  StageInv'
    BY <1>9 DEF CancelCommit, Write
  <1>10. QED
    BY <1>1, <1>2, <1>3, <1>4, <1>5, <1>6, <1>7, <1>8, <1>9 DEF QuietStep

LEMMA QuietStepCancel ==
    ASSUME IInv, QuietStep
    PROVE  CancelInv'
  <1> USE DEF IInv, TypeOK, RunInv, CancelInv
  <1>1. CASE ClaimGet \/ ClaimSkip \/ StoreMessage \/ FinalGet \/ FinalRejected \/ WorkerStops
    BY <1>1 DEF ClaimGet, ClaimSkip, StoreMessage, FinalGet, FinalRejected, WorkerStops
  <1>2. CASE \E s \in Terminal : AgentEnds(s)
    BY <1>2 DEF AgentEnds
  <1>3. CASE ClaimCommit
    BY <1>3 DEF ClaimCommit, Write
  <1>4. CASE FinalCommit
    BY <1>4 DEF FinalCommit, Write, StageInv, Terminal
  <1>5. ASSUME NEW k \in Requests, CancelGet(k) \/ CancelAgain(k) \/ CancelFails(k)
        PROVE  CancelInv'
    <2>1. \A j \in Requests : cancel'[j] = "publish" => cancel[j] = "publish" \/ status = "cancelled"
      BY <1>5 DEF CancelGet, CancelAgain, CancelFails
    <2>2. UNCHANGED <<status, overwrote>>
      BY <1>5 DEF CancelGet, CancelAgain, CancelFails
    <2>3. QED
      BY <2>1, <2>2
  <1>6. ASSUME NEW k \in Requests, CancelCommit(k)
        PROVE  CancelInv'
    BY <1>6 DEF CancelCommit, Write
  <1>7. QED
    BY <1>1, <1>2, <1>3, <1>4, <1>5, <1>6 DEF QuietStep

(* A row nobody wrote over stays what the clients were told. *)
LEMMA QuietStepTold ==
    ASSUME IInv, QuietStep
    PROVE  StillTold
  <1> USE DEF IInv, TypeOK, RunInv, StageInv, Terminal, Told, StillTold
  <1>1. CASE ClaimGet \/ ClaimSkip \/ StoreMessage \/ FinalGet \/ FinalRejected \/ WorkerStops
    BY <1>1 DEF ClaimGet, ClaimSkip, StoreMessage, FinalGet, FinalRejected, WorkerStops
  <1>2. CASE \E s \in Terminal : AgentEnds(s)
    BY <1>2 DEF AgentEnds
  <1>3. CASE ClaimCommit
    BY <1>3 DEF ClaimCommit, Write
  <1>4. CASE FinalCommit
    BY <1>4 DEF FinalCommit, Write
  <1>5. ASSUME NEW k \in Requests, CancelGet(k) \/ CancelAgain(k) \/ CancelFails(k)
        PROVE  StillTold
    BY <1>5 DEF CancelGet, CancelAgain, CancelFails
  <1>6. ASSUME NEW k \in Requests, CancelCommit(k)
        PROVE  StillTold
    BY <1>6 DEF CancelCommit, Write
  <1>7. QED
    BY <1>1, <1>2, <1>3, <1>4, <1>5, <1>6 DEF QuietStep

LEMMA QuietStepKeeps ==
    ASSUME IInv, QuietStep
    PROVE  IInv'
  <1> USE DEF IInv
  <1>1. UNCHANGED <<cpc, seen, replayed, inbox, sent, missed, late>>
    BY QuietStepFrame DEF clientVars
  <1>2. Len(Transcript) \in Nat /\ stored \in 0..Len(Transcript) /\ stored \in Nat /\ emitted \in Nat
    BY QuietStepFrame
  <1>3. \/ stored' = stored /\ emitted' = emitted
        \/ stage = "agent" /\ CaughtUp /\ stored' = stored + 1 /\ stored' \in 0..Len(Transcript) /\ emitted' = 0
    BY QuietStepFrame
  <1>4. EmitInv'
    <2>1. CASE stored' = stored /\ emitted' = emitted
      BY <2>1 DEF RunInv, EmitInv
    <2>2. CASE stored' = stored + 1 /\ stored' \in 0..Len(Transcript) /\ emitted' = 0
      <3>1. stored' \in Messages
        BY <1>2, <2>2 DEF Messages
      <3>2. Len(DeriveEvents(stored')) \in Nat
        BY <3>1, Derived
      <3>3. QED
        BY <2>2, <3>2 DEF EmitInv
    <2>3. QED
      BY <1>3, <2>1, <2>2
  <1>5. Published' \subseteq Published
    <2>1. CASE stored' = stored /\ emitted' = emitted
      BY <2>1, PublishedIs DEF Published
    <2>2. CASE stored' = stored + 1 /\ stored' \in 0..Len(Transcript) /\ emitted' = 0 /\ CaughtUp
      <3>1. ASSUME NEW e \in PublishedUpTo(stored', 0)
            PROVE  e \in PublishedUpTo(stored, emitted)
        <4>1. PICK m \in 1..stored' : \E k \in 1..Len(DeriveEvents(m)) :
                 (m < stored' \/ k <= 0) /\ e = DeriveEvents(m)[k]
          BY <2>2, <3>1, PublishedSteps
        <4>2. PICK k \in 1..Len(DeriveEvents(m)) : (m < stored' \/ k <= 0) /\ e = DeriveEvents(m)[k]
          BY <4>1
        <4>3. m \in 1..stored /\ stored # 0
          BY <1>2, <2>2, <4>2
        <4>4. m < stored \/ k <= emitted
          BY <1>2, <2>2, <4>3 DEF CaughtUp
        <4>5. QED
          BY <1>2, <4>2, <4>3, <4>4, PublishedSteps
      <3>2. Published' = PublishedUpTo(stored', 0)
        BY <2>2 DEF Published, PublishedUpTo
      <3>3. QED
        BY <3>1, <3>2, PublishedIs
    <2>3. QED
      BY <1>3, <2>1, <2>2
  <1>6. \A e \in EventSet : Past(e) => Past(e)'
    <2>1. CASE stored' = stored /\ emitted' = emitted
      BY <2>1 DEF Past
    <2>2. CASE stored' = stored + 1
      BY <1>2, <2>2 DEF Past, EventSet
    <2>3. QED
      BY <1>3, <2>1, <2>2
  <1>7. ASSUME NEW c \in Clients
        PROVE  ClientInv(c)'
    <2>1. stored' \in Nat /\ stored <= stored' /\ replayed[c] \in Nat
      BY <1>2, <1>3 DEF TypeOK
    <2>2. QED
      BY <1>1, <1>2, <1>5, <1>6, <2>1, QuietStepTold, Unmoved
  <1>8. QED
    BY <1>4, <1>7, QuietStepTypes, QuietStepStage, QuietStepCancel DEF RunInv

(* The next event of the stored message is published. *)
LEMMA PublishEventKeeps ==
    ASSUME IInv, PublishEvent
    PROVE  IInv'
  <1> USE DEF IInv
  <1> DEFINE d == DeriveEvents(stored)
  <1>0. PICK e : e = d[emitted + 1]
    OBVIOUS
  <1>1. /\ stage = "agent" /\ ~CaughtUp /\ emitted' = emitted + 1 /\ Publish(e)
        /\ UNCHANGED <<status, stored, stage, outcome, cancel, overwrote>>
    BY <1>0 DEF PublishEvent
  <1>2. Len(Transcript) \in Nat /\ stored \in 0..Len(Transcript) /\ stored \in Nat /\ emitted \in Nat
    BY ReplayStepwise DEF TypeOK
  <1>3. emitted <= (IF stored = 0 THEN 0 ELSE Len(d)) /\ emitted # (IF stored = 0 THEN 0 ELSE Len(d))
    BY <1>1 DEF RunInv, EmitInv, CaughtUp
  <1>4. stored # 0 /\ stored \in Messages
    BY <1>2, <1>3 DEF Messages
  <1>5. d \in Seq(StepsOf(stored)) /\ InBlockOrder(d) /\ Len(d) \in Nat
    BY <1>4, Derived, LenProperties
  <1>6. emitted + 1 \in 1..Len(d)
    BY <1>2, <1>3, <1>4, <1>5
  <1>7. e \in StepsOf(stored) /\ e \in EventSet /\ ~Closing(e) /\ e.msg = stored /\ e.block \in Nat
    <2>1. e \in StepsOf(stored)
      BY <1>0, <1>5, <1>6
    <2>2. QED
      BY <1>4, <2>1, StepEvents DEF StepsOf
  <1>8. Past(e)'
    <2>1. emitted + 1 \in 1..emitted' /\ e.block <= d[emitted + 1].block
      BY <1>0, <1>1, <1>2, <1>7
    <2>2. e.msg = stored' /\ ~Closing(e) /\ \E k \in 1..emitted' : e.block <= DeriveEvents(stored')[k].block
      BY <1>1, <1>7, <2>1
    <2>3. QED
      BY <2>2 DEF Past
  <1>9. ASSUME NEW f \in EventSet, Past(f)
        PROVE  Before(f, e) /\ Past(f)'
    <2>1. CASE f.msg < stored
      BY <1>1, <1>7, <1>9, <2>1 DEF Past, Before
    <2>2. CASE f.msg = stored /\ \E k \in 1..emitted : f.block <= d[k].block
      <3>1. PICK k \in 1..emitted : f.block <= d[k].block
        BY <2>2
      <3>2. k \in 1..Len(d) /\ k < emitted + 1 /\ k \in 1..emitted'
        BY <1>1, <1>2, <1>5, <1>6, <3>1
      <3>3. d[k].block < e.block /\ d[k].block \in Nat
        <4>1. d[k].block < d[emitted + 1].block
          BY <1>5, <1>6, <3>2 DEF InBlockOrder
        <4>2. d[k] \in StepsOf(stored)
          BY <1>5, <3>2
        <4>3. QED
          BY <1>0, <4>1, <4>2 DEF StepsOf
      <3>4. f.block < e.block
        BY <1>7, <3>1, <3>3 DEF EventSet
      <3>5. Past(f)'
        BY <1>1, <1>9, <2>2, <3>1, <3>2 DEF Past
      <3>6. QED
        BY <1>7, <2>2, <3>4, <3>5 DEF Before
    <2>3. QED
      BY <1>9, <2>1, <2>2 DEF Past
  <1>10. Published' \subseteq Published \union {e}
    <2>1. ASSUME NEW f \in PublishedUpTo(stored, emitted + 1)
          PROVE  f \in PublishedUpTo(stored, emitted) \union {e}
      <3>1. PICK m \in 1..stored : \E k \in 1..Len(DeriveEvents(m)) :
               (m < stored \/ k <= emitted + 1) /\ f = DeriveEvents(m)[k]
        BY <1>2, <2>1, PublishedSteps
      <3>2. PICK k \in 1..Len(DeriveEvents(m)) : (m < stored \/ k <= emitted + 1) /\ f = DeriveEvents(m)[k]
        BY <3>1
      <3>3. CASE m < stored \/ k <= emitted
        BY <1>2, <3>2, <3>3, PublishedSteps
      <3>4. CASE ~(m < stored \/ k <= emitted)
        <4>1. m = stored /\ k = emitted + 1
          <5>1. m = stored
            BY <1>2, <3>4
          <5>2. k \in Nat
            BY <1>5, <5>1
          <5>3. QED
            BY <1>2, <3>2, <3>4, <5>1, <5>2
        <4>2. QED
          BY <1>0, <3>2, <4>1
      <3>5. QED
        BY <3>3, <3>4
    <2>2. Published' = PublishedUpTo(stored, emitted + 1)
      BY <1>1 DEF Published, PublishedUpTo
    <2>3. QED
      BY <2>1, <2>2, PublishedIs
  <1>11. StillTold
    BY <1>1 DEF StillTold, Told
  <1>12. IsNext(e)
    BY <1>1, <1>2, <1>7, <1>8, <1>9, <1>10, <1>11 DEF IsNext
  <1>13. TypeOK'
    BY <1>1, <1>2, <1>7, PublishTypes DEF TypeOK
  <1>14. RunInv'
    <2>1. EmitInv'
      BY <1>1, <1>2, <1>4, <1>5, <1>6 DEF EmitInv
    <2>2. StageInv' /\ CancelInv'
      BY <1>1 DEF RunInv, StageInv, CancelInv
    <2>3. QED
      BY <2>1, <2>2 DEF RunInv
  <1>15. \A s \in Terminal : Told(s) => s = "cancelled" /\ overwrote
    BY <1>1 DEF Told, RunInv, StageInv, TypeOK
  <1>16. \A c \in Clients : ClientInv(c)'
    BY <1>1, <1>12, <1>15, PublishKeeps
  <1>17. QED
    BY <1>13, <1>14, <1>16

(* An event that closes the streams is published, of the outcome by the    *)
(* worker or of a cancellation by the request.                             *)
LEMMA EndKeeps ==
    ASSUME IInv, NEW s \in Terminal, Publish(EndEvent(s)), Told(s)', StillTold,
           UNCHANGED <<status, stored, emitted, outcome, overwrote>>, RunInv',
           stage' \in {stage, "over"}, cancel' \in [Requests -> {"idle", "commit", "publish", "failed"}]
    PROVE  IInv'
  <1> USE DEF IInv
  <1>1. PICK e : e = EndEvent(s)
    OBVIOUS
  <1>2. Len(Transcript) \in Nat /\ stored \in 0..Len(Transcript) /\ stored \in Nat /\ emitted \in Nat
    BY ReplayStepwise DEF TypeOK
  <1>3. e \in EventSet /\ Closing(e) /\ e.msg = Len(Transcript) + 1 /\ Publish(e)
    BY <1>1, EndEvents
  <1>4. ASSUME NEW f \in EventSet, Past(f)
        PROVE  Before(f, e) /\ Past(f)'
    BY <1>2, <1>3, <1>4 DEF Past, Before, EventSet
  <1>5. Published' = Published
    BY DEF Published
  <1>6. Tells(e)'
    <2>1. e = EndEvent(s)'
      BY <1>1 DEF EndEvent
    <2>2. QED
      BY <2>1 DEF Tells
  <1>7. IsNext(e)
    BY <1>2, <1>3, <1>4, <1>5, <1>6 DEF IsNext
  <1>8. TypeOK'
    BY <1>3, PublishTypes DEF TypeOK
  <1>9. \A c \in Clients : ClientInv(c)'
    BY <1>3, <1>7, PublishKeeps
  <1>10. QED
    BY <1>8, <1>9

LEMMA AnnounceKeeps ==
    ASSUME IInv, Announce
    PROVE  IInv'
  <1> USE DEF IInv
  <1>1. /\ stage = "announce" /\ stage' = "over" /\ Publish(EndEvent(outcome))
        /\ UNCHANGED <<status, stored, emitted, outcome, cancel, overwrote>>
    BY DEF Announce
  <1>2. outcome \in Terminal /\ Told(outcome)' /\ StillTold
    BY <1>1 DEF RunInv, StageInv, Told, StillTold, Terminal
  <1>3. RunInv'
    <2>1. StageInv'
      BY <1>1 DEF RunInv, StageInv
    <2>2. CancelInv' /\ EmitInv'
      BY <1>1 DEF RunInv, CancelInv, EmitInv
    <2>3. QED
      BY <2>1, <2>2 DEF RunInv
  <1>4. QED
    BY <1>1, <1>2, <1>3, EndKeeps DEF TypeOK

LEMMA CancelPublishKeeps ==
    ASSUME IInv, NEW k \in Requests, CancelPublish(k)
    PROVE  IInv'
  <1> USE DEF IInv
  <1>1. /\ cancel[k] = "publish" /\ cancel' = [cancel EXCEPT ![k] = "idle"]
        /\ Publish(EndEvent("cancelled"))
        /\ UNCHANGED <<status, stored, emitted, stage, outcome, overwrote>>
    BY DEF CancelPublish
  <1>2. "cancelled" \in Terminal /\ Told("cancelled")' /\ StillTold
    BY <1>1 DEF RunInv, CancelInv, Told, StillTold, Terminal
  <1>3. RunInv'
    <2>1. StageInv' /\ EmitInv'
      BY <1>1 DEF RunInv, StageInv, EmitInv
    <2>2. CancelInv'
      BY <1>1 DEF RunInv, CancelInv, TypeOK
    <2>3. QED
      BY <2>1, <2>2 DEF RunInv
  <1>4. cancel' \in [Requests -> {"idle", "commit", "publish", "failed"}]
    BY <1>1 DEF TypeOK
  <1>5. QED
    BY <1>1, <1>2, <1>3, <1>4, EndKeeps

-----------------------------------------------------------------------------
(* The clients' steps *)

LEMMA ReplayIs ==
    ASSUME NEW n \in 0..Len(Transcript)
    PROVE  /\ Replay[n] \in Seq(EventSet) /\ Len(Replay[n]) \in Nat
           /\ \A i \in 1..Len(Replay[n]) : ~Closing(Replay[n][i])
  <1>1. Replay[n] \in Seq(StepsUpTo(n)) /\ StepsUpTo(n) \subseteq EventSet
    BY Replayed, StepEvents DEF ReplayUpTo
  <1>2. Replay[n] \in Seq(EventSet)
    BY <1>1, SeqMonotonic
  <1>3. \A i \in 1..Len(Replay[n]) : Replay[n][i] \in StepsUpTo(n)
    BY <1>1, ElementOfSeq
  <1>4. QED
    BY <1>2, <1>3, StepEvents

(* What a client's step leaves alone. *)
LEMMA ClientStepFrame ==
    ASSUME IInv, NEW d \in Clients, ReadRun(d) \/ Serve(d) \/ Leave(d)
    PROVE  /\ UNCHANGED <<runVars, missed, late>> /\ StillTold
           /\ RunInv' /\ Published' = Published /\ \A e : Past(e)' = Past(e)
           /\ \A c \in Clients \ {d} : /\ cpc'[c] = cpc[c] /\ seen'[c] = seen[c]
                                       /\ replayed'[c] = replayed[c]
                                       /\ inbox'[c] = inbox[c] /\ sent'[c] = sent[c]
  <1>1. UNCHANGED <<runVars, missed, late>>
    BY DEF ReadRun, Serve, ReadHistory, ReplayLive, ReplayEnded, Subscribe, Forward, Leave
  <1>2. RunInv' /\ Published' = Published
    BY <1>1 DEF IInv, RunInv, StageInv, CancelInv, EmitInv, runVars, Published
  <1>3. \A e : Past(e)' = Past(e)
    BY <1>1 DEF Past, runVars
  <1>4. \A c \in Clients \ {d} : /\ cpc'[c] = cpc[c] /\ seen'[c] = seen[c]
                                 /\ replayed'[c] = replayed[c]
                                 /\ inbox'[c] = inbox[c] /\ sent'[c] = sent[c]
    BY DEF IInv, TypeOK, ReadRun, Serve, ReadHistory, ReplayLive, ReplayEnded, Subscribe, Forward, Leave
  <1>5. StillTold
    BY <1>1 DEF StillTold, Told, runVars
  <1>6. QED
    BY <1>1, <1>2, <1>3, <1>4, <1>5

(* The handler reads the row, the messages, and replays, or goes away. *)
LEMMA HandlerStepKeeps ==
    ASSUME IInv, NEW c \in Clients, ReadRun(c) \/ ReadHistory(c) \/ ReplayLive(c) \/ Leave(c),
           UNCHANGED <<runVars, missed, late>>, StillTold, Published' = Published
    PROVE  ClientInv(c)'
  <1>1. /\ stored \in 0..Len(Transcript) /\ stored \in Nat /\ emitted \in Nat
        /\ replayed[c] \in 0..Len(Transcript)
        /\ status' = status /\ stored' = stored /\ missed' = missed /\ late' = late
    BY ReplayStepwise DEF IInv, TypeOK, runVars
  <1>0. \A s \in Terminal : s = seen[c] => Told(s)'
    BY DEF IInv, ClientInv, PhaseInv, StillTold
  <1>2. /\ c \in DOMAIN cpc /\ c \in DOMAIN seen /\ c \in DOMAIN replayed
        /\ c \in DOMAIN inbox /\ c \in DOMAIN sent
    BY DEF IInv, TypeOK
  <1>3. CASE ReadRun(c)
    <2>1. /\ cpc[c] = "idle" /\ cpc'[c] = "history" /\ seen'[c] = status
          /\ UNCHANGED <<replayed, inbox, sent>>
      BY <1>2, <1>3 DEF ReadRun
    <2>2. status \in Terminal => Told(status)'
      BY DEF IInv, RunInv, StageInv, Told, Terminal, TypeOK, runVars
    <2>3. seen'[c] \in Terminal => Told(seen[c])'
      BY <1>1, <2>1, <2>2 DEF Told
    <2>4. QED
      BY <1>1, <2>1, <2>3 DEF IInv, ClientInv, PhaseInv, CoverInv, LateInv, OrderInv, ListenInv, ClosedInv
  <1>4. CASE ReadHistory(c)
    <2>1. /\ cpc[c] = "history" /\ cpc'[c] = "replay" /\ replayed'[c] = stored
          /\ UNCHANGED <<seen, inbox, sent>>
      BY <1>2, <1>4 DEF ReadHistory
    <2>2. Published' \subseteq EventsIn(Replay[replayed'[c]])
      BY <1>1, <2>1, PublishedIs, PublishedReplayed
    <2>3. (seen[c] \in Terminal => Told(seen[c]))'
      BY <1>0, <2>1 DEF Told
    <2>4. QED
      BY <1>1, <2>1, <2>2, <2>3 DEF IInv, ClientInv, PhaseInv, CoverInv, LateInv, OrderInv, ListenInv, ClosedInv
  <1>5. CASE ReplayLive(c)
    <2>1. /\ cpc[c] = "replay" /\ cpc'[c] = "subscribe" /\ sent'[c] = Replay[replayed[c]]
          /\ UNCHANGED <<seen, replayed, inbox>>
      BY <1>2, <1>5 DEF ReplayLive
    <2>2. \A i \in 1..Len(sent'[c]) : ~Closing(sent'[c][i])
      BY <1>1, <2>1, ReplayIs
    <2>3. (seen[c] \in Terminal => Told(seen[c]))'
      BY <1>0, <2>1 DEF Told
    <2>4. QED
      BY <1>1, <2>1, <2>2, <2>3 DEF IInv, ClientInv, PhaseInv, CoverInv, LateInv, OrderInv, ListenInv, ClosedInv
  <1>6. CASE Leave(c)
    <2>1. /\ cpc[c] # "closed" /\ cpc'[c] = "gone" /\ inbox'[c] = << >>
          /\ UNCHANGED <<seen, replayed, sent>>
      BY <1>2, <1>6 DEF Leave
    <2>2. (seen[c] \in Terminal => Told(seen[c]))'
      BY <1>0, <2>1 DEF Told
    <2>3. QED
      BY <1>1, <2>1, <2>2 DEF IInv, ClientInv, PhaseInv, CoverInv, LateInv, OrderInv, ListenInv, ClosedInv
  <1>7. QED
    BY <1>3, <1>4, <1>5, <1>6

(* The run had ended: replay, the outcome, and the stream is closed. *)
LEMMA ReplayEndedKeeps ==
    ASSUME IInv, NEW c \in Clients, ReplayEnded(c), UNCHANGED <<runVars, missed, late>>,
           StillTold, Published' = Published
    PROVE  ClientInv(c)'
  <1>1. /\ stored \in 0..Len(Transcript) /\ stored \in Nat /\ Len(Transcript) \in Nat
        /\ replayed[c] \in 0..Len(Transcript)
        /\ status' = status /\ stored' = stored /\ missed' = missed /\ late' = late
    BY ReplayStepwise DEF IInv, TypeOK, runVars
  <1>2. PICK r, e : r = Replay[replayed[c]] /\ e = EndEvent(seen[c])
    OBVIOUS
  <1>3. /\ cpc[c] = "replay" /\ seen[c] \in Terminal /\ cpc'[c] = "closed"
        /\ sent'[c] = Append(r, e)
        /\ UNCHANGED <<seen, replayed, inbox>>
    BY <1>2 DEF IInv, TypeOK, ReplayEnded
  <1>4. /\ Told(seen[c]) /\ inbox[c] = << >> /\ replayed[c] <= stored /\ late[c] = {}
        /\ Published \subseteq EventsIn(r) \union missed[c]
    BY <1>2, <1>3 DEF IInv, ClientInv, PhaseInv, CoverInv, LateInv
  <1>5. /\ r \in Seq(EventSet) /\ Len(r) \in Nat /\ \A i \in 1..Len(r) : ~Closing(r[i])
        /\ e \in EventSet /\ Closing(e) /\ e.msg = Len(Transcript) + 1
    BY <1>1, <1>2, <1>3, ReplayIs, EndEvents
  <1>6. /\ sent'[c] = Append(r, e) /\ sent'[c] # << >> /\ Len(sent'[c]) = Len(r) + 1
        /\ sent'[c][Len(r) + 1] = e /\ \A i \in 1..Len(r) : sent'[c][i] = r[i]
    BY <1>2, <1>3, <1>4, <1>5
  <1>7. Total(c)' = Len(r) + 1 /\ Base(c)' = Len(r)
    <2>1. Len(inbox'[c]) = 0
      BY <1>3, <1>4
    <2>2. QED
      BY <1>2, <1>3, <1>5, <1>6, <2>1 DEF Total, Base
  <1>8. \A i \in 1..(Len(r) + 1) : At(c, i)' = sent'[c][i]
    BY <1>5, <1>6 DEF At, Nth
  <1>9. PhaseInv(c)'
    <2>1. (seen[c] \in Terminal => Told(seen[c]))'
      BY <1>3, <1>4 DEF StillTold, Told
    <2>2. QED
      BY <1>1, <1>3, <1>4, <2>1 DEF PhaseInv
  <1>10. CoverInv(c)'
    <2>1. ASSUME NEW f \in EventsIn(r)
          PROVE  f \in {At(c, i)' : i \in 1..(Len(r) + 1)}
      <3>1. PICK i \in 1..Len(r) : f = r[i]
        BY <2>1 DEF EventsIn
      <3>2. i \in 1..(Len(r) + 1) /\ At(c, i)' = f
        BY <1>5, <1>6, <1>8, <3>1
      <3>3. QED
        BY <3>2
    <2>2. QED
      BY <1>1, <1>3, <1>4, <1>7, <2>1 DEF CoverInv
  <1>11. OrderInv(c)'
    <2>1. \A i \in (Len(r) + 1)..(Len(r) + 1) : i = Len(r) + 1 /\ At(c, i)' = e
      BY <1>5, <1>6, <1>8
    <2>2. e.msg >= replayed[c]
      BY <1>1, <1>5
    <2>3. QED
      BY <1>3, <1>5, <1>6, <1>7, <2>1, <2>2 DEF OrderInv
  <1>12. ListenInv(c)'
    BY <1>3 DEF ListenInv
  <1>13. ClosedInv(c)'
    <2>1. Tells(e)
      BY <1>2, <1>3, <1>4 DEF Tells
    <2>2. Tells(LastSent(c))'
      <3>1. LastSent(c)' = e
        BY <1>6 DEF LastSent
      <3>2. QED
        BY <2>1, <3>1, StillTells DEF Tells
    <2>3. \A i \in 1..Len(sent'[c]) : Closing(sent'[c][i]) => i = Len(sent'[c])
      BY <1>5, <1>6
    <2>4. QED
      BY <1>6, <2>2, <2>3 DEF ClosedInv, Closing
  <1>14. LateInv(c)'
    BY <1>1, <1>3, <1>4 DEF LateInv
  <1>15. QED
    BY <1>9, <1>10, <1>11, <1>12, <1>13, <1>14 DEF ClientInv

(* The handler subscribes: from here on it hears what is published. *)
LEMMA SubscribeKeeps ==
    ASSUME IInv, NEW c \in Clients, Subscribe(c), UNCHANGED <<runVars, missed, late>>,
           StillTold, Published' = Published
    PROVE  ClientInv(c)'
  <1>1. /\ replayed[c] \in 0..Len(Transcript)
        /\ status' = status /\ stored' = stored /\ missed' = missed /\ late' = late
        /\ sent[c] \in Seq(EventSet) /\ Len(sent[c]) \in Nat
    BY DEF IInv, TypeOK, runVars
  <1>2. /\ cpc[c] = "subscribe" /\ cpc'[c] = "listen" /\ UNCHANGED <<seen, replayed, inbox, sent>>
    BY DEF IInv, TypeOK, Subscribe
  <1>3. /\ sent[c] = Replay[replayed[c]] /\ inbox[c] = << >>
        /\ Published \subseteq EventsIn(sent[c]) \union missed[c] /\ late[c] = {}
    BY <1>2 DEF IInv, ClientInv, PhaseInv, CoverInv, LateInv
  <1>4. Total(c)' = Len(sent[c]) /\ Base(c)' = Len(sent[c])
    <2>1. Len(inbox'[c]) = 0
      BY <1>2, <1>3
    <2>2. QED
      BY <1>1, <1>2, <1>3, <2>1 DEF Total, Base
  <1>5. \A i \in 1..Len(sent[c]) : At(c, i)' = sent[c][i]
    BY <1>1, <1>2 DEF At, Nth
  <1>6. \A i : i \notin (Len(sent[c]) + 1)..Len(sent[c])
    BY <1>1
  <1>7. CoverInv(c)'
    BY <1>1, <1>2, <1>3, <1>4, <1>5 DEF CoverInv, EventsIn
  <1>8. OrderInv(c)' /\ ListenInv(c)'
    BY <1>1, <1>2, <1>4, <1>6 DEF OrderInv, ListenInv
  <1>9. PhaseInv(c)'
    <2>1. (seen[c] \in Terminal => Told(seen[c]))'
      BY <1>2 DEF IInv, ClientInv, PhaseInv, StillTold, Told
    <2>2. QED
      BY <1>1, <1>2, <2>1 DEF IInv, ClientInv, PhaseInv
  <1>10. ClosedInv(c)' /\ LateInv(c)'
    BY <1>1, <1>2, <1>3 DEF ClosedInv, LateInv
  <1>11. QED
    BY <1>7, <1>8, <1>9, <1>10 DEF ClientInv

(* One event is forwarded.  If it closes the stream it is the last one in  *)
(* the subscription, so dropping the rest drops nothing.                   *)
LEMMA ForwardKeeps ==
    ASSUME IInv, NEW c \in Clients, Forward(c), UNCHANGED <<runVars, missed, late>>,
           StillTold, Published' = Published, \A e : Past(e)' = Past(e)
    PROVE  ClientInv(c)'
  <1>1. PICK s, q, h : s = sent[c] /\ q = inbox[c] /\ h = Head(q)
    OBVIOUS
  <1>2. /\ s \in Seq(EventSet) /\ q \in Seq(EventSet) /\ Len(s) \in Nat /\ Len(q) \in Nat
        /\ status' = status /\ stored' = stored /\ missed' = missed /\ stage' = stage
        /\ late' = late /\ overwrote' = overwrote
    BY <1>1 DEF IInv, TypeOK, runVars
  <1>3. /\ cpc[c] = "listen" /\ q # << >> /\ sent'[c] = Append(s, h)
        /\ UNCHANGED <<seen, replayed>>
        /\ \/ ~Closing(h) /\ cpc'[c] = "listen" /\ inbox'[c] = Tail(q)
           \/ Closing(h) /\ cpc'[c] = "closed" /\ inbox'[c] = << >>
    BY <1>1 DEF IInv, TypeOK, Forward
  <1>4. h = q[1] /\ Len(q) >= 1 /\ Len(sent'[c]) = Len(s) + 1 /\ sent'[c][Len(s) + 1] = h
        /\ sent'[c] # << >> /\ \A i \in 1..Len(s) : sent'[c][i] = s[i]
    <2>1. h = q[1] /\ Len(q) >= 1 /\ h \in EventSet
      BY <1>1, <1>2, <1>3
    <2>2. PICK t : t = Append(s, h)
      OBVIOUS
    <2>3. Len(t) = Len(s) + 1 /\ t[Len(s) + 1] = h /\ t # << >> /\ \A i \in 1..Len(s) : t[i] = s[i]
      BY <1>2, <2>1, <2>2
    <2>4. QED
      BY <1>3, <2>1, <2>2, <2>3, Zenon
  <1>5. Total(c) = Len(s) + Len(q) /\ Base(c) <= Len(s) /\ Base(c) \in Nat /\ Base(c)' = Base(c)
    <2>1. Base(c) <= Len(s)
      BY <1>1, <1>3 DEF IInv, ClientInv, OrderInv
    <2>2. Base(c) \in Nat /\ Total(c) = Len(s) + Len(q)
      BY <1>1, StreamType DEF IInv, Total
    <2>3. Base(c)' = Base(c)
      BY <1>3 DEF Base
    <2>4. QED
      BY <2>1, <2>2, <2>3
  <1>6. Closing(h) => Tells(h) /\ Len(q) = 1
    <2> SUFFICES ASSUME Closing(h)
                 PROVE  Tells(h) /\ Len(q) = 1
      OBVIOUS
    <2>1. PICK i : i = Len(s) + 1
      OBVIOUS
    <2>2. i \in (Base(c) + 1)..Total(c)
      BY <1>2, <1>4, <1>5, <2>1
    <2>3. At(c, i) = h
      <3>1. ~(i <= Len(s)) /\ i - Len(s) = 1
        BY <1>2, <2>1
      <3>2. QED
        BY <1>1, <1>4, <3>1 DEF At, Nth
    <2>4. ~Past(h)
      BY DEF Past
    <2>5. Tells(h) /\ i = Total(c)
      BY <1>3, <2>2, <2>3, <2>4 DEF IInv, ClientInv, ListenInv
    <2>6. Len(q) = 1
      <3>1. Len(s) + 1 = Len(s) + Len(q)
        BY <1>5, <2>1, <2>5
      <3>2. \A a, b \in Nat : a + 1 = a + b => b = 1
        OBVIOUS
      <3>3. QED
        BY <1>2, <3>1, <3>2, Zenon
    <2>7. QED
      BY <2>5, <2>6
  <1>7. inbox'[c] = Tail(q)
    <2>1. Len(q) = 1 => Tail(q) = << >>
      <3>1. Tail(q) \in Seq(EventSet) /\ Len(Tail(q)) = Len(q) - 1
        BY <1>2, <1>3, HeadTailProperties
      <3>2. Len(q) = 1 => Len(Tail(q)) = 0
        BY <3>1
      <3>3. \A t \in Seq(EventSet) : Len(t) = 0 => t = << >>
        BY EmptySeq
      <3>4. QED
        BY <3>1, <3>2, <3>3, Zenon
    <2>2. QED
      BY <1>3, <1>6, <2>1
  <1>8. Total(c)' = Total(c) /\ \A i \in 1..Total(c) : At(c, i)' = At(c, i)
    <2>1. /\ Len(Append(s, Head(q))) + Len(Tail(q)) = Len(s) + Len(q)
          /\ \A i \in 1..(Len(s) + Len(q)) : Nth(Append(s, Head(q)), Tail(q), i) = Nth(s, q, i)
      BY <1>2, <1>3, OneMoved, Zenon
    <2>2. sent'[c] = Append(s, Head(q))
      BY <1>1, <1>3
    <2>3. Total(c)' = Total(c)
      BY <1>5, <1>7, <2>1, <2>2 DEF Total
    <2>4. \A i : At(c, i)' = Nth(Append(s, Head(q)), Tail(q), i) /\ At(c, i) = Nth(s, q, i)
      BY <1>1, <1>7, <2>2 DEF At
    <2>5. QED
      BY <1>5, <2>1, <2>3, <2>4
  <1>9. \A i \in (Base(c) + 1)..Total(c) : i \in 1..Total(c)
    BY <1>2, <1>5
  <1>10. \A i \in 1..Len(s) : ~Closing(s[i])
    BY <1>1, <1>3 DEF IInv, ClientInv, PhaseInv
  <1>11. PhaseInv(c)'
    <2>1. cpc'[c] # "closed" => \A i \in 1..Len(sent'[c]) : ~Closing(sent'[c][i])
      BY <1>2, <1>3, <1>4, <1>10
    <2>2. (seen[c] \in Terminal => Told(seen[c]))'
      BY <1>3 DEF IInv, ClientInv, PhaseInv, StillTold, Told
    <2>3. QED
      BY <1>2, <1>3, <2>1, <2>2 DEF IInv, ClientInv, PhaseInv
  <1>12. CoverInv(c)'
    <2>1. Published \subseteq {At(c, i) : i \in 1..Total(c)} \union missed[c] \union late[c]
      BY <1>3 DEF IInv, ClientInv, CoverInv
    <2>2. QED
      BY <1>2, <1>3, <1>8, <2>1 DEF CoverInv
  <1>13. OrderInv(c)'
    <2>1. Base(c)' <= Len(sent'[c])
      BY <1>2, <1>4, <1>5
    <2>2. QED
      BY <1>3, <1>5, <1>8, <1>9, <2>1 DEF IInv, ClientInv, OrderInv
  <1>14. ListenInv(c)'
    <2>1. ASSUME NEW i \in (Base(c) + 1)..Total(c)
          PROVE  Past(At(c, i))' \/ (Tells(At(c, i))' /\ i = Total(c))
      <3>1. PICK e : e = At(c, i)
        OBVIOUS
      <3>2. At(c, i)' = e
        BY <1>8, <1>9, <3>1
      <3>3. CASE Past(e)
        BY <3>2, <3>3 DEF Past
      <3>4. CASE Tells(e) /\ i = Total(c)
        BY <3>2, <3>4, StillTells DEF Tells
      <3>5. QED
        BY <1>3, <3>1, <3>3, <3>4 DEF IInv, ClientInv, ListenInv
    <2>2. QED
      BY <1>5, <1>8, <2>1 DEF ListenInv
  <1>15. ClosedInv(c)'
    <2> SUFFICES ASSUME cpc'[c] = "closed"
                 PROVE  /\ sent'[c] # << >> /\ Tells(LastSent(c))'
                        /\ \A i \in 1..Len(sent'[c]) : Closing(sent'[c][i]) => i = Len(sent'[c])
      BY DEF ClosedInv, Closing
    <2>1. Tells(h)
      BY <1>3, <1>6
    <2>2. Tells(LastSent(c))'
      <3>1. LastSent(c)' = h
        BY <1>4 DEF LastSent
      <3>2. QED
        BY <2>1, <3>1, StillTells DEF Tells
    <2>3. QED
      BY <1>2, <1>4, <1>10, <2>2
  <1>16. LateInv(c)'
    <2>1. Total(c) # 0 => At(c, Total(c))' = At(c, Total(c))
      <3>1. Total(c) \in Nat
        BY <1>2, <1>5
      <3>2. Total(c) # 0 => Total(c) \in 1..Total(c)
        BY <3>1
      <3>3. At(c, Total(c))' = Nth(sent'[c], inbox'[c], Total(c))
        BY <1>8 DEF At
      <3>4. QED
        BY <1>8, <3>2, <3>3 DEF At
    <2>2. \A e \in late[c] : Closing(e) \/ (overwrote /\ Total(c) # 0 /\ At(c, Total(c)) = EndEvent("cancelled"))
      BY <1>3 DEF IInv, ClientInv, LateInv
    <2>3. QED
      BY <1>2, <1>3, <1>8, <2>1, <2>2 DEF LateInv, Closing, EndEvent
  <1>17. QED
    BY <1>11, <1>12, <1>13, <1>14, <1>15, <1>16 DEF ClientInv

(* Types. *)
LEMMA ClientStepTypes ==
    ASSUME IInv, NEW c \in Clients, ReadRun(c) \/ Serve(c) \/ Leave(c)
    PROVE  TypeOK'
  <1> USE DEF IInv
  <1>1. UNCHANGED <<runVars, missed, late>>
    BY ClientStepFrame
  <1>2. /\ cpc' \in [Clients -> {"idle", "history", "replay", "subscribe", "listen", "closed", "gone"}]
        /\ seen' \in [Clients -> {"none", "queued", "running"} \union Terminal]
        /\ replayed' \in [Clients -> 0..Len(Transcript)]
    BY DEF TypeOK, ReadRun, Serve, ReadHistory, ReplayLive, ReplayEnded, Subscribe, Forward, Leave
  <1>3. \A r \in Seq(EventSet) : [inbox EXCEPT ![c] = r] \in [Clients -> Seq(EventSet)]
                                /\ [sent EXCEPT ![c] = r] \in [Clients -> Seq(EventSet)]
    BY DEF TypeOK
  <1>4. inbox' \in [Clients -> Seq(EventSet)]
    <2>1. << >> \in Seq(EventSet) /\ (inbox[c] # << >> => Tail(inbox[c]) \in Seq(EventSet))
      BY DEF TypeOK
    <2>2. \/ inbox' = inbox \/ inbox' = [inbox EXCEPT ![c] = << >>]
          \/ inbox[c] # << >> /\ inbox' = [inbox EXCEPT ![c] = Tail(inbox[c])]
      BY DEF ReadRun, Serve, ReadHistory, ReplayLive, ReplayEnded, Subscribe, Forward, Leave
    <2>3. QED
      BY <1>3, <2>1, <2>2 DEF TypeOK
  <1>5. sent' \in [Clients -> Seq(EventSet)]
    <2>1. replayed[c] \in 0..Len(Transcript) /\ Replay[replayed[c]] \in Seq(EventSet)
      BY ReplayIs DEF TypeOK
    <2>2. seen[c] \in Terminal => Append(Replay[replayed[c]], EndEvent(seen[c])) \in Seq(EventSet)
      BY <2>1, EndEvents
    <2>3. inbox[c] # << >> => Append(sent[c], Head(inbox[c])) \in Seq(EventSet)
      BY DEF TypeOK
    <2>4. \/ sent' = sent
          \/ sent' = [sent EXCEPT ![c] = Replay[replayed[c]]]
          \/ seen[c] \in Terminal /\ sent' = [sent EXCEPT ![c] = Append(Replay[replayed[c]], EndEvent(seen[c]))]
          \/ inbox[c] # << >> /\ sent' = [sent EXCEPT ![c] = Append(sent[c], Head(inbox[c]))]
      BY DEF ReadRun, Serve, ReadHistory, ReplayLive, ReplayEnded, Subscribe, Forward, Leave
    <2>5. QED
      BY <1>3, <2>1, <2>2, <2>3, <2>4 DEF TypeOK
  <1>6. QED
    BY <1>1, <1>2, <1>4, <1>5 DEF TypeOK, runVars

LEMMA ClientStepKeeps ==
    ASSUME IInv, NEW d \in Clients, ReadRun(d) \/ Serve(d) \/ Leave(d)
    PROVE  IInv'
  <1>1. /\ UNCHANGED <<runVars, missed, late>> /\ StillTold
        /\ RunInv' /\ Published' = Published /\ \A e : Past(e)' = Past(e)
        /\ \A c \in Clients \ {d} : /\ cpc'[c] = cpc[c] /\ seen'[c] = seen[c]
                                    /\ replayed'[c] = replayed[c]
                                    /\ inbox'[c] = inbox[c] /\ sent'[c] = sent[c]
    BY ClientStepFrame
  <1>2. TypeOK'
    BY ClientStepTypes
  <1>3. ClientInv(d)'
    BY <1>1, HandlerStepKeeps, ReplayEndedKeeps, SubscribeKeeps, ForwardKeeps DEF Serve
  <1>4. ASSUME NEW c \in Clients \ {d}
        PROVE  ClientInv(c)'
    <2>1. /\ stored' = stored /\ missed' = missed /\ late' = late
          /\ stored \in Nat /\ stored <= stored /\ replayed[c] \in Nat
      BY <1>1, ReplayStepwise DEF IInv, TypeOK, runVars
    <2>2. QED
      BY <1>1, <2>1, Unmoved DEF IInv
  <1>5. QED
    BY <1>1, <1>2, <1>3, <1>4 DEF IInv

-----------------------------------------------------------------------------
(* Every state of every behaviour *)

LEMMA InitHolds == Init => IInv
  <1> SUFFICES ASSUME Init PROVE IInv
    OBVIOUS
  <1>1. Len(Transcript) \in Nat /\ << >> \in Seq(EventSet)
    BY ReplayStepwise
  <1>2. TypeOK
    <2>1. /\ status \in {"queued", "running"} \union Terminal
          /\ stored \in 0..Len(Transcript) /\ emitted \in Nat
          /\ outcome \in {"none"} \union Terminal /\ overwrote \in BOOLEAN
          /\ cancel \in [Requests -> {"idle", "commit", "publish", "failed"}]
      <3>1. 0 \in 0..Len(Transcript) /\ 0 \in Nat
        BY <1>1
      <3>2. QED
        BY <3>1 DEF Init
    <2>2. stage \in {"queued", "claiming", "agent", "finish", "finishing", "announce",
                     "over", "dropped", "stopped", "silent"}
      BY DEF Init
    <2>3. /\ cpc \in [Clients -> {"idle", "history", "replay", "subscribe", "listen", "closed", "gone"}]
          /\ seen \in [Clients -> {"none", "queued", "running"} \union Terminal]
          /\ replayed \in [Clients -> 0..Len(Transcript)]
      <3>1. 0 \in 0..Len(Transcript)
        BY <1>1
      <3>2. QED
        BY <3>1 DEF Init
    <2>4. /\ inbox \in [Clients -> Seq(EventSet)] /\ sent \in [Clients -> Seq(EventSet)]
          /\ missed \in [Clients -> SUBSET EventSet] /\ late \in [Clients -> SUBSET EventSet]
      BY <1>1 DEF Init
    <2>5. QED
      BY <2>1, <2>2, <2>3, <2>4 DEF TypeOK
  <1>3. RunInv
    BY DEF Init, RunInv, StageInv, CancelInv, EmitInv, Terminal
  <1>4. ASSUME NEW c \in Clients
        PROVE  ClientInv(c)
    BY DEF Init, ClientInv, PhaseInv, CoverInv, LateInv, OrderInv, ListenInv, ClosedInv, Terminal
  <1>5. QED
    BY <1>2, <1>3, <1>4 DEF IInv

LEMMA StutterKeeps ==
    ASSUME IInv, UNCHANGED vars
    PROVE  IInv'
  <1>1. TypeOK'
    BY DEF IInv, TypeOK, vars, runVars, clientVars
  <1>2. RunInv' /\ StillTold
    BY DEF IInv, RunInv, StageInv, CancelInv, EmitInv, StillTold, Told, vars, runVars
  <1>3. ASSUME NEW c \in Clients
        PROVE  ClientInv(c)'
    <2>1. /\ UNCHANGED <<status, stored, emitted, stage, cpc, seen, replayed, inbox, sent, missed, late>>
          /\ stored \in Nat /\ stored <= stored /\ replayed[c] \in Nat
      BY ReplayStepwise DEF IInv, TypeOK, vars, runVars, clientVars
    <2>2. Published' = Published /\ \A e \in EventSet : Past(e) => Past(e)'
      BY <2>1 DEF Published, Past
    <2>3. QED
      BY <1>2, <2>1, <2>2, Unmoved DEF IInv
  <1>4. QED
    BY <1>1, <1>2, <1>3 DEF IInv

LEMMA StepKeeps == IInv /\ [Next]_vars => IInv'
  BY QuietStepKeeps, PublishEventKeeps, AnnounceKeeps, CancelPublishKeeps, ClientStepKeeps, StutterKeeps
     DEF Next, RunStep, CancelStep, CancelGoesOn, QuietStep

THEOREM Invariance == Spec => []IInv
  BY InitHolds, StepKeeps, PTL DEF Spec

(* Types; only events of the documented types travel. *)
THEOREM TypeCorrect == Spec => []TypeOK
  <1>1. IInv => TypeOK
    BY DEF IInv
  <1>2. QED
    BY <1>1, Invariance, PTL

(* What a subscription delivers is in order and repeats at most events of  *)
(* the last message replayed (events.py, worker.py, runs.py).              *)
THEOREM DeliveredInOrder == Spec => []LiveInOrder
  <1>1. ASSUME IInv, NEW c \in Clients, cpc[c] \in {"listen", "closed"}
        PROVE  /\ \A i, j \in DOMAIN Live(c) : i < j => Before(Live(c)[i], Live(c)[j])
               /\ \A i \in DOMAIN Live(c) : Live(c)[i].msg >= replayed[c]
    <2>1. PICK s, b, n : s = sent[c] /\ b = Base(c) /\ n = Len(s)
      OBVIOUS
    <2>2. s \in Seq(EventSet) /\ n \in Nat /\ b \in Nat /\ b <= n /\ n <= Total(c) /\ Total(c) \in Nat
      BY <1>1, <2>1, StreamType DEF IInv, TypeOK, ClientInv, OrderInv
    <2>3. \A i \in (b + 1)..n : i \in (b + 1)..Total(c) /\ At(c, i) = s[i]
      BY <2>1, <2>2 DEF At, Nth
    <2>4. PICK t : t = SubSeq(s, b + 1, n)
      OBVIOUS
    <2>5. Live(c) = t
      BY <2>1, <2>4 DEF Live, Base
    <2>6. DOMAIN t = 1..Len(t) /\ Len(t) = n - b /\ \A i \in 1..(n - b) : t[i] = s[b + i]
      <3>1. b + 1 \in Int /\ n \in Int /\ \A i \in (b + 1)..n : s[i] \in EventSet
        BY <2>1, <2>2
      <3>2. /\ t \in Seq(EventSet)
            /\ Len(t) = IF b + 1 <= n THEN n - (b + 1) + 1 ELSE 0
            /\ \A i \in 1..(n - (b + 1) + 1) : t[i] = s[(b + 1) + i - 1]
        BY <2>4, <3>1, SubSeqProperties
      <3>3. n - (b + 1) + 1 = n - b /\ \A i \in 1..(n - b) : (b + 1) + i - 1 = b + i
        BY <2>2
      <3>4. DOMAIN t = 1..Len(t)
        BY <3>2, LenProperties
      <3>5. QED
        BY <2>2, <3>2, <3>3, <3>4
    <2>7. \A i \in 1..(n - b) : b + i \in (b + 1)..n
      BY <2>2
    <2>8. ASSUME NEW i \in DOMAIN t, NEW j \in DOMAIN t, i < j
          PROVE  Before(t[i], t[j])
      <3>1. b + i \in (b + 1)..n /\ b + j \in (b + 1)..n /\ b + i < b + j
        BY <2>2, <2>6, <2>7, <2>8
      <3>2. Before(At(c, b + i), At(c, b + j))
        BY <1>1, <2>1, <2>3, <3>1 DEF IInv, ClientInv, OrderInv
      <3>3. QED
        BY <2>3, <2>6, <3>1, <3>2
    <2>9. ASSUME NEW i \in DOMAIN t
          PROVE  t[i].msg >= replayed[c]
      <3>1. b + i \in (b + 1)..n
        BY <2>6, <2>7
      <3>2. At(c, b + i).msg >= replayed[c]
        BY <1>1, <2>1, <2>3, <3>1 DEF IInv, ClientInv, OrderInv
      <3>3. QED
        BY <2>3, <2>6, <3>1, <3>2
    <2>10. QED
      BY <2>5, <2>8, <2>9
  <1>2. IInv => LiveInOrder
    BY <1>1 DEF LiveInOrder
  <1>3. QED
    BY <1>2, Invariance, PTL

(* A stream has one terminal event, when it closes.  It is of the outcome  *)
(* stored, or of a cancellation, and the row's while no stale write        *)
(* changed the row (worker.py, run_service.py, runs.py).                   *)
THEOREM EndsByOutcome == Spec => []ClosedByOutcome
  <1>1. ASSUME IInv, NEW c \in Clients
        PROVE  \A i \in DOMAIN sent[c] :
                  Closing(sent[c][i]) => i = Len(sent[c]) /\ cpc[c] \in {"closed", "gone"}
    <2>1. DOMAIN sent[c] = 1..Len(sent[c])
      BY <1>1, LenProperties DEF IInv, TypeOK
    <2>2. QED
      BY <1>1, <2>1 DEF IInv, ClientInv, PhaseInv, ClosedInv
  <1>2. ASSUME IInv, NEW c \in Clients, cpc[c] = "closed"
        PROVE  /\ sent[c] # << >> /\ Closing(LastSent(c))
               /\ LastSent(c).type = "done" => status \in {"succeeded", "cancelled"}
               /\ LastSent(c).type = "error" => status \in {"failed", "cancelled"}
               /\ LastSent(c).type = "cancelled" => status # "queued"
               /\ ~overwrote => LastSent(c) = EndEvent(status)
    <2>1. sent[c] # << >> /\ Tells(LastSent(c))
      BY <1>2 DEF IInv, ClientInv, ClosedInv
    <2>2. PICK s \in Terminal : LastSent(c) = EndEvent(s) /\ Told(s)
      BY <2>1 DEF Tells
    <2>3. Closing(LastSent(c)) /\ (~overwrote => LastSent(c) = EndEvent(status))
      BY <2>2, EndEvents DEF Told
    <2>4. /\ EndEvent(s).type = "done" => s = "succeeded"
          /\ EndEvent(s).type = "error" => s = "failed"
          /\ EndEvent(s).type = "cancelled" => s = "cancelled"
      BY DEF EndEvent, Terminal
    <2>5. /\ s = "succeeded" => status \in {"succeeded", "cancelled"}
          /\ s = "failed" => status \in {"failed", "cancelled"}
          /\ s = "cancelled" => status # "queued"
      BY <1>2, <2>2 DEF Told, IInv, RunInv, StageInv
    <2>6. QED
      BY <2>1, <2>2, <2>3, <2>4, <2>5
  <1>3. IInv => ClosedByOutcome
    BY <1>1, <1>2 DEF ClosedByOutcome
  <1>4. QED
    BY <1>3, Invariance, PTL

(* A published step is none of the events that close a stream. *)
LEMMA PublishedAreSteps ==
    ASSUME TypeOK, NEW e \in Published
    PROVE  ~Closing(e)
  <1>1. stored \in 0..Len(Transcript) /\ emitted \in Nat /\ Len(Transcript) \in Nat
    BY ReplayStepwise DEF TypeOK
  <1>2. e \in PublishedUpTo(stored, emitted)
    BY PublishedIs
  <1>3. PICK m \in 1..stored : \E k \in 1..Len(DeriveEvents(m)) : e = DeriveEvents(m)[k]
    BY <1>1, <1>2, PublishedSteps
  <1>4. m \in Messages
    BY <1>1 DEF Messages
  <1>5. e \in StepsOf(m)
    BY <1>3, <1>4, Derived, ElementOfSeq
  <1>6. QED
    BY <1>5, StepEvents

LEMMA NothingElseLostHolds == IInv => NothingElseLost
  <1>1. ASSUME IInv, NEW c \in Clients, cpc[c] = "closed"
        PROVE  /\ Published \subseteq (Sent(c) \union missed[c] \union late[c])
               /\ (~overwrote \/ LastSent(c).type # "cancelled") => Published \subseteq (Sent(c) \union missed[c])
    <2>1. /\ inbox[c] = << >>
          /\ Published \subseteq {At(c, i) : i \in 1..Total(c)} \union missed[c] \union late[c]
      BY <1>1 DEF IInv, ClientInv, PhaseInv, CoverInv
    <2>2. sent[c] \in Seq(EventSet) /\ DOMAIN sent[c] = 1..Len(sent[c]) /\ Len(sent[c]) \in Nat
      BY <1>1, LenProperties DEF IInv, TypeOK
    <2>3. Total(c) = Len(sent[c])
      <3>1. Len(inbox[c]) = 0
        BY <2>1
      <3>2. QED
        BY <2>2, <3>1 DEF Total
    <2>4. \A i \in 1..Total(c) : At(c, i) \in Sent(c)
      BY <2>2, <2>3 DEF At, Nth, Sent
    <2>5. Published \subseteq (Sent(c) \union missed[c] \union late[c])
      BY <2>1, <2>4
    <2>6. At(c, Total(c)) = LastSent(c)
      BY <2>2, <2>3 DEF At, Nth, LastSent
    <2>7. ASSUME ~overwrote \/ LastSent(c).type # "cancelled", NEW e \in Published
          PROVE  e \notin late[c]
      <3>1. ~Closing(e)
        BY <1>1, <2>7, PublishedAreSteps DEF IInv
      <3>2. EndEvent("cancelled").type = "cancelled"
        BY DEF EndEvent
      <3>3. e \in late[c] => overwrote /\ LastSent(c) = EndEvent("cancelled")
        BY <1>1, <2>6, <3>1 DEF IInv, ClientInv, LateInv
      <3>4. QED
        BY <2>7, <3>2, <3>3
    <2>8. QED
      BY <2>5, <2>7
  <1>2. QED
    BY <1>1 DEF NothingElseLost

(* A closed stream got every published step but those of the gap between   *)
(* the SELECT of the messages and the SUBSCRIBE, and those published after *)
(* a "cancelled" of a run that was written over (runs.py, worker.py).      *)
THEOREM OnlyTheGapIsLost == Spec => []NothingElseLost
  BY NothingElseLostHolds, Invariance, PTL
=============================================================================
