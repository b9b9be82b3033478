-------------------------- MODULE RingBufferProofs --------------------------
(***************************************************************************)
(* Proofs about RingBuffer, for every length, word size and character set  *)
(* that RingBufferAssumption admits.                                       *)
(***************************************************************************)
EXTENDS RingBuffer, SequenceTheorems, TLAPS

-----------------------------------------------------------------------------
(* Arithmetic modulo the length of the buffer.                             *)

(* Successor steps to the next slot and wraps at the end of the buffer.    *)
LEMMA SuccessorWraps ==
  ASSUME NEW i \in Slot
  PROVE  /\ Successor(i) = IF i = RbLen - 1 THEN 0 ELSE i + 1
         /\ Successor(i) \in Slot
<1>1. RbLen \in Nat /\ RbLen >= 2 /\ i \in 0 .. RbLen - 1
  BY RingBufferAssumption DEF Slot
<1>2. CASE i = RbLen - 1
  BY <1>1, <1>2 DEF Successor, Slot
<1>3. CASE i < RbLen - 1
  BY <1>1, <1>3 DEF Successor, Slot
<1>4. QED
  BY <1>1, <1>2, <1>3

(* Less than one turn of the buffer, a position past the last slot names   *)
(* the slot one length below it.                                           *)
LEMMA PositionWraps ==
  ASSUME NEW p \in 0 .. 2 * RbLen - 1
  PROVE  p % RbLen = IF p < RbLen THEN p ELSE p - RbLen
<1>1. RbLen \in Nat /\ RbLen > 0
  BY RingBufferAssumption
<1>2. CASE p < RbLen
  BY <1>1, <1>2
<1>3. CASE p >= RbLen
  BY <1>1, <1>3
<1>4. QED
  BY <1>1, <1>2, <1>3

(* Span counts the slots between two positions: none when they are equal,  *)
(* one more when the front advances, one less when the back does, and all  *)
(* but one when the front is just behind the back.                         *)
LEMMA SpanCounts ==
  ASSUME NEW t \in Slot, NEW h \in Slot
  PROVE  /\ Span(t, h) \in 0 .. RbLen - 1
         /\ Span(t, h) = 0 <=> t = h
         /\ Successor(h) = t <=> Span(t, h) = RbLen - 1
         /\ Successor(h) # t => Span(t, Successor(h)) = Span(t, h) + 1
         /\ t # h => Span(Successor(t), h) = Span(t, h) - 1
<1>1. RbLen \in Nat /\ RbLen >= 2
  BY RingBufferAssumption
<1>2. QED
  BY <1>1, SuccessorWraps DEF Span, Slot

(* In uint32_t arithmetic too, the difference of two positions modulo the  *)
(* length is their distance, because the length divides the word.          *)
LEMMA DistanceIsSpan ==
  ASSUME NEW t \in Slot, NEW h \in Slot
  PROVE  Distance(h, t) = Span(t, h)
<1>1. RbLen \in Nat /\ RbLen >= 2 /\ Word \in Nat
  BY RingBufferAssumption
<1>2. PICK k \in 1 .. Word : Word = k * RbLen
  BY RingBufferAssumption
<1>3. Word >= RbLen
  BY <1>1, <1>2
<1>4. CASE t <= h
  <2>1. h - t \in 0 .. RbLen - 1
    BY <1>1, <1>4 DEF Slot
  <2>2. (h - t) % Word = h - t
    BY <2>1, <1>1, <1>3
  <2>3. QED
    BY <2>1, <2>2, <1>1, <1>4 DEF Distance, Span
<1>5. CASE h < t
  <2>1. h - t \in -(RbLen - 1) .. -1 /\ RbLen - t + h \in 0 .. RbLen - 1
    BY <1>1, <1>5 DEF Slot
  <2>2. (h - t) % Word = (h - t) + Word
    BY <2>1, <1>1, <1>3
  <2>3. (h - t) + Word = (k - 1) * RbLen + (RbLen - t + h)
    BY <1>1, <1>2, <2>1 DEF Slot
  <2>4. ((k - 1) * RbLen + (RbLen - t + h)) % RbLen = RbLen - t + h
    <3> DEFINE q == k - 1
               r == RbLen - t + h
    <3>1. q \in Int /\ r \in 0 .. RbLen - 1
      BY <1>2, <2>1
    <3> HIDE DEF q, r
    <3>2. (q * RbLen + r) % RbLen = r
      BY <1>1, <3>1
    <3>3. QED
      BY <3>2 DEF q, r
  <2>5. QED
    BY <2>2, <2>3, <2>4, <1>1, <1>5 DEF Distance, Span, Slot
<1>6. QED
  BY <1>1, <1>4, <1>5 DEF Slot

-----------------------------------------------------------------------------
(* Safety of the slot and of the count.                                    *)

(* Every variable keeps its type: both positions stay inside the buffer.   *)
THEOREM TypeCorrect == Spec => []TypeOK
<1>1. Init => TypeOK
  BY RingBufferAssumption DEF Init, TypeOK, Slot
<1>2. TypeOK /\ [Next]_vars => TypeOK'
  <2> SUFFICES ASSUME TypeOK, [Next]_vars
               PROVE  TypeOK'
    OBVIOUS
  <2> USE DEF TypeOK
  <2>1. ASSUME NEW c \in Char, Put(c) PROVE TypeOK'
    BY <2>1, SuccessorWraps DEF Put
  <2>2. CASE GetTest
    BY <2>2 DEF GetTest
  <2>3. CASE GetRead
    BY <2>3 DEF GetRead
  <2>4. CASE GetAdvance
    BY <2>4, SuccessorWraps DEF GetAdvance
  <2>5. CASE AvailHead
    BY <2>5 DEF AvailHead
  <2>6. CASE AvailReturn
    <3>1. Distance(hd, tail) \in Slot
      BY DistanceIsSpan, SpanCounts DEF Slot
    <3>2. QED
      BY <2>6, <3>1 DEF AvailReturn
  <2>7. CASE UNCHANGED vars
    BY <2>7 DEF vars
  <2>8. QED
    BY <2>1, <2>2, <2>3, <2>4, <2>5, <2>6, <2>7 DEF Next, Get, Avail
<1>3. QED
  BY <1>1, <1>2, PTL DEF Spec

(* The inductive invariant: the two safety invariants need no more than    *)
(* each other and the types.                                               *)
IInv == TypeOK /\ SlotIsSafe /\ AvailNeverOverstates

LEMMA IInvInit == Init => IInv
BY RingBufferAssumption DEF Init, IInv, TypeOK, Slot, SlotIsSafe, AvailNeverOverstates

(* An interrupt never shrinks the content and never writes the slot that   *)
(* the task is working on.                                                 *)
LEMMA PutKeeps ==
  ASSUME IInv, NEW c \in Char, Put(c)
  PROVE  /\ Count' >= Count
         /\ Count > 0 => buffer'[tail] = buffer[tail]
<1>1. head \in Slot /\ tail \in Slot /\ RbLen \in Nat /\ tail' = tail
  BY RingBufferAssumption DEF IInv, TypeOK, Put
<1>2. CASE IsFull
  BY <1>1, <1>2, SpanCounts DEF Put, Count
<1>3. CASE ~IsFull
  <2>1. /\ head' = Successor(head)
        /\ buffer' = [buffer EXCEPT ![head] = c]
    BY <1>3 DEF Put
  <2>2. Count' = Count + 1 /\ Count \in Nat
    BY <1>1, <1>3, <2>1, SpanCounts DEF Count, IsFull
  <2>3. Count > 0 => head # tail
    BY <1>1, SpanCounts DEF Count
  <2>4. QED
    BY <1>1, <2>1, <2>2, <2>3 DEF IInv, TypeOK
<1>4. QED
  BY <1>2, <1>3

LEMMA IInvStep == IInv /\ TypeOK' /\ [Next]_vars => IInv'
<1> SUFFICES ASSUME IInv, TypeOK', [Next]_vars
             PROVE  SlotIsSafe' /\ AvailNeverOverstates'
  BY DEF IInv
<1>0. /\ head \in Slot /\ tail \in Slot /\ hd \in Slot
      /\ buffer \in [Slot -> Char]
      /\ RbLen \in Nat /\ RbLen >= 2
  BY RingBufferAssumption DEF IInv, TypeOK
<1>c. Count \in Nat
  BY <1>0, SpanCounts DEF Count, Slot
<1>1. ASSUME NEW c \in Char, Put(c)
      PROVE  SlotIsSafe' /\ AvailNeverOverstates'
  <2>1. tail' = tail /\ pc' = pc /\ chr' = chr /\ hd' = hd
    BY <1>1 DEF Put
  <2>2. Count' \in Nat
    BY SpanCounts DEF Count, TypeOK, Slot
  <2>3. SlotIsSafe'
    BY <1>1, <1>c, <2>1, <2>2, PutKeeps DEF IInv, SlotIsSafe
  <2>4. pc = "avail" => Distance(hd, tail) <= Count
    BY DEF IInv, AvailNeverOverstates
  <2>5. Distance(hd, tail) \in Nat
    BY <1>0, DistanceIsSpan, SpanCounts DEF Slot
  <2>6. AvailNeverOverstates'
    BY <1>1, <1>c, <2>1, <2>2, <2>4, <2>5, PutKeeps DEF AvailNeverOverstates
  <2>7. QED
    BY <2>3, <2>6
<1>2. CASE GetTest
  <2>1. pc' \in {"ready", "read"} /\ Count' = Count
    BY <1>2 DEF GetTest, Count
  <2>2. pc' = "read" => Count > 0
    BY <1>0, <1>c, <1>2, SpanCounts DEF GetTest, IsEmpty, Count
  <2>3. QED
    BY <2>1, <2>2 DEF SlotIsSafe, AvailNeverOverstates
<1>3. CASE GetRead
  BY <1>0, <1>3 DEF GetRead, SlotIsSafe, AvailNeverOverstates, Count, IInv, TypeOK
<1>4. CASE GetAdvance
  BY <1>4 DEF GetAdvance, SlotIsSafe, AvailNeverOverstates
<1>5. CASE AvailHead
  BY <1>0, <1>5, DistanceIsSpan, SpanCounts
  DEF AvailHead, SlotIsSafe, AvailNeverOverstates, Count, Slot
<1>6. CASE AvailReturn
  BY <1>6 DEF AvailReturn, SlotIsSafe, AvailNeverOverstates
<1>7. CASE UNCHANGED vars
  BY <1>7 DEF vars, IInv, SlotIsSafe, AvailNeverOverstates, Count
<1>8. QED
  BY <1>1, <1>2, <1>3, <1>4, <1>5, <1>6, <1>7 DEF Next, Get, Avail

LEMMA IInvInvariant == Spec => []IInv
<1>1. QED
  BY IInvInit, IInvStep, TypeCorrect, PTL DEF Spec

(* No interrupt empties or overwrites the slot that ring_buffer_get has    *)
(* found occupied, between its test and its advance of tail.               *)
THEOREM SlotSafety == Spec => []SlotIsSafe
<1>1. IInv => SlotIsSafe
  BY DEF IInv
<1>2. QED
  BY <1>1, IInvInvariant, PTL

(* ring_buffer_avail never announces more characters than there are.       *)
THEOREM AvailSafety == Spec => []AvailNeverOverstates
<1>1. IInv => AvailNeverOverstates
  BY DEF IInv
<1>2. QED
  BY <1>1, IInvInvariant, PTL

-----------------------------------------------------------------------------
(* The ring buffer implements the bounded queue.                           *)

(* The content is a sequence of characters, one per occupied slot.         *)
ContentFacts ==
  /\ Content \in Seq(Char)
  /\ Len(Content) = Count
  /\ Count \in 0 .. RbLen - 1
  /\ \A i \in 1 .. Count : Content[i] = buffer[(tail + i - 1) % RbLen]

LEMMA ContentType == TypeOK => ContentFacts
<1> SUFFICES ASSUME TypeOK PROVE ContentFacts
  OBVIOUS
<1>1. /\ RbLen \in Nat /\ RbLen >= 2
      /\ tail \in Slot /\ head \in Slot /\ buffer \in [Slot -> Char]
  BY RingBufferAssumption DEF TypeOK
<1>2. Count \in 0 .. RbLen - 1
  BY <1>1, SpanCounts DEF Count
<1>3. ASSUME NEW i \in 1 .. Count
      PROVE  (tail + i - 1) % RbLen \in Slot
  <2>1. tail + i - 1 \in 0 .. 2 * RbLen - 1
    BY <1>1, <1>2 DEF Slot
  <2>2. QED
    BY <1>1, <2>1, PositionWraps DEF Slot
<1>4. \A i \in 1 .. Count : buffer[(tail + i - 1) % RbLen] \in Char
  BY <1>1, <1>3
<1>5. QED
  BY <1>2, <1>4 DEF Content, ContentFacts

LEMMA ContentTypeNext == TypeOK' => ContentFacts'
BY ContentType, PTL

LEMMA InitRefines == Init => Fifo!Init
<1> SUFFICES ASSUME Init PROVE Fifo!Init
  OBVIOUS
<1>1. TypeOK
  BY RingBufferAssumption DEF Init, TypeOK, Slot
<1>2. Count = 0
  BY RingBufferAssumption DEF Init, Count, Span
<1>3. Content = <<>>
  BY <1>1, <1>2, ContentType DEF ContentFacts
<1>4. QED
  BY <1>3 DEF Init, Fifo!Init

(* A put appends the character, or loses it when the queue is full.        *)
LEMMA PutRefines ==
  ASSUME TypeOK, TypeOK', NEW c \in Char, Put(c)
  PROVE  Fifo!Put(c)
<1>1. /\ RbLen \in Nat /\ RbLen >= 2
      /\ tail \in Slot /\ head \in Slot /\ buffer \in [Slot -> Char]
  BY RingBufferAssumption DEF TypeOK
<1>2. tail' = tail /\ ret' = ret
  BY DEF Put
<1>3. CASE IsFull
  <2>1. Len(Content) = RbLen - 1
    BY <1>1, <1>3, SpanCounts, ContentType DEF IsFull, Count, ContentFacts
  <2>2. Content' = Content
    BY <1>2, <1>3 DEF Put, Content, Count
  <2>3. QED
    BY <1>1, <1>2, <2>1, <2>2 DEF Fifo!Put
<1>4. CASE ~IsFull
  <2>1. /\ head' = Successor(head)
        /\ buffer' = [buffer EXCEPT ![head] = c]
    BY <1>4 DEF Put
  <2>2. /\ Count \in 0 .. RbLen - 2
        /\ Count' = Count + 1
        /\ Len(Content) < RbLen - 1
    BY <1>1, <1>2, <1>4, <2>1, SpanCounts, ContentType DEF Count, IsFull, ContentFacts
  <2>3. (tail + Count) % RbLen = head
    <3>1. tail + Count \in 0 .. 2 * RbLen - 1
      BY <1>1, <2>2 DEF Slot
    <3>2. QED
      BY <1>1, <3>1, PositionWraps DEF Count, Span, Slot
  <2>4. ASSUME NEW i \in 1 .. Count
        PROVE  /\ (tail + i - 1) % RbLen \in Slot
               /\ (tail + i - 1) % RbLen # head
    <3> DEFINE p == tail + i - 1
    <3>1. p \in 0 .. 2 * RbLen - 1
      BY <1>1, <2>2 DEF Slot
    <3>2. CASE tail <= head
      BY <1>1, <3>1, <3>2 DEF Count, Span, Slot
    <3>3. CASE head < tail
      <4>1. p < RbLen + head /\ p >= tail
        BY <1>1, <2>2, <3>3 DEF Count, Span, Slot
      <4> HIDE DEF p
      <4>2. p % RbLen = IF p < RbLen THEN p ELSE p - RbLen
        BY <3>1, PositionWraps
      <4>3. p % RbLen \in Slot /\ p % RbLen # head
        BY <1>1, <3>1, <3>3, <4>1, <4>2 DEF Slot
      <4>4. QED
        BY <4>3 DEF p
    <3>4. QED
      BY <1>1, <3>2, <3>3 DEF Slot
  <2>5. Content' = [i \in 1 .. Count + 1 |-> buffer'[(tail + i - 1) % RbLen]]
    BY <1>2, <2>2 DEF Content
  <2>6. ASSUME NEW i \in 1 .. Count + 1
        PROVE  Content'[i] = IF i = Count + 1 THEN c ELSE Content[i]
    <3>1. CASE i = Count + 1
      <4>1. tail + i - 1 = tail + Count
        BY <1>1, <2>2, <3>1 DEF Slot
      <4>2. QED
        BY <1>1, <2>1, <2>3, <2>5, <3>1, <4>1
    <3>2. CASE i \in 1 .. Count
      BY <1>1, <2>1, <2>2, <2>4, <2>5, <3>2, ContentType DEF ContentFacts
    <3>3. QED
      BY <2>2, <3>1, <3>2
  <2>7. Content' = Append(Content, c)
    <3>1. /\ Content \in Seq(Char) /\ Len(Content) = Count
          /\ Content' \in Seq(Char) /\ Len(Content') = Count + 1
      BY <2>2, ContentType, ContentTypeNext DEF ContentFacts
    <3>2. /\ Append(Content, c) \in Seq(Char)
          /\ Len(Append(Content, c)) = Count + 1
          /\ \A i \in 1 .. Count + 1 :
               Append(Content, c)[i] = IF i = Count + 1 THEN c ELSE Content[i]
      BY <2>2, <3>1, AppendProperties
    <3>3. \A i \in 1 .. Len(Content') : Content'[i] = Append(Content, c)[i]
      BY <2>6, <3>1, <3>2
    <3>4. QED
      BY <3>1, <3>2, <3>3, SeqEqual
  <2>8. QED
    BY <1>2, <2>2, <2>7 DEF Fifo!Put
<1>5. QED
  BY <1>3, <1>4

(* The advance of tail removes the oldest character and returns it.        *)
LEMMA GetAdvanceRefines ==
  ASSUME IInv, TypeOK', GetAdvance
  PROVE  Fifo!Get
<1>1. /\ RbLen \in Nat /\ RbLen >= 2 /\ TypeOK
      /\ tail \in Slot /\ head \in Slot /\ buffer \in [Slot -> Char]
  BY RingBufferAssumption DEF IInv, TypeOK
<1>2. /\ tail' = Successor(tail) /\ ret' = chr
      /\ head' = head /\ buffer' = buffer
  BY DEF GetAdvance
<1>3. Count > 0 /\ buffer[tail] = chr
  BY DEF IInv, SlotIsSafe, GetAdvance
<1>4. Count \in 1 .. RbLen - 1 /\ Count' = Count - 1
  BY <1>1, <1>2, <1>3, SpanCounts, ContentType DEF Count, ContentFacts
<1>5. Content # <<>> /\ Head(Content) = ret'
  <2>1. tail % RbLen = tail /\ tail + 1 - 1 = tail
    BY <1>1 DEF Slot
  <2>2. Len(Content) > 0 /\ Content[1] = buffer[tail]
    BY <1>1, <1>4, <2>1, ContentType DEF ContentFacts
  <2>3. QED
    BY <1>1, <1>2, <1>3, <2>2, ContentType DEF ContentFacts
<1>6. Content' = [i \in 1 .. Count - 1 |-> buffer[(Successor(tail) + i - 1) % RbLen]]
  BY <1>2, <1>4 DEF Content
<1>7. ASSUME NEW i \in 1 .. Count - 1
      PROVE  Content'[i] = Content[i + 1]
  <2>1. tail + i \in 0 .. 2 * RbLen - 1 /\ tail + (i + 1) - 1 = tail + i
    BY <1>1, <1>4 DEF Slot
  <2>2. (Successor(tail) + i - 1) % RbLen = (tail + i) % RbLen
    <3>1. CASE tail = RbLen - 1
      <4>1. Successor(tail) + i - 1 = i - 1 /\ i - 1 \in 0 .. 2 * RbLen - 1
        BY <1>1, <1>4, <3>1, SuccessorWraps
      <4>2. QED
        BY <1>1, <1>4, <2>1, <3>1, <4>1, PositionWraps
    <3>2. CASE tail # RbLen - 1
      <4>1. Successor(tail) = tail + 1
        BY <1>1, <3>2, SuccessorWraps
      <4>2. Successor(tail) + i - 1 = tail + i
        BY <1>1, <1>4, <4>1 DEF Slot
      <4>3. QED
        BY <4>2
    <3>3. QED
      BY <3>1, <3>2
  <2>3. QED
    BY <1>1, <1>4, <1>6, <2>1, <2>2, ContentType DEF ContentFacts
<1>8. Content' = Tail(Content)
  <2>1. /\ Content \in Seq(Char) /\ Len(Content) = Count
        /\ Content' \in Seq(Char) /\ Len(Content') = Count - 1
    BY <1>1, <1>4, ContentType, ContentTypeNext DEF ContentFacts
  <2>2. /\ Tail(Content) \in Seq(Char) /\ Len(Tail(Content)) = Count - 1
        /\ \A i \in 1 .. Count - 1 : Tail(Content)[i] = Content[i + 1]
    BY <1>5, <2>1, HeadTailProperties
  <2>3. \A i \in 1 .. Len(Content') : Content'[i] = Tail(Content)[i]
    BY <1>7, <2>1, <2>2
  <2>4. QED
    BY <2>1, <2>2, <2>3, SeqEqual
<1>9. QED
  BY <1>2, <1>5, <1>8 DEF Fifo!Get

LEMMA StepRefines ==
  IInv /\ TypeOK' /\ [Next]_vars => [Fifo!Next]_(Fifo!vars)
<1> SUFFICES ASSUME IInv, TypeOK', [Next]_vars
             PROVE  [Fifo!Next]_(Fifo!vars)
  OBVIOUS
<1>1. TypeOK
  BY DEF IInv
<1>2. ASSUME NEW c \in Char, Put(c)
      PROVE  Fifo!Next
  BY <1>1, <1>2, PutRefines DEF Fifo!Next
<1>3. CASE GetTest
  <2>1. Content' = Content
    BY <1>3 DEF GetTest, Content, Count
  <2>2. CASE IsEmpty
    <3>1. Count = 0
      BY <1>1, <2>2, SpanCounts DEF IsEmpty, Count, TypeOK
    <3>2. Content = <<>>
      BY <1>1, <3>1, ContentType DEF ContentFacts
    <3>3. QED
      BY <1>3, <2>1, <2>2, <3>2 DEF GetTest, Fifo!Next, Fifo!Get
  <2>3. CASE ~IsEmpty
    BY <1>3, <2>1, <2>3 DEF GetTest, Fifo!vars
  <2>4. QED
    BY <2>2, <2>3
<1>4. CASE GetRead
  BY <1>4 DEF GetRead, Content, Count, Fifo!vars
<1>5. CASE GetAdvance
  BY <1>5, GetAdvanceRefines DEF Fifo!Next
<1>6. CASE AvailHead
  BY <1>6 DEF AvailHead, Content, Count, Fifo!vars
<1>7. CASE AvailReturn
  <2>1. Content' = Content /\ ret' = Distance(hd, tail)
    BY <1>7 DEF AvailReturn, Content, Count
  <2>2. Distance(hd, tail) \in 0 .. Len(Content)
    BY <1>1, <1>7, DistanceIsSpan, SpanCounts, ContentType
    DEF AvailReturn, IInv, AvailNeverOverstates, TypeOK, ContentFacts
  <2>3. QED
    BY <2>1, <2>2 DEF Fifo!Next, Fifo!Avail
<1>8. CASE UNCHANGED vars
  BY <1>8 DEF vars, Content, Count, Fifo!vars
<1>9. QED
  BY <1>2, <1>3, <1>4, <1>5, <1>6, <1>7, <1>8 DEF Next, Get, Avail

(* Whatever the interleaving of the interrupt and the task, the buffer     *)
(* behaves as a queue of RbLen - 1 characters: first in, first out, none   *)
(* lost before it is full, none invented, none delivered twice.            *)
THEOREM Refinement == Spec => FifoSpec
<1>1. QED
  BY InitRefines, StepRefines, IInvInvariant, TypeCorrect, PTL
  DEF Spec, FifoSpec, Fifo!Spec

=============================================================================
