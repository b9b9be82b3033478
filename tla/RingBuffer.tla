----------------------------- MODULE RingBuffer -----------------------------
(***************************************************************************)
(* src/shell/ring_buffer.c with the two contexts that use it.  The UART    *)
(* interrupt calls ring_buffer_put and runs to completion between two      *)
(* steps of the console task; the task's ring_buffer_get and               *)
(* ring_buffer_avail take one step per access to shared memory, so an      *)
(* interrupt may arrive between any two of them.  head is written by the   *)
(* interrupt alone, tail by the task alone; both are volatile, and the     *)
(* target has a single core, so accesses happen in program order.          *)
(***************************************************************************)
EXTENDS Integers, Sequences

CONSTANTS
  Char,      \* the characters that can be received
  Nul,       \* the character 0, in static storage before anything is received
  RbLen,     \* rb->len, SERIAL_BUFFER_SIZE
  Word,      \* 2^32: head, tail and len are uint32_t
  EmptyError \* RING_BUFFER_EMPTY_ERROR

(* len is a power of two, so it divides the range of uint32_t: the         *)
(* subtraction in ring_buffer_avail relies on it.                          *)
ASSUME RingBufferAssumption ==
  /\ RbLen \in Nat /\ RbLen >= 2
  /\ Word \in Nat
  /\ \E k \in 1 .. Word : Word = k * RbLen
  /\ Nul \in Char
  /\ EmptyError \notin Char \cup Nat

VARIABLES
  buffer,    \* rb->buffer
  head,      \* rb->head, the next slot to fill
  tail,      \* rb->tail, the next slot to empty
  pc,        \* where the console task is
  hd,        \* the local copy of head in ring_buffer_avail
  chr,       \* *c in ring_buffer_get
  ret        \* what the task's last call returned

vars == <<buffer, head, tail, pc, hd, chr, ret>>

Slot == 0 .. RbLen - 1
\* Mutant of Successor: the wrap at the end of the buffer is forgotten.
SuccessorUnwrapped(i) == i + 1

Successor(i) == (i + 1) % RbLen

\* RING_BUFFER_DEF and retarget_io_init, which enables the interrupt last.
Init ==
  /\ buffer = [i \in Slot |-> Nul]
  /\ head = 0
  /\ tail = 0
  /\ pc = "ready"
  /\ hd = 0
  /\ chr = Nul
  /\ ret = EmptyError

-----------------------------------------------------------------------------
(* The interrupt.                                                          *)

\* Mutant of IsFull: full only when every slot is taken, so that the last
\* character fills the slot that tells full from empty.
IsFullLate == head + 1 = tail

IsFull == Successor(head) = tail

\* ring_buffer_put, called by UART_Isr, which ignores the full error.
Put(c) ==
  /\ IF IsFull
     THEN UNCHANGED <<buffer, head>>
     ELSE /\ buffer' = [buffer EXCEPT ![head] = c]
          /\ head' = Successor(head)
  /\ UNCHANGED <<tail, pc, hd, chr, ret>>

-----------------------------------------------------------------------------
(* The task.                                                               *)

\* Mutant of IsEmpty: the last character is held back.
IsEmptyEarly == head = tail \/ Successor(tail) = head

IsEmpty == head = tail

\* ring_buffer_get: the emptiness test, whose one access that can be
\* overtaken is the read of head.
GetTest ==
  /\ pc = "ready"
  /\ IF IsEmpty
     THEN ret' = EmptyError /\ UNCHANGED pc
     ELSE pc' = "read" /\ UNCHANGED ret
  /\ UNCHANGED <<buffer, head, tail, hd, chr>>

\* ring_buffer_get: *c = rb->buffer[rb->tail].
GetRead ==
  /\ pc = "read"
  /\ chr' = buffer[tail]
  /\ pc' = "advance"
  /\ UNCHANGED <<buffer, head, tail, hd, ret>>

\* ring_buffer_get: rb->tail = (rb->tail + 1) % rb->len and the return.
GetAdvance ==
  /\ pc = "advance"
  /\ tail' = Successor(tail)
  /\ ret' = chr
  /\ pc' = "ready"
  /\ UNCHANGED <<buffer, head, hd, chr>>

Get == GetTest \/ GetRead \/ GetAdvance

\* Mutant of Distance: the operands are swapped.
DistanceBackward(h, t) == ((t - h) % Word) % RbLen

\* The value ring_buffer_avail computes, in uint32_t arithmetic.
Distance(h, t) == ((h - t) % Word) % RbLen

\* ring_buffer_avail: the copy of head.
AvailHead ==
  /\ pc = "ready"
  /\ hd' = head
  /\ pc' = "avail"
  /\ UNCHANGED <<buffer, head, tail, chr, ret>>

\* ring_buffer_avail: the copy of tail and the return.
AvailReturn ==
  /\ pc = "avail"
  /\ ret' = Distance(hd, tail)
  /\ pc' = "ready"
  /\ UNCHANGED <<buffer, head, tail, hd, chr>>

Avail == AvailHead \/ AvailReturn

Next ==
  \/ \E c \in Char : Put(c)
  \/ Get
  \/ Avail

Spec == Init /\ [][Next]_vars

-----------------------------------------------------------------------------
(* Properties.                                                             *)

TypeOK ==
  /\ buffer \in [Slot -> Char]
  /\ head \in Slot
  /\ tail \in Slot
  /\ pc \in {"ready", "read", "advance", "avail"}
  /\ hd \in Slot
  /\ chr \in Char
  /\ ret \in Char \cup Slot \cup {EmptyError}

\* How many slots lie between position t and position h going forward.
Span(t, h) == IF t <= h THEN h - t ELSE RbLen - t + h

Count == Span(tail, head)

\* The characters in the buffer, oldest first.
Content == [i \in 1 .. Count |-> buffer[(tail + i - 1) % RbLen]]

(* While the task is between its emptiness test and the advance of tail,   *)
(* the slot it works on stays occupied, and once read it still holds the   *)
(* character that was read: no interrupt empties or overwrites it.         *)
SlotIsSafe ==
  /\ pc \in {"read", "advance"} => Count > 0
  /\ pc = "advance" => buffer[tail] = chr

(* ring_buffer_avail never returns more than the number of characters      *)
(* stored, although a put may come between its copies of head and tail:    *)
(* the shell calls getchar when the result is above zero (shell.c:111,     *)
(* :207) and must find a character.  The comment of the function           *)
(* (ring_buffer.c:89, :95) disagrees with code and callers: it calls the   *)
(* result the available space, which is RbLen - 1 in an empty buffer,      *)
(* where the code returns 0.                                               *)
AvailNeverOverstates ==
  pc = "avail" => Distance(hd, tail) <= Count

(* The buffer implements the bounded queue of its capacity.                *)
Fifo == INSTANCE BoundedFifo
          WITH queue <- Content, Capacity <- RbLen - 1

FifoSpec == Fifo!Spec

=============================================================================
