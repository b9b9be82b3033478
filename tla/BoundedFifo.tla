---------------------------- MODULE BoundedFifo ----------------------------
(***************************************************************************)
(* What the serial ring buffer promises its two users, the UART interrupt  *)
(* (one producer) and the console task (one consumer): a queue of at most  *)
(* Capacity characters that loses a character only when it is full, hands  *)
(* the rest over in the order they arrived, reports "empty" only when it   *)
(* was empty, and never announces more characters than it holds.           *)
(***************************************************************************)
EXTENDS Naturals, Sequences

CONSTANTS
  Char,      \* the characters that can be received
  Capacity,  \* how many of them the queue holds
  EmptyError \* what a get on an empty queue returns

VARIABLES
  queue,     \* the characters held, oldest first
  ret        \* what the consumer's last call returned

vars == <<queue, ret>>

TypeOK ==
  /\ queue \in Seq(Char)
  /\ Len(queue) <= Capacity
  /\ ret \in Char \cup Nat \cup {EmptyError}

Init ==
  /\ queue = <<>>
  /\ ret = EmptyError

\* The producer adds a character; a full queue loses it.
Put(c) ==
  /\ queue' = IF Len(queue) < Capacity THEN Append(queue, c) ELSE queue
  /\ UNCHANGED ret

\* The consumer takes the oldest character, or is told that there is none.
Get ==
  \/ /\ queue # <<>>
     /\ queue' = Tail(queue)
     /\ ret' = Head(queue)
  \/ /\ queue = <<>>
     /\ ret' = EmptyError
     /\ UNCHANGED queue

\* The consumer asks how many characters it can take: the answer may be
\* outdated by new arrivals, and so too low, but never too high.
Avail ==
  /\ ret' \in 0 .. Len(queue)
  /\ UNCHANGED queue

Next ==
  \/ \E c \in Char : Put(c)
  \/ Get
  \/ Avail

Spec == Init /\ [][Next]_vars
=============================================================================
