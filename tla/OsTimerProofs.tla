--------------------------- MODULE OsTimerProofs ----------------------------
(***************************************************************************)
(* Proofs about OsTimer, for any threads and priorities, any periods of at *)
(* least a tick, any queue, any delay of the timer task and any width of   *)
(* the clock.                                                              *)
(***************************************************************************)
EXTENDS OsTimer, TLAPS

HandleType == [exists : BOOLEAN, runs : BOOLEAN, period : Nat]

TypeInv ==
  /\ timer \in [allocated : BOOLEAN, us : Us]
  /\ pc \in [Thread -> {"idle", "send", "return"}]
  /\ call \in [Thread -> Command]
  /\ queue \in Seq(Command) /\ Len(queue) <= QueueLength
  /\ handle \in HandleType /\ \E us \in Us : handle.period = Ticks(us)
  /\ left \in Int /\ left >= - MaxLate
  /\ task \in {"wait", "callback", "commands"}
  /\ last \in Command
  /\ since \in Nat /\ span \in Nat
  /\ tick \in 0 .. Modulus - 1

\* The command sent last is the last in the queue, or has been carried out.
QueueInv ==
  /\ queue # <<>> => queue[Len(queue)] = last
  /\ queue = <<>> =>
       /\ last.op \in {"stop", "delete"} => ~ handle.runs
       /\ last.op = "delete" => ~ handle.exists
       /\ last.op = "start" => handle.period = Ticks(last.us)

\* When an owner below the timer task is back from stopping the timer, it has
\* stopped.
StopInv ==
  Owner \in Below /\ pc[Owner] = "idle" /\ last.op = "stop" =>
    queue = <<>> /\ task = "wait" /\ ~ handle.runs

\* Nobody uses the timer while it is destroyed, and, if its owner is below the
\* timer task, nothing when it is freed.
DeleteInv ==
  /\ \A t \in Other : pc[t] # "idle" => call[t].op = "start"
  /\ pc[Owner] # "idle" /\ call[Owner].op = "delete" => \A t \in Other : pc[t] = "idle"
  /\ pc[Owner] = "return" /\ call[Owner].op = "delete" => last.op = "delete"
  /\ Owner \in Below /\ ~ timer.allocated => ~ handle.exists /\ task # "callback"

\* What has passed of the period and what is left of it make up the period.
SpanInv ==
  /\ handle.runs => since + left = handle.period
  /\ task = "callback" /\ queue = <<>> /\ last.op = "start" => span = Ticks(last.us)

IInv == TypeInv /\ QueueInv /\ StopInv /\ DeleteInv /\ SpanInv

-----------------------------------------------------------------------------
(* Ticks and time.                                                         *)

LEMMA Quotient ==
  ASSUME NEW x \in Nat, NEW d \in Nat \ {0}
  PROVE  x \div d \in Nat /\ (x \div d) * d <= x /\ x < (x \div d) * d + d
OBVIOUS

LEMMA Times ==
  ASSUME NEW x \in Nat, NEW y \in Nat, NEW d \in Nat, x <= y
  PROVE  x * d <= y * d
<1> DEFINE z == y - x
<1>1. z \in Nat /\ y = x + z
  OBVIOUS
<1> HIDE DEF z
<1>2. y * d = x * d + z * d
  BY <1>1
<1>3. x * d \in Int /\ z * d \in Nat
  BY <1>1
<1> QED
  BY <1>2, <1>3

LEMMA Distribute ==
  ASSUME NEW x \in Int, NEW y \in Int, NEW z \in Int, NEW d \in Int
  PROVE  (x - y - z) * d = x * d - y * d - z * d
<1> DEFINE v == x - y
           w == v - z
<1>1. v \in Int /\ w \in Int /\ x = v + y /\ v = w + z
  OBVIOUS
<1> HIDE DEF v, w
<1>2. x * d = v * d + y * d /\ v * d = w * d + z * d
  BY <1>1
<1>3. x * d \in Int /\ y * d \in Int /\ z * d \in Int /\ v * d \in Int /\ w * d \in Int
  BY <1>1
<1>4. w * d = x * d - y * d - z * d
  BY <1>2, <1>3
<1> QED
  BY <1>4 DEF v, w

LEMMA DivMod ==
  ASSUME NEW x \in Int, NEW d \in Nat \ {0}
  PROVE  x = (x \div d) * d + (x % d) /\ x % d \in 0 .. d - 1 /\ x \div d \in Int
BY SMTT(20)

LEMMA Remainder ==
  ASSUME NEW x \in Int, NEW d \in Nat \ {0}, NEW q \in Int, NEW r \in 0 .. d - 1,
         x = q * d + r
  PROVE  x % d = r
OBVIOUS

\* Dividing by the tick in two steps rounds down to a tick.
LEMMA TicksRound ==
  ASSUME NEW us \in Us
  PROVE  /\ Ticks(us) \in Nat
         /\ Ticks(us) * UsPerTick <= us /\ us < (Ticks(us) + 1) * UsPerTick
<1> DEFINE a == MsPerTick
           b == UsPerMs
           q == us \div a
           n == q \div b
<1>1. a \in Nat \ {0} /\ b \in Nat \ {0} /\ us \in Nat
  BY OsTimerAssumption
<1>2. q \in Nat /\ q * a <= us /\ us < q * a + a
  BY <1>1, Quotient
<1> HIDE DEF a, b, q
<1>3. n \in Nat /\ n * b <= q /\ q < n * b + b
  BY <1>1, <1>2, Quotient
<1> HIDE DEF n
<1>4. n * b \in Nat /\ n * b + b \in Nat /\ q + 1 \in Nat /\ q + 1 <= n * b + b
  BY <1>1, <1>2, <1>3
<1>5. (n * b) * a <= q * a /\ (q + 1) * a <= (n * b + b) * a
  BY <1>1, <1>2, <1>3, <1>4, Times
<1>6. (n * b) * a = n * (b * a) /\ (n * b + b) * a = (n + 1) * (b * a) /\ (q + 1) * a = q * a + a
  BY <1>1, <1>2, <1>3
<1>7. n * (b * a) <= us /\ us < (n + 1) * (b * a)
  BY <1>1, <1>2, <1>3, <1>5, <1>6
<1> QED
  BY <1>3, <1>7 DEF Ticks, UsPerTick, n, q, a, b

\* The difference of two times is what has passed, though each has wrapped.
LEMMA TimesDiffer ==
  ASSUME MsPerTick = 1, NEW t \in Nat, NEW elapsed \in Nat,
         UsPerTick * elapsed \in 0 .. Modulus - 1
  PROVE  (os_get_current_time_us((t + elapsed) % Modulus) - os_get_current_time_us(t)) % Modulus
           = UsPerTick * elapsed
<1> DEFINE M == Modulus
           u == UsPerMs
           later == (t + elapsed) % M
           k == (t + elapsed) \div M
           a == u * later
           b == u * t
           m == a \div M
           n == b \div M
           e == u * elapsed
<1>1. M \in Nat \ {0} /\ u \in Nat \ {0} /\ t \in Int /\ elapsed \in Int /\ t + elapsed \in Int
  BY OsTimerAssumption
<1>2. UsPerTick = u
  BY <1>1 DEF UsPerTick
<1>3. e \in 0 .. M - 1
  BY <1>2
<1>4. later \in 0 .. M - 1
  BY <1>1, DivMod
<1>5. /\ os_get_current_time_us(later) = a % M
      /\ os_get_current_time_us(t) = b % M
  <2>1. later \div 1 = later /\ t \div 1 = t
    BY <1>1, <1>4
  <2> QED
    BY <2>1 DEF os_get_current_time_us
<1> HIDE DEF M, u
<1>6. k \in Int /\ t + elapsed = k * M + later
  BY <1>1, DivMod
<1> HIDE DEF later, k
<1>7. a \in Int /\ b \in Int /\ e \in Int /\ later \in Int
  BY <1>1, <1>4
<1>8. a = b + e - (u * k) * M
  BY <1>1, <1>6, <1>7
<1> HIDE DEF a, b, e
<1>9. m \in Int /\ a % M \in Int /\ a = m * M + (a % M)
  <2>1. a = (a \div M) * M + (a % M) /\ a % M \in 0 .. M - 1 /\ a \div M \in Int
    BY <1>1, <1>7, DivMod
  <2> QED
    BY <1>1, <2>1
<1>10. n \in Int /\ b % M \in Int /\ b = n * M + (b % M)
  <2>1. b = (b \div M) * M + (b % M) /\ b % M \in 0 .. M - 1 /\ b \div M \in Int
    BY <1>1, <1>7, DivMod
  <2> QED
    BY <1>1, <2>1
<1> DEFINE q == n - m - u * k
           r == a % M
           s == b % M
<1>11. q \in Int /\ r \in Int /\ s \in Int
  BY <1>1, <1>6, <1>9, <1>10
<1>12. r - s = q * M + e
  <2>1. r = b + e - (u * k) * M - m * M /\ s = b - n * M
    BY <1>1, <1>6, <1>7, <1>8, <1>9, <1>10
  <2> QED
    <3>1. u * k \in Int
      BY <1>1, <1>6
    <3>2. (n - m - u * k) * M = n * M - m * M - (u * k) * M
      BY <1>1, <1>9, <1>10, <3>1, Distribute
    <3>3. (u * k) * M \in Int /\ m * M \in Int /\ n * M \in Int
      BY <1>1, <1>9, <1>10, <3>1
    <3> HIDE DEF m, n
    <3>4. r - s = n * M - m * M - (u * k) * M + e
      BY <1>7, <2>1, <3>3
    <3>5. q * M = n * M - m * M - (u * k) * M
      BY <3>2
    <3> QED
      BY <3>4, <3>5
<1> HIDE DEF q, r, s
<1>13. (r - s) % M = e
  BY <1>1, <1>3, <1>11, <1>12, Remainder
<1> QED
  BY <1>2, <1>5, <1>13 DEF r, s, e, M, later

-----------------------------------------------------------------------------

LEMMA InitInv == Init => IInv
<1> SUFFICES ASSUME Init PROVE IInv
  OBVIOUS
<1>1. PICK us \in Us :
        /\ timer = [allocated |-> TRUE, us |-> us]
        /\ pc = [t \in Thread |-> "idle"]
        /\ call = [t \in Thread |-> [op |-> "stop", us |-> us]]
        /\ queue = <<>> /\ task = "wait" /\ left = 0 /\ since = 0 /\ span = 0 /\ tick = 0
        /\ handle = [exists |-> TRUE, runs |-> FALSE, period |-> Ticks(us)]
        /\ last = [op |-> "stop", us |-> us]
  BY DEF Init
<1>2. Ticks(us) \in Nat
  BY TicksRound
<1>3. TypeInv
  <2>1. timer \in [allocated : BOOLEAN, us : Us] /\ handle \in HandleType
    BY <1>1, <1>2 DEF HandleType
  <2>2. last \in Command /\ call \in [Thread -> Command] /\ queue \in Seq(Command)
    BY <1>1 DEF Command
  <2>3. pc \in [Thread -> {"idle", "send", "return"}] /\ \E u \in Us : handle.period = Ticks(u)
    BY <1>1
  <2>4. left >= - MaxLate /\ tick \in 0 .. Modulus - 1 /\ Len(queue) <= QueueLength
    BY <1>1, OsTimerAssumption
  <2> QED
    BY <1>1, <2>1, <2>2, <2>3, <2>4 DEF TypeInv
<1>4. QueueInv /\ StopInv /\ DeleteInv /\ SpanInv
  BY <1>1 DEF QueueInv, StopInv, DeleteInv, SpanInv, Thread
<1> QED
  BY <1>3, <1>4 DEF IInv

-----------------------------------------------------------------------------
(* The timer task.                                                         *)

LEMMA ExpireStep ==
  ASSUME IInv, Expire
  PROVE  IInv'
<1>1. /\ task = "wait" /\ handle.exists /\ handle.runs /\ left <= 0
      /\ UNCHANGED <<timer, oneshot, pc, call, queue, calls, last, fired, tick>>
      /\ task' = "callback" /\ span' = since + left /\ since' = - left
  BY DEF Expire, Due
<1>2. /\ left \in Int /\ since + left = handle.period /\ handle.period \in Nat
      /\ handle \in HandleType /\ since \in Nat
  BY <1>1 DEF IInv, TypeInv, SpanInv, HandleType
<1>3. \/ handle' = [handle EXCEPT !.runs = FALSE] /\ left' = left
      \/ handle' = handle /\ left' = left + handle.period
  BY DEF Expire
<1>4. /\ handle' \in HandleType /\ handle'.period = handle.period
      /\ handle'.exists = handle.exists
      /\ handle'.runs => left' = left + handle.period
      /\ left' \in Int /\ left' >= left
  <2>1. CASE handle' = [handle EXCEPT !.runs = FALSE] /\ left' = left
    <3>1. /\ handle' \in HandleType /\ handle'.period = handle.period
          /\ handle'.exists = handle.exists /\ ~ handle'.runs
      BY <1>2, <2>1 DEF HandleType
    <3> QED
      BY <1>2, <2>1, <3>1
  <2>2. CASE handle' = handle /\ left' = left + handle.period
    BY <1>2, <2>2
  <2> QED
    BY <1>3, <2>1, <2>2
<1>5. TypeInv'
  <2>1. left' >= - MaxLate
    BY <1>2, <1>4, OsTimerAssumption DEF IInv, TypeInv
  <2>2. since' \in Nat /\ span' \in Nat
    BY <1>1, <1>2
  <2> QED
    BY <1>1, <1>4, <2>1, <2>2 DEF IInv, TypeInv
<1>6. QueueInv'
  BY <1>1, <1>4 DEF IInv, QueueInv
<1>7. StopInv'
  BY <1>1 DEF IInv, StopInv
<1>8. DeleteInv'
  BY <1>1, <1>4 DEF IInv, DeleteInv
<1>9. SpanInv'
  <2>1. handle'.runs => since' + left' = handle'.period
    BY <1>1, <1>2, <1>4
  <2>2. queue' = <<>> /\ last'.op = "start" => span' = Ticks(last'.us)
    BY <1>1, <1>2 DEF IInv, QueueInv
  <2> QED
    BY <2>1, <2>2 DEF SpanInv
<1> QED
  BY <1>5, <1>6, <1>7, <1>8, <1>9 DEF IInv

\* The steps that only move the timer task on.
LEMMA TaskMoves ==
  ASSUME IInv, os_timer_callback \/ TakeCommands \/ CommandsDone
  PROVE  IInv'
<1>1. /\ UNCHANGED <<timer, oneshot, pc, call, queue, handle, left, calls, last, since,
                     span, tick>>
      /\ task' \in {"wait", "commands"}
      /\ task = "wait" => queue # <<>>
  BY DEF os_timer_callback, TakeCommands, CommandsDone
<1>2. TypeInv'
  BY <1>1 DEF IInv, TypeInv
<1>3. QueueInv' /\ DeleteInv' /\ SpanInv'
  BY <1>1 DEF IInv, QueueInv, DeleteInv, SpanInv
<1>4. StopInv'
  BY <1>1 DEF IInv, StopInv
<1> QED
  BY <1>2, <1>3, <1>4 DEF IInv

\* The command taken from the queue is the last one sent if no other follows.
LEMMA TailLast ==
  ASSUME IInv, queue # <<>>, queue' = Tail(queue), UNCHANGED last
  PROVE  /\ Head(queue) \in Command
         /\ queue' \in Seq(Command) /\ Len(queue') <= QueueLength
         /\ queue' # <<>> => queue'[Len(queue')] = last'
         /\ queue' = <<>> => Head(queue) = last
<1>1. queue \in Seq(Command) /\ Len(queue) <= QueueLength /\ queue[Len(queue)] = last
  BY DEF IInv, TypeInv, QueueInv
<1>2. /\ Len(queue) \in Nat \ {0} /\ Len(queue') = Len(queue) - 1
      /\ queue' \in Seq(Command) /\ Head(queue) \in Command /\ Head(queue) = queue[1]
      /\ \A i \in 1 .. Len(queue') : queue'[i] = queue[i + 1]
  BY <1>1
<1>3. Len(queue') <= QueueLength
  BY <1>1, <1>2, OsTimerAssumption
<1>4. CASE queue' = <<>>
  <2>1. Len(queue) = 1
    <3>1. Len(queue') = 0
      BY <1>2, <1>4
    <3> QED
      BY <1>2, <3>1
  <2> QED
    BY <1>1, <1>2, <1>3, <1>4, <2>1
<1>5. CASE queue' # <<>>
  <2>1. Len(queue') \in 1 .. Len(queue') /\ Len(queue') + 1 = Len(queue)
    BY <1>2, <1>5
  <2>2. queue'[Len(queue')] = queue[Len(queue)]
    BY <1>2, <2>1
  <2> QED
    BY <1>1, <1>2, <1>3, <1>5, <2>2
<1> QED
  BY <1>4, <1>5

LEMMA CarryStep ==
  ASSUME IInv, Carry
  PROVE  IInv'
<1>1. /\ task = "commands" /\ queue # <<>> /\ queue' = Tail(queue)
      /\ UNCHANGED <<timer, oneshot, pc, call, task, calls, last, span, fired, tick>>
  BY DEF Carry
<1> DEFINE c == Head(queue)
<1>2. /\ c \in Command /\ queue' \in Seq(Command) /\ Len(queue') <= QueueLength
      /\ queue' # <<>> => queue'[Len(queue')] = last'
      /\ queue' = <<>> => c = last
  BY <1>1, TailLast
<1>3. /\ c.op \in {"start", "stop", "delete"} /\ c.us \in Us
      /\ Ticks(c.us) \in Nat /\ handle \in HandleType
  BY <1>2, TicksRound DEF Command, IInv, TypeInv
<1>4. /\ c.op = "start" => /\ handle' = [handle EXCEPT !.runs = TRUE, !.period = Ticks(c.us)]
                           /\ left' = Ticks(c.us) /\ since' = 0
      /\ c.op = "stop" => handle' = [handle EXCEPT !.runs = FALSE] /\ UNCHANGED <<left, since>>
      /\ c.op = "delete" => /\ handle' = [handle EXCEPT !.exists = FALSE, !.runs = FALSE]
                            /\ UNCHANGED <<left, since>>
  BY DEF Carry
<1> HIDE DEF c
<1>5. /\ handle' \in HandleType
      /\ handle.exists = FALSE \/ c.op = "delete" => handle'.exists = FALSE
      /\ c.op # "start" => handle'.runs = FALSE /\ handle'.period = handle.period
      /\ c.op = "start" => handle'.period = Ticks(c.us)
  BY <1>3, <1>4 DEF HandleType
<1>6. TypeInv'
  <2>1. left' \in Int /\ left' >= - MaxLate /\ since' \in Nat
    <3>1. left \in Int /\ left >= - MaxLate /\ since \in Nat
      BY DEF IInv, TypeInv
    <3>2. MaxLate \in Nat
      BY OsTimerAssumption
    <3> QED
      BY <1>3, <1>4, <3>1, <3>2
  <2>2. \E us \in Us : handle'.period = Ticks(us)
    BY <1>3, <1>5 DEF IInv, TypeInv
  <2> QED
    BY <1>1, <1>2, <1>5, <2>1, <2>2 DEF IInv, TypeInv
<1>7. QueueInv'
  BY <1>1, <1>2, <1>3, <1>5 DEF QueueInv
<1>8. StopInv'
  BY <1>1 DEF IInv, StopInv
<1>9. DeleteInv'
  BY <1>1, <1>5 DEF IInv, TypeInv, HandleType, DeleteInv
<1>10. SpanInv'
  BY <1>1, <1>3, <1>4, <1>5 DEF SpanInv
<1> QED
  BY <1>6, <1>7, <1>8, <1>9, <1>10 DEF IInv

LEMMA TickStep ==
  ASSUME IInv, Tick
  PROVE  IInv'
<1>1. /\ handle.runs => left > - MaxLate
      /\ \/ handle.runs /\ left' = left - 1 /\ since' = since + 1
         \/ ~ handle.runs /\ UNCHANGED <<left, since>>
      /\ tick' = (tick + 1) % Modulus
      /\ UNCHANGED <<timer, oneshot, pc, call, queue, handle, task, calls, last, span, fired>>
  BY DEF Tick
<1>2. /\ left \in Int /\ left >= - MaxLate /\ since \in Nat /\ tick \in Nat
      /\ handle.runs => since + left = handle.period /\ handle.period \in Nat
  BY DEF IInv, TypeInv, SpanInv, HandleType
<1>3. TypeInv'
  <2>1. left' \in Int /\ left' >= - MaxLate /\ since' \in Nat
    <3>1. CASE handle.runs
      BY <1>1, <1>2, <3>1, OsTimerAssumption
    <3>2. CASE ~ handle.runs
      BY <1>1, <1>2, <3>2
    <3> QED
      BY <3>1, <3>2
  <2>2. tick' \in 0 .. Modulus - 1
    <3>1. tick + 1 \in Int /\ Modulus \in Nat \ {0}
      BY <1>2, OsTimerAssumption
    <3> QED
      BY <1>1, <3>1, DivMod
  <2> QED
    BY <1>1, <2>1, <2>2 DEF IInv, TypeInv
<1>4. QueueInv' /\ StopInv' /\ DeleteInv'
  BY <1>1 DEF IInv, QueueInv, StopInv, DeleteInv
<1>5. SpanInv'
  <2>1. handle'.runs => since' + left' = handle'.period
    BY <1>1, <1>2
  <2>2. task' = "callback" /\ queue' = <<>> /\ last'.op = "start" => span' = Ticks(last'.us)
    BY <1>1 DEF IInv, SpanInv
  <2> QED
    BY <2>1, <2>2 DEF SpanInv
<1> QED
  BY <1>3, <1>4, <1>5 DEF IInv

-----------------------------------------------------------------------------
(* The timer functions.                                                    *)

LEMMA CallStep ==
  ASSUME IInv, NEW t \in Thread, NEW op \in {"start", "stop", "delete"}, Call(t, op),
         UNCHANGED timer, op # "start" => t = Owner,
         op = "delete" => \A u \in Other : pc[u] = "idle"
  PROVE  IInv'
<1>1. /\ pc[t] = "idle" /\ timer.allocated
      /\ ~ (pc[Owner] # "idle" /\ call[Owner].op = "delete")
      /\ call' = [call EXCEPT ![t] = [op |-> op, us |-> timer.us]]
      /\ pc' = [pc EXCEPT ![t] = "send"]
      /\ UNCHANGED <<queue, handle, left, task, last, since, span, fired, tick>>
  BY DEF Call, InUse
<1>2. Owner \in Thread /\ Owner \notin Other /\ Other \subseteq Thread
  BY OsTimerAssumption DEF Thread
<1>3. TypeInv'
  BY <1>1 DEF IInv, TypeInv, Command
<1>4. QueueInv' /\ SpanInv'
  BY <1>1 DEF IInv, QueueInv, SpanInv
<1>5. StopInv'
  BY <1>1, <1>2 DEF IInv, TypeInv, StopInv
<1>6. DeleteInv'
  <2>1. CASE t = Owner
    BY <1>1, <1>2, <2>1 DEF IInv, TypeInv, DeleteInv
  <2>2. CASE t # Owner
    BY <1>1, <1>2, <2>2 DEF IInv, TypeInv, DeleteInv
  <2> QED
    BY <2>1, <2>2
<1> QED
  BY <1>3, <1>4, <1>5, <1>6 DEF IInv

LEMMA SendStep ==
  ASSUME IInv, NEW t \in Thread, Send(t)
  PROVE  IInv'
<1>1. /\ pc[t] = "send" /\ Len(queue) < QueueLength
      /\ queue' = Append(queue, call[t]) /\ last' = call[t]
      /\ pc' = [pc EXCEPT ![t] = "return"]
      /\ UNCHANGED <<timer, call, handle, left, task, since, span, tick>>
  BY DEF Send
<1>2. Owner \in Thread /\ Owner \notin Other /\ Other \subseteq Thread /\ t \in Other \cup {Owner}
  BY OsTimerAssumption DEF Thread
<1>3. /\ queue \in Seq(Command) /\ call[t] \in Command
      /\ queue' \in Seq(Command) /\ Len(queue') = Len(queue) + 1
      /\ queue' # <<>> /\ queue'[Len(queue')] = call[t]
  BY <1>1 DEF IInv, TypeInv
<1>4. TypeInv'
  <2>1. Len(queue') <= QueueLength
    BY <1>1, <1>3, OsTimerAssumption
  <2> QED
    BY <1>1, <1>3, <2>1 DEF IInv, TypeInv
<1>5. QueueInv'
  BY <1>1, <1>3 DEF QueueInv
<1>6. StopInv'
  BY <1>1, <1>2 DEF IInv, TypeInv, StopInv, DeleteInv
<1>7. DeleteInv'
  BY <1>1, <1>2 DEF IInv, TypeInv, DeleteInv
<1>8. SpanInv'
  BY <1>1, <1>3 DEF IInv, SpanInv
<1> QED
  BY <1>4, <1>5, <1>6, <1>7, <1>8 DEF IInv

\* The owner goes on when the timer task has done everything.
LEMMA ReturnStep ==
  ASSUME IInv, NEW t \in Thread, Return(t)
  PROVE  IInv'
<1>1. /\ pc[t] = "return" /\ MayRun(t) /\ pc' = [pc EXCEPT ![t] = "idle"]
      /\ timer' = [timer EXCEPT !.allocated = (@ /\ call[t].op # "delete")]
      /\ UNCHANGED <<call, queue, handle, left, task, last, since, span, fired, tick>>
  BY DEF Return
<1>2. /\ Owner \in Thread /\ Owner \notin Other
      /\ Other \subseteq Thread /\ t \in Other \cup {Owner}
  BY OsTimerAssumption DEF Thread
<1>3. t = Owner /\ Owner \in Below => queue = <<>> /\ task = "wait"
  BY <1>1, <1>2 DEF MayRun, Busy
<1>4. /\ timer' \in [allocated : BOOLEAN, us : Us]
      /\ ~ timer'.allocated => ~ timer.allocated \/ call[t].op = "delete"
  BY <1>1 DEF IInv, TypeInv
<1>5. TypeInv'
  BY <1>1, <1>4 DEF IInv, TypeInv
<1>6. QueueInv' /\ SpanInv'
  BY <1>1 DEF IInv, QueueInv, SpanInv
<1>7. StopInv'
  BY <1>1, <1>2, <1>3 DEF IInv, TypeInv, StopInv, QueueInv
<1>8. call[t].op = "delete" => t = Owner
  BY <1>1, <1>2 DEF IInv, DeleteInv
<1>9. Owner \in Below /\ ~ timer'.allocated => ~ handle.exists /\ task # "callback"
  BY <1>1, <1>3, <1>4, <1>8 DEF IInv, DeleteInv, QueueInv
<1>10. DeleteInv'
  BY <1>1, <1>2, <1>9 DEF IInv, TypeInv, DeleteInv
<1> QED
  BY <1>5, <1>6, <1>7, <1>10 DEF IInv

LEMMA SetStep ==
  ASSUME IInv, NEW us \in Us, os_timer_set(us)
  PROVE  IInv'
<1>1. /\ timer' = [timer EXCEPT !.us = us]
      /\ UNCHANGED <<pc, call, queue, handle, left, task, last, since, span, fired, tick>>
  BY DEF os_timer_set
<1>2. timer' \in [allocated : BOOLEAN, us : Us] /\ timer'.allocated = timer.allocated
  BY <1>1 DEF IInv, TypeInv
<1>3. TypeInv'
  BY <1>1, <1>2 DEF IInv, TypeInv
<1>4. QueueInv' /\ StopInv' /\ DeleteInv' /\ SpanInv'
  BY <1>1, <1>2 DEF IInv, QueueInv, StopInv, DeleteInv, SpanInv
<1> QED
  BY <1>3, <1>4 DEF IInv

LEMMA StepKeepsInv == IInv /\ [Next]_vars => IInv'
<1> SUFFICES ASSUME IInv, [Next]_vars PROVE IInv'
  OBVIOUS
<1>1. CASE TimerTask \/ Tick
  BY <1>1, ExpireStep, TaskMoves, CarryStep, TickStep DEF TimerTask
<1>2. ASSUME NEW t \in Thread, os_timer_start(t) \/ Send(t) \/ Return(t)
      PROVE  IInv'
  BY <1>2, CallStep, SendStep, ReturnStep DEF os_timer_start
<1>3. CASE os_timer_stop \/ os_timer_destroy
  BY <1>3, CallStep DEF os_timer_stop, os_timer_destroy, Thread
<1>4. ASSUME NEW us \in Us, os_timer_set(us)
      PROVE  IInv'
  BY <1>4, SetStep
<1>5. CASE UNCHANGED vars
  BY <1>5 DEF vars, timerVars, IInv, TypeInv, QueueInv, StopInv, DeleteInv, SpanInv
<1> QED
  BY <1>1, <1>2, <1>3, <1>4, <1>5 DEF Next

THEOREM IInvInvariant == Spec => []IInv
  BY InitInv, StepKeepsInv, PTL DEF Spec

-----------------------------------------------------------------------------
(* No start is lost.                                                       *)

\* A delete is the last command, and its sender is the last to use the timer.
LastInv ==
  /\ (\E i \in 1 .. Len(queue) : queue[i].op = "delete") \/ ~ handle.exists =>
       /\ last.op = "delete"
       /\ ~ timer.allocated \/ (pc[Owner] = "return" /\ call[Owner].op = "delete")
  /\ ~ timer.allocated => \A t \in Thread : pc[t] = "idle"

\* A start that has been carried out is in force.
KeptInv ==
  last.op = "start" /\ queue = <<>> =>
    handle.runs \/ (oneshot /\ (task = "callback" \/ fired))

LEMMA CarryKeeps ==
  ASSUME IInv, LastInv, KeptInv, Carry
  PROVE  LastInv' /\ KeptInv'
<1>1. /\ queue # <<>> /\ queue' = Tail(queue)
      /\ UNCHANGED <<timer, oneshot, pc, call, task, last, fired>>
      /\ Head(queue).op = "start" =>
           handle' = [handle EXCEPT !.runs = TRUE, !.period = Ticks(Head(queue).us)]
      /\ Head(queue).op = "stop" => handle' = [handle EXCEPT !.runs = FALSE]
      /\ Head(queue).op = "delete" => handle' = [handle EXCEPT !.exists = FALSE, !.runs = FALSE]
  BY DEF Carry
<1>2. /\ Head(queue) \in Command
      /\ queue' = <<>> => Head(queue) = last
  BY <1>1, TailLast
<1>3. /\ Len(queue) \in Nat \ {0} /\ Head(queue) = queue[1] /\ Len(queue') = Len(queue) - 1
      /\ \A i \in 1 .. Len(queue') : queue'[i] = queue[i + 1]
  BY <1>1 DEF IInv, TypeInv
<1>4. handle \in HandleType /\ Head(queue).op \in {"start", "stop", "delete"}
  BY <1>2 DEF IInv, TypeInv, Command
<1>5. ~ handle'.exists => ~ handle.exists \/ Head(queue).op = "delete"
  BY <1>1, <1>4 DEF HandleType
<1>6. (\E i \in 1 .. Len(queue') : queue'[i].op = "delete") \/ ~ handle'.exists =>
        (\E i \in 1 .. Len(queue) : queue[i].op = "delete") \/ ~ handle.exists
  <2>1. 1 \in 1 .. Len(queue) /\ \A i \in 1 .. Len(queue') : i + 1 \in 1 .. Len(queue)
    BY <1>3
  <2> QED
    BY <1>3, <1>5, <2>1
<1>7. LastInv'
  BY <1>1, <1>6 DEF LastInv
<1>8. KeptInv'
  BY <1>1, <1>2, <1>4 DEF KeptInv, HandleType
<1> QED
  BY <1>7, <1>8

LEMMA ThreadKeeps ==
  ASSUME IInv, LastInv, KeptInv, NEW t \in Thread,
         \/ Send(t) \/ Return(t)
         \/ \E op \in {"start", "stop", "delete"} : Call(t, op) /\ UNCHANGED timer
  PROVE  LastInv' /\ KeptInv'
<1>0. Owner \in Thread
  BY DEF Thread
<1>1. CASE Send(t)
  <2>1. /\ pc[t] = "send" /\ queue' = Append(queue, call[t]) /\ last' = call[t]
        /\ pc' = [pc EXCEPT ![t] = "return"]
        /\ UNCHANGED <<timer, call, handle>>
    BY <1>1 DEF Send
  <2>2. /\ Len(queue) \in Nat /\ Len(queue') = Len(queue) + 1 /\ queue' # <<>>
        /\ \A i \in 1 .. Len(queue) : queue'[i] = queue[i]
        /\ queue'[Len(queue')] = call[t]
    BY <2>1 DEF IInv, TypeInv
  <2>3. timer.allocated
    BY <2>1 DEF LastInv
  <2>4. /\ ~ (\E i \in 1 .. Len(queue) : queue[i].op = "delete")
        /\ handle.exists
    BY <2>1, <2>3, OsTimerAssumption DEF LastInv, IInv, DeleteInv, Thread
  <2>5. ASSUME NEW i \in 1 .. Len(queue'), queue'[i].op = "delete"
        PROVE  call[t].op = "delete" /\ t = Owner
    <3>1. i = Len(queue')
      BY <2>2, <2>4, <2>5
    <3> QED
      BY <2>1, <2>2, <2>5, <3>1 DEF IInv, DeleteInv, Thread
  <2>6. pc'[t] = "return"
    BY <2>1 DEF IInv, TypeInv
  <2>7. LastInv'
    BY <2>1, <2>3, <2>4, <2>5, <2>6 DEF LastInv
  <2> QED
    BY <2>2, <2>7 DEF KeptInv
<1>2. CASE Return(t)
  <2>1. /\ pc[t] = "return" /\ pc' = [pc EXCEPT ![t] = "idle"]
        /\ timer' = [timer EXCEPT !.allocated = (@ /\ call[t].op # "delete")]
        /\ UNCHANGED <<oneshot, call, queue, handle, task, last, fired>>
    BY <1>2 DEF Return
  <2>2. /\ timer'.allocated <=> timer.allocated /\ call[t].op # "delete"
        /\ pc \in [Thread -> {"idle", "send", "return"}]
    BY <2>1 DEF IInv, TypeInv
  <2>3. call[t].op = "delete" => t = Owner
    BY <2>1 DEF IInv, DeleteInv, Thread
  <2>4. ~ timer'.allocated => \A u \in Thread : pc'[u] = "idle"
    BY <1>0, <2>1, <2>2, <2>3 DEF LastInv, IInv, DeleteInv, Thread
  <2>5. LastInv'
    BY <1>0, <2>1, <2>2, <2>4 DEF LastInv
  <2> QED
    BY <2>1, <2>5 DEF KeptInv
<1>3. ASSUME NEW op \in {"start", "stop", "delete"}, Call(t, op), UNCHANGED timer
      PROVE  LastInv' /\ KeptInv'
  <2>1. /\ timer.allocated /\ ~ (pc[Owner] # "idle" /\ call[Owner].op = "delete")
        /\ UNCHANGED <<timer, oneshot, queue, handle, task, last, fired>>
    BY <1>3 DEF Call, InUse
  <2> QED
    BY <2>1 DEF LastInv, KeptInv
<1> QED
  BY <1>1, <1>2, <1>3

LEMMA StepKeepsStart == IInv /\ LastInv /\ KeptInv /\ [Next]_vars => LastInv' /\ KeptInv'
<1> SUFFICES ASSUME IInv, LastInv, KeptInv, [Next]_vars PROVE LastInv' /\ KeptInv'
  OBVIOUS
<1>1. CASE Expire
  <2>1. /\ task' = "callback" /\ UNCHANGED <<timer, oneshot, pc, call, queue, last, fired>>
        /\ IF oneshot THEN handle' = [handle EXCEPT !.runs = FALSE] ELSE UNCHANGED handle
    BY <1>1 DEF Expire
  <2>2. handle'.exists = handle.exists /\ (~ oneshot => handle'.runs = handle.runs)
    BY <2>1 DEF IInv, TypeInv, HandleType
  <2> QED
    BY <2>1, <2>2 DEF LastInv, KeptInv
<1>2. CASE os_timer_callback \/ TakeCommands \/ CommandsDone
  BY <1>2 DEF os_timer_callback, TakeCommands, CommandsDone, LastInv, KeptInv
<1>3. CASE Tick
  BY <1>3 DEF Tick, LastInv, KeptInv
<1>4. ASSUME NEW us \in Us, os_timer_set(us) PROVE LastInv' /\ KeptInv'
  <2>1. /\ timer'.allocated = timer.allocated
        /\ UNCHANGED <<oneshot, pc, call, queue, handle, task, last, fired>>
    BY <1>4 DEF os_timer_set, IInv, TypeInv
  <2> QED
    BY <2>1 DEF LastInv, KeptInv
<1>5. ASSUME NEW t \in Thread, os_timer_start(t) \/ Send(t) \/ Return(t)
      PROVE  LastInv' /\ KeptInv'
  BY <1>5, ThreadKeeps DEF os_timer_start
<1>6. CASE os_timer_stop \/ os_timer_destroy
  BY <1>6, ThreadKeeps DEF os_timer_stop, os_timer_destroy, Thread
<1>7. CASE UNCHANGED vars
  BY <1>7 DEF vars, timerVars, LastInv, KeptInv
<1> QED
  BY <1>1, <1>2, <1>3, <1>4, <1>5, <1>6, <1>7, CarryKeeps DEF Next, TimerTask

-----------------------------------------------------------------------------

(* Threads, the queue and the timer stay within their types, and the       *)
(* timer's period is what was asked for, rounded down to a tick.           *)
THEOREM TypeCorrect == Spec => []TypeOK
<1>1. IInv => TypeOK
  BY TicksRound DEF IInv, TypeInv, TypeOK
<1> QED
  BY <1>1, IInvInvariant, PTL

(* The function of a timer is never called for a timer that was freed, if  *)
(* the thread that destroys it is below the timer task.                    *)
THEOREM FreedSafety == Spec => []FreedIsQuiet
<1>1. IInv => FreedIsQuiet
  BY DEF IInv, DeleteInv, FreedIsQuiet
<1> QED
  BY <1>1, IInvInvariant, PTL

(* Once os_timer_stop has returned to a thread below the timer task, the   *)
(* function is not called before somebody starts the timer again.          *)
THEOREM StoppedSafety == Spec => []StoppedIsQuiet
<1>1. IInv => StoppedIsQuiet
  BY DEF IInv, StopInv, StoppedIsQuiet
<1> QED
  BY <1>1, IInvInvariant, PTL

(* A callback is due exactly one period after the start or after the last  *)
(* time it was due, however late the timer task runs.                      *)
THEOREM PeriodSafety == Spec => []RightPeriod
<1>1. IInv => RightPeriod
  BY DEF IInv, SpanInv, RightPeriod
<1> QED
  BY <1>1, IInvInvariant, PTL

(* A start that was sent last is waiting or in force, for any number of    *)
(* threads of any priority and any length of the queue.                    *)
THEOREM StartSafety == Spec => []StartIsKept
<1>1. Init => LastInv /\ KeptInv
  BY DEF Init, LastInv, KeptInv
<1>2. IInv /\ LastInv /\ KeptInv => StartIsKept
  BY DEF IInv, QueueInv, LastInv, KeptInv, StartIsKept
<1> QED
  BY <1>1, <1>2, InitInv, StepKeepsInv, StepKeepsStart, PTL DEF Spec

(* The test of a timeout is right for any width of the clock, from any     *)
(* tick, over any time that the clock can tell.                            *)
THEOREM ElapsedSafety == Spec => []ExpiredIsElapsed
<1>1. IInv => ExpiredIsElapsed
  <2> SUFFICES ASSUME IInv, MsPerTick = 1, NEW elapsed \in 0 .. (Modulus - 1) \div UsPerTick,
                      NEW timeout \in Timeouts
               PROVE  up_is_expired(os_get_current_time_us((tick + elapsed) % Modulus),
                                    os_get_current_time_us(tick), timeout)
                        <=> elapsed * UsPerTick >= timeout
    BY DEF ExpiredIsElapsed
  <2>1. elapsed \in Nat /\ tick \in Nat
    BY OsTimerAssumption DEF IInv, TypeInv
  <2>2. UsPerTick * elapsed \in 0 .. Modulus - 1 /\ UsPerTick * elapsed = elapsed * UsPerTick
    <3> DEFINE d == UsPerTick
               x == Modulus - 1
               q == x \div d
    <3>1. d \in Nat \ {0} /\ x \in Nat
      BY OsTimerAssumption DEF UsPerTick
    <3>2. q \in Nat /\ q * d <= x
      BY <3>1, Quotient
    <3>3. elapsed \in Nat /\ elapsed <= q
      BY <3>2
    <3> HIDE DEF d, x, q
    <3>4. elapsed * d <= q * d
      BY <3>1, <3>2, <3>3, Times
    <3>5. d * elapsed \in 0 .. x /\ d * elapsed = elapsed * d
      BY <3>1, <3>2, <3>3, <3>4
    <3> QED
      BY <3>5 DEF d, x
  <2> QED
    BY <2>1, <2>2, TimesDiffer, OsTimerAssumption DEF up_is_expired
<1> QED
  BY <1>1, IInvInvariant, PTL

=============================================================================
