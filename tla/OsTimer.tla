------------------------------ MODULE OsTimer -------------------------------
(***************************************************************************)
(* Timers and time of osal/osal.c on FreeRTOS, and the test of a timeout   *)
(* in include/up_util.h.                                                   *)
(*                                                                         *)
(* A timer function puts a command into a queue; FreeRTOS's timer task     *)
(* carries it out and calls os_timer_callback when the timer has expired.  *)
(* Whether a function returns before or after that depends on priorities:  *)
(* a thread below the timer task goes on only when the timer task has      *)
(* nothing to do.  Nothing under src/ fixes these priorities: the timer    *)
(* task's is configTIMER_TASK_PRIORITY, a thread's may be as high as       *)
(* configMAX_PRIORITIES * 6 / 7 (osal.c:44-51).  So Below is a parameter,  *)
(* and the two properties that need the owner in it say so.                *)
(*                                                                         *)
(* Not under src/: FreeRTOS; and the threads that use a timer.  Its owner  *)
(* creates, starts, stops and destroys it, others start it while it is     *)
(* there, and its function does none of these.                             *)
(***************************************************************************)
EXTENDS Integers, Sequences

CONSTANTS
  Owner,       \* the thread that owns the timer
  Other,       \* threads that start it, of any priority
  Below,       \* the threads below the timer task
  Us,          \* periods that may be set, in microseconds
  UsPerMs,     \* 1000
  MsPerTick,   \* portTICK_PERIOD_MS
  QueueLength, \* configTIMER_QUEUE_LENGTH
  MaxCalls,    \* bound on calls of the timer functions
  MaxLate,     \* bound on the ticks that the timer task may be late
  Modulus,     \* 2^32: ticks and microseconds are uint32_t
  Timeouts     \* timeouts that are tested, in microseconds

ASSUME OsTimerAssumption ==
  /\ Owner \notin Other
  /\ UsPerMs \in Nat \ {0} /\ MsPerTick \in Nat \ {0}
  /\ Us \subseteq Nat /\ \A us \in Us : us >= UsPerMs * MsPerTick
  /\ QueueLength \in Nat \ {0}
  /\ MaxCalls \in Nat /\ MaxLate \in Nat
  /\ Modulus \in Nat \ {0}
  /\ Timeouts \subseteq 0 .. Modulus - 1

Thread == {Owner} \cup Other
UsPerTick == UsPerMs * MsPerTick

VARIABLES
  timer,     \* os_timer_t: whether it is allocated, and its us
  oneshot,
  pc,        \* per thread: "idle", or the function it is in
  call,      \* per thread: the command it sends
  queue,     \* commands of the timer task
  handle,    \* the FreeRTOS timer: whether it exists and runs, its period
  left,      \* ticks until it expires; at most 0 when it is due
  task,      \* the timer task: "wait", "callback" or "commands"
  calls,     \* calls of the timer functions so far
  last,      \* history: the last command sent and its us
  since,     \* history: ticks since it was started or was last due
  span,      \* history: ticks from then until it was due
  fired,     \* history: a callback has come since the last command
  tick       \* xTaskGetTickCount

timerVars == <<timer, oneshot, pc, call, queue, handle, left, task, calls, last, since, span, fired>>
vars == <<timerVars, tick>>

\* Mutant of Ticks: milliseconds are taken for ticks.
TicksOfMs(us) == us

\* (us / portTICK_PERIOD_MS) / 1000
Ticks(us) == (us \div MsPerTick) \div UsPerMs

Command == [op : {"start", "stop", "delete"}, us : Us]

\* os_timer_create, by the owner before the timer is handed to others
Init ==
  \E us \in Us :
    /\ timer = [allocated |-> TRUE, us |-> us]
    /\ oneshot \in BOOLEAN
    /\ pc = [t \in Thread |-> "idle"]
    /\ call = [t \in Thread |-> [op |-> "stop", us |-> us]]
    /\ queue = <<>>
    /\ handle = [exists |-> TRUE, runs |-> FALSE, period |-> Ticks(us)]
    /\ left = 0
    /\ task = "wait"
    /\ calls = 0
    /\ last = [op |-> "stop", us |-> us]
    /\ since = 0
    /\ span = 0
    /\ fired = FALSE
    /\ tick = 0

-----------------------------------------------------------------------------
(* The timer task.                                                         *)

Due == handle.exists /\ handle.runs /\ left <= 0
Busy == Due \/ task # "wait" \/ queue # <<>>
MayRun(t) == t \in Below => ~ Busy

\* Expired timers come first, then all commands.
Expire ==
  /\ task = "wait" /\ Due
  /\ IF oneshot
     THEN handle' = [handle EXCEPT !.runs = FALSE] /\ UNCHANGED left
     ELSE left' = left + handle.period /\ UNCHANGED handle
  /\ task' = "callback"
  /\ span' = since + left
  /\ since' = - left
  /\ UNCHANGED <<timer, oneshot, pc, call, queue, calls, last, fired, tick>>

os_timer_callback ==
  /\ task = "callback"
  /\ task' = "commands"
  /\ fired' = TRUE
  /\ UNCHANGED <<timer, oneshot, pc, call, queue, handle, left, calls, last, since, span, tick>>

TakeCommands ==
  /\ task = "wait" /\ ~ Due /\ queue # <<>>
  /\ task' = "commands"
  /\ UNCHANGED <<timer, oneshot, pc, call, queue, handle, left, calls, last, since, span, fired, tick>>

Carry ==
  /\ task = "commands" /\ queue # <<>>
  /\ LET c == Head(queue) IN
       CASE c.op = "start" ->
              /\ handle' = [handle EXCEPT !.runs = TRUE, !.period = Ticks(c.us)]
              /\ left' = Ticks(c.us)
              /\ since' = 0
         [] c.op = "stop" ->
              handle' = [handle EXCEPT !.runs = FALSE] /\ UNCHANGED <<left, since>>
         [] c.op = "delete" ->
              handle' = [handle EXCEPT !.exists = FALSE, !.runs = FALSE] /\ UNCHANGED <<left, since>>
  /\ queue' = Tail(queue)
  /\ UNCHANGED <<timer, oneshot, pc, call, task, calls, last, span, fired, tick>>

CommandsDone ==
  /\ task = "commands" /\ queue = <<>>
  /\ task' = "wait"
  /\ UNCHANGED <<timer, oneshot, pc, call, queue, handle, left, calls, last, since, span, fired, tick>>

TimerTask == Expire \/ os_timer_callback \/ TakeCommands \/ Carry \/ CommandsDone

\* The tick interrupt
Tick ==
  /\ handle.runs => left > - MaxLate
  /\ IF handle.runs
     THEN left' = left - 1 /\ since' = since + 1
     ELSE UNCHANGED <<left, since>>
  /\ tick' = (tick + 1) % Modulus
  /\ UNCHANGED <<timer, oneshot, pc, call, queue, handle, task, calls, last, span, fired>>

-----------------------------------------------------------------------------
(* The timer functions.                                                    *)

InUse == timer.allocated /\ ~ (pc[Owner] # "idle" /\ call[Owner].op = "delete")

Call(t, op) ==
  /\ pc[t] = "idle" /\ MayRun(t)
  /\ InUse
  /\ calls < MaxCalls
  /\ calls' = calls + 1
  /\ call' = [call EXCEPT ![t] = [op |-> op, us |-> timer.us]]
  /\ pc' = [pc EXCEPT ![t] = "send"]
  /\ UNCHANGED <<oneshot, queue, handle, left, task, last, since, span, fired, tick>>

os_timer_start(t) == Call(t, "start") /\ UNCHANGED timer
os_timer_stop == Call(Owner, "stop") /\ UNCHANGED timer

\* Mutant of os_timer_destroy: freed before it is deleted.
os_timer_destroy_freed ==
  /\ \A t \in Other : pc[t] = "idle"
  /\ Call(Owner, "delete")
  /\ timer' = [timer EXCEPT !.allocated = FALSE]

\* No thread uses the timer any more when its owner destroys it.
os_timer_destroy ==
  /\ \A t \in Other : pc[t] = "idle"
  /\ Call(Owner, "delete")
  /\ UNCHANGED timer

\* Mutant of Send: it does not wait for room in the queue.
SendOrDrop(t) ==
  /\ pc[t] = "send" /\ MayRun(t)
  /\ queue' = IF Len(queue) < QueueLength THEN Append(queue, call[t]) ELSE queue
  /\ last' = call[t]
  /\ fired' = FALSE
  /\ pc' = [pc EXCEPT ![t] = "return"]
  /\ UNCHANGED <<timer, oneshot, call, handle, left, task, calls, since, span, tick>>

\* portMAX_DELAY: it waits for room in the queue
Send(t) ==
  /\ pc[t] = "send" /\ MayRun(t)
  /\ Len(queue) < QueueLength
  /\ queue' = Append(queue, call[t])
  /\ last' = call[t]
  /\ fired' = FALSE
  /\ pc' = [pc EXCEPT ![t] = "return"]
  /\ UNCHANGED <<timer, oneshot, call, handle, left, task, calls, since, span, tick>>

\* The destroyed timer is freed when xTimerDelete has returned.
Return(t) ==
  /\ pc[t] = "return" /\ MayRun(t)
  /\ pc' = [pc EXCEPT ![t] = "idle"]
  /\ timer' = [timer EXCEPT !.allocated = @ /\ call[t].op # "delete"]
  /\ UNCHANGED <<oneshot, call, queue, handle, left, task, calls, last, since, span, fired, tick>>

\* Mutant of os_timer_set: it changes the timer that runs.
os_timer_set_now(us) ==
  /\ pc[Owner] = "idle" /\ MayRun(Owner)
  /\ InUse
  /\ timer' = [timer EXCEPT !.us = us]
  /\ handle' = [handle EXCEPT !.period = Ticks(us)]
  /\ UNCHANGED <<oneshot, pc, call, queue, left, task, calls, last, since, span, fired, tick>>

\* Mutant of os_timer_set: xTimerChangePeriod, which starts the timer too.
os_timer_set_starts(us) ==
  /\ pc[Owner] = "idle" /\ MayRun(Owner)
  /\ InUse
  /\ timer' = [timer EXCEPT !.us = us]
  /\ handle' = [handle EXCEPT !.period = Ticks(us), !.runs = TRUE]
  /\ left' = Ticks(us)
  /\ UNCHANGED <<oneshot, pc, call, queue, task, calls, last, since, span, fired, tick>>

\* A new period is used by the next start.
os_timer_set(us) ==
  /\ pc[Owner] = "idle" /\ MayRun(Owner)
  /\ InUse
  /\ timer' = [timer EXCEPT !.us = us]
  /\ UNCHANGED <<oneshot, pc, call, queue, handle, left, task, calls, last, since, span, fired, tick>>

-----------------------------------------------------------------------------
(* Time.                                                                   *)

\* 1000 * (xTaskGetTickCount() / portTICK_PERIOD_MS)
os_get_current_time_us(t) == (UsPerMs * (t \div MsPerTick)) % Modulus

\* Mutant of up_is_expired: the sum wraps instead of the difference.
up_is_expired_sum(current, previous, timeout) ==
  current >= (previous + timeout) % Modulus

up_is_expired(current, previous, timeout) ==
  (current - previous) % Modulus >= timeout

Next ==
  \/ TimerTask \/ Tick
  \/ \E t \in Thread : os_timer_start(t) \/ Send(t) \/ Return(t)
  \/ os_timer_stop \/ os_timer_destroy
  \/ \E us \in Us : os_timer_set(us)

(* The tick interrupt comes, FreeRTOS runs the timer task as it has the    *)
(* highest priority but for threads that do not run forever, and a thread  *)
(* that has called a timer function finishes it.                           *)
Fairness ==
  /\ WF_vars(TimerTask) /\ WF_vars(Tick)
  /\ \A t \in Thread : WF_vars(Send(t)) /\ WF_vars(Return(t))

Spec == Init /\ [][Next]_vars /\ Fairness

-----------------------------------------------------------------------------
(* Properties.                                                             *)

\* A timer that is running has the period that was asked for, in ticks.
TypeOK ==
  /\ timer \in [allocated : BOOLEAN, us : Us]
  /\ pc \in [Thread -> {"idle", "send", "return"}]
  /\ call \in [Thread -> Command]
  /\ queue \in Seq(Command) /\ Len(queue) <= QueueLength
  /\ \E us \in Us : handle.period * UsPerTick <= us /\ us < (handle.period + 1) * UsPerTick
  /\ left \in Int /\ left >= - MaxLate
  /\ task \in {"wait", "callback", "commands"}
  /\ last \in Command
  /\ since \in Nat /\ span \in Nat
  /\ tick \in 0 .. Modulus - 1

(* The function of a timer is never called when the timer has been freed:  *)
(* os_timer_destroy frees it when xTimerDelete has returned, and by then   *)
(* the timer task has deleted it, if it preempts the owner.  An owner      *)
(* above the timer task would free the timer while the delete is queued.   *)
FreedIsQuiet ==
  Owner \in Below => (task = "callback" => timer.allocated)

(* After os_timer_stop has returned, and until somebody starts the timer   *)
(* again, its function is not called, although the command is only queued  *)
(* and others may have started it just before: if the owner is below the   *)
(* timer task, as for FreedIsQuiet.                                        *)
StoppedIsQuiet ==
  Owner \in Below =>
    (task = "callback" => ~ (last.op = "stop" /\ pc[Owner] = "idle"))

(* A callback is due exactly the period of the last start after that start *)
(* or after the last time it was due, whatever os_timer_set was given      *)
(* since.                                                                  *)
RightPeriod ==
  task = "callback" /\ queue = <<>> /\ last.op = "start" => span = Ticks(last.us)

(* A start that was the last command is not lost: it waits as the last in  *)
(* the queue, and once that is empty the timer exists and runs, unless it  *)
(* was to fire once and has.  Neither a full queue, nor a stop or a start  *)
(* of another thread sent just before, nor an expiry meanwhile undoes it.  *)
StartIsKept ==
  last.op = "start" =>
    IF queue # <<>> THEN queue[Len(queue)] = last
    ELSE handle.exists /\ (handle.runs \/ (oneshot /\ (task = "callback" \/ fired)))

(* A timer that was started and neither stopped nor destroyed calls its    *)
(* function: no start is lost between the threads and the timer task.  A   *)
(* callback that an earlier start had made due also counts: the function   *)
(* cannot tell the two apart.                                              *)
Fires == (last.op = "start" /\ ~ fired) ~> (fired \/ last.op # "start")

(* A timeout has expired once that time has passed, or more, since a       *)
(* timestamp was taken at any tick, also when the clock has overflown      *)
(* since, which is what up_is_expired is for.  Its comment                 *)
(* (up_util.h:112-114) disagrees with the code where the two are equal: it *)
(* says that the time elapsed is greater, the code compares with >=.       *)
(* os_get_current_time_us counts ticks as if each were a millisecond       *)
(* (osal.c:107), so the tick has to be one.                                *)
ExpiredIsElapsed ==
  MsPerTick = 1 =>
  \A elapsed \in 0 .. (Modulus - 1) \div UsPerTick, timeout \in Timeouts :
    up_is_expired(os_get_current_time_us((tick + elapsed) % Modulus),
                  os_get_current_time_us(tick), timeout)
      <=> elapsed * UsPerTick >= timeout

=============================================================================
