----------------------------- MODULE AtomicFile -----------------------------
(***************************************************************************)
(* What saving, loading and clearing a binary file promises the tasks that *)
(* do it: whatever fails, and however the calls overlap, the file holds    *)
(* one whole version or nothing.  A save takes effect when it reports      *)
(* success, unless the file was erased since it began; a save that reports *)
(* an error, or that a crash cuts off, changes nothing; a load gives the   *)
(* version that the file held when the load began, or an error.            *)
(***************************************************************************)
CONSTANTS
  Client,   \* who uses the file
  Version,  \* what can be saved
  None      \* nothing stored, nothing loaded

VARIABLES
  content,  \* the two objects in the file, or None
  op,       \* what each client is doing
  answer    \* the two objects that a client's load gave it, or None

vars == <<content, op, answer>>

Whole(v) == <<v, v>>

Idle == [kind |-> "idle", version |-> None, erased |-> FALSE]
Saving(v) == [kind |-> "save", version |-> v, erased |-> FALSE]
Overtaken(v) == [kind |-> "save", version |-> v, erased |-> TRUE]
Loading(v) == [kind |-> "load", version |-> v, erased |-> FALSE]

Init ==
  /\ content = None
  /\ op = [c \in Client |-> Idle]
  /\ answer = [c \in Client |-> None]

Done(c) == op' = [op EXCEPT ![c] = Idle]

BeginSave(c, v) ==
  /\ op[c] = Idle
  /\ op' = [op EXCEPT ![c] = Saving(v)]
  /\ UNCHANGED <<content, answer>>

EndSave(c) ==
  /\ op[c].kind = "save"
  /\ Done(c)
  /\ content' = IF op[c].erased THEN content ELSE Whole(op[c].version)
  /\ UNCHANGED answer

\* A save that fails; the file is what it was.
FailSave(c) ==
  /\ op[c].kind = "save"
  /\ Done(c)
  /\ UNCHANGED <<content, answer>>

\* The version the load is to give is settled when it begins.
BeginLoad(c, v) ==
  /\ op[c] = Idle
  /\ content = IF v = None THEN None ELSE Whole(v)
  /\ op' = [op EXCEPT ![c] = Loading(v)]
  /\ UNCHANGED <<content, answer>>

EndLoad(c) ==
  /\ op[c].kind = "load"
  /\ op[c].version # None
  /\ Done(c)
  /\ answer' = [answer EXCEPT ![c] = Whole(op[c].version)]
  /\ UNCHANGED content

FailLoad(c) ==
  /\ op[c].kind = "load"
  /\ Done(c)
  /\ UNCHANGED <<content, answer>>

\* The client has used what it loaded.
Use(c) ==
  /\ answer[c] # None
  /\ answer' = [answer EXCEPT ![c] = None]
  /\ UNCHANGED <<content, op>>

\* A save under way counts as having come before.
Erase ==
  /\ content' = None
  /\ op' = [c \in Client |-> IF op[c].kind = "save" THEN Overtaken(op[c].version)
                             ELSE op[c]]
  /\ UNCHANGED answer

Crash ==
  /\ op' = [c \in Client |-> Idle]
  /\ answer' = [c \in Client |-> None]
  /\ UNCHANGED content

Next ==
  \/ \E c \in Client :
       \/ \E v \in Version : BeginSave(c, v)
       \/ EndSave(c) \/ FailSave(c)
       \/ \E v \in Version \cup {None} : BeginLoad(c, v)
       \/ EndLoad(c) \/ FailLoad(c) \/ Use(c)
  \/ Erase
  \/ Crash

Spec == Init /\ [][Next]_vars
=============================================================================
