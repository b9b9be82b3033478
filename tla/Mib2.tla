-------------------------------- MODULE Mib2 --------------------------------
(***************************************************************************)
(* The system and interfaces groups of MIB-II: the functions of            *)
(* rte/src/net/mib/mib2_system.c behind the callbacks of lwIP's            *)
(* snmp_mib2_system.c, the table of snmp_mib2_interfaces.c, and the start  *)
(* of the server by pnal_snmp.c.                                           *)
(*                                                                         *)
(* Strings that a manager sets are counted octets, those of the stack are  *)
(* terminated; the protocol stack may change them, and the network its     *)
(* interfaces, at any time between two calls.                              *)
(*                                                                         *)
(* Not under src/: the SNMP server, which decodes at most                  *)
(* SNMP_MAX_VALUE_SIZE octets, tests every variable of a set request       *)
(* before it sets the first, stops at the first that fails, and takes      *)
(* every length of a get that is not negative as the size of the value;    *)
(* and the stack, which stores the strings.                                *)
(***************************************************************************)
EXTENDS Integers, Sequences, FiniteSets, SequencesExt

CONSTANTS
  StringSize, \* size of the string in rte_snmp_system_contact_t and its likes
  ValueSizes, \* what SNMP_MAX_VALUE_SIZE may be configured to
  Octets,     \* the octet strings that a manager may send
  Texts,      \* the strings that the stack may have or store itself
  Index,      \* indices of network interfaces
  Requests,   \* the set requests of the manager, sequences of variables
  Nul,        \* the terminator
  Up, Down,   \* the values of ifAdminStatus
  Testing,    \* another value that a manager may send for it
  Garbage,    \* whatever is in the server's buffer
  None

ASSUME Mib2Assumption ==
  /\ StringSize \in Nat \ {0}
  /\ ValueSizes \subseteq Nat
  /\ \A o \in Octets \cup Texts : o \in Seq(Range(o))
  /\ \A t \in Texts : Nul \notin Range(t) /\ Len(t) < StringSize
  /\ Index \subseteq 1 .. 255

(* A variable is named by its object and, in a table, its row.  The first  *)
(* three have functions of their own to get, test and set them.            *)
sysContact == <<"sysContact", 0>>
sysName == <<"sysName", 0>>
sysLocation == <<"sysLocation", 0>>
sysDescr == <<"sysDescr", 0>>
Settable == {sysContact, sysName, sysLocation}
Text == Settable \cup {sysDescr}
Fixed == {<<"sysObjectID", 0>>, <<"sysUpTime", 0>>, <<"sysServices", 0>>}
Name == Text \cup Fixed

\* Of the columns of ifTable, the one that can be set and one that cannot.
Column == {"ifIndex", "ifAdminStatus"}
ifAdminStatus(i) == <<"ifAdminStatus", i>>

Admin == {Up, Down}
Varbind ==
  [name : Settable, value : Octets]
    \cup [name : {ifAdminStatus(i) : i \in Index}, value : Admin \cup {Testing}]

ASSUME RequestsAssumption == Requests \subseteq Seq(Varbind)

VARIABLES
  pc,        \* start-up, then where the server is
  callbacks, \* whether lwIP has the callbacks of the system group
  valueSize, \* SNMP_MAX_VALUE_SIZE
  text,      \* the stack's strings
  netifs,    \* lwIP's list of interfaces, as indices
  admin,     \* whether an interface is up
  request,   \* the variables of a set request, or what a get asks for
  done,      \* how many variables of the request have been tested or set
  cell,      \* the interface that a get has found, or 0
  answer,    \* the last answer, until something changes
  written,   \* history: what the request has stored so far
  kept       \* history: what the manager set last and nobody has changed

stackVars == <<text, admin, kept>>
serverVars == <<pc, request, done, cell, answer, written>>
vars == <<stackVars, serverVars, callbacks, valueSize, netifs>>

NoAnswer == [op |-> "none", name |-> None, status |-> "none", value |-> None]

\* The list of interfaces has no particular order.
Orders == {s \in BoundedSeq(Index, Cardinality(Index)) : s # <<>> /\ IsInjective(s)}

Init ==
  /\ pc = "init"
  /\ callbacks = FALSE
  /\ valueSize \in ValueSizes
  /\ text \in [Text -> Texts]
  /\ netifs \in Orders
  /\ admin = [i \in Range(netifs) |-> Up]
  /\ request = <<>>
  /\ done = 0
  /\ cell = 0
  /\ answer = NoAnswer
  /\ written = <<>>
  /\ kept = [n \in Settable \cup {ifAdminStatus(i) : i \in Range(netifs)} |-> None]

-----------------------------------------------------------------------------
(* Start-up: pnal_snmp_init.                                               *)

Configure ==
  /\ pc = "init"
  /\ callbacks' = TRUE
  /\ pc' = "configured"
  /\ UNCHANGED <<valueSize, netifs, stackVars, request, done, cell, answer, written>>

\* An incomplete configuration is refused and no server runs.
Refuse ==
  /\ pc = "init"
  /\ pc' = "refused"
  /\ UNCHANGED <<callbacks, valueSize, netifs, stackVars, request, done, cell, answer, written>>

Start ==
  /\ pc = "configured"
  /\ pc' = "idle"
  /\ UNCHANGED <<callbacks, valueSize, netifs, stackVars, request, done, cell, answer, written>>

-----------------------------------------------------------------------------
(* Reading.                                                                *)

Reply(op, name, status, value) ==
  answer' = [op |-> op, name |-> name, status |-> status, value |-> value]

\* SNMP_ERR_GENERROR is five: the server sends that many octets of its
\* buffer.
GenError == Garbage

\* Mutant of Fits: a string that just fits is refused.
FitsBarely(size) == size < valueSize

\* The functions that get a string compare its length with the buffer.
Fits(size) == size <= valueSize

ReadText(n) == IF Fits(Len(text[n])) THEN text[n] ELSE GenError

\* The numbers and the object identifier have one size each.
ReadFixed(n) == n

mib2_system_get_value(n) == IF n \in Text THEN ReadText(n) ELSE ReadFixed(n)

GetSystem(n) ==
  /\ pc = "idle"
  /\ Reply("get", n, "value", IF callbacks THEN mib2_system_get_value(n) ELSE GenError)
  /\ request' = <<>>
  /\ done' = 0
  /\ cell' = 0
  /\ written' = <<>>
  /\ UNCHANGED <<stackVars, pc, callbacks, valueSize, netifs>>

\* Mutant of NextIndex: the first index above it in the list.
NextIndexFirst(i) ==
  LET best[n \in 0 .. Len(netifs)] ==
        IF n = 0 THEN 0
        ELSE IF netifs[n] > i /\ best[n - 1] = 0 THEN netifs[n] ELSE best[n - 1]
  IN  best[Len(netifs)]

\* snmp_next_oid_check, for an interface of the list
Better(n, best, i) == n > i /\ (best = 0 \/ n < best)

\* The list is gone through; 0 when none was found.
NextIndex(i) ==
  LET best[n \in 0 .. Len(netifs)] ==
        IF n = 0 THEN 0
        ELSE IF Better(netifs[n], best[n - 1], i) THEN netifs[n] ELSE best[n - 1]
  IN  best[Len(netifs)]

GetNumber ==
  /\ pc = "idle"
  /\ Reply("get", <<"ifNumber", 0>>, "value", Len(netifs))
  /\ request' = <<>>
  /\ done' = 0
  /\ cell' = 0
  /\ written' = <<>>
  /\ UNCHANGED <<stackVars, pc, callbacks, valueSize, netifs>>

\* The interface is found in one call into lwIP's thread and read in another.
FindCell(op, column, i) ==
  /\ pc = "idle"
  /\ request' = <<[op |-> op, column |-> column, index |-> i]>>
  /\ cell' = IF op = "next" THEN NextIndex(i) ELSE IF i \in Range(netifs) THEN i ELSE 0
  /\ pc' = "cell"
  /\ answer' = NoAnswer
  /\ done' = 0
  /\ written' = <<>>
  /\ UNCHANGED <<stackVars, callbacks, valueSize, netifs>>

\* What is read of an interface depends on the column; the read-only ones
\* are facts of that interface.
InterfaceValue(column, i) == IF column = "ifAdminStatus" THEN admin[i] ELSE i

ReadCell ==
  /\ pc = "cell"
  /\ LET asked == request[1] IN
       IF cell = 0
       THEN Reply(asked.op, <<asked.column, asked.index>>, "noSuchInstance", None)
       ELSE Reply(asked.op, <<asked.column, cell>>, "value", InterfaceValue(asked.column, cell))
  /\ pc' = "idle"
  /\ UNCHANGED <<stackVars, request, done, cell, written, callbacks, valueSize, netifs>>

-----------------------------------------------------------------------------
(* Writing.                                                                *)

SetRequest(varbinds) ==
  /\ pc = "idle"
  /\ \A v \in Range(varbinds) :
       IF v.name \in Settable THEN Len(v.value) <= valueSize ELSE v.name[2] \in Range(netifs)
  /\ request' = varbinds
  /\ done' = 0
  /\ written' = <<>>
  /\ cell' = 0
  /\ answer' = NoAnswer
  /\ pc' = "test"
  /\ UNCHANGED <<stackVars, callbacks, valueSize, netifs>>

Varbinding == request[done + 1]

\* Mutant of HasRoom: no room for the terminator is asked for.
HasRoomWithoutNul(octets) == Len(octets) <= StringSize

\* system_test_contact and its likes
HasRoom(octets) == Len(octets) < StringSize

\* mib2_system_test_set_value and interfaces_Table_set_test
Acceptable(v) == IF v.name \in Settable THEN HasRoom(v.value) ELSE v.value \in Admin

Fail(status) ==
  /\ Reply("set", Varbinding.name, status, Varbinding.value)
  /\ pc' = "idle"

Test ==
  /\ pc = "test"
  /\ done < Len(request)
  /\ IF callbacks /\ Acceptable(Varbinding)
     THEN done' = done + 1 /\ UNCHANGED <<pc, answer>>
     ELSE Fail("wrongValue") /\ UNCHANGED done
  /\ UNCHANGED <<stackVars, request, cell, written, callbacks, valueSize, netifs>>

Tested ==
  /\ pc = "test"
  /\ done = Len(request)
  /\ done' = 0
  /\ pc' = "set"
  /\ UNCHANGED <<stackVars, request, cell, answer, written, callbacks, valueSize, netifs>>

\* The setters clear a string and copy the octets into it; read as a string,
\* it ends at the first terminator.
CString(o) ==
  IF Nul \in Range(o)
  THEN SubSeq(o, 1, (CHOOSE i \in DOMAIN o : o[i] = Nul /\ Nul \notin Range(SubSeq(o, 1, i - 1))) - 1)
  ELSE o

Stored(v) ==
  /\ written' = Append(written, v)
  /\ kept' = [kept EXCEPT ![v.name] = v.value]
  /\ done' = done + 1
  /\ UNCHANGED <<pc, answer>>

\* Mutant of SetText: the error of the stack is ignored.
SetTextAnyway ==
  /\ pc = "set"
  /\ done < Len(request) /\ Varbinding.name \in Settable
  /\ UNCHANGED <<request, cell, admin, callbacks, valueSize, netifs>>
  /\ \/ /\ text' = [text EXCEPT ![Varbinding.name] = CString(Varbinding.value)]
        /\ Stored(Varbinding)
     \/ done' = done + 1 /\ UNCHANGED <<text, pc, answer, kept, written>>

\* Mutant of SetText: the location is set by the function of the contact.
SetTextOfContact ==
  /\ pc = "set"
  /\ done < Len(request) /\ Varbinding.name \in Settable
  /\ UNCHANGED <<request, cell, admin, callbacks, valueSize, netifs>>
  /\ \/ /\ text' = [text EXCEPT ![IF Varbinding.name = sysLocation THEN sysContact
                                   ELSE Varbinding.name] = CString(Varbinding.value)]
        /\ Stored(Varbinding)
     \/ Fail("undoFailed") /\ UNCHANGED <<text, kept, done, written>>

\* The stack may refuse to store a string.
SetText ==
  /\ pc = "set"
  /\ done < Len(request) /\ Varbinding.name \in Settable
  /\ UNCHANGED <<request, cell, admin, callbacks, valueSize, netifs>>
  /\ \/ /\ text' = [text EXCEPT ![Varbinding.name] = CString(Varbinding.value)]
        /\ Stored(Varbinding)
     \/ Fail("undoFailed") /\ UNCHANGED <<text, kept, done, written>>

SetAdmin ==
  /\ pc = "set"
  /\ done < Len(request) /\ Varbinding.name \notin Settable
  /\ admin' = [admin EXCEPT ![Varbinding.name[2]] = Varbinding.value]
  /\ Stored(Varbinding)
  /\ UNCHANGED <<text, request, cell, callbacks, valueSize, netifs>>

SetDone ==
  /\ pc = "set"
  /\ done = Len(request)
  /\ Reply("set", None, "noError", None)
  /\ pc' = "idle"
  /\ UNCHANGED <<stackVars, request, done, cell, written, callbacks, valueSize, netifs>>

-----------------------------------------------------------------------------
(* The stack and the network; an answer given before they change something *)
(* is forgotten.                                                           *)

StackWrites(n, t) ==
  /\ text' = [text EXCEPT ![n] = t]
  /\ kept' = [kept EXCEPT ![n] = None]
  /\ answer' = NoAnswer
  /\ UNCHANGED <<pc, request, done, cell, written, admin, callbacks, valueSize, netifs>>

InterfaceChanges(i, status) ==
  /\ admin' = [admin EXCEPT ![i] = status]
  /\ kept' = [kept EXCEPT ![ifAdminStatus(i)] = None]
  /\ answer' = NoAnswer
  /\ UNCHANGED <<pc, request, done, cell, written, text, callbacks, valueSize, netifs>>

Server ==
  \/ Configure \/ Refuse \/ Start
  \/ ReadCell
  \/ Test \/ Tested \/ SetText \/ SetAdmin \/ SetDone

Manager ==
  \/ \E n \in Name : GetSystem(n)
  \/ \E op \in {"get", "next"}, column \in Column, i \in Index \cup {0} :
       FindCell(op, column, i)
  \/ GetNumber
  \/ \E varbinds \in Requests : SetRequest(varbinds)

Environment ==
  \/ \E n \in Settable, t \in Texts : StackWrites(n, t)
  \/ \E i \in Range(netifs), status \in Admin : InterfaceChanges(i, status)

Next == Server \/ Manager \/ Environment

Spec == Init /\ [][Next]_vars

-----------------------------------------------------------------------------
(* Properties.                                                             *)

TypeOK ==
  /\ pc \in {"init", "configured", "refused", "idle", "cell", "test", "set"}
  /\ callbacks \in BOOLEAN
  /\ valueSize \in ValueSizes
  /\ \A n \in Text : Nul \notin Range(text[n]) /\ Len(text[n]) < StringSize
  /\ admin \in [Range(netifs) -> Admin]
  /\ done \in 0 .. Len(request)
  /\ cell \in Range(netifs) \cup {0}
  /\ answer.status \in {"none", "value", "noSuchInstance", "noError", "wrongValue", "undoFailed"}

(* A get of a string of the system group that is answered with a value is  *)
(* answered with that variable's value: the comments of mib2_system.c say  *)
(* "Size of retrieved value (in bytes) if successful, SNMP_ERR_GENERROR if *)
(* buffer was too small".                                                  *)
GetsVariable ==
  answer.op = "get" /\ answer.status = "value" /\ answer.name \in Text =>
    answer.value = text[answer.name]

(* What a set request answers is what it has done, however many variables  *)
(* it has and whichever of them fails: no error when all were stored, a    *)
(* refused value when none was, a failure when those before it were.       *)
SetReported ==
  answer.op = "set" =>
    /\ IsPrefix(written, request)
    /\ answer.status = "noError" => written = request
    /\ answer.status = "wrongValue" => written = <<>>
    /\ answer.status = "undoFailed" => written # request

(* What a manager has set is what it reads back until the stack or the     *)
(* network changes it, unless it has sent a terminator within a string:    *)
(* the functions that test, set and get a variable agree on its size, and  *)
(* on which variable it is.                                                *)
ReadBack ==
  answer.status = "value" /\ answer.name \in DOMAIN kept =>
    LET sent == kept[answer.name] IN
      sent # None /\ (answer.name \in Settable => Nul \notin Range(sent)) =>
        answer.value = sent

(* The next interface is the one with the least index above the one asked  *)
(* for, and it is missed only when there is none, although the list of     *)
(* interfaces is in no order (interfaces_Table_get_next_cell_instance).    *)
NearestInterface ==
  pc = "cell" /\ request[1].op = "next" =>
    LET later == {i \in Range(netifs) : i > request[1].index} IN
      IF later = {} THEN cell = 0
      ELSE cell \in later /\ \A i \in later : cell <= i

=============================================================================
