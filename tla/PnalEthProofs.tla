--------------------------- MODULE PnalEthProofs ----------------------------
(***************************************************************************)
(* Proofs about PnalEth, for any interfaces, callbacks, buffers and number *)
(* of slots.                                                               *)
(***************************************************************************)
EXTENDS PnalEth, TLAPS

\* Which part of a slot has been stored, and which slots have been returned.
SlotInv ==
  /\ init.pc \in {"idle", "allocate"} => todo = {}
  /\ init.pc # "idle" => init.reg \in Registration /\ init.reg.netif # None
  /\ init.pc \in {"hook", "store"} =>
       /\ init.slot \in Slot /\ init.slot = nic_index - 1
       /\ init.slot \notin ready
       /\ granted[init.slot] = init.reg
  /\ init.pc = "store" => \A f \in Field \ todo : interface[init.slot][f] = init.reg[f]
  /\ \A s \in Slot, f \in Field : interface[s][f] \in {None, granted[s][f]}
  /\ \A s \in Slot : s >= nic_index => granted[s] = Unset
  /\ \A s \in Slot : s < nic_index /\ s \notin ready =>
       init.pc \in {"hook", "store"} /\ s = init.slot
  /\ \A s \in ready : s < nic_index /\ interface[s] = granted[s]

\* What lwIP's thread has read, against what was registered.
RecvInv ==
  /\ recv.pc # "idle" => recv.netif \in Netif /\ recv.buf \in Buf
  /\ recv.pc \in {"call", "callback", "fault"} =>
       recv.slot \in Slot /\ interface[recv.slot].netif = recv.netif
  /\ recv.pc = "callback" =>
       /\ recv.callback = granted[recv.slot].callback
       /\ recv.arg \in {granted[recv.slot].arg, None}
  /\ late => recv.pc # "idle" /\ recv.pc # "fault"
  /\ late /\ recv.pc = "find" => \E s \in ready : granted[s].netif = recv.netif
  /\ late /\ recv.pc # "find" => recv.slot \in ready
  /\ late /\ recv.pc \in {"callback", "processed", "ignored"} =>
       granted[recv.slot] =
         [netif |-> recv.netif, callback |-> recv.callback, arg |-> recv.arg]

IInv == TypeOK /\ SlotInv /\ RecvInv /\ BuffersAccounted

-----------------------------------------------------------------------------

\* A field of a slot may be stored at any time: the slot keeps its type, and
\* the other fields and slots their values.
LEMMA StoreField ==
  ASSUME NEW s \in Slot, NEW f \in Field, NEW reg \in Registration,
         interface \in [Slot -> Handle]
  PROVE  LET new == [interface EXCEPT ![s][f] = reg[f]] IN
           /\ new \in [Slot -> Handle]
           /\ new[s][f] = reg[f]
           /\ \A t \in Slot, g \in Field : t # s \/ g # f => new[t][g] = interface[t][g]
<1>1. CASE f = "netif"
  BY <1>1 DEF Handle, Registration, Field
<1>2. CASE f = "callback"
  BY <1>2 DEF Handle, Registration, Field
<1>3. CASE f = "arg"
  BY <1>3 DEF Handle, Registration, Field
<1> QED
  BY <1>1, <1>2, <1>3 DEF Field

\* A slot all of whose fields are those of a registration equals it.
LEMMA SameFields ==
  ASSUME NEW h \in Handle, NEW reg \in Registration,
         \A f \in Field : h[f] = reg[f]
  PROVE  h = reg
<1>1. h.netif = reg.netif /\ h.callback = reg.callback /\ h.arg = reg.arg
  BY DEF Field
<1> QED
  BY <1>1 DEF Handle, Registration

LEMMA InitInv == Init => IInv
<1> SUFFICES ASSUME Init PROVE IInv
  OBVIOUS
<1> USE PnalEthAssumption DEF Init
<1>1. TypeOK
  <2>1. interface \in [Slot -> Handle] /\ granted \in [Slot -> Registration \cup {Unset}]
    BY DEF Handle, Unset
  <2>2. init \in Initialization
    BY DEF Initialization
  <2>3. recv \in Reception
    BY DEF NoFrame, Reception
  <2>4. ref \in [Buf -> {0, 1}] /\ nic_index \in 0 .. MaxInterfaces
    OBVIOUS
  <2>5. late \in BOOLEAN /\ sending \in held \cup {None} /\ held \subseteq Buf
    BY Zenon
  <2> QED
    BY <2>1, <2>2, <2>3, <2>4, <2>5 DEF TypeOK
<1>2. SlotInv
  BY DEF SlotInv, Unset, Field, Slot
<1>3. RecvInv
  BY DEF RecvInv, NoFrame
<1>4. BuffersAccounted
  BY DEF BuffersAccounted, Receiving, NoFrame
<1> QED
  BY <1>1, <1>2, <1>3, <1>4 DEF IInv

-----------------------------------------------------------------------------
(* pnal_eth_init: the slot it fills is nobody else's, and is not looked at *)
(* before its interface is stored.                                         *)

LEMMA InitStarts ==
  ASSUME IInv, NEW reg \in Registration, pnal_eth_init(reg)
  PROVE  IInv'
<1> USE DEF pnal_eth_init, recvVars, bufVars
<1>1. TypeOK'
  BY DEF IInv, TypeOK, Initialization
<1>2. SlotInv'
  BY DEF IInv, TypeOK, SlotInv
<1>3. RecvInv' /\ BuffersAccounted'
  BY DEF IInv, RecvInv, BuffersAccounted, Receiving
<1> QED
  BY <1>1, <1>2, <1>3 DEF IInv

LEMMA AllocateSteps ==
  ASSUME IInv, pnal_eth_allocate_handle
  PROVE  IInv'
<1> USE PnalEthAssumption DEF recvVars, bufVars
<1>1. CASE TooManyInterfaces
  BY <1>1 DEF TooManyInterfaces, IInv, TypeOK, Initialization, SlotInv, RecvInv, BuffersAccounted,
                          Receiving
<1>2. CASE Allocate
  <2> USE <1>2 DEF Allocate, Available
  <2>1. /\ nic_index \in Slot /\ nic_index' = nic_index + 1
        /\ init.reg \in Registration /\ init.reg.netif # None
        /\ granted[nic_index] = Unset
        /\ init.pc = "allocate" /\ init'.pc = "hook" /\ init'.slot = nic_index
        /\ init'.reg = init.reg
    BY DEF IInv, TypeOK, SlotInv, Slot
  <2>2. /\ granted' \in [Slot -> Registration \cup {Unset}]
        /\ granted'[nic_index] = init.reg
        /\ \A s \in Slot : s # nic_index => granted'[s] = granted[s]
    BY <2>1 DEF IInv, TypeOK
  <2>3. \A f \in Field : interface[nic_index][f] = None
    BY <2>1 DEF IInv, SlotInv, Unset, Field
  <2>4. TypeOK'
    <3>1. init' \in Initialization
      BY <2>1 DEF IInv, TypeOK, Initialization
    <3>2. nic_index' \in 0 .. MaxInterfaces
      BY <2>1 DEF Slot
    <3> QED
      BY <2>2, <3>1, <3>2 DEF IInv, TypeOK
  <2>5. \A s \in ready : s \in Slot /\ s # nic_index
    BY DEF IInv, TypeOK, SlotInv, Slot
  <2>6. SlotInv'
    BY <2>1, <2>2, <2>3, <2>5 DEF IInv, TypeOK, SlotInv, Slot
  <2>7. recv.pc \in {"call", "callback", "fault"} => recv.slot \in Slot /\ recv.slot # nic_index
    BY <2>3 DEF IInv, RecvInv, Field
  <2>8. RecvInv'
    BY <2>2, <2>5, <2>7 DEF IInv, TypeOK, RecvInv
  <2> QED
    BY <2>4, <2>6, <2>8 DEF IInv, BuffersAccounted, Receiving
<1> QED
  BY <1>1, <1>2 DEF pnal_eth_allocate_handle

LEMMA HookSteps ==
  ASSUME IInv, SetHook
  PROVE  IInv'
<1> USE DEF SetHook, recvVars, bufVars
<1>1. TypeOK'
  BY DEF IInv, TypeOK, Initialization, SlotInv, Registration
<1>2. SlotInv'
  BY DEF IInv, TypeOK, SlotInv
<1>3. RecvInv' /\ BuffersAccounted'
  BY DEF IInv, RecvInv, BuffersAccounted, Receiving
<1> QED
  BY <1>1, <1>2, <1>3 DEF IInv

LEMMA StoreSteps ==
  ASSUME IInv, NEW f \in Field, Store(f)
  PROVE  IInv'
<1> USE DEF Store, recvVars, bufVars
<1>1. /\ init.slot \in Slot /\ init.slot \notin ready
      /\ init.reg \in Registration /\ granted[init.slot] = init.reg
  BY DEF IInv, SlotInv
<1>2. /\ interface' \in [Slot -> Handle]
      /\ interface'[init.slot][f] = init.reg[f]
      /\ \A t \in Slot, g \in Field :
           t # init.slot \/ g # f => interface'[t][g] = interface[t][g]
  BY <1>1, StoreField DEF IInv, TypeOK
<1>3. \A t \in Slot : t # init.slot => interface'[t] = interface[t]
  BY DEF IInv, TypeOK
<1>4. TypeOK'
  BY <1>2 DEF IInv, TypeOK
<1>5. SlotInv'
  BY <1>1, <1>2, <1>3 DEF IInv, TypeOK, SlotInv
<1>6. \A t \in Slot : interface[t].netif # None => interface'[t].netif = interface[t].netif
  <2> SUFFICES ASSUME NEW t \in Slot, interface[t].netif # None, t = init.slot, f = "netif"
               PROVE  interface'[t].netif = interface[t].netif
    BY <1>2 DEF Field
  <2>1. interface[t].netif \in {None, granted[t].netif}
    BY DEF IInv, SlotInv, Field
  <2> QED
    BY <1>1, <1>2, <2>1
<1>7. RecvInv'
  BY <1>6, PnalEthAssumption DEF IInv, TypeOK, RecvInv
<1> QED
  BY <1>4, <1>5, <1>7 DEF IInv, BuffersAccounted, Receiving

LEMMA ReturnSteps ==
  ASSUME IInv, InitReturn
  PROVE  IInv'
<1> USE DEF InitReturn, recvVars, bufVars
<1>1. /\ init.slot \in Slot /\ init.slot = nic_index - 1
      /\ init.reg \in Registration /\ granted[init.slot] = init.reg
  BY DEF IInv, SlotInv
<1>2. interface[init.slot] = granted[init.slot]
  BY <1>1, SameFields DEF IInv, TypeOK, SlotInv
<1>3. TypeOK'
  BY <1>1 DEF IInv, TypeOK, Initialization
<1>4. SlotInv'
  BY <1>1, <1>2 DEF IInv, TypeOK, SlotInv, Slot
<1>5. RecvInv' /\ BuffersAccounted'
  BY DEF IInv, RecvInv, BuffersAccounted, Receiving
<1> QED
  BY <1>3, <1>4, <1>5 DEF IInv

-----------------------------------------------------------------------------
(* Reception.                                                              *)

LEMMA ArriveSteps ==
  ASSUME IInv, NEW n \in Netif, NEW b \in Buf, Arrive(n, b)
  PROVE  IInv'
<1> USE DEF Arrive, initVars
<1>1. recv' = [pc |-> "find", netif |-> n, buf |-> b, slot |-> None,
               callback |-> None, arg |-> None]
  BY DEF NoFrame
<1>2. TypeOK'
  <2>1. recv' \in Reception
    BY <1>1 DEF Reception
  <2>2. ref' \in [Buf -> {0, 1}]
    BY DEF IInv, TypeOK
  <2>3. late' \in BOOLEAN
    BY Zenon
  <2> QED
    BY <2>1, <2>2, <2>3 DEF IInv, TypeOK
<1>3. SlotInv'
  BY DEF IInv, SlotInv
<1>4. RecvInv'
  BY <1>1 DEF RecvInv
<1>5. BuffersAccounted'
  <2>1. Receiving = {} /\ Receiving' = {b}
    BY <1>1 DEF Receiving
  <2> QED
    BY <2>1 DEF IInv, TypeOK, BuffersAccounted
<1> QED
  BY <1>2, <1>3, <1>4, <1>5 DEF IInv

(* The slots below one that has been returned have been returned too, so   *)
(* that the first one of an interface is complete when any is.             *)
LEMMA FirstIsReady ==
  ASSUME IInv, NEW s \in Slot, NEW t \in ready, s <= t
  PROVE  s \in ready
<1>1. s < nic_index /\ t < nic_index /\ t \in Slot
  BY DEF IInv, TypeOK, SlotInv, Slot
<1>2. SUFFICES ASSUME s \notin ready PROVE FALSE
  OBVIOUS
<1>3. s = nic_index - 1 /\ t # s
  BY <1>1, <1>2 DEF IInv, SlotInv
<1> QED
  BY <1>1, <1>2, <1>3 DEF IInv, TypeOK, Slot

LEMMA FindSteps ==
  ASSUME IInv, pnal_eth_find_handle
  PROVE  IInv'
<1> USE DEF pnal_eth_find_handle, initVars, bufVars
<1>1. recv.netif \in Netif /\ recv.buf \in Buf /\ recv.netif # None
  BY PnalEthAssumption DEF IInv, RecvInv
<1>2. recv' = [recv EXCEPT !.pc = "ignored"]
      \/ \E s \in Registered(recv.netif) : recv' = [recv EXCEPT !.pc = "call", !.slot = s]
  OBVIOUS
<1>3. recv'.netif = recv.netif /\ recv'.buf = recv.buf /\ recv'.pc \in {"ignored", "call"}
  BY <1>2 DEF IInv, TypeOK, Reception
<1>4. TypeOK'
  <2>1. recv' \in Reception
    BY <1>2 DEF IInv, TypeOK, Reception, Registered
  <2> QED
    BY <2>1 DEF IInv, TypeOK
<1>5. SlotInv'
  BY DEF IInv, SlotInv
<1>6. late => recv'.pc = "call" /\ recv'.slot \in ready
  <2> SUFFICES ASSUME late PROVE recv'.pc = "call" /\ recv'.slot \in ready
    OBVIOUS
  <2>1. PICK t \in ready : granted[t].netif = recv.netif
    BY DEF IInv, RecvInv
  <2>2. t \in Registered(recv.netif)
    BY <2>1 DEF IInv, TypeOK, SlotInv, Registered
  <2>3. PICK s \in Registered(recv.netif) :
          s <= t /\ recv' = [recv EXCEPT !.pc = "call", !.slot = s]
    BY <2>2
  <2> QED
    BY <2>3, FirstIsReady DEF IInv, TypeOK, Reception, Registered
<1>7. recv'.pc = "call" => recv'.slot \in Slot /\ interface[recv'.slot].netif = recv.netif
  BY <1>2 DEF IInv, TypeOK, Reception, Registered
<1>8. RecvInv'
  BY <1>1, <1>3, <1>6, <1>7 DEF RecvInv
<1>9. BuffersAccounted'
  <2>1. Receiving' = Receiving
    BY <1>3 DEF Receiving
  <2> QED
    BY <2>1 DEF IInv, BuffersAccounted
<1> QED
  BY <1>4, <1>5, <1>8, <1>9 DEF IInv

LEMMA CallSteps ==
  ASSUME IInv, CallCallback
  PROVE  IInv'
<1> USE DEF CallCallback, initVars, bufVars
<1>1. /\ recv.netif \in Netif /\ recv.buf \in Buf
      /\ recv.slot \in Slot /\ interface[recv.slot].netif = recv.netif
  BY DEF IInv, RecvInv
<1> DEFINE h == interface[recv.slot]
<1>2. h \in Handle
  BY <1>1 DEF IInv, TypeOK
<1>3. /\ recv'.netif = recv.netif /\ recv'.buf = recv.buf /\ recv'.slot = recv.slot
      /\ recv'.callback = h.callback /\ recv'.arg = h.arg
      /\ recv'.pc = IF h.callback = None THEN "fault" ELSE "callback"
  BY DEF IInv, TypeOK, Reception
<1>4. TypeOK'
  <2>1. recv' \in Reception
    BY <1>2 DEF IInv, TypeOK, Handle, Reception
  <2> QED
    BY <2>1 DEF IInv, TypeOK
<1>5. SlotInv'
  BY DEF IInv, SlotInv
<1>6. /\ h.callback \in {None, granted[recv.slot].callback}
      /\ h.arg \in {None, granted[recv.slot].arg}
  BY <1>1 DEF IInv, SlotInv, Field
<1>7. ASSUME late
      PROVE  /\ recv.slot \in ready /\ recv'.pc = "callback"
             /\ granted[recv.slot] =
                  [netif |-> recv.netif, callback |-> h.callback, arg |-> h.arg]
  <2>1. recv.slot \in ready /\ h = granted[recv.slot]
    BY <1>7 DEF IInv, SlotInv, RecvInv
  <2>2. h \in Registration
    BY <1>1, <1>2, <2>1, PnalEthAssumption DEF IInv, TypeOK, Unset
  <2>3. h.callback # None
    BY <2>2, PnalEthAssumption DEF Registration
  <2> QED
    BY <1>1, <1>2, <1>3, <2>1, <2>3 DEF Handle
<1>8. RecvInv'
  BY <1>1, <1>3, <1>6, <1>7 DEF RecvInv
<1>9. BuffersAccounted'
  <2>1. Receiving' = Receiving
    BY <1>3 DEF Receiving
  <2> QED
    BY <2>1 DEF IInv, BuffersAccounted
<1> QED
  BY <1>4, <1>5, <1>8, <1>9 DEF IInv

LEMMA CallbackSteps ==
  ASSUME IInv, NEW processed \in BOOLEAN, CallbackReturns(processed)
  PROVE  IInv'
<1> USE DEF CallbackReturns, initVars
<1>1. recv.netif \in Netif /\ recv.buf \in Buf
  BY DEF IInv, RecvInv
<1>2. /\ recv'.netif = recv.netif /\ recv'.buf = recv.buf /\ recv'.slot = recv.slot
      /\ recv'.callback = recv.callback /\ recv'.arg = recv.arg
      /\ recv'.pc = IF processed THEN "processed" ELSE "ignored"
  BY DEF IInv, TypeOK, Reception
<1>3. Receiving = {recv.buf} /\ ref[recv.buf] = 1 /\ recv.buf \notin held
  BY <1>1 DEF IInv, BuffersAccounted, Receiving
<1>4. SlotInv' /\ RecvInv'
  BY <1>1, <1>2 DEF IInv, SlotInv, RecvInv
<1>5. CASE processed
  <2>1. ref' = [ref EXCEPT ![recv.buf] = 0] /\ Receiving' = {}
    BY <1>2, <1>3, <1>5 DEF pbuf_free, IInv, TypeOK, Receiving
  <2>2. TypeOK'
    <3>1. recv' \in Reception
      BY <1>5 DEF IInv, TypeOK, Reception
    <3>2. ref' \in [Buf -> {0, 1}]
      BY <2>1 DEF IInv, TypeOK
    <3> QED
      BY <3>1, <3>2 DEF IInv, TypeOK
  <2>3. BuffersAccounted'
    BY <1>3, <2>1 DEF IInv, TypeOK, BuffersAccounted
  <2> QED
    BY <1>4, <2>2, <2>3 DEF IInv
<1>6. CASE ~ processed
  <2>1. ref' = ref /\ Receiving' = Receiving
    BY <1>2, <1>6 DEF Receiving
  <2>2. TypeOK'
    <3>1. recv' \in Reception
      BY <1>6 DEF IInv, TypeOK, Reception
    <3> QED
      BY <2>1, <3>1 DEF IInv, TypeOK
  <2> QED
    BY <1>4, <2>1, <2>2 DEF IInv, BuffersAccounted
<1> QED
  BY <1>5, <1>6

LEMMA RecvReturnSteps ==
  ASSUME IInv, RecvReturn
  PROVE  IInv'
<1> USE DEF RecvReturn, initVars
<1>1. recv'.pc = "idle" /\ ~ late' /\ Receiving' = {}
  BY DEF NoFrame, Receiving
<1>2. SlotInv' /\ RecvInv'
  BY <1>1 DEF IInv, SlotInv, RecvInv
<1>3. ref' \in [Buf -> {0, 1}] /\ \A b \in Buf : ref'[b] = IF b \in held THEN 1 ELSE 0
  <2>1. CASE ReturnsError
    <3>1. recv.buf \in Buf /\ Receiving = {recv.buf} /\ ref[recv.buf] = 1 /\ recv.buf \notin held
      BY <2>1 DEF ReturnsError, IInv, RecvInv, BuffersAccounted, Receiving
    <3>2. ref' = [ref EXCEPT ![recv.buf] = 0]
      BY <2>1, <3>1 DEF pbuf_free, IInv, TypeOK
    <3> QED
      BY <3>1, <3>2 DEF IInv, TypeOK, BuffersAccounted
  <2>2. CASE ~ ReturnsError
    <3>1. ref' = ref /\ Receiving = {}
      BY <2>2 DEF ReturnsError, Receiving
    <3> QED
      BY <3>1 DEF IInv, TypeOK, BuffersAccounted
  <2> QED
    BY <2>1, <2>2
<1>4. TypeOK'
  <2>1. recv' \in Reception
    BY DEF NoFrame, Reception
  <2>2. late' \in BOOLEAN
    BY Zenon
  <2> QED
    BY <1>3, <2>1, <2>2 DEF IInv, TypeOK
<1> QED
  BY <1>1, <1>2, <1>3, <1>4 DEF IInv, BuffersAccounted

-----------------------------------------------------------------------------
(* Buffers and sending.                                                    *)

LEMMA AllocSteps ==
  ASSUME IInv, NEW b \in Buf, pnal_buf_alloc(b)
  PROVE  IInv'
<1> USE DEF pnal_buf_alloc, initVars, recvVars
<1>1. ref' = [ref EXCEPT ![b] = 1] /\ b \notin held \cup Receiving
  BY DEF IInv, BuffersAccounted
<1>2. TypeOK'
  BY DEF IInv, TypeOK
<1>3. SlotInv' /\ RecvInv'
  BY DEF IInv, SlotInv, RecvInv
<1>4. Receiving' = Receiving
  BY DEF Receiving
<1>5. BuffersAccounted'
  BY <1>1, <1>4 DEF IInv, TypeOK, BuffersAccounted
<1> QED
  BY <1>2, <1>3, <1>5 DEF IInv

LEMMA FreeSteps ==
  ASSUME IInv, NEW b \in Buf, pnal_buf_free(b)
  PROVE  IInv'
<1> USE DEF pnal_buf_free, initVars, recvVars
<1>1. ref[b] = 1 /\ b \in held /\ b \notin Receiving /\ b # sending
  BY DEF IInv, BuffersAccounted
<1>2. ref' = [ref EXCEPT ![b] = 0]
  BY <1>1 DEF pbuf_free, IInv, TypeOK
<1>3. TypeOK'
  BY <1>1, <1>2 DEF IInv, TypeOK
<1>4. SlotInv' /\ RecvInv'
  BY DEF IInv, SlotInv, RecvInv
<1>5. Receiving' = Receiving
  BY DEF Receiving
<1>6. BuffersAccounted'
  BY <1>1, <1>2, <1>5 DEF IInv, TypeOK, BuffersAccounted
<1> QED
  BY <1>3, <1>4, <1>6 DEF IInv

LEMMA SendSteps ==
  ASSUME IInv, (\E b \in Buf : pnal_eth_send(b)) \/ SendReturn
  PROVE  IInv'
<1> USE DEF pnal_eth_send, SendReturn, initVars, recvVars
<1>1. TypeOK'
  BY DEF IInv, TypeOK
<1>2. SlotInv' /\ RecvInv'
  BY DEF IInv, SlotInv, RecvInv
<1>3. BuffersAccounted'
  BY DEF IInv, BuffersAccounted, Receiving
<1> QED
  BY <1>1, <1>2, <1>3 DEF IInv

LEMMA StutterSteps ==
  ASSUME IInv, UNCHANGED vars
  PROVE  IInv'
BY DEF vars, initVars, recvVars, bufVars, IInv, TypeOK, SlotInv, RecvInv,
       BuffersAccounted, Receiving

-----------------------------------------------------------------------------
(* The theorems.                                                           *)

LEMMA NextInv == IInv /\ [Next]_vars => IInv'
<1> SUFFICES ASSUME IInv, [Next]_vars PROVE IInv'
  OBVIOUS
<1>1. CASE Registering
  BY <1>1, InitStarts, AllocateSteps, HookSteps, StoreSteps, ReturnSteps DEF Registering
<1>2. CASE \E n \in Netif, b \in Buf : Arrive(n, b)
  BY <1>2, ArriveSteps
<1>3. CASE pnal_eth_sys_recv
  BY <1>3, FindSteps, CallSteps, CallbackSteps, RecvReturnSteps DEF pnal_eth_sys_recv
<1>4. CASE \E b \in Buf : pnal_buf_alloc(b) \/ pnal_buf_free(b) \/ pnal_eth_send(b)
  BY <1>4, AllocSteps, FreeSteps, SendSteps
<1>5. CASE SendReturn
  BY <1>5, SendSteps
<1>6. CASE UNCHANGED vars
  BY <1>6, StutterSteps
<1> QED
  BY <1>1, <1>2, <1>3, <1>4, <1>5, <1>6 DEF Next

LEMMA IInvInvariant == Spec => []IInv
  BY InitInv, NextInv, PTL DEF Spec

(* Slots, buffers and the state of both threads have their types for any   *)
(* number of interfaces: in particular no slot is filled beyond the array. *)
THEOREM TypeCorrect == Spec => []TypeOK
<1>1. IInv => TypeOK
  BY DEF IInv
<1> QED
  BY <1>1, IInvInvariant, PTL

(* Every buffer that is not in the pool is in one hand: no frame is freed  *)
(* twice or never, for any pool.                                           *)
THEOREM BufferSafety == Spec => []BuffersAccounted
<1>1. IInv => BuffersAccounted
  BY DEF IInv
<1> QED
  BY <1>1, IInvInvariant, PTL

(* The callback that is called is the one registered for the interface of  *)
(* the frame, in whatever order the fields of a slot are stored.           *)
THEOREM CallbackSafety == Spec => []RightCallback
<1>1. IInv => RightCallback
  <2> SUFFICES ASSUME IInv, recv.pc = "callback"
               PROVE  granted[recv.slot].netif = recv.netif
                      /\ granted[recv.slot].callback = recv.callback
                      /\ recv.arg \in {granted[recv.slot].arg, None}
    BY DEF RightCallback
  <2>1. recv.slot \in Slot /\ interface[recv.slot].netif = recv.netif /\ recv.netif \in Netif
    BY DEF IInv, RecvInv
  <2>2. interface[recv.slot].netif \in {None, granted[recv.slot].netif}
    BY <2>1 DEF IInv, SlotInv, Field
  <2> QED
    BY <2>1, <2>2, PnalEthAssumption DEF IInv, RecvInv
<1> QED
  BY <1>1, IInvInvariant, PTL

(* Once pnal_eth_init has returned, frames reach the callback with its     *)
(* argument, though the slot was filled without a lock.                    *)
THEOREM Delivery == Spec => []DeliveredOnceReady
<1>1. IInv => DeliveredOnceReady
  BY DEF IInv, RecvInv, DeliveredOnceReady
<1> QED
  BY <1>1, IInvInvariant, PTL

=============================================================================
