------------------------------ MODULE PnalEth -------------------------------
(***************************************************************************)
(* Raw Ethernet frames: rte/src/net/pnal_eth.c and the buffers of          *)
(* rte/src/pnal.c, between U-Phy and lwIP.                                 *)
(*                                                                         *)
(* U-Phy's start-up thread calls pnal_eth_init, lwIP's thread receives     *)
(* frames meanwhile.  lwIP's thread holds the core lock while it handles a *)
(* frame and pnal_eth_send takes it, but pnal_eth_init does not: the slot  *)
(* that it fills is shared without a lock and is not volatile, so that its *)
(* three stores may take place in any order.                               *)
(*                                                                         *)
(* Not under src/: lwIP, which passes frames of unknown types to the hook  *)
(* and frees those that come back with an error; and U-Phy's callback,     *)
(* which frees exactly the frames that it handles (pnal.h).  Assertions    *)
(* are enabled: pnal_buf_free frees inside one.                            *)
(***************************************************************************)
EXTENDS Integers

CONSTANTS
  Netif,         \* the network interfaces of lwIP
  Callback,      \* the functions that U-Phy registers
  Arg,           \* and their arguments
  Buf,           \* the buffers of lwIP's pool
  MaxInterfaces, \* MAX_NUMBER_OF_IF
  None           \* NULL

ASSUME PnalEthAssumption ==
  /\ None \notin Netif \cup Callback \cup Arg \cup Buf
  /\ MaxInterfaces \in Nat

Slot == 0 .. MaxInterfaces - 1
Field == {"netif", "callback", "arg"}

\* What a caller passes to pnal_eth_init; netif_find may find no interface.
Registration == [netif : Netif \cup {None}, callback : Callback, arg : Arg]

\* struct pnal_eth_handle
Handle == [netif : Netif \cup {None}, callback : Callback \cup {None}, arg : Arg \cup {None}]
Unset == [netif |-> None, callback |-> None, arg |-> None]

VARIABLES
  interface, \* the slots
  nic_index,
  hook,      \* the interfaces whose hook for unknown frames is installed
  init,      \* how far pnal_eth_init is: pc, the slot it got, and what it
             \* was given
  todo,      \* the fields it has not stored yet
  recv,      \* how far lwIP's thread is with a frame: pc, interface, buffer,
             \* slot, and the callback and argument read from it
  ref,       \* per buffer: its reference count
  held,      \* the buffers that U-Phy has allocated
  sending,   \* the one it is sending, or None
  lock,      \* who has lwIP's core lock: "none", "lwip" or "uphy"
  granted,   \* history: per slot, the registration that got it
  ready,     \* history: the slots that pnal_eth_init has returned
  late       \* history: pnal_eth_init had returned when the frame came

initVars == <<interface, nic_index, hook, init, todo, granted, ready>>
recvVars == <<recv, late>>
bufVars == <<ref, held, sending>>
vars == <<initVars, recvVars, bufVars, lock>>

NoFrame == [pc |-> "idle", netif |-> None, buf |-> None, slot |-> None,
            callback |-> None, arg |-> None]

Init ==
  /\ interface = [s \in Slot |-> Unset]
  /\ nic_index = 0
  /\ hook = {}
  /\ init = [pc |-> "idle", slot |-> None, reg |-> Unset]
  /\ todo = {}
  /\ recv = NoFrame
  /\ ref = [b \in Buf |-> 0]
  /\ held = {}
  /\ sending = None
  /\ lock = "none"
  /\ granted = [s \in Slot |-> Unset]
  /\ ready = {}
  /\ late = FALSE

-----------------------------------------------------------------------------
(* pnal_eth_init.                                                          *)

\* An interface that is not found ends the call.
pnal_eth_init(reg) ==
  /\ init.pc = "idle"
  /\ init' = [pc |-> IF reg.netif = None THEN "idle" ELSE "allocate",
              slot |-> None, reg |-> reg]
  /\ UNCHANGED <<interface, nic_index, hook, todo, granted, ready, recvVars, bufVars, lock>>

\* Mutant of Available: one interface too many.
AvailableAtLimit == nic_index <= MaxInterfaces

Available == nic_index < MaxInterfaces

\* Mutant of Allocate: the slot stays the next one to be given out.
AllocateAgain ==
  /\ init.pc = "allocate" /\ Available
  /\ init' = [init EXCEPT !.pc = "hook", !.slot = nic_index]
  /\ granted' = [granted EXCEPT ![nic_index] = init.reg]
  /\ UNCHANGED <<interface, nic_index, hook, todo, ready, recvVars, bufVars, lock>>

Allocate ==
  /\ init.pc = "allocate" /\ Available
  /\ init' = [init EXCEPT !.pc = "hook", !.slot = nic_index]
  /\ nic_index' = nic_index + 1
  /\ granted' = [granted EXCEPT ![nic_index] = init.reg]
  /\ UNCHANGED <<interface, hook, todo, ready, recvVars, bufVars, lock>>

TooManyInterfaces ==
  /\ init.pc = "allocate" /\ ~ Available
  /\ init' = [init EXCEPT !.pc = "idle"]
  /\ UNCHANGED <<interface, nic_index, hook, todo, granted, ready, recvVars, bufVars, lock>>

pnal_eth_allocate_handle == Allocate \/ TooManyInterfaces

SetHook ==
  /\ init.pc = "hook"
  /\ hook' = hook \cup {init.reg.netif}
  /\ todo' = Field
  /\ init' = [init EXCEPT !.pc = "store"]
  /\ UNCHANGED <<interface, nic_index, granted, ready, recvVars, bufVars, lock>>

Store(f) ==
  /\ init.pc = "store" /\ f \in todo
  /\ interface' = [interface EXCEPT ![init.slot][f] = init.reg[f]]
  /\ todo' = todo \ {f}
  /\ UNCHANGED <<nic_index, hook, init, granted, ready, recvVars, bufVars, lock>>

InitReturn ==
  /\ init.pc = "store" /\ todo = {}
  /\ init' = [init EXCEPT !.pc = "idle"]
  /\ ready' = ready \cup {init.slot}
  /\ UNCHANGED <<interface, nic_index, hook, todo, granted, recvVars, bufVars, lock>>

-----------------------------------------------------------------------------
(* Reception, by lwIP's thread.                                            *)

\* A frame for the hook, in a buffer of the pool
Arrive(n, b) ==
  /\ recv.pc = "idle" /\ lock = "none"
  /\ n \in hook /\ ref[b] = 0
  /\ recv' = [NoFrame EXCEPT !.pc = "find", !.netif = n, !.buf = b]
  /\ ref' = [ref EXCEPT ![b] = 1]
  /\ lock' = "lwip"
  /\ late' = \E s \in ready : granted[s].netif = n
  /\ UNCHANGED <<initVars, held, sending>>

\* Mutant of Registered: the last slot is left out.
RegisteredButLast(n) == {s \in Slot : s < MaxInterfaces - 1 /\ interface[s].netif = n}

Registered(n) == {s \in Slot : interface[s].netif = n}

\* The first slot of the interface; without one p-net is not started yet.
pnal_eth_find_handle ==
  /\ recv.pc = "find"
  /\ IF Registered(recv.netif) = {}
     THEN recv' = [recv EXCEPT !.pc = "ignored"]
     ELSE \E s \in Registered(recv.netif) :
            /\ \A t \in Registered(recv.netif) : s <= t
            /\ recv' = [recv EXCEPT !.pc = "call", !.slot = s]
  /\ UNCHANGED <<initVars, bufVars, lock, late>>

\* Calling a function that is not set yet is undefined: the device stops.
CallCallback ==
  /\ recv.pc = "call"
  /\ LET handle == interface[recv.slot] IN
       recv' = [recv EXCEPT !.pc = IF handle.callback = None THEN "fault" ELSE "callback",
                            !.callback = handle.callback, !.arg = handle.arg]
  /\ UNCHANGED <<initVars, bufVars, lock, late>>

pbuf_free(b) == ref' = [ref EXCEPT ![b] = @ - 1]

\* The callback handles the frame and frees it, or leaves it alone.
CallbackReturns(processed) ==
  /\ recv.pc = "callback"
  /\ IF processed THEN pbuf_free(recv.buf) ELSE UNCHANGED ref
  /\ recv' = [recv EXCEPT !.pc = IF processed THEN "processed" ELSE "ignored"]
  /\ UNCHANGED <<initVars, held, sending, lock, late>>

\* Mutant of ReturnsError: the result of the callback is not looked at.
ReturnsErrorAlways == recv.pc \in {"processed", "ignored"}

\* pnal_eth_sys_recv returns ERR_IF.
ReturnsError == recv.pc = "ignored"

\* lwIP frees a frame for which the hook returns an error.
RecvReturn ==
  /\ recv.pc \in {"processed", "ignored"}
  /\ IF ReturnsError THEN pbuf_free(recv.buf) ELSE UNCHANGED ref
  /\ recv' = NoFrame
  /\ lock' = "none"
  /\ late' = FALSE
  /\ UNCHANGED <<initVars, held, sending>>

-----------------------------------------------------------------------------
(* Buffers and sending, by U-Phy's threads.                                *)

pnal_buf_alloc(b) ==
  /\ ref[b] = 0
  /\ ref' = [ref EXCEPT ![b] = 1]
  /\ held' = held \cup {b}
  /\ UNCHANGED <<initVars, recvVars, sending, lock>>

pnal_buf_free(b) ==
  /\ b \in held /\ b # sending
  /\ pbuf_free(b)
  /\ held' = held \ {b}
  /\ UNCHANGED <<initVars, recvVars, sending, lock>>

\* linkoutput, under the core lock.  Without a buffer it returns -1 and changes
\* nothing, which is no step.
pnal_eth_send(b) ==
  /\ ready # {}
  /\ b \in held
  /\ lock = "none"
  /\ lock' = "uphy"
  /\ sending' = b
  /\ UNCHANGED <<initVars, recvVars, ref, held>>

SendReturn ==
  /\ lock = "uphy"
  /\ lock' = "none"
  /\ sending' = None
  /\ UNCHANGED <<initVars, recvVars, ref, held>>

Registering ==
  \/ \E reg \in Registration : pnal_eth_init(reg)
  \/ pnal_eth_allocate_handle \/ SetHook
  \/ \E f \in Field : Store(f)
  \/ InitReturn

pnal_eth_sys_recv ==
  \/ pnal_eth_find_handle \/ CallCallback
  \/ \E processed \in BOOLEAN : CallbackReturns(processed)
  \/ RecvReturn

Next ==
  /\ recv.pc # "fault"
  /\ \/ Registering
     \/ \E n \in Netif, b \in Buf : Arrive(n, b)
     \/ pnal_eth_sys_recv
     \/ \E b \in Buf : pnal_buf_alloc(b) \/ pnal_buf_free(b) \/ pnal_eth_send(b)
     \/ SendReturn

Spec == Init /\ [][Next]_vars

-----------------------------------------------------------------------------
(* Properties.                                                             *)

Initialization ==
  [pc : {"idle", "allocate", "hook", "store"}, slot : Slot \cup {None},
   reg : Registration \cup {Unset}]

Reception ==
  [pc : {"idle", "find", "call", "callback", "processed", "ignored", "fault"},
   netif : Netif \cup {None}, buf : Buf \cup {None}, slot : Slot \cup {None},
   callback : Callback \cup {None}, arg : Arg \cup {None}]

TypeOK ==
  /\ interface \in [Slot -> Handle]
  /\ nic_index \in 0 .. MaxInterfaces
  /\ hook \subseteq Netif
  /\ init \in Initialization
  /\ todo \subseteq Field
  /\ recv \in Reception
  /\ ref \in [Buf -> {0, 1}]
  /\ held \subseteq Buf
  /\ sending \in held \cup {None}
  /\ lock \in {"none", "lwip", "uphy"}
  /\ granted \in [Slot -> Registration \cup {Unset}]
  /\ ready \subseteq Slot
  /\ late \in BOOLEAN

(* Every buffer that is not in the pool is in one hand: U-Phy's, or that   *)
(* of lwIP's thread with the frame it handles.  No frame is lost to the    *)
(* pool, and none is freed twice, by the callback and by lwIP, which would *)
(* free a buffer that U-Phy has allocated in between.                      *)
Receiving == IF recv.pc \in {"find", "call", "callback", "ignored", "fault"} THEN {recv.buf} ELSE {}

BuffersAccounted ==
  /\ held \cap Receiving = {}
  /\ \A b \in Buf : ref[b] = IF b \in held \cup Receiving THEN 1 ELSE 0

(* A callback that is called was registered for the interface the frame    *)
(* came from, and its argument is the one registered with it, or not set   *)
(* yet: a slot never mixes two registrations, though frames come while it  *)
(* is filled.                                                              *)
RightCallback ==
  recv.pc = "callback" =>
    /\ granted[recv.slot].netif = recv.netif
    /\ granted[recv.slot].callback = recv.callback
    /\ recv.arg \in {granted[recv.slot].arg, None}

(* A frame that came after pnal_eth_init had returned is given to the      *)
(* callback, with the argument: it is never passed over, and never meets a *)
(* slot that is not complete, though the slot is published without a lock. *)
DeliveredOnceReady ==
  late =>
    /\ recv.pc # "fault"
    /\ recv.pc \in {"callback", "processed", "ignored"} =>
         /\ recv.slot \in ready
         /\ granted[recv.slot] =
              [netif |-> recv.netif, callback |-> recv.callback, arg |-> recv.arg]

=============================================================================
