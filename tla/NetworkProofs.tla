--------------------------- MODULE NetworkProofs ----------------------------
(***************************************************************************)
(* Proofs about Network, for any addresses, any number of attempts and any *)
(* number of events under way.                                             *)
(***************************************************************************)
EXTENDS Network, TLAPS

Address == Addr \cup {NoAddr}

\* The start-up task has another attempt, and what it has read it has.
StartUpInv ==
  /\ app = "connect" => retry < MaxRetry
  /\ app \in {"get_gw", "get_mask", "dhcp_off", "set_addr"} => chosen.ip # None
  /\ app \in {"get_mask", "dhcp_off", "set_addr"} => chosen.gw # None
  /\ app \in {"dhcp_off", "set_addr"} => chosen.mask # None

\* So has sync_db.
ReadInv ==
  /\ cb \in {"read_mask", "read_gw", "write_ip"} => read.ip # None
  /\ cb \in {"read_gw", "write_ip", "write_mask"} => read.mask # None
  /\ cb \in {"write_ip", "write_mask", "write_gw"} => read.gw # None

\* The newest event, or the last one delivered, carries the interface's address.
EventInv ==
  /\ events = <<>> => prev = netif.ip
  /\ events # <<>> => events[Len(events)] = netif.ip

\* No event under way tells the callback anything new.
NothingNew == \A i \in 1 .. Len(events) : events[i] = prev

\* While nothing new is under way, what sync_db has read and written is current.
SyncInv ==
  NothingNew =>
    /\ cb = "idle" /\ netif.ip # NoAddr => db.ip = netif.ip
    /\ cb \in {"read_mask", "read_gw", "write_ip"} => read.ip = netif.ip
    /\ cb \in {"write_mask", "write_gw", "write_dhcp"} => db.ip = netif.ip

IInv == TypeOK /\ StartUpInv /\ ReadInv /\ EventInv /\ SyncInv

-----------------------------------------------------------------------------

LEMMA InitInv == Init => IInv
<1> SUFFICES ASSUME Init PROVE IInv
  OBVIOUS
<1> USE NetworkAssumption DEF Init, NoSetting
<1>1. TypeOK
  <2>1. netif \in [ip : Address, mask : Mask, gw : Gateway]
    BY DEF Setting, Address
  <2>2. db \in [ip : Address, mask : Mask, gw : Gateway, dhcp : BOOLEAN]
    BY DEF Setting, Address
  <2>3. chosen \in [ip : Read(Address), mask : Read(Mask), gw : Read(Gateway)]
        /\ read \in [ip : Read(Address), mask : Read(Mask), gw : Read(Gateway)]
    BY DEF Read
  <2>4. events \in Seq(Address) /\ Len(events) <= MaxEvents
    OBVIOUS
  <2>5. config \in IpConfig /\ dhcp \in BOOLEAN /\ prev \in Address
    BY Zenon DEF Address
  <2>6. retry \in 0 .. MaxRetry
    OBVIOUS
  <2>7. app \in {"connect", "get_ip", "get_gw", "get_mask", "dhcp_off", "set_addr",
                 "dhcp_on", "done", "failed"}
    OBVIOUS
  <2>8. cb \in {"idle", "read_ip", "read_mask", "read_gw",
                "write_ip", "write_mask", "write_gw", "write_dhcp"}
    OBVIOUS
  <2> QED
    BY <2>1, <2>2, <2>3, <2>4, <2>5, <2>6, <2>7, <2>8, Zenon DEF TypeOK, Address
<1>2. StartUpInv /\ ReadInv /\ EventInv /\ SyncInv
  BY DEF StartUpInv, ReadInv, EventInv, SyncInv
<1> QED
  BY <1>1, <1>2 DEF IInv

(* A change of the interface that tells lwIP of a new address is an event; *)
(* one that keeps the address disturbs nothing.  This is what every change *)
(* of the interface relies on.                                             *)
LEMMA SetNetifKeeps ==
  ASSUME IInv, NEW new \in [ip : Address, mask : Mask, gw : Gateway],
         SetNetif(new), UNCHANGED <<cb, prev, read, db>>
  PROVE  /\ netif' \in [ip : Address, mask : Mask, gw : Gateway]
         /\ events' \in Seq(Address) /\ Len(events') <= MaxEvents
         /\ EventInv' /\ SyncInv'
<1>1. events \in Seq(Address) /\ netif \in [ip : Address, mask : Mask, gw : Gateway]
  BY DEF IInv, TypeOK, Address
<1>2. netif' = new /\ Len(events') <= MaxEvents
  BY DEF SetNetif
<1>3. CASE new.ip = netif.ip
  <2>1. events' = events /\ netif'.ip = netif.ip
    BY <1>2, <1>3 DEF SetNetif
  <2> QED
    BY <1>1, <1>2, <2>1 DEF IInv, EventInv, SyncInv, NothingNew
<1>4. CASE new.ip # netif.ip
  <2>1. events' = Append(events, new.ip)
    BY <1>4 DEF SetNetif
  <2>2. /\ events' \in Seq(Address) /\ Len(events') = Len(events) + 1
        /\ events'[Len(events')] = new.ip
        /\ \A i \in 1 .. Len(events) : events'[i] = events[i]
    BY <1>1, <2>1
  <2>3. EventInv'
    BY <1>1, <1>2, <2>2 DEF EventInv
  <2>4. ~NothingNew'
    <3>1. CASE events = <<>>
      BY <1>1, <1>4, <2>2, <3>1 DEF IInv, EventInv, NothingNew
    <3>2. CASE events # <<>>
      <4>1. Len(events) \in 1 .. Len(events') /\ Len(events') \in 1 .. Len(events')
        BY <1>1, <2>2, <3>2
      <4>2. events'[Len(events)] # events'[Len(events')]
        BY <1>1, <1>4, <2>2, <3>2 DEF IInv, EventInv
      <4> QED
        BY <4>1, <4>2 DEF NothingNew
    <3> QED
      BY <3>1, <3>2
  <2> QED
    BY <1>2, <2>2, <2>3, <2>4 DEF SyncInv
<1> QED
  BY <1>3, <1>4

LEMMA DhcpSetKeeps ==
  ASSUME IInv, NEW enable \in BOOLEAN, DhcpSet(enable), UNCHANGED <<cb, prev, read, db>>
  PROVE  /\ dhcp' \in BOOLEAN
         /\ netif' \in [ip : Address, mask : Mask, gw : Gateway]
         /\ events' \in Seq(Address) /\ Len(events') <= MaxEvents
         /\ EventInv' /\ SyncInv'
<1>1. netif \in [ip : Address, mask : Mask, gw : Gateway]
      /\ events \in Seq(Address) /\ Len(events) <= MaxEvents
  BY DEF IInv, TypeOK, Address
<1>2. dhcp' \in BOOLEAN
  BY DEF DhcpSet
<1>3. CASE ~enable /\ dhcp
  <2>1. [netif EXCEPT !.ip = NoAddr] \in [ip : Address, mask : Mask, gw : Gateway]
    BY <1>1 DEF Address
  <2>2. SetNetif([netif EXCEPT !.ip = NoAddr])
    BY <1>3 DEF DhcpSet
  <2> QED
    BY <1>2, <2>1, <2>2, SetNetifKeeps
<1>4. CASE ~(~enable /\ dhcp)
  <2>1. UNCHANGED <<netif, events>>
    BY <1>4 DEF DhcpSet
  <2> QED
    BY <1>1, <1>2, <2>1 DEF IInv, EventInv, SyncInv, NothingNew
<1> QED
  BY <1>3, <1>4

(* A change of the interface by anyone but the callback keeps the          *)
(* invariant when the start-up task's own state stays sound.               *)
LEMMA InterfaceStep ==
  ASSUME IInv, UNCHANGED <<cb, prev, read, db, config>>,
         dhcp' \in BOOLEAN,
         netif' \in [ip : Address, mask : Mask, gw : Gateway],
         events' \in Seq(Address), Len(events') <= MaxEvents,
         EventInv', SyncInv',
         UNCHANGED <<app, retry, chosen>> \/
           (/\ app' \in {"get_ip", "set_addr", "dhcp_on", "done"}
            /\ UNCHANGED <<retry, chosen>>
            /\ app' = "set_addr" => app = "dhcp_off")
  PROVE  IInv'
<1>1. TypeOK'
  BY DEF IInv, TypeOK, Address, IpConfig
<1>2. StartUpInv'
  BY DEF IInv, StartUpInv
<1>3. ReadInv'
  BY DEF IInv, ReadInv
<1> QED
  BY <1>1, <1>2, <1>3 DEF IInv

-----------------------------------------------------------------------------
(* Whoever changes the interface.                                          *)

LEMMA LeaseStep ==
  ASSUME IInv, NEW a \in Addr, Lease(a)
  PROVE  IInv'
<1>1. [netif EXCEPT !.ip = a] \in [ip : Address, mask : Mask, gw : Gateway]
  BY DEF IInv, TypeOK, Address
<1>2. dhcp' \in BOOLEAN
  BY DEF Lease, IInv, TypeOK
<1> QED
  BY <1>1, <1>2, SetNetifKeeps, InterfaceStep DEF Lease, appVars, cbVars

LEMMA RepeatStep ==
  ASSUME IInv, Repeat
  PROVE  IInv'
<1>1. /\ events \in Seq(Address) /\ netif.ip \in Address
      /\ events' = Append(events, netif.ip) /\ Len(events) < MaxEvents
  BY DEF Repeat, IInv, TypeOK, Address
<1>2. /\ events' \in Seq(Address) /\ Len(events') = Len(events) + 1
      /\ events'[Len(events')] = netif.ip
      /\ \A i \in 1 .. Len(events) : events'[i] = events[i]
  BY <1>1
<1>3. Len(events') <= MaxEvents
  BY <1>1, <1>2, NetworkAssumption
<1>4. UNCHANGED <<netif, dhcp, db, config, app, retry, chosen, cb, prev, read>>
  BY DEF Repeat, appVars, cbVars
<1>5. EventInv'
  BY <1>1, <1>2, <1>4 DEF EventInv
<1>6. NothingNew' => NothingNew
  BY <1>1, <1>2, <1>4 DEF NothingNew
<1>7. SyncInv'
  BY <1>4, <1>6 DEF IInv, SyncInv
<1>8. dhcp' \in BOOLEAN /\ netif' \in [ip : Address, mask : Mask, gw : Gateway]
  BY <1>4 DEF IInv, TypeOK, Address
<1> QED
  BY <1>2, <1>3, <1>4, <1>5, <1>7, <1>8, InterfaceStep

LEMMA UphyStep ==
  ASSUME IInv, NEW ip \in Addr, NEW mask \in Mask, UphySetAddr(ip, mask)
  PROVE  IInv'
<1>1. [netif EXCEPT !.ip = ip, !.mask = mask] \in [ip : Address, mask : Mask, gw : Gateway]
  BY DEF IInv, TypeOK, Address
<1>2. dhcp' \in BOOLEAN
  BY DEF UphySetAddr, IInv, TypeOK
<1> QED
  BY <1>1, <1>2, SetNetifKeeps, InterfaceStep DEF UphySetAddr, appVars, cbVars

LEMMA NetcfgStep ==
  ASSUME IInv, NEW ip \in Addr \cup {None}, NEW mask \in Mask \cup {None},
         NEW gw \in Gateway \cup {None}, NEW mode \in {"on", "off", None},
         Netcfg(ip, mask, gw, mode)
  PROVE  IInv'
<1>1. UNCHANGED <<db, config, app, retry, chosen, cb, prev, read>>
  BY DEF Netcfg, appVars, cbVars
<1>2. netif \in [ip : Address, mask : Mask, gw : Gateway] /\ dhcp \in BOOLEAN
      /\ events \in Seq(Address) /\ Len(events) <= MaxEvents
  BY DEF IInv, TypeOK, Address
<1>3. CASE mode # None
  <2>1. DhcpSet(mode = "on")
    BY <1>3 DEF Netcfg
  <2> QED
    BY <1>1, <2>1, DhcpSetKeeps, InterfaceStep
<1>4. CASE mode = None /\ NetcfgSet(ip, mask, gw) /\ UNCHANGED dhcp
  <2>1. CASE ip # None
    <3>1. [netif EXCEPT !.ip = ip] \in [ip : Address, mask : Mask, gw : Gateway]
      BY <1>2, <2>1 DEF Address
    <3> QED
      BY <1>1, <1>2, <1>4, <2>1, <3>1, SetNetifKeeps, InterfaceStep DEF NetcfgSet
  <2>2. CASE ip = None /\ mask # None
    <3>1. [netif EXCEPT !.mask = mask] \in [ip : Address, mask : Mask, gw : Gateway]
      BY <1>2, <2>2
    <3> QED
      BY <1>1, <1>2, <1>4, <2>2, <3>1, SetNetifKeeps, InterfaceStep DEF NetcfgSet
  <2>3. CASE ip = None /\ mask = None /\ gw # None
    <3>1. [netif EXCEPT !.gw = gw] \in [ip : Address, mask : Mask, gw : Gateway]
      BY <1>2, <2>3
    <3> QED
      BY <1>1, <1>2, <1>4, <2>3, <3>1, SetNetifKeeps, InterfaceStep DEF NetcfgSet
  <2>4. CASE ip = None /\ mask = None /\ gw = None
    <3>1. UNCHANGED <<netif, events>>
      BY <1>4, <2>4 DEF NetcfgSet
    <3>2. EventInv' /\ SyncInv'
      BY <1>1, <3>1 DEF IInv, EventInv, SyncInv, NothingNew
    <3> QED
      BY <1>1, <1>2, <1>4, <3>1, <3>2, InterfaceStep
  <2> QED
    BY <2>1, <2>2, <2>3, <2>4
<1> QED
  BY <1>3, <1>4 DEF Netcfg

-----------------------------------------------------------------------------
(* connect_to_ethernet.                                                    *)

LEMMA StartUpStep ==
  ASSUME IInv, StartUp
  PROVE  IInv'
<1> USE DEF appVars, cbVars
<1>1. CASE ConnectFails
  <2> USE <1>1, NetworkAssumption DEF ConnectFails, GiveUp
  <2>1. retry \in Nat /\ retry < MaxRetry /\ retry' = retry + 1
    BY DEF IInv, TypeOK, StartUpInv
  <2>2. TypeOK'
    BY <2>1 DEF IInv, TypeOK
  <2>3. StartUpInv'
    BY <2>1 DEF IInv, StartUpInv
  <2>4. ReadInv' /\ EventInv' /\ SyncInv'
    BY DEF IInv, ReadInv, EventInv, SyncInv, NothingNew
  <2> QED
    BY <2>2, <2>3, <2>4 DEF IInv
<1>2. CASE ConnectSucceeds
  <2>1. Configured \in [ip : Address, mask : Mask, gw : Gateway]
    BY NetworkAssumption DEF Setting, Address
  <2> QED
    BY <1>2, <2>1, SetNetifKeeps, InterfaceStep DEF ConnectSucceeds
<1>3. CASE GetStatic
  <2>1. chosen' \in [ip : Read(Address), mask : Read(Mask), gw : Read(Gateway)]
    BY <1>3 DEF GetStatic, GetSetting, IInv, TypeOK, Read, Address
  <2>2. app' \in {"get_gw", "get_mask", "dhcp_off"}
        /\ UNCHANGED <<netif, dhcp, db, config, retry, events, cb, prev, read>>
    BY <1>3 DEF GetStatic, GetSetting
  <2>3. TypeOK'
    BY <2>1, <2>2 DEF IInv, TypeOK, Address
  <2>4. db.ip # None /\ db.mask # None /\ db.gw # None
    BY NetworkAssumption DEF IInv, TypeOK
  <2>5. StartUpInv'
    BY <1>3, <2>2, <2>4 DEF GetStatic, GetSetting, IInv, TypeOK, StartUpInv
  <2>6. ReadInv' /\ EventInv' /\ SyncInv'
    BY <2>2 DEF IInv, ReadInv, EventInv, SyncInv, NothingNew
  <2> QED
    BY <2>3, <2>5, <2>6 DEF IInv
<1>4. CASE DhcpOff
  BY <1>4, DhcpSetKeeps, InterfaceStep DEF DhcpOff
<1>5. CASE SetStatic
  <2>1. chosen \in [ip : Address, mask : Mask, gw : Gateway]
    BY <1>5 DEF SetStatic, IInv, TypeOK, StartUpInv, Read, Address
  <2>2. dhcp' \in BOOLEAN
    BY <1>5 DEF SetStatic, IInv, TypeOK
  <2> QED
    BY <1>5, <2>1, <2>2, SetNetifKeeps, InterfaceStep DEF SetStatic
<1>6. CASE DhcpOn
  BY <1>6, DhcpSetKeeps, InterfaceStep DEF DhcpOn
<1> QED
  BY <1>1, <1>2, <1>3, <1>4, <1>5, <1>6 DEF StartUp

-----------------------------------------------------------------------------
(* ethernet_event_callback and sync_db.                                    *)

(* A repeated event carries nothing new; any other starts sync_db, unless  *)
(* it says that there is no address.                                       *)
LEMMA DeliverStep ==
  ASSUME IInv, Deliver
  PROVE  IInv'
<1>1. /\ events \in Seq(Address) /\ events # <<>> /\ Len(events) <= MaxEvents
      /\ events' = Tail(events) /\ cb = "idle"
      /\ UNCHANGED <<netif, dhcp, db, config, app, retry, chosen, read>>
  BY DEF Deliver, IInv, TypeOK, Address, appVars
<1>2. /\ Len(events) \in Nat \ {0} /\ Len(events') = Len(events) - 1
      /\ events' \in Seq(Address)
      /\ \A i \in 1 .. Len(events') : events'[i] = events[i + 1]
  BY <1>1
<1>3. Head(events) = events[1] /\ Head(events) \in Address
  BY <1>1
<1>4. prev' = Head(events)
  BY DEF Deliver
<1>5. TypeOK'
  <2>1. Len(events') <= MaxEvents
    BY <1>1, <1>2, NetworkAssumption
  <2>2. cb' \in {"idle", "read_ip"}
    BY <1>1 DEF Deliver
  <2> QED
    BY <1>1, <1>2, <1>3, <1>4, <2>1, <2>2 DEF IInv, TypeOK, Address
<1>6. StartUpInv' /\ ReadInv'
  BY <1>1 DEF Deliver, IInv, StartUpInv, ReadInv
<1>7. EventInv'
  <2>1. CASE events' = <<>>
    <3>1. Len(events) = 1
      BY <1>2, <2>1
    <3> QED
      BY <1>1, <1>3, <1>4, <2>1, <3>1 DEF IInv, EventInv
  <2>2. CASE events' # <<>>
    <3>1. Len(events') \in 1 .. Len(events') /\ Len(events') + 1 = Len(events)
      BY <1>2, <2>2
    <3>2. events'[Len(events')] = events[Len(events)]
      BY <1>2, <3>1
    <3> QED
      BY <1>1, <2>2, <3>2 DEF IInv, EventInv
  <2> QED
    BY <2>1, <2>2
<1>8. SyncInv'
  <2>1. CASE Head(events) = prev
    <3>1. NothingNew' => NothingNew
      <4> SUFFICES ASSUME NothingNew', NEW i \in 1 .. Len(events)
                   PROVE  events[i] = prev
        BY DEF NothingNew
      <4>1. CASE i = 1
        BY <1>3, <2>1, <4>1
      <4>2. CASE i # 1
        <5>1. i - 1 \in 1 .. Len(events') /\ (i - 1) + 1 = i
          BY <1>2, <4>2
        <5>2. events'[i - 1] = events[i]
          BY <1>2, <5>1
        <5>3. events'[i - 1] = prev'
          BY <5>1 DEF NothingNew
        <5> QED
          BY <1>4, <2>1, <5>2, <5>3
      <4> QED
        BY <4>1, <4>2
    <3> QED
      BY <1>1, <2>1, <3>1 DEF Deliver, IInv, SyncInv
  <2>2. CASE Head(events) # prev
    <3>1. NothingNew' => netif'.ip = prev'
      <4>1. CASE events' = <<>>
        BY <1>7, <4>1 DEF EventInv
      <4>2. CASE events' # <<>>
        BY <1>2, <1>7, <4>2 DEF EventInv, NothingNew
      <4> QED
        BY <4>1, <4>2
    <3> QED
      BY <1>4, <2>2, <3>1 DEF Deliver, SyncInv
  <2> QED
    BY <2>1, <2>2
<1> QED
  BY <1>5, <1>6, <1>7, <1>8 DEF IInv

LEMMA SyncStep ==
  ASSUME IInv, SyncDb
  PROVE  IInv'
<1>1. UNCHANGED <<netif, dhcp, config, app, retry, chosen, events, prev>>
  BY DEF SyncDb, SyncRead, SyncWrite, SyncDhcp, appVars
<1>2. netif.ip # None /\ netif.mask # None /\ netif.gw # None
  BY NetworkAssumption DEF IInv, TypeOK
<1>3. read' \in [ip : Read(Address), mask : Read(Mask), gw : Read(Gateway)]
  BY DEF SyncDb, SyncRead, SyncWrite, SyncDhcp, IInv, TypeOK, Read, Address
<1>4. db' \in [ip : Address, mask : Mask, gw : Gateway, dhcp : BOOLEAN]
  BY DEF SyncDb, SyncRead, SyncWrite, SyncDhcp, IInv, TypeOK, ReadInv, Read, Address
<1>5. TypeOK'
  BY <1>1, <1>3, <1>4 DEF SyncDb, SyncRead, SyncWrite, SyncDhcp, IInv, TypeOK, Address
<1>6. StartUpInv' /\ EventInv' /\ (NothingNew' <=> NothingNew)
  BY <1>1 DEF IInv, StartUpInv, EventInv, NothingNew
<1>7. ReadInv'
  BY <1>2 DEF SyncDb, SyncRead, SyncWrite, SyncDhcp, IInv, TypeOK, ReadInv
<1>8. SyncInv'
  BY <1>1, <1>6 DEF SyncDb, SyncRead, SyncWrite, SyncDhcp, IInv, TypeOK, SyncInv
<1> QED
  BY <1>5, <1>6, <1>7, <1>8 DEF IInv

-----------------------------------------------------------------------------

LEMMA StepKeepsInv == IInv /\ [Next]_vars => IInv'
<1> SUFFICES ASSUME IInv, [Next]_vars PROVE IInv'
  OBVIOUS
<1>1. CASE StartUp \/ Deliver \/ SyncDb \/ Repeat
  BY <1>1, StartUpStep, DeliverStep, SyncStep, RepeatStep
<1>2. CASE \E a \in Addr : Lease(a)
  BY <1>2, LeaseStep
<1>3. CASE \E ip \in Addr, mask \in Mask : UphySetAddr(ip, mask)
  BY <1>3, UphyStep
<1>4. CASE \E ip \in Addr \cup {None}, mask \in Mask \cup {None},
              gw \in Gateway \cup {None}, mode \in {"on", "off", None} :
             Netcfg(ip, mask, gw, mode)
  BY <1>4, NetcfgStep
<1>5. CASE UNCHANGED vars
  BY <1>5 DEF vars, appVars, cbVars, IInv, TypeOK, StartUpInv, ReadInv, EventInv, SyncInv,
              NothingNew
<1> QED
  BY <1>1, <1>2, <1>3, <1>4, <1>5 DEF Next

THEOREM IInvInvariant == Spec => []IInv
  BY InitInv, StepKeepsInv, PTL DEF Spec

(* The start-up task, the callback and the changes of the interface stay   *)
(* within their types: in particular no setting is used before it is read. *)
THEOREM TypeCorrect == Spec => []TypeOK
<1>1. IInv => TypeOK
  BY DEF IInv
<1> QED
  BY <1>1, IInvInvariant, PTL

(* Once every event is handled the database holds the interface's address, *)
(* however many events were under way and however they were repeated.      *)
THEOREM SettledSafety == Spec => []SettledDatabase
<1>1. IInv => SettledDatabase
  <2> SUFFICES ASSUME IInv, cb = "idle", events = <<>>, netif.ip # NoAddr
               PROVE  db.ip = netif.ip
    BY DEF SettledDatabase
  <2>1. NothingNew
    BY DEF NothingNew
  <2> QED
    BY <2>1 DEF IInv, SyncInv
<1> QED
  BY <1>1, IInvInvariant, PTL

=============================================================================
