------------------------------- MODULE Network -------------------------------
(***************************************************************************)
(* Connecting to Ethernet and keeping the database of network settings up  *)
(* to date (src/network/network.c), with the command netcfg and the        *)
(* address changes U-Phy makes (rte/src/net/rte_network.c).                *)
(*                                                                         *)
(* Three activities run concurrently: the start-up task in                 *)
(* connect_to_ethernet, the callback that the Ethernet connection manager  *)
(* (ECM) calls for its events, one at a time and in order, and whoever     *)
(* changes the interface.  The start-up task and the callback take one     *)
(* step per access to the database or to the interface.                    *)
(*                                                                         *)
(* The ECM, lwIP and the database are not under src/.  The ECM connects    *)
(* with the settings of the device configurator, whatever it was given     *)
(* (the comment before ECM2_1_WORKAROUND); an interface has no address     *)
(* while no lease is held; each change of its address, and possibly        *)
(* nothing at all ("multiple events with same info"), is an event that     *)
(* carries the address.  ip_set and db_get_... write and read one setting. *)
(***************************************************************************)
EXTENDS Naturals, Sequences

CONSTANTS
  Addr, Mask, Gateway,  \* addresses other than 0, netmasks, gateways
  NoAddr,               \* 0
  None,                 \* a value that was not given or not read
  Stored,               \* the static settings in the database at start-up
  Configured,           \* the settings of the device configurator
  MaxRetry,             \* MAX_ETH_RETRY_COUNT
  MaxEvents             \* bound on the events the ECM has not delivered yet

Setting == [ip : Addr, mask : Mask, gw : Gateway]

ASSUME NetworkAssumption ==
  /\ NoAddr \notin Addr
  /\ None \notin Addr \cup Mask \cup Gateway \cup {NoAddr}
  /\ Stored \in Setting
  /\ Configured \in Setting
  /\ MaxRetry \in Nat \ {0}
  /\ MaxEvents \in Nat \ {0}

IpConfig == {"IP_CONFIG_STATIC", "IP_CONFIG_DHCP"}

VARIABLES
  config,  \* ip_config, the argument of connect_to_ethernet
  netif,   \* ip, mask and gw of netif_default
  dhcp,    \* whether the interface has a DHCP client
  db,      \* ip, mask, gw and dhcp in the database
  app,     \* where the start-up task is
  retry,   \* retry_count
  chosen,  \* static_ip_addr in ecm_workaround
  events,  \* IP_CHANGED events under way, oldest first
  cb,      \* where the callback is
  prev,    \* prev_evt_data
  read     \* ipaddr, netmask and gateway in sync_db

appVars == <<config, app, retry, chosen>>
cbVars == <<cb, prev, read>>
vars == <<netif, dhcp, db, appVars, events, cbVars>>

NoSetting == [ip |-> None, mask |-> None, gw |-> None]
Connected == app \notin {"connect", "failed"}

Init ==
  /\ config \in IpConfig
  /\ netif = [ip |-> NoAddr, mask |-> Configured.mask, gw |-> Configured.gw]
  /\ dhcp = FALSE
  /\ db = [ip |-> Stored.ip, mask |-> Stored.mask, gw |-> Stored.gw,
           dhcp |-> config = "IP_CONFIG_DHCP"]
  /\ app = "connect"
  /\ retry = 0
  /\ chosen = NoSetting
  /\ events = <<>>
  /\ cb = "idle"
  /\ prev = NoAddr
  /\ read = NoSetting

-----------------------------------------------------------------------------
(* The interface.                                                          *)

\* The interface gets new settings; a change of address is an event.
SetNetif(new) ==
  /\ netif' = new
  /\ events' = IF new.ip # netif.ip THEN Append(events, new.ip) ELSE events
  /\ Len(events') <= MaxEvents

\* dhcp_set: starting a client leaves the address alone, stopping it gives
\* the lease back.
DhcpSet(enable) ==
  /\ dhcp' = enable
  /\ IF ~enable /\ dhcp
     THEN SetNetif([netif EXCEPT !.ip = NoAddr])
     ELSE UNCHANGED <<netif, events>>

\* A lease is granted, or renewed with another address.
Lease(a) ==
  /\ Connected
  /\ dhcp
  /\ SetNetif([netif EXCEPT !.ip = a])
  /\ UNCHANGED <<dhcp, db, appVars, cbVars>>

\* The ECM repeats itself.
Repeat ==
  /\ Connected
  /\ Len(events) < MaxEvents
  /\ events' = Append(events, netif.ip)
  /\ UNCHANGED <<netif, dhcp, db, appVars, cbVars>>

\* rte_netif_set_addr, called by U-Phy: the gateway stays.
UphySetAddr(ip, mask) ==
  /\ app = "done"
  /\ SetNetif([netif EXCEPT !.ip = ip, !.mask = mask])
  /\ UNCHANGED <<dhcp, db, appVars, cbVars>>

\* netcfg_set: it returns after the first option that is given.
NetcfgSet(ip, mask, gw) ==
  IF ip # None THEN SetNetif([netif EXCEPT !.ip = ip])
  ELSE IF mask # None THEN SetNetif([netif EXCEPT !.mask = mask])
  ELSE IF gw # None THEN SetNetif([netif EXCEPT !.gw = gw])
  ELSE UNCHANGED <<netif, events>>

\* _netcfg_cmd with valid options, the host name left out: dhcp, when it is given,
\* is the only one that counts.
Netcfg(ip, mask, gw, mode) ==
  /\ app = "done"
  /\ \/ mode # None /\ DhcpSet(mode = "on")
     \/ mode = None /\ NetcfgSet(ip, mask, gw) /\ UNCHANGED dhcp
  /\ UNCHANGED <<db, appVars, cbVars>>

-----------------------------------------------------------------------------
(* connect_to_ethernet.                                                    *)

\* Mutant of GiveUp: one attempt too many.
GiveUpLate == retry + 1 > MaxRetry

\* The test of retry_count after its increment.
GiveUp == retry + 1 >= MaxRetry

ConnectFails ==
  /\ app = "connect"
  /\ retry' = retry + 1
  /\ app' = IF GiveUp THEN "failed" ELSE "connect"
  /\ UNCHANGED <<netif, dhcp, db, config, chosen, events, cbVars>>

\* The configured address may be a static one or have come by DHCP.
ConnectSucceeds ==
  /\ app = "connect"
  /\ SetNetif(Configured)
  /\ dhcp' \in BOOLEAN
  /\ app' = IF config = "IP_CONFIG_STATIC" THEN "get_ip" ELSE "dhcp_on"
  /\ UNCHANGED <<db, config, retry, chosen, cbVars>>

\* ecm_workaround, static: three reads of the database.
GetSetting(label, field, next) ==
  /\ app = label
  /\ chosen' = [chosen EXCEPT ![field] = db[field]]
  /\ app' = next
  /\ UNCHANGED <<netif, dhcp, db, config, retry, events, cbVars>>

GetStatic ==
  \/ GetSetting("get_ip", "ip", "get_gw")
  \/ GetSetting("get_gw", "gw", "get_mask")
  \/ GetSetting("get_mask", "mask", "dhcp_off")

DhcpOff ==
  /\ app = "dhcp_off"
  /\ DhcpSet(FALSE)
  /\ app' = "set_addr"
  /\ UNCHANGED <<db, config, retry, chosen, cbVars>>

SetStatic ==
  /\ app = "set_addr"
  /\ SetNetif(chosen)
  /\ app' = "done"
  /\ UNCHANGED <<dhcp, db, config, retry, chosen, cbVars>>

\* ecm_workaround, dynamic
DhcpOn ==
  /\ app = "dhcp_on"
  /\ DhcpSet(TRUE)
  /\ app' = "done"
  /\ UNCHANGED <<db, config, retry, chosen, cbVars>>

StartUp ==
  \/ ConnectFails \/ ConnectSucceeds
  \/ GetStatic \/ DhcpOff \/ SetStatic
  \/ DhcpOn

-----------------------------------------------------------------------------
(* ethernet_event_callback and sync_db.                                    *)

\* Mutant of Deliver: an event that comes while the database is being
\* written is dropped.
DeliverUnlessBusy ==
  /\ events # <<>>
  /\ events' = Tail(events)
  /\ IF cb # "idle" \/ Head(events) = prev
     THEN UNCHANGED <<cb, prev>>
     ELSE /\ prev' = Head(events)
          /\ cb' = IF Head(events) = NoAddr THEN "idle" ELSE "read_ip"
  /\ UNCHANGED <<netif, dhcp, db, appVars, read>>

\* A repeated event is ignored; an address of 0 is only remembered.
Deliver ==
  /\ cb = "idle"
  /\ events # <<>>
  /\ events' = Tail(events)
  /\ IF Head(events) = prev
     THEN UNCHANGED <<cb, prev>>
     ELSE /\ prev' = Head(events)
          /\ cb' = IF Head(events) = NoAddr THEN "idle" ELSE "read_ip"
  /\ UNCHANGED <<netif, dhcp, db, appVars, read>>

\* Mutant of SyncRead: what was read for an earlier event is kept.
SyncReadOnce(label, field, next) ==
  /\ cb = label
  /\ read' = [read EXCEPT ![field] = IF @ = None THEN netif[field] ELSE @]
  /\ cb' = next
  /\ UNCHANGED <<netif, dhcp, db, appVars, events, prev>>

\* cy_ecm_get_..._address: what the interface has now
SyncRead(label, field, next) ==
  /\ cb = label
  /\ read' = [read EXCEPT ![field] = netif[field]]
  /\ cb' = next
  /\ UNCHANGED <<netif, dhcp, db, appVars, events, prev>>

\* ip_set of one setting
SyncWrite(label, field, next) ==
  /\ cb = label
  /\ db' = [db EXCEPT ![field] = read[field]]
  /\ cb' = next
  /\ UNCHANGED <<netif, dhcp, appVars, events, prev, read>>

SyncDhcp ==
  /\ cb = "write_dhcp"
  /\ db' = [db EXCEPT !.dhcp = dhcp]
  /\ cb' = "idle"
  /\ UNCHANGED <<netif, dhcp, appVars, events, prev, read>>

SyncDb ==
  \/ SyncRead("read_ip", "ip", "read_mask")
  \/ SyncRead("read_mask", "mask", "read_gw")
  \/ SyncRead("read_gw", "gw", "write_ip")
  \/ SyncWrite("write_ip", "ip", "write_mask")
  \/ SyncWrite("write_mask", "mask", "write_gw")
  \/ SyncWrite("write_gw", "gw", "write_dhcp")
  \/ SyncDhcp

Next ==
  \/ StartUp
  \/ Deliver
  \/ SyncDb
  \/ \E a \in Addr : Lease(a)
  \/ Repeat
  \/ \E ip \in Addr, mask \in Mask : UphySetAddr(ip, mask)
  \/ \E ip \in Addr \cup {None}, mask \in Mask \cup {None},
        gw \in Gateway \cup {None}, mode \in {"on", "off", None} :
       Netcfg(ip, mask, gw, mode)

\* The thread of the ECM delivers events and runs the callback.
Spec == Init /\ [][Next]_vars /\ WF_vars(Deliver \/ SyncDb)
-----------------------------------------------------------------------------
(* Properties.                                                             *)

Read(S) == S \cup {None}

TypeOK ==
  /\ config \in IpConfig
  /\ netif \in [ip : Addr \cup {NoAddr}, mask : Mask, gw : Gateway]
  /\ dhcp \in BOOLEAN
  /\ db \in [ip : Addr \cup {NoAddr}, mask : Mask, gw : Gateway, dhcp : BOOLEAN]
  /\ app \in {"connect", "get_ip", "get_gw", "get_mask", "dhcp_off", "set_addr",
              "dhcp_on", "done", "failed"}
  /\ retry \in 0 .. MaxRetry
  /\ chosen \in [ip : Read(Addr \cup {NoAddr}), mask : Read(Mask), gw : Read(Gateway)]
  /\ events \in Seq(Addr \cup {NoAddr}) /\ Len(events) <= MaxEvents
  /\ cb \in {"idle", "read_ip", "read_mask", "read_gw",
             "write_ip", "write_mask", "write_gw", "write_dhcp"}
  /\ prev \in Addr \cup {NoAddr}
  /\ read \in [ip : Read(Addr \cup {NoAddr}), mask : Read(Mask), gw : Read(Gateway)]

(* Once every event is handled the database holds the interface's address, *)
(* whoever changed it, how often and at what moment: repeated events may   *)
(* be ignored, and the address may be read again instead of taken from the *)
(* event, without a change being lost.                                     *)
SettledDatabase ==
  Connected /\ cb = "idle" /\ events = <<>> /\ netif.ip # NoAddr =>
    db.ip = netif.ip

(* No address of the interface is passed over: it reaches the database,    *)
(* unless the interface has given it up meanwhile.  Events that the        *)
(* callback ignores as repeated, and changes that come while it is reading *)
(* or writing, do not make it settle for an older address.                 *)
DatabaseCatchesUp ==
  \A a \in Addr : netif.ip = a ~> (db.ip = a \/ netif.ip # a)

(* What the comment before ECM2_1_WORKAROUND describes: with a static      *)
(* configuration, once the connection is set up the network is configured  *)
(* anew with the stored settings.                                          *)
StaticSettingsApplied ==
  [][SetStatic => netif' = Stored]_vars

=============================================================================
