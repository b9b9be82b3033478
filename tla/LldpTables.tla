----------------------------- MODULE LldpTables -----------------------------
(***************************************************************************)
(* The SNMP tables of LLDP: row indices (rte/src/net/mib/rowindex.c) and   *)
(* the get, get-next and value functions of lldp-mib.c, lldp-ext-pno-mib.c *)
(* and lldp-ext-dot3-mib.c.                                                *)
(*                                                                         *)
(* A manager walks through tables and gets single cells, one request at a  *)
(* time.  The tables describe the peers that the protocol stack sees at    *)
(* its ports, and those come and go meanwhile: each call into the stack    *)
(* (rte_snmp_get_...) is one step, a change of peers may fall between any  *)
(* two of them.                                                            *)
(*                                                                         *)
(* Not under src/: the stack, a record per port with the time of the last  *)
(* change; and the SNMP server of lwIP, which goes on with the next column *)
(* when a column has no further cell, and whose snmp_next_oid_check keeps  *)
(* the least index above the one it was started with.                      *)
(***************************************************************************)
EXTENDS Integers, Sequences

CONSTANTS
  NumPorts,  \* ports are 1 .. NumPorts
  Peer,      \* what may be connected to a port
  Offers,    \* the attributes each peer has announced
  Oversized, \* the attributes of a peer that exceed SNMP_MAX_VALUE_SIZE
  Address,   \* the encoded management address of each peer, its subtype first
  Local,     \* the device itself; Offers and Address are defined for it too
  MaxTime,   \* bound on timestamps
  None

Attribute == {"chassis_id", "port_id", "port_description", "management_address",
              "management_port_index", "link_status", "signal_delays",
              "station_name", "port_list"}

ASSUME LldpTablesAssumption ==
  /\ NumPorts \in Nat \ {0}
  /\ Local \notin Peer /\ None \notin Peer \cup {Local}
  /\ None \notin [row : Seq(Nat), port : Nat]
  /\ Offers \in [Peer \cup {Local} -> SUBSET Attribute]
  /\ Offers[Local] = Attribute
  /\ Oversized \in [Peer \cup {Local} -> SUBSET Attribute]
  /\ Address \in [Peer \cup {Local} -> Seq(Nat) \ {<<>>}]
  /\ MaxTime \in Nat

Port == 1 .. NumPorts

-----------------------------------------------------------------------------
(* The trees.  A table is a node below the tree nodes that hold it; its    *)
(* place in a walk is its object identifier.                               *)

Under(oid, nodes) == [t \in DOMAIN nodes |-> oid \o nodes[t]]
Both(f, g) == [t \in DOMAIN f \cup DOMAIN g |-> IF t \in DOMAIN f THEN f[t] ELSE g[t]]

lldpConfiguration == [lldpConfigManAddrTable |-> <<7>>]

\* The two scalars are called columns 1 and 2 of their tree node.
lldpLocalSystemData ==
  [lldpLocChassisId    |-> <<>>,
   lldpLocPortTable    |-> <<7>>,
   lldpLocManAddrTable |-> <<8>>]

lldpRemoteSystemsData == [lldpRemTable |-> <<1>>, lldpRemManAddrTable |-> <<2>>]

lldpMib ==
  Under(<<1, 0, 8802, 1, 1, 2, 1>>,
        Both(Under(<<1>>, lldpConfiguration),
             Both(Under(<<3>>, lldpLocalSystemData), Under(<<4>>, lldpRemoteSystemsData))))

lldpXPnoMib ==
  Under(<<1, 0, 8802, 1, 1, 2, 1, 5, 3791, 1>>,
        [lldpXPnoLocTable |-> <<2, 1>>, lldpXPnoRemTable |-> <<3, 1>>])

lldpXdot3Mib ==
  Under(<<1, 0, 8802, 1, 1, 2, 1, 5, 4623, 1>>,
        [lldpXdot3LocPortTable |-> <<2, 1>>, lldpXdot3RemPortTable |-> <<3, 1>>])

Oid == Both(lldpMib, Both(lldpXPnoMib, lldpXdot3Mib))
Table == DOMAIN Oid

(* The tables by the rows that their get_instance and get_next_instance    *)
(* look for.                                                               *)

ConfigManAddr == {"lldpConfigManAddrTable"}
LocManAddr == {"lldpLocManAddrTable"}
LocalInterface == ConfigManAddr \cup LocManAddr
XPnoLocalPort == {"lldpXPnoLocTable"}
Xdot3LocalPort == {"lldpXdot3LocPortTable"}
LocalPort == {"lldpLocPortTable"} \cup XPnoLocalPort \cup Xdot3LocalPort
XPnoRemoteDevice == {"lldpXPnoRemTable"}
Xdot3RemoteDevice == {"lldpXdot3RemPortTable"}
RemoteDevice == {"lldpRemTable"} \cup XPnoRemoteDevice \cup Xdot3RemoteDevice
RemoteInterface == {"lldpRemManAddrTable"}
Scalar == {"lldpLocChassisId"}
Remote == RemoteDevice \cup RemoteInterface

(* The columns, and for each the attribute that its cells are read from.   *)

lldpConfigManAddrTable == [c \in {1} |-> "port_list"]
lldpLocChassisId == [c \in {1, 2} |-> "chassis_id"]
lldpLocPortTable == [c \in 2 .. 4 |-> IF c = 4 THEN "port_description" ELSE "port_id"]
lldpLocManAddrTable ==
  [c \in 3 .. 5 |-> IF c = 3 THEN "management_address" ELSE "management_port_index"]
lldpRemTable ==
  [c \in 4 .. 8 |-> CASE c \in {4, 5} -> "chassis_id"
                      [] c \in {6, 7} -> "port_id"
                      [] c = 8        -> "port_description"]
lldpRemManAddrTable == [c \in {3, 4} |-> "management_port_index"]
lldpXPnoLocTable ==
  [c \in {1, 2, 3, 6} |-> IF c = 6 THEN "station_name" ELSE "signal_delays"]
lldpXPnoRemTable ==
  [c \in {1, 2, 3, 6} |-> IF c = 6 THEN "station_name" ELSE "signal_delays"]
lldpXdot3LocPortTable == [c \in 1 .. 4 |-> "link_status"]
lldpXdot3RemPortTable == [c \in 1 .. 4 |-> "link_status"]

Columns ==
  [lldpConfigManAddrTable |-> lldpConfigManAddrTable,
   lldpLocChassisId       |-> lldpLocChassisId,
   lldpLocPortTable       |-> lldpLocPortTable,
   lldpLocManAddrTable    |-> lldpLocManAddrTable,
   lldpRemTable           |-> lldpRemTable,
   lldpRemManAddrTable    |-> lldpRemManAddrTable,
   lldpXPnoLocTable       |-> lldpXPnoLocTable,
   lldpXPnoRemTable       |-> lldpXPnoRemTable,
   lldpXdot3LocPortTable  |-> lldpXdot3LocPortTable,
   lldpXdot3RemPortTable  |-> lldpXdot3RemPortTable]

-----------------------------------------------------------------------------

VARIABLES
  peer,     \* per port: the peer and the time it was last changed, or None
  now,      \* the stack's clock
  pc,       \* where the server is with the request
  req,      \* the request: op, table, column and row
  table,    \* the table it works on
  column,   \* the column it works on
  row,      \* the row it works on
  port,     \* the port the iterator has reached, or that was selected
  mark,     \* the timestamp just read for that port
  best,     \* the state of snmp_next_oid_check: a row and its port, or None
  answer,   \* status, table, column, row and value
  quiet,    \* history: no peer has changed since the request arrived
  existed   \* history: the rows the table has had since the server turned to it

serverVars == <<pc, req, table, column, row, port, mark, best, answer>>
vars == <<peer, now, serverVars, quiet, existed>>

\* Row indices, as the functions rowindex_construct_... build them.
ScalarRow == <<0>>
LocalPortRow(p) == <<p>>
LocalInterfaceRow == Address[Local]
RemoteDeviceRow(time, p) == <<time, p, p>>
RemoteInterfaceRow(time, p, who) == <<time, p, p>> \o Address[who]

\* The rows of a table at this moment; lwIP gives a scalar the row 0.
HasAddress(p) == "management_address" \in Offers[peer[p].who]
Rows(t) ==
  IF t \in Scalar THEN {ScalarRow}
  ELSE IF t \in LocalInterface THEN {LocalInterfaceRow}
  ELSE IF t \in LocalPort THEN {LocalPortRow(p) : p \in Port}
  ELSE IF t \in RemoteDevice
  THEN {RemoteDeviceRow(peer[p].since, p) : p \in {q \in Port : peer[q] # None}}
  ELSE {RemoteInterfaceRow(peer[p].since, p, peer[p].who) :
          p \in {q \in Port : peer[q] # None /\ HasAddress(q)}}

\* snmp_oid_compare: lexicographic, a prefix comes first.
OidLess(a, b) ==
  \/ \E i \in 1 .. Len(a) :
       /\ i <= Len(b) /\ a[i] < b[i]
       /\ \A j \in 1 .. i - 1 : a[j] = b[j]
  \/ Len(a) < Len(b) /\ \A j \in 1 .. Len(a) : a[j] = b[j]

NoRequest == [op |-> "none", table |-> "lldpRemTable", column |-> 0, row |-> <<>>]
NoAnswer ==
  [status |-> "none", table |-> "lldpRemTable", column |-> 0, row |-> <<>>, value |-> None]

Init ==
  /\ peer = [p \in Port |-> None]
  /\ now = 0
  /\ pc = "idle"
  /\ req = NoRequest
  /\ table = req.table
  /\ column = 0
  /\ row = <<>>
  /\ port = 0
  /\ mark = 0
  /\ best = None
  /\ answer = NoAnswer
  /\ quiet = TRUE
  /\ existed = {}

-----------------------------------------------------------------------------
(* The stack.                                                              *)

\* A peer appears at a port, is replaced or announces something new.
Arrive(p, who, time) ==
  /\ time \in {now, now + 1} /\ time <= MaxTime
  /\ now' = time
  /\ peer' = [peer EXCEPT ![p] = [who |-> who, since |-> time]]
  /\ quiet' = FALSE
  /\ UNCHANGED serverVars
  /\ existed' = IF pc = "idle" THEN existed ELSE existed \cup Rows(table)'

\* A peer is disconnected or has timed out.
Leave(p) ==
  /\ peer[p] # None
  /\ peer' = [peer EXCEPT ![p] = None]
  /\ quiet' = FALSE
  /\ UNCHANGED <<now, serverVars, existed>>

-----------------------------------------------------------------------------
(* The manager.                                                            *)

Request(op, t, c, r) ==
  /\ pc = "idle"
  /\ req' = [op |-> op, table |-> t, column |-> c, row |-> r]
  /\ table' = t
  /\ column' = c
  /\ row' = r
  /\ port' = 1
  /\ best' = None
  /\ pc' = "scan"
  /\ answer' = NoAnswer
  /\ quiet' = TRUE
  /\ existed' = Rows(t)
  /\ UNCHANGED <<peer, now, mark>>

FirstColumn(t) ==
  CHOOSE c \in DOMAIN Columns[t] : \A d \in DOMAIN Columns[t] : c <= d

\* A walk begins before the first row of the first column.
StartWalk(t) == Request("next", t, FirstColumn(t), <<>>)

\* It goes on from the last answer, into the tables that follow.
ContinueWalk ==
  /\ req.op = "next" /\ answer.status = "value"
  /\ Request("next", answer.table, answer.column, answer.row)

\* A get of a cell that the table has, or of the last one the walk found.
GetCell(t, c) ==
  \E r \in Rows(t) \cup (IF answer.table = t THEN {answer.row} ELSE {}) :
    Request("get", t, c, r)

-----------------------------------------------------------------------------
(* Finding the row.                                                        *)

\* snmp_next_oid_check with the row of a port
Better(r) == OidLess(row, r) /\ (best # None => OidLess(r, best.row))

Candidate(p, r) == IF Better(r) THEN [row |-> r, port |-> p] ELSE best

\* Mutants of Last: the iterator returns a port too many, and one too few.
LastAndOne(t) == IF t \in Scalar \cup LocalInterface THEN 1 ELSE NumPorts + 1
LastButOne(t) == IF t \in Scalar \cup LocalInterface \/ NumPorts = 1 THEN 1 ELSE NumPorts - 1

\* The iterator moves on; after the last port a get has failed, and a
\* get-next has its row or tries the next column.
Last(t) == IF t \in Scalar \cup LocalInterface THEN 1 ELSE NumPorts

\* Mutant of Advance: the row that was found is not assigned.
AdvanceKeepingRow(b) ==
  /\ best' = b
  /\ IF port < Last(table)
     THEN port' = port + 1 /\ pc' = "scan" /\ UNCHANGED row
     ELSE IF b = None
     THEN pc' = "none" /\ UNCHANGED <<port, row>>
     ELSE port' = b.port /\ pc' = "value" /\ UNCHANGED row

\* Mutant of Advance: the iterator ends at the first port whose row fits.
AdvanceToFirst(b) ==
  /\ best' = b
  /\ IF port < Last(table) /\ b = None
     THEN port' = port + 1 /\ pc' = "scan" /\ UNCHANGED row
     ELSE IF b = None
     THEN pc' = "none" /\ UNCHANGED <<port, row>>
     ELSE port' = b.port /\ row' = b.row /\ pc' = "value"

Advance(b) ==
  /\ best' = b
  /\ IF port < Last(table)
     THEN port' = port + 1 /\ pc' = "scan" /\ UNCHANGED row
     ELSE IF b = None
     THEN pc' = "none" /\ UNCHANGED <<port, row>>
     ELSE port' = b.port /\ row' = b.row /\ pc' = "value"

\* The row of a port is compared with the one that was asked for.
Compare(r) ==
  IF req.op = "next"
  THEN Advance(Candidate(port, r))
  ELSE IF r = row
  THEN pc' = "value" /\ UNCHANGED <<row, port, best>>
  ELSE Advance(best)

\* The rows of local tables, whose parts do not change, and the timestamp
\* of a peer; a port without a peer is left out.
ScanLocal ==
  /\ pc = "scan"
  /\ table \notin Remote
  /\ Compare(IF table \in LocalPort THEN LocalPortRow(port)
             ELSE IF table \in Scalar THEN ScalarRow ELSE LocalInterfaceRow)
  /\ UNCHANGED <<peer, now, req, table, column, mark, answer, quiet, existed>>

\* Mutant of ScanRemoteDevice: the error of the stack is ignored, and the
\* timestamp is what the port's record was initialised with.
ScanRemoteDeviceAnyway ==
  /\ pc = "scan"
  /\ table \in RemoteDevice
  /\ Compare(RemoteDeviceRow(IF peer[port] # None THEN peer[port].since ELSE 0, port))
  /\ UNCHANGED <<peer, now, req, table, column, mark, answer, quiet, existed>>

ScanRemoteDevice ==
  /\ pc = "scan"
  /\ table \in RemoteDevice
  /\ IF peer[port] # None
     THEN Compare(RemoteDeviceRow(peer[port].since, port))
     ELSE Advance(best)
  /\ UNCHANGED <<peer, now, req, table, column, mark, answer, quiet, existed>>

ScanRemoteInterface ==
  /\ pc = "scan"
  /\ table \in RemoteInterface
  /\ IF peer[port] # None
     THEN mark' = peer[port].since /\ pc' = "address" /\ UNCHANGED <<row, port, best>>
     ELSE Advance(best) /\ UNCHANGED mark
  /\ UNCHANGED <<peer, now, req, table, column, answer, quiet, existed>>

\* The second read for that row: the management address.
ScanAddress ==
  /\ pc = "address"
  /\ IF peer[port] # None /\ HasAddress(port)
     THEN Compare(RemoteInterfaceRow(mark, port, peer[port].who))
     ELSE Advance(best)
  /\ UNCHANGED <<peer, now, req, table, column, mark, answer, quiet, existed>>

-----------------------------------------------------------------------------
(* The value and the answer.                                               *)

Answer(status, value) ==
  /\ answer' = [status |-> status, table |-> table, column |-> column, row |-> row, value |-> value]
  /\ pc' = "idle"
  /\ UNCHANGED <<peer, now, req, table, column, row, port, mark, best, quiet, existed>>

\* Mutant of Owner: the value is read from the port the iterator ended at.
OwnerAtLastPort ==
  IF table \notin Remote THEN Local
  ELSE IF peer[NumPorts] = None THEN None ELSE peer[NumPorts].who

Owner == IF table \notin Remote THEN Local
         ELSE IF peer[port] = None THEN None ELSE peer[port].who

Wanted == Columns[table][column]

\* The columns of strings: only these are compared with the size of the
\* response, what the others show is a number or has a fixed size.
StringColumn ==
  {<<"lldpLocChassisId", 2>>, <<"lldpLocPortTable", 3>>, <<"lldpLocPortTable", 4>>,
   <<"lldpRemTable", 5>>, <<"lldpRemTable", 7>>, <<"lldpRemTable", 8>>,
   <<"lldpXPnoLocTable", 6>>, <<"lldpXPnoRemTable", 6>>}

TooLarge == <<table, column>> \in StringColumn /\ Wanted \in Oversized[Owner]

\* get_value of a local table, get_value_from_remote_... of a remote one
\* and the copy of the response by its get_value
ReadValue ==
  /\ pc = "value"
  /\ Owner # None /\ Wanted \in Offers[Owner]
  /\ IF TooLarge
     THEN Answer("genError", None)
     ELSE Answer("value", [owner |-> Owner, attribute |-> Wanted])

\* The peer is gone or has not announced the attribute: as if no row was
\* found.
NoValue ==
  /\ pc = "value"
  /\ Owner = None \/ (Owner # None /\ Wanted \notin Offers[Owner])
  /\ pc' = "none"
  /\ UNCHANGED <<peer, now, req, table, column, row, port, mark, best, answer, quiet, existed>>

\* lwIP goes on with the next column, from its first row, and after the
\* last column with the next table.
LaterColumns == {c \in DOMAIN Columns[table] : c > column}
LaterTables == {t \in Table : OidLess(Oid[table], Oid[t])}

TurnTo(t, c) ==
  /\ table' = t
  /\ column' = c
  /\ row' = <<>>
  /\ port' = 1
  /\ best' = None
  /\ pc' = "scan"
  /\ existed' = Rows(t)
  /\ UNCHANGED <<peer, now, req, mark, answer, quiet>>

NextColumn ==
  /\ pc = "none" /\ req.op = "next"
  /\ \E c \in LaterColumns :
       /\ \A d \in LaterColumns : c <= d
       /\ TurnTo(table, c)

NextTable ==
  /\ pc = "none" /\ req.op = "next"
  /\ LaterColumns = {}
  /\ \E t \in LaterTables :
       /\ \A u \in LaterTables : u = t \/ OidLess(Oid[t], Oid[u])
       /\ TurnTo(t, FirstColumn(t))

\* A get of a cell that is not there, or the end of the walk.
NoSuchInstance ==
  /\ pc = "none"
  /\ req.op = "get" \/ (LaterColumns = {} /\ LaterTables = {})
  /\ Answer("noSuchInstance", None)

Server ==
  \/ ScanLocal \/ ScanRemoteDevice \/ ScanRemoteInterface \/ ScanAddress
  \/ ReadValue \/ NoValue
  \/ NextColumn \/ NextTable \/ NoSuchInstance

Manager ==
  \/ \E t \in Table : StartWalk(t)
  \/ ContinueWalk
  \/ \E t \in Table : \E c \in DOMAIN Columns[t] : GetCell(t, c)

Stack ==
  \/ \E p \in Port, who \in Peer, time \in 0 .. MaxTime : Arrive(p, who, time)
  \/ \E p \in Port : Leave(p)

Next == Server \/ Manager \/ Stack

Spec == Init /\ [][Next]_vars

-----------------------------------------------------------------------------
(* Properties.                                                             *)

Status == {"none", "value", "genError", "noSuchInstance"}

TypeOK ==
  /\ peer \in [Port -> [who : Peer, since : 0 .. MaxTime] \cup {None}]
  /\ now \in 0 .. MaxTime
  /\ pc \in {"idle", "scan", "address", "value", "none"}
  /\ req.op \in {"none", "get", "next"} /\ req.table \in Table
  /\ table \in Table
  /\ pc # "idle" => column \in DOMAIN Columns[table]
  /\ row \in Seq(Nat)
  /\ port \in Port \cup {0}
  /\ mark \in 0 .. MaxTime
  /\ best = None \/ (best.row \in Seq(Nat) /\ best.port \in Port)
  /\ answer.status \in Status
  /\ quiet \in BOOLEAN
  /\ existed \subseteq Seq(Nat)

\* Cells are ordered by table, then by column, then by row.
CellLess(c, d) ==
  \/ OidLess(Oid[c.table], Oid[d.table])
  \/ /\ c.table = d.table
     /\ c.column < d.column \/ (c.column = d.column /\ OidLess(c.row, d.row))

CellsOf(t) == [table : {t}, column : DOMAIN Columns[t], row : Rows(t)]
Cell == UNION {CellsOf(t) : t \in Table}

Answered(cell) ==
  answer.table = cell.table /\ answer.column = cell.column /\ answer.row = cell.row
Found == pc = "idle" /\ answer.status = "value"

(* A walk never goes back or stays where it is: a get-next that is answered *)
(* has moved on, also when peers come and go while their rows are compared *)
(* (rowindex_update_with_next_..., and the return to the first row when    *)
(* the server takes the next column or table).  A manager's walk would     *)
(* repeat itself otherwise.                                                *)
RowAdvances == Found /\ req.op = "next" => CellLess(req, answer)

(* A row of the tables with one timestamp per row is a row the table has   *)
(* had while the request was handled, whatever changed meanwhile: a port   *)
(* whose peer is gone gives no row (the errors tested in the loops over    *)
(* the ports).                                                             *)
DeviceRowExisted ==
  Found /\ answer.table \notin RemoteInterface => answer.row \in existed

\* The peer at a row's port has announced what the cell is read from.
Valued(cell) ==
  cell.table \in Remote =>
    Columns[cell.table][cell.column] \in Offers[peer[cell.row[2]].who]

\* A get-next that meets a cell without a value leaves the column there: that
\* cell and those behind it are hidden from one that comes from before.
Hidden(from, cell) ==
  \E gap \in Cell :
    /\ gap.table = cell.table /\ gap.column = cell.column
    /\ CellLess(from, gap) /\ ~ CellLess(cell, gap)
    /\ ~ Valued(gap)

(* With peers that stay, a get-next finds the nearest cell of all tables   *)
(* that is not hidden, although rows are ordered by time and ports are     *)
(* visited by number; a get is answered with the cell that was asked for;  *)
(* and the value is that of the peer at the row's port.                    *)
NearestCell ==
  Found /\ quiet =>
    /\ \E cell \in Cell : Answered(cell) /\ Valued(cell)
    /\ IF req.op = "get" THEN Answered(req)
       ELSE /\ ~ Hidden(req, answer)
            /\ \A cell \in Cell :
                 CellLess(req, cell) /\ CellLess(cell, answer) => Hidden(req, cell)
    /\ answer.table \in Remote => answer.value.owner = peer[answer.row[2]].who

(* With peers that stay, no get or get-next fails while there is a cell it *)
(* asks for that has a value and is not hidden: the loops over the ports   *)
(* miss none.                                                              *)
NoCellMissed ==
  pc = "idle" /\ answer.status = "noSuchInstance" /\ quiet =>
    \A cell \in Cell :
      IF req.op = "get"
      THEN cell.table = req.table /\ cell.column = req.column /\ cell.row = req.row
             => ~ Valued(cell)
      ELSE CellLess(req, cell) => Hidden(req, cell)

(* What the comment of rowindex.h says: a row index is updated with a row  *)
(* index that exists in the table.                                         *)
ExistingRow == Found => answer.row \in existed

=============================================================================
