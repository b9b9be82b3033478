# Verification of the U-Phy middleware for ModusToolbox

TLA+ modules, TLC configurations and TLAPS proofs for the C code of this
repository: the glue between the U-Phy core (a closed library) and the platform
(FreeRTOS, lwIP, littlefs, the PDL of the chip). The glue is small, but nearly
every part of it stands between two contexts: an interrupt and a task, a
callback and a task, the protocol stack and the SNMP server.

Paths below are relative to the repository.

## 1. The system

| Component | Source | State | Operations | Interacts with |
|---|---|---|---|---|
| Serial ring buffer | `src/shell/ring_buffer.c` | `buffer`, `head`, `tail` | put, get, avail | filled by the UART interrupt, drained by the console task |
| Console | `src/shell/retarget_io.c`, `shell.c`, `rte/src/rte_shell.c` | shell state, command line and its position, previous line, stdin's buffer | `UART_Isr`, `_read`, `handle_esc`, `shell_state_machine`, `rte_shell_execute` | ring buffer, C library, commands |
| File system | `rte/src/fs/rte_fs.c`, `src/fs/filesys.c` | mounted volume, mutex, open streams with two blocks of memory each | mount with reformat, open, read, write, close, remove, format | littlefs, block device callbacks |
| Binary files of PNAL | `rte/src/pnal.c` | none between calls | save, load, clear one file of two objects | streams of `rte_fs.c`, several tasks |
| Ethernet connection | `src/network/network.c` | `ecm_handle`, `prev_evt_data`, retry count | connect, workaround for static addresses, event callback, `sync_db`, `netcfg` | Ethernet connection manager (ECM), lwIP, database of settings |
| Network settings | `rte/src/net/rte_network.c` | none | get and set the interface | U-Phy, lwIP |
| SNMP tables | `rte/src/net/mib/rowindex.c`, `lldp*.c` | one row index per request | get, get-next and value of the cells of nine tables and a pair of scalars, in three MIBs | lwIP's SNMP server, peers seen by the protocol stack |
| SNMP system and interfaces | `rte/src/net/mib/mib2_system.c`, `src/lwip/src/apps/snmp/...` | strings of the stack, status of the interfaces | get, get-next, test, set | SNMP server, U-Phy |
| SNMP start-up | `rte/src/net/pnal_snmp.c` | lwIP's callbacks | check the configuration, register, start | SNMP server |
| Raw Ethernet | `rte/src/net/pnal_eth.c`, buffers of `pnal.c` | an array of handles, shared between threads | init, receive hook, allocate, free, send | lwIP's thread, U-Phy |
| OS abstraction | `osal/osal.c`, `include/up_util.h` | FreeRTOS objects, a structure per timer | threads, mutexes, semaphores, events, mailboxes, timers, the clock, the test of a timeout | FreeRTOS and its timer task |
| UDP and sockets, logging, utilities | `pnal_udp.c`, `rte_sock_lwip.c`, `osal_log.c`, `utils.c`, `rte.c` | none | wrappers of one call each | lwIP, stdout |
| U-Phy core | `include/*.h` and binaries | closed | | everything above |

What is hard in it, and what makes each part correct:

* *Ring buffer.* No lock, only volatile cursors and unsigned arithmetic. Correct
  when no interrupt disturbs the slot being read, order is kept, a character is
  lost only when the buffer is full, and the count is never too high.
* *Console.* The task tests a count and then calls a library function with a
  buffer of its own; the line is edited, recalled, copied and chopped in place.
  Correct when `getchar` never runs dry, what is executed is what the terminal
  shows, and nothing received is left behind.
* *Files.* Each call is atomic, a save is five calls; power may fail, and any
  call may fail. Correct when a save's result says what is stored, a load never
  mixes two saves, and no memory is lost: when the file is atomic to its callers.
* *Network.* Settings are copied between the database, the ECM and the
  interface by two activities, and events come late and repeatedly. Correct when
  the database agrees with the interface in the end, and when the static
  settings survive the start.
* *SNMP tables.* Peers come and go between two calls of one request. Correct
  when walks make progress and every answered row existed, and when, with peers
  that stay, the nearest cell is found with its own peer's value and a whole walk
  leaves out nothing but what a missing value hides.
* *SNMP system and interfaces.* Counted octets become terminated strings, sizes
  travel through functions that use a negative number, an error code or a length;
  a set request is tested as a whole and stored one variable at a time. Correct
  when an answer says what is stored and what is read back is what was set.
* *Raw Ethernet.* The receive hook may run before the handle it uses is complete;
  a frame has an owner at every moment. Correct when the callback gets its own
  interface's frames with its argument, and each is freed once.
* *Timers.* A command is queued, its effect comes later, and the function of a
  timer runs in another task. Correct when it never runs for a freed timer, nor
  after a stop that returned, and when periods and timeouts survive the
  conversion to ticks and the wrap of the clock.

`PROJECT.json` lists the hazards one by one at their lines, with the properties
that cover them or the reason why none does.

## 2. Modules

| Module | What it is |
|---|---|
| `BoundedFifo` | abstract specification: a bounded queue of characters |
| `RingBuffer` | the ring buffer, one step per access to shared memory; implements `BoundedFifo` |
| `Shell` | interrupt, stdin and line editor over the queue of `BoundedFifo` |
| `AtomicFile` | abstract specification: a file that holds one whole version or nothing |
| `PnalFile` | streams, save, load, clear, mount and reset; implements `AtomicFile` |
| `Network` | start-up, event callback, interface and database |
| `LldpTables` | SNMP requests over tables of changing peers |
| `LldpWalk` | a walk as a whole: the requests of `LldpTables` and what they have answered |
| `Mib2` | SNMP start-up, the system group and the interfaces table |
| `PnalEth` | registration of callbacks, received and sent frames, buffers |
| `OsTimer` | timers between threads and FreeRTOS's timer task, the clock, timeouts |
| `...Proofs` | theorems about `RingBuffer`, `Shell`, `PnalFile`, `Network`, `LldpTables`, `Mib2`, `PnalEth` and `OsTimer` |
| `MC...` | the instances for TLC (`PnalEth` and `OsTimer` need none) |

Definitions whose comment begins with "Mutant of" are not
part of any specification: each is a plausible bug of the definition that it
names, kept to see that a property notices it. Variables marked "history" record
what a property speaks about; no guard of an action that models code reads them.

### RingBuffer

`Put` is `ring_buffer_put` as called by `UART_Isr`: one step, because the
interrupt runs to completion on a single core. The task's calls are cut where an
interrupt makes a difference: `GetTest`, `GetRead`, `GetAdvance` are the
emptiness test, the copy of the character and the advance of `tail` in
`ring_buffer_get`; `AvailHead`, `AvailReturn` are the two copies in
`ring_buffer_avail`. `Distance` is its expression, in arithmetic modulo `Word`
(2^32). That `head` and `tail` are volatile and the core is single justifies
accesses in program order. The comment of `ring_buffer_avail` calls its result the
available space; the code returns the number of characters stored, and its callers
need that (see the findings in section 3).

### Shell

`Receive` is the interrupt on the abstract queue, which is sound because
`RingBuffer` implements it. `Poll` is the test of `ring_buffer_avail` before each
`getchar` (`shell.c:111`, `:207`), `Read` one iteration of `_read`, `Take` the
return of `getchar`. `EscBracket`, `EscRecall` and `EscOther` are `handle_esc`;
`Prompt`, `EndLine`, `StartEsc`, `EraseLast`, `Insert`, `Ignore`, `Execute`,
`EndCmd` the branches of `shell_state_machine`. `Chop` is what `strtok_r` in
`rte_shell_execute` does to the line, without its limit of 15 arguments (what is
behind them is not read). `screen`, `garbled` and `last` record what
the user sees and typed.

Whether stdin is buffered is left to the C library by this repository, so
`stdinSize`, chosen at the start, is 1 (unbuffered) or more. With a buffer a
character that `_read` has already moved out of the ring buffer is not counted by
`ring_buffer_avail`, and waits until another one is typed. `InputIsHandled` says
so: unless characters keep arriving, the ring buffer empties, and only what a
buffered stdin holds back may wait; unbuffered, everything is handled.

### PnalFile

One step per call into littlefs, each under the lock. `SaveOpen` to `SaveClose`
and `LoadOpen` to `LoadClose` follow the order and the `if (ret == 0)` guards of
`pnal_save_file` and `pnal_load_file`; `OpenOk`, `OpenFails`, `WriteOk`,
`WriteFails`, `CloseOk`, `CloseFails`, `ReadObject` are the stream functions.
`Mount` formats whenever littlefs cannot mount, as `fs_mount` does. `Reset` may
come at any step. What littlefs guarantees is stated in the module's header.

`FileSpec` is `AtomicFile` under the mapping at the end of the module. A save
takes effect in the step in which its close reports success, a load is settled
when it opens the file; a clear or a format turns the saves under way into ones
that came before it (closing a stream whose file was removed stores nothing and
reports success). What an open stream has written, an empty file that opening
created, and the order of the two objects are invisible there.

### Network

The start-up task (`ConnectFails` to `SetStatic`, `DhcpOn`) and the callback
(`Deliver`, `SyncRead`, `SyncWrite`, `SyncDhcp`) take one step per access to the
database or interface. The ECM and lwIP are represented by what the comments of
`network.c` say about them: the connection is made with the configured settings
whatever is asked for, and events repeat. `Lease`, `UphySetAddr` and `Netcfg`
change the interface. `NetcfgSet` returns after the first option that is given, as
the code does, although the help gives an example with three
(`network.c:662-663`).

### LldpTables

`Oid` and `Columns` are the trees of the three MIBs: ten nodes (nine tables and
the pair of scalars about the chassis), each with its place in a walk and, per
column, the attribute that its cells are read from; columns that are parts of one
attribute (a subtype and its value) are read in one call.

A manager gets a cell (`GetCell`), starts a walk (`StartWalk`) or goes on from
the last answer (`ContinueWalk`). Then comes one `Scan...` step per port as the
functions `rowindex_match_...` and `rowindex_update_...` visit it (two for
`lldpRemManAddrTable`, which calls the stack twice), then `ReadValue` or `NoValue`,
the call of the `get_value_from_remote_...` function. `NextColumn`, `NextTable` and
`NoSuchInstance` are what lwIP makes of a column without further cells, so that a
walk runs through all tables. `Arrive` and `Leave` change the peers between any two
calls. `existed` and `quiet` record the rows that the table has had during the
request, and whether the peers stayed as they were.

A peer need not have announced what a column shows. Then `NoValue` answers as if
there was no next row (`lldp-mib.c:825`), the server takes the next column, and the
cells behind that one are not answered although they have values. A string that is
too long for the response is answered with an error (`TooLarge`), which ends a walk;
the columns of numbers that are read from the same attribute are answered. `Valued` and
`Hidden` say which those are; `NearestCell`, `NoCellMissed` and `WalkComplete` allow
for them and for no others, whatever the peers have announced.

`LldpWalk` adds three history variables: where a walk started (`start`), the cells
answered since (`visited`), and whether no peer has changed in between (`steady`).
A get or a change of peers ends the record (`Forget`).

### Mib2

`Configure`, `Refuse` and `Start` are `pnal_snmp_init`. A get of the system group
(`GetSystem`) is one call of the `get_..._value` function behind lwIP's callback; a
get or get-next of the interfaces table looks for the cell (`FindCell`, with
`Better` as `snmp_next_oid_check` over lwIP's list of interfaces) and reads it
afterwards (`ReadCell`). A set request tests every variable (`Test`, `Tested`) and
then stores them one by one (`SetText`, `SetAdmin`); `SetDone` answers. `CString` is
the copy of counted octets into a terminated string. `StackWrites` and
`InterfaceChanges` come between any two of these. The read-only columns of the
interfaces table stand as one, and so do the scalars that never change.

### PnalEth

`pnal_eth_init`, `Allocate` or `TooManyInterfaces`, `SetHook`, `Store` and
`InitReturn` are `pnal_eth_init`, which holds no lock: the three stores into the
handle come in any order, since nothing forbids the compiler to choose one.
`Arrive`, `pnal_eth_find_handle`, `CallCallback`, `CallbackReturns` and `RecvReturn`
are a frame in lwIP's thread. `pnal_buf_alloc`, `pnal_buf_free`, `pnal_eth_send` and
`SendReturn` are U-Phy's; a send waits for the core lock, and one without a buffer
returns an error and changes nothing, so that it is no step. A call of a callback that
has not been stored ends in `"fault"`: the device stops. Left out: the four octets
by which a received frame is shortened, and lwIP's error, which `pnal_eth_send`
ignores. Assertions are taken as enabled; without them `pnal_buf_free` would not
free anything.

### OsTimer

`Expire`, `os_timer_callback`, `TakeCommands`, `Carry` and `CommandsDone` are the
timer task of FreeRTOS: first what has expired, then all commands. `Send` and
`Return` are a timer function that waits for room in the queue and returns; a
thread below the timer task (`Below`) goes on only when that has nothing left to do,
which is why `os_timer_destroy` may free the timer after `xTimerDelete`. Nothing
under `src/` makes sure of that: the priority of the timer task is FreeRTOS's
`configTIMER_TASK_PRIORITY`, which the repository does not set, and `osal.c:44-51` lets a
thread have up to `configMAX_PRIORITIES * 6 / 7`. So `FreedIsQuiet` and
`StoppedIsQuiet` are stated for an owner below the timer task. For one above it both
fail: the timer is freed, or the stop has returned, while the command still waits in
the queue. The other properties do not depend on priorities.
`os_timer_set` only stores the period, as the code does. `Ticks` is
`(us / portTICK_PERIOD_MS) / 1000`. `os_get_current_time_us` divides ticks by
`portTICK_PERIOD_MS` where it would have to multiply (`osal.c:107`); the two agree for
a tick of one millisecond, and `ExpiredIsElapsed` is stated for that. It follows the
code of `up_is_expired` also where the comment says something else (section 3).

## 3. Runs

| Run | Bounds | Shows |
|---|---|---|
| `ring_buffer` | 4 slots, word of 16, 3 characters | `SlotIsSafe`, `AvailNeverOverstates`; `FifoSpec`: implements the queue |
| `shell` | queue of 1, stdin of 1 or 2, line of 2 characters, every kind of character | `NeverEof`, `ScreenShowsLine`, `HistoryIsLastLine`, `InputIsHandled` |
| `pnal_file` | 2 tasks, 2 versions, 4 blocks of memory, failing open, write, close, remove | `SavedIsStored`, `LoadIsConsistent`, `NoStreamLeaked`; `FileSpec`: implements the atomic file |
| `pnal_file_mount` | same, and mounts that fail | finding: a saved version is formatted away |
| `network` | 2 addresses, 2 masks, 1 gateway, 3 attempts, 2 events under way | `SettledDatabase`, `DatabaseCatchesUp` |
| `network_static` | same | finding: static settings are lost at start |
| `lldp` | 2 ports, 2 peers, 2 timestamps, all tables | `RowAdvances`, `DeviceRowExisted`, `NearestCell`, `NoCellMissed`, `WalkComplete` |
| `lldp_row` | same | finding: a row of two different peers |
| `mib2` | strings of 3 octets with the terminator, buffer of 2 or 3, 1 or 2 interfaces, requests of 1 or 2 variables | `GetsVariable`, `SetReported`, `ReadBack`, `NearestInterface` |
| `mib2_size` | same, buffer of 1 | finding: an error code is taken for a length |
| `os_timer` | 1 timer, 2 threads, queue of 1, 3 calls, clock modulo 8, 1 tick late | `FreedIsQuiet`, `StoppedIsQuiet`, `RightPeriod`, `StartIsKept`, `ExpiredIsElapsed`, `Fires` |
| `pnal_eth` | 2 interfaces, 1 slot, 3 buffers, 2 callbacks and arguments | `BuffersAccounted`, `RightCallback`, `DeliveredOnceReady` |

Each run but those that show a finding also checks the module's `TypeOK`; the
latter check one property.

The findings, each with the line it contradicts in `PROJECT.json`:

* `pnal_file_mount`: `fs_mount` formats after any error of `lfs_mount`; its comment
  says that this happens on the first boot only.
* `network_static`: the event of the connection makes `sync_db` write the configured
  settings to the database, where `ecm_workaround` then reads them instead of the
  static ones it is there to restore.
* `lldp_row`: a row of the table of management addresses takes its timestamp from
  one peer and its address from the next, when the peer is replaced in between.
* `mib2_size`: a string that does not fit lwIP's buffer makes the get functions
  return `SNMP_ERR_GENERROR`, which is taken for a length of five.

Two more are comments that the code contradicts where the code is what its callers
need; the runs check what the code does, and show that the comment does not hold:

* `ring_buffer`: the comment of `ring_buffer_avail` (`ring_buffer.c:89`, `:95`) calls its
  result the available space. An empty buffer has room for `len - 1` characters, and
  the result is 0: it is the number of characters stored. `AvailNeverOverstates`, which
  keeps the shell from reading an empty buffer, could not hold for the space.
* `os_timer`: the comment of `up_is_expired` (`up_util.h:112-114`) says that it is true if
  the time elapsed is greater than the timeout. The code (`:124`) compares with `>=`. The
  two differ exactly when the time elapsed is the timeout, which the run covers with
  timeouts of no and of two ticks; `ExpiredIsElapsed` states the code's side.

Why the bounds are enough:

* Four slots wrap both cursors and hold zero to three characters, so empty, full
  and wrapped contents all meet every interleaving.
* A line of two characters can be empty, partly filled and full, erased and
  recalled. A queue of one makes every character arrive between any two steps of
  the task, and be lost; a stdin of two is refilled while it still holds one.
* Two tasks give every overlap of two calls on one file; a third has no step that
  two cannot take. Two versions tell a mixture. Four blocks are enough for two
  streams, so that memory runs out only when one has been lost.
* Two addresses let the stored and the configured setting differ; two events under
  way let one be outdated when it is delivered. `MaxEvents` bounds them.
* With two ports the order of rows and of ports can differ (by time), and one port
  can fail while the other does not. `MaxTime` bounds the stack's clock. The
  peers differ in what they announce: one has no management address, no station
  name, and a port identifier too long for the response. A walk that meets that one
  ends with an error; with the other peer, or with none, walks go from the first
  table to the end of the last, so that `WalkComplete` covers whole walks.
* The manager sends strings that just fit, that are too long, and that contain a
  terminator; a buffer of two and one of three octets are either side of what a
  string needs. With two interfaces the list can be out of order. Two variables
  are enough for the second to fail when the first is stored.
* With one slot and two interfaces, the second registration finds the array full.
  Three buffers are one in the hands of lwIP, one of U-Phy, and one being sent.
* A queue of one is full while a second thread sends. Periods of one and two ticks
  tell an old period from a new one; `MaxCalls` bounds start, stop and destroy,
  `MaxLate` how late the timer task may be.

For the safety properties listed in section 4 the bounds do not matter.

`PnalFile` uses symmetry over tasks and over versions, whose values nothing
tells apart; only safety properties are checked there (`AtomicFile` states no
fairness). Deadlock is checked in `ring_buffer`, `pnal_file`, `lldp`, `mib2` and
`os_timer`. It is not checked in `Shell`, `Network` and `PnalEth`: with nothing
to read and nothing stored a console that waits is at rest when the queue is
full, a start-up that gave up ends with nothing left to do, and a call of a
callback that is not there stops the device.

### Fairness

* `Shell`: weak fairness of the console task alone, which runs again after each
  `vTaskDelay (1)`. That characters arrive is not assumed.
* `Network`: weak fairness of the ECM's thread, which delivers an event that it has
  and runs the callback to its end. Nothing is assumed of the start-up task, of
  leases or of users.
* `OsTimer`: weak fairness of the timer task (the threads above it do not run
  forever), of the tick, and of a thread that has called a timer function, so that
  it goes on when there is room and the timer task is idle. No thread has to call
  anything.

The other specifications state no fairness and no liveness.

## 4. Proofs

Each theorem holds for every value of the constants that the module's assumptions
allow: any number of tasks, ports, interfaces or buffers, any queue, any string. In
each proof module `IInv` is the inductive invariant, a conjunction of named parts;
`InitInv` and `StepKeepsInv` (in `PnalEthProofs`, `NextInv`) are its two halves,
with a lemma per action or group of actions; a theorem follows by `PTL`.

* `RingBufferProofs`, for any length that divides the word: `TypeCorrect`,
  `SlotSafety`, `AvailSafety`, and `Refinement`: `Spec => FifoSpec`.
  The two safety invariants are inductive together with `TypeOK`. `PutKeeps` is the
  step that matters: an interrupt never lowers `Count` and never writes the slot at
  `tail` while the buffer is not empty. That needs the slot which stays free, and
  it is what an off-by-one in the test for full destroys. `SuccessorWraps`,
  `PositionWraps`, `SpanCounts` and `DistanceIsSpan` are the arithmetic; only the
  last uses divisibility.
* `ShellProofs`: `TypeCorrect`, `EofSafety`, `ScreenSafety`, `HistorySafety`.
  `ReadInv`: past the poll there is a character, in the queue or in stdin, because
  nobody else takes one. `LineInv`: there is no terminator before the position and
  one at it when the line is done, so that a copied, recalled or chopped line ends
  where the position says. `HistoryInv` and `ScreenInv` state the two results in
  those terms.
* `PnalFileProofs`: `TypeCorrect`, `SavedSafety`, `LoadSafety`, `MemorySafety`, and
  `Refinement`: `Spec => FileSpec`. `SaveInv` says that a save has written a prefix of its
  version if nothing has failed, and that its stream is marked otherwise (the
  second write is not attempted after a failed first one, or a later success
  would unmark it); `LoadInv` that a load reads from what the file held. The memory
  theorem counts open streams with the library's facts about cardinality. In the
  refinement every step is a step of `AtomicFile` or a stutter; `OffInv` (no task
  is in a call while the system is down) makes a boot one.
* `NetworkProofs`: `TypeCorrect`, `SettledSafety`. `EventInv`: the newest event under
  way, or the last one delivered if there is none, carries the interface's address.
  `SyncInv`: while no event under way differs from the one being handled, what
  `sync_db` has read and written is current. `StartUpInv`
  and `ReadInv` say that a setting has been read before it is used.
* `LldpTablesProofs`: `TypeCorrect`, `WalkSafety`, `RowSafety`, `NearestSafety`,
  `NoCellMissedSafety`, and, about whole walks, `WalkImplements` and
  `WalkCompleteSafety`. `AdvanceInv`: the best row so far
  is after the one the scan started with, and table and column are never behind
  those of the request. It needs that the order of object identifiers is
  transitive (`OidLessTransitive`) and which places the ten nodes have (`TableOids`).
  `ExistInv`: the best row of a device is among those that existed.
  `NearInv` is what is true in addition while no peer has changed (`quiet`), phase by
  phase. `ScanInv`: no row of the ports visited so far that is after the start of
  the search is before the best one. `ValueInv`: when a row has been selected, no
  row of the table is nearer; it follows because every row of a table is one of the
  rows of its ports (`RowsByPort`, `ScanDone`). `NoneInv` and `PassedInv`: a column that is given
  up, and all columns and tables that have been left, hold only cells that are
  hidden. That no column or table is jumped over needs the order to be total:
  `OidLessTotal` takes the first place where two identifiers differ (`Least`, from
  well-foundedness), and `OidInjective` says that no two nodes share one. A gap that
  hides a cell is found in `NoValueNear`. The theorems assume that an encoded
  address is not empty, which holds because its first element is its subtype
  (`rowindex.c:45`): a column is searched for rows after the empty identifier, and an
  empty row would not be found (`RowsNotEmpty`).
  `WalkInv` carries this over the requests of a walk: each asks from the start or from
  a visited cell, and the visited cells are the visible ones up to there.
  `FoundExtends` is the step from one request to the next; it needs that hidden from
  the request and hidden from the start mean the same (`HiddenFromStart`,
  `HiddenFromRequest`), which fails if an answer could itself lie behind a gap.
* `Mib2Proofs`: `TypeCorrect`, `GetSafety` (under the assumption that lwIP's buffer holds the
  longest string; `mib2_size` shows that it is needed), `SetSafety`, `ReadBackSafety`,
  `NearestSafety`. `SetInv`: while a request is tested nothing is stored, and afterwards
  exactly its first `done` variables are. `KeptInv`: what the manager set last and
  nobody has changed is what is stored. `NextIndex` and `CString` look for a least
  element in data of any length. The library's induction theorems cannot be used with
  the provers at hand, so the proof takes the contrapositive: `Least` (every
  non-empty set of naturals has a least element, from well-foundedness) gives the
  first place where the recursive function goes wrong, and there is none.
* `PnalEthProofs`: `TypeCorrect`, `BufferSafety`, `CallbackSafety`, `Delivery`. `SlotInv`: a
  field of a handle is unset or what was registered for that slot, whichever
  have been stored. `RecvInv`: what lwIP's thread has read of a slot belongs to
  the interface of its frame, and is complete if the registration had returned.
* `OsTimerProofs`, for threads of any priority: `TypeCorrect`, `FreedSafety`, `StoppedSafety`, `PeriodSafety`,
  `StartSafety`, `ElapsedSafety`. `QueueInv`: the last command sent is the last in the queue, or has
  been carried out. `StopInv` and `DeleteInv`: when the owner is back from a stop or
  a delete the queue is empty, if the owner is below the timer task, which these two
  and the theorems that rest on them (`FreedSafety`, `StoppedSafety`) assume; then
  nothing can start the timer without being seen. `SpanInv` relates the time that
  is left to the time since the last start. `LastInv` (a delete is the last command, and
  nobody can send another) and `KeptInv` are what `StartSafety` needs: it is the
  safety half of `Fires`, and holds without fairness. `ElapsedSafety` needs no invariant but
  `TypeOK`, and the arithmetic of `Quotient` to `TimesDiffer`.

Only model-checked: the three liveness properties, `InputIsHandled`,
`DatabaseCatchesUp` and `Fires`, because the prover has no rule for fairness and
`ENABLED`. All invariants and both refinements that a run checks are proved.

## 5. What is not modelled

* The U-Phy core, a binary; `include/*.h` are its interface.
* Wrappers of a single call: sockets, UDP, logging, version, and threads, mutexes,
  semaphores, events and mailboxes in `osal.c`.
* Output and formatting, help texts, the display of settings.
* In the file system: seek, tell, line and formatted access, directories, append
  mode, the block device callbacks. In the console: the command table.
* In the network code: MAC addresses and the host name.
* Periods of a timer below one tick (`xTimerCreate` does not allow zero ticks).

External code is represented where the modelled code depends on it, each time
with its assumption in the module's header: littlefs (what is stored when), the C
library's stdin, the ECM and lwIP's interface, lwIP's SNMP server and its thread,
FreeRTOS's timer task, and the records of the protocol stack about peers.

## 6. Plan

Done, in this order: `BoundedFifo` and `RingBuffer`; `Shell`; `PnalFile`; `Network`;
`LldpTables`; the proofs of `RingBuffer`; `PnalEth`; `OsTimer`; `Mib2`; `AtomicFile` and its
refinement; the proofs of the other modules; `LldpWalk` and the proofs of nearest cells
and complete walks.

Left:

1. The rest of the streams (positions, append mode, line and formatted access)
   against what the headers say, and the cache of the block device callbacks.
2. The command table: registration against lookup.
3. The other services of `osal.c`, above all mailboxes and events with timeouts.
