------------------------------ MODULE PnalFile ------------------------------
(***************************************************************************)
(* Saving, loading and clearing one binary file: pnal_save_file,           *)
(* pnal_load_file and pnal_clear_file (rte/src/pnal.c) over the streams of *)
(* rte/src/fs/rte_fs.c, and the mount at boot (src/fs/filesys.c).          *)
(*                                                                         *)
(* Several tasks use the file, one step per call into littlefs: fs_lock    *)
(* and fs_unlock make each call atomic and nothing more.  The power may    *)
(* fail between any two calls.                                             *)
(*                                                                         *)
(* littlefs is not under src/.  As far as this code depends on it: what a  *)
(* stream opened for writing has written replaces the file when the stream *)
(* is closed and not before, but a file that did not exist is created      *)
(* empty when it is opened; a failed write marks the stream, a later write *)
(* that succeeds unmarks it, and closing a marked stream, or one whose     *)
(* file was removed meanwhile, stores nothing and reports success; a       *)
(* stream opened for reading reads the file as it was then.  The last      *)
(* holds for files that littlefs keeps inline (up to cache_size bytes).    *)
(***************************************************************************)
EXTENDS Integers, Sequences, FiniteSets

CONSTANTS
  Task,      \* the tasks that use the file
  Version,   \* what a save may store: object 1 and object 2 of one version
  None,      \* no file, no version, no stream
  Unread,    \* what a load finds in its objects beforehand
  Fault,     \* calls that may fail: a subset of FaultKind
  MaxHeap    \* blocks of memory the heap can give to streams

FaultKind == {"open", "write", "close", "remove", "mount"}

\* What a file can hold, and a stream
Data == {<<>>} \cup {<<v>> : v \in Version} \cup (Version \X Version)
Stream == [mode : {"r", "w"}, data : Data, erred : BOOLEAN, removed : BOOLEAN]

ASSUME PnalFileAssumption ==
  /\ IsFiniteSet(Task)
  /\ None \notin Version \cup Data \cup Stream
  /\ Unread \notin Version
  /\ Fault \subseteq FaultKind
  /\ MaxHeap \in Nat

VARIABLES
  flash,     \* "blank" before the first boot, else "formatted"
  disk,      \* the stored file: a sequence of objects, or None
  up,        \* whether the system runs: fs_init has mounted the file system
  stale,     \* format_fs was run: the device must be reset
  pc,        \* where each task is
  ver,       \* what each task saves
  stream,    \* the task's open stream, or None
  heap,      \* blocks of memory held by streams
  obj,       \* the two objects a task loads into
  ret,       \* the result of a task's save or load
  saved      \* history: the version of the last save reported as done,
             \* None after a clear or a format

taskVars == <<pc, ver, stream, heap, obj, ret>>
vars == <<flash, disk, up, stale, taskVars, saved>>

Idle(t) == pc[t] = "idle"
Goto(t, label) == pc' = [pc EXCEPT ![t] = label]
Return(t, value) == ret' = [ret EXCEPT ![t] = value]

Init ==
  /\ flash = "blank"
  /\ disk = None
  /\ up = FALSE
  /\ stale = FALSE
  /\ pc = [t \in Task |-> "idle"]
  /\ ver = [t \in Task |-> None]
  /\ stream = [t \in Task |-> None]
  /\ heap = 0
  /\ obj = [t \in Task |-> <<Unread, Unread>>]
  /\ ret = [t \in Task |-> 0]
  /\ saved = None

-----------------------------------------------------------------------------
(* Boot, reset and format.                                                 *)

\* fs_mount: whatever the reason that littlefs cannot mount, format.
Mount ==
  /\ ~up
  /\ up' = TRUE
  /\ \/ /\ flash = "formatted"
        /\ UNCHANGED <<flash, disk, saved>>
     \/ /\ flash = "blank" \/ "mount" \in Fault
        /\ flash' = "formatted"
        /\ disk' = None
        /\ saved' = None
  /\ UNCHANGED <<stale, taskVars>>

\* Power loss or reset: what is in memory is gone, streams are not closed.
Reset ==
  /\ up
  /\ up' = FALSE
  /\ stale' = FALSE
  /\ pc' = [t \in Task |-> "idle"]
  /\ ver' = [t \in Task |-> None]
  /\ stream' = [t \in Task |-> None]
  /\ heap' = 0
  /\ obj' = [t \in Task |-> <<Unread, Unread>>]
  /\ ret' = [t \in Task |-> 0]
  /\ UNCHANGED <<flash, disk, saved>>

\* The shell command format_fs; its help asks for a reset afterwards, and
\* no use of the file system between the two is modelled.
Format ==
  /\ up /\ ~stale
  /\ stale' = TRUE
  /\ disk' = None
  /\ saved' = None
  /\ UNCHANGED <<flash, up, taskVars>>

-----------------------------------------------------------------------------
(* Streams.                                                                *)

NewStream(mode, data) ==
  [mode |-> mode, data |-> data, erred |-> FALSE, removed |-> FALSE]

\* Mutant of OpenOk: the file is opened for appending.
OpenOkAppending(t, mode) ==
  /\ heap + 2 <= MaxHeap
  /\ mode = "r" => disk # None
  /\ heap' = heap + 2
  /\ stream' = [stream EXCEPT ![t] =
                  NewStream(mode, IF disk = None THEN <<>> ELSE disk)]
  /\ disk' = IF disk = None THEN <<>> ELSE disk

\* fs_fopen: two blocks of memory and littlefs's open; each failure frees
\* what was taken.  Opening for reading fails when there is no file; either
\* fails when memory is used up, by streams or otherwise.
OpenOk(t, mode) ==
  /\ heap + 2 <= MaxHeap
  /\ mode = "r" => disk # None
  /\ heap' = heap + 2
  /\ IF mode = "w"
     THEN /\ stream' = [stream EXCEPT ![t] = NewStream(mode, <<>>)]
          /\ disk' = IF disk = None THEN <<>> ELSE disk
     ELSE /\ stream' = [stream EXCEPT ![t] = NewStream(mode, disk)]
          /\ UNCHANGED disk

OpenFails(t, mode) ==
  /\ \/ heap + 2 > MaxHeap
     \/ "open" \in Fault
     \/ mode = "r" /\ disk = None
  /\ heap' = heap
  /\ UNCHANGED <<stream, disk>>

\* fs_fwrite of one object
WriteOk(t) ==
  stream' = [stream EXCEPT ![t].data = Append(@, ver[t]), ![t].erred = FALSE]

WriteFails(t) ==
  /\ "write" \in Fault
  /\ stream' = [stream EXCEPT ![t].erred = TRUE]

\* fs_fclose: what littlefs stores, and the two blocks freed in any case
Stores(t) ==
  stream[t].mode = "w" /\ ~stream[t].erred /\ ~stream[t].removed

CloseOk(t) ==
  /\ stream' = [stream EXCEPT ![t] = None]
  /\ heap' = heap - 2
  /\ disk' = IF Stores(t) THEN stream[t].data ELSE disk

\* Mutant of CloseFails: an early return leaves the stream's memory behind.
CloseFailsLeaking(t) ==
  /\ "close" \in Fault
  /\ Stores(t)
  /\ stream' = [stream EXCEPT ![t] = None]
  /\ UNCHANGED <<disk, heap>>

CloseFails(t) ==
  /\ "close" \in Fault
  /\ Stores(t)
  /\ stream' = [stream EXCEPT ![t] = None]
  /\ heap' = heap - 2
  /\ UNCHANGED disk

Running(t, label) == up /\ ~stale /\ pc[t] = label

-----------------------------------------------------------------------------
(* pnal_save_file.                                                         *)

SaveOpen(t, v) ==
  /\ Running(t, "idle")
  /\ ver' = [ver EXCEPT ![t] = v]
  /\ \/ /\ OpenOk(t, "w")
        /\ Goto(t, "write1")
        /\ Return(t, 0)
     \/ /\ OpenFails(t, "w")
        /\ Goto(t, "idle")
        /\ Return(t, -1)
  /\ UNCHANGED <<flash, up, stale, obj, saved>>

\* Mutant of SaveFirst: the result of the first write is not looked at.
SaveFirstUnchecked(t) ==
  /\ Running(t, "write1")
  /\ WriteOk(t) \/ WriteFails(t)
  /\ Goto(t, "write2")
  /\ UNCHANGED <<flash, disk, up, stale, ver, heap, obj, ret, saved>>

SaveFirst(t) ==
  /\ Running(t, "write1")
  /\ \/ WriteOk(t) /\ UNCHANGED ret
     \/ WriteFails(t) /\ Return(t, -1)
  /\ Goto(t, "write2")
  /\ UNCHANGED <<flash, disk, up, stale, ver, heap, obj, saved>>

\* Mutant of SaveSecond: the second object is written after a failure too.
SaveSecondAnyway(t) ==
  /\ Running(t, "write2")
  /\ \/ WriteOk(t) /\ UNCHANGED ret
     \/ WriteFails(t) /\ Return(t, -1)
  /\ Goto(t, "close")
  /\ UNCHANGED <<flash, disk, up, stale, ver, heap, obj, saved>>

\* The second object is written only when nothing has failed.
SaveSecond(t) ==
  /\ Running(t, "write2")
  /\ \/ ret[t] = 0 /\ WriteOk(t) /\ UNCHANGED ret
     \/ ret[t] = 0 /\ WriteFails(t) /\ Return(t, -1)
     \/ ret[t] # 0 /\ UNCHANGED <<stream, ret>>
  /\ Goto(t, "close")
  /\ UNCHANGED <<flash, disk, up, stale, ver, heap, obj, saved>>

\* A save that is overtaken by a clear counts as having come before it.
SaveClose(t) ==
  /\ Running(t, "close")
  /\ \/ CloseOk(t) /\ UNCHANGED ret
     \/ CloseFails(t) /\ Return(t, -1)
  /\ Goto(t, "idle")
  /\ saved' = IF ret'[t] = 0 /\ ~stream[t].removed THEN ver[t] ELSE saved
  /\ UNCHANGED <<flash, up, stale, ver, obj>>

-----------------------------------------------------------------------------
(* pnal_load_file.                                                         *)

LoadOpen(t) ==
  /\ Running(t, "idle")
  /\ obj' = [obj EXCEPT ![t] = <<Unread, Unread>>]
  /\ ver' = [ver EXCEPT ![t] = saved]
  /\ \/ /\ OpenOk(t, "r")
        /\ Goto(t, "read1")
        /\ Return(t, 0)
     \/ /\ OpenFails(t, "r")
        /\ Goto(t, "idle")
        /\ Return(t, -1)
  /\ UNCHANGED <<flash, up, stale, saved>>

\* Mutant of ReadObject: a short read is not reported.
ReadObjectIfAny(t, i) ==
  IF i <= Len(stream[t].data)
  THEN obj' = [obj EXCEPT ![t][i] = stream[t].data[i]] /\ UNCHANGED ret
  ELSE UNCHANGED <<obj, ret>>

\* Object i is read if the file is long enough for it.
ReadObject(t, i) ==
  IF i <= Len(stream[t].data)
  THEN obj' = [obj EXCEPT ![t][i] = stream[t].data[i]] /\ UNCHANGED ret
  ELSE Return(t, -1) /\ UNCHANGED obj

LoadFirst(t) ==
  /\ Running(t, "read1")
  /\ ReadObject(t, 1)
  /\ Goto(t, "read2")
  /\ UNCHANGED <<flash, disk, up, stale, ver, stream, heap, saved>>

LoadSecond(t) ==
  /\ Running(t, "read2")
  /\ IF ret[t] = 0 THEN ReadObject(t, 2) ELSE UNCHANGED <<obj, ret>>
  /\ Goto(t, "lclose")
  /\ UNCHANGED <<flash, disk, up, stale, ver, stream, heap, saved>>

LoadClose(t) ==
  /\ Running(t, "lclose")
  /\ CloseOk(t)
  /\ Goto(t, "loaded")
  /\ UNCHANGED <<flash, up, stale, ver, obj, ret, saved>>

\* The caller has used the result.
LoadDone(t) ==
  /\ Running(t, "loaded")
  /\ Goto(t, "idle")
  /\ UNCHANGED <<flash, disk, up, stale, ver, stream, heap, obj, ret, saved>>

-----------------------------------------------------------------------------
(* pnal_clear_file.                                                        *)

\* lfs_remove; a failure is only logged.
Clear(t) ==
  /\ Running(t, "idle")
  /\ \/ /\ disk' = None
        /\ saved' = None
        /\ stream' = [u \in Task |-> IF stream[u] = None THEN None
                                     ELSE [stream[u] EXCEPT !.removed = TRUE]]
     \/ /\ "remove" \in Fault \/ disk = None
        /\ UNCHANGED <<disk, saved, stream>>
  /\ UNCHANGED <<flash, up, stale, pc, ver, heap, obj, ret>>

TaskStep(t) ==
  \/ \E v \in Version : SaveOpen(t, v)
  \/ SaveFirst(t) \/ SaveSecond(t) \/ SaveClose(t)
  \/ LoadOpen(t) \/ LoadFirst(t) \/ LoadSecond(t) \/ LoadClose(t) \/ LoadDone(t)
  \/ Clear(t)

Next ==
  \/ Mount
  \/ Reset
  \/ Format
  \/ \E t \in Task : TaskStep(t)

Spec == Init /\ [][Next]_vars

-----------------------------------------------------------------------------
(* Properties.                                                             *)

TypeOK ==
  /\ flash \in {"blank", "formatted"}
  /\ disk \in Data \cup {None}
  /\ up \in BOOLEAN /\ stale \in BOOLEAN
  /\ pc \in [Task -> {"idle", "write1", "write2", "close",
                      "read1", "read2", "lclose", "loaded"}]
  /\ ver \in [Task -> Version \cup {None}]
  /\ stream \in [Task -> Stream \cup {None}]
  /\ heap \in 0 .. MaxHeap
  /\ obj \in [Task -> (Version \cup {Unread}) \X (Version \cup {Unread})]
  /\ ret \in [Task -> {0, -1}]
  /\ saved \in Version \cup {None}

(* What a save reports is what happened: the file holds both objects of    *)
(* the last save that returned 0, whatever saves failed, were cut off by a *)
(* reset or are under way, and no file, or an empty one, when there is no  *)
(* such save since the last clear or format.                               *)
SavedIsStored ==
  IF saved = None THEN disk \in {None, <<>>} ELSE disk = <<saved, saved>>

(* A load that returns 0 has filled both objects, and both from the last   *)
(* save that had been reported when it opened the file: never from two     *)
(* saves, however they interleave with it.                                 *)
LoadIsConsistent ==
  \A t \in Task :
    pc[t] = "loaded" /\ ret[t] = 0 => ver[t] # None /\ obj[t] = <<ver[t], ver[t]>>

(* Every block of memory belongs to an open stream: no way out of          *)
(* fs_fopen or fs_fclose leaks one, so a long run cannot exhaust the heap. *)
NoStreamLeaked == heap = 2 * Cardinality({t \in Task : stream[t] # None})

\* What a task is doing, for AtomicFile.
Operation(t) ==
  CASE pc[t] \in {"write1", "write2", "close"} ->
         [kind |-> "save", version |-> ver[t], erased |-> stale \/ stream[t].removed]
    [] pc[t] \in {"read1", "read2", "lclose"} ->
         [kind |-> "load", version |-> ver[t], erased |-> FALSE]
    [] OTHER -> [kind |-> "idle", version |-> None, erased |-> FALSE]

\* What a load that succeeded has given its caller.
Answer(t) == IF pc[t] = "loaded" /\ ret[t] = 0 THEN obj[t] ELSE None

\* An empty file is no file.
StoredObjects == IF disk = <<>> THEN None ELSE disk
Operations == [t \in Task |-> Operation(t)]
Answers == [t \in Task |-> Answer(t)]

File == INSTANCE AtomicFile WITH
  Client <- Task, content <- StoredObjects, op <- Operations, answer <- Answers

(* To its callers the file is atomic (AtomicFile), although each call is   *)
(* five calls into littlefs which other tasks, failures and resets cut     *)
(* into: a save takes effect whole, at the moment it reports success, or   *)
(* not at all, a clear in the middle of it wins, and a load answers with   *)
(* the content at the moment it opened the file.                           *)
FileSpec == File!Spec

(* What the comment in fs_mount expects: the file system is formatted only *)
(* on the first boot (rte_fs.c:206-207), so a mount never costs a version  *)
(* that a save has reported as stored.                                     *)
FormatsOnlyBlankFlash ==
  [][Mount /\ saved # None => UNCHANGED <<disk, saved>>]_vars

=============================================================================
