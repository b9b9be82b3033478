--------------------------- MODULE PnalFileProofs ---------------------------
(***************************************************************************)
(* Proofs about PnalFile, for any finite set of tasks, any versions, any   *)
(* amount of memory and whichever calls may fail.                          *)
(***************************************************************************)
EXTENDS PnalFile, FiniteSetTheorems, SequenceTheorems, TLAPS

Label == {"idle", "write1", "write2", "close", "read1", "read2", "lclose", "loaded"}

Opened == {t \in Task : stream[t] # None}

\* A save has written what it says: a prefix of its version when nothing
\* has failed, and otherwise its stream is marked.
SaveInv(t) ==
  /\ pc[t] \in {"write1", "write2", "close"} =>
       stream[t] # None /\ stream[t].mode = "w" /\ ver[t] \in Version
  /\ pc[t] = "write1" =>
       ret[t] = 0 /\ ~stream[t].erred /\ stream[t].data = <<>>
  /\ pc[t] = "write2" /\ ret[t] = 0 =>
       ~stream[t].erred /\ stream[t].data = <<ver[t]>>
  /\ pc[t] = "write2" /\ ret[t] # 0 =>
       stream[t].erred /\ stream[t].data = <<>>
  /\ pc[t] = "close" /\ ret[t] = 0 =>
       ~stream[t].erred /\ stream[t].data = <<ver[t], ver[t]>>
  /\ pc[t] = "close" /\ ret[t] # 0 => stream[t].erred

\* A load's stream holds the version that was reported when it opened the file.
LoadInv(t) ==
  /\ pc[t] \in {"idle", "loaded"} => stream[t] = None
  /\ pc[t] \in {"read1", "read2", "lclose"} =>
       /\ stream[t] # None /\ stream[t].mode = "r"
       /\ stream[t].data = IF ver[t] = None THEN <<>> ELSE <<ver[t], ver[t]>>
  /\ pc[t] = "read1" => ret[t] = 0
  /\ pc[t] = "read2" /\ ret[t] = 0 => ver[t] # None /\ obj[t][1] = ver[t]
  /\ pc[t] \in {"lclose", "loaded"} /\ ret[t] = 0 =>
       ver[t] # None /\ obj[t] = <<ver[t], ver[t]>>

TasksInv == \A t \in Task : SaveInv(t) /\ LoadInv(t)

IInv == TypeOK /\ NoStreamLeaked /\ SavedIsStored /\ TasksInv

-----------------------------------------------------------------------------
(* Streams and their memory.                                               *)

\* A new stream and the writes to it are what TypeOK says.
LEMMA StreamTypes ==
  ASSUME NEW mode \in {"r", "w"}, NEW data \in Data
  PROVE  NewStream(mode, data) \in Stream /\ NewStream(mode, data) # None
<1>1. NewStream(mode, data) \in Stream
  BY DEF NewStream, Stream
<1> QED
  BY <1>1, PnalFileAssumption

LEMMA DataTypes ==
  /\ <<>> \in Data /\ None \notin Data
  /\ \A v \in Version : <<v>> \in Data /\ <<v, v>> \in Data /\ <<v, v>> # <<>>
BY PnalFileAssumption DEF Data

\* One more open stream is one more to count.
LEMMA OneMore ==
  ASSUME NEW t \in Task, stream[t] = None, stream'[t] # None,
         \A u \in Task \ {t} : stream'[u] = None <=> stream[u] = None
  PROVE  Cardinality(Opened') = Cardinality(Opened) + 1
<1>1. IsFiniteSet(Opened) /\ t \notin Opened
  BY PnalFileAssumption, FS_Subset DEF Opened
<1>2. Opened' = Opened \cup {t}
  BY DEF Opened
<1> QED
  BY <1>1, <1>2, FS_AddElement

LEMMA OneLess ==
  ASSUME NEW t \in Task, stream[t] # None, stream'[t] = None,
         \A u \in Task \ {t} : stream'[u] = None <=> stream[u] = None
  PROVE  Cardinality(Opened') = Cardinality(Opened) - 1
<1>1. IsFiniteSet(Opened) /\ t \in Opened
  BY PnalFileAssumption, FS_Subset DEF Opened
<1>2. Opened' = Opened \ {t}
  BY DEF Opened
<1> QED
  BY <1>1, <1>2, FS_RemoveElement

LEMMA OpenedCount ==
  /\ Cardinality(Opened) \in Nat
  /\ Opened # {} => Cardinality(Opened) > 0
<1>1. IsFiniteSet(Opened)
  BY PnalFileAssumption, FS_Subset DEF Opened
<1> QED
  BY <1>1, FS_CardinalityType, FS_EmptySet

LEMMA SameStreams ==
  ASSUME NoStreamLeaked, UNCHANGED heap,
         \A t \in Task : stream'[t] = None <=> stream[t] = None
  PROVE  NoStreamLeaked'
<1>1. Opened' = Opened
  BY DEF Opened
<1> QED
  BY <1>1 DEF NoStreamLeaked, Opened

\* fs_fopen takes the memory of one stream.
LEMMA OpenTakes ==
  ASSUME IInv, NEW t \in Task, NEW s \in Stream,
         stream[t] = None, stream' = [stream EXCEPT ![t] = s],
         heap + 2 <= MaxHeap, heap' = heap + 2
  PROVE  NoStreamLeaked' /\ heap' \in 0 .. MaxHeap
<1>1. s # None
  BY PnalFileAssumption
<1>2. Cardinality(Opened') = Cardinality(Opened) + 1
  BY <1>1, OneMore DEF IInv, TypeOK
<1>3. heap = 2 * Cardinality(Opened) /\ heap \in Nat
  BY DEF IInv, TypeOK, NoStreamLeaked, Opened
<1>4. heap' = 2 * Cardinality(Opened')
  BY <1>2, <1>3, OpenedCount
<1> QED
  BY <1>3, <1>4, PnalFileAssumption DEF NoStreamLeaked, Opened

\* fs_fclose gives it back, whether or not the close fails.
LEMMA CloseGives ==
  ASSUME IInv, NEW t \in Task,
         stream[t] # None, stream' = [stream EXCEPT ![t] = None], heap' = heap - 2
  PROVE  NoStreamLeaked' /\ heap' \in 0 .. MaxHeap
<1>1. Cardinality(Opened') = Cardinality(Opened) - 1
  BY OneLess DEF IInv, TypeOK
<1>2. Cardinality(Opened) \in Nat /\ Cardinality(Opened) > 0
  BY OpenedCount DEF Opened
<1>3. heap = 2 * Cardinality(Opened) /\ heap \in 0 .. MaxHeap
  BY DEF IInv, TypeOK, NoStreamLeaked, Opened
<1>4. heap' = 2 * Cardinality(Opened')
  BY <1>1, <1>2, <1>3
<1> QED
  BY <1>1, <1>2, <1>3, <1>4, PnalFileAssumption DEF NoStreamLeaked, Opened

-----------------------------------------------------------------------------
(* Boot, reset and format.                                                 *)

LEMMA InitInv == Init => IInv
<1> SUFFICES ASSUME Init PROVE IInv
  OBVIOUS
<1>1. TypeOK
  <2>1. flash \in {"blank", "formatted"} /\ disk \in Data \cup {None}
    BY DEF Init
  <2>2. up \in BOOLEAN /\ stale \in BOOLEAN
    BY Zenon DEF Init
  <2>3. heap \in 0 .. MaxHeap
    BY PnalFileAssumption DEF Init
  <2> QED
    BY <2>1, <2>2, <2>3 DEF Init, TypeOK
<1>2. NoStreamLeaked
  <2>1. {t \in Task : stream[t] # None} = {}
    BY DEF Init
  <2> QED
    BY <2>1, FS_EmptySet DEF Init, NoStreamLeaked
<1>3. SavedIsStored
  BY DEF Init, SavedIsStored
<1>4. TasksInv
  BY DEF Init, TasksInv, SaveInv, LoadInv
<1> QED
  BY <1>1, <1>2, <1>3, <1>4 DEF IInv

LEMMA MountStep ==
  ASSUME IInv, Mount
  PROVE  IInv'
<1> USE DEF Mount, taskVars
<1>1. TypeOK'
  <2>1. up' \in BOOLEAN /\ stale' \in BOOLEAN
    BY Zenon DEF IInv, TypeOK
  <2> QED
    BY <2>1 DEF IInv, TypeOK
<1>2. NoStreamLeaked' /\ TasksInv'
  BY DEF IInv, NoStreamLeaked, TasksInv, SaveInv, LoadInv
<1>3. SavedIsStored'
  BY DEF IInv, SavedIsStored
<1> QED
  BY <1>1, <1>2, <1>3 DEF IInv

LEMMA ResetStep ==
  ASSUME IInv, Reset
  PROVE  IInv'
<1> USE DEF Reset
<1>1. TypeOK'
  <2>1. up' \in BOOLEAN /\ stale' \in BOOLEAN
    BY Zenon DEF IInv, TypeOK
  <2>2. heap' \in 0 .. MaxHeap
    BY PnalFileAssumption
  <2> QED
    BY <2>1, <2>2 DEF IInv, TypeOK
<1>2. NoStreamLeaked'
  <2>1. {t \in Task : stream'[t] # None} = {}
    OBVIOUS
  <2>2. Cardinality({t \in Task : stream'[t] # None}) = 0
    BY ONLY <2>1, FS_EmptySet
  <2> QED
    BY <2>2 DEF NoStreamLeaked
<1>3. SavedIsStored' /\ TasksInv'
  BY DEF IInv, SavedIsStored, TasksInv, SaveInv, LoadInv
<1> QED
  BY <1>1, <1>2, <1>3 DEF IInv

LEMMA FormatStep ==
  ASSUME IInv, Format
  PROVE  IInv'
<1> USE DEF Format, taskVars
<1>1. TypeOK'
  <2>1. up' \in BOOLEAN /\ stale' \in BOOLEAN
    BY Zenon DEF IInv, TypeOK
  <2> QED
    BY <2>1 DEF IInv, TypeOK
<1>2. NoStreamLeaked' /\ SavedIsStored' /\ TasksInv'
  BY DEF IInv, NoStreamLeaked, SavedIsStored, TasksInv, SaveInv, LoadInv
<1> QED
  BY <1>1, <1>2 DEF IInv

-----------------------------------------------------------------------------
(* The steps of a task.  The variables of other tasks stay as they are.    *)

LEMMA OtherTasks ==
  ASSUME TasksInv, NEW t \in Task,
         \A u \in Task \ {t} : /\ pc'[u] = pc[u] /\ ver'[u] = ver[u]
                               /\ stream'[u] = stream[u]
                               /\ ret'[u] = ret[u] /\ obj'[u] = obj[u],
         SaveInv(t)', LoadInv(t)'
  PROVE  TasksInv'
BY DEF TasksInv, SaveInv, LoadInv

LEMMA SaveOpenStep ==
  ASSUME IInv, NEW t \in Task, NEW v \in Version, SaveOpen(t, v)
  PROVE  IInv'
<1>1. pc[t] = "idle" /\ stream[t] = None /\ ver' = [ver EXCEPT ![t] = v]
      /\ UNCHANGED <<flash, up, stale, obj, saved>>
  BY DEF SaveOpen, Running, IInv, TasksInv, LoadInv
<1>2. NewStream("w", <<>>) \in Stream /\ NewStream("w", <<>>) # None
  BY StreamTypes, DataTypes
<1>3. CASE OpenOk(t, "w") /\ Goto(t, "write1") /\ Return(t, 0)
  <2>1. /\ stream' = [stream EXCEPT ![t] = NewStream("w", <<>>)]
        /\ heap + 2 <= MaxHeap /\ heap' = heap + 2
        /\ disk' = IF disk = None THEN <<>> ELSE disk
        /\ pc' = [pc EXCEPT ![t] = "write1"] /\ ret' = [ret EXCEPT ![t] = 0]
    BY <1>3 DEF OpenOk, Goto, Return
  <2>2. NoStreamLeaked' /\ heap' \in 0 .. MaxHeap
    BY <1>1, <1>2, <2>1, OpenTakes
  <2>3. TypeOK'
    <3>1. disk' \in Data \cup {None}
      BY <2>1, DataTypes DEF IInv, TypeOK
    <3> QED
      BY <1>1, <1>2, <2>1, <2>2, <3>1 DEF IInv, TypeOK
  <2>4. SavedIsStored'
    BY <1>1, <2>1, DataTypes DEF IInv, TypeOK, SavedIsStored
  <2>5. SaveInv(t)' /\ LoadInv(t)'
    BY <1>1, <1>2, <2>1 DEF IInv, TypeOK, SaveInv, LoadInv, NewStream
  <2>6. TasksInv'
    BY <1>1, <2>1, <2>5, OtherTasks DEF IInv, TypeOK
  <2> QED
    BY <2>2, <2>3, <2>4, <2>6 DEF IInv
<1>4. CASE OpenFails(t, "w") /\ Goto(t, "idle") /\ Return(t, -1)
  <2>1. UNCHANGED <<stream, disk, heap>>
        /\ pc' = [pc EXCEPT ![t] = "idle"] /\ ret' = [ret EXCEPT ![t] = -1]
    BY <1>4 DEF OpenFails, Goto, Return
  <2>2. TypeOK'
    BY <1>1, <2>1 DEF IInv, TypeOK
  <2>3. NoStreamLeaked' /\ SavedIsStored'
    BY <1>1, <2>1 DEF IInv, NoStreamLeaked, SavedIsStored
  <2>4. SaveInv(t)' /\ LoadInv(t)'
    BY <1>1, <2>1 DEF IInv, TypeOK, SaveInv, LoadInv
  <2>5. TasksInv'
    BY <1>1, <2>1, <2>4, OtherTasks DEF IInv, TypeOK
  <2> QED
    BY <2>2, <2>3, <2>5 DEF IInv
<1> QED
  BY <1>3, <1>4 DEF SaveOpen

\* The two writes of one version, one after the other.
LEMMA Appends ==
  ASSUME NEW v \in Version
  PROVE  Append(<<>>, v) = <<v>> /\ Append(<<v>>, v) = <<v, v>>
<1>1. Append(<<>>, v) = <<v>>
  OBVIOUS
<1>2. /\ <<v>> \in Seq(Version) /\ <<v, v>> \in Seq(Version)
      /\ Len(<<v>>) = 1 /\ Len(<<v, v>>) = 2
      /\ <<v>>[1] = v /\ <<v, v>>[1] = v /\ <<v, v>>[2] = v
  OBVIOUS
<1>3. /\ Append(<<v>>, v) \in Seq(Version) /\ Len(Append(<<v>>, v)) = 2
      /\ Append(<<v>>, v)[1] = v /\ Append(<<v>>, v)[2] = v
  BY <1>2, AppendProperties
<1>4. \A i \in 1 .. 2 : i = 1 \/ i = 2
  OBVIOUS
<1>5. \A i \in 1 .. 2 : Append(<<v>>, v)[i] = <<v, v>>[i]
  BY <1>2, <1>3, <1>4
<1>6. Append(<<v>>, v) = <<v, v>>
  BY <1>2, <1>3, <1>5, SeqEqual, Zenon
<1> QED
  BY <1>1, <1>6

\* A write appends the task's version to its stream, or marks the stream.
LEMMA Writes ==
  ASSUME IInv, NEW t \in Task, stream[t] # None,
         stream[t].data \in {<<>>, <<ver[t]>>}, ver[t] \in Version
  PROVE  /\ WriteOk(t) =>
              /\ stream'[t] \in Stream /\ stream'[t] # None
              /\ stream'[t].mode = stream[t].mode
              /\ stream'[t].removed = stream[t].removed /\ ~stream'[t].erred
              /\ stream[t].data = <<>> => stream'[t].data = <<ver[t]>>
              /\ stream[t].data = <<ver[t]>> => stream'[t].data = <<ver[t], ver[t]>>
         /\ WriteFails(t) =>
              /\ stream'[t] \in Stream /\ stream'[t] # None
              /\ stream'[t].mode = stream[t].mode
              /\ stream'[t].removed = stream[t].removed /\ stream'[t].erred
              /\ stream'[t].data = stream[t].data
         /\ WriteOk(t) \/ WriteFails(t) =>
              stream' = [stream EXCEPT ![t] = stream'[t]]
<1> DEFINE appended == [stream[t] EXCEPT !.data = Append(@, ver[t]), !.erred = FALSE]
           marked == [stream[t] EXCEPT !.erred = TRUE]
<1>1. stream[t] \in Stream /\ stream \in [Task -> Stream \cup {None}]
  BY DEF IInv, TypeOK
<1>2. /\ Append(<<>>, ver[t]) = <<ver[t]>>
      /\ Append(<<ver[t]>>, ver[t]) = <<ver[t], ver[t]>>
  BY Appends
<1>3. Append(stream[t].data, ver[t]) \in Data
  BY <1>2, DataTypes
<1>4. appended \in Stream /\ marked \in Stream
  BY <1>1, <1>3 DEF Stream
<1>5. appended # None /\ marked # None
  BY <1>4, PnalFileAssumption
<1>6. /\ appended.mode = stream[t].mode /\ appended.removed = stream[t].removed
      /\ appended.erred = FALSE /\ appended.data = Append(stream[t].data, ver[t])
      /\ marked.mode = stream[t].mode /\ marked.removed = stream[t].removed
      /\ marked.erred = TRUE /\ marked.data = stream[t].data
  BY <1>1 DEF Stream
<1>7. WriteOk(t) => stream' = [stream EXCEPT ![t] = appended]
  BY <1>1 DEF WriteOk, Stream
<1>8. WriteFails(t) => stream' = [stream EXCEPT ![t] = marked]
  BY <1>1 DEF WriteFails, Stream
<1> HIDE DEF appended, marked
<1>9. /\ WriteOk(t) => stream'[t] = appended
      /\ WriteFails(t) => stream'[t] = marked
      /\ WriteOk(t) \/ WriteFails(t) => stream' = [stream EXCEPT ![t] = stream'[t]]
  BY <1>1, <1>7, <1>8
<1> QED
  BY <1>2, <1>4, <1>5, <1>6, <1>9

LEMMA SaveFirstStep ==
  ASSUME IInv, NEW t \in Task, SaveFirst(t)
  PROVE  IInv'
<1>1. /\ pc[t] = "write1" /\ pc' = [pc EXCEPT ![t] = "write2"]
      /\ stream[t] # None /\ stream[t].mode = "w" /\ ver[t] \in Version
      /\ ret[t] = 0 /\ ~stream[t].erred /\ stream[t].data = <<>>
      /\ UNCHANGED <<flash, disk, up, stale, ver, heap, obj, saved>>
  BY DEF SaveFirst, Running, Goto, IInv, TasksInv, SaveInv
<1>2. /\ stream' = [stream EXCEPT ![t] = stream'[t]]
      /\ stream'[t] \in Stream /\ stream'[t] # None /\ stream'[t].mode = "w"
      /\ \/ UNCHANGED ret /\ ~stream'[t].erred /\ stream'[t].data = <<ver[t]>>
         \/ ret' = [ret EXCEPT ![t] = -1] /\ stream'[t].erred /\ stream'[t].data = <<>>
  BY <1>1, Writes DEF SaveFirst, Return
<1>3. TypeOK'
  BY <1>1, <1>2 DEF IInv, TypeOK
<1>4. NoStreamLeaked'
  BY <1>1, <1>2, SameStreams DEF IInv, TypeOK
<1>5. SavedIsStored'
  BY <1>1 DEF IInv, SavedIsStored
<1>6. SaveInv(t)' /\ LoadInv(t)'
  BY <1>1, <1>2 DEF IInv, TypeOK, SaveInv, LoadInv
<1>7. TasksInv'
  BY <1>1, <1>2, <1>6, OtherTasks DEF IInv, TypeOK
<1> QED
  BY <1>3, <1>4, <1>5, <1>7 DEF IInv

LEMMA SaveSecondStep ==
  ASSUME IInv, NEW t \in Task, SaveSecond(t)
  PROVE  IInv'
<1>1. /\ pc[t] = "write2" /\ pc' = [pc EXCEPT ![t] = "close"]
      /\ stream[t] # None /\ stream[t].mode = "w" /\ ver[t] \in Version
      /\ stream[t].data \in {<<>>, <<ver[t]>>}
      /\ UNCHANGED <<flash, disk, up, stale, ver, heap, obj, saved>>
  BY DEF SaveSecond, Running, Goto, IInv, TasksInv, SaveInv
<1>2. /\ stream' = [stream EXCEPT ![t] = stream'[t]]
      /\ stream'[t] \in Stream /\ stream'[t] # None /\ stream'[t].mode = "w"
      /\ \/ /\ UNCHANGED ret /\ ret[t] = 0
            /\ ~stream'[t].erred /\ stream'[t].data = <<ver[t], ver[t]>>
         \/ ret' = [ret EXCEPT ![t] = -1] /\ stream'[t].erred
         \/ UNCHANGED ret /\ ret[t] # 0 /\ stream'[t].erred
  <2>1. CASE ret[t] = 0
    <3>1. stream[t].data = <<ver[t]>>
      BY <1>1, <2>1 DEF IInv, TasksInv, SaveInv
    <3> QED
      BY <1>1, <2>1, <3>1, Writes DEF SaveSecond, Return
  <2>2. CASE ret[t] # 0
    <3>1. UNCHANGED <<stream, ret>> /\ stream[t].erred
      BY <1>1, <2>2 DEF SaveSecond, IInv, TasksInv, SaveInv
    <3> QED
      BY <1>1, <2>2, <3>1 DEF IInv, TypeOK
  <2> QED
    BY <2>1, <2>2
<1>3. TypeOK'
  BY <1>1, <1>2 DEF IInv, TypeOK
<1>4. NoStreamLeaked'
  BY <1>1, <1>2, SameStreams DEF IInv, TypeOK
<1>5. SavedIsStored'
  BY <1>1 DEF IInv, SavedIsStored
<1>6. SaveInv(t)' /\ LoadInv(t)'
  BY <1>1, <1>2 DEF IInv, TypeOK, SaveInv, LoadInv
<1>7. TasksInv'
  BY <1>1, <1>2, <1>6, OtherTasks DEF IInv, TypeOK
<1> QED
  BY <1>3, <1>4, <1>5, <1>7 DEF IInv

\* Only a save in which nothing failed stores its stream, and it reports 0.
LEMMA SaveCloseStep ==
  ASSUME IInv, NEW t \in Task, SaveClose(t)
  PROVE  IInv'
<1>1. /\ pc[t] = "close" /\ pc' = [pc EXCEPT ![t] = "idle"]
      /\ stream[t] \in Stream /\ stream[t] # None /\ stream[t].mode = "w"
      /\ ver[t] \in Version /\ ret[t] \in {0, -1}
      /\ UNCHANGED <<flash, up, stale, ver, obj>>
  BY DEF SaveClose, Running, Goto, IInv, TypeOK, TasksInv, SaveInv
<1>2. /\ stream' = [stream EXCEPT ![t] = None] /\ heap' = heap - 2
      /\ \/ UNCHANGED ret
         \/ ret' = [ret EXCEPT ![t] = -1]
  BY DEF SaveClose, CloseOk, CloseFails, Return
<1>3. NoStreamLeaked' /\ heap' \in 0 .. MaxHeap
  BY <1>1, <1>2, CloseGives
<1>4. \/ /\ disk' = <<ver[t], ver[t]>> /\ saved' = ver[t]
      \/ UNCHANGED <<disk, saved>>
  <2>1. CASE CloseOk(t) /\ UNCHANGED ret
    <3>1. CASE ret[t] = 0 /\ ~stream[t].removed
      <4>1. ~stream[t].erred /\ stream[t].data = <<ver[t], ver[t]>>
        BY <1>1, <3>1 DEF IInv, TasksInv, SaveInv
      <4> QED
        BY <1>1, <2>1, <3>1, <4>1 DEF SaveClose, CloseOk, Stores
    <3>2. CASE ret[t] # 0 \/ stream[t].removed
      <4>1. ~Stores(t)
        BY <1>1, <3>2 DEF Stores, IInv, TasksInv, SaveInv
      <4> QED
        BY <1>1, <2>1, <3>2, <4>1 DEF SaveClose, CloseOk
    <3> QED
      BY <3>1, <3>2
  <2>2. CASE CloseFails(t) /\ Return(t, -1)
    <3>1. ret'[t] = -1 /\ UNCHANGED disk
      BY <2>2 DEF CloseFails, Return, IInv, TypeOK
    <3> QED
      BY <3>1 DEF SaveClose
  <2> QED
    BY <2>1, <2>2 DEF SaveClose
<1>5. TypeOK'
  <2>1. disk' \in Data \cup {None} /\ saved' \in Version \cup {None}
    BY <1>1, <1>4, DataTypes DEF IInv, TypeOK
  <2> QED
    BY <1>1, <1>2, <1>3, <2>1 DEF IInv, TypeOK
<1>6. SavedIsStored'
  BY <1>1, <1>4, PnalFileAssumption DEF IInv, SavedIsStored
<1>7. SaveInv(t)' /\ LoadInv(t)'
  BY <1>1, <1>2 DEF IInv, TypeOK, SaveInv, LoadInv
<1>8. TasksInv'
  BY <1>1, <1>2, <1>7, OtherTasks DEF IInv, TypeOK
<1> QED
  BY <1>3, <1>5, <1>6, <1>8 DEF IInv

-----------------------------------------------------------------------------
(* Loads.                                                                  *)

LEMMA LoadOpenStep ==
  ASSUME IInv, NEW t \in Task, LoadOpen(t)
  PROVE  IInv'
<1>1. /\ pc[t] = "idle" /\ stream[t] = None
      /\ ver' = [ver EXCEPT ![t] = saved] /\ saved \in Version \cup {None}
      /\ obj' = [obj EXCEPT ![t] = <<Unread, Unread>>]
      /\ UNCHANGED <<flash, up, stale, saved>>
  BY DEF LoadOpen, Running, IInv, TypeOK, TasksInv, LoadInv
<1>2. obj' \in [Task -> (Version \cup {Unread}) \X (Version \cup {Unread})]
  BY <1>1 DEF IInv, TypeOK
<1>3. CASE OpenOk(t, "r") /\ Goto(t, "read1") /\ Return(t, 0)
  <2>1. /\ stream' = [stream EXCEPT ![t] = NewStream("r", disk)] /\ disk # None
        /\ heap + 2 <= MaxHeap /\ heap' = heap + 2 /\ UNCHANGED disk
        /\ pc' = [pc EXCEPT ![t] = "read1"] /\ ret' = [ret EXCEPT ![t] = 0]
    BY <1>3 DEF OpenOk, Goto, Return
  <2>2. NewStream("r", disk) \in Stream /\ NewStream("r", disk) # None
    BY <2>1, StreamTypes DEF IInv, TypeOK
  <2>3. NoStreamLeaked' /\ heap' \in 0 .. MaxHeap
    BY <1>1, <2>1, <2>2, OpenTakes
  <2>4. TypeOK'
    BY <1>1, <1>2, <2>1, <2>2, <2>3 DEF IInv, TypeOK
  <2>5. SavedIsStored'
    BY <1>1, <2>1 DEF IInv, SavedIsStored
  <2>6. disk = IF saved = None THEN <<>> ELSE <<saved, saved>>
    BY <2>1 DEF IInv, SavedIsStored
  <2>7. SaveInv(t)' /\ LoadInv(t)'
    BY <1>1, <2>1, <2>2, <2>6 DEF IInv, TypeOK, SaveInv, LoadInv, NewStream
  <2>8. TasksInv'
    BY <1>1, <2>1, <2>7, OtherTasks DEF IInv, TypeOK
  <2> QED
    BY <2>3, <2>4, <2>5, <2>8 DEF IInv
<1>4. CASE OpenFails(t, "r") /\ Goto(t, "idle") /\ Return(t, -1)
  <2>1. UNCHANGED <<stream, disk, heap>>
        /\ pc' = [pc EXCEPT ![t] = "idle"] /\ ret' = [ret EXCEPT ![t] = -1]
    BY <1>4 DEF OpenFails, Goto, Return
  <2>2. TypeOK'
    BY <1>1, <1>2, <2>1 DEF IInv, TypeOK
  <2>3. NoStreamLeaked' /\ SavedIsStored'
    BY <1>1, <2>1 DEF IInv, NoStreamLeaked, SavedIsStored
  <2>4. SaveInv(t)' /\ LoadInv(t)'
    BY <1>1, <2>1 DEF IInv, TypeOK, SaveInv, LoadInv
  <2>5. TasksInv'
    BY <1>1, <2>1, <2>4, OtherTasks DEF IInv, TypeOK
  <2> QED
    BY <2>2, <2>3, <2>5 DEF IInv
<1> QED
  BY <1>3, <1>4 DEF LoadOpen

\* An object that is read is the version of the load; an empty file has none.
LEMMA Reads ==
  ASSUME IInv, NEW t \in Task, pc[t] \in {"read1", "read2"}, NEW i \in {1, 2},
         ReadObject(t, i)
  PROVE  \/ /\ ver[t] \in Version /\ UNCHANGED ret
            /\ obj' = [obj EXCEPT ![t][i] = ver[t]]
         \/ ret' = [ret EXCEPT ![t] = -1] /\ UNCHANGED obj
<1>1. stream[t].data = IF ver[t] = None THEN <<>> ELSE <<ver[t], ver[t]>>
  BY DEF IInv, TasksInv, LoadInv
<1>2. ver[t] \in Version \cup {None}
  BY DEF IInv, TypeOK
<1>3. CASE ver[t] = None
  <2>1. ~(i <= Len(stream[t].data))
    BY <1>1, <1>3
  <2> QED
    BY <2>1 DEF ReadObject, Return
<1>4. CASE ver[t] # None
  <2>1. i <= Len(stream[t].data) /\ stream[t].data[i] = ver[t]
    BY <1>1, <1>4
  <2> QED
    BY <1>2, <1>4, <2>1 DEF ReadObject
<1> QED
  BY <1>3, <1>4

LEMMA LoadFirstStep ==
  ASSUME IInv, NEW t \in Task, LoadFirst(t)
  PROVE  IInv'
<1>1. /\ pc[t] = "read1" /\ pc' = [pc EXCEPT ![t] = "read2"] /\ ret[t] = 0
      /\ UNCHANGED <<flash, disk, up, stale, ver, stream, heap, saved>>
  BY DEF LoadFirst, Running, Goto, IInv, TasksInv, LoadInv
<1>2. \/ /\ ver[t] \in Version /\ UNCHANGED ret
         /\ obj' = [obj EXCEPT ![t][1] = ver[t]]
      \/ ret' = [ret EXCEPT ![t] = -1] /\ UNCHANGED obj
  BY <1>1, Reads DEF LoadFirst
<1>3. /\ obj' \in [Task -> (Version \cup {Unread}) \X (Version \cup {Unread})]
      /\ ret' \in [Task -> {0, -1}]
      /\ \A u \in Task \ {t} : obj'[u] = obj[u] /\ ret'[u] = ret[u]
      /\ ret'[t] = 0 => ver[t] \in Version /\ obj'[t][1] = ver[t]
  BY <1>1, <1>2 DEF IInv, TypeOK
<1>4. TypeOK'
  BY <1>1, <1>3 DEF IInv, TypeOK
<1>5. NoStreamLeaked' /\ SavedIsStored'
  BY <1>1 DEF IInv, NoStreamLeaked, SavedIsStored
<1>6. SaveInv(t)' /\ LoadInv(t)'
  BY <1>1, <1>3, PnalFileAssumption DEF IInv, TypeOK, TasksInv, SaveInv, LoadInv
<1>7. TasksInv'
  BY <1>1, <1>3, <1>6, OtherTasks DEF IInv, TypeOK
<1> QED
  BY <1>4, <1>5, <1>7 DEF IInv

LEMMA LoadSecondStep ==
  ASSUME IInv, NEW t \in Task, LoadSecond(t)
  PROVE  IInv'
<1>1. /\ pc[t] = "read2" /\ pc' = [pc EXCEPT ![t] = "lclose"]
      /\ UNCHANGED <<flash, disk, up, stale, ver, stream, heap, saved>>
  BY DEF LoadSecond, Running, Goto
<1>2. \/ /\ ver[t] \in Version /\ UNCHANGED ret /\ ret[t] = 0
         /\ obj' = [obj EXCEPT ![t][2] = ver[t]]
      \/ ret' = [ret EXCEPT ![t] = -1] /\ UNCHANGED obj
      \/ ret[t] # 0 /\ UNCHANGED <<obj, ret>>
  BY <1>1, Reads DEF LoadSecond
<1>3. /\ obj' \in [Task -> (Version \cup {Unread}) \X (Version \cup {Unread})]
      /\ ret' \in [Task -> {0, -1}]
      /\ \A u \in Task \ {t} : obj'[u] = obj[u] /\ ret'[u] = ret[u]
      /\ ret'[t] = 0 => ret[t] = 0 /\ obj'[t][1] = obj[t][1] /\ obj'[t][2] = ver[t]
  BY <1>1, <1>2 DEF IInv, TypeOK
<1>4. TypeOK'
  BY <1>1, <1>3 DEF IInv, TypeOK
<1>5. NoStreamLeaked' /\ SavedIsStored'
  BY <1>1 DEF IInv, NoStreamLeaked, SavedIsStored
<1>6. ret'[t] = 0 => ver[t] # None /\ obj'[t] = <<ver[t], ver[t]>>
  <2> SUFFICES ASSUME ret'[t] = 0
               PROVE  ver[t] # None /\ obj'[t] = <<ver[t], ver[t]>>
    OBVIOUS
  <2>1. ver[t] # None /\ obj[t][1] = ver[t]
    BY <1>1, <1>3 DEF IInv, TasksInv, LoadInv
  <2> QED
    BY <1>3, <2>1
<1>7. SaveInv(t)' /\ LoadInv(t)'
  BY <1>1, <1>3, <1>6 DEF IInv, TypeOK, TasksInv, SaveInv, LoadInv
<1>8. TasksInv'
  BY <1>1, <1>3, <1>7, OtherTasks DEF IInv, TypeOK
<1> QED
  BY <1>4, <1>5, <1>8 DEF IInv

LEMMA LoadCloseStep ==
  ASSUME IInv, NEW t \in Task, LoadClose(t)
  PROVE  IInv'
<1>1. /\ pc[t] = "lclose" /\ pc' = [pc EXCEPT ![t] = "loaded"]
      /\ stream[t] # None /\ stream[t].mode = "r"
      /\ stream' = [stream EXCEPT ![t] = None] /\ heap' = heap - 2
      /\ UNCHANGED <<flash, up, stale, ver, obj, ret, saved>>
  BY DEF LoadClose, CloseOk, Running, Goto, IInv, TasksInv, LoadInv
<1>2. UNCHANGED disk
  BY <1>1 DEF LoadClose, CloseOk, Stores
<1>3. NoStreamLeaked' /\ heap' \in 0 .. MaxHeap
  BY <1>1, CloseGives
<1>4. TypeOK'
  BY <1>1, <1>2, <1>3 DEF IInv, TypeOK
<1>5. SavedIsStored'
  BY <1>1, <1>2 DEF IInv, SavedIsStored
<1>6. SaveInv(t)' /\ LoadInv(t)'
  BY <1>1 DEF IInv, TypeOK, TasksInv, SaveInv, LoadInv
<1>7. TasksInv'
  BY <1>1, <1>6, OtherTasks DEF IInv, TypeOK
<1> QED
  BY <1>3, <1>4, <1>5, <1>7 DEF IInv

LEMMA LoadDoneStep ==
  ASSUME IInv, NEW t \in Task, LoadDone(t)
  PROVE  IInv'
<1>1. /\ pc[t] = "loaded" /\ pc' = [pc EXCEPT ![t] = "idle"]
      /\ UNCHANGED <<flash, disk, up, stale, ver, stream, heap, obj, ret, saved>>
  BY DEF LoadDone, Running, Goto
<1>2. TypeOK'
  BY <1>1 DEF IInv, TypeOK
<1>3. NoStreamLeaked' /\ SavedIsStored'
  BY <1>1 DEF IInv, NoStreamLeaked, SavedIsStored
<1>4. SaveInv(t)' /\ LoadInv(t)'
  BY <1>1 DEF IInv, TypeOK, TasksInv, SaveInv, LoadInv
<1>5. TasksInv'
  BY <1>1, <1>4, OtherTasks DEF IInv, TypeOK
<1> QED
  BY <1>2, <1>3, <1>5 DEF IInv

-----------------------------------------------------------------------------
(* Clearing the file marks the streams of all tasks and closes none.       *)

LEMMA ClearStep ==
  ASSUME IInv, NEW t \in Task, Clear(t)
  PROVE  IInv'
<1>1. UNCHANGED <<flash, up, stale, pc, ver, heap, obj, ret>>
  BY DEF Clear
<1>2. CASE /\ disk' = None /\ saved' = None
           /\ stream' = [u \in Task |-> IF stream[u] = None THEN None
                                        ELSE [stream[u] EXCEPT !.removed = TRUE]]
  <2>1. ASSUME NEW u \in Task, stream[u] # None
        PROVE  /\ stream'[u] \in Stream /\ stream'[u] # None
               /\ stream'[u].mode = stream[u].mode /\ stream'[u].data = stream[u].data
               /\ stream'[u].erred = stream[u].erred
    <3> DEFINE marked == [stream[u] EXCEPT !.removed = TRUE]
    <3>1. stream[u] \in Stream
      BY <2>1 DEF IInv, TypeOK
    <3>2. /\ marked \in Stream /\ marked.mode = stream[u].mode
          /\ marked.data = stream[u].data /\ marked.erred = stream[u].erred
      BY <3>1 DEF Stream
    <3>3. stream'[u] = marked
      BY <1>2, <2>1
    <3> HIDE DEF marked
    <3> QED
      BY <3>2, <3>3, PnalFileAssumption
  <2>2. ASSUME NEW u \in Task, stream[u] = None
        PROVE  stream'[u] = None
    BY <1>2, <2>2
  <2>3. stream' \in [Task -> Stream \cup {None}]
    <3>1. \A u \in Task : stream'[u] \in Stream \cup {None}
      BY <2>1, <2>2
    <3>2. stream' = [u \in Task |-> stream'[u]]
      BY <1>2
    <3> QED
      BY <3>1, <3>2
  <2>4. TypeOK'
    BY <1>1, <1>2, <2>3 DEF IInv, TypeOK
  <2>5. NoStreamLeaked'
    BY <1>1, <2>1, <2>2, SameStreams DEF IInv
  <2>6. SavedIsStored'
    BY <1>2 DEF SavedIsStored
  <2>7. TasksInv'
    <3> SUFFICES ASSUME NEW u \in Task PROVE SaveInv(u)' /\ LoadInv(u)'
      BY DEF TasksInv
    <3>1. CASE stream[u] = None
      BY <1>1, <2>2, <3>1 DEF IInv, TasksInv, SaveInv, LoadInv
    <3>2. CASE stream[u] # None
      BY <1>1, <2>1, <3>2 DEF IInv, TasksInv, SaveInv, LoadInv
    <3> QED
      BY <3>1, <3>2
  <2> QED
    BY <2>4, <2>5, <2>6, <2>7 DEF IInv
<1>3. CASE UNCHANGED <<disk, saved, stream>>
  BY <1>1, <1>3
  DEF IInv, TypeOK, NoStreamLeaked, SavedIsStored, TasksInv, SaveInv, LoadInv
<1> QED
  BY <1>2, <1>3 DEF Clear

-----------------------------------------------------------------------------

LEMMA StepKeepsInv == IInv /\ [Next]_vars => IInv'
<1> SUFFICES ASSUME IInv, [Next]_vars PROVE IInv'
  OBVIOUS
<1>1. CASE Mount \/ Reset \/ Format
  BY <1>1, MountStep, ResetStep, FormatStep
<1>2. ASSUME NEW t \in Task, TaskStep(t)
      PROVE  IInv'
  BY <1>2, SaveOpenStep, SaveFirstStep, SaveSecondStep, SaveCloseStep, LoadOpenStep,
     LoadFirstStep, LoadSecondStep, LoadCloseStep, LoadDoneStep, ClearStep
  DEF TaskStep
<1>3. CASE UNCHANGED vars
  BY <1>3 DEF vars, taskVars, IInv, TypeOK, NoStreamLeaked, SavedIsStored, TasksInv,
              SaveInv, LoadInv
<1> QED
  BY <1>1, <1>2, <1>3 DEF Next

THEOREM IInvInvariant == Spec => []IInv
  BY InitInv, StepKeepsInv, PTL DEF Spec

(* Files, streams and the state of the tasks stay within their types; the  *)
(* memory taken by streams never exceeds the heap.                         *)
THEOREM TypeCorrect == Spec => []TypeOK
<1>1. IInv => TypeOK
  BY DEF IInv
<1> QED
  BY <1>1, IInvInvariant, PTL

(* What a save of any task reports is what the file holds, whatever fails  *)
(* and however many saves, loads, clears and resets overlap.               *)
THEOREM SavedSafety == Spec => []SavedIsStored
<1>1. IInv => SavedIsStored
  BY DEF IInv
<1> QED
  BY <1>1, IInvInvariant, PTL

(* A load that reports success gives both objects of the version that was  *)
(* saved when it opened the file.                                          *)
THEOREM LoadSafety == Spec => []LoadIsConsistent
<1>1. IInv => LoadIsConsistent
  BY DEF IInv, TasksInv, LoadInv, LoadIsConsistent
<1> QED
  BY <1>1, IInvInvariant, PTL

(* No way through the streams leaks memory, for any number of tasks.       *)
THEOREM MemorySafety == Spec => []NoStreamLeaked
<1>1. IInv => NoStreamLeaked
  BY DEF IInv
<1> QED
  BY <1>1, IInvInvariant, PTL

-----------------------------------------------------------------------------
(* The steps of a task, as steps of AtomicFile.                            *)

\* In a step of t only t's operation and answer change.
LEMMA OneTask ==
  ASSUME NEW t \in Task, UNCHANGED stale,
         \A u \in Task \ {t} : /\ pc'[u] = pc[u] /\ ver'[u] = ver[u]
                               /\ stream'[u] = stream[u]
                               /\ ret'[u] = ret[u] /\ obj'[u] = obj[u]
  PROVE  /\ Operations[t] = Operation(t) /\ Answers[t] = Answer(t)
         /\ Operations' = [Operations EXCEPT ![t] = Operation(t)']
         /\ Answers' = [Answers EXCEPT ![t] = Answer(t)']
         /\ Operation(t)' = Operation(t) => Operations' = Operations
         /\ Answer(t)' = Answer(t) => Answers' = Answers
<1>1. \A u \in Task \ {t} : Operation(u)' = Operation(u) /\ Answer(u)' = Answer(u)
  BY DEF Operation, Answer
<1> QED
  BY <1>1 DEF Operations, Answers

\* Nothing changes when neither t's operation nor its answer does.
LEMMA Stutters ==
  ASSUME NEW t \in Task, UNCHANGED stale,
         \A u \in Task \ {t} : /\ pc'[u] = pc[u] /\ ver'[u] = ver[u]
                               /\ stream'[u] = stream[u]
                               /\ ret'[u] = ret[u] /\ obj'[u] = obj[u],
         Operation(t)' = Operation(t), Answer(t)' = Answer(t),
         StoredObjects' = StoredObjects
  PROVE  UNCHANGED File!vars
<1>1. Operations' = Operations /\ Answers' = Answers
  BY OneTask DEF Operations, Answers
<1> QED
  BY <1>1 DEF File!vars

LEMMA SaveOpenRefines ==
  ASSUME IInv, NEW t \in Task, NEW v \in Version, SaveOpen(t, v)
  PROVE  [File!Next]_(File!vars)
<1>1. /\ pc[t] = "idle" /\ ~stale /\ ver' = [ver EXCEPT ![t] = v]
      /\ UNCHANGED <<flash, up, stale, obj, saved>>
  BY DEF SaveOpen, Running
<1>2. /\ Operation(t) = File!Idle /\ Answer(t) = None
  BY <1>1 DEF Operation, Answer, File!Idle
<1>3. CASE OpenOk(t, "w") /\ Goto(t, "write1") /\ Return(t, 0)
  <2>1. /\ stream' = [stream EXCEPT ![t] = NewStream("w", <<>>)]
        /\ disk' = IF disk = None THEN <<>> ELSE disk
        /\ pc' = [pc EXCEPT ![t] = "write1"] /\ ret' = [ret EXCEPT ![t] = 0]
    BY <1>3 DEF OpenOk, Goto, Return
  <2>2. Operation(t)' = File!Saving(v) /\ Answer(t)' = None
    BY <1>1, <2>1 DEF Operation, Answer, File!Saving, NewStream, IInv, TypeOK
  <2>3. StoredObjects' = StoredObjects
    BY <2>1 DEF StoredObjects
  <2>4. /\ Operations[t] = File!Idle
        /\ Operations' = [Operations EXCEPT ![t] = File!Saving(v)]
        /\ Answers' = Answers
    BY <1>1, <1>2, <2>1, <2>2, OneTask DEF IInv, TypeOK
  <2> QED
    BY <2>3, <2>4 DEF File!Next, File!BeginSave
<1>4. CASE OpenFails(t, "w") /\ Goto(t, "idle") /\ Return(t, -1)
  <2>1. UNCHANGED <<stream, disk>>
        /\ pc' = [pc EXCEPT ![t] = "idle"] /\ ret' = [ret EXCEPT ![t] = -1]
    BY <1>4 DEF OpenFails, Goto, Return
  <2>2. Operation(t)' = Operation(t) /\ Answer(t)' = Answer(t)
    BY <1>1, <2>1 DEF Operation, Answer, IInv, TypeOK
  <2>3. StoredObjects' = StoredObjects
    BY <2>1 DEF StoredObjects
  <2> QED
    BY <1>1, <2>1, <2>2, <2>3, Stutters DEF IInv, TypeOK
<1> QED
  BY <1>3, <1>4 DEF SaveOpen

\* The writes and the reads between open and close are not seen outside.
LEMMA MiddleRefines ==
  ASSUME IInv, NEW t \in Task,
         SaveFirst(t) \/ SaveSecond(t) \/ LoadFirst(t) \/ LoadSecond(t)
  PROVE  UNCHANGED File!vars
<1>1. UNCHANGED <<disk, stale, ver>>
  BY DEF SaveFirst, SaveSecond, LoadFirst, LoadSecond
<1>2. StoredObjects' = StoredObjects
  BY <1>1 DEF StoredObjects
<1>3. CASE SaveFirst(t) \/ SaveSecond(t)
  <2>1. /\ pc[t] \in {"write1", "write2"}
        /\ pc' = [pc EXCEPT ![t] = pc'[t]] /\ pc'[t] \in {"write2", "close"}
        /\ stream[t] # None /\ ver[t] \in Version /\ stream[t].data \in {<<>>, <<ver[t]>>}
        /\ UNCHANGED obj
    BY <1>3 DEF SaveFirst, SaveSecond, Running, Goto, IInv, TypeOK, TasksInv, SaveInv
  <2>2. /\ stream' = [stream EXCEPT ![t] = stream'[t]]
        /\ stream'[t].removed = stream[t].removed
        /\ ret' = [ret EXCEPT ![t] = ret'[t]]
    BY <1>3, <2>1, Writes DEF SaveFirst, SaveSecond, Return, IInv, TypeOK
  <2>3. Operation(t)' = Operation(t) /\ Answer(t)' = Answer(t)
    BY <1>1, <2>1, <2>2 DEF Operation, Answer
  <2> QED
    BY <1>1, <1>2, <2>1, <2>2, <2>3, Stutters DEF IInv, TypeOK
<1>4. CASE LoadFirst(t) \/ LoadSecond(t)
  <2>1. /\ pc[t] \in {"read1", "read2"}
        /\ pc' = [pc EXCEPT ![t] = pc'[t]] /\ pc'[t] \in {"read2", "lclose"}
        /\ UNCHANGED stream
    BY <1>4 DEF LoadFirst, LoadSecond, Running, Goto, IInv, TypeOK
  <2>2. /\ \A u \in Task \ {t} : obj'[u] = obj[u] /\ ret'[u] = ret[u]
    BY <1>4, <2>1, Reads DEF LoadFirst, LoadSecond, IInv, TypeOK
  <2>3. Operation(t)' = Operation(t) /\ Answer(t)' = Answer(t)
    BY <1>1, <2>1 DEF Operation, Answer
  <2> QED
    BY <1>1, <1>2, <2>1, <2>2, <2>3, Stutters DEF IInv, TypeOK
<1> QED
  BY <1>3, <1>4

\* The close is where a save takes effect.
LEMMA SaveCloseRefines ==
  ASSUME IInv, NEW t \in Task, SaveClose(t)
  PROVE  File!Next
<1>1. /\ pc[t] = "close" /\ ~stale /\ pc' = [pc EXCEPT ![t] = "idle"]
      /\ stream[t] \in Stream /\ stream[t] # None /\ stream[t].mode = "w"
      /\ ver[t] \in Version /\ ret[t] \in {0, -1}
      /\ UNCHANGED <<flash, up, stale, ver, obj>>
  BY DEF SaveClose, Running, Goto, IInv, TypeOK, TasksInv, SaveInv
<1>2. /\ stream' = [stream EXCEPT ![t] = None]
      /\ ret' = [ret EXCEPT ![t] = ret'[t]]
  BY DEF SaveClose, CloseOk, CloseFails, Return, IInv, TypeOK
<1>3. /\ Operation(t) = [kind |-> "save", version |-> ver[t], erased |-> stream[t].removed]
      /\ Operation(t)' = File!Idle /\ Answer(t) = None /\ Answer(t)' = None
  BY <1>1, <1>2 DEF Operation, Answer, File!Idle, Stream, IInv, TypeOK
<1>4. /\ Operations[t] = Operation(t)
      /\ Operations' = [Operations EXCEPT ![t] = File!Idle]
      /\ Answers' = Answers
  BY <1>1, <1>2, <1>3, OneTask DEF IInv, TypeOK
<1>5. CASE Stores(t) /\ CloseOk(t)
  <2>1. /\ ~stream[t].erred /\ ~stream[t].removed /\ disk' = stream[t].data
    BY <1>5 DEF Stores, CloseOk
  <2>2. disk' = File!Whole(ver[t])
    BY <1>1, <2>1 DEF File!Whole, IInv, TasksInv, SaveInv
  <2>3. StoredObjects' = File!Whole(ver[t])
    BY <1>1, <2>2, DataTypes DEF StoredObjects, File!Whole
  <2>4. /\ Operations[t].kind = "save" /\ Operations[t].version = ver[t]
        /\ ~Operations[t].erased
    BY <1>3, <1>4, <2>1
  <2>5. File!EndSave(t)
    BY <1>4, <2>3, <2>4 DEF File!EndSave, File!Done
  <2> QED
    BY <2>5 DEF File!Next
<1>6. CASE ~(Stores(t) /\ CloseOk(t))
  <2>1. UNCHANGED disk
    BY <1>6 DEF SaveClose, CloseOk, CloseFails
  <2>2. StoredObjects' = StoredObjects
    BY <2>1 DEF StoredObjects
  <2>3. File!FailSave(t)
    BY <1>3, <1>4, <2>2 DEF File!FailSave, File!Done
  <2> QED
    BY <2>3 DEF File!Next
<1> QED
  BY <1>5, <1>6

LEMMA LoadOpenRefines ==
  ASSUME IInv, NEW t \in Task, LoadOpen(t)
  PROVE  [File!Next]_(File!vars)
<1>1. /\ pc[t] = "idle" /\ ~stale /\ ver' = [ver EXCEPT ![t] = saved]
      /\ saved \in Version \cup {None}
      /\ obj' = [obj EXCEPT ![t] = <<Unread, Unread>>]
      /\ UNCHANGED <<flash, up, stale, saved, disk>>
  BY DEF LoadOpen, Running, OpenOk, OpenFails, IInv, TypeOK
<1>2. /\ Operation(t) = File!Idle /\ Answer(t) = None
      /\ StoredObjects' = StoredObjects
  BY <1>1 DEF Operation, Answer, File!Idle, StoredObjects
<1>3. CASE OpenOk(t, "r") /\ Goto(t, "read1") /\ Return(t, 0)
  <2>1. /\ stream' = [stream EXCEPT ![t] = NewStream("r", disk)] /\ disk # None
        /\ pc' = [pc EXCEPT ![t] = "read1"] /\ ret' = [ret EXCEPT ![t] = 0]
    BY <1>3 DEF OpenOk, Goto, Return
  <2>2. Operation(t)' = File!Loading(saved) /\ Answer(t)' = None
    BY <1>1, <2>1 DEF Operation, Answer, File!Loading, IInv, TypeOK
  <2>3. StoredObjects = IF saved = None THEN None ELSE File!Whole(saved)
    BY <1>1, <2>1, DataTypes DEF StoredObjects, File!Whole, IInv, SavedIsStored
  <2>4. /\ Operations[t] = File!Idle
        /\ Operations' = [Operations EXCEPT ![t] = File!Loading(saved)]
        /\ Answers' = Answers
    BY <1>1, <1>2, <2>1, <2>2, OneTask DEF IInv, TypeOK
  <2> QED
    BY <1>1, <1>2, <2>3, <2>4 DEF File!Next, File!BeginLoad
<1>4. CASE OpenFails(t, "r") /\ Goto(t, "idle") /\ Return(t, -1)
  <2>1. UNCHANGED stream
        /\ pc' = [pc EXCEPT ![t] = "idle"] /\ ret' = [ret EXCEPT ![t] = -1]
    BY <1>4 DEF OpenFails, Goto, Return
  <2>2. Operation(t)' = Operation(t) /\ Answer(t)' = Answer(t)
    BY <1>1, <2>1 DEF Operation, Answer, IInv, TypeOK
  <2> QED
    BY <1>1, <1>2, <2>1, <2>2, Stutters DEF IInv, TypeOK
<1> QED
  BY <1>3, <1>4 DEF LoadOpen

LEMMA LoadCloseRefines ==
  ASSUME IInv, NEW t \in Task, LoadClose(t)
  PROVE  File!Next
<1>1. /\ pc[t] = "lclose" /\ pc' = [pc EXCEPT ![t] = "loaded"]
      /\ stream[t].mode = "r" /\ stream' = [stream EXCEPT ![t] = None]
      /\ UNCHANGED <<flash, up, stale, ver, obj, ret, saved>>
  BY DEF LoadClose, CloseOk, Running, Goto, IInv, TasksInv, LoadInv
<1>2. StoredObjects' = StoredObjects
  BY <1>1 DEF LoadClose, CloseOk, Stores, StoredObjects
<1>3. /\ Operation(t) = File!Loading(ver[t]) /\ Operation(t)' = File!Idle
      /\ Answer(t) = None
      /\ Answer(t)' = IF ret[t] = 0 THEN obj[t] ELSE None
  BY <1>1 DEF Operation, Answer, File!Loading, File!Idle, IInv, TypeOK
<1>4. /\ Operations[t] = Operation(t)
      /\ Operations' = [Operations EXCEPT ![t] = File!Idle]
      /\ Answers' = [Answers EXCEPT ![t] = Answer(t)'] /\ Answers[t] = None
  BY <1>1, <1>3, OneTask DEF IInv, TypeOK
<1>5. CASE ret[t] = 0
  <2>1. ver[t] # None /\ obj[t] = File!Whole(ver[t])
    BY <1>1, <1>5 DEF IInv, TasksInv, LoadInv, File!Whole
  <2>2. Operations[t].kind = "load" /\ Operations[t].version = ver[t]
    BY <1>3, <1>4 DEF File!Loading
  <2>3. File!EndLoad(t)
    BY <1>2, <1>3, <1>4, <1>5, <2>1, <2>2 DEF File!EndLoad, File!Done
  <2> QED
    BY <2>3 DEF File!Next
<1>6. CASE ret[t] # 0
  <2>1. Answers' = Answers
    BY <1>1, <1>3, <1>6, OneTask DEF IInv, TypeOK
  <2>2. Operations[t].kind = "load"
    BY <1>3, <1>4 DEF File!Loading
  <2>3. File!FailLoad(t)
    BY <1>2, <1>4, <2>1, <2>2 DEF File!FailLoad, File!Done
  <2> QED
    BY <2>3 DEF File!Next
<1> QED
  BY <1>5, <1>6

LEMMA LoadDoneRefines ==
  ASSUME IInv, NEW t \in Task, LoadDone(t)
  PROVE  [File!Next]_(File!vars)
<1>1. /\ pc[t] = "loaded" /\ pc' = [pc EXCEPT ![t] = "idle"]
      /\ UNCHANGED <<flash, disk, up, stale, ver, stream, heap, obj, ret, saved>>
  BY DEF LoadDone, Running, Goto
<1>2. /\ StoredObjects' = StoredObjects /\ Operation(t)' = Operation(t)
      /\ Answer(t)' = None
  BY <1>1 DEF StoredObjects, Operation, Answer, IInv, TypeOK
<1>3. CASE Answer(t) = None
  BY <1>1, <1>2, <1>3, Stutters DEF IInv, TypeOK
<1>4. CASE Answer(t) # None
  <2>1. /\ Answers[t] # None /\ Answers' = [Answers EXCEPT ![t] = None]
        /\ Operations' = Operations
    BY <1>1, <1>2, <1>4, OneTask DEF IInv, TypeOK, Operations
  <2> QED
    BY <1>2, <2>1 DEF File!Next, File!Use
<1> QED
  BY <1>3, <1>4

\* Clearing and formatting erase the file under every save that is on its way.
LEMMA ErasesAll ==
  ASSUME IInv, disk' = None, UNCHANGED <<pc, ver, ret, obj>>,
         \A u \in Task : pc[u] \in {"write1", "write2", "close"} =>
           stale' \/ stream'[u].removed = TRUE
  PROVE  File!Erase
<1>1. StoredObjects' = None
  BY DataTypes DEF StoredObjects
<1>2. ASSUME NEW u \in Task
      PROVE  Operation(u)' = IF Operations[u].kind = "save"
                             THEN File!Overtaken(Operations[u].version)
                             ELSE Operations[u]
  <2>1. Operations[u] = Operation(u)
    BY DEF Operations
  <2>2. CASE pc[u] \in {"write1", "write2", "close"}
    <3>1. Operation(u)' = [kind |-> "save", version |-> ver[u], erased |-> TRUE]
      BY <2>2 DEF Operation
    <3>2. PICK e : Operation(u) = [kind |-> "save", version |-> ver[u], erased |-> e]
      BY <2>2 DEF Operation
    <3>3. Operations[u].kind = "save" /\ Operations[u].version = ver[u]
      BY <2>1, <3>2
    <3> QED
      BY <3>1, <3>3 DEF File!Overtaken
  <2>3. CASE pc[u] \in {"read1", "read2", "lclose"}
    <3>1. Operation(u)' = Operation(u)
          /\ Operation(u) = [kind |-> "load", version |-> ver[u], erased |-> FALSE]
      BY <2>3 DEF Operation
    <3> QED
      BY <2>1, <3>1
  <2>4. CASE pc[u] \in {"idle", "loaded"}
    <3>1. Operation(u)' = Operation(u)
          /\ Operation(u) = [kind |-> "idle", version |-> None, erased |-> FALSE]
      BY <2>4 DEF Operation
    <3> QED
      BY <2>1, <3>1
  <2> QED
    BY <2>2, <2>3, <2>4 DEF IInv, TypeOK
<1>3. Answers' = Answers
  BY DEF Answers, Answer
<1> QED
  BY <1>1, <1>2, <1>3 DEF File!Erase, Operations

LEMMA ClearRefines ==
  ASSUME IInv, NEW t \in Task, Clear(t)
  PROVE  [File!Next]_(File!vars)
<1>1. UNCHANGED <<stale, pc, ver, obj, ret>>
  BY DEF Clear
<1>2. CASE /\ disk' = None /\ saved' = None
           /\ stream' = [u \in Task |-> IF stream[u] = None THEN None
                                        ELSE [stream[u] EXCEPT !.removed = TRUE]]
  <2>1. ASSUME NEW u \in Task, pc[u] \in {"write1", "write2", "close"}
        PROVE  stream'[u].removed = TRUE
    <3>1. stream[u] # None /\ stream[u] \in Stream
      BY <2>1 DEF IInv, TypeOK, TasksInv, SaveInv
    <3> QED
      BY <1>2, <3>1 DEF Stream
  <2> QED
    BY <1>1, <1>2, <2>1, ErasesAll DEF File!Next
<1>3. CASE UNCHANGED <<disk, saved, stream>>
  BY <1>1, <1>3
  DEF File!vars, StoredObjects, Operations, Operation, Answers, Answer
<1> QED
  BY <1>2, <1>3 DEF Clear

\* While the system is down no task is in a call.
OffInv == ~up => \A t \in Task : pc[t] = "idle"

LEMMA OffInvariant == Spec => []OffInv
<1>1. Init => OffInv
  BY DEF Init, OffInv
<1>2. OffInv /\ [Next]_vars => OffInv'
  <2> SUFFICES ASSUME OffInv, [Next]_vars PROVE OffInv'
    OBVIOUS
  <2>1. CASE Mount \/ Reset \/ Format
    BY <2>1 DEF Mount, Reset, Format, taskVars, OffInv
  <2>2. ASSUME NEW t \in Task, TaskStep(t)
        PROVE  up'
    BY <2>2 DEF TaskStep, SaveOpen, SaveFirst, SaveSecond, SaveClose, LoadOpen, LoadFirst,
       LoadSecond, LoadClose, LoadDone, Clear, Running
  <2>3. CASE UNCHANGED vars
    BY <2>3 DEF vars, taskVars, OffInv
  <2> QED
    BY <2>1, <2>2, <2>3 DEF Next, OffInv
<1> QED
  BY <1>1, <1>2, PTL DEF Spec

LEMMA BootRefines ==
  ASSUME IInv, OffInv, Mount \/ Reset \/ Format
  PROVE  [File!Next]_(File!vars)
<1>1. CASE Format
  BY <1>1, ErasesAll DEF Format, taskVars, File!Next
<1>2. CASE Reset
  <2>1. Operations' = [u \in Task |-> File!Idle] /\ Answers' = [u \in Task |-> None]
    BY <1>2 DEF Reset, Operations, Operation, Answers, Answer, File!Idle
  <2>2. StoredObjects' = StoredObjects
    BY <1>2 DEF Reset, StoredObjects
  <2> QED
    BY <2>1, <2>2 DEF File!Next, File!Crash
<1>3. CASE Mount
  <2>1. UNCHANGED <<pc, ver, stream, ret, obj, stale>> /\ \A u \in Task : pc[u] = "idle"
    BY <1>3 DEF Mount, taskVars, OffInv
  <2>2. CASE disk' = None
    BY <2>1, <2>2, ErasesAll DEF File!Next
  <2>3. CASE UNCHANGED disk
    BY <2>1, <2>3 DEF File!vars, StoredObjects, Operations, Operation, Answers, Answer
  <2> QED
    BY <1>3, <2>2, <2>3 DEF Mount
<1> QED
  BY <1>1, <1>2, <1>3

LEMMA InitRefines == Init => File!Init
BY DEF Init, File!Init, File!Idle, StoredObjects, Operations, Operation, Answers, Answer

LEMMA StepRefines == IInv /\ OffInv /\ [Next]_vars => [File!Next]_(File!vars)
<1> SUFFICES ASSUME IInv, OffInv, [Next]_vars
             PROVE  [File!Next]_(File!vars)
  OBVIOUS
<1>1. CASE Mount \/ Reset \/ Format
  BY <1>1, BootRefines
<1>2. ASSUME NEW t \in Task, TaskStep(t)
      PROVE  [File!Next]_(File!vars)
  BY <1>2, SaveOpenRefines, MiddleRefines, SaveCloseRefines, LoadOpenRefines,
     LoadCloseRefines, LoadDoneRefines, ClearRefines
  DEF TaskStep
<1>3. CASE UNCHANGED vars
  BY <1>3 DEF vars, taskVars, File!vars, StoredObjects, Operations, Operation, Answers, Answer
<1> QED
  BY <1>1, <1>2, <1>3 DEF Next

(* To its callers the file is atomic: for any number of tasks, and         *)
(* whatever calls fail, saves, loads and clears behave as AtomicFile says. *)
THEOREM Refinement == Spec => FileSpec
  BY InitRefines, StepRefines, IInvInvariant, OffInvariant, PTL
  DEF Spec, FileSpec, File!Spec

=============================================================================
