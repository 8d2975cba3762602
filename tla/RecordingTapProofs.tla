------------------------- MODULE RecordingTapProofs -------------------------
(***************************************************************************)
(* What RecordingTap's run checks with three buffers, proved for any pool, *)
(* any number of frames and any speed of the disk.                         *)
(***************************************************************************)
EXTENDS RecordingTap, FiniteSetTheorems, TLAPS

USE BuffersAssumption

(* The raw file grows by one frame.                                        *)
LEMMA AppendedFrame ==
    ASSUME NEW file \in Seq(Nat), NEW frame \in Nat
    PROVE  Append(file, frame) \in Seq(Nat)
  OBVIOUS

(* Every variable keeps its type, and a thread names a buffer while it     *)
(* holds one (TypeOK).                                                     *)
THEOREM TapTypeCorrect == Spec => []TypeOK
  <1>1. Init => TypeOK
    BY DEF Init, TypeOK, StopPcs
  <1>2. TypeOK /\ [Next]_vars => TypeOK'
    <2> SUFFICES ASSUME TypeOK, [Next]_vars PROVE TypeOK'
      OBVIOUS
    <2> USE DEF TypeOK
    <2>1. CASE QueueVideoFrame
      <3>1. emu' = [pc |-> "take", buf |-> emu.buf]
        <4>1. emu \in [pc : {"idle", "take", "add", "threw"}, buf : Buffers \cup {NoBuffer}]
          OBVIOUS
        <4> HIDE DEF TypeOK
        <4> QED
          BY <2>1, <4>1 DEF QueueVideoFrame
      <3>2. frames' \in Nat
        BY <2>1 DEF QueueVideoFrame
      <3>3. UNCHANGED <<dropped, pool, queue, content, writer, raw, stop>>
        BY <2>1 DEF QueueVideoFrame
      <3> QED
        BY <3>1, <3>2, <3>3
    <2>2. CASE DropFrame
      <3>1. emu' = [pc |-> "idle", buf |-> emu.buf]
        <4>1. emu \in [pc : {"idle", "take", "add", "threw"}, buf : Buffers \cup {NoBuffer}]
          OBVIOUS
        <4> HIDE DEF TypeOK
        <4> QED
          BY <2>2, <4>1 DEF DropFrame
      <3>2. dropped' \in Nat
        BY <2>2 DEF DropFrame
      <3>3. UNCHANGED <<frames, pool, queue, content, writer, raw, stop>>
        BY <2>2 DEF DropFrame
      <3> QED
        BY <3>1, <3>2, <3>3
    <2>3. CASE TakeBuffer
      BY <2>3 DEF TakeBuffer
    <2>4. CASE AddFrame
      BY <2>4 DEF AddFrame
    <2>5. CASE AddThrows
      BY <2>5 DEF AddThrows
    <2>6. CASE WriterTake
      BY <2>6 DEF WriterTake
    <2>7. CASE WriterWrite
      <3>1. writer' \in {[pc |-> "return", buf |-> writer.buf], [pc |-> "failed", buf |-> writer.buf]}
        BY <2>7 DEF WriterWrite
      <3>2. writer.buf \in Buffers /\ content[writer.buf] \in Nat
        BY <2>7 DEF WriterWrite
      <3>3. raw' \in Seq(Nat)
        <4>1. raw \in Seq(Nat)
          OBVIOUS
        <4> HIDE DEF TypeOK
        <4>2. raw' = raw \/ raw' = Append(raw, content[writer.buf])
          BY <2>7 DEF WriterWrite
        <4>3. Append(raw, content[writer.buf]) \in Seq(Nat)
          BY <3>2, <4>1, AppendedFrame
        <4> QED
          BY <4>1, <4>2, <4>3, Zenon
      <3>4. UNCHANGED <<frames, dropped, emu, pool, queue, content, stop>>
        BY <2>7 DEF WriterWrite
      <3> QED
        BY <3>1, <3>2, <3>3, <3>4
    <2>8. CASE WriterReturn
      BY <2>8 DEF WriterReturn
    <2>9. CASE WriterEnd
      BY <2>9 DEF WriterEnd
    <2>10. CASE StopRecording \/ StopStep \/ JoinTimesOut
      <3>1. PICK to \in StopPcs, late \in BOOLEAN : stop' = [pc |-> to, late |-> late]
        BY <2>10 DEF StopRecording, StopStep, CompleteAdding, JoinWriter, Cleanup, JoinTimesOut,
                     StopAt, StopPcs
      <3> QED
        BY <2>10, <3>1 DEF StopRecording, StopStep, CompleteAdding, JoinWriter, Cleanup,
                           JoinTimesOut, StopAt
    <2>11. CASE UNCHANGED vars
      BY <2>11 DEF vars
    <2> QED
      BY <2>1, <2>2, <2>3, <2>4, <2>5, <2>6, <2>7, <2>8, <2>9, <2>10, <2>11
         DEF Next, EmuStep, WriterStep
  <1> QED
    BY <1>1, <1>2, PTL DEF Spec

-----------------------------------------------------------------------------
(* A thread holds a buffer exactly in the states that name one.            *)
HoldersAgree ==
    /\ emu.pc \in {"idle", "take"} => emu.buf = NoBuffer
    /\ emu.pc \in {"add", "threw"} => emu.buf \in Buffers
    /\ writer.pc = "wait" => writer.buf = NoBuffer

PoolInv == HoldersAgree /\ BuffersConserved

(* Queueing a buffer adds it to those queued.                              *)
LEMMA QueuedAppend ==
    ASSUME TypeOK, NEW b \in Buffers, queue' = Append(queue, b)
    PROVE  /\ Queued' = Queued \cup {b}
           /\ (\A i, j \in DOMAIN queue : queue[i] = queue[j] => i = j) /\ b \notin Queued =>
                  \A i, j \in DOMAIN queue' : queue'[i] = queue'[j] => i = j
  <1>1. /\ Len(queue') = Len(queue) + 1 /\ Len(queue) \in Nat
        /\ DOMAIN queue' = 1 .. Len(queue) + 1 /\ DOMAIN queue = 1 .. Len(queue)
        /\ queue'[Len(queue) + 1] = b
        /\ \A i \in 1 .. Len(queue) : queue'[i] = queue[i]
    BY DEF TypeOK
  <1> QED
    BY <1>1 DEF Queued

(* Taking the head of the queue removes that buffer only.                  *)
LEMMA QueuedTail ==
    ASSUME TypeOK, queue # <<>>, queue' = Tail(queue),
           \A i, j \in DOMAIN queue : queue[i] = queue[j] => i = j
    PROVE  /\ Queued = Queued' \cup {Head(queue)} /\ Head(queue) \notin Queued'
           /\ Head(queue) \in Buffers
           /\ \A i, j \in DOMAIN queue' : queue'[i] = queue'[j] => i = j
  <1>1. /\ Len(queue) \in Nat \ {0} /\ Len(queue') = Len(queue) - 1
        /\ DOMAIN queue = 1 .. Len(queue) /\ DOMAIN queue' = 1 .. Len(queue) - 1
        /\ Head(queue) = queue[1] /\ queue[1] \in Buffers
        /\ \A i \in 1 .. Len(queue) - 1 : queue'[i] = queue[i + 1]
    BY DEF TypeOK
  <1>2. Queued = Queued' \cup {queue[1]}
    <2>1. ASSUME NEW b \in Queued PROVE b \in Queued' \cup {queue[1]}
      <3>1. PICK i \in 1 .. Len(queue) : b = queue[i]
        BY <1>1, <2>1 DEF Queued
      <3>2. CASE i = 1
        BY <3>1, <3>2
      <3>3. CASE i # 1
        <4>1. i - 1 \in DOMAIN queue' /\ queue'[i - 1] = b
          BY <1>1, <3>1, <3>3
        <4> QED
          BY <4>1 DEF Queued
      <3> QED
        BY <3>2, <3>3
    <2>2. ASSUME NEW b \in Queued' PROVE b \in Queued
      <3>1. PICK i \in 1 .. Len(queue) - 1 : b = queue'[i]
        BY <1>1, <2>2 DEF Queued
      <3>2. i + 1 \in DOMAIN queue /\ queue[i + 1] = b
        BY <1>1, <3>1
      <3> QED
        BY <3>2 DEF Queued
    <2>3. queue[1] \in Queued
      BY <1>1 DEF Queued
    <2> QED
      BY <2>1, <2>2, <2>3
  <1>3. queue[1] \notin Queued'
    <2> SUFFICES ASSUME NEW i \in DOMAIN queue', queue'[i] = queue[1] PROVE FALSE
      BY DEF Queued
    <2> QED
      BY <1>1
  <1>4. ASSUME NEW i \in DOMAIN queue', NEW j \in DOMAIN queue', queue'[i] = queue'[j]
        PROVE  i = j
    BY <1>1, <1>4
  <1> QED
    BY <1>1, <1>2, <1>3, <1>4

(* No step loses, duplicates or shares a buffer.                           *)
LEMMA PoolStep == TypeOK /\ PoolInv /\ [Next]_vars => PoolInv'
  <1> SUFFICES ASSUME TypeOK, PoolInv, [Next]_vars PROVE PoolInv'
    OBVIOUS
  <1> USE DEF PoolInv, HoldersAgree, BuffersConserved, Held
  <1>1. CASE QueueVideoFrame \/ DropFrame \/ AddThrows
    BY <1>1 DEF QueueVideoFrame, DropFrame, AddThrows, Queued, TypeOK
  <1>2. CASE TakeBuffer
    <2>1. PICK b \in pool : pool' = pool \ {b} /\ emu' = [pc |-> "add", buf |-> b]
      BY <1>2 DEF TakeBuffer
    <2> QED
      BY <1>2, <2>1 DEF TakeBuffer, Queued, TypeOK
  <1>3. CASE AddFrame
    <2>1. emu.buf \in Buffers /\ emu' = [pc |-> "idle", buf |-> NoBuffer]
      BY <1>3 DEF AddFrame
    <2>2. CASE Len(queue) >= Capacity
      BY <1>3, <2>1, <2>2 DEF AddFrame, Queued
    <2>3. CASE ~(Len(queue) >= Capacity)
      <3>1. queue' = Append(queue, emu.buf) /\ pool' = pool /\ writer' = writer
        BY <1>3, <2>3 DEF AddFrame
      <3>2. emu.buf \notin Queued
        BY <2>1
      <3> QED
        BY <2>1, <3>1, <3>2, QueuedAppend
    <2> QED
      BY <2>2, <2>3
  <1>4. CASE WriterTake
    <2>1. /\ queue # <<>> /\ queue' = Tail(queue) /\ pool' = pool /\ emu' = emu
          /\ writer.buf = NoBuffer /\ writer'.pc \in {"write", "failed"} /\ writer'.buf = Head(queue)
      BY <1>4 DEF WriterTake
    <2> QED
      BY <2>1, QueuedTail
  <1>5. CASE WriterWrite
    BY <1>5 DEF WriterWrite, Queued, TypeOK
  <1>6. CASE WriterReturn
    BY <1>6 DEF WriterReturn, Queued, TypeOK
  <1>7. CASE WriterEnd
    BY <1>7 DEF WriterEnd, Queued, TypeOK
  <1>8. CASE StopRecording \/ StopStep \/ JoinTimesOut
    BY <1>8 DEF StopRecording, StopStep, CompleteAdding, JoinWriter, Cleanup, JoinTimesOut,
                StopAt, Queued
  <1>9. CASE UNCHANGED vars
    BY <1>9 DEF vars, Queued
  <1> QED
    BY <1>1, <1>2, <1>3, <1>4, <1>5, <1>6, <1>7, <1>8, <1>9 DEF Next, EmuStep, WriterStep

(* For any pool and any timing of the three threads every buffer is in     *)
(* exactly one place (BuffersConserved).                                   *)
THEOREM BuffersStay == Spec => []BuffersConserved
  <1>1. Init => PoolInv
    BY DEF Init, PoolInv, HoldersAgree, BuffersConserved, Held, Queued
  <1>2. PoolInv => BuffersConserved
    BY DEF PoolInv
  <1> QED
    BY <1>1, <1>2, PoolStep, TapTypeCorrect, PTL DEF Spec

(* The queued buffers and the one being added are different buffers of the *)
(* pool, so there is one place left in the queue.                          *)
LEMMA ConservedMeansRoom == TypeOK /\ PoolInv => RoomForEveryFrame
  <1> SUFFICES ASSUME TypeOK, PoolInv, emu.pc = "add" PROVE Len(queue) < Capacity
    BY DEF RoomForEveryFrame
  <1> DEFINE n == Len(queue) + 1
             f == [i \in 1 .. n |-> IF i = n THEN emu.buf ELSE queue[i]]
  <1>1. Len(queue) \in Nat /\ DOMAIN queue = 1 .. Len(queue) /\ n \in Nat
    BY DEF TypeOK
  <1>2. emu.buf \in Buffers /\ emu.buf # NoBuffer /\ emu.buf \notin Queued
    BY DEF PoolInv, HoldersAgree, BuffersConserved, Held
  <1>3. \A i \in 1 .. Len(queue) : queue[i] \in Buffers /\ queue[i] # emu.buf
    BY <1>1, <1>2 DEF TypeOK, Queued
  <1>4. \A i, j \in 1 .. Len(queue) : queue[i] = queue[j] => i = j
    BY <1>1 DEF PoolInv, BuffersConserved
  <1>5. f \in [1 .. n -> Buffers]
    BY <1>1, <1>2, <1>3
  <1>6. \A i, j \in 1 .. n : f[i] = f[j] => i = j
    BY <1>1, <1>3, <1>4
  <1>7. f \in Injection(1 .. n, Buffers)
    BY <1>5, <1>6 DEF Injection, IsInjective
  <1>8. Cardinality(1 .. n) <= Cardinality(Buffers)
    BY <1>7, FS_Injection
  <1>9. Cardinality(1 .. n) = n
    BY <1>1, FS_Interval
  <1>10. Cardinality(Buffers) \in Nat
    BY FS_CardinalityType
  <1> QED
    BY <1>1, <1>8, <1>9, <1>10 DEF Capacity, FramePoolSize

(* The drop for want of room in the queue never happens                    *)
(* (RoomForEveryFrame): only an exhausted pool or a resize drops a frame.  *)
THEOREM NoFrameLacksRoom == Spec => []RoomForEveryFrame
  <1>1. Init => PoolInv
    BY DEF Init, PoolInv, HoldersAgree, BuffersConserved, Held, Queued
  <1> QED
    BY <1>1, ConservedMeansRoom, PoolStep, TapTypeCorrect, PTL DEF Spec

-----------------------------------------------------------------------------
(* Why the frames stay in order: the number of the last frame offered is   *)
(* an upper bound of every frame on its way, and the buffer being filled   *)
(* holds exactly that frame.                                               *)
WriterHolds == writer.pc \in {"write", "failed"}

NoneLater ==
    LET before(f) == f <= frames /\ (emu.pc # "idle" => f < frames)
    IN  /\ \A i \in DOMAIN raw : before(raw[i])
        /\ \A i \in DOMAIN queue : before(content[queue[i]])
        /\ WriterHolds => before(content[writer.buf])
        /\ emu.pc = "add" => content[emu.buf] = frames

OrderInv == FramesInOrder /\ NoneLater

(* Filling a free buffer disturbs no frame on its way.                     *)
LEMMA TakeKeepsOrder ==
    ASSUME TypeOK, PoolInv, OrderInv, TakeBuffer
    PROVE  OrderInv'
  <1> USE DEF TypeOK
  <1>1. PICK b \in pool : /\ content' = [content EXCEPT ![b] = frames]
                          /\ emu' = [pc |-> "add", buf |-> b]
    BY DEF TakeBuffer
  <1>2. UNCHANGED <<frames, queue, writer, raw>> /\ emu.pc = "take"
    BY DEF TakeBuffer
  <1>3. \A i \in DOMAIN queue : queue[i] \in Buffers /\ queue[i] # b
    BY DEF PoolInv, BuffersConserved, Queued
  <1>4. WriterHolds => writer.buf \in Buffers /\ writer.buf # b
    BY DEF PoolInv, BuffersConserved, Held, WriterHolds
  <1>5. /\ \A i \in DOMAIN queue : content'[queue[i]] = content[queue[i]]
        /\ WriterHolds => content'[writer.buf] = content[writer.buf]
        /\ content'[b] = frames
    BY <1>1, <1>3, <1>4
  <1> HIDE DEF TypeOK
  <1> QED
    BY <1>1, <1>2, <1>5 DEF OrderInv, FramesInOrder, NoneLater, WriterHolds

(* Queueing a frame puts it behind all the others.                         *)
LEMMA AddKeepsOrder ==
    ASSUME TypeOK, PoolInv, OrderInv, AddFrame
    PROVE  OrderInv'
  <1>1. /\ emu.pc = "add" /\ emu'.pc = "idle" /\ emu.buf \in Buffers
        /\ UNCHANGED <<frames, content, writer, raw>>
        /\ queue' = queue \/ queue' = Append(queue, emu.buf)
    BY DEF AddFrame, PoolInv, HoldersAgree
  <1>2. frames \in Nat /\ Len(queue) \in Nat /\ DOMAIN queue = 1 .. Len(queue)
    BY DEF TypeOK
  <1>3. CASE queue' = queue
    BY <1>1, <1>3 DEF OrderInv, FramesInOrder, NoneLater, WriterHolds
  <1>4. CASE queue' = Append(queue, emu.buf)
    <2>1. /\ DOMAIN queue' = 1 .. Len(queue) + 1
          /\ queue'[Len(queue) + 1] = emu.buf
          /\ \A i \in 1 .. Len(queue) : queue'[i] = queue[i]
      BY <1>1, <1>4 DEF TypeOK
    <2>2. \A i \in DOMAIN queue' : i \in DOMAIN queue \/ (i = Len(queue) + 1 /\ queue'[i] = emu.buf)
      BY <1>2, <2>1
    <2>3. \A i \in DOMAIN queue : queue'[i] = queue[i] /\ i < Len(queue) + 1
      BY <1>2, <2>1
    <2>4. content[emu.buf] = frames
      BY <1>1 DEF OrderInv, NoneLater
    <2>5. NoneLater'
      BY <1>1, <1>2, <2>2, <2>3, <2>4 DEF OrderInv, NoneLater, WriterHolds
    <2>6. \A i, j \in DOMAIN queue' : i < j => content[queue'[i]] < content[queue'[j]]
      <3> SUFFICES ASSUME NEW i \in DOMAIN queue', NEW j \in DOMAIN queue', i < j
                   PROVE  content[queue'[i]] < content[queue'[j]]
        OBVIOUS
      <3>1. i \in DOMAIN queue
        BY <1>2, <2>1
      <3>2. CASE j \in DOMAIN queue
        BY <3>1, <3>2, <2>3 DEF OrderInv, FramesInOrder
      <3>3. CASE j = Len(queue) + 1
        BY <1>1, <3>1, <3>3, <2>1, <2>3 DEF OrderInv, FramesInOrder
      <3> QED
        BY <2>2, <3>2, <3>3
    <2>7. \A i \in DOMAIN raw : \A j \in DOMAIN queue' : raw[i] < content[queue'[j]]
      BY <1>1, <2>2, <2>3, <2>4 DEF OrderInv, FramesInOrder, NoneLater
    <2>8. WriterHolds => \A j \in DOMAIN queue' : content[writer.buf] < content[queue'[j]]
      BY <1>1, <2>2, <2>3, <2>4 DEF OrderInv, FramesInOrder, NoneLater, WriterHolds
    <2> QED
      BY <1>1, <2>5, <2>6, <2>7, <2>8 DEF OrderInv, FramesInOrder, WriterHolds
  <1> QED
    BY <1>1, <1>3, <1>4

(* The writer takes the earliest queued frame.                             *)
LEMMA WriterTakeKeepsOrder ==
    ASSUME TypeOK, OrderInv, WriterTake
    PROVE  OrderInv'
  <1>1. /\ writer.pc = "wait" /\ writer'.pc \in {"write", "failed"} /\ writer'.buf = queue[1]
        /\ UNCHANGED <<frames, emu, content, raw>>
    BY DEF WriterTake, TypeOK
  <1>2. /\ Len(queue) \in Nat \ {0} /\ DOMAIN queue = 1 .. Len(queue)
        /\ DOMAIN queue' = 1 .. Len(queue) - 1
        /\ \A i \in 1 .. Len(queue) - 1 : queue'[i] = queue[i + 1]
    BY DEF WriterTake, TypeOK
  <1>3. \A i \in DOMAIN queue' : i + 1 \in DOMAIN queue /\ queue'[i] = queue[i + 1] /\ 1 < i + 1
    BY <1>2
  <1>4. 1 \in DOMAIN queue
    BY <1>2
  <1>5. NoneLater'
    BY <1>1, <1>3, <1>4 DEF OrderInv, NoneLater, WriterHolds
  <1>6. \A i, j \in DOMAIN queue' : i < j => content[queue'[i]] < content[queue'[j]]
    BY <1>2, <1>3 DEF OrderInv, FramesInOrder
  <1>7. \A i \in DOMAIN raw : raw[i] < content[queue[1]]
    BY <1>4 DEF OrderInv, FramesInOrder
  <1>8. \A i \in DOMAIN raw : \A j \in DOMAIN queue' : raw[i] < content[queue'[j]]
    BY <1>3 DEF OrderInv, FramesInOrder
  <1>9. \A j \in DOMAIN queue' : content[queue[1]] < content[queue'[j]]
    BY <1>3, <1>4 DEF OrderInv, FramesInOrder
  <1>10. \A j \in DOMAIN queue' : emu.pc = "add" => content[queue'[j]] < content[emu.buf]
    BY <1>3 DEF OrderInv, FramesInOrder
  <1> QED
    BY <1>1, <1>5, <1>6, <1>7, <1>8, <1>9, <1>10 DEF OrderInv, FramesInOrder

(* The written frame comes behind the file's and before the queued ones.   *)
LEMMA WriterWriteKeepsOrder ==
    ASSUME TypeOK, OrderInv, WriterWrite
    PROVE  OrderInv'
  <1>1. /\ writer.pc = "write" /\ UNCHANGED <<frames, emu, queue, content>>
        /\ \/ writer' = [writer EXCEPT !.pc = "failed"] /\ raw' = raw
           \/ writer' = [writer EXCEPT !.pc = "return"] /\ raw' = Append(raw, content[writer.buf])
    BY DEF WriterWrite
  <1>2. writer' = [pc |-> writer'.pc, buf |-> writer.buf]
    BY <1>1 DEF TypeOK
  <1>3. CASE writer'.pc = "failed" /\ raw' = raw
    BY <1>1, <1>2, <1>3 DEF OrderInv, FramesInOrder, NoneLater, WriterHolds
  <1>4. CASE writer'.pc = "return" /\ raw' = Append(raw, content[writer.buf])
    <2>1. writer.buf \in Buffers /\ content[writer.buf] \in Nat /\ raw \in Seq(Nat)
      BY <1>1 DEF TypeOK
    <2>2. /\ Len(raw) \in Nat /\ DOMAIN raw = 1 .. Len(raw) /\ DOMAIN raw' = 1 .. Len(raw) + 1
          /\ raw'[Len(raw) + 1] = content[writer.buf]
          /\ \A i \in 1 .. Len(raw) : raw'[i] = raw[i]
      BY <1>4, <2>1
    <2>3. \A i \in DOMAIN raw' :
             i \in DOMAIN raw \/ (i = Len(raw) + 1 /\ raw'[i] = content[writer.buf])
      BY <2>2
    <2>4. NoneLater'
      BY <1>1, <1>4, <2>2, <2>3 DEF OrderInv, NoneLater, WriterHolds
    <2>5. \A i, j \in DOMAIN raw' : i < j => raw'[i] < raw'[j]
      <3> SUFFICES ASSUME NEW i \in DOMAIN raw', NEW j \in DOMAIN raw', i < j
                   PROVE  raw'[i] < raw'[j]
        OBVIOUS
      <3>1. i \in DOMAIN raw /\ raw'[i] = raw[i]
        BY <2>2
      <3>2. CASE j \in DOMAIN raw
        BY <3>1, <3>2, <2>2 DEF OrderInv, FramesInOrder
      <3>3. CASE j = Len(raw) + 1
        BY <1>1, <3>1, <3>3, <2>2 DEF OrderInv, FramesInOrder
      <3> QED
        BY <2>3, <3>2, <3>3
    <2>6. \A i \in DOMAIN raw' : \A j \in DOMAIN queue : raw'[i] < content[queue[j]]
      BY <1>1, <2>2, <2>3 DEF OrderInv, FramesInOrder
    <2> QED
      BY <1>1, <1>4, <2>4, <2>5, <2>6 DEF OrderInv, FramesInOrder
  <1> QED
    BY <1>1, <1>2, <1>3, <1>4

(* Every step keeps the order.                                             *)
LEMMA OrderStep == TypeOK /\ PoolInv /\ OrderInv /\ [Next]_vars => OrderInv'
  <1> SUFFICES ASSUME TypeOK, PoolInv, OrderInv, [Next]_vars PROVE OrderInv'
    OBVIOUS
  <1>1. CASE QueueVideoFrame
    <2>1. /\ frames' = frames + 1 /\ emu.pc = "idle" /\ emu'.pc = "take"
          /\ UNCHANGED <<queue, content, writer, raw>>
      BY <1>1 DEF QueueVideoFrame, TypeOK
    <2>2. frames \in Nat /\ (\A i \in DOMAIN raw : raw[i] \in Nat)
          /\ (\A i \in DOMAIN queue : content[queue[i]] \in Nat)
          /\ (WriterHolds => content[writer.buf] \in Nat)
      BY DEF TypeOK, WriterHolds
    <2> QED
      BY <2>1, <2>2 DEF OrderInv, FramesInOrder, NoneLater, WriterHolds
  <1>2. CASE DropFrame \/ AddThrows
    <2>1. /\ UNCHANGED <<frames, queue, content, writer, raw>>
          /\ emu.pc \in {"take", "add"} /\ emu'.pc \in {"idle", "threw"}
      BY <1>2 DEF DropFrame, AddThrows, TypeOK
    <2> QED
      BY <2>1 DEF OrderInv, FramesInOrder, NoneLater, WriterHolds
  <1>3. CASE TakeBuffer
    BY <1>3, TakeKeepsOrder
  <1>4. CASE AddFrame
    BY <1>4, AddKeepsOrder
  <1>5. CASE WriterTake
    BY <1>5, WriterTakeKeepsOrder
  <1>6. CASE WriterWrite
    BY <1>6, WriterWriteKeepsOrder
  <1>7. CASE WriterReturn \/ WriterEnd
    <2>1. /\ UNCHANGED <<frames, emu, queue, content, raw>>
          /\ writer.pc \in {"return", "wait"} /\ writer'.pc \in {"wait", "ended"}
      BY <1>7 DEF WriterReturn, WriterEnd, TypeOK
    <2> QED
      BY <2>1 DEF OrderInv, FramesInOrder, NoneLater, WriterHolds
  <1>8. CASE StopRecording \/ StopStep \/ JoinTimesOut \/ UNCHANGED vars
    <2>1. UNCHANGED <<frames, emu, queue, content, writer, raw>>
      BY <1>8 DEF StopRecording, StopStep, CompleteAdding, JoinWriter, Cleanup, JoinTimesOut,
                  StopAt, vars
    <2> QED
      BY <2>1 DEF OrderInv, FramesInOrder, NoneLater, WriterHolds
  <1> QED
    BY <1>1, <1>2, <1>3, <1>4, <1>5, <1>6, <1>7, <1>8 DEF Next, EmuStep, WriterStep

(* The frames on disk and on their way are in the order the core finished  *)
(* them, and each buffer still holds the picture it was queued with        *)
(* (FramesInOrder).                                                        *)
THEOREM FramesStayInOrder == Spec => []FramesInOrder
  <1>1. Init => PoolInv /\ OrderInv
    BY DEF Init, PoolInv, HoldersAgree, BuffersConserved, Held, Queued,
           OrderInv, FramesInOrder, NoneLater, WriterHolds
  <1>2. OrderInv => FramesInOrder
    BY DEF OrderInv
  <1> QED
    BY <1>1, <1>2, OrderStep, PoolStep, TapTypeCorrect, PTL DEF Spec

-----------------------------------------------------------------------------
(* The tally at Stop accounts for every frame offered (FramesAccounted).   *)
THEOREM TallyRight == Spec => []FramesAccounted
  <1>1. Init => FramesAccounted
    BY DEF Init, FramesAccounted
  <1>2. TypeOK /\ FramesAccounted /\ [Next]_vars => FramesAccounted'
    <2> SUFFICES ASSUME TypeOK, FramesAccounted, [Next]_vars PROVE FramesAccounted'
      OBVIOUS
    <2>n. frames \in Nat /\ dropped \in Nat /\ Len(queue) \in Nat /\ Len(raw) \in Nat
      BY DEF TypeOK
    <2> USE <2>n DEF FramesAccounted
    <2>1. CASE QueueVideoFrame
      <3>1. frames' = frames + 1 /\ emu.pc = "idle" /\ emu'.pc = "take"
            /\ UNCHANGED <<dropped, queue, writer, raw>>
        BY <2>1 DEF QueueVideoFrame, TypeOK
      <3> QED
        BY <3>1
    <2>2. CASE DropFrame
      <3>1. dropped' = dropped + 1 /\ emu.pc = "take" /\ emu'.pc = "idle"
            /\ UNCHANGED <<frames, queue, writer, raw>>
        BY <2>2 DEF DropFrame, TypeOK
      <3> QED
        BY <3>1
    <2>3. CASE TakeBuffer \/ AddThrows
      <3>1. emu.pc # "idle" /\ emu'.pc # "idle" /\ UNCHANGED <<frames, dropped, queue, writer, raw>>
        BY <2>3 DEF TakeBuffer, AddThrows, TypeOK
      <3> QED
        BY <3>1
    <2>4. CASE AddFrame
      <3>1. emu.pc = "add" /\ emu'.pc = "idle" /\ UNCHANGED <<frames, writer, raw>>
        BY <2>4 DEF AddFrame
      <3>2. \/ Len(queue') = Len(queue) + 1 /\ dropped' = dropped
            \/ Len(queue') = Len(queue) /\ dropped' = dropped + 1
        BY <2>4 DEF AddFrame, TypeOK
      <3>3. CASE Len(queue') = Len(queue) + 1 /\ dropped' = dropped
        BY <3>1, <3>3
      <3>4. CASE Len(queue') = Len(queue) /\ dropped' = dropped + 1
        BY <3>1, <3>4
      <3> QED
        BY <3>2, <3>3, <3>4
    <2>5. CASE WriterTake
      <3>1. /\ writer.pc = "wait" /\ writer'.pc \in {"write", "failed"}
            /\ UNCHANGED <<frames, dropped, emu, raw>>
        BY <2>5 DEF WriterTake
      <3>2. Len(queue') = Len(queue) - 1 /\ Len(queue) > 0
        BY <2>5 DEF WriterTake, TypeOK
      <3> QED
        BY <3>1, <3>2
    <2>6. CASE WriterWrite
      <3>1. writer.pc = "write" /\ UNCHANGED <<frames, dropped, emu, queue>>
        BY <2>6 DEF WriterWrite
      <3>2. \/ writer'.pc = "failed" /\ raw' = raw
            \/ writer'.pc = "return" /\ Len(raw') = Len(raw) + 1
        BY <2>6 DEF WriterWrite, TypeOK
      <3> QED
        BY <3>1, <3>2
    <2>7. CASE WriterReturn \/ WriterEnd
      <3>1. writer.pc \in {"wait", "return"} /\ writer'.pc \in {"wait", "ended"}
            /\ UNCHANGED <<frames, dropped, emu, queue, raw>>
        BY <2>7 DEF WriterReturn, WriterEnd, TypeOK
      <3> QED
        BY <3>1
    <2>8. CASE StopRecording \/ StopStep \/ JoinTimesOut \/ UNCHANGED vars
      BY <2>8 DEF StopRecording, StopStep, CompleteAdding, JoinWriter, Cleanup, JoinTimesOut,
                  StopAt, vars
    <2> QED
      BY <2>1, <2>2, <2>3, <2>4, <2>5, <2>6, <2>7, <2>8 DEF Next, EmuStep, WriterStep
  <1> QED
    BY <1>1, <1>2, TapTypeCorrect, PTL DEF Spec

-----------------------------------------------------------------------------
(* Why the encode sees every queued frame: the writer ends by itself only  *)
(* once nothing can be queued any more and nothing is.                     *)
DrainInv ==
    /\ writer.pc = "ended" /\ ~Disposed => AddingCompleted /\ queue = <<>>
    /\ stop.pc \in {"encoding", "cleaned"} /\ ~stop.late => WriterGone

(* Every step keeps this true.                                             *)
LEMMA DrainStep == TypeOK /\ DrainInv /\ [Next]_vars => DrainInv'
  <1> SUFFICES ASSUME TypeOK, DrainInv, [Next]_vars PROVE DrainInv'
    OBVIOUS
  <1> USE DEF DrainInv, Disposed, AddingCompleted, WriterGone
  <1>1. CASE QueueVideoFrame \/ DropFrame \/ TakeBuffer \/ AddThrows
    BY <1>1 DEF QueueVideoFrame, DropFrame, TakeBuffer, AddThrows
  <1>2. CASE AddFrame
    BY <1>2 DEF AddFrame
  <1>3. CASE WriterTake
    BY <1>3 DEF WriterTake, TypeOK
  <1>4. CASE WriterWrite
    <2>1. writer.pc = "write" /\ writer'.pc \in {"return", "failed"} /\ UNCHANGED <<queue, stop>>
      BY <1>4 DEF WriterWrite, TypeOK
    <2> QED
      BY <2>1
  <1>5. CASE WriterReturn
    <2>1. /\ writer.pc = "return" /\ UNCHANGED <<queue, stop>>
          /\ writer'.pc = "wait" \/ (Disposed /\ writer'.pc = "ended")
      BY <1>5 DEF WriterReturn, TypeOK
    <2> QED
      BY <2>1
  <1>6. CASE WriterEnd
    <2>1. /\ writer'.pc = "ended" /\ UNCHANGED <<queue, stop>>
          /\ (AddingCompleted /\ queue = <<>>) \/ Disposed
      BY <1>6 DEF WriterEnd, TypeOK
    <2> QED
      BY <2>1
  <1>7. CASE StopRecording \/ CompleteAdding
    BY <1>7 DEF StopRecording, CompleteAdding, StopAt, TypeOK
  <1>8. CASE JoinWriter
    BY <1>8 DEF JoinWriter, StopAt, TypeOK
  <1>9. CASE Cleanup
    BY <1>9 DEF Cleanup, StopAt, TypeOK
  <1>10. CASE JoinTimesOut
    BY <1>10 DEF JoinTimesOut
  <1>11. CASE UNCHANGED vars
    BY <1>11 DEF vars
  <1> QED
    BY <1>1, <1>2, <1>3, <1>4, <1>5, <1>6, <1>7, <1>8, <1>9, <1>10, <1>11
       DEF Next, EmuStep, WriterStep, StopStep

(* Unless the disk failed or was slower than Stop waits for it, the encode *)
(* reads every frame that was queued (EncodeSeesAll).                      *)
THEOREM EncodeComplete == Spec => []EncodeSeesAll
  <1>1. Init => DrainInv
    BY DEF Init, DrainInv
  <1>2. TypeOK /\ DrainInv => EncodeSeesAll
    BY DEF TypeOK, DrainInv, EncodeSeesAll, WriterGone, Disposed
  <1> QED
    BY <1>1, <1>2, DrainStep, TapTypeCorrect, PTL DEF Spec

(* Both at once: no buffer is lost, and none lacks a place (QueueVideoFrame). *)
THEOREM BuffersStaySafe == Spec => []BuffersSafe
  BY BuffersStay, NoFrameLacksRoom, PTL DEF BuffersSafe

(* At once: frames arrive in order, none is unaccounted for, and the       *)
(* encode sees them.                                                       *)
THEOREM FramesStayKept == Spec => []FramesKept
  BY FramesStayInOrder, TallyRight, EncodeComplete, PTL DEF FramesKept

-----------------------------------------------------------------------------
(* The refinement of FrameLog.                                             *)
LogInv == TypeOK /\ PoolInv /\ OrderInv /\ FramesAccounted /\ DrainInv

(* What is written is the oldest frame on its way, and leaves the others.  *)
LEMMA WrittenIsOldest ==
    ASSUME TypeOK, OrderInv, writer.pc = "write"
    PROVE  LET f == content[writer.buf]
               rest == {content[b] : b \in Queued}
           IN  f \notin rest /\ \A g \in rest : f <= g
  <1>1. \A j \in DOMAIN queue : content[writer.buf] < content[queue[j]]
    BY DEF OrderInv, FramesInOrder
  <1>2. content[writer.buf] \in Nat /\ \A j \in DOMAIN queue : content[queue[j]] \in Nat
    BY DEF TypeOK
  <1> QED
    BY <1>1, <1>2 DEF Queued

(* The emulation thread offers, keeps or drops a frame.                    *)
LEMMA EmuLogs ==
    ASSUME LogInv, EmuStep
    PROVE  [Log!Next]_Log!vars
  <1> USE DEF LogInv
  <1>1. CASE QueueVideoFrame
    <2>1. /\ frames' = frames + 1 /\ emu.pc = "idle" /\ emu'.pc = "take" /\ stop.pc = "recording"
          /\ UNCHANGED <<queue, content, writer, raw, stop>>
      BY <1>1 DEF QueueVideoFrame, TypeOK, IsRecording
    <2>2. Log!Offer
      BY <2>1 DEF Log!Offer, InHand, OnTheWay, Queued, Phase
    <2> QED
      BY <2>2 DEF Log!Next
  <1>2. CASE DropFrame
    <2>1. /\ emu.pc = "take" /\ emu'.pc = "idle" /\ frames # 0
          /\ UNCHANGED <<frames, queue, content, writer, raw, stop>>
      BY <1>2 DEF DropFrame, TypeOK, FramesAccounted
    <2>2. Log!Drop
      BY <2>1 DEF Log!Drop, InHand, OnTheWay, Queued, Phase
    <2> QED
      BY <2>2 DEF Log!Next
  <1>3. CASE TakeBuffer
    <2>1. PICK b \in pool : /\ content' = [content EXCEPT ![b] = frames]
                            /\ emu' = [pc |-> "add", buf |-> b]
      BY <1>3 DEF TakeBuffer
    <2>2. UNCHANGED <<frames, queue, writer, raw, stop>> /\ emu.pc = "take" /\ emu'.pc = "add"
      BY <1>3, <2>1 DEF TakeBuffer
    <2>3. b \notin Queued /\ (writer.pc \in {"write", "failed"} => writer.buf # b)
      BY DEF PoolInv, BuffersConserved, Held, TypeOK
    <2>4. /\ {content'[c] : c \in Queued} = {content[c] : c \in Queued}
          /\ writer.pc \in {"write", "failed"} => content'[writer.buf] = content[writer.buf]
      <3>1. \A c \in Buffers : c # b => content'[c] = content[c]
        BY <2>1 DEF TypeOK
      <3>2. Queued \subseteq Buffers /\ (writer.pc \in {"write", "failed"} => writer.buf \in Buffers)
        BY DEF TypeOK, Queued
      <3> QED
        BY <2>3, <3>1, <3>2
    <2>5. OnTheWay' = OnTheWay
      BY <2>2, <2>4 DEF OnTheWay, Queued
    <2>6. InHand' = InHand /\ Phase' = Phase
      BY <2>2 DEF InHand, Phase
    <2> QED
      BY <2>2, <2>5, <2>6 DEF Log!vars
  <1>4. CASE AddFrame
    <2>1. /\ emu.pc = "add" /\ emu'.pc = "idle" /\ emu.buf \in Buffers
          /\ stop.pc \in {"recording", "stopping"}
          /\ UNCHANGED <<frames, content, writer, raw, stop>>
      BY <1>4 DEF AddFrame, PoolInv, HoldersAgree, AddingCompleted
    <2>0. frames # 0
      BY <2>1 DEF TypeOK, FramesAccounted
    <2>2. InHand # 0 /\ InHand = frames /\ InHand' = 0 /\ Phase' = Phase /\ Phase \in {"open", "closing"}
      BY <2>0, <2>1 DEF InHand, Phase
    <2>3. CASE queue' = queue
      <3>1. OnTheWay' = OnTheWay
        BY <2>1, <2>3 DEF OnTheWay, Queued
      <3>2. Log!Drop
        BY <2>1, <2>2, <3>1 DEF Log!Drop
      <3> QED
        BY <3>2 DEF Log!Next
    <2>4. CASE queue' = Append(queue, emu.buf)
      <3>1. Queued' = Queued \cup {emu.buf}
        BY <2>1, <2>4, QueuedAppend
      <3>2. content[emu.buf] = frames
        BY <2>1 DEF OrderInv, NoneLater
      <3>3. OnTheWay' = OnTheWay \cup {InHand}
        BY <2>1, <2>2, <3>1, <3>2 DEF OnTheWay
      <3>4. Log!Keep
        BY <2>1, <2>2, <3>3 DEF Log!Keep
      <3> QED
        BY <3>4 DEF Log!Next
    <2> QED
      BY <1>4, <2>3, <2>4 DEF AddFrame
  <1>5. CASE AddThrows
    <2>1. /\ UNCHANGED <<frames, queue, content, writer, raw, stop>>
          /\ emu.pc = "add" /\ emu'.pc = "threw"
      BY <1>5 DEF AddThrows, TypeOK
    <2> QED
      BY <2>1 DEF Log!vars, InHand, OnTheWay, Queued, Phase
  <1> QED
    BY <1>1, <1>2, <1>3, <1>4, <1>5 DEF EmuStep

(* The writer logs the oldest frame, and while it can, the video is not    *)
(* yet made or was made without waiting for it.                            *)
LEMMA WriterLogs ==
    ASSUME LogInv, WriterStep
    PROVE  [Log!Next]_Log!vars
  <1> USE DEF LogInv
  <1>0. ~WriterGone /\ writer \in [pc : {"wait", "write", "return", "ended", "failed"}, buf : Buffers \cup {NoBuffer}]
    BY DEF WriterStep, WriterTake, WriterWrite, WriterReturn, WriterEnd, WriterGone, TypeOK
  <1>p. Phase # "whole"
    <2>1. stop.pc \in StopPcs
      BY DEF TypeOK
    <2> QED
      BY <1>0, <2>1 DEF DrainInv, Phase, StopPcs
  <1>q. stop' = stop => Phase' = Phase
    <2>1. stop.pc \in StopPcs
      BY DEF TypeOK
    <2> QED
      BY <1>0, <2>1 DEF DrainInv, Phase, StopPcs
  <1>1. CASE WriterTake
    <2>1. /\ writer.pc = "wait" /\ writer'.pc \in {"write", "failed"} /\ writer'.buf = Head(queue)
          /\ queue # <<>> /\ queue' = Tail(queue)
          /\ UNCHANGED <<frames, emu, content, raw, stop>>
      BY <1>1 DEF WriterTake
    <2>2. Queued = Queued' \cup {Head(queue)}
      BY <2>1, QueuedTail DEF PoolInv, BuffersConserved
    <2>3. OnTheWay' = OnTheWay
      BY <2>1, <2>2 DEF OnTheWay
    <2> QED
      BY <1>q, <2>1, <2>3 DEF Log!vars, InHand
  <1>2. CASE WriterWrite
    <2>1. /\ writer.pc = "write" /\ UNCHANGED <<frames, emu, queue, content, stop>>
          /\ \/ writer'.pc = "failed" /\ writer'.buf = writer.buf /\ raw' = raw
             \/ writer'.pc = "return" /\ raw' = Append(raw, content[writer.buf])
      BY <1>0, <1>2 DEF WriterWrite
    <2>2. InHand' = InHand /\ Phase' = Phase
      BY <1>q, <2>1 DEF InHand
    <2>3. CASE writer'.pc = "failed" /\ writer'.buf = writer.buf /\ raw' = raw
      BY <2>1, <2>2, <2>3 DEF Log!vars, OnTheWay, Queued
    <2>4. CASE writer'.pc = "return" /\ raw' = Append(raw, content[writer.buf])
      <3> DEFINE f == content[writer.buf]
      <3>1. OnTheWay = {content[b] : b \in Queued} \cup {f} /\ OnTheWay' = {content[b] : b \in Queued}
        BY <2>1, <2>4 DEF OnTheWay, Queued
      <3>2. f \notin {content[b] : b \in Queued} /\ \A g \in {content[b] : b \in Queued} : f <= g
        BY <2>1, WrittenIsOldest
      <3>3. f \in Nat
        BY <2>1 DEF TypeOK
      <3>4. f \in OnTheWay /\ (\A g \in OnTheWay : f <= g) /\ OnTheWay' = OnTheWay \ {f}
        BY <3>1, <3>2, <3>3
      <3>5. Log!Record
        BY <1>p, <2>1, <2>2, <2>4, <3>4 DEF Log!Record
      <3> QED
        BY <3>5 DEF Log!Next
    <2> QED
      BY <2>1, <2>3, <2>4
  <1>3. CASE WriterReturn \/ WriterEnd
    <2>1. /\ writer.pc \in {"return", "wait"} /\ writer'.pc \in {"wait", "ended"}
          /\ UNCHANGED <<frames, emu, queue, content, raw, stop>>
      BY <1>0, <1>3 DEF WriterReturn, WriterEnd
    <2> QED
      BY <1>q, <2>1 DEF Log!vars, InHand, OnTheWay, Queued
  <1> QED
    BY <1>1, <1>2, <1>3 DEF WriterStep

(* Stop closes the log and makes the video from it.                        *)
LEMMA StopLogs ==
    ASSUME LogInv, StopRecording \/ StopStep \/ JoinTimesOut
    PROVE  [Log!Next]_Log!vars
  <1> USE DEF LogInv
  <1>1. UNCHANGED <<frames, emu, queue, content, writer, raw>> /\ InHand' = InHand /\ OnTheWay' = OnTheWay
    <2>1. UNCHANGED <<frames, emu, queue, content, writer, raw>>
      BY DEF StopRecording, StopStep, CompleteAdding, JoinWriter, Cleanup, JoinTimesOut, StopAt
    <2> QED
      BY <2>1 DEF InHand, OnTheWay, Queued
  <1>2. CASE StopRecording \/ CompleteAdding
    <2>1. \/ Phase = "open" /\ Phase' = "closing"
          \/ Phase = "closing" /\ Phase' = "closed"
      BY <1>2 DEF StopRecording, CompleteAdding, StopAt, Phase, TypeOK
    <2>2. Log!Close
      BY <1>1, <2>1 DEF Log!Close
    <2> QED
      BY <2>2 DEF Log!Next
  <1>3. CASE JoinWriter
    <2>1. /\ stop.pc = "joining" /\ stop'.pc = "encoding" /\ stop'.late = stop.late /\ WriterGone
      BY <1>3 DEF JoinWriter, StopAt, TypeOK
    <2>2. Phase = "closed" /\ Phase' \in {"whole", "part"}
      BY <2>1 DEF Phase
    <2>3. CASE Phase' = "part"
      <3>1. Log!MakeVideo
        BY <1>1, <2>2, <2>3 DEF Log!MakeVideo
      <3> QED
        BY <3>1 DEF Log!Next
    <2>4. CASE Phase' = "whole"
      <3>1. writer.pc # "failed"
        BY <1>1, <2>1, <2>4 DEF Phase
      <3>2. writer.pc = "ended" /\ queue = <<>>
        BY <2>1, <3>1 DEF WriterGone, DrainInv, Disposed
      <3>3. OnTheWay = {}
        BY <3>2 DEF OnTheWay, Queued
      <3>4. Log!MakeVideo
        BY <1>1, <2>2, <2>4, <3>3 DEF Log!MakeVideo
      <3> QED
        BY <3>4 DEF Log!Next
    <2> QED
      BY <2>2, <2>3, <2>4
  <1>4. CASE JoinTimesOut
    <2>1. Phase = "closed" /\ Phase' = "part"
      BY <1>4 DEF JoinTimesOut, Phase
    <2>2. Log!MakeVideo
      BY <1>1, <2>1 DEF Log!MakeVideo
    <2> QED
      BY <2>2 DEF Log!Next
  <1>5. CASE Cleanup
    <2>1. stop.pc = "encoding" /\ stop'.pc = "cleaned" /\ stop'.late = stop.late
      BY <1>5 DEF Cleanup, StopAt, TypeOK
    <2>2. Phase' = Phase
      BY <1>1, <2>1 DEF Phase
    <2> QED
      BY <1>1, <2>2 DEF Log!vars
  <1> QED
    BY <1>2, <1>3, <1>4, <1>5 DEF StopStep

(* Refinement: pool, queue and three threads implement a log that drops    *)
(* only the frame in hand and loses none it kept (LogKept).                *)
THEOREM LogImplemented == Spec => LogKept
  <1>1. Init => Log!Init /\ PoolInv /\ OrderInv /\ DrainInv
    <2> SUFFICES ASSUME Init PROVE Log!Init /\ PoolInv /\ OrderInv /\ DrainInv
      OBVIOUS
    <2>1. PoolInv /\ OrderInv /\ DrainInv
      BY DEF Init, PoolInv, HoldersAgree, BuffersConserved, Held, Queued,
             OrderInv, FramesInOrder, NoneLater, WriterHolds, DrainInv, Disposed
    <2>2. Log!Init
      BY DEF Init, Log!Init, InHand, OnTheWay, Queued, Phase
    <2> QED
      BY <2>1, <2>2
  <1>2. LogInv /\ [Next]_vars => [Log!Next]_Log!vars
    <2> SUFFICES ASSUME LogInv, [Next]_vars PROVE [Log!Next]_Log!vars
      OBVIOUS
    <2>1. CASE UNCHANGED vars
      BY <2>1 DEF vars, Log!vars, InHand, OnTheWay, Queued, Phase
    <2> QED
      BY <2>1, EmuLogs, WriterLogs, StopLogs DEF Next
  <1>3. Spec => []LogInv
    BY <1>1, PoolStep, OrderStep, DrainStep, TallyRight, TapTypeCorrect, PTL DEF Spec, LogInv
  <1> QED
    BY <1>1, <1>2, <1>3, PTL DEF Spec, LogKept, Log!Spec

-----------------------------------------------------------------------------
(* The safe part of StopEnds: how many steps the writer has left once      *)
(* nothing is queued any more.                                             *)
StepsLeft ==
    3 * Len(queue) + (CASE writer.pc = "wait"   -> 1
                        [] writer.pc = "write"  -> 3
                        [] writer.pc = "return" -> 2
                        [] OTHER                -> 0)

(* Each step of the writer is one fewer, and nobody else's adds to them.   *)
DrainsOn == [][AddingCompleted => UNCHANGED <<queue, writer>> \/ StepsLeft' < StepsLeft]_vars

QueueBounded == Len(queue) <= Capacity

(* For any pool and disk, what Stop waits for (Thread.Join) is at most     *)
(* three steps of the writer for each place of the queue and three more,   *)
(* whatever the emulation thread does meanwhile.                           *)
THEOREM StopBounded == Spec => [](StepsLeft <= 3 * Capacity + 3) /\ DrainsOn
  <1>c. Capacity \in Nat
    BY FS_CardinalityType DEF Capacity, FramePoolSize
  <1>1. Init => QueueBounded
    BY <1>c DEF Init, QueueBounded
  <1>2. TypeOK /\ QueueBounded /\ [Next]_vars => QueueBounded'
    <2> SUFFICES ASSUME TypeOK, QueueBounded, [Next]_vars PROVE Len(queue') <= Capacity
      BY DEF QueueBounded, Capacity, FramePoolSize
    <2>0. Len(queue) \in Nat /\ Len(queue) <= Capacity
      BY DEF TypeOK, QueueBounded
    <2>1. CASE AddFrame
      BY <1>c, <2>0, <2>1 DEF AddFrame, TypeOK
    <2>2. CASE WriterTake
      <3>1. Len(queue') = Len(queue) - 1
        BY <2>2 DEF WriterTake, TypeOK
      <3> QED
        BY <1>c, <2>0, <3>1
    <2>3. CASE queue' = queue
      BY <2>0, <2>3
    <2> QED
      BY <2>1, <2>2, <2>3
         DEF Next, EmuStep, WriterStep, StopStep, QueueVideoFrame, DropFrame, TakeBuffer, AddThrows,
             WriterWrite, WriterReturn, WriterEnd, StopRecording, CompleteAdding, JoinWriter, Cleanup,
             JoinTimesOut, StopAt, vars
  <1>3. TypeOK /\ QueueBounded => StepsLeft <= 3 * Capacity + 3
    <2> SUFFICES ASSUME TypeOK, QueueBounded PROVE StepsLeft <= 3 * Capacity + 3
      OBVIOUS
    <2>1. Len(queue) \in Nat /\ Len(queue) <= Capacity
      BY DEF TypeOK, QueueBounded
    <2>2. writer.pc \in {"wait", "write", "return", "ended", "failed"}
      BY DEF TypeOK
    <2>3. StepsLeft \in {3 * Len(queue), 3 * Len(queue) + 1, 3 * Len(queue) + 2, 3 * Len(queue) + 3}
      BY <2>1, <2>2 DEF StepsLeft
    <2> QED
      BY <1>c, <2>1, <2>3
  <1>4. TypeOK /\ [Next]_vars
          => [AddingCompleted => UNCHANGED <<queue, writer>> \/ StepsLeft' < StepsLeft]_vars
    <2> SUFFICES ASSUME TypeOK, [Next]_vars, AddingCompleted
                 PROVE  UNCHANGED <<queue, writer>> \/ StepsLeft' < StepsLeft
      OBVIOUS
    <2>0. Len(queue) \in Nat
      BY DEF TypeOK
    <2>1. CASE EmuStep
      BY <2>1 DEF EmuStep, QueueVideoFrame, DropFrame, TakeBuffer, AddFrame, AddThrows,
                  IsRecording, AddingCompleted
    <2>2. CASE WriterTake
      <3>1. /\ writer.pc = "wait" /\ writer'.pc \in {"write", "failed"}
            /\ Len(queue') = Len(queue) - 1 /\ Len(queue') \in Nat
        BY <2>2 DEF WriterTake, TypeOK
      <3>2. StepsLeft = 3 * Len(queue) + 1 /\ StepsLeft' <= 3 * Len(queue') + 3
        BY <3>1 DEF StepsLeft
      <3>3. StepsLeft' \in {3 * Len(queue'), 3 * Len(queue') + 3}
        BY <3>1 DEF StepsLeft
      <3> QED
        BY <2>0, <3>1, <3>2, <3>3
    <2>3. CASE WriterWrite
      <3>1. writer.pc = "write" /\ writer'.pc \in {"return", "failed"} /\ queue' = queue
        BY <2>3 DEF WriterWrite, TypeOK
      <3>2. StepsLeft = 3 * Len(queue) + 3 /\ StepsLeft' \in {3 * Len(queue), 3 * Len(queue) + 2}
        BY <2>0, <3>1 DEF StepsLeft
      <3> QED
        BY <2>0, <3>2
    <2>4. CASE WriterReturn
      <3>1. writer.pc = "return" /\ writer'.pc \in {"wait", "ended"} /\ queue' = queue
        BY <2>4 DEF WriterReturn, TypeOK
      <3>2. StepsLeft = 3 * Len(queue) + 2 /\ StepsLeft' \in {3 * Len(queue), 3 * Len(queue) + 1}
        BY <2>0, <3>1 DEF StepsLeft
      <3> QED
        BY <2>0, <3>2
    <2>5. CASE WriterEnd
      <3>1. writer.pc = "wait" /\ writer'.pc = "ended" /\ queue' = queue
        BY <2>5 DEF WriterEnd, TypeOK
      <3>2. StepsLeft = 3 * Len(queue) + 1 /\ StepsLeft' = 3 * Len(queue)
        BY <2>0, <3>1 DEF StepsLeft
      <3> QED
        BY <2>0, <3>2
    <2>6. CASE StopRecording \/ StopStep \/ JoinTimesOut
      BY <2>6 DEF StopRecording, StopStep, CompleteAdding, JoinWriter, Cleanup, JoinTimesOut, StopAt
    <2>7. CASE UNCHANGED vars
      BY <2>7 DEF vars
    <2> QED
      BY <2>1, <2>2, <2>3, <2>4, <2>5, <2>6, <2>7 DEF Next, WriterStep
  <1> QED
    BY <1>1, <1>2, <1>3, <1>4, TapTypeCorrect, PTL DEF Spec, DrainsOn

==============================================================================
