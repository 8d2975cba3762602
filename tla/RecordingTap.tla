---------------------------- MODULE RecordingTap ----------------------------
(***************************************************************************)
(* The frame tap of one recording (Services/RecordingService.cs): how a    *)
(* finished video frame gets from the emulation thread to the raw file.    *)
(*                                                                         *)
(* Three threads share a pool of buffers and a bounded queue.  The         *)
(* emulation thread (QueueVideoFrame, inside the core's video callback)    *)
(* takes a buffer, fills it and queues it, and drops the frame rather than *)
(* wait.  The writer thread appends queued buffers to the raw file and     *)
(* returns them to the pool.  The presentation thread stops the recording  *)
(* and starts the encode, which cleans up when it ends.                    *)
(*                                                                         *)
(* A frame is its number in the order the core finished it.                *)
(***************************************************************************)
EXTENDS Naturals, Sequences, FiniteSets

CONSTANTS
    Buffers,     \* the FramePoolSize buffers of the pool
    NoBuffer,
    MaxFrames,   \* bound on the frames offered to the tap
    SlowDisk     \* may a write take longer than the 5 s Stop waits for it?

ASSUME BuffersAssumption == IsFiniteSet(Buffers) /\ NoBuffer \notin Buffers
ASSUME TapBounds == MaxFrames \in Nat /\ SlowDisk \in BOOLEAN

VARIABLES
    frames,    \* frames offered while recording
    dropped,   \* _framesDropped
    emu,       \* the emulation thread in QueueVideoFrame
    pool,      \* _framePool
    queue,     \* _videoQueue
    content,   \* the frame each buffer holds
    writer,    \* VideoWriterLoop
    raw,       \* the frames in the raw video file
    stop       \* Stop, then the encode task

vars == <<frames, dropped, emu, pool, queue, content, writer, raw, stop>>

-----------------------------------------------------------------------------
FramePoolSize == Cardinality(Buffers)

(* The queue is bounded by the same number.                                *)
Capacity == FramePoolSize

StopPcs == {"recording", "stopping", "joining", "encoding", "cleaned"}

TypeOK ==
    /\ frames \in Nat /\ dropped \in Nat
    /\ emu \in [pc : {"idle", "take", "add", "threw"}, buf : Buffers \cup {NoBuffer}]
    /\ emu.pc = "add" => emu.buf \in Buffers
    /\ pool \subseteq Buffers
    /\ queue \in Seq(Buffers)
    /\ content \in [Buffers -> Nat]
    /\ writer \in [pc : {"wait", "write", "return", "ended", "failed"},
                   buf : Buffers \cup {NoBuffer}]
    /\ writer.pc \in {"write", "return", "failed"} => writer.buf \in Buffers
    /\ raw \in Seq(Nat)
    /\ stop \in [pc : StopPcs, late : BOOLEAN]

(* What Start leaves: two empty collections, an empty file, two threads.   *)
Init ==
    /\ frames = 0 /\ dropped = 0
    /\ emu = [pc |-> "idle", buf |-> NoBuffer]
    /\ pool = Buffers
    /\ queue = <<>>
    /\ content = [b \in Buffers |-> 0]
    /\ writer = [pc |-> "wait", buf |-> NoBuffer]
    /\ raw = <<>>
    /\ stop = [pc |-> "recording", late |-> FALSE]

-----------------------------------------------------------------------------
MutAddingCompleted == stop.pc = "cleaned"

IsRecording     == stop.pc = "recording"
AddingCompleted == stop.pc \notin {"recording", "stopping"}
StreamOpen      == stop.pc \in {"recording", "stopping", "joining"}
Disposed        == stop.pc = "cleaned"

(* The emulation thread.                                                   *)
QueueVideoFrame ==
    /\ emu.pc = "idle" /\ IsRecording /\ frames < MaxFrames
    /\ frames' = frames + 1
    /\ emu' = [emu EXCEPT !.pc = "take"]
    /\ UNCHANGED <<dropped, pool, queue, content, writer, raw, stop>>

(* The frame has another size than the recording, or no buffer is free.    *)
DropFrame ==
    /\ emu.pc = "take"
    /\ dropped' = dropped + 1
    /\ emu' = [emu EXCEPT !.pc = "idle"]
    /\ UNCHANGED <<frames, pool, queue, content, writer, raw, stop>>

MutTakeBuffer ==
    /\ emu.pc = "take"
    /\ \E b \in pool :
          /\ pool' = pool \ {b}
          /\ content' = [content EXCEPT ![b] = frames]
          /\ emu' = [emu EXCEPT !.pc = "add"]
    /\ UNCHANGED <<frames, dropped, queue, writer, raw, stop>>

TakeBuffer ==
    /\ emu.pc = "take"
    /\ \E b \in pool :
          /\ pool' = pool \ {b}
          /\ content' = [content EXCEPT ![b] = frames]
          /\ emu' = [pc |-> "add", buf |-> b]
    /\ UNCHANGED <<frames, dropped, queue, writer, raw, stop>>

MutAddFrame ==
    /\ emu.pc = "add" /\ ~AddingCompleted
    /\ queue' = <<emu.buf>> \o queue
    /\ emu' = [pc |-> "idle", buf |-> NoBuffer]
    /\ UNCHANGED <<frames, dropped, pool, content, writer, raw, stop>>

AddFrame ==
    LET full == Len(queue) >= Capacity IN
    /\ emu.pc = "add" /\ ~AddingCompleted
    /\ queue'   = IF full THEN queue ELSE Append(queue, emu.buf)
    /\ pool'    = IF full THEN pool \cup {emu.buf} ELSE pool
    /\ dropped' = IF full THEN dropped + 1 ELSE dropped
    /\ emu' = [pc |-> "idle", buf |-> NoBuffer]
    /\ UNCHANGED <<frames, content, writer, raw, stop>>

(* TryAdd on a completed or disposed collection throws, and nothing        *)
(* between here and the core's native callback catches it.                 *)
AddThrows ==
    /\ emu.pc = "add" /\ AddingCompleted
    /\ emu' = [emu EXCEPT !.pc = "threw"]
    /\ UNCHANGED <<frames, dropped, pool, queue, content, writer, raw, stop>>

-----------------------------------------------------------------------------
(* The writer thread.                                                      *)
MutWriterTake ==
    /\ writer.pc = "wait" /\ ~Disposed /\ queue # <<>>
    /\ writer' = [pc |-> "write", buf |-> Head(queue)]
    /\ queue' = Tail(queue)
    /\ pool' = pool \cup {Head(queue)}
    /\ UNCHANGED <<frames, dropped, emu, content, raw, stop>>

(* A stream that Stop closed meanwhile (_videoTemp is null) fails the      *)
(* write.                                                                  *)
WriterTake ==
    /\ writer.pc = "wait" /\ ~Disposed /\ queue # <<>>
    /\ writer' = [pc |-> IF StreamOpen THEN "write" ELSE "failed", buf |-> Head(queue)]
    /\ queue' = Tail(queue)
    /\ UNCHANGED <<frames, dropped, emu, pool, content, raw, stop>>

(* A write that Stop did not wait for may still land, or fail with the     *)
(* stream closed under it; a full disk fails it any time.                  *)
WriterWrite ==
    /\ writer.pc = "write"
    /\ \/ /\ raw' = Append(raw, content[writer.buf])
          /\ writer' = [writer EXCEPT !.pc = "return"]
       \/ /\ writer' = [writer EXCEPT !.pc = "failed"]
          /\ UNCHANGED raw
    /\ UNCHANGED <<frames, dropped, emu, pool, queue, content, stop>>

MutWriterReturn ==
    /\ writer.pc = "return"
    /\ writer' = [pc |-> "wait", buf |-> NoBuffer]
    /\ UNCHANGED <<frames, dropped, emu, pool, queue, content, raw, stop>>

(* After Cleanup there is no pool to return to: the loop ends in the       *)
(* exception.                                                              *)
WriterReturn ==
    /\ writer.pc = "return"
    /\ \/ /\ ~Disposed
          /\ pool' = pool \cup {writer.buf}
          /\ writer' = [pc |-> "wait", buf |-> NoBuffer]
       \/ /\ Disposed
          /\ writer' = [writer EXCEPT !.pc = "ended"]
          /\ UNCHANGED pool
    /\ UNCHANGED <<frames, dropped, emu, queue, content, raw, stop>>

MutWriterEnd ==
    /\ writer.pc = "wait" /\ AddingCompleted
    /\ writer' = [writer EXCEPT !.pc = "ended"]
    /\ UNCHANGED <<frames, dropped, emu, pool, queue, content, raw, stop>>

WriterEnd ==
    /\ writer.pc = "wait"
    /\ Disposed \/ (AddingCompleted /\ queue = <<>>)
    /\ writer' = [writer EXCEPT !.pc = "ended"]
    /\ UNCHANGED <<frames, dropped, emu, pool, queue, content, raw, stop>>

-----------------------------------------------------------------------------
(* The presentation thread, then the encode task.                          *)
StopAt(from, to) ==
    /\ stop.pc = from /\ stop' = [stop EXCEPT !.pc = to]
    /\ UNCHANGED <<frames, dropped, emu, pool, queue, content, writer, raw>>

WriterGone == writer.pc \in {"ended", "failed"}

StopRecording  == StopAt("recording", "stopping")
CompleteAdding == StopAt("stopping", "joining")
JoinWriter     == WriterGone /\ StopAt("joining", "encoding")

(* Join(5000) gives up; the stream is closed under the writer.             *)
JoinTimesOut ==
    /\ SlowDisk /\ stop.pc = "joining" /\ ~WriterGone
    /\ stop' = [pc |-> "encoding", late |-> TRUE]
    /\ UNCHANGED <<frames, dropped, emu, pool, queue, content, writer, raw>>

Cleanup == StopAt("encoding", "cleaned")

EmuStep    == QueueVideoFrame \/ DropFrame \/ TakeBuffer \/ AddFrame \/ AddThrows
WriterStep == WriterTake \/ WriterWrite \/ WriterReturn \/ WriterEnd
StopStep   == CompleteAdding \/ JoinWriter \/ Cleanup

Next == EmuStep \/ WriterStep \/ StopRecording \/ StopStep \/ JoinTimesOut

Spec == Init /\ [][Next]_vars

(* Threads that can run do run.  Nobody is obliged to stop recording, and  *)
(* Stop must not need its timeout.                                         *)
FairSpec == Spec /\ WF_vars(WriterStep) /\ WF_vars(StopStep)

-----------------------------------------------------------------------------
Queued == {queue[i] : i \in DOMAIN queue}
Held(t) == {t.buf} \ {NoBuffer}

(* Every buffer is in exactly one place, except that a writer that ended   *)
(* early keeps its last one: no buffer leaks, and none is filled while it  *)
(* is written or queued.                                                   *)
BuffersConserved ==
    /\ pool \cup Queued \cup Held(emu) \cup Held(writer) = Buffers
    /\ pool \cap Queued = {} /\ pool \cap Held(emu) = {} /\ pool \cap Held(writer) = {}
    /\ Queued \cap Held(emu) = {} /\ Queued \cap Held(writer) = {}
    /\ Held(emu) \cap Held(writer) = {}
    /\ \A i, j \in DOMAIN queue : queue[i] = queue[j] => i = j

(* A frame that got a buffer is never dropped for want of room in the      *)
(* queue, which has as many places as the pool has buffers.                *)
RoomForEveryFrame == emu.pc = "add" => Len(queue) < Capacity

(* The pool, the queue and the two threads between them neither lose a     *)
(* buffer nor ever lack a place for one that holds a frame.                *)
BuffersSafe == BuffersConserved /\ RoomForEveryFrame

(* The raw file receives the frames in the order the core finished them,   *)
(* each once, with the picture it was queued with: the buffers on their    *)
(* way are in that order behind the file.                                  *)
FramesInOrder ==
    LET held == writer.pc \in {"write", "failed"}
        W    == content[writer.buf]
        Q(i) == content[queue[i]]
    IN  /\ \A i, j \in DOMAIN raw : i < j => raw[i] < raw[j]
        /\ \A i, j \in DOMAIN queue : i < j => Q(i) < Q(j)
        /\ \A i \in DOMAIN raw : /\ held => raw[i] < W
                                 /\ \A j \in DOMAIN queue : raw[i] < Q(j)
        /\ \A j \in DOMAIN queue : /\ held => W < Q(j)
                                   /\ emu.pc = "add" => Q(j) < content[emu.buf]

(* The tally at Stop ("frames=.. dropped=..") accounts for every frame     *)
(* offered: it is in the file, in a buffer on its way, or counted dropped. *)
FramesAccounted ==
    frames = Len(raw) + dropped + Len(queue)
             + (IF emu.pc = "idle" THEN 0 ELSE 1)
             + (IF writer.pc \in {"write", "failed"} THEN 1 ELSE 0)

(* Unless the disk failed or was slower than Stop waits for it, the encode *)
(* reads every frame that was queued.                                      *)
EncodeSeesAll ==
    stop.pc = "encoding" /\ ~stop.late /\ writer.pc # "failed" =>
        queue = <<>> /\ writer.pc = "ended"

(* No frame is lost on its way to the encode without being counted, and    *)
(* none arrives twice, late or with another's picture.                     *)
FramesKept == FramesInOrder /\ FramesAccounted /\ EncodeSeesAll

(* The recording implements a log of the frames offered: it drops only the *)
(* frame in hand, logs what it kept in order, and unless the disk failed   *)
(* or Stop gave up waiting the video is made from all that was kept.       *)
InHand == IF emu.pc = "idle" THEN 0 ELSE frames
OnTheWay == {content[b] : b \in Queued}
            \cup (IF writer.pc \in {"write", "failed"} THEN {content[writer.buf]} ELSE {})
Phase == CASE stop.pc = "recording" -> "open"
           [] stop.pc = "stopping"  -> "closing"
           [] stop.pc = "joining"   -> "closed"
           [] OTHER -> IF stop.late \/ writer.pc = "failed" THEN "part" ELSE "whole"
Log == INSTANCE FrameLog
           WITH offered <- frames, hand <- InHand, kept <- OnTheWay, log <- raw, phase <- Phase
LogKept == Log!Spec

(* Stop ends without its timeout: the writer drains the queue and ends.    *)
StopEnds == stop.pc = "stopping" ~> stop.pc = "encoding"

(* Stopping a recording does not disturb the game: "never blocks; drops    *)
(* when behind".                                                           *)
EmulationGoesOn == emu.pc # "threw"
==============================================================================
