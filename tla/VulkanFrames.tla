----------------------------- MODULE VulkanFrames -----------------------------
(***************************************************************************)
(* Frames of a Vulkan core on their way to the window (wl_hwvk.c).         *)
(*                                                                         *)
(* The emulation thread copies each frame into one of a few slots on the   *)
(* Vulkan queue; the presentation thread draws the newest slot on the GL   *)
(* queue.  Slot states are exchanged under a lock, the images themselves   *)
(* are handed over on the GPU by two binary semaphores per slot: "ready"   *)
(* (Vulkan wrote it) and "done" (GL no longer reads it).  Both queues run  *)
(* on their own, in order, some time after a command was issued; GL        *)
(* commands run only once flushed.  The window's buffer swap returns when  *)
(* the compositor pleases, or never.                                       *)
(***************************************************************************)
EXTENDS Naturals, Sequences, FiniteSets

CONSTANTS
    Slots,      \* WLVK_SLOTS of them, numbered
    Sizes,      \* frame sizes the core may hand over
    MaxFrames,  \* bound: frames handed over
    MaxBehind,  \* bound: GL commands a returning swap leaves unexecuted
    None        \* no slot, no size

ASSUME SlotsAssumption == Slots \subseteq Nat
ASSUME NoneAssumption == None \notin Slots \cup Sizes
ASSUME BoundsAssumption == MaxFrames \in Nat /\ MaxBehind \in Nat

EmuPcs == {"idle", "fence", "sync", "after", "read", "join", "gone"}
WinPcs == {"loop", "stale", "swap", "retire", "gone"}
States == {"free", "ready", "shown", "stale"}
SyncIndices == {0, 1}

VARIABLES
    slot,      \* wlvk_slot: state, seq, size of its image, gen, donePending, fencePending
    seq,       \* wlvk.seq: number of the newest slot
    shown,     \* wlvk.shown
    syncIndex, syncPending,
    vkQueue,   \* submitted Vulkan work not yet executed
    glQueue,   \* issued GL commands not yet executed
    flushed,   \* how many of them the driver has submitted
    ready, done,   \* the semaphores' payloads
    glGen,     \* generation the GL texture of a slot was imported at
    emu,       \* emulation thread: pc, slot in hand, frame size
    win,       \* presentation thread: pc, stale slots, fresh or not, slot to retire, failed
    gpuPresent, \* _vkGpuPresent
    glOk,      \* whether GL can import (gl_check)
    closed, running, alive

slotVars == <<slot, seq, shown>>
gpuVars == <<vkQueue, glQueue, flushed, ready, done>>
syncVars == <<syncIndex, syncPending>>
lifeVars == <<closed, running, alive, glOk>>
vars == <<slotVars, gpuVars, syncVars, glGen, emu, win, gpuPresent, lifeVars>>

Copy(s, waits) == [op |-> "copy", slot |-> s, waits |-> waits]
Sync(i) == [op |-> "sync", index |-> i]
Read == [op |-> "read"]
VkOps == {Copy(s, b) : s \in Slots, b \in BOOLEAN}
           \cup {Sync(i) : i \in SyncIndices} \cup {Read}
Wait(s) == [op |-> "wait", slot |-> s]
Draw(s) == [op |-> "draw", slot |-> s]
Signal(s) == [op |-> "signal", slot |-> s]
GlOps == [op : {"wait", "draw", "signal"}, slot : Slots]

Queued(q, ops) == \E k \in DOMAIN q : q[k] \in ops
Copies(s) == {Copy(s, TRUE), Copy(s, FALSE)}
Free == {s \in Slots : slot[s].state = "free"}

EmptySlot == [state |-> "free", seq |-> 0, size |-> None, gen |-> 0,
              donePending |-> FALSE, fencePending |-> FALSE]

Init ==
    /\ slot = [s \in Slots |-> EmptySlot]
    /\ seq = 0
    /\ shown = None
    /\ syncIndex = 0
    /\ syncPending = [i \in SyncIndices |-> FALSE]
    /\ vkQueue = <<>> /\ glQueue = <<>> /\ flushed = 0
    /\ ready = [s \in Slots |-> FALSE]
    /\ done = [s \in Slots |-> FALSE]
    /\ glGen = [s \in Slots |-> 0]
    /\ emu = [pc |-> "idle", slot |-> None, size |-> None]
    /\ win = [pc |-> "loop", stale |-> {}, fresh |-> FALSE, retired |-> None, failed |-> FALSE]
    /\ gpuPresent = TRUE
    /\ glOk \in BOOLEAN
    /\ closed = FALSE /\ running = TRUE /\ alive = TRUE

-----------------------------------------------------------------------------
(* Emulation thread: one video callback of the core.                       *)

\* The free slot written longest ago is taken, under the lock.
FramePick(z, s) ==
    /\ emu.pc = "idle" /\ running /\ gpuPresent /\ seq < MaxFrames
    /\ s \in Free
    /\ \A t \in Free : \/ slot[s].seq < slot[t].seq
                      \/ (slot[s].seq = slot[t].seq /\ s <= t)
    /\ emu' = [pc |-> "fence", slot |-> s, size |-> z]
    /\ UNCHANGED <<slotVars, gpuVars, syncVars, glGen, win, gpuPresent, lifeVars>>

\* No free slot, or frames are not drawn from the GPU (any more).
FrameDrop ==
    /\ emu.pc = "idle" /\ running
    /\ ~gpuPresent \/ Free = {}
    /\ emu' = [emu EXCEPT !.pc = "after"]
    /\ UNCHANGED <<slotVars, gpuVars, syncVars, glGen, win, gpuPresent, lifeVars>>

\* The slot's last copy has run (vkWaitForFences).
FenceSignalled(s) == slot[s].fencePending => ~Queued(vkQueue, Copies(s))

\* An image of another size is destroyed; making the new one fails.
FrameNoImage ==
    LET s == emu.slot IN
    /\ emu.pc = "fence" /\ FenceSignalled(s)
    /\ slot[s].size # emu.size
    /\ slot' = [slot EXCEPT ![s].size = None, ![s].fencePending = FALSE]
    /\ emu' = [emu EXCEPT !.pc = "after"]
    /\ UNCHANGED <<seq, shown, gpuVars, syncVars, glGen, win, gpuPresent, lifeVars>>

MutFrameSubmit ==
    LET s == emu.slot IN
    /\ emu.pc = "fence" /\ FenceSignalled(s)
    /\ vkQueue' = Append(vkQueue, Copy(s, FALSE))
    /\ slot' = [slot EXCEPT ![s].size = emu.size,
                            ![s].gen = IF slot[s].size = emu.size THEN @ ELSE @ + 1,
                            ![s].fencePending = TRUE, ![s].donePending = FALSE]
    /\ emu' = [emu EXCEPT !.pc = "sync"]
    /\ UNCHANGED <<seq, shown, glQueue, flushed, ready, done, syncVars, glGen, win, gpuPresent, lifeVars>>

\* The copy into the slot is submitted; it waits for "done" if GL gave it.
FrameSubmit ==
    LET s == emu.slot IN
    /\ emu.pc = "fence" /\ FenceSignalled(s)
    /\ vkQueue' = Append(vkQueue, Copy(s, slot[s].donePending))
    /\ slot' = [slot EXCEPT ![s].size = emu.size,
                            ![s].gen = IF slot[s].size = emu.size THEN @ ELSE @ + 1,
                            ![s].fencePending = TRUE, ![s].donePending = FALSE]
    /\ emu' = [emu EXCEPT !.pc = "sync"]
    /\ UNCHANGED <<seq, shown, glQueue, flushed, ready, done, syncVars, glGen, win, gpuPresent, lifeVars>>

MutOutdated(s) == slot[s]

\* A slot that is replaced before it was shown goes stale.
Outdated(s) == IF slot[s].state = "ready" THEN [slot[s] EXCEPT !.state = "stale"] ELSE slot[s]

MutFramePublish ==
    /\ emu.pc = "sync"
    /\ syncPending[syncIndex] => ~Queued(vkQueue, {Sync(syncIndex)})
    /\ vkQueue' = Append(vkQueue, Sync(syncIndex))
    /\ syncPending' = [syncPending EXCEPT ![syncIndex] = TRUE]
    /\ syncIndex' = syncIndex + 1
    /\ seq' = seq + 1
    /\ slot' = [s \in Slots |-> IF s = emu.slot
                                THEN [slot[s] EXCEPT !.state = "ready", !.seq = seq + 1]
                                ELSE Outdated(s)]
    /\ emu' = [emu EXCEPT !.pc = "after"]
    /\ UNCHANGED <<shown, glQueue, flushed, ready, done, glGen, win, gpuPresent, lifeVars>>

\* The sync index's fence is waited for and submitted again; then the slot is published.
FramePublish ==
    /\ emu.pc = "sync"
    /\ syncPending[syncIndex] => ~Queued(vkQueue, {Sync(syncIndex)})
    /\ vkQueue' = Append(vkQueue, Sync(syncIndex))
    /\ syncPending' = [syncPending EXCEPT ![syncIndex] = TRUE]
    /\ syncIndex' = 1 - syncIndex
    /\ seq' = seq + 1
    /\ slot' = [s \in Slots |-> IF s = emu.slot
                                THEN [slot[s] EXCEPT !.state = "ready", !.seq = seq + 1]
                                ELSE Outdated(s)]
    /\ emu' = [emu EXCEPT !.pc = "after"]
    /\ UNCHANGED <<shown, glQueue, flushed, ready, done, glGen, win, gpuPresent, lifeVars>>

\* The frame is also read back to the CPU when the recorder is on, and always once
\* the window does not draw from the GPU.
ReadBack ==
    /\ emu.pc = "after"
    /\ vkQueue' = Append(vkQueue, Read)
    /\ emu' = [emu EXCEPT !.pc = "read"]
    /\ UNCHANGED <<slotVars, glQueue, flushed, ready, done, syncVars, glGen, win, gpuPresent, lifeVars>>

ReadBackDone ==
    /\ emu.pc = "read" /\ ~Queued(vkQueue, {Read})
    /\ emu' = [emu EXCEPT !.pc = "idle"]
    /\ UNCHANGED <<slotVars, gpuVars, syncVars, glGen, win, gpuPresent, lifeVars>>

NoReadBack ==
    /\ emu.pc = "after" /\ gpuPresent
    /\ emu' = [emu EXCEPT !.pc = "idle"]
    /\ UNCHANGED <<slotVars, gpuVars, syncVars, glGen, win, gpuPresent, lifeVars>>

\* The end of the emulation loop: the user quit, or the window is gone.
EmuStop ==
    /\ emu.pc = "idle"
    /\ running' = FALSE
    /\ emu' = [emu EXCEPT !.pc = "join"]
    /\ UNCHANGED <<slotVars, gpuVars, syncVars, glGen, win, gpuPresent, closed, alive, glOk>>

MutEmuDestroy ==
    /\ emu.pc = "join" /\ vkQueue = <<>>
    /\ alive' = FALSE
    /\ slot' = [s \in Slots |-> [slot[s] EXCEPT !.size = None]]
    /\ emu' = [emu EXCEPT !.pc = "gone"]
    /\ UNCHANGED <<seq, shown, gpuVars, syncVars, glGen, win, gpuPresent, closed, running, glOk>>

\* presentThread.Join, then wlvk_destroy, which first lets the queue run empty.
EmuDestroy ==
    /\ emu.pc = "join" /\ win.pc = "gone" /\ vkQueue = <<>>
    /\ alive' = FALSE
    /\ slot' = [s \in Slots |-> [slot[s] EXCEPT !.size = None]]
    /\ emu' = [emu EXCEPT !.pc = "gone"]
    /\ UNCHANGED <<seq, shown, gpuVars, syncVars, glGen, win, gpuPresent, closed, running, glOk>>

-----------------------------------------------------------------------------
(* Presentation thread: one wlp_present_vk.                                *)

\* GL cannot take frames from Vulkan: the emulation thread reads them back from now on.
PresentCannot ==
    /\ win.pc = "loop" /\ running /\ gpuPresent /\ ~glOk
    /\ gpuPresent' = FALSE
    /\ UNCHANGED <<slotVars, gpuVars, syncVars, glGen, emu, win, lifeVars>>

\* Under the lock: which slots are stale, and the newest ready one becomes the shown one.
PresentPick ==
    LET fresh == {s \in Slots : /\ slot[s].state = "ready"
                                /\ \A t \in Slots : slot[t].state = "ready" => slot[t].seq <= slot[s].seq}
    IN
    /\ win.pc = "loop" /\ running /\ gpuPresent /\ glOk
    /\ shown # None \/ fresh # {}
    /\ Len(glQueue) <= MaxBehind
    /\ win' = [pc |-> "stale", stale |-> {s \in Slots : slot[s].state = "stale"}, fresh |-> fresh # {},
               retired |-> IF fresh = {} THEN None ELSE shown, failed |-> FALSE]
    /\ IF fresh = {} THEN UNCHANGED <<slot, shown>>
       ELSE \E s \in fresh : /\ slot' = [slot EXCEPT ![s].state = "shown"]
                             /\ shown' = s
    /\ UNCHANGED <<seq, gpuVars, syncVars, glGen, emu, gpuPresent, lifeVars>>

\* A slot GL gives back: its "done" is signalled, then it is free for the next write.
GiveBack(s) == slot' = [slot EXCEPT ![s].donePending = TRUE, ![s].state = "free"]

MutPresentStale(s) ==
    /\ win.pc = "stale" /\ s \in win.stale
    /\ glGen' = [glGen EXCEPT ![s] = slot[s].gen]
    /\ slot' = [slot EXCEPT ![s].state = "free"]
    /\ win' = [win EXCEPT !.stale = @ \ {s}]
    /\ UNCHANGED <<seq, shown, vkQueue, glQueue, flushed, ready, done, syncVars, emu, gpuPresent, lifeVars>>

\* A slot that was never shown still has its "ready" taken and its "done" given.
PresentStale(s) ==
    /\ win.pc = "stale" /\ s \in win.stale
    /\ glGen' = [glGen EXCEPT ![s] = slot[s].gen]
    /\ glQueue' = glQueue \o <<Wait(s), Signal(s)>>
    /\ GiveBack(s)
    /\ win' = [win EXCEPT !.stale = @ \ {s}]
    /\ UNCHANGED <<seq, shown, vkQueue, flushed, ready, done, syncVars, emu, gpuPresent, lifeVars>>

MutUnflushedDraw ==
    /\ win.pc = "stale" /\ win.stale = {} /\ ~closed
    /\ glGen' = [glGen EXCEPT ![shown] = slot[shown].gen]
    /\ glQueue' = glQueue \o (IF win.fresh THEN <<Wait(shown)>> ELSE <<>>) \o <<Draw(shown)>>
    /\ win' = [win EXCEPT !.pc = "swap"]
    /\ UNCHANGED <<slotVars, vkQueue, flushed, ready, done, syncVars, emu, gpuPresent, lifeVars>>

\* The shown slot is drawn and swapped; the swap flushes.
PresentDraw ==
    /\ win.pc = "stale" /\ win.stale = {} /\ ~closed
    /\ glGen' = [glGen EXCEPT ![shown] = slot[shown].gen]
    /\ glQueue' = glQueue \o (IF win.fresh THEN <<Wait(shown)>> ELSE <<>>) \o <<Draw(shown)>>
    /\ flushed' = Len(glQueue')
    /\ win' = [win EXCEPT !.pc = "swap"]
    /\ UNCHANGED <<slotVars, vkQueue, ready, done, syncVars, emu, gpuPresent, lifeVars>>

\* The window was closed: "ready" is taken, nothing is drawn, the present fails.
PresentClosed ==
    /\ win.pc = "stale" /\ win.stale = {} /\ closed
    /\ glGen' = [glGen EXCEPT ![shown] = slot[shown].gen]
    /\ glQueue' = glQueue \o (IF win.fresh THEN <<Wait(shown)>> ELSE <<>>)
    /\ win' = [win EXCEPT !.pc = "retire", !.failed = TRUE]
    /\ UNCHANGED <<slotVars, vkQueue, flushed, ready, done, syncVars, emu, gpuPresent, lifeVars>>

SwapReturns ==
    /\ win.pc = "swap"
    /\ win' = [win EXCEPT !.pc = "retire"]
    /\ UNCHANGED <<slotVars, gpuVars, syncVars, glGen, emu, gpuPresent, lifeVars>>

\* The slot shown until now is given back.
PresentRetire ==
    /\ win.pc = "retire"
    /\ IF win.retired = None THEN UNCHANGED <<glQueue, slot>>
       ELSE glQueue' = Append(glQueue, Signal(win.retired)) /\ GiveBack(win.retired)
    /\ gpuPresent' = (gpuPresent /\ ~win.failed)
    /\ win' = [win EXCEPT !.pc = "loop", !.fresh = FALSE, !.retired = None]
    /\ UNCHANGED <<seq, shown, vkQueue, flushed, ready, done, syncVars, glGen, emu, lifeVars>>

\* The compositor asks the window to close; seen by the event pump inside a present too.
Close ==
    /\ win.pc \in {"loop", "stale"} /\ ~closed
    /\ closed' = TRUE
    /\ UNCHANGED <<slotVars, gpuVars, syncVars, glGen, emu, win, gpuPresent, running, alive, glOk>>

\* The loop ends: GL objects are released, the context goes, which flushes it.
WindowEnd ==
    /\ win.pc = "loop" /\ (closed \/ ~running)
    /\ running' = FALSE
    /\ glGen' = [s \in Slots |-> IF glOk THEN 0 ELSE glGen[s]]
    /\ flushed' = Len(glQueue)
    /\ win' = [win EXCEPT !.pc = "gone"]
    /\ UNCHANGED <<slotVars, vkQueue, glQueue, ready, done, syncVars, emu, gpuPresent, closed, alive, glOk>>

-----------------------------------------------------------------------------
(* The two queues of the GPU.                                              *)

VkExecute ==
    /\ vkQueue # <<>>
    /\ LET c == Head(vkQueue) IN
       IF c.op = "copy"
       THEN /\ c.waits => done[c.slot]
            /\ done' = [done EXCEPT ![c.slot] = IF c.waits THEN FALSE ELSE @]
            /\ ready' = [ready EXCEPT ![c.slot] = TRUE]
       ELSE UNCHANGED <<ready, done>>
    /\ vkQueue' = Tail(vkQueue)
    /\ UNCHANGED <<slotVars, glQueue, flushed, syncVars, glGen, emu, win, gpuPresent, lifeVars>>

GlExecute ==
    /\ flushed > 0
    /\ LET c == Head(glQueue) IN
       /\ c.op = "wait" => ready[c.slot]
       /\ ready' = [ready EXCEPT ![c.slot] = IF c.op = "wait" THEN FALSE ELSE @]
       /\ done' = [done EXCEPT ![c.slot] = IF c.op = "signal" THEN TRUE ELSE @]
    /\ glQueue' = Tail(glQueue)
    /\ flushed' = flushed - 1
    /\ UNCHANGED <<slotVars, vkQueue, syncVars, glGen, emu, win, gpuPresent, lifeVars>>

Over == emu.pc = "gone" /\ win.pc = "gone" /\ UNCHANGED vars

EmuNext ==
    \/ \E z \in Sizes, s \in Slots : FramePick(z, s)
    \/ FrameDrop \/ FrameNoImage \/ FrameSubmit \/ FramePublish
    \/ ReadBack \/ ReadBackDone \/ NoReadBack
    \/ EmuStop \/ EmuDestroy

WinNext ==
    \/ PresentCannot \/ PresentPick
    \/ \E s \in Slots : PresentStale(s)
    \/ PresentDraw \/ PresentClosed \/ PresentRetire \/ WindowEnd

Next == EmuNext \/ WinNext \/ SwapReturns \/ Close \/ VkExecute \/ GlExecute \/ Over

\* The threads and the GPU run on; the compositor may hold a swap for ever, and
\* nothing obliges the core to hand over frames or the user to quit.
Spec ==
    /\ Init /\ [][Next]_vars
    /\ WF_vars(FrameNoImage \/ FrameSubmit \/ FramePublish \/ ReadBack \/ ReadBackDone \/ NoReadBack)
    /\ WF_vars(WinNext)
    /\ WF_vars(VkExecute) /\ WF_vars(GlExecute)

-----------------------------------------------------------------------------
(* Type invariant.                                                         *)
TypeOK ==
    /\ slot \in [Slots -> [state : States, seq : Nat, size : Sizes \cup {None}, gen : Nat,
                           donePending : BOOLEAN, fencePending : BOOLEAN]]
    /\ seq \in Nat
    /\ shown \in Slots \cup {None}
    /\ syncIndex \in SyncIndices
    /\ syncPending \in [SyncIndices -> BOOLEAN]
    /\ vkQueue \in Seq(VkOps)
    /\ glQueue \in Seq(GlOps)
    /\ flushed \in 0 .. Len(glQueue)
    /\ ready \in [Slots -> BOOLEAN] /\ done \in [Slots -> BOOLEAN]
    /\ glGen \in [Slots -> Nat]
    /\ emu \in [pc : EmuPcs, slot : Slots \cup {None}, size : Sizes \cup {None}]
    /\ emu.pc \in {"fence", "sync"} => emu.slot \in Slots /\ emu.size \in Sizes
    /\ win \in [pc : WinPcs, stale : SUBSET Slots, fresh : BOOLEAN,
                retired : Slots \cup {None}, failed : BOOLEAN]
    /\ win.pc = "stale" => shown \in Slots
    /\ gpuPresent \in BOOLEAN /\ glOk \in BOOLEAN
    /\ closed \in BOOLEAN /\ running \in BOOLEAN /\ alive \in BOOLEAN

Count(q, ops) == Cardinality({k \in DOMAIN q : q[k] \in ops})
Payload(b) == IF b THEN 1 ELSE 0

\* A slot whose image was written and whose "ready" GL has not asked for yet.
Unasked(s) ==
    \/ slot[s].state \in {"ready", "stale"}
    \/ emu.pc = "sync" /\ emu.slot = s
    \/ win.pc = "stale" /\ win.fresh /\ shown = s

\* The binary semaphores of every slot stay balanced across both threads and both
\* queues: each signal is waited for exactly once, so none is ever signalled twice
\* or waited for without a signal (the protocol wl_hwvk.c describes in its head).
SemaphoresBalanced ==
    \A s \in Slots :
        /\ Payload(ready[s]) + Count(vkQueue, Copies(s))
             = Count(glQueue, {Wait(s)}) + Payload(Unasked(s))
        /\ Payload(done[s]) + Count(glQueue, {Signal(s)})
             = Count(vkQueue, {Copy(s, TRUE)}) + Payload(slot[s].donePending)

\* An outstanding draw of what the slot held before its next "ready" is taken.
DrawOutstanding(s) ==
    \E k \in DOMAIN glQueue :
        /\ glQueue[k] = Draw(s)
        /\ \A j \in 1 .. k : glQueue[j] # Wait(s)

\* The GPU never writes a slot whose present content GL has still to draw: when a copy
\* can run, no such draw is outstanding, however late GL is (no torn or swapped frame).
NotWrittenWhileDrawn ==
    vkQueue # <<>> /\ Head(vkQueue).op = "copy" =>
        LET c == Head(vkQueue) IN
        (c.waits => done[c.slot]) => ~DrawOutstanding(c.slot)

\* GL never draws a slot before the copy into it has run: a copy still queued when a
\* draw of its slot is due is a later one, held back until GL gives the slot back.
DrawnAfterWritten ==
    flushed > 0 /\ Head(glQueue).op = "draw" =>
        LET s == Head(glQueue).slot IN
        Queued(vkQueue, Copies(s)) => ~Queued(vkQueue, {Copy(s, FALSE)}) /\ ~done[s]

\* What is drawn is the frame that was handed over, whole: neither GPU queue uses a slot
\* while the other has still to finish with it.
NoTornFrame == NotWrittenWhileDrawn /\ DrawnAfterWritten

\* The head of a queue can run: the semaphore it waits for, if any, is signalled.
VkRuns ==
    LET c == Head(vkQueue) IN
    vkQueue # <<>> /\ (c.op = "copy" => (c.waits => done[c.slot]))
GlRuns ==
    LET c == Head(glQueue) IN
    flushed > 0 /\ (c.op = "wait" => ready[c.slot])

\* However long the compositor holds a swap, the copies of the emulation thread go on:
\* the two queues never wait for each other's semaphores, nor for a "done" that was
\* issued and not flushed (wlp_present_vk gives a slot back only after the swap).
SwapHoldsNothingUp ==
    win.pc = "swap" /\ vkQueue # <<>> => VkRuns \/ GlRuns

\* When the device goes, the window is done with it: nothing imported is left.
DestroyedLast ==
    ~alive => win.pc = "gone" /\ vkQueue = <<>> /\ \A s \in Slots : glGen[s] = 0

\* The window only ever moves on to the newest frame that was handed over, although
\* slots are reused, go stale and are given back in between (wlp_present_vk).
Newest == INSTANCE LatestFrame
            WITH made <- seq, seen <- IF shown = None THEN 0 ELSE slot[shown].seq
NewestShown == Newest!Spec

\* The emulation never waits for the window: every video callback ends, even when
\* the compositor holds a buffer swap for ever (a minimised window).
EmulationNeverWaits ==
    emu.pc \in {"fence", "sync", "after", "read"} ~> emu.pc = "idle"
=============================================================================
