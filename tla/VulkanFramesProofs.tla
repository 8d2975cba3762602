-------------------------- MODULE VulkanFramesProofs --------------------------
(***************************************************************************)
(* Proofs about VulkanFrames: types, the refinement of LatestFrame, the    *)
(* hand-over of the images between the two queues (semaphores, torn frames)*)
(* and the order of destruction, for any slots, sizes and bounds.          *)
(***************************************************************************)
EXTENDS VulkanFrames, FiniteSetTheorems, TLAPS

(* The type invariant by variable.                                         *)
SlotType == [state : States, seq : Nat, size : Sizes \cup {None}, gen : Nat,
             donePending : BOOLEAN, fencePending : BOOLEAN]
EmuType == [pc : EmuPcs, slot : Slots \cup {None}, size : Sizes \cup {None}]
WinType == [pc : WinPcs, stale : SUBSET Slots, fresh : BOOLEAN,
            retired : Slots \cup {None}, failed : BOOLEAN]
SlotTyped == slot \in [Slots -> SlotType]
EmuTyped == emu \in EmuType /\ (emu.pc \in {"fence", "sync"} => emu.slot \in Slots /\ emu.size \in Sizes)
WinTyped == win \in WinType /\ shown \in Slots \cup {None} /\ (win.pc = "stale" => shown \in Slots)
VkTyped == vkQueue \in Seq(VkOps)
GlTyped == glQueue \in Seq(GlOps) /\ flushed \in 0 .. Len(glQueue)
SyncTyped == seq \in Nat /\ syncIndex \in SyncIndices /\ syncPending \in [SyncIndices -> BOOLEAN]
GpuTyped == ready \in [Slots -> BOOLEAN] /\ done \in [Slots -> BOOLEAN] /\ glGen \in [Slots -> Nat]
FlagsTyped == /\ gpuPresent \in BOOLEAN /\ glOk \in BOOLEAN
              /\ closed \in BOOLEAN /\ running \in BOOLEAN /\ alive \in BOOLEAN

LEMMA TypeParts == TypeOK <=> /\ SlotTyped /\ EmuTyped /\ WinTyped /\ VkTyped
                              /\ GlTyped /\ SyncTyped /\ GpuTyped /\ FlagsTyped
  BY DEF TypeOK, SlotTyped, EmuTyped, WinTyped, VkTyped, GlTyped, SyncTyped, GpuTyped,
         FlagsTyped, SlotType, EmuType, WinType

LEMMA EmuMoves ==
    ASSUME NEW e \in EmuType, NEW p \in EmuPcs
    PROVE  /\ [e EXCEPT !.pc = p] \in EmuType
           /\ [e EXCEPT !.pc = p].pc = p
           /\ [e EXCEPT !.pc = p].slot = e.slot
           /\ [e EXCEPT !.pc = p].size = e.size
  BY DEF EmuType

LEMMA WinMoves ==
    ASSUME NEW w \in WinType, NEW p \in WinPcs
    PROVE  /\ [w EXCEPT !.pc = p] \in WinType
           /\ [w EXCEPT !.pc = p].pc = p
           /\ [w EXCEPT !.pc = p].retired = w.retired
           /\ [w EXCEPT !.pc = p].stale = w.stale
  BY DEF WinType

LEMMA InitTyped == Init => TypeOK
<1> SUFFICES ASSUME Init PROVE TypeOK
  OBVIOUS
<1>1. SlotTyped
  BY DEF Init, SlotTyped, SlotType, EmptySlot, States
<1>2. EmuTyped
  BY DEF Init, EmuTyped, EmuType, EmuPcs
<1>3. WinTyped
  BY DEF Init, WinTyped, WinType, WinPcs
<1>4. VkTyped /\ GlTyped
  BY DEF Init, VkTyped, GlTyped
<1>5. SyncTyped /\ GpuTyped /\ FlagsTyped
  BY DEF Init, SyncTyped, GpuTyped, FlagsTyped, SyncIndices
<1> QED
  BY <1>1, <1>2, <1>3, <1>4, <1>5, TypeParts

(* The slots change under seven actions, always to slots.                  *)
LEMMA SlotStep == SlotTyped /\ EmuTyped /\ WinTyped /\ SyncTyped /\ [Next]_vars => SlotTyped'
<1> SUFFICES ASSUME SlotTyped, EmuTyped, WinTyped, SyncTyped, [Next]_vars PROVE SlotTyped'
  OBVIOUS
<1>1. CASE FrameNoImage
  <2>1. emu.slot \in Slots
    BY <1>1 DEF FrameNoImage, EmuTyped
  <2> QED
    BY <1>1, <2>1 DEF FrameNoImage, SlotTyped, SlotType
<1>2. CASE FrameSubmit
  <2>1. emu.slot \in Slots /\ emu.size \in Sizes
    BY <1>2 DEF FrameSubmit, EmuTyped
  <2>2. slot[emu.slot] \in SlotType
    BY <2>1 DEF SlotTyped
  <2>3. slot' = [slot EXCEPT ![emu.slot] =
           [slot[emu.slot] EXCEPT !.size = emu.size,
                !.gen = IF slot[emu.slot].size = emu.size THEN @ ELSE @ + 1,
                !.fencePending = TRUE, !.donePending = FALSE]]
    BY <1>2, <2>1 DEF FrameSubmit, SlotTyped
  <2>4. ASSUME NEW r \in SlotType, NEW z \in Sizes
        PROVE  [r EXCEPT !.size = z, !.gen = IF r.size = z THEN @ ELSE @ + 1,
                         !.fencePending = TRUE, !.donePending = FALSE] \in SlotType
    <3>1. r.gen \in Nat /\ r.gen + 1 \in Nat
      BY DEF SlotType
    <3>2. ASSUME NEW g \in Nat
          PROVE [r EXCEPT !.size = z, !.gen = g, !.fencePending = TRUE, !.donePending = FALSE] \in SlotType
      BY DEF SlotType
    <3>3. CASE r.size = z
      BY <3>1, <3>2, <3>3
    <3>4. CASE r.size # z
      BY <3>1, <3>2, <3>4
    <3> QED
      BY <3>3, <3>4
  <2> QED
    BY <2>1, <2>3, <2>4 DEF SlotTyped
<1>3. CASE FramePublish
  <2>1. ASSUME NEW s \in Slots
        PROVE  /\ Outdated(s) \in SlotType
               /\ [slot[s] EXCEPT !.state = "ready", !.seq = seq + 1] \in SlotType
    <3>1. slot[s] \in SlotType /\ seq + 1 \in Nat
      BY <2>1 DEF SlotTyped, SyncTyped
    <3>2. [slot[s] EXCEPT !.state = "stale"] \in SlotType
      BY <3>1 DEF SlotType, States
    <3>3. [slot[s] EXCEPT !.state = "ready", !.seq = seq + 1] \in SlotType
      BY <3>1 DEF SlotType, States
    <3> QED
      BY <3>1, <3>2, <3>3 DEF Outdated
  <2>2. slot' = [s \in Slots |-> IF s = emu.slot
                                THEN [slot[s] EXCEPT !.state = "ready", !.seq = seq + 1]
                                ELSE Outdated(s)]
    BY <1>3 DEF FramePublish
  <2> QED
    BY <2>1, <2>2 DEF SlotTyped
<1>4. CASE EmuDestroy
  <2>1. ASSUME NEW s \in Slots PROVE [slot[s] EXCEPT !.size = None] \in SlotType
    BY <2>1 DEF SlotTyped, SlotType
  <2> QED
    BY <1>4, <2>1 DEF EmuDestroy, SlotTyped
<1>5. CASE PresentPick
  <2>1. slot' = slot \/ \E s \in Slots : slot' = [slot EXCEPT ![s].state = "shown"]
    BY <1>5 DEF PresentPick
  <2> QED
    BY <2>1 DEF SlotTyped, SlotType, States
<1>6. ASSUME NEW s \in Slots, slot' = [slot EXCEPT ![s].donePending = TRUE, ![s].state = "free"]
      PROVE  SlotTyped'
  BY <1>6 DEF SlotTyped, SlotType, States
<1>7. ASSUME NEW s \in Slots, PresentStale(s) PROVE SlotTyped'
  BY <1>6, <1>7 DEF PresentStale, GiveBack
<1>8. CASE PresentRetire
  <2>1. win.retired \in Slots \cup {None}
    BY DEF WinTyped, WinType
  <2> QED
    BY <1>6, <1>8, <2>1 DEF PresentRetire, GiveBack, SlotTyped
<1>9. CASE slot' = slot
  BY <1>9 DEF SlotTyped
<1> QED
  BY <1>1, <1>2, <1>3, <1>4, <1>5, <1>7, <1>8, <1>9
     DEF Next, vars, slotVars, EmuNext, WinNext, FramePick, FrameDrop, ReadBack, ReadBackDone,
         NoReadBack, EmuStop, PresentCannot, PresentDraw, PresentClosed, WindowEnd,
         SwapReturns, Close, VkExecute, GlExecute, Over

LEMMA EmuStep == EmuTyped /\ [Next]_vars => EmuTyped'
<1> SUFFICES ASSUME EmuTyped, [Next]_vars PROVE EmuTyped'
  OBVIOUS
<1>0. emu \in EmuType
  BY DEF EmuTyped
<1>1. ASSUME NEW z \in Sizes, NEW s \in Slots, FramePick(z, s) PROVE EmuTyped'
  BY <1>1 DEF FramePick, EmuTyped, EmuType, EmuPcs
<1>2. CASE FrameSubmit
  <2>1. emu' = [emu EXCEPT !.pc = "sync"] /\ emu.slot \in Slots /\ emu.size \in Sizes
    BY <1>2 DEF FrameSubmit, EmuTyped
  <2>2. "sync" \in EmuPcs
    BY DEF EmuPcs
  <2> QED
    BY <1>0, <2>1, <2>2, EmuMoves DEF EmuTyped
<1>3. ASSUME NEW p \in EmuPcs \ {"fence", "sync"}, emu' = [emu EXCEPT !.pc = p] PROVE EmuTyped'
  BY <1>0, <1>3, EmuMoves DEF EmuTyped
<1>4. CASE emu' = emu
  BY <1>4 DEF EmuTyped
<1>5. ASSUME NEW p \in {"after", "read", "idle", "join", "gone"}, emu' = [emu EXCEPT !.pc = p]
      PROVE EmuTyped'
  BY <1>3, <1>5 DEF EmuPcs
<1>6. CASE FrameDrop \/ FrameNoImage \/ FramePublish
  BY <1>6, <1>5 DEF FrameDrop, FrameNoImage, FramePublish
<1>7. CASE ReadBack \/ ReadBackDone \/ NoReadBack \/ EmuStop \/ EmuDestroy
  BY <1>7, <1>5 DEF ReadBack, ReadBackDone, NoReadBack, EmuStop, EmuDestroy
<1> QED
  BY <1>1, <1>2, <1>4, <1>6, <1>7
     DEF Next, vars, EmuNext, WinNext, PresentCannot, PresentPick, PresentStale, PresentDraw,
         PresentClosed, PresentRetire, WindowEnd, SwapReturns, Close, VkExecute, GlExecute, Over

LEMMA WinStep == WinTyped /\ [Next]_vars => WinTyped'
<1> SUFFICES ASSUME WinTyped, [Next]_vars PROVE WinTyped'
  OBVIOUS
<1>0. win \in WinType
  BY DEF WinTyped
<1>1. CASE PresentPick
  <2> DEFINE fresh == {s \in Slots : /\ slot[s].state = "ready"
                                     /\ \A t \in Slots : slot[t].state = "ready" => slot[t].seq <= slot[s].seq}
  <2>1. /\ shown # None \/ fresh # {}
        /\ win' = [pc |-> "stale", stale |-> {s \in Slots : slot[s].state = "stale"}, fresh |-> fresh # {},
                   retired |-> IF fresh = {} THEN None ELSE shown, failed |-> FALSE]
        /\ IF fresh = {} THEN shown' = shown ELSE shown' \in fresh
    BY <1>1 DEF PresentPick
  <2>2. win' \in WinType
    BY <2>1 DEF WinTyped, WinType, WinPcs
  <2>3. shown' \in Slots
    BY <2>1 DEF WinTyped
  <2> QED
    BY <2>2, <2>3 DEF WinTyped
<1>2. ASSUME NEW s \in Slots, PresentStale(s) PROVE WinTyped'
  <2>1. win' = [win EXCEPT !.stale = @ \ {s}] /\ shown' = shown /\ win.pc = "stale"
    BY <1>2 DEF PresentStale
  <2> QED
    BY <2>1 DEF WinTyped, WinType
<1>3. ASSUME NEW p \in WinPcs \ {"stale"}, win' = [win EXCEPT !.pc = p], shown' = shown PROVE WinTyped'
  BY <1>0, <1>3, WinMoves DEF WinTyped
<1>4. CASE PresentDraw \/ SwapReturns \/ WindowEnd
  BY <1>3, <1>4 DEF PresentDraw, SwapReturns, WindowEnd, WinPcs, slotVars
<1>5. CASE PresentClosed
  <2>1. win' = [win EXCEPT !.pc = "retire", !.failed = TRUE] /\ shown' = shown
    BY <1>5 DEF PresentClosed, slotVars
  <2> QED
    BY <2>1 DEF WinTyped, WinType, WinPcs
<1>6. CASE PresentRetire
  <2>1. win' = [win EXCEPT !.pc = "loop", !.fresh = FALSE, !.retired = None] /\ shown' = shown
    BY <1>6 DEF PresentRetire
  <2> QED
    BY <2>1 DEF WinTyped, WinType, WinPcs
<1>7. CASE win' = win /\ shown' = shown
  BY <1>7 DEF WinTyped
<1> QED
  BY <1>1, <1>2, <1>4, <1>5, <1>6, <1>7
     DEF Next, vars, slotVars, EmuNext, WinNext, FramePick, FrameDrop, FrameNoImage, FrameSubmit,
         FramePublish, ReadBack, ReadBackDone, NoReadBack, EmuStop, EmuDestroy, PresentCannot,
         Close, VkExecute, GlExecute, Over

LEMMA VkStep == SlotTyped /\ EmuTyped /\ SyncTyped /\ VkTyped /\ [Next]_vars => VkTyped'
<1> SUFFICES ASSUME SlotTyped, EmuTyped, SyncTyped, VkTyped, [Next]_vars PROVE VkTyped'
  OBVIOUS
<1>1. CASE FrameSubmit
  <2>1. emu.slot \in Slots
    BY <1>1 DEF FrameSubmit, EmuTyped
  <2>2. Copy(emu.slot, slot[emu.slot].donePending) \in VkOps
    BY <2>1 DEF SlotTyped, SlotType, VkOps
  <2> QED
    BY <1>1, <2>2 DEF FrameSubmit, VkTyped
<1>2. CASE FramePublish
  <2>1. Sync(syncIndex) \in VkOps
    BY DEF SyncTyped, VkOps
  <2>2. vkQueue' = Append(vkQueue, Sync(syncIndex))
    BY <1>2 DEF FramePublish
  <2> QED
    BY <2>1, <2>2 DEF VkTyped
<1>3. CASE ReadBack
  <2>1. Read \in VkOps
    BY DEF VkOps
  <2> QED
    BY <1>3, <2>1 DEF ReadBack, VkTyped
<1>4. CASE VkExecute
  BY <1>4 DEF VkExecute, VkTyped
<1>5. CASE vkQueue' = vkQueue
  BY <1>5 DEF VkTyped
<1> QED
  BY <1>1, <1>2, <1>3, <1>4, <1>5
     DEF Next, vars, gpuVars, EmuNext, WinNext, FramePick, FrameDrop, FrameNoImage,
         ReadBackDone, NoReadBack, EmuStop, EmuDestroy, PresentCannot, PresentPick, PresentStale,
         PresentDraw, PresentClosed, PresentRetire, WindowEnd, SwapReturns, Close, GlExecute, Over

LEMMA Issued ==
    ASSUME NEW q \in Seq(GlOps), NEW a \in GlOps, NEW b \in GlOps
    PROVE  /\ Append(q, a) \in Seq(GlOps) /\ Len(Append(q, a)) = Len(q) + 1
           /\ q \o <<a, b>> \in Seq(GlOps) /\ Len(q \o <<a, b>>) = Len(q) + 2
           /\ (q \o <<a>>) \in Seq(GlOps) /\ Len(q \o <<a>>) = Len(q) + 1
           /\ (q \o <<a>>) \o <<b>> \in Seq(GlOps) /\ Len((q \o <<a>>) \o <<b>>) = Len(q) + 2
           /\ q \o <<>> = q
  OBVIOUS

LEMMA GlStep == WinTyped /\ GlTyped /\ [Next]_vars => GlTyped'
<1> SUFFICES ASSUME WinTyped, GlTyped, [Next]_vars PROVE GlTyped'
  OBVIOUS
<1>0. \A s \in Slots : Wait(s) \in GlOps /\ Draw(s) \in GlOps /\ Signal(s) \in GlOps
  BY DEF Wait, Draw, Signal, GlOps
<1>1. ASSUME NEW s \in Slots, PresentStale(s) PROVE GlTyped'
  <2>1. glQueue' = glQueue \o <<Wait(s), Signal(s)>> /\ flushed' = flushed
    BY <1>1 DEF PresentStale
  <2> QED
    BY <1>0, <2>1, Issued DEF GlTyped
<1>2. CASE PresentDraw
  <2>1. shown \in Slots
    BY <1>2 DEF PresentDraw, WinTyped
  <2>2. /\ \/ glQueue' = (glQueue \o <<Wait(shown)>>) \o <<Draw(shown)>>
           \/ glQueue' = (glQueue \o <<>>) \o <<Draw(shown)>>
        /\ flushed' = Len(glQueue')
    BY <1>2 DEF PresentDraw
  <2>3. /\ glQueue \in Seq(GlOps) /\ Len(glQueue) \in Nat
        /\ Wait(shown) \in GlOps /\ Draw(shown) \in GlOps
    BY <1>0, <2>1 DEF GlTyped
  <2>4. glQueue' \in Seq(GlOps)
    <3>1. CASE glQueue' = (glQueue \o <<Wait(shown)>>) \o <<Draw(shown)>>
      BY <2>3, <3>1, Issued
    <3>2. CASE glQueue' = (glQueue \o <<>>) \o <<Draw(shown)>>
      <4>1. glQueue \o <<>> = glQueue
        BY <2>3, Issued
      <4> QED
        BY <2>3, <3>2, <4>1, Issued
    <3> QED
      BY <2>2, <3>1, <3>2
  <2>5. Len(glQueue') \in Nat
    BY <2>4
  <2> QED
    BY <2>2, <2>4, <2>5 DEF GlTyped
<1>3. CASE PresentClosed
  <2>1. shown \in Slots
    BY <1>3 DEF PresentClosed, WinTyped
  <2>2. /\ \/ glQueue' = glQueue \o <<Wait(shown)>>
           \/ glQueue' = glQueue \o <<>>
        /\ flushed' = flushed
    BY <1>3 DEF PresentClosed
  <2> QED
    BY <1>0, <2>1, <2>2, Issued DEF GlTyped
<1>4. CASE PresentRetire
  <2>1. win.retired \in Slots \cup {None}
    BY DEF WinTyped, WinType
  <2>2. /\ \/ glQueue' = glQueue
           \/ win.retired \in Slots /\ glQueue' = Append(glQueue, Signal(win.retired))
        /\ flushed' = flushed
    BY <1>4, <2>1 DEF PresentRetire
  <2> QED
    BY <1>0, <2>2, Issued DEF GlTyped
<1>5. CASE WindowEnd
  BY <1>5 DEF WindowEnd, GlTyped
<1>6. CASE GlExecute
  <2>1. flushed > 0 /\ glQueue' = Tail(glQueue) /\ flushed' = flushed - 1
    BY <1>6 DEF GlExecute
  <2>2. glQueue # <<>>
    BY <2>1 DEF GlTyped
  <2>3. Tail(glQueue) \in Seq(GlOps) /\ Len(Tail(glQueue)) = Len(glQueue) - 1
    BY <2>2 DEF GlTyped
  <2> QED
    BY <2>1, <2>3 DEF GlTyped
<1>7. CASE glQueue' = glQueue /\ flushed' = flushed
  BY <1>7 DEF GlTyped
<1> QED
  BY <1>1, <1>2, <1>3, <1>4, <1>5, <1>6, <1>7
     DEF Next, vars, gpuVars, EmuNext, WinNext, FramePick, FrameDrop, FrameNoImage, FrameSubmit,
         FramePublish, ReadBack, ReadBackDone, NoReadBack, EmuStop, EmuDestroy, PresentCannot,
         PresentPick, SwapReturns, Close, VkExecute, Over

LEMMA SyncStep == SyncTyped /\ [Next]_vars => SyncTyped'
<1> SUFFICES ASSUME SyncTyped, [Next]_vars PROVE SyncTyped'
  OBVIOUS
<1>1. CASE FramePublish
  <2>1. /\ seq' = seq + 1 /\ syncIndex' = 1 - syncIndex
        /\ syncPending' = [syncPending EXCEPT ![syncIndex] = TRUE]
    BY <1>1 DEF FramePublish
  <2> QED
    BY <2>1 DEF SyncTyped, SyncIndices
<1>2. CASE UNCHANGED <<seq, syncIndex, syncPending>>
  BY <1>2 DEF SyncTyped
<1> QED
  BY <1>1, <1>2
     DEF Next, vars, slotVars, syncVars, EmuNext, WinNext, FramePick, FrameDrop, FrameNoImage,
         FrameSubmit, ReadBack, ReadBackDone, NoReadBack, EmuStop, EmuDestroy, PresentCannot,
         PresentPick, PresentStale, PresentDraw, PresentClosed, PresentRetire, WindowEnd,
         SwapReturns, Close, VkExecute, GlExecute, Over

LEMMA GpuStep ==
    SlotTyped /\ WinTyped /\ GlTyped /\ GpuTyped /\ [Next]_vars => GpuTyped'
<1> SUFFICES ASSUME SlotTyped, WinTyped, GlTyped, GpuTyped, [Next]_vars PROVE GpuTyped'
  OBVIOUS
<1>1. ASSUME NEW s \in Slots, PresentStale(s) PROVE GpuTyped'
  BY <1>1 DEF PresentStale, GpuTyped, SlotTyped, SlotType
<1>2. CASE PresentDraw \/ PresentClosed
  <2>1. shown \in Slots /\ UNCHANGED <<ready, done>>
        /\ glGen' = [glGen EXCEPT ![shown] = slot[shown].gen]
    BY <1>2 DEF PresentDraw, PresentClosed, WinTyped
  <2> QED
    BY <2>1 DEF GpuTyped, SlotTyped, SlotType
<1>3. CASE WindowEnd
  BY <1>3 DEF WindowEnd, GpuTyped
<1>4. CASE VkExecute
  <2>1. glGen' = glGen /\ \/ UNCHANGED <<ready, done>>
                          \/ \E s : /\ ready' = [ready EXCEPT ![s] = TRUE]
                                    /\ \/ done' = [done EXCEPT ![s] = FALSE]
                                       \/ done' = [done EXCEPT ![s] = @]
    BY <1>4 DEF VkExecute
  <2> QED
    BY <2>1 DEF GpuTyped
<1>5. CASE GlExecute
  <2>1. glGen' = glGen /\ \E s : /\ \/ ready' = [ready EXCEPT ![s] = FALSE]
                                    \/ ready' = [ready EXCEPT ![s] = @]
                                 /\ \/ done' = [done EXCEPT ![s] = TRUE]
                                    \/ done' = [done EXCEPT ![s] = @]
    BY <1>5 DEF GlExecute
  <2> QED
    BY <2>1 DEF GpuTyped
<1>6. CASE UNCHANGED <<ready, done, glGen>>
  BY <1>6 DEF GpuTyped
<1> QED
  BY <1>1, <1>2, <1>3, <1>4, <1>5, <1>6
     DEF Next, vars, gpuVars, EmuNext, WinNext, FramePick, FrameDrop, FrameNoImage, FrameSubmit,
         FramePublish, ReadBack, ReadBackDone, NoReadBack, EmuStop, EmuDestroy, PresentCannot,
         PresentPick, PresentRetire, SwapReturns, Close, Over

LEMMA FlagsStep == FlagsTyped /\ [Next]_vars => FlagsTyped'
<1> SUFFICES ASSUME FlagsTyped, [Next]_vars PROVE FlagsTyped'
  OBVIOUS
<1>1. CASE EmuStop
  BY <1>1 DEF EmuStop, FlagsTyped
<1>2. CASE EmuDestroy
  BY <1>2 DEF EmuDestroy, FlagsTyped
<1>3. CASE PresentCannot \/ PresentRetire
  BY <1>3 DEF PresentCannot, PresentRetire, FlagsTyped, lifeVars
<1>4. CASE Close \/ WindowEnd
  BY <1>4 DEF Close, WindowEnd, FlagsTyped
<1>5. CASE UNCHANGED <<gpuPresent, lifeVars>>
  BY <1>5 DEF FlagsTyped, lifeVars
<1> QED
  BY <1>1, <1>2, <1>3, <1>4, <1>5
     DEF Next, vars, EmuNext, WinNext, FramePick, FrameDrop, FrameNoImage, FrameSubmit,
         FramePublish, ReadBack, ReadBackDone, NoReadBack, PresentPick, PresentStale,
         PresentDraw, PresentClosed, SwapReturns, VkExecute, GlExecute, Over

LEMMA TypeStep == TypeOK /\ [Next]_vars => TypeOK'
<1> SUFFICES ASSUME TypeOK, [Next]_vars
             PROVE /\ SlotTyped' /\ EmuTyped' /\ WinTyped' /\ VkTyped'
                   /\ GlTyped' /\ SyncTyped' /\ GpuTyped' /\ FlagsTyped'
  BY TypeParts, PTL
<1> QED
  BY TypeParts, SlotStep, EmuStep, WinStep, VkStep, GlStep, SyncStep, GpuStep, FlagsStep

\* Every reachable state is well typed, whatever the slots, the sizes and the bounds.
THEOREM FramesTypeCorrect == Spec => []TypeOK
  BY InitTyped, TypeStep, PTL DEF Spec

-----------------------------------------------------------------------------
(* The states of the slots and what both threads hold of them.             *)

StateOf(s) == slot[s].state
ShownHeld == shown \in Slots => StateOf(shown) = "shown"
HandHeld == emu.pc \in {"fence", "sync"} => StateOf(emu.slot) = "free"
StaleHeld == win.pc = "stale" => \A s \in win.stale : StateOf(s) = "stale"
RetiredHeld == win.retired \in Slots => StateOf(win.retired) = "shown" /\ win.retired # shown
ReadyNewest == \A s \in Slots : StateOf(s) = "ready" => slot[s].seq = seq
Held == ShownHeld /\ HandHeld /\ StaleHeld /\ RetiredHeld /\ ReadyNewest

\* What an action that leaves states and numbers of the slots alone must leave alone.
SameSlots == seq' = seq /\ \A s \in Slots : slot'[s].state = slot[s].state /\ slot'[s].seq = slot[s].seq
SameEmu == emu' = emu \/ emu'.pc \notin {"fence", "sync"} \/ (emu'.slot = emu.slot /\ emu.pc = "fence")
SameWin == /\ shown' = shown /\ (win'.retired = win.retired \/ win'.retired = None)
           /\ win'.pc = "stale" => win.pc = "stale" /\ win'.stale \subseteq win.stale

LEMMA HeldUndisturbed == TypeOK /\ Held /\ SameSlots /\ SameEmu /\ SameWin => Held'
<1> SUFFICES ASSUME TypeOK, Held, SameSlots, SameEmu, SameWin PROVE Held'
  OBVIOUS
<1>1. /\ shown \in Slots \cup {None} /\ win.stale \subseteq Slots
      /\ emu.pc \in {"fence", "sync"} => emu.slot \in Slots
  BY TypeParts DEF WinTyped, WinType, EmuTyped
<1>2. ShownHeld'
  BY DEF Held, ShownHeld, SameSlots, SameWin, StateOf
<1>3. HandHeld'
  BY <1>1 DEF Held, HandHeld, SameSlots, SameEmu, StateOf
<1>4. StaleHeld'
  BY <1>1 DEF Held, StaleHeld, SameSlots, SameWin, StateOf
<1>5. RetiredHeld'
  BY NoneAssumption DEF Held, RetiredHeld, SameSlots, SameWin, StateOf
<1>6. ReadyNewest'
  BY DEF Held, ReadyNewest, SameSlots, StateOf
<1> QED
  BY <1>2, <1>3, <1>4, <1>5, <1>6 DEF Held

LEMMA SlotFields ==
    ASSUME SlotTyped, NEW s \in Slots
    PROVE  /\ [slot EXCEPT ![s].state = "shown"][s].state = "shown"
           /\ [slot EXCEPT ![s].state = "shown"][s].seq = slot[s].seq
           /\ [slot EXCEPT ![s].donePending = TRUE, ![s].state = "free"][s].state = "free"
           /\ \A t \in Slots \ {s} :
                 /\ [slot EXCEPT ![s].state = "shown"][t] = slot[t]
                 /\ [slot EXCEPT ![s].donePending = TRUE, ![s].state = "free"][t] = slot[t]
  BY DEF SlotTyped, SlotType

\* A frame handed over: the slot in hand is ready and newest, every other ready one stale.
LEMMA PublishHolds == TypeOK /\ Held /\ FramePublish => Held' /\ (shown \in Slots => slot'[shown].seq = slot[shown].seq)
<1> SUFFICES ASSUME TypeOK, Held, FramePublish
             PROVE Held' /\ (shown \in Slots => slot'[shown].seq = slot[shown].seq)
  OBVIOUS
<1>1. /\ slot' = [s \in Slots |-> IF s = emu.slot
                                  THEN [slot[s] EXCEPT !.state = "ready", !.seq = seq + 1]
                                  ELSE Outdated(s)]
      /\ seq' = seq + 1 /\ shown' = shown /\ win' = win /\ emu'.pc = "after"
      /\ emu.slot \in Slots /\ StateOf(emu.slot) = "free"
  <2>1. emu' = [emu EXCEPT !.pc = "after"] /\ emu \in EmuType /\ emu.pc = "sync"
    BY TypeParts DEF FramePublish, EmuTyped
  <2>2. emu'.pc = "after" /\ emu.slot \in Slots
    BY <2>1, TypeParts, EmuMoves DEF EmuPcs, EmuTyped
  <2> QED
    BY <2>1, <2>2 DEF FramePublish, Held, HandHeld
<1>2. ASSUME NEW s \in Slots, s # emu.slot
      PROVE  /\ slot'[s].seq = slot[s].seq
             /\ StateOf(s) = "ready" => slot'[s].state = "stale"
             /\ StateOf(s) # "ready" => slot'[s].state = slot[s].state
  <2>1. slot'[s] = Outdated(s) /\ slot[s] \in SlotType
    BY <1>1, <1>2, TypeParts DEF SlotTyped
  <2> QED
    BY <2>1 DEF Outdated, SlotType, StateOf
<1>3. slot'[emu.slot].seq = seq' /\ slot'[emu.slot].state = "ready"
  <2>1. slot'[emu.slot] = [slot[emu.slot] EXCEPT !.state = "ready", !.seq = seq + 1]
        /\ slot[emu.slot] \in SlotType
    BY <1>1, TypeParts DEF SlotTyped
  <2> QED
    BY <1>1, <2>1 DEF SlotType
<1>4. win.stale \subseteq Slots /\ shown \in Slots \cup {None}
  BY TypeParts DEF WinTyped, WinType
<1>5. ShownHeld'
  BY <1>1, <1>2 DEF Held, ShownHeld, StateOf
<1>6. HandHeld'
  BY <1>1 DEF HandHeld
<1>7. StaleHeld'
  BY <1>1, <1>2, <1>4 DEF Held, StaleHeld, StateOf
<1>8. RetiredHeld'
  BY <1>1, <1>2 DEF Held, RetiredHeld, StateOf
<1>9. ReadyNewest'
  <2>1. ASSUME NEW s \in Slots, slot'[s].state = "ready" PROVE slot'[s].seq = seq'
    BY <1>2, <1>3, <2>1 DEF StateOf
  <2> QED
    BY <2>1 DEF ReadyNewest, StateOf
<1>10. shown \in Slots => slot'[shown].seq = slot[shown].seq
  BY <1>1, <1>2 DEF Held, ShownHeld
<1> QED
  BY <1>5, <1>6, <1>7, <1>8, <1>9, <1>10 DEF Held

\* A present that finds a ready slot shows the newest frame there is.
LEMMA PickHolds ==
    TypeOK /\ Held /\ PresentPick
        => Held' /\ ((shown' = shown /\ slot' = slot) \/ (shown' \in Slots /\ slot'[shown'].seq = seq))
<1> SUFFICES ASSUME TypeOK, Held, PresentPick
             PROVE Held' /\ ((shown' = shown /\ slot' = slot) \/ (shown' \in Slots /\ slot'[shown'].seq = seq))
  OBVIOUS
<1> DEFINE fresh == {s \in Slots : /\ slot[s].state = "ready"
                                   /\ \A t \in Slots : slot[t].state = "ready" => slot[t].seq <= slot[s].seq}
<1>1. /\ win' = [pc |-> "stale", stale |-> {s \in Slots : slot[s].state = "stale"}, fresh |-> fresh # {},
                 retired |-> IF fresh = {} THEN None ELSE shown, failed |-> FALSE]
      /\ emu' = emu /\ seq' = seq
      /\ \/ fresh = {} /\ UNCHANGED <<slot, shown>>
         \/ \E s \in fresh : slot' = [slot EXCEPT ![s].state = "shown"] /\ shown' = s
  BY DEF PresentPick
<1>2. /\ win'.stale = {s \in Slots : slot[s].state = "stale"}
      /\ win'.retired = IF fresh = {} THEN None ELSE shown
  BY <1>1
<1> HIDE DEF fresh
<1>3. CASE fresh = {} /\ UNCHANGED <<slot, shown>>
  <2>1. win'.retired = None
    BY <1>2, <1>3
  <2>2. ShownHeld' /\ HandHeld' /\ ReadyNewest'
    BY <1>1, <1>3 DEF Held, ShownHeld, HandHeld, ReadyNewest, StateOf
  <2>3. StaleHeld' /\ RetiredHeld'
    BY <1>2, <1>3, <2>1, NoneAssumption DEF StaleHeld, RetiredHeld, StateOf
  <2> QED
    <3>1. shown' = shown /\ slot' = slot
      BY <1>3
    <3>2. Held'
      BY <2>2, <2>3 DEF Held
    <3> QED
      BY <3>1, <3>2
<1>4. ASSUME NEW s \in fresh, slot' = [slot EXCEPT ![s].state = "shown"], shown' = s
      PROVE  Held' /\ shown' \in Slots /\ slot'[shown'].seq = seq
  <2>1. s \in Slots /\ StateOf(s) = "ready" /\ slot[s].seq = seq /\ win'.retired = shown
    BY <1>2, <1>4 DEF fresh, Held, ReadyNewest, StateOf
  <2>2. /\ slot'[s].state = "shown" /\ slot'[s].seq = seq
        /\ \A t \in Slots \ {s} : slot'[t] = slot[t]
    BY <1>4, <2>1, SlotFields, TypeParts
  <2>3. shown \in Slots \cup {None} /\ (emu.pc \in {"fence", "sync"} => emu.slot \in Slots)
    BY TypeParts DEF WinTyped, EmuTyped
  <2>4. ShownHeld'
    BY <1>4, <2>2 DEF ShownHeld, StateOf
  <2>5. HandHeld'
    BY <1>1, <2>1, <2>2, <2>3 DEF Held, HandHeld, StateOf
  <2>6. StaleHeld'
    BY <1>2, <2>1, <2>2 DEF StaleHeld, StateOf
  <2>7. RetiredHeld'
    BY <1>4, <2>1, <2>2, <2>3 DEF Held, ShownHeld, RetiredHeld, StateOf
  <2>8. ReadyNewest'
    BY <1>1, <2>1, <2>2 DEF Held, ReadyNewest, StateOf
  <2> QED
    BY <1>4, <2>1, <2>2, <2>4, <2>5, <2>6, <2>7, <2>8 DEF Held
<1> QED
  BY <1>1, <1>3, <1>4

\* A slot given back was neither shown nor in hand.
LEMMA GiveBackHolds ==
    ASSUME TypeOK, Held, NEW s \in Slots, s # shown, StateOf(s) # "free", GiveBack(s),
           seq' = seq, shown' = shown, emu' = emu,
           s # win.retired \/ win'.retired = None,
           win'.retired = win.retired \/ win'.retired = None,
           win'.pc = "stale" => win.pc = "stale" /\ win'.stale \subseteq win.stale \ {s}
    PROVE  Held' /\ (shown \in Slots => slot'[shown].seq = slot[shown].seq)
<1>1. slot'[s].state = "free" /\ \A t \in Slots \ {s} : slot'[t] = slot[t]
  BY SlotFields, TypeParts DEF GiveBack
<1>2. /\ shown \in Slots \cup {None} /\ win.stale \subseteq Slots
      /\ emu.pc \in {"fence", "sync"} => emu.slot \in Slots
  BY TypeParts DEF WinTyped, WinType, EmuTyped
<1>3. ShownHeld'
  BY <1>1 DEF Held, ShownHeld, StateOf
<1>4. HandHeld'
  BY <1>1, <1>2 DEF Held, HandHeld, StateOf
<1>5. StaleHeld'
  BY <1>1, <1>2 DEF Held, StaleHeld, StateOf
<1>6. RetiredHeld'
  BY <1>1, NoneAssumption DEF Held, RetiredHeld, StateOf
<1>7. ReadyNewest'
  BY <1>1 DEF Held, ReadyNewest, StateOf
<1> QED
  BY <1>1, <1>3, <1>4, <1>5, <1>6, <1>7 DEF Held

\* The frame on show, as LatestFrame counts it.
Seen == IF shown = None THEN 0 ELSE slot[shown].seq

LEMMA SeenKept ==
    ASSUME TypeOK, shown' = shown, shown \in Slots => slot'[shown].seq = slot[shown].seq
    PROVE  Seen' = Seen
  BY TypeParts, NoneAssumption DEF Seen, WinTyped

LEMMA HeldInit == Init => Held
  BY NoneAssumption DEF Init, Held, ShownHeld, HandHeld, StaleHeld, RetiredHeld, ReadyNewest,
                        StateOf, EmptySlot

\* Every step keeps Held and is a step of LatestFrame, or changes nothing there.
LEMMA HeldStep ==
    TypeOK /\ Held /\ [Next]_vars
        => Held' /\ (\/ seq' = seq + 1 /\ Seen' = Seen
                     \/ seq' = seq /\ Seen' = seq
                     \/ seq' = seq /\ Seen' = Seen)
<1> SUFFICES ASSUME TypeOK, Held, [Next]_vars
             PROVE Held' /\ (\/ seq' = seq + 1 /\ Seen' = Seen
                             \/ seq' = seq /\ Seen' = seq
                             \/ seq' = seq /\ Seen' = Seen)
  OBVIOUS
<1>0. /\ slot \in [Slots -> SlotType] /\ emu \in EmuType /\ win \in WinType
      /\ emu.pc \in {"fence", "sync"} => emu.slot \in Slots
      /\ shown \in Slots \cup {None} /\ win.retired \in Slots \cup {None}
  BY TypeParts DEF SlotTyped, EmuTyped, WinTyped, WinType
<1>1. ASSUME SameSlots, SameEmu, SameWin PROVE Held' /\ seq' = seq /\ Seen' = Seen
  <2>1. Held'
    BY <1>1, HeldUndisturbed
  <2>2. Seen' = Seen
    BY <1>1, SeenKept DEF SameSlots, SameWin
  <2> QED
    BY <1>1, <2>1, <2>2 DEF SameSlots
<1>2. CASE FramePublish
  <2>1. Held' /\ (shown \in Slots => slot'[shown].seq = slot[shown].seq)
    BY <1>2, PublishHolds
  <2>2. seq' = seq + 1 /\ shown' = shown
    BY <1>2 DEF FramePublish
  <2> QED
    BY <2>1, <2>2, SeenKept
<1>3. CASE PresentPick
  <2>1. Held' /\ ((shown' = shown /\ slot' = slot) \/ (shown' \in Slots /\ slot'[shown'].seq = seq))
    BY <1>3, PickHolds
  <2>2. seq' = seq
    BY <1>3 DEF PresentPick
  <2> QED
    BY <2>1, <2>2, NoneAssumption DEF Seen
<1>4. ASSUME NEW s \in Slots, PresentStale(s)
      PROVE Held' /\ seq' = seq /\ Seen' = Seen
  <2>1. /\ win' = [win EXCEPT !.stale = @ \ {s}] /\ win.pc = "stale" /\ s \in win.stale
        /\ GiveBack(s) /\ seq' = seq /\ shown' = shown /\ emu' = emu
    BY <1>4 DEF PresentStale
  <2>2. win'.retired = win.retired /\ win'.stale = win.stale \ {s} /\ win'.pc = win.pc
    BY <1>0, <2>1 DEF WinType
  <2>3. StateOf(s) = "stale"
    BY <2>1 DEF Held, StaleHeld
  <2>4. s # shown /\ s # win.retired
    BY <2>3 DEF Held, ShownHeld, RetiredHeld
  <2>5. Held' /\ (shown \in Slots => slot'[shown].seq = slot[shown].seq)
    BY <2>1, <2>2, <2>3, <2>4, GiveBackHolds
  <2> QED
    BY <2>1, <2>5, SeenKept
<1>5. CASE PresentRetire
  <2>1. /\ win' = [win EXCEPT !.pc = "loop", !.fresh = FALSE, !.retired = None]
        /\ seq' = seq /\ shown' = shown /\ emu' = emu
    BY <1>5 DEF PresentRetire
  <2>2. win'.retired = None /\ win'.pc = "loop"
    BY <1>0, <2>1 DEF WinType
  <2>3. CASE win.retired = None
    <3>1. slot' = slot
      BY <1>5, <2>3 DEF PresentRetire
    <3> QED
      BY <1>1, <2>1, <2>2, <3>1 DEF SameSlots, SameEmu, SameWin
  <2>4. CASE win.retired \in Slots
    <3>1. GiveBack(win.retired) /\ StateOf(win.retired) = "shown" /\ win.retired # shown
      BY <1>5, <2>4, NoneAssumption DEF PresentRetire, Held, RetiredHeld
    <3>2. Held' /\ (shown \in Slots => slot'[shown].seq = slot[shown].seq)
      BY <2>1, <2>2, <2>4, <3>1, GiveBackHolds
    <3> QED
      BY <2>1, <3>2, SeenKept
  <2> QED
    BY <1>0, <2>3, <2>4
<1>6. ASSUME NEW z \in Sizes, NEW s \in Slots, FramePick(z, s)
      PROVE Held' /\ seq' = seq /\ Seen' = Seen
  <2>1. /\ emu' = [pc |-> "fence", slot |-> s, size |-> z] /\ slot[s].state = "free"
        /\ UNCHANGED <<slot, seq, shown, win>>
    BY <1>6 DEF FramePick, Free, slotVars
  <2>2. emu'.slot = s
    BY <2>1
  <2>3. Held'
    BY <2>1, <2>2 DEF Held, ShownHeld, HandHeld, StaleHeld, RetiredHeld, ReadyNewest, StateOf
  <2> QED
    BY <2>1, <2>3 DEF Seen
<1>7. CASE FrameNoImage \/ FrameSubmit
  <2>1. emu.slot \in Slots /\ emu.pc = "fence" /\ UNCHANGED <<seq, shown, win>>
        /\ (emu' = [emu EXCEPT !.pc = "after"] \/ emu' = [emu EXCEPT !.pc = "sync"])
    BY <1>0, <1>7 DEF FrameNoImage, FrameSubmit
  <2>2. \A s \in Slots : slot'[s].state = slot[s].state /\ slot'[s].seq = slot[s].seq
    <3>1. slot[emu.slot] \in SlotType
      BY <1>0, <2>1
    <3>2. CASE FrameNoImage
      BY <1>0, <2>1, <3>1, <3>2 DEF FrameNoImage, SlotType
    <3>3. CASE FrameSubmit
      <4>1. \A s \in Slots \ {emu.slot} : slot'[s] = slot[s]
        BY <1>0, <3>3 DEF FrameSubmit
      <4>2. \E g : slot'[emu.slot] = [slot[emu.slot] EXCEPT !.size = emu.size, !.gen = g,
                                         !.fencePending = TRUE, !.donePending = FALSE]
        BY <1>0, <2>1, <3>3 DEF FrameSubmit
      <4>3. slot'[emu.slot].state = slot[emu.slot].state /\ slot'[emu.slot].seq = slot[emu.slot].seq
        BY <3>1, <4>2 DEF SlotType
      <4> QED
        BY <4>1, <4>3
    <3> QED
      BY <1>7, <3>2, <3>3
  <2>3. emu'.slot = emu.slot
    <3>1. [emu EXCEPT !.pc = "after"].slot = emu.slot
      BY <1>0 DEF EmuType
    <3>2. [emu EXCEPT !.pc = "sync"].slot = emu.slot
      BY <1>0 DEF EmuType
    <3> QED
      BY <2>1, <3>1, <3>2
  <2> QED
    BY <1>1, <2>1, <2>2, <2>3 DEF SameSlots, SameEmu, SameWin
<1>8. CASE EmuDestroy
  <2>1. UNCHANGED <<seq, shown, win>> /\ emu' = [emu EXCEPT !.pc = "gone"]
        /\ slot' = [s \in Slots |-> [slot[s] EXCEPT !.size = None]]
    BY <1>8 DEF EmuDestroy
  <2>2. emu'.pc = "gone"
    BY <1>0, <2>1, EmuMoves DEF EmuPcs
  <2>3. \A s \in Slots : slot'[s].state = slot[s].state /\ slot'[s].seq = slot[s].seq
    BY <1>0, <2>1 DEF SlotType
  <2> QED
    BY <1>1, <2>1, <2>2, <2>3 DEF SameSlots, SameEmu, SameWin
<1>9. CASE UNCHANGED <<slot, seq, shown, win>> /\ \E p \in {"after", "read", "idle", "join"} : emu' = [emu EXCEPT !.pc = p]
  <2>1. emu'.pc \in {"after", "read", "idle", "join"}
    BY <1>0, <1>9, EmuMoves DEF EmuPcs
  <2> QED
    BY <1>1, <1>9, <2>1 DEF SameSlots, SameEmu, SameWin
<1>10. CASE UNCHANGED <<slot, seq, shown, emu>> /\ \E p \in {"swap", "retire", "gone"} : win' = [win EXCEPT !.pc = p]
  <2>1. win'.pc \in {"swap", "retire", "gone"} /\ win'.retired = win.retired
    BY <1>0, <1>10, WinMoves DEF WinPcs
  <2> QED
    BY <1>1, <1>10, <2>1 DEF SameSlots, SameEmu, SameWin
<1>11. CASE PresentClosed
  <2>1. UNCHANGED <<slot, seq, shown, emu>> /\ win' = [win EXCEPT !.pc = "retire", !.failed = TRUE]
    BY <1>11 DEF PresentClosed, slotVars
  <2>2. win'.pc = "retire" /\ win'.retired = win.retired
    BY <1>0, <2>1 DEF WinType
  <2> QED
    BY <1>1, <2>1, <2>2 DEF SameSlots, SameEmu, SameWin
<1>12. CASE UNCHANGED <<slot, seq, shown, emu, win>>
  BY <1>1, <1>12 DEF SameSlots, SameEmu, SameWin
<1>13. CASE FrameDrop \/ ReadBack \/ ReadBackDone \/ NoReadBack \/ EmuStop
  BY <1>9, <1>13 DEF FrameDrop, ReadBack, ReadBackDone, NoReadBack, EmuStop, slotVars
<1>14. CASE PresentDraw \/ SwapReturns \/ WindowEnd
  BY <1>10, <1>14 DEF PresentDraw, SwapReturns, WindowEnd, slotVars
<1>15. CASE PresentCannot \/ Close \/ VkExecute \/ GlExecute \/ UNCHANGED vars
  BY <1>12, <1>15 DEF PresentCannot, Close, VkExecute, GlExecute, vars, slotVars
<1> QED
  BY <1>2, <1>3, <1>4, <1>5, <1>6, <1>7, <1>8, <1>11, <1>13, <1>14, <1>15
     DEF Next, EmuNext, WinNext, Over

\* The detailed hand-off implements the abstract one: the window moves on to the newest
\* frame or stays, and never goes back, for any slots (wlp_present_vk, wlvk_frame).
THEOREM NewestFrameShown == Spec => NewestShown
<1>1. Init => Newest!Init
  BY DEF Init, Newest!Init
<1>2. TypeOK /\ Held /\ [Next]_vars => [Newest!Make \/ Newest!Show]_<<seq, Seen>>
  BY HeldStep DEF Newest!Make, Newest!Show, Seen
<1>3. TypeOK /\ Held /\ [Next]_vars => Held'
  BY HeldStep
<1> QED
  BY <1>1, <1>2, <1>3, HeldInit, FramesTypeCorrect, PTL DEF Spec, NewestShown, Newest!Spec, Seen

-----------------------------------------------------------------------------
(* The order of destruction.                                               *)
Nothing == \A s \in Slots : glGen[s] = 0
EndOrder ==
    /\ ~alive <=> emu.pc = "gone"
    /\ ~alive => win.pc = "gone" /\ vkQueue = <<>>
    /\ win.pc = "gone" => Nothing
    /\ ~glOk => win.pc \in {"loop", "gone"} /\ Nothing

LEMMA EndOrderStep == TypeOK /\ EndOrder /\ [Next]_vars => EndOrder'
<1> SUFFICES ASSUME TypeOK, EndOrder, [Next]_vars PROVE EndOrder'
  OBVIOUS
<1>0. emu \in EmuType /\ win \in WinType /\ glGen \in [Slots -> Nat] /\ vkQueue \in Seq(VkOps)
      /\ alive \in BOOLEAN /\ glOk \in BOOLEAN
  BY TypeParts DEF EmuTyped, WinTyped, GpuTyped, VkTyped, FlagsTyped
<1>1. ASSUME NEW p \in EmuPcs \ {"gone"}, emu' = [emu EXCEPT !.pc = p], emu.pc # "gone",
             UNCHANGED <<alive, win, glGen, glOk>>
      PROVE EndOrder'
  <2>1. emu'.pc = p
    BY <1>0, <1>1, EmuMoves
  <2>2. alive /\ alive'
    BY <1>0, <1>1 DEF EndOrder
  <2> QED
    BY <1>1, <2>1, <2>2 DEF EndOrder, Nothing
<1>2. ASSUME NEW z \in Sizes, NEW s \in Slots, FramePick(z, s) PROVE EndOrder'
  BY <1>2 DEF FramePick, EndOrder, Nothing, lifeVars, gpuVars
<1>3. CASE FrameDrop \/ FrameNoImage \/ FrameSubmit \/ FramePublish
  BY <1>1, <1>3 DEF FrameDrop, FrameNoImage, FrameSubmit, FramePublish, lifeVars, EmuPcs
<1>4. CASE ReadBack \/ ReadBackDone \/ NoReadBack \/ EmuStop
  BY <1>1, <1>4 DEF ReadBack, ReadBackDone, NoReadBack, EmuStop, lifeVars, EmuPcs
<1>5. CASE EmuDestroy
  <2>1. emu' = [emu EXCEPT !.pc = "gone"] /\ win.pc = "gone" /\ vkQueue = <<>> /\ ~alive'
        /\ UNCHANGED <<vkQueue, win, glGen, glOk>>
    BY <1>5 DEF EmuDestroy, gpuVars
  <2>2. emu'.pc = "gone"
    BY <1>0, <2>1, EmuMoves DEF EmuPcs
  <2> QED
    BY <2>1, <2>2 DEF EndOrder, Nothing
<1>6. ASSUME win.pc # "gone", win'.pc # "gone", glOk, UNCHANGED <<alive, emu, glOk>> PROVE EndOrder'
  BY <1>0, <1>6 DEF EndOrder
<1>7. CASE PresentPick
  BY <1>6, <1>7 DEF PresentPick, lifeVars
<1>8. ASSUME NEW s \in Slots, PresentStale(s) PROVE EndOrder'
  <2>1. win' = [win EXCEPT !.stale = @ \ {s}] /\ win.pc = "stale" /\ UNCHANGED <<alive, emu, glOk>>
    BY <1>8 DEF PresentStale, lifeVars
  <2>2. win'.pc = "stale"
    BY <1>0, <2>1 DEF WinType
  <2>3. glOk
    BY <2>1 DEF EndOrder
  <2> QED
    BY <1>6, <2>1, <2>2, <2>3
<1>9. CASE PresentDraw \/ PresentClosed \/ SwapReturns \/ PresentRetire
  <2>1. win.pc \in {"stale", "swap", "retire"} /\ UNCHANGED <<alive, emu, glOk>>
    BY <1>9 DEF PresentDraw, PresentClosed, SwapReturns, PresentRetire, lifeVars
  <2>2. win'.pc # "gone"
    BY <1>0, <1>9 DEF PresentDraw, PresentClosed, SwapReturns, PresentRetire, WinType
  <2>3. glOk
    BY <2>1 DEF EndOrder
  <2> QED
    BY <1>6, <2>1, <2>2, <2>3
<1>10. CASE WindowEnd
  <2>1. /\ win.pc = "loop" /\ UNCHANGED <<alive, emu, glOk>> /\ win' = [win EXCEPT !.pc = "gone"]
        /\ glGen' = [s \in Slots |-> IF glOk THEN 0 ELSE glGen[s]]
    BY <1>10 DEF WindowEnd
  <2>2. win'.pc = "gone"
    BY <1>0, <2>1, WinMoves DEF WinPcs
  <2>3. \A s \in Slots : glGen'[s] = 0
    BY <2>1 DEF EndOrder, Nothing
  <2>4. alive
    BY <2>1 DEF EndOrder
  <2> QED
    BY <2>1, <2>2, <2>3, <2>4 DEF EndOrder, Nothing
<1>11. CASE UNCHANGED <<alive, emu, win, glGen, glOk>> /\ (vkQueue' = vkQueue \/ alive)
  BY <1>11 DEF EndOrder, Nothing
<1>12. CASE VkExecute
  <2>1. vkQueue # <<>> /\ UNCHANGED <<alive, emu, win, glGen, glOk>>
    BY <1>12 DEF VkExecute, lifeVars
  <2> QED
    BY <1>11, <2>1 DEF EndOrder
<1>13. CASE PresentCannot \/ Close \/ GlExecute \/ UNCHANGED vars
  BY <1>11, <1>13 DEF PresentCannot, Close, GlExecute, vars, gpuVars, lifeVars
<1> QED
  BY <1>2, <1>3, <1>4, <1>5, <1>7, <1>8, <1>9, <1>10, <1>12, <1>13 DEF Next, EmuNext, WinNext, Over

\* When the device is destroyed, nothing of it is imported or queued (wlvk_destroy after the join).
THEOREM WindowGoneFirst == Spec => []DestroyedLast
<1>1. Init => EndOrder
  BY DEF Init, EndOrder, Nothing
<1>2. EndOrder => DestroyedLast
  BY DEF EndOrder, Nothing, DestroyedLast
<1> QED
  BY <1>1, <1>2, EndOrderStep, FramesTypeCorrect, PTL DEF Spec

-----------------------------------------------------------------------------
(* Counting in a queue.                                                    *)

Places(q, ops) == {k \in DOMAIN q : q[k] \in ops}
Unit(b) == IF b THEN 1 ELSE 0

LEMMA CountType ==
    ASSUME NEW T, NEW q \in Seq(T), NEW ops
    PROVE  /\ Places(q, ops) \subseteq 1 .. Len(q) /\ IsFiniteSet(Places(q, ops))
           /\ Count(q, ops) = Cardinality(Places(q, ops)) /\ Count(q, ops) \in Nat
<1>1. Places(q, ops) \subseteq 1 .. Len(q)
  BY DEF Places
<1>2. IsFiniteSet(1 .. Len(q))
  BY FS_Interval
<1>3. IsFiniteSet(Places(q, ops))
  BY <1>1, <1>2, FS_Subset
<1>4. Count(q, ops) = Cardinality(Places(q, ops))
  BY DEF Count, Places
<1> QED
  BY <1>1, <1>3, <1>4, FS_CardinalityType

LEMMA CountAppend ==
    ASSUME NEW T, NEW q \in Seq(T), NEW e \in T, NEW ops
    PROVE  Count(Append(q, e), ops) = Count(q, ops) + Unit(e \in ops)
<1>1. Append(q, e) \in Seq(T) /\ Len(q) \in Nat /\ Len(Append(q, e)) = Len(q) + 1
      /\ Append(q, e)[Len(q) + 1] = e /\ \A k \in 1 .. Len(q) : Append(q, e)[k] = q[k]
  OBVIOUS
<1>2. /\ Places(q, ops) = {k \in 1 .. Len(q) : q[k] \in ops}
      /\ Places(Append(q, e), ops) = {k \in 1 .. Len(q) + 1 : Append(q, e)[k] \in ops}
  BY <1>1 DEF Places
<1>0. /\ IsFiniteSet(Places(q, ops)) /\ Count(q, ops) = Cardinality(Places(q, ops))
      /\ Count(Append(q, e), ops) = Cardinality(Places(Append(q, e), ops))
  BY <1>1, CountType
<1>3. CASE e \in ops
  <2>1. Places(Append(q, e), ops) = Places(q, ops) \cup {Len(q) + 1}
    BY <1>1, <1>2, <1>3
  <2>2. Len(q) + 1 \notin Places(q, ops)
    BY <1>1, <1>2
  <2>3. Cardinality(Places(q, ops) \cup {Len(q) + 1}) = Cardinality(Places(q, ops)) + 1
    BY <1>0, <2>2, FS_AddElement
  <2> QED
    BY <1>0, <1>3, <2>1, <2>3 DEF Unit
<1>4. CASE e \notin ops
  <2>1. Places(Append(q, e), ops) = Places(q, ops)
    BY <1>1, <1>2, <1>4
  <2> QED
    BY <1>0, <1>4, <2>1, CountType DEF Unit
<1> QED
  BY <1>3, <1>4

LEMMA CountTail ==
    ASSUME NEW T, NEW q \in Seq(T), q # <<>>, NEW ops
    PROVE  Count(q, ops) = Count(Tail(q), ops) + Unit(Head(q) \in ops)
<1>1. /\ Tail(q) \in Seq(T) /\ Len(q) \in Nat \ {0} /\ Len(Tail(q)) = Len(q) - 1 /\ Head(q) = q[1]
      /\ \A k \in 1 .. Len(q) - 1 : Tail(q)[k] = q[k + 1]
  OBVIOUS
<1>2. /\ Places(q, ops) = {k \in 1 .. Len(q) : q[k] \in ops}
      /\ Places(Tail(q), ops) = {k \in 1 .. Len(q) - 1 : Tail(q)[k] \in ops}
  BY <1>1 DEF Places
<1> DEFINE P == Places(Tail(q), ops)
           R == Places(q, ops) \ {1}
           f == [k \in P |-> k + 1]
<1>3. \A k \in P : k \in Nat /\ k + 1 \in R
  BY <1>1, <1>2
<1>4. \A m \in R : m - 1 \in P /\ (m - 1) + 1 = m
  BY <1>1, <1>2
<1>5. f \in Bijection(P, R)
  <2>1. f \in [P -> R]
    BY <1>3
  <2>2. \A a, b \in P : f[a] = f[b] => a = b
    BY <1>3
  <2>3. \A m \in R : \E k \in P : f[k] = m
    BY <1>4
  <2> QED
    BY <2>1, <2>2, <2>3 DEF Bijection, Injection, Surjection, IsInjective
<1>6. Cardinality(R) = Cardinality(P)
  BY <1>1, <1>5, CountType, FS_Bijection DEF ExistsBijection
<1>7. 1 \in Places(q, ops) <=> Head(q) \in ops
  BY <1>1, <1>2
<1>8. /\ Count(q, ops) = Cardinality(Places(q, ops)) /\ IsFiniteSet(Places(q, ops))
      /\ Count(Tail(q), ops) = Cardinality(P)
      /\ Cardinality(P) \in Nat /\ Cardinality(Places(q, ops)) \in Nat
  BY <1>1, CountType
<1>9. Cardinality(R) = IF 1 \in Places(q, ops) THEN Cardinality(Places(q, ops)) - 1
                       ELSE Cardinality(Places(q, ops))
  BY <1>8, FS_RemoveElement
<1> QED
  BY <1>6, <1>7, <1>8, <1>9 DEF Unit

\* Something counted is queued; two of them stand at two places.
LEMMA CountSome ==
    ASSUME NEW T, NEW q \in Seq(T), NEW ops
    PROVE  Count(q, ops) >= 1 <=> Queued(q, ops)
<1>1. Count(q, ops) = 0 <=> Places(q, ops) = {}
  BY CountType, FS_EmptySet
<1>2. Queued(q, ops) <=> Places(q, ops) # {}
  BY DEF Queued, Places
<1> QED
  BY <1>1, <1>2, CountType

LEMMA CountTwo ==
    ASSUME NEW T, NEW q \in Seq(T), NEW ops
    PROVE  Count(q, ops) >= 2 <=> \E j, k \in Places(q, ops) : j < k
<1> DEFINE P == Places(q, ops)
<1>0. IsFiniteSet(P) /\ P \subseteq Nat /\ Count(q, ops) = Cardinality(P) /\ Cardinality(P) \in Nat
  BY CountType
<1> HIDE DEF P
<1>1. ASSUME NEW x \in P
      PROVE  /\ IsFiniteSet(P \ {x}) /\ Cardinality(P \ {x}) \in Nat
             /\ Cardinality(P) = Cardinality(P \ {x}) + 1
  <2>1. IsFiniteSet(P \ {x}) /\ Cardinality(P \ {x}) = Cardinality(P) - 1
    BY <1>0, FS_RemoveElement
  <2>2. Cardinality(P \ {x}) \in Nat
    BY <2>1, FS_CardinalityType
  <2> QED
    BY <1>0, <2>1, <2>2
<1>2. ASSUME NEW j \in P, NEW k \in P, j < k PROVE Cardinality(P) >= 2
  <2>1. k \in P \ {j}
    BY <1>0, <1>2
  <2>2. IsFiniteSet(P \ {j}) /\ Cardinality(P \ {j}) # 0
    BY <1>1, <2>1, FS_EmptySet
  <2> QED
    BY <1>0, <1>1, <2>2
<1>3. ASSUME Cardinality(P) >= 2 PROVE \E j, k \in P : j < k
  <2>0. P # {}
    BY <1>0, <1>3, FS_EmptySet
  <2>1. PICK j \in P : TRUE
    BY <2>0
  <2>2. Cardinality(P \ {j}) # 0
    <3>1. Cardinality(P) = Cardinality(P \ {j}) + 1 /\ Cardinality(P \ {j}) \in Nat
      BY <1>1
    <3> QED
      BY <1>3, <3>1
  <2>3. PICK k \in P \ {j} : TRUE
    BY <2>2, FS_EmptySet
  <2>4. j < k \/ k < j
    BY <1>0, <2>1, <2>3
  <2> QED
    BY <2>4
<1> QED
  BY <1>0, <1>2, <1>3 DEF P

LEMMA CountMono ==
    ASSUME NEW T, NEW q \in Seq(T), NEW ops, NEW more, ops \subseteq more
    PROVE  Count(q, ops) <= Count(q, more)
<1>1. Places(q, ops) \subseteq Places(q, more)
  BY DEF Places
<1> QED
  BY <1>1, CountType, FS_Subset

-----------------------------------------------------------------------------
(* What stands in the two queues of the GPU for a slot.                    *)

Uses(s) == {Wait(s), Draw(s)}

\* GL gives the slot back after whatever it still does with it.
Returned(q, s) ==
    \A j \in DOMAIN q : q[j] \in Uses(s) => \E i \in DOMAIN q : j < i /\ q[i] = Signal(s)

\* Between two turns of GL with a slot it gives the slot back.
Alternates(q, s) ==
    \A j, k \in DOMAIN q :
        j < k /\ q[j] \in Uses(s) /\ q[k] = Wait(s)
            => \E i \in DOMAIN q : j < i /\ i < k /\ q[i] = Signal(s)

LEMMA GlOpsApart ==
    ASSUME NEW s, NEW t
    PROVE  /\ Wait(s) # Draw(t) /\ Wait(s) # Signal(t) /\ Draw(s) # Signal(t)
           /\ Wait(s) = Wait(t) => s = t
           /\ Draw(s) = Draw(t) => s = t
           /\ Signal(s) = Signal(t) => s = t
           /\ Wait(s).op = "wait" /\ Draw(s).op = "draw" /\ Signal(s).op = "signal"
           /\ Wait(s).slot = s /\ Draw(s).slot = s /\ Signal(s).slot = s
  BY DEF Wait, Draw, Signal

LEMMA GlOpIs ==
    ASSUME NEW e \in GlOps
    PROVE  /\ e.slot \in Slots /\ e.op \in {"wait", "draw", "signal"}
           /\ e.op = "wait" => e = Wait(e.slot)
           /\ e.op = "draw" => e = Draw(e.slot)
           /\ e.op = "signal" => e = Signal(e.slot)
  BY DEF GlOps, Wait, Draw, Signal

LEMMA GlOpsTyped == \A s \in Slots : Wait(s) \in GlOps /\ Draw(s) \in GlOps /\ Signal(s) \in GlOps
  BY DEF GlOps, Wait, Draw, Signal

LEMMA CopiesApart ==
    ASSUME NEW s, NEW t, NEW b \in BOOLEAN
    PROVE  /\ Copy(t, b) \in Copies(s) <=> s = t
           /\ Copy(t, b) \in {Copy(s, TRUE)} <=> s = t /\ b = TRUE
           /\ \A i : Sync(i) \notin Copies(s) /\ Sync(i) \notin {Copy(s, TRUE)}
           /\ Read \notin Copies(s) /\ Read \notin {Copy(s, TRUE)}
  BY DEF Copy, Copies, Sync, Read

LEMMA VkOpIs ==
    ASSUME NEW e \in VkOps
    PROVE  \/ e.op = "copy" /\ e.slot \in Slots /\ e.waits \in BOOLEAN /\ e = Copy(e.slot, e.waits)
           \/ e.op # "copy" /\ ((\E i \in SyncIndices : e = Sync(i)) \/ e = Read)
  BY DEF VkOps, Copy, Sync, Read

LEMMA AppendPlaces ==
    ASSUME NEW T, NEW q \in Seq(T), NEW e \in T
    PROVE  /\ Append(q, e) \in Seq(T)
           /\ DOMAIN q = 1 .. Len(q) /\ DOMAIN Append(q, e) = 1 .. Len(q) + 1 /\ Len(q) \in Nat
           /\ Append(q, e)[Len(q) + 1] = e
           /\ \A k \in DOMAIN q : Append(q, e)[k] = q[k]
  OBVIOUS

LEMMA TailPlaces ==
    ASSUME NEW T, NEW q \in Seq(T), q # <<>>
    PROVE  /\ Tail(q) \in Seq(T) /\ Head(q) = q[1] /\ Head(q) \in T
           /\ DOMAIN q = 1 .. Len(q) /\ DOMAIN Tail(q) = 1 .. Len(q) - 1 /\ Len(q) \in Nat \ {0}
           /\ \A k \in DOMAIN Tail(q) : k + 1 \in DOMAIN q /\ Tail(q)[k] = q[k + 1]
           /\ \A k \in DOMAIN q : k > 1 => k - 1 \in DOMAIN Tail(q) /\ Tail(q)[k - 1] = q[k]
  OBVIOUS

\* Giving a slot back at the end settles it; nothing but a use unsettles it.
LEMMA ReturnedAppend ==
    ASSUME NEW q \in Seq(GlOps), NEW e \in GlOps, NEW s,
           e = Signal(s) \/ (Returned(q, s) /\ e \notin Uses(s))
    PROVE  Returned(Append(q, e), s)
<1> DEFINE r == Append(q, e)
<1>1. /\ DOMAIN q = 1 .. Len(q) /\ DOMAIN r = 1 .. Len(q) + 1 /\ Len(q) \in Nat
      /\ r[Len(q) + 1] = e /\ \A k \in DOMAIN q : r[k] = q[k]
  BY AppendPlaces
<1>2. Signal(s) \notin Uses(s)
  BY GlOpsApart DEF Uses
<1> HIDE DEF r
<1>3. SUFFICES ASSUME NEW j \in DOMAIN r, r[j] \in Uses(s)
               PROVE  \E i \in DOMAIN r : j < i /\ r[i] = Signal(s)
  BY DEF Returned, r
<1>4. j \in DOMAIN q /\ q[j] \in Uses(s)
  BY <1>1, <1>2, <1>3
<1>5. CASE e = Signal(s)
  BY <1>1, <1>4, <1>5
<1>6. CASE Returned(q, s)
  <2>1. PICK i \in DOMAIN q : j < i /\ q[i] = Signal(s)
    BY <1>4, <1>6 DEF Returned
  <2> QED
    BY <1>1, <2>1
<1> QED
  BY <1>5, <1>6

LEMMA AlternatesAppend ==
    ASSUME NEW q \in Seq(GlOps), NEW e \in GlOps, NEW s,
           Alternates(q, s), e # Wait(s) \/ Returned(q, s)
    PROVE  Alternates(Append(q, e), s)
<1> DEFINE r == Append(q, e)
<1>1. /\ DOMAIN q = 1 .. Len(q) /\ DOMAIN r = 1 .. Len(q) + 1 /\ Len(q) \in Nat
      /\ r[Len(q) + 1] = e /\ \A k \in DOMAIN q : r[k] = q[k]
  BY AppendPlaces
<1> HIDE DEF r
<1>2. SUFFICES ASSUME NEW j \in DOMAIN r, NEW k \in DOMAIN r, j < k, r[j] \in Uses(s), r[k] = Wait(s)
               PROVE  \E i \in DOMAIN r : j < i /\ i < k /\ r[i] = Signal(s)
  BY DEF Alternates, r
<1>3. j \in DOMAIN q /\ q[j] \in Uses(s)
  BY <1>1, <1>2
<1>4. CASE k \in DOMAIN q
  <2>1. PICK i \in DOMAIN q : j < i /\ i < k /\ q[i] = Signal(s)
    BY <1>1, <1>2, <1>3, <1>4 DEF Alternates
  <2> QED
    BY <1>1, <2>1
<1>5. CASE k = Len(q) + 1
  <2>1. Returned(q, s)
    BY <1>1, <1>2, <1>5
  <2>2. PICK i \in DOMAIN q : j < i /\ q[i] = Signal(s)
    BY <1>3, <2>1 DEF Returned
  <2> QED
    BY <1>1, <1>5, <2>2
<1> QED
  BY <1>1, <1>4, <1>5

LEMMA TailKeeps ==
    ASSUME NEW q \in Seq(GlOps), q # <<>>, NEW s
    PROVE  /\ Returned(q, s) => Returned(Tail(q), s)
           /\ Alternates(q, s) => Alternates(Tail(q), s)
<1> DEFINE r == Tail(q)
<1>1. /\ DOMAIN q = 1 .. Len(q) /\ DOMAIN r = 1 .. Len(q) - 1 /\ Len(q) \in Nat \ {0}
      /\ \A k \in DOMAIN r : k + 1 \in DOMAIN q /\ r[k] = q[k + 1]
      /\ \A k \in DOMAIN q : k > 1 => k - 1 \in DOMAIN r /\ r[k - 1] = q[k]
  BY TailPlaces
<1> HIDE DEF r
<1>2. ASSUME Returned(q, s), NEW j \in DOMAIN r, r[j] \in Uses(s)
      PROVE  \E i \in DOMAIN r : j < i /\ r[i] = Signal(s)
  <2>1. PICK i \in DOMAIN q : j + 1 < i /\ q[i] = Signal(s)
    BY <1>1, <1>2 DEF Returned
  <2>2. i - 1 \in DOMAIN r /\ j < i - 1 /\ r[i - 1] = Signal(s)
    BY <1>1, <2>1
  <2> QED
    BY <2>2
<1>3. ASSUME Alternates(q, s), NEW j \in DOMAIN r, NEW k \in DOMAIN r, j < k, r[j] \in Uses(s), r[k] = Wait(s)
      PROVE  \E i \in DOMAIN r : j < i /\ i < k /\ r[i] = Signal(s)
  <2>1. /\ j + 1 \in DOMAIN q /\ k + 1 \in DOMAIN q /\ j + 1 < k + 1
        /\ q[j + 1] \in Uses(s) /\ q[k + 1] = Wait(s)
    BY <1>1, <1>3
  <2>2. PICK i \in DOMAIN q : j + 1 < i /\ i < k + 1 /\ q[i] = Signal(s)
    BY <1>3, <2>1 DEF Alternates
  <2>3. i - 1 \in DOMAIN r /\ j < i - 1 /\ i - 1 < k /\ r[i - 1] = Signal(s)
    BY <1>1, <2>2
  <2> QED
    BY <2>3
<1> QED
  BY <1>2, <1>3 DEF Returned, Alternates, r

-----------------------------------------------------------------------------
(* The hand-over of the images: what holds of every slot between the       *)
(* threads and the queues.                                                 *)

Asking(s) == win.pc = "stale" /\ win.fresh /\ shown = s
InHand(s) == emu.pc = "sync" /\ emu.slot = s
Written(s) == Count(vkQueue, Copies(s))
Waiting(s) == Count(vkQueue, {Copy(s, TRUE)})
Taken(s) == Count(glQueue, {Wait(s)})
Given(s) == Count(glQueue, {Signal(s)})

\* One copy at most is on its way, and its fence tells.
Fenced(s) == Written(s) <= 1 /\ (Written(s) >= 1 => slot[s].fencePending)
\* A "done" not yet used belongs to a slot that is free to be picked.
GivenBack(s) == slot[s].donePending => StateOf(s) = "free" /\ ~InHand(s)
\* GL is only behind with a slot that is on show and whose "ready" it has asked for.
Released(s) == StateOf(s) # "shown" \/ Asking(s) => Returned(glQueue, s)
ReadyBalanced(s) == Payload(ready[s]) + Written(s) = Taken(s) + Payload(Unasked(s))
DoneBalanced(s) == Payload(done[s]) + Given(s) = Waiting(s) + Payload(slot[s].donePending)
HandedOver(s) ==
    /\ Fenced(s) /\ GivenBack(s) /\ Released(s) /\ Alternates(glQueue, s)
    /\ ReadyBalanced(s) /\ DoneBalanced(s)

LEMMA CountsTyped ==
    ASSUME VkTyped, GlTyped, NEW s \in Slots
    PROVE  /\ Written(s) \in Nat /\ Waiting(s) \in Nat /\ Taken(s) \in Nat /\ Given(s) \in Nat
           /\ Waiting(s) <= Written(s)
           /\ Written(s) >= 1 <=> Queued(vkQueue, Copies(s))
<1>1. vkQueue \in Seq(VkOps) /\ glQueue \in Seq(GlOps)
  BY DEF VkTyped, GlTyped
<1>2. {Copy(s, TRUE)} \subseteq Copies(s)
  BY DEF Copies
<1>3. Waiting(s) <= Written(s)
  BY <1>1, <1>2, CountMono DEF Waiting, Written
<1>4. Written(s) \in Nat /\ Waiting(s) \in Nat /\ Taken(s) \in Nat /\ Given(s) \in Nat
  BY <1>1, CountType DEF Written, Waiting, Taken, Given
<1>5. Written(s) >= 1 <=> Queued(vkQueue, Copies(s))
  BY <1>1, CountSome DEF Written
<1> QED
  BY <1>3, <1>4, <1>5

\* A use that is given back leaves one "done" behind it; with a later "ready", two.
LEMMA GivenAfter ==
    ASSUME NEW q \in Seq(GlOps), NEW s, Returned(q, s), NEW j \in DOMAIN q, q[j] \in Uses(s)
    PROVE  /\ Count(q, {Signal(s)}) \in Nat /\ Count(q, {Signal(s)}) >= 1
           /\ Head(q) = Signal(s) => Count(q, {Signal(s)}) >= 2
           /\ \A k \in DOMAIN q : j < k /\ q[k] = Wait(s) /\ Alternates(q, s)
                                    => Count(q, {Signal(s)}) >= 2
<1> DEFINE P == Places(q, {Signal(s)})
<1>1. PICK i \in DOMAIN q : j < i /\ q[i] = Signal(s)
  BY DEF Returned
<1>2. DOMAIN q = 1 .. Len(q) /\ Len(q) \in Nat
  OBVIOUS
<1>3. Count(q, {Signal(s)}) \in Nat
  BY CountType
<1>4. Queued(q, {Signal(s)})
  BY <1>1 DEF Queued
<1>5. \A a, b \in P : a < b => Count(q, {Signal(s)}) >= 2
  BY CountTwo
<1>6. i \in P
  BY <1>1 DEF Places
<1>7. ASSUME Head(q) = Signal(s) PROVE Count(q, {Signal(s)}) >= 2
  <2>1. 1 \in P /\ 1 < i
    BY <1>1, <1>2, <1>7 DEF Places
  <2> QED
    BY <1>5, <1>6, <2>1
<1>8. ASSUME NEW k \in DOMAIN q, j < k, q[k] = Wait(s), Alternates(q, s)
      PROVE  Count(q, {Signal(s)}) >= 2
  <2>1. PICK a \in DOMAIN q : j < a /\ a < k /\ q[a] = Signal(s)
    BY <1>8 DEF Alternates
  <2>2. q[k] \in Uses(s)
    BY <1>8 DEF Uses
  <2>3. PICK b \in DOMAIN q : k < b /\ q[b] = Signal(s)
    BY <1>8, <2>2 DEF Returned
  <2>4. a \in P /\ b \in P /\ a < b
    BY <1>2, <1>8, <2>1, <2>3 DEF Places
  <2> QED
    BY <1>5, <2>4
<1> QED
  BY <1>3, <1>4, <1>7, <1>8, CountSome

\* What a slot that GL has not asked for, or has given back, is like.
LEMMA Handed ==
    ASSUME TypeOK, Held, NEW s \in Slots, HandedOver(s)
    PROVE  /\ Unasked(s) => ~slot[s].donePending /\ Returned(glQueue, s)
           /\ slot[s].donePending => Returned(glQueue, s)
<1>1. slot[s].donePending \in BOOLEAN
  BY TypeParts DEF SlotTyped, SlotType
<1>2. slot[s].donePending => StateOf(s) = "free" /\ ~InHand(s)
  BY DEF HandedOver, GivenBack
<1>3. Unasked(s) <=> StateOf(s) \in {"ready", "stale"} \/ InHand(s) \/ Asking(s)
  BY DEF Unasked, InHand, Asking, StateOf
<1>4. Asking(s) => StateOf(s) = "shown"
  BY DEF Asking, Held, ShownHeld
<1>5. InHand(s) => StateOf(s) = "free"
  BY DEF InHand, Held, HandHeld
<1>6. StateOf(s) # "shown" \/ Asking(s) => Returned(glQueue, s)
  BY DEF HandedOver, Released
<1> QED
  BY <1>2, <1>3, <1>4, <1>5, <1>6

\* A copy that can run finds the slot's "ready" taken and no draw of it outstanding.
LEMMA CopyAlone ==
    ASSUME TypeOK, Held, NEW s \in Slots, HandedOver(s),
           Written(s) >= 1, Waiting(s) >= 1 => done[s]
    PROVE  ~ready[s] /\ ~DrawOutstanding(s)
<1>0. VkTyped /\ GlTyped /\ glQueue \in Seq(GlOps) /\ DOMAIN glQueue = 1 .. Len(glQueue) /\ Len(glQueue) \in Nat
  BY TypeParts DEF GlTyped
<1>1. ready[s] \in BOOLEAN /\ done[s] \in BOOLEAN /\ slot[s].donePending \in BOOLEAN
  BY TypeParts DEF GpuTyped, SlotTyped, SlotType
<1>2. /\ Written(s) \in Nat /\ Waiting(s) \in Nat /\ Taken(s) \in Nat /\ Given(s) \in Nat
      /\ Waiting(s) <= Written(s) /\ Written(s) <= 1
  BY <1>0, CountsTyped DEF HandedOver, Fenced
<1>3. /\ Payload(ready[s]) + 1 = Taken(s) + Payload(Unasked(s))
      /\ Payload(done[s]) + Given(s) = Waiting(s) + Payload(slot[s].donePending)
  BY <1>2 DEF HandedOver, ReadyBalanced, DoneBalanced
<1>4. Given(s) <= Payload(slot[s].donePending)
  BY <1>1, <1>2, <1>3 DEF Payload
<1>5. ASSUME NEW j \in DOMAIN glQueue, glQueue[j] \in Uses(s), slot[s].donePending \/ Unasked(s)
      PROVE  slot[s].donePending /\ ~Unasked(s)
  <2>1. Returned(glQueue, s)
    BY <1>5, Handed
  <2>2. Given(s) >= 1
    BY <1>0, <1>5, <2>1, GivenAfter DEF Given
  <2> QED
    BY <1>1, <1>2, <1>4, <2>2, Handed DEF Payload
<1>6. ASSUME NEW j \in DOMAIN glQueue, NEW k \in DOMAIN glQueue, j < k,
             glQueue[j] \in Uses(s), glQueue[k] = Wait(s)
      PROVE  FALSE
  <2>1. Alternates(glQueue, s)
    BY DEF HandedOver
  <2>2. PICK i \in DOMAIN glQueue : glQueue[i] = Signal(s)
    BY <1>6, <2>1 DEF Alternates
  <2>3. Given(s) >= 1
    BY <1>0, <2>2, CountSome DEF Given, Queued
  <2>4. slot[s].donePending
    BY <1>1, <1>2, <1>4, <2>3 DEF Payload
  <2>5. Returned(glQueue, s)
    BY <2>4, Handed
  <2>6. Given(s) >= 2
    BY <1>0, <1>6, <2>1, <2>5, GivenAfter DEF Given
  <2> QED
    BY <1>1, <1>2, <1>4, <2>6 DEF Payload
<1>7. ASSUME NEW j \in DOMAIN glQueue, glQueue[j] \in Uses(s) PROVE ~Unasked(s)
  BY <1>5, <1>7
<1>8. ~ready[s]
  <2>1. SUFFICES ASSUME ready[s] PROVE FALSE
    BY <1>1
  <2>2. Taken(s) >= 1
    BY <1>2, <1>3, <2>1 DEF Payload
  <2>3. PICK j \in DOMAIN glQueue : glQueue[j] = Wait(s)
    BY <1>0, <2>2, CountSome DEF Taken, Queued
  <2>4. ~Unasked(s)
    BY <1>7, <2>3 DEF Uses
  <2>5. Taken(s) >= 2
    BY <1>2, <1>3, <2>1, <2>4 DEF Payload
  <2>6. \E a, b \in Places(glQueue, {Wait(s)}) : a < b
    BY <1>0, <2>5, CountTwo DEF Taken
  <2> QED
    BY <1>6, <2>6 DEF Places, Uses
<1>9. ~DrawOutstanding(s)
  <2>1. SUFFICES ASSUME NEW j \in DOMAIN glQueue, glQueue[j] = Draw(s),
                        \A i \in 1 .. j : glQueue[i] # Wait(s)
                 PROVE  FALSE
    BY DEF DrawOutstanding
  <2>2. glQueue[j] \in Uses(s) /\ ~Unasked(s)
    BY <1>7, <2>1 DEF Uses
  <2>3. Taken(s) >= 1
    BY <1>1, <1>2, <1>3, <2>2 DEF Payload
  <2>4. PICK k \in DOMAIN glQueue : glQueue[k] = Wait(s)
    BY <1>0, <2>3, CountSome DEF Taken, Queued
  <2>5. j < k
    BY <1>0, <2>1, <2>4
  <2> QED
    BY <1>6, <2>2, <2>4, <2>5
<1> QED
  BY <1>8, <1>9

\* A slot's "done" is never given while an earlier one is unused.
LEMMA SignalAlone ==
    ASSUME TypeOK, Held, NEW s \in Slots, HandedOver(s), glQueue # <<>>, Head(glQueue) = Signal(s)
    PROVE  ~done[s]
<1>0. VkTyped /\ GlTyped /\ glQueue \in Seq(GlOps) /\ Len(glQueue) \in Nat \ {0}
  BY TypeParts DEF GlTyped
<1>1. ready[s] \in BOOLEAN /\ done[s] \in BOOLEAN /\ slot[s].donePending \in BOOLEAN
  BY TypeParts DEF GpuTyped, SlotTyped, SlotType
<1>2. /\ Written(s) \in Nat /\ Waiting(s) \in Nat /\ Taken(s) \in Nat /\ Given(s) \in Nat
      /\ Waiting(s) <= Written(s) /\ Written(s) <= 1
  BY <1>0, CountsTyped DEF HandedOver, Fenced
<1>3. /\ Payload(ready[s]) + Written(s) = Taken(s) + Payload(Unasked(s))
      /\ Payload(done[s]) + Given(s) = Waiting(s) + Payload(slot[s].donePending)
  BY DEF HandedOver, ReadyBalanced, DoneBalanced
<1>4. SUFFICES ASSUME done[s] PROVE FALSE
  BY <1>1
<1>5. Given(s) >= 1
  <2>1. Queued(glQueue, {Signal(s)})
    BY <1>0 DEF Queued
  <2> QED
    BY <1>0, <2>1, CountSome DEF Given
<1>6. slot[s].donePending /\ Written(s) = 1 /\ Given(s) = 1
  BY <1>1, <1>2, <1>3, <1>4, <1>5 DEF Payload
<1>7. Returned(glQueue, s) /\ ~Unasked(s)
  BY <1>6, Handed
<1>8. Taken(s) >= 1
  BY <1>1, <1>2, <1>3, <1>6, <1>7 DEF Payload
<1>9. PICK k \in DOMAIN glQueue : glQueue[k] = Wait(s)
  BY <1>0, <1>8, CountSome DEF Taken, Queued
<1>10. Given(s) >= 2
  BY <1>0, <1>7, <1>9, GivenAfter DEF Given, Uses
<1> QED
  BY <1>6, <1>10

-----------------------------------------------------------------------------
(* Every step keeps every slot handed over properly.                       *)

SameSlot(s) == /\ slot'[s].state = slot[s].state
               /\ slot'[s].donePending = slot[s].donePending
               /\ slot'[s].fencePending = slot[s].fencePending
SameHold(s) == (Asking(s)' <=> Asking(s)) /\ (InHand(s)' <=> InHand(s))
SameVk(s) == Written(s)' = Written(s) /\ Waiting(s)' = Waiting(s)
SameGl(s) == /\ Taken(s)' = Taken(s) /\ Given(s)' = Given(s)
             /\ Returned(glQueue, s) => Returned(glQueue', s)
             /\ Alternates(glQueue, s) => Alternates(glQueue', s)
SameGpu(s) == ready'[s] = ready[s] /\ done'[s] = done[s]

LEMMA UnaskedIs == \A s \in Slots :
    /\ Unasked(s) <=> StateOf(s) \in {"ready", "stale"} \/ InHand(s) \/ Asking(s)
    /\ Unasked(s)' <=> StateOf(s)' \in {"ready", "stale"} \/ InHand(s)' \/ Asking(s)'
  BY DEF Unasked, InHand, Asking, StateOf

LEMMA HandedKept ==
    ASSUME NEW s \in Slots, HandedOver(s), SameSlot(s), SameHold(s), SameVk(s), SameGl(s), SameGpu(s)
    PROVE  HandedOver(s)'
<1>1. Unasked(s)' <=> Unasked(s)
  BY UnaskedIs DEF SameSlot, SameHold, StateOf
<1>2. Fenced(s)' /\ GivenBack(s)'
  BY DEF HandedOver, Fenced, GivenBack, SameSlot, SameHold, SameVk, StateOf
<1>3. Released(s)' /\ Alternates(glQueue, s)'
  BY DEF HandedOver, Released, SameSlot, SameHold, SameGl, StateOf
<1>4. ReadyBalanced(s)' /\ DoneBalanced(s)'
  BY <1>1 DEF HandedOver, ReadyBalanced, DoneBalanced, SameSlot, SameVk, SameGl, SameGpu, Payload
<1> QED
  BY <1>2, <1>3, <1>4 DEF HandedOver

LEMMA QueuesKept ==
    ASSUME NEW s
    PROVE  /\ vkQueue' = vkQueue => SameVk(s)
           /\ glQueue' = glQueue => SameGl(s)
           /\ UNCHANGED <<ready, done>> => SameGpu(s)
  BY DEF SameVk, SameGl, SameGpu, Written, Waiting, Taken, Given

LEMMA VkAppended ==
    ASSUME VkTyped, NEW s \in Slots, NEW e \in VkOps, vkQueue' = Append(vkQueue, e)
    PROVE  /\ Written(s)' = Written(s) + Unit(e \in Copies(s))
           /\ Waiting(s)' = Waiting(s) + Unit(e \in {Copy(s, TRUE)})
  BY CountAppend DEF VkTyped, Written, Waiting

LEMMA VkOther ==
    ASSUME VkTyped, GlTyped, NEW s \in Slots, NEW e \in VkOps, vkQueue' = Append(vkQueue, e), e \notin Copies(s)
    PROVE  SameVk(s)
<1>1. e \notin {Copy(s, TRUE)}
  BY DEF Copies
<1>2. Written(s) \in Nat /\ Waiting(s) \in Nat
  BY CountsTyped
<1>3. /\ Written(s)' = Written(s) + Unit(e \in Copies(s))
      /\ Waiting(s)' = Waiting(s) + Unit(e \in {Copy(s, TRUE)})
  BY VkAppended
<1> QED
  BY <1>1, <1>2, <1>3 DEF SameVk, Unit

\* A command for one slot is nothing to another.
LEMMA GlOther ==
    ASSUME NEW q \in Seq(GlOps), NEW t \in Slots, NEW s \in Slots \ {t}, NEW e \in {Wait(t), Draw(t), Signal(t)}
    PROVE  /\ Append(q, e) \in Seq(GlOps)
           /\ Count(Append(q, e), {Wait(s)}) = Count(q, {Wait(s)})
           /\ Count(Append(q, e), {Signal(s)}) = Count(q, {Signal(s)})
           /\ Returned(q, s) => Returned(Append(q, e), s)
           /\ Alternates(q, s) => Alternates(Append(q, e), s)
<1>1. e \in GlOps
  BY GlOpsTyped
<1>2. e # Wait(s) /\ e # Draw(s) /\ e # Signal(s)
  BY GlOpsApart
<1>3. Count(q, {Wait(s)}) \in Nat /\ Count(q, {Signal(s)}) \in Nat
  BY CountType
<1>4. /\ Count(Append(q, e), {Wait(s)}) = Count(q, {Wait(s)}) + Unit(e \in {Wait(s)})
      /\ Count(Append(q, e), {Signal(s)}) = Count(q, {Signal(s)}) + Unit(e \in {Signal(s)})
  BY <1>1, CountAppend
<1>5. Returned(q, s) => Returned(Append(q, e), s)
  BY <1>1, <1>2, ReturnedAppend DEF Uses
<1>6. Alternates(q, s) => Alternates(Append(q, e), s)
  BY <1>1, <1>2, AlternatesAppend
<1> QED
  BY <1>1, <1>2, <1>3, <1>4, <1>5, <1>6 DEF Unit

LEMMA Concat ==
    ASSUME NEW q \in Seq(GlOps), NEW a \in GlOps, NEW b \in GlOps
    PROVE  /\ q \o <<a, b>> = Append(Append(q, a), b)
           /\ q \o <<a>> = Append(q, a)
           /\ (q \o <<a>>) \o <<b>> = Append(Append(q, a), b)
           /\ (q \o <<>>) \o <<b>> = Append(q, b)
           /\ q \o <<>> = q
           /\ Append(q, a) \in Seq(GlOps)
  OBVIOUS

\* Asking a slot for its "ready", drawing it, giving it back.
LEMMA GlAsked ==
    ASSUME NEW q \in Seq(GlOps), NEW s \in Slots, Returned(q, s), Alternates(q, s)
    PROVE  /\ Count(Append(q, Wait(s)), {Wait(s)}) = Count(q, {Wait(s)}) + 1
           /\ Count(Append(q, Wait(s)), {Signal(s)}) = Count(q, {Signal(s)})
           /\ Alternates(Append(q, Wait(s)), s)
<1>1. Wait(s) \in GlOps /\ Wait(s) # Signal(s)
  BY GlOpsTyped, GlOpsApart
<1>2. Count(q, {Wait(s)}) \in Nat /\ Count(q, {Signal(s)}) \in Nat
  BY CountType
<1>3. /\ Count(Append(q, Wait(s)), {Wait(s)}) = Count(q, {Wait(s)}) + Unit(Wait(s) \in {Wait(s)})
      /\ Count(Append(q, Wait(s)), {Signal(s)}) = Count(q, {Signal(s)}) + Unit(Wait(s) \in {Signal(s)})
  BY <1>1, CountAppend
<1> QED
  BY <1>1, <1>2, <1>3, AlternatesAppend DEF Unit

LEMMA GlDrawn ==
    ASSUME NEW q \in Seq(GlOps), NEW s \in Slots, Alternates(q, s)
    PROVE  /\ Count(Append(q, Draw(s)), {Wait(s)}) = Count(q, {Wait(s)})
           /\ Count(Append(q, Draw(s)), {Signal(s)}) = Count(q, {Signal(s)})
           /\ Alternates(Append(q, Draw(s)), s)
<1>1. Draw(s) \in GlOps /\ Wait(s) # Draw(s) /\ Draw(s) # Signal(s)
  BY GlOpsTyped, GlOpsApart
<1>2. Count(q, {Wait(s)}) \in Nat /\ Count(q, {Signal(s)}) \in Nat
  BY CountType
<1>3. /\ Count(Append(q, Draw(s)), {Wait(s)}) = Count(q, {Wait(s)}) + Unit(Draw(s) \in {Wait(s)})
      /\ Count(Append(q, Draw(s)), {Signal(s)}) = Count(q, {Signal(s)}) + Unit(Draw(s) \in {Signal(s)})
  BY <1>1, CountAppend
<1> QED
  BY <1>1, <1>2, <1>3, AlternatesAppend DEF Unit

LEMMA GlGiven ==
    ASSUME NEW q \in Seq(GlOps), NEW s \in Slots, Alternates(q, s)
    PROVE  /\ Count(Append(q, Signal(s)), {Wait(s)}) = Count(q, {Wait(s)})
           /\ Count(Append(q, Signal(s)), {Signal(s)}) = Count(q, {Signal(s)}) + 1
           /\ Returned(Append(q, Signal(s)), s)
           /\ Alternates(Append(q, Signal(s)), s)
<1>1. Signal(s) \in GlOps /\ Wait(s) # Signal(s)
  BY GlOpsTyped, GlOpsApart
<1>2. Count(q, {Wait(s)}) \in Nat /\ Count(q, {Signal(s)}) \in Nat
  BY CountType
<1>3. /\ Count(Append(q, Signal(s)), {Wait(s)}) = Count(q, {Wait(s)}) + Unit(Signal(s) \in {Wait(s)})
      /\ Count(Append(q, Signal(s)), {Signal(s)}) = Count(q, {Signal(s)}) + Unit(Signal(s) \in {Signal(s)})
  BY <1>1, CountAppend
<1> QED
  BY <1>1, <1>2, <1>3, ReturnedAppend, AlternatesAppend DEF Unit

LEMMA Typed ==
    ASSUME TypeOK
    PROVE  /\ VkTyped /\ GlTyped /\ slot \in [Slots -> SlotType] /\ emu \in EmuType /\ win \in WinType
           /\ glQueue \in Seq(GlOps) /\ vkQueue \in Seq(VkOps)
           /\ shown \in Slots \cup {None} /\ (win.pc = "stale" => shown \in Slots)
           /\ win.retired \in Slots \cup {None} /\ win.stale \subseteq Slots
           /\ emu.pc \in {"fence", "sync"} => emu.slot \in Slots /\ emu.size \in Sizes
           /\ ready \in [Slots -> BOOLEAN] /\ done \in [Slots -> BOOLEAN]
  BY TypeParts DEF SlotTyped, EmuTyped, WinTyped, WinType, GlTyped, VkTyped, GpuTyped

\* The window thread's hold on a slot is unchanged as long as it neither picks nor asks.
LEMMA HoldKept ==
    ASSUME NEW s, emu' = emu \/ (emu.pc # "sync" /\ emu'.pc # "sync"),
           \/ UNCHANGED <<win, shown>>
           \/ win.pc # "stale" /\ win'.pc # "stale"
           \/ win'.pc = win.pc /\ win'.fresh = win.fresh /\ shown' = shown
    PROVE  SameHold(s)
  BY DEF SameHold, Asking, InHand

\* A step that touches no slot, no queue and no hold.
LEMMA Quiet ==
    ASSUME TypeOK, NEW s \in Slots, HandedOver(s), slot' = slot, UNCHANGED gpuVars, SameHold(s)
    PROVE  HandedOver(s)'
  BY HandedKept, QueuesKept DEF SameSlot, gpuVars

LEMMA EmuQuiet ==
    ASSUME TypeOK, NEW s \in Slots, HandedOver(s),
           FrameDrop \/ ReadBack \/ ReadBackDone \/ NoReadBack \/ EmuStop \/ EmuDestroy
             \/ \E z \in Sizes, t \in Slots : FramePick(z, t)
    PROVE  HandedOver(s)'
<1>0. emu \in EmuType /\ slot \in [Slots -> SlotType] /\ VkTyped /\ GlTyped
  BY Typed
<1>1. UNCHANGED <<win, shown>> /\ emu.pc # "sync" /\ emu'.pc # "sync"
  BY <1>0 DEF FrameDrop, ReadBack, ReadBackDone, NoReadBack, EmuStop, EmuDestroy, FramePick,
              slotVars, EmuType
<1>2. SameHold(s)
  BY <1>1, HoldKept
<1>3. CASE FrameDrop \/ ReadBackDone \/ NoReadBack \/ EmuStop \/ \E z \in Sizes, t \in Slots : FramePick(z, t)
  <2>1. slot' = slot /\ UNCHANGED gpuVars
    BY <1>3 DEF FrameDrop, ReadBackDone, NoReadBack, EmuStop, FramePick, slotVars
  <2> QED
    BY <1>2, <2>1, Quiet
<1>4. CASE ReadBack
  <2>1. slot' = slot /\ glQueue' = glQueue /\ UNCHANGED <<ready, done>> /\ vkQueue' = Append(vkQueue, Read)
    BY <1>4 DEF ReadBack, slotVars
  <2>2. Read \in VkOps /\ Read \notin Copies(s)
    BY DEF VkOps, Read, Copies, Copy
  <2>3. SameVk(s)
    BY <1>0, <2>1, <2>2, VkOther
  <2>4. SameSlot(s)
    BY <2>1 DEF SameSlot
  <2> QED
    BY <1>2, <2>1, <2>3, <2>4, HandedKept, QueuesKept
<1>5. CASE EmuDestroy
  <2>1. slot' = [t \in Slots |-> [slot[t] EXCEPT !.size = None]] /\ UNCHANGED gpuVars
    BY <1>5 DEF EmuDestroy
  <2>2. SameSlot(s)
    BY <1>0, <2>1 DEF SameSlot, SlotType
  <2> QED
    BY <1>2, <2>1, <2>2, HandedKept, QueuesKept DEF gpuVars
<1> QED
  BY <1>3, <1>4, <1>5

\* The fence is waited for: no copy of the slot in hand is on its way.
LEMMA FenceClear ==
    ASSUME TypeOK, emu.pc = "fence", FenceSignalled(emu.slot), HandedOver(emu.slot)
    PROVE  Written(emu.slot) = 0 /\ Waiting(emu.slot) = 0
<1> DEFINE s == emu.slot
<1>1. s \in Slots /\ VkTyped /\ GlTyped
  BY Typed
<1>2. Written(s) >= 1 <=> Queued(vkQueue, Copies(s))
  BY <1>1, CountsTyped
<1>3. ~(Written(s) >= 1)
  BY <1>1, <1>2 DEF HandedOver, Fenced, FenceSignalled
<1>4. Written(s) \in Nat /\ Waiting(s) \in Nat /\ Waiting(s) <= Written(s)
  BY <1>1, CountsTyped
<1> QED
  BY <1>3, <1>4

LEMMA NoImageHands ==
    ASSUME TypeOK, \A t \in Slots : HandedOver(t), NEW s \in Slots, FrameNoImage
    PROVE  HandedOver(s)'
<1>0. /\ emu \in EmuType /\ slot \in [Slots -> SlotType] /\ emu.pc = "fence" /\ emu.slot \in Slots
      /\ FenceSignalled(emu.slot)
  BY Typed DEF FrameNoImage
<1>1. /\ slot' = [slot EXCEPT ![emu.slot].size = None, ![emu.slot].fencePending = FALSE]
      /\ emu' = [emu EXCEPT !.pc = "after"] /\ UNCHANGED <<win, shown>> /\ UNCHANGED gpuVars
  BY DEF FrameNoImage
<1>2. SameHold(s)
  <2>1. emu'.pc = "after"
    BY <1>0, <1>1 DEF EmuType
  <2> QED
    BY <1>0, <1>1, <2>1, HoldKept
<1>3. SameVk(s) /\ SameGl(s) /\ SameGpu(s)
  BY <1>1, QueuesKept DEF gpuVars
<1>4. CASE s # emu.slot
  <2>1. SameSlot(s)
    BY <1>0, <1>1, <1>4 DEF SameSlot
  <2> QED
    BY <1>2, <1>3, <2>1, HandedKept
<1>5. CASE s = emu.slot
  <2>1. Written(s) = 0 /\ HandedOver(s)
    BY <1>0, <1>5, FenceClear
  <2>2. slot'[s].state = slot[s].state /\ slot'[s].donePending = slot[s].donePending
    <3>1. slot[s] \in SlotType
      BY <1>0
    <3> QED
      BY <1>0, <1>1, <1>5, <3>1 DEF SlotType
  <2>3. Unasked(s)' <=> Unasked(s)
    BY <1>2, <2>2, UnaskedIs DEF SameHold, StateOf
  <2>4. Fenced(s)' /\ GivenBack(s)'
    BY <1>2, <1>3, <2>1, <2>2 DEF HandedOver, Fenced, GivenBack, SameHold, SameVk, StateOf
  <2>5. Released(s)' /\ Alternates(glQueue, s)'
    BY <1>2, <1>3, <2>1, <2>2 DEF HandedOver, Released, SameHold, SameGl, StateOf
  <2>6. ReadyBalanced(s)' /\ DoneBalanced(s)'
    BY <1>3, <2>1, <2>2, <2>3 DEF HandedOver, ReadyBalanced, DoneBalanced, SameVk, SameGl, SameGpu, Payload
  <2> QED
    BY <2>4, <2>5, <2>6 DEF HandedOver
<1> QED
  BY <1>4, <1>5

LEMMA SubmitHands ==
    ASSUME TypeOK, Held, \A t \in Slots : HandedOver(t), NEW s \in Slots, FrameSubmit
    PROVE  HandedOver(s)'
<1> DEFINE e == Copy(emu.slot, slot[emu.slot].donePending)
<1>0. /\ emu \in EmuType /\ slot \in [Slots -> SlotType] /\ emu.pc = "fence" /\ emu.slot \in Slots
      /\ FenceSignalled(emu.slot) /\ VkTyped /\ GlTyped
      /\ slot[emu.slot] \in SlotType /\ slot[emu.slot].donePending \in BOOLEAN
  BY Typed DEF FrameSubmit, SlotType
<1>1. /\ vkQueue' = Append(vkQueue, e) /\ emu' = [emu EXCEPT !.pc = "sync"]
      /\ UNCHANGED <<win, shown, glQueue, ready, done>>
      /\ \A t \in Slots \ {emu.slot} : slot'[t] = slot[t]
      /\ \E g : slot'[emu.slot] = [slot[emu.slot] EXCEPT !.size = emu.size, !.gen = g,
                                         !.fencePending = TRUE, !.donePending = FALSE]
  BY <1>0 DEF FrameSubmit
<1>2. e \in VkOps
  BY <1>0 DEF VkOps
<1>3. emu'.pc = "sync" /\ emu'.slot = emu.slot
  BY <1>0, <1>1 DEF EmuType
<1>4. SameGl(s) /\ SameGpu(s) /\ (Asking(s)' <=> Asking(s))
  BY <1>1, QueuesKept DEF Asking
<1>5. CASE s # emu.slot
  <2>1. SameSlot(s)
    BY <1>1, <1>5 DEF SameSlot
  <2>2. SameHold(s)
    BY <1>0, <1>3, <1>4, <1>5 DEF SameHold, InHand
  <2>3. e \notin Copies(s)
    BY <1>0, <1>5, CopiesApart
  <2>4. SameVk(s)
    BY <1>0, <1>1, <1>2, <2>3, VkOther
  <2> QED
    BY <1>4, <2>1, <2>2, <2>4, HandedKept
<1>6. CASE s = emu.slot
  <2>1. Written(s) = 0 /\ Waiting(s) = 0 /\ HandedOver(s)
    BY <1>0, <1>6, FenceClear
  <2>2. Written(s)' = 1 /\ Waiting(s)' = Payload(slot[s].donePending)
    <3>1. Written(s)' = Written(s) + Unit(e \in Copies(s)) /\ Waiting(s)' = Waiting(s) + Unit(e \in {Copy(s, TRUE)})
      BY <1>0, <1>1, <1>2, VkAppended
    <3>2. e \in Copies(s) /\ (e \in {Copy(s, TRUE)} <=> slot[s].donePending)
      BY <1>0, <1>6, CopiesApart
    <3>3. Unit(e \in Copies(s)) = 1 /\ Unit(e \in {Copy(s, TRUE)}) = Payload(slot[s].donePending)
      BY <3>2 DEF Unit, Payload
    <3>4. Payload(slot[s].donePending) \in Nat
      BY DEF Payload
    <3>5. Written(s)' = 0 + 1 /\ Waiting(s)' = 0 + Payload(slot[s].donePending)
      BY <2>1, <3>1, <3>3
    <3> QED
      BY <3>4, <3>5
  <2>3. slot'[s].state = "free" /\ slot[s].state = "free" /\ ~slot'[s].donePending /\ slot'[s].fencePending
    <3>1. StateOf(s) = "free"
      BY <1>0, <1>6 DEF Held, HandHeld
    <3> QED
      BY <1>0, <1>1, <1>6, <3>1 DEF SlotType, StateOf
  <2>4. ~Unasked(s) /\ Unasked(s)' /\ ~Asking(s)
    <3>1. ~Asking(s)
      BY <2>3 DEF Asking, Held, ShownHeld, StateOf
    <3>2. ~InHand(s) /\ InHand(s)'
      BY <1>0, <1>3, <1>6 DEF InHand
    <3> QED
      BY <2>3, <3>1, <3>2, UnaskedIs DEF StateOf
  <2>5. Fenced(s)' /\ GivenBack(s)'
    BY <2>2, <2>3 DEF Fenced, GivenBack
  <2>6. Released(s)' /\ Alternates(glQueue, s)'
    BY <1>4, <2>1, <2>3 DEF HandedOver, Released, SameGl, StateOf
  <2>7. Taken(s) \in Nat /\ Given(s) \in Nat
    BY <1>0, CountsTyped
  <2>8. ReadyBalanced(s)' /\ DoneBalanced(s)'
    BY <1>0, <1>4, <1>6, <2>1, <2>2, <2>3, <2>4, <2>7
       DEF HandedOver, ReadyBalanced, DoneBalanced, SameGl, SameGpu, Payload
  <2> QED
    BY <2>5, <2>6, <2>8 DEF HandedOver
<1> QED
  BY <1>5, <1>6

LEMMA PublishHands ==
    ASSUME TypeOK, Held, \A t \in Slots : HandedOver(t), NEW s \in Slots, FramePublish
    PROVE  HandedOver(s)'
<1>0. /\ emu \in EmuType /\ slot \in [Slots -> SlotType] /\ emu.pc = "sync" /\ emu.slot \in Slots
      /\ slot[s] \in SlotType /\ VkTyped /\ GlTyped /\ syncIndex \in SyncIndices
  BY Typed, TypeParts DEF FramePublish, SyncTyped
<1>1. /\ vkQueue' = Append(vkQueue, Sync(syncIndex)) /\ emu' = [emu EXCEPT !.pc = "after"]
      /\ UNCHANGED <<win, shown, glQueue, ready, done>>
      /\ slot' = [t \in Slots |-> IF t = emu.slot
                                  THEN [slot[t] EXCEPT !.state = "ready", !.seq = seq + 1]
                                  ELSE Outdated(t)]
  BY DEF FramePublish
<1>2. emu'.pc = "after"
  BY <1>0, <1>1 DEF EmuType
<1>3. SameVk(s)
  <2>1. Sync(syncIndex) \in VkOps
    BY <1>0 DEF VkOps
  <2>2. Sync(syncIndex) \notin Copies(s)
    BY DEF Sync, Copies, Copy
  <2> QED
    BY <1>0, <1>1, <2>1, <2>2, VkOther
<1>4. SameGl(s) /\ SameGpu(s)
  BY <1>1, QueuesKept
<1>5. (Asking(s)' <=> Asking(s)) /\ ~InHand(s)' /\ (InHand(s) <=> s = emu.slot)
  BY <1>0, <1>1, <1>2 DEF Asking, InHand
<1>6. /\ slot'[s].donePending = slot[s].donePending /\ slot'[s].fencePending = slot[s].fencePending
      /\ s = emu.slot => slot'[s].state = "ready"
      /\ s # emu.slot => slot'[s].state = IF slot[s].state = "ready" THEN "stale" ELSE slot[s].state
  <2>1. CASE s = emu.slot
    <3>1. slot'[s] = [slot[s] EXCEPT !.state = "ready", !.seq = seq + 1]
      BY <1>1, <2>1
    <3> QED
      BY <1>0, <2>1, <3>1 DEF SlotType
  <2>2. CASE s # emu.slot
    <3>1. slot'[s] = Outdated(s)
      BY <1>1, <2>2
    <3> QED
      BY <1>0, <2>2, <3>1 DEF SlotType, Outdated
  <2> QED
    BY <2>1, <2>2
<1>7. HandedOver(s) /\ (s = emu.slot => StateOf(s) = "free")
  BY <1>0 DEF Held, HandHeld
<1>8. Unasked(s)' <=> Unasked(s)
  BY <1>5, <1>6, UnaskedIs DEF StateOf
<1>9. Fenced(s)' /\ GivenBack(s)'
  BY <1>3, <1>5, <1>6, <1>7 DEF HandedOver, Fenced, GivenBack, SameVk, StateOf
<1>10. Released(s)' /\ Alternates(glQueue, s)'
  BY <1>4, <1>5, <1>6, <1>7 DEF HandedOver, Released, SameGl, StateOf
<1>11. ReadyBalanced(s)' /\ DoneBalanced(s)'
  BY <1>3, <1>4, <1>6, <1>7, <1>8 DEF HandedOver, ReadyBalanced, DoneBalanced, SameVk, SameGl, SameGpu, Payload
<1> QED
  BY <1>9, <1>10, <1>11 DEF HandedOver

LEMMA PickHands ==
    ASSUME TypeOK, Held, \A t \in Slots : HandedOver(t), NEW s \in Slots, PresentPick
    PROVE  HandedOver(s)'
<1> DEFINE fresh == {t \in Slots : /\ slot[t].state = "ready"
                                   /\ \A u \in Slots : slot[u].state = "ready" => slot[u].seq <= slot[t].seq}
<1>0. slot \in [Slots -> SlotType] /\ HandedOver(s) /\ win.pc = "loop"
  BY Typed DEF PresentPick
<1>1. /\ win' = [pc |-> "stale", stale |-> {t \in Slots : slot[t].state = "stale"}, fresh |-> fresh # {},
                 retired |-> IF fresh = {} THEN None ELSE shown, failed |-> FALSE]
      /\ UNCHANGED gpuVars /\ emu' = emu
      /\ \/ fresh = {} /\ UNCHANGED <<slot, shown>>
         \/ \E t \in fresh : slot' = [slot EXCEPT ![t].state = "shown"] /\ shown' = t
  BY DEF PresentPick
<1>2. win'.fresh = (fresh # {}) /\ win'.pc = "stale" /\ fresh \subseteq Slots
  BY <1>1
<1>3. \A t \in fresh : t \in Slots /\ StateOf(t) = "ready"
  BY DEF StateOf
<1> HIDE DEF fresh
<1>4. ~Asking(s) /\ (InHand(s)' <=> InHand(s)) /\ SameVk(s) /\ SameGl(s) /\ SameGpu(s)
  BY <1>0, <1>1, QueuesKept DEF Asking, InHand, gpuVars
<1>5. CASE fresh = {} /\ UNCHANGED <<slot, shown>>
  <2>1. ~Asking(s)'
    BY <1>2, <1>5 DEF Asking
  <2> QED
    BY <1>0, <1>4, <1>5, <2>1, HandedKept DEF SameSlot, SameHold
<1>6. ASSUME NEW t \in fresh, slot' = [slot EXCEPT ![t].state = "shown"], shown' = t, s # t
      PROVE  HandedOver(s)'
  <2>1. ~Asking(s)'
    BY <1>6 DEF Asking
  <2>2. SameSlot(s)
    BY <1>0, <1>3, <1>6 DEF SameSlot
  <2> QED
    BY <1>0, <1>4, <2>1, <2>2, HandedKept DEF SameHold
<1>7. ASSUME slot' = [slot EXCEPT ![s].state = "shown"], shown' = s, s \in fresh
      PROVE  HandedOver(s)'
  <2>1. Asking(s)'
    BY <1>2, <1>7 DEF Asking
  <2>2. StateOf(s) = "ready"
    BY <1>3, <1>7
  <2>3. /\ slot'[s].state = "shown" /\ slot'[s].donePending = slot[s].donePending
        /\ slot'[s].fencePending = slot[s].fencePending
    <3>1. slot[s] \in SlotType
      BY <1>0
    <3> QED
      BY <1>0, <1>7, <3>1 DEF SlotType
  <2>4. Unasked(s) /\ Unasked(s)' /\ ~slot[s].donePending /\ Returned(glQueue, s)
    BY <1>0, <2>1, <2>2, UnaskedIs, Handed
  <2>5. Fenced(s)' /\ GivenBack(s)'
    BY <1>0, <1>4, <2>3, <2>4 DEF HandedOver, Fenced, GivenBack, SameVk
  <2>6. Released(s)' /\ Alternates(glQueue, s)'
    BY <1>0, <1>4, <2>4 DEF HandedOver, Released, SameGl
  <2>7. ReadyBalanced(s)' /\ DoneBalanced(s)'
    BY <1>0, <1>4, <2>3, <2>4 DEF HandedOver, ReadyBalanced, DoneBalanced, SameVk, SameGl, SameGpu, Payload
  <2> QED
    BY <2>5, <2>6, <2>7 DEF HandedOver
<1> QED
  BY <1>1, <1>5, <1>6, <1>7

LEMMA GivenFields ==
    ASSUME SlotTyped, NEW s \in Slots, GiveBack(s)
    PROVE  slot'[s].state = "free" /\ slot'[s].donePending /\ slot'[s].fencePending = slot[s].fencePending
  BY DEF SlotTyped, SlotType, GiveBack

\* A slot GL gives back: one "done" is issued for it, and one is pending.
LEMMA GiveBackHands ==
    ASSUME TypeOK, Held, NEW s \in Slots, HandedOver(s), StateOf(s) # "free", GiveBack(s),
           emu' = emu, UNCHANGED <<vkQueue, ready, done>>, ~Asking(s)',
           NEW q \in Seq(GlOps), Alternates(q, s), glQueue' = Append(q, Signal(s)),
           Count(q, {Signal(s)}) = Given(s),
           Count(q, {Wait(s)}) = Taken(s) + Payload(Unasked(s))
    PROVE  HandedOver(s)'
<1>0. slot \in [Slots -> SlotType] /\ slot[s] \in SlotType /\ slot[s].donePending \in BOOLEAN
      /\ emu.pc \in {"fence", "sync"} => emu.slot \in Slots
  BY Typed DEF SlotType
<1>1. slot'[s].state = "free" /\ slot'[s].donePending /\ slot'[s].fencePending = slot[s].fencePending
  BY GivenFields, TypeParts
<1>2. ~InHand(s)'
  BY DEF InHand, Held, HandHeld
<1>3. ~Unasked(s)' /\ ~slot[s].donePending
  BY <1>0, <1>1, <1>2, UnaskedIs DEF HandedOver, GivenBack, StateOf
<1>4. SameVk(s) /\ SameGpu(s)
  BY QueuesKept
<1>5. /\ Taken(s)' = Taken(s) + Payload(Unasked(s)) /\ Given(s)' = Given(s) + 1
      /\ Returned(glQueue, s)' /\ Alternates(glQueue, s)'
  BY GlGiven DEF Taken, Given
<1>6. Fenced(s)' /\ GivenBack(s)' /\ Released(s)'
  BY <1>1, <1>2, <1>4, <1>5 DEF HandedOver, Fenced, GivenBack, Released, SameVk, StateOf
<1>7. Taken(s) \in Nat /\ Given(s) \in Nat /\ Written(s) \in Nat /\ Waiting(s) \in Nat
  BY Typed, CountsTyped
<1>8. ReadyBalanced(s)' /\ DoneBalanced(s)'
  BY <1>1, <1>3, <1>4, <1>5, <1>7 DEF HandedOver, ReadyBalanced, DoneBalanced, SameVk, SameGpu, Payload
<1> QED
  BY <1>5, <1>6, <1>8 DEF HandedOver

LEMMA StaleHands ==
    ASSUME TypeOK, Held, \A t \in Slots : HandedOver(t), NEW s \in Slots, NEW d \in Slots, PresentStale(d)
    PROVE  HandedOver(s)'
<1>0. /\ slot \in [Slots -> SlotType] /\ win \in WinType /\ glQueue \in Seq(GlOps)
      /\ win.pc = "stale" /\ d \in win.stale
  BY Typed DEF PresentStale
<1>1. /\ glQueue' = Append(Append(glQueue, Wait(d)), Signal(d)) /\ GiveBack(d)
      /\ win' = [win EXCEPT !.stale = @ \ {d}]
      /\ UNCHANGED <<shown, vkQueue, ready, done, emu>>
  BY <1>0, Concat, GlOpsTyped DEF PresentStale
<1>2. win'.pc = win.pc /\ win'.fresh = win.fresh
  BY <1>0, <1>1 DEF WinType
<1>3. SameHold(s) /\ SameVk(s) /\ SameGpu(s)
  BY <1>1, <1>2, HoldKept, QueuesKept
<1>4. CASE s # d
  <2>1. SameSlot(s)
    BY <1>0, <1>1, <1>4 DEF GiveBack, SameSlot
  <2>2. /\ Append(glQueue, Wait(d)) \in Seq(GlOps)
        /\ Count(Append(glQueue, Wait(d)), {Wait(s)}) = Count(glQueue, {Wait(s)})
        /\ Count(Append(glQueue, Wait(d)), {Signal(s)}) = Count(glQueue, {Signal(s)})
        /\ Returned(glQueue, s) => Returned(Append(glQueue, Wait(d)), s)
        /\ Alternates(glQueue, s) => Alternates(Append(glQueue, Wait(d)), s)
    BY <1>0, <1>4, GlOther
  <2>3. /\ Count(glQueue', {Wait(s)}) = Count(Append(glQueue, Wait(d)), {Wait(s)})
        /\ Count(glQueue', {Signal(s)}) = Count(Append(glQueue, Wait(d)), {Signal(s)})
        /\ Returned(Append(glQueue, Wait(d)), s) => Returned(glQueue', s)
        /\ Alternates(Append(glQueue, Wait(d)), s) => Alternates(glQueue', s)
    BY <1>1, <1>4, <2>2, GlOther
  <2>4. SameGl(s)
    BY <2>2, <2>3 DEF SameGl, Taken, Given
  <2> QED
    BY <1>3, <2>1, <2>4, HandedKept
<1>5. CASE s = d
  <2>1. StateOf(s) = "stale"
    BY <1>0, <1>5 DEF Held, StaleHeld
  <2>2. ~Asking(s)' /\ HandedOver(s)
    BY <1>3, <2>1 DEF SameHold, Asking, Held, ShownHeld
  <2>3. Unasked(s) /\ Returned(glQueue, s) /\ Alternates(glQueue, s)
    BY <2>1, <2>2, UnaskedIs, Handed DEF HandedOver
  <2>4. /\ Append(glQueue, Wait(s)) \in Seq(GlOps) /\ Alternates(Append(glQueue, Wait(s)), s)
        /\ Count(Append(glQueue, Wait(s)), {Signal(s)}) = Given(s)
        /\ Count(Append(glQueue, Wait(s)), {Wait(s)}) = Taken(s) + Payload(Unasked(s))
    BY <1>0, <2>3, GlAsked, Concat, GlOpsTyped DEF Given, Taken, Payload
  <2> QED
    BY <1>1, <1>5, <2>1, <2>2, <2>4, GiveBackHands
<1> QED
  BY <1>4, <1>5

\* The shown slot: its "ready" is asked for if it is fresh, and it may be drawn.
LEMMA ShowHands ==
    ASSUME TypeOK, Held, \A t \in Slots : HandedOver(t), NEW s \in Slots, PresentDraw \/ PresentClosed
    PROVE  HandedOver(s)'
<1> DEFINE w == IF win.fresh THEN Append(glQueue, Wait(shown)) ELSE glQueue
<1>0. /\ win \in WinType /\ glQueue \in Seq(GlOps) /\ win.pc = "stale" /\ shown \in Slots
      /\ win.fresh \in BOOLEAN /\ HandedOver(s) /\ HandedOver(shown)
      /\ Wait(shown) \in GlOps /\ Draw(shown) \in GlOps
      /\ emu.pc \in {"fence", "sync"} => emu.slot \in Slots
  BY Typed, GlOpsTyped DEF PresentDraw, PresentClosed, WinType
<1>1. /\ glQueue' = w \/ glQueue' = Append(w, Draw(shown))
      /\ w \in Seq(GlOps)
      /\ UNCHANGED <<slot, shown, vkQueue, ready, done, emu>>
  <2>1. CASE PresentDraw
    <3>1. /\ glQueue' = (glQueue \o (IF win.fresh THEN <<Wait(shown)>> ELSE <<>>)) \o <<Draw(shown)>>
          /\ UNCHANGED <<slot, shown, vkQueue, ready, done, emu>>
      BY <2>1 DEF PresentDraw, slotVars
    <3> QED
      BY <1>0, <3>1, Concat
  <2>2. CASE PresentClosed
    <3>1. /\ glQueue' = glQueue \o (IF win.fresh THEN <<Wait(shown)>> ELSE <<>>)
          /\ UNCHANGED <<slot, shown, vkQueue, ready, done, emu>>
      BY <2>2 DEF PresentClosed, slotVars
    <3> QED
      BY <1>0, <3>1, Concat
  <2> QED
    BY <2>1, <2>2
<1>2. win'.pc \in {"swap", "retire"}
  BY <1>0 DEF PresentDraw, PresentClosed, WinType
<1>3. ~Asking(s)' /\ (InHand(s)' <=> InHand(s)) /\ SameVk(s) /\ SameGpu(s)
  BY <1>1, <1>2, QueuesKept DEF Asking, InHand
<1>4. CASE s # shown
  <2>1. /\ Count(w, {Wait(s)}) = Count(glQueue, {Wait(s)})
        /\ Count(w, {Signal(s)}) = Count(glQueue, {Signal(s)})
        /\ Returned(glQueue, s) => Returned(w, s)
        /\ Alternates(glQueue, s) => Alternates(w, s)
    BY <1>0, <1>4, GlOther
  <2> HIDE DEF w
  <2>2. /\ Count(Append(w, Draw(shown)), {Wait(s)}) = Count(w, {Wait(s)})
        /\ Count(Append(w, Draw(shown)), {Signal(s)}) = Count(w, {Signal(s)})
        /\ Returned(w, s) => Returned(Append(w, Draw(shown)), s)
        /\ Alternates(w, s) => Alternates(Append(w, Draw(shown)), s)
    BY <1>0, <1>1, <1>4, GlOther
  <2>3. SameGl(s)
    BY <1>1, <2>1, <2>2 DEF SameGl, Taken, Given
  <2>4. SameHold(s) /\ SameSlot(s)
    BY <1>1, <1>3, <1>4 DEF SameHold, SameSlot, Asking
  <2> QED
    BY <1>0, <1>3, <2>3, <2>4, HandedKept
<1>5. CASE s = shown
  <2>1. StateOf(s) = "shown" /\ StateOf(s)' = "shown"
    BY <1>0, <1>1, <1>5 DEF Held, ShownHeld, StateOf
  <2>2. ~InHand(s)
    BY <1>0, <2>1 DEF InHand, Held, HandHeld
  <2>3. (Unasked(s) <=> win.fresh) /\ ~Unasked(s)'
    BY <1>0, <1>3, <1>5, <2>1, <2>2, UnaskedIs DEF Asking
  <2>4. Alternates(glQueue, s) /\ (win.fresh => Returned(glQueue, s))
    BY <1>0, <2>3, Handed DEF HandedOver
  <2>5. Taken(s) \in Nat /\ Given(s) \in Nat /\ Written(s) \in Nat /\ Waiting(s) \in Nat
    BY Typed, CountsTyped
  <2>6. /\ Count(w, {Wait(s)}) = Taken(s) + Payload(Unasked(s))
        /\ Count(w, {Signal(s)}) = Given(s)
        /\ Alternates(w, s)
    <3>1. CASE win.fresh
      BY <1>0, <1>5, <2>3, <2>4, <3>1, GlAsked DEF Taken, Given, Payload
    <3>2. CASE ~win.fresh
      BY <2>3, <2>4, <2>5, <3>2 DEF Taken, Given, Payload
    <3> QED
      BY <3>1, <3>2
  <2> HIDE DEF w
  <2>7. /\ Count(Append(w, Draw(s)), {Wait(s)}) = Count(w, {Wait(s)})
        /\ Count(Append(w, Draw(s)), {Signal(s)}) = Count(w, {Signal(s)})
        /\ Alternates(Append(w, Draw(s)), s)
    BY <1>1, <2>6, GlDrawn
  <2>8. Taken(s)' = Taken(s) + Payload(Unasked(s)) /\ Given(s)' = Given(s) /\ Alternates(glQueue, s)'
    BY <1>1, <1>5, <2>6, <2>7 DEF Taken, Given
  <2>9. Fenced(s)' /\ GivenBack(s)' /\ Released(s)'
    BY <1>0, <1>1, <1>3, <2>1 DEF HandedOver, Fenced, GivenBack, Released, SameVk, StateOf
  <2>10. ReadyBalanced(s)' /\ DoneBalanced(s)'
    BY <1>0, <1>1, <1>3, <2>3, <2>5, <2>8 DEF HandedOver, ReadyBalanced, DoneBalanced, SameVk, SameGpu, Payload
  <2> QED
    BY <2>8, <2>9, <2>10 DEF HandedOver
<1> QED
  BY <1>4, <1>5

LEMMA RetireHands ==
    ASSUME TypeOK, Held, \A t \in Slots : HandedOver(t), NEW s \in Slots, PresentRetire
    PROVE  HandedOver(s)'
<1>0. /\ slot \in [Slots -> SlotType] /\ win \in WinType /\ glQueue \in Seq(GlOps)
      /\ win.pc = "retire" /\ win.retired \in Slots \cup {None} /\ HandedOver(s)
  BY Typed DEF PresentRetire
<1>1. /\ UNCHANGED <<shown, vkQueue, ready, done, emu>>
      /\ win' = [win EXCEPT !.pc = "loop", !.fresh = FALSE, !.retired = None]
      /\ \/ win.retired = None /\ UNCHANGED <<glQueue, slot>>
         \/ /\ win.retired # None
            /\ glQueue' = Append(glQueue, Signal(win.retired)) /\ GiveBack(win.retired)
  BY DEF PresentRetire
<1>2. win'.pc = "loop"
  BY <1>0, <1>1 DEF WinType
<1>3. SameHold(s) /\ SameVk(s) /\ SameGpu(s) /\ ~Asking(s) /\ ~Asking(s)'
  BY <1>0, <1>1, <1>2, HoldKept, QueuesKept DEF Asking
<1>4. CASE win.retired = None
  BY <1>0, <1>1, <1>3, <1>4, HandedKept, QueuesKept DEF SameSlot
<1>5. CASE win.retired \in Slots /\ s # win.retired
  <2>1. glQueue' = Append(glQueue, Signal(win.retired)) /\ GiveBack(win.retired)
    BY <1>1, <1>5, NoneAssumption
  <2>2. SameSlot(s)
    BY <1>0, <1>5, <2>1 DEF GiveBack, SameSlot
  <2>3. SameGl(s)
    BY <1>0, <1>5, <2>1, GlOther DEF SameGl, Taken, Given
  <2> QED
    BY <1>0, <1>3, <2>2, <2>3, HandedKept
<1>6. CASE s = win.retired
  <2>1. glQueue' = Append(glQueue, Signal(s)) /\ GiveBack(s)
    BY <1>1, <1>6, NoneAssumption
  <2>2. StateOf(s) = "shown"
    BY <1>6 DEF Held, RetiredHeld
  <2>3. ~InHand(s)
    BY <2>2 DEF InHand, Held, HandHeld
  <2>4. ~Unasked(s)
    BY <1>3, <2>2, <2>3, UnaskedIs
  <2>5. Taken(s) \in Nat
    BY Typed, CountsTyped
  <2>6. /\ Count(glQueue, {Signal(s)}) = Given(s) /\ Alternates(glQueue, s)
        /\ Count(glQueue, {Wait(s)}) = Taken(s) + Payload(Unasked(s))
    BY <1>0, <2>4, <2>5 DEF HandedOver, Given, Taken, Payload
  <2> QED
    BY <1>0, <1>1, <1>3, <2>1, <2>2, <2>6, GiveBackHands
<1> QED
  BY <1>0, <1>4, <1>5, <1>6

LEMMA WinQuiet ==
    ASSUME TypeOK, NEW s \in Slots, HandedOver(s),
           PresentCannot \/ SwapReturns \/ Close \/ WindowEnd
    PROVE  HandedOver(s)'
<1>1. UNCHANGED <<slot, shown, emu, vkQueue, glQueue, ready, done>>
  BY DEF PresentCannot, SwapReturns, Close, WindowEnd, slotVars, gpuVars
<1>2. win' = win \/ (win.pc # "stale" /\ win'.pc # "stale")
  BY Typed DEF PresentCannot, SwapReturns, Close, WindowEnd, WinType
<1> QED
  BY <1>1, <1>2, HoldKept, HandedKept, QueuesKept DEF SameSlot

\* The copy at the head runs: its slot is written, its "done" used up.
LEMMA VkHands ==
    ASSUME TypeOK, Held, \A t \in Slots : HandedOver(t), NEW s \in Slots, VkExecute
    PROVE  HandedOver(s)'
<1> DEFINE e == Head(vkQueue)
<1>0. /\ vkQueue \in Seq(VkOps) /\ vkQueue # <<>> /\ e \in VkOps /\ HandedOver(s)
      /\ ready \in [Slots -> BOOLEAN] /\ done \in [Slots -> BOOLEAN]
      /\ vkQueue' = Tail(vkQueue) /\ UNCHANGED <<slot, shown, emu, win, glQueue>>
  BY Typed, TailPlaces DEF VkExecute, slotVars
<1>1. /\ Written(s) = Written(s)' + Unit(e \in Copies(s))
      /\ Waiting(s) = Waiting(s)' + Unit(e \in {Copy(s, TRUE)})
  BY <1>0, CountTail DEF Written, Waiting
<1>2. /\ Tail(vkQueue) \in Seq(VkOps)
      /\ Written(s) \in Nat /\ Waiting(s) \in Nat /\ Taken(s) \in Nat /\ Given(s) \in Nat
      /\ Waiting(s) <= Written(s) /\ Written(s)' \in Nat /\ Waiting(s)' \in Nat
  <2>1. Tail(vkQueue) \in Seq(VkOps)
    BY <1>0
  <2>2. Written(s)' \in Nat /\ Waiting(s)' \in Nat
    BY <1>0, <2>1, CountType DEF Written, Waiting
  <2> QED
    BY <2>1, <2>2, Typed, CountsTyped
<1>3. SameHold(s) /\ SameSlot(s) /\ SameGl(s)
  BY <1>0, HoldKept, QueuesKept DEF SameSlot
<1>4. CASE e \notin Copies(s)
  <2>1. e \notin {Copy(s, TRUE)}
    BY <1>4 DEF Copies
  <2>2. SameVk(s)
    <3>1. Unit(e \in Copies(s)) = 0 /\ Unit(e \in {Copy(s, TRUE)}) = 0
      BY <1>4, <2>1 DEF Unit
    <3>2. Written(s) = Written(s)' + 0 /\ Waiting(s) = Waiting(s)' + 0
      BY <1>1, <3>1
    <3> QED
      BY <1>2, <3>2 DEF SameVk
  <2>3. SameGpu(s)
    <3>1. CASE e.op = "copy"
      <4>1. e = Copy(e.slot, e.waits) /\ e.waits \in BOOLEAN /\ e.slot \in Slots
        BY <1>0, <3>1, VkOpIs
      <4>2. e.slot # s
        BY <1>4, <4>1 DEF Copies
      <4>3. /\ done' = [done EXCEPT ![e.slot] = IF e.waits THEN FALSE ELSE @]
            /\ ready' = [ready EXCEPT ![e.slot] = TRUE]
        BY <3>1 DEF VkExecute
      <4> QED
        BY <1>0, <4>2, <4>3 DEF SameGpu
    <3>2. CASE e.op # "copy"
      BY <3>2 DEF VkExecute, SameGpu
    <3> QED
      BY <3>1, <3>2
  <2> QED
    BY <1>0, <1>3, <2>2, <2>3, HandedKept
<1>5. CASE e \in Copies(s)
  <2>1. PICK b \in BOOLEAN : e = Copy(s, b)
    BY <1>5 DEF Copies
  <2>2. e.op = "copy" /\ e.slot = s /\ e.waits = b
    BY <2>1 DEF Copy
  <2>3. e \in {Copy(s, TRUE)} <=> b
    BY <2>1, CopiesApart
  <2>4. /\ b => done[s]
        /\ done' = [done EXCEPT ![s] = IF b THEN FALSE ELSE @]
        /\ ready' = [ready EXCEPT ![s] = TRUE]
    BY <2>2 DEF VkExecute
  <2>5. Written(s) = 1 /\ Written(s)' = 0 /\ Waiting(s)' = 0 /\ Waiting(s) = Payload(b)
    <3>1. Written(s) <= 1
      BY <1>0 DEF HandedOver, Fenced
    <3>2. Written(s) = 1 /\ Written(s)' = 0
      BY <1>1, <1>2, <1>5, <3>1 DEF Unit
    <3>3. Waiting(s)' <= Written(s)'
      <4>1. {Copy(s, TRUE)} \subseteq Copies(s)
        BY DEF Copies
      <4> QED
        BY <1>0, <1>2, <4>1, CountMono DEF Waiting, Written
    <3>4. Waiting(s)' = 0
      BY <1>2, <3>2, <3>3
    <3>5. Unit(e \in {Copy(s, TRUE)}) = Payload(b)
      BY <2>3 DEF Unit, Payload
    <3>6. Waiting(s) = 0 + Payload(b)
      BY <1>1, <3>4, <3>5
    <3>7. Payload(b) \in Nat
      BY DEF Payload
    <3> QED
      BY <3>2, <3>4, <3>6, <3>7
  <2>6. ~ready[s] /\ ready'[s] /\ done'[s] = IF b THEN FALSE ELSE done[s]
    <3>1. Waiting(s) >= 1 => done[s]
      BY <2>4, <2>5 DEF Payload
    <3>2. ~ready[s]
      BY <1>0, <2>5, <3>1, CopyAlone
    <3> QED
      BY <1>0, <2>4, <3>2
  <2>7. Unasked(s)' <=> Unasked(s)
    BY <1>3, UnaskedIs DEF SameSlot, SameHold, StateOf
  <2>8. Fenced(s)' /\ GivenBack(s)'
    BY <1>0, <1>3, <2>5 DEF HandedOver, Fenced, GivenBack, SameHold, SameSlot, StateOf
  <2>9. Released(s)' /\ Alternates(glQueue, s)'
    BY <1>0, <1>3 DEF HandedOver, Released, SameHold, SameSlot, SameGl, StateOf
  <2>10. ReadyBalanced(s)'
    BY <1>0, <1>2, <1>3, <2>5, <2>6, <2>7 DEF HandedOver, ReadyBalanced, SameGl, Payload
  <2>11. DoneBalanced(s)'
    BY <1>0, <1>2, <1>3, <2>4, <2>5, <2>6 DEF HandedOver, DoneBalanced, SameGl, SameSlot, Payload
  <2> QED
    BY <2>8, <2>9, <2>10, <2>11 DEF HandedOver
<1> QED
  BY <1>4, <1>5

\* GL runs the command at its head: it takes a "ready", draws, or gives a "done".
LEMMA GlHands ==
    ASSUME TypeOK, Held, \A t \in Slots : HandedOver(t), NEW s \in Slots, GlExecute
    PROVE  HandedOver(s)'
<1> DEFINE e == Head(glQueue)
<1>0. /\ glQueue \in Seq(GlOps) /\ glQueue # <<>> /\ e \in GlOps /\ HandedOver(s)
      /\ ready \in [Slots -> BOOLEAN] /\ done \in [Slots -> BOOLEAN]
      /\ glQueue' = Tail(glQueue) /\ UNCHANGED <<slot, shown, emu, win, vkQueue>>
  <2>1. glQueue # <<>>
    BY Typed DEF GlExecute, GlTyped
  <2> QED
    BY <2>1, Typed, TailPlaces DEF GlExecute, slotVars
<1>1. /\ e.op = "wait" => ready[e.slot]
      /\ ready' = [ready EXCEPT ![e.slot] = IF e.op = "wait" THEN FALSE ELSE @]
      /\ done' = [done EXCEPT ![e.slot] = IF e.op = "signal" THEN TRUE ELSE @]
  BY DEF GlExecute
<1>2. /\ Taken(s) = Taken(s)' + Unit(e \in {Wait(s)})
      /\ Given(s) = Given(s)' + Unit(e \in {Signal(s)})
  BY <1>0, CountTail DEF Taken, Given
<1>3. /\ Written(s) \in Nat /\ Waiting(s) \in Nat /\ Taken(s) \in Nat /\ Given(s) \in Nat
      /\ Taken(s)' \in Nat /\ Given(s)' \in Nat
  <2>1. Tail(glQueue) \in Seq(GlOps)
    BY <1>0
  <2>2. Taken(s)' \in Nat /\ Given(s)' \in Nat
    BY <1>0, <2>1, CountType DEF Taken, Given
  <2> QED
    BY <2>2, Typed, CountsTyped
<1>4. /\ Returned(glQueue, s) => Returned(glQueue', s)
      /\ Alternates(glQueue, s) => Alternates(glQueue', s)
  BY <1>0, TailKeeps
<1>5. SameHold(s) /\ SameSlot(s) /\ SameVk(s)
  BY <1>0, HoldKept, QueuesKept DEF SameSlot
<1>6. Unasked(s)' <=> Unasked(s)
  BY <1>5, UnaskedIs DEF SameSlot, SameHold, StateOf
<1>7. e.slot \in Slots /\ e \in {Wait(e.slot), Draw(e.slot), Signal(e.slot)}
  BY <1>0, GlOpIs
<1>8. Fenced(s)' /\ GivenBack(s)'
  BY <1>0, <1>5 DEF HandedOver, Fenced, GivenBack, SameVk, SameHold, SameSlot, StateOf
<1>9. Released(s)' /\ Alternates(glQueue, s)'
  BY <1>0, <1>4, <1>5 DEF HandedOver, Released, SameHold, SameSlot, StateOf
<1>10. ASSUME e # Wait(s), e # Signal(s) PROVE Taken(s)' = Taken(s) /\ Given(s)' = Given(s)
  <2>1. Unit(e \in {Wait(s)}) = 0 /\ Unit(e \in {Signal(s)}) = 0
    BY <1>10 DEF Unit
  <2>2. Taken(s) = Taken(s)' + 0 /\ Given(s) = Given(s)' + 0
    BY <1>2, <2>1
  <2> QED
    BY <1>3, <2>2
<1>11. CASE e \notin {Wait(s), Signal(s)}
  <2>1. SameGl(s)
    BY <1>4, <1>10, <1>11 DEF SameGl
  <2>2. SameGpu(s)
    <3>1. CASE e.slot # s
      BY <1>0, <1>1, <1>7, <3>1 DEF SameGpu
    <3>2. CASE e.slot = s
      <4>1. e.op = "draw"
        BY <1>7, <1>11, <3>2, GlOpsApart
      <4> QED
        BY <1>0, <1>1, <4>1 DEF SameGpu
    <3> QED
      BY <3>1, <3>2
  <2> QED
    BY <1>0, <1>5, <2>1, <2>2, HandedKept
<1>12. CASE e = Wait(s)
  <2>1. e.op = "wait" /\ e.slot = s /\ Wait(s) # Signal(s)
    BY <1>12, GlOpsApart
  <2>2. ready[s] /\ ready'[s] = FALSE /\ done'[s] = done[s]
    BY <1>0, <1>1, <2>1
  <2>3. Unit(e \in {Wait(s)}) = 1 /\ Unit(e \in {Signal(s)}) = 0
    BY <1>12, <2>1 DEF Unit
  <2>4. Taken(s) = Taken(s)' + 1 /\ Given(s) = Given(s)' + 0
    BY <1>2, <2>3
  <2>5. ReadyBalanced(s)' /\ DoneBalanced(s)'
    BY <1>0, <1>3, <1>5, <1>6, <2>2, <2>4
       DEF HandedOver, ReadyBalanced, DoneBalanced, SameVk, SameSlot, Payload
  <2> QED
    BY <1>8, <1>9, <2>5 DEF HandedOver
<1>13. CASE e = Signal(s)
  <2>1. e.op = "signal" /\ e.slot = s /\ Wait(s) # Signal(s)
    BY <1>13, GlOpsApart
  <2>2. ~done[s] /\ ready'[s] = ready[s] /\ done'[s] = TRUE
    <3>1. ~done[s]
      BY <1>0, <1>13, SignalAlone
    <3> QED
      BY <1>0, <1>1, <2>1, <3>1
  <2>3. Unit(e \in {Wait(s)}) = 0 /\ Unit(e \in {Signal(s)}) = 1
    BY <1>13, <2>1 DEF Unit
  <2>4. Taken(s) = Taken(s)' + 0 /\ Given(s) = Given(s)' + 1
    BY <1>2, <2>3
  <2>5. ReadyBalanced(s)' /\ DoneBalanced(s)'
    BY <1>0, <1>3, <1>5, <1>6, <2>2, <2>4
       DEF HandedOver, ReadyBalanced, DoneBalanced, SameVk, SameSlot, Payload
  <2> QED
    BY <1>8, <1>9, <2>5 DEF HandedOver
<1> QED
  BY <1>11, <1>12, <1>13

AllHanded == \A s \in Slots : HandedOver(s)

LEMMA HandedInit == Init => AllHanded
<1> SUFFICES ASSUME Init, NEW s \in Slots PROVE HandedOver(s)
  BY DEF AllHanded
<1>1. /\ slot[s] = EmptySlot /\ ready[s] = FALSE /\ done[s] = FALSE
      /\ vkQueue = <<>> /\ glQueue = <<>> /\ emu.pc = "idle" /\ win.pc = "loop"
  BY DEF Init
<1>2. StateOf(s) = "free" /\ ~slot[s].donePending
  BY <1>1 DEF StateOf, EmptySlot
<1>3. \A ops : Count(<<>>, ops) = 0
  <2>1. \A ops : {k \in DOMAIN <<>> : <<>>[k] \in ops} = {}
    OBVIOUS
  <2> QED
    BY <2>1, FS_EmptySet DEF Count
<1>4. Written(s) = 0 /\ Waiting(s) = 0 /\ Taken(s) = 0 /\ Given(s) = 0
  BY <1>1, <1>3 DEF Written, Waiting, Taken, Given
<1>5. ~Asking(s) /\ ~InHand(s)
  BY <1>1 DEF Asking, InHand
<1>6. ~Unasked(s)
  BY <1>2, <1>5, UnaskedIs
<1>7. Fenced(s) /\ GivenBack(s)
  BY <1>2, <1>4 DEF Fenced, GivenBack
<1>8. Released(s) /\ Alternates(glQueue, s)
  BY <1>1 DEF Released, Returned, Alternates
<1>9. ReadyBalanced(s) /\ DoneBalanced(s)
  BY <1>1, <1>2, <1>4, <1>6 DEF ReadyBalanced, DoneBalanced, Payload
<1> QED
  BY <1>7, <1>8, <1>9 DEF HandedOver

LEMMA HandedStep == TypeOK /\ Held /\ AllHanded /\ [Next]_vars => AllHanded'
<1> SUFFICES ASSUME TypeOK, Held, \A t \in Slots : HandedOver(t), [Next]_vars, NEW s \in Slots
             PROVE  HandedOver(s)'
  BY DEF AllHanded
<1>1. HandedOver(s)
  OBVIOUS
<1>2. CASE FrameDrop \/ ReadBack \/ ReadBackDone \/ NoReadBack \/ EmuStop \/ EmuDestroy
             \/ \E z \in Sizes, t \in Slots : FramePick(z, t)
  BY <1>1, <1>2, EmuQuiet
<1>3. CASE FrameNoImage \/ FrameSubmit \/ FramePublish
  BY <1>3, NoImageHands, SubmitHands, PublishHands
<1>4. CASE PresentCannot \/ SwapReturns \/ Close \/ WindowEnd
  BY <1>1, <1>4, WinQuiet
<1>5. CASE PresentPick \/ (\E t \in Slots : PresentStale(t)) \/ PresentDraw \/ PresentClosed \/ PresentRetire
  BY <1>5, PickHands, StaleHands, ShowHands, RetireHands
<1>6. CASE VkExecute \/ GlExecute
  BY <1>6, VkHands, GlHands
<1>7. CASE UNCHANGED vars
  <2>1. UNCHANGED <<slot, emu, win, shown>> /\ UNCHANGED gpuVars
    BY <1>7 DEF vars, slotVars
  <2> QED
    BY <1>1, <2>1, HoldKept, Quiet
<1> QED
  BY <1>2, <1>3, <1>4, <1>5, <1>6, <1>7 DEF Next, EmuNext, WinNext, Over

LEMMA HandedAlways == Spec => [](TypeOK /\ Held /\ AllHanded)
<1>1. TypeOK /\ Held /\ [Next]_vars => Held'
  BY HeldStep
<1> QED
  BY <1>1, HeldInit, HandedInit, HandedStep, FramesTypeCorrect, PTL DEF Spec

\* Each semaphore is signalled once and waited for once, for any slots, sizes and
\* bounds and however far GL is behind (the protocol in the head of wl_hwvk.c).
THEOREM SemaphoresStayBalanced == Spec => []SemaphoresBalanced
<1>1. AllHanded => SemaphoresBalanced
  BY DEF AllHanded, HandedOver, ReadyBalanced, DoneBalanced, SemaphoresBalanced,
         Written, Waiting, Taken, Given
<1> QED
  BY <1>1, HandedAlways, PTL

LEMMA TornNowhere == TypeOK /\ Held /\ AllHanded => NoTornFrame
<1> SUFFICES ASSUME TypeOK, Held, AllHanded PROVE NotWrittenWhileDrawn /\ DrawnAfterWritten
  BY DEF NoTornFrame
<1>0. VkTyped /\ GlTyped /\ vkQueue \in Seq(VkOps) /\ glQueue \in Seq(GlOps)
  BY Typed
<1>1. NotWrittenWhileDrawn
  <2> DEFINE c == Head(vkQueue)
             s == c.slot
  <2>1. SUFFICES ASSUME vkQueue # <<>>, c.op = "copy", c.waits => done[s] PROVE ~DrawOutstanding(s)
    BY DEF NotWrittenWhileDrawn
  <2>2. c \in VkOps /\ c = vkQueue[1] /\ 1 \in DOMAIN vkQueue
    BY <1>0, <2>1
  <2>3. s \in Slots /\ c.waits \in BOOLEAN /\ c = Copy(s, c.waits)
    BY <2>1, <2>2, VkOpIs
  <2>4. c \in Copies(s)
    BY <2>3 DEF Copies
  <2>5. Queued(vkQueue, Copies(s)) /\ 1 \in Places(vkQueue, Copies(s))
    BY <2>2, <2>4 DEF Queued, Places
  <2>6. Written(s) >= 1 /\ HandedOver(s)
    BY <1>0, <2>3, <2>5, CountsTyped DEF AllHanded
  <2>7. Waiting(s) >= 1 => c.waits
    <3>1. SUFFICES ASSUME Waiting(s) >= 1, ~c.waits PROVE FALSE
      OBVIOUS
    <3>0. Queued(vkQueue, {Copy(s, TRUE)})
      BY <1>0, <3>1, CountSome DEF Waiting
    <3>2. PICK k \in DOMAIN vkQueue : vkQueue[k] = Copy(s, TRUE)
      BY <3>0 DEF Queued
    <3>3. k \in Places(vkQueue, Copies(s)) /\ k # 1 /\ DOMAIN vkQueue = 1 .. Len(vkQueue) /\ Len(vkQueue) \in Nat
      <4>1. Copy(s, TRUE).waits = TRUE /\ Copy(s, TRUE) \in Copies(s)
        BY DEF Copy, Copies
      <4>2. vkQueue[k].waits = TRUE /\ vkQueue[1].waits # TRUE
        BY <2>2, <3>1, <3>2, <4>1
      <4>3. k # 1
        BY <4>2
      <4>4. vkQueue[k] \in Copies(s)
        BY <3>2, <4>1
      <4>5. k \in Places(vkQueue, Copies(s))
        BY <3>2, <4>4 DEF Places
      <4>6. DOMAIN vkQueue = 1 .. Len(vkQueue) /\ Len(vkQueue) \in Nat
        BY <1>0
      <4> QED
        BY <4>3, <4>5, <4>6
    <3>4. Written(s) >= 2
      <4>1. 1 < k
        BY <3>3
      <4> QED
        BY <1>0, <2>5, <3>3, <4>1, CountTwo DEF Written
    <3>5. Written(s) <= 1 /\ Written(s) \in Nat
      BY <1>0, <2>3, <2>6, CountsTyped DEF HandedOver, Fenced
    <3> QED
      BY <3>4, <3>5
  <2> HIDE DEF c
  <2> QED
    BY <2>1, <2>3, <2>6, <2>7, CopyAlone
<1>2. DrawnAfterWritten
  <2> DEFINE s == Head(glQueue).slot
  <2>1. SUFFICES ASSUME flushed > 0, Head(glQueue).op = "draw", Queued(vkQueue, Copies(s))
                 PROVE  ~Queued(vkQueue, {Copy(s, FALSE)}) /\ ~done[s]
    BY DEF DrawnAfterWritten
  <2>2. glQueue # <<>> /\ Head(glQueue) \in GlOps /\ Head(glQueue) = glQueue[1] /\ 1 \in DOMAIN glQueue
    <3>1. glQueue # <<>>
      BY <1>0, <2>1 DEF GlTyped
    <3> QED
      BY <1>0, <3>1
  <2>3. s \in Slots /\ glQueue[1] = Draw(s)
    BY <2>1, <2>2, GlOpIs
  <2> HIDE DEF s
  <2>4. DrawOutstanding(s)
    <3>1. \A j \in 1 .. 1 : glQueue[j] # Wait(s)
      BY <2>3, GlOpsApart
    <3> QED
      BY <2>2, <2>3, <3>1 DEF DrawOutstanding
  <2>5. Written(s) >= 1 /\ HandedOver(s)
    BY <1>0, <2>1, <2>3, CountsTyped DEF AllHanded
  <2>6. Waiting(s) >= 1 /\ ~done[s]
    BY <2>3, <2>4, <2>5, CopyAlone
  <2>7. ~Queued(vkQueue, {Copy(s, FALSE)})
    <3>1. SUFFICES ASSUME NEW j \in DOMAIN vkQueue, vkQueue[j] = Copy(s, FALSE) PROVE FALSE
      BY DEF Queued
    <3>0. Queued(vkQueue, {Copy(s, TRUE)})
      BY <1>0, <2>6, CountSome DEF Waiting
    <3>2. PICK k \in DOMAIN vkQueue : vkQueue[k] = Copy(s, TRUE)
      BY <3>0 DEF Queued
    <3>3. j # k
      <4>1. Copy(s, TRUE).waits = TRUE /\ Copy(s, FALSE).waits = FALSE
        BY DEF Copy
      <4> QED
        BY <3>1, <3>2, <4>1
    <3>4. j \in Places(vkQueue, Copies(s)) /\ k \in Places(vkQueue, Copies(s)) /\ (j < k \/ k < j)
      BY <1>0, <3>1, <3>2, <3>3 DEF Places, Copies
    <3>5. Written(s) >= 2
      BY <1>0, <3>4, CountTwo DEF Written
    <3>6. Written(s) <= 1 /\ Written(s) \in Nat
      BY <1>0, <2>3, <2>5, CountsTyped DEF HandedOver, Fenced
    <3> QED
      BY <3>5, <3>6
  <2> QED
    BY <2>6, <2>7
<1> QED
  BY <1>1, <1>2

\* Neither GPU queue uses a slot while the other has still to finish with it, for any
\* slots, sizes and bounds (wlvk_frame, wlp_present_vk).
THEOREM NoFrameTorn == Spec => []NoTornFrame
  BY TornNowhere, HandedAlways, PTL

-----------------------------------------------------------------------------
(* The two queues never wait for each other.                               *)

\* A copy of t stands in the Vulkan queue behind, or is, one that waits for s.
Behind(s, t) ==
    \E i, j \in DOMAIN vkQueue :
        i <= j /\ vkQueue[i] = Copy(s, TRUE) /\ vkQueue[j] \in Copies(t)

\* GL gives s back before it asks for t.
GivesFirst(q, s, t) ==
    \E m, k \in DOMAIN q : m < k /\ q[m] = Signal(s) /\ q[k] = Wait(t)

\* GL needs nothing of a copy that is held up by s before it has given s back.
Fed(s, t) == Behind(s, t) /\ ~done[s] => Unasked(t) \/ GivesFirst(glQueue, s, t)
AllFed == \A s, t \in Slots : Fed(s, t)

\* What a queued copy waits for was given or is about to be.
LEMMA DoneIssued ==
    ASSUME TypeOK, NEW s \in Slots, HandedOver(s), NEW i \in DOMAIN vkQueue, vkQueue[i] = Copy(s, TRUE), ~done[s]
    PROVE  Queued(glQueue, {Signal(s)})
<1>1. VkTyped /\ GlTyped /\ vkQueue \in Seq(VkOps) /\ glQueue \in Seq(GlOps)
  BY Typed
<1>2. Queued(vkQueue, {Copy(s, TRUE)})
  BY DEF Queued
<1>3. Waiting(s) >= 1
  BY <1>1, <1>2, CountSome DEF Waiting
<1>4. Waiting(s) \in Nat /\ Given(s) \in Nat
  BY <1>1, CountsTyped
<1>5. 0 + Given(s) = Waiting(s) + Payload(slot[s].donePending)
  BY DEF HandedOver, DoneBalanced, Payload
<1>6. Payload(slot[s].donePending) \in Nat
  BY DEF Payload
<1>7. Given(s) >= 1
  BY <1>3, <1>4, <1>5, <1>6
<1> QED
  BY <1>1, <1>7, CountSome DEF Given

\* Other work at the end of the Vulkan queue holds no copy up.
LEMMA BehindAppend ==
    ASSUME NEW e \in VkOps, vkQueue \in Seq(VkOps), vkQueue' = Append(vkQueue, e), NEW s, NEW t, Behind(s, t)'
    PROVE  Behind(s, t) \/ (e \in Copies(t) /\ (e = Copy(s, TRUE) \/ \E i \in DOMAIN vkQueue : vkQueue[i] = Copy(s, TRUE)))
<1>1. /\ DOMAIN vkQueue = 1 .. Len(vkQueue) /\ DOMAIN vkQueue' = 1 .. Len(vkQueue) + 1 /\ Len(vkQueue) \in Nat
      /\ vkQueue'[Len(vkQueue) + 1] = e /\ \A k \in DOMAIN vkQueue : vkQueue'[k] = vkQueue[k]
  BY AppendPlaces
<1>2. PICK i, j \in DOMAIN vkQueue' : i <= j /\ vkQueue'[i] = Copy(s, TRUE) /\ vkQueue'[j] \in Copies(t)
  BY DEF Behind
<1>3. CASE j \in DOMAIN vkQueue
  <2>1. i \in DOMAIN vkQueue
    BY <1>1, <1>2, <1>3
  <2> QED
    BY <1>1, <1>2, <1>3, <2>1 DEF Behind
<1>4. CASE j = Len(vkQueue) + 1
  <2>1. e \in Copies(t)
    BY <1>1, <1>2, <1>4
  <2>2. i \in DOMAIN vkQueue \/ i = Len(vkQueue) + 1
    BY <1>1
  <2> QED
    BY <1>1, <1>2, <2>1, <2>2
<1>5. j \in DOMAIN vkQueue \/ j = Len(vkQueue) + 1
  BY <1>1
<1> QED
  BY <1>3, <1>4, <1>5

\* A step that leaves GL alone and no slot less unasked.
LEMMA FedKept ==
    ASSUME NEW s \in Slots, NEW t \in Slots, Fed(s, t), UNCHANGED <<glQueue, done>>,
           Behind(s, t)' => Behind(s, t), Unasked(t) => Unasked(t)'
    PROVE  Fed(s, t)'
  BY DEF Fed

\* GL is issued more: who is asked for is asked behind all that was given.
Grows == \A k \in DOMAIN glQueue : k \in DOMAIN glQueue' /\ glQueue'[k] = glQueue[k]
Asked(t) == \E k \in DOMAIN glQueue' : k \notin DOMAIN glQueue /\ glQueue'[k] = Wait(t)

LEMMA FedIssued ==
    ASSUME TypeOK, NEW s \in Slots, HandedOver(s), NEW t \in Slots, Fed(s, t), UNCHANGED <<vkQueue, done>>,
           glQueue' \in Seq(GlOps), Grows, Unasked(t) => Unasked(t)' \/ Asked(t)
    PROVE  Fed(s, t)'
<1>1. glQueue \in Seq(GlOps) /\ DOMAIN glQueue = 1 .. Len(glQueue) /\ DOMAIN glQueue' = 1 .. Len(glQueue')
      /\ Len(glQueue) \in Nat /\ Len(glQueue') \in Nat
  BY Typed
<1>2. SUFFICES ASSUME Behind(s, t), ~done[s] PROVE Unasked(t)' \/ GivesFirst(glQueue, s, t)'
  BY DEF Fed, Behind
<1>3. CASE GivesFirst(glQueue, s, t)
  BY <1>3 DEF GivesFirst, Grows
<1>4. CASE Unasked(t)
  <2>1. Queued(glQueue, {Signal(s)})
    BY <1>2, DoneIssued DEF Behind
  <2>2. PICK m \in DOMAIN glQueue : glQueue[m] = Signal(s)
    BY <2>1 DEF Queued
  <2>3. ASSUME Asked(t) PROVE GivesFirst(glQueue, s, t)'
    <3>1. PICK k \in DOMAIN glQueue' : k \notin DOMAIN glQueue /\ glQueue'[k] = Wait(t)
      BY <2>3 DEF Asked
    <3>2. m \in DOMAIN glQueue' /\ glQueue'[m] = Signal(s) /\ m < k
      BY <1>1, <2>2, <3>1 DEF Grows
    <3> QED
      BY <3>1, <3>2 DEF GivesFirst
  <2> QED
    BY <1>4, <2>3
<1> QED
  BY <1>2, <1>3, <1>4 DEF Fed

LEMMA IssuedMore ==
    ASSUME glQueue \in Seq(GlOps), NEW a \in GlOps, NEW b \in GlOps
    PROVE  /\ glQueue' = glQueue => glQueue' \in Seq(GlOps) /\ Grows
           /\ glQueue' = Append(glQueue, a)
                => glQueue' \in Seq(GlOps) /\ Grows /\ \A t : a = Wait(t) => Asked(t)
           /\ glQueue' = Append(Append(glQueue, a), b)
                => glQueue' \in Seq(GlOps) /\ Grows /\ \A t : a = Wait(t) => Asked(t)
<1>1. ASSUME glQueue' = Append(glQueue, a)
      PROVE  glQueue' \in Seq(GlOps) /\ Grows /\ \A t : a = Wait(t) => Asked(t)
  <2>1. /\ glQueue' \in Seq(GlOps)
        /\ DOMAIN glQueue = 1 .. Len(glQueue) /\ DOMAIN glQueue' = 1 .. Len(glQueue) + 1 /\ Len(glQueue) \in Nat
        /\ glQueue'[Len(glQueue) + 1] = a
        /\ \A k \in DOMAIN glQueue : glQueue'[k] = glQueue[k]
    BY <1>1, AppendPlaces
  <2> QED
    BY <2>1 DEF Grows, Asked
<1>2. ASSUME glQueue' = Append(Append(glQueue, a), b)
      PROVE  glQueue' \in Seq(GlOps) /\ Grows /\ \A t : a = Wait(t) => Asked(t)
  <2>1. /\ glQueue' \in Seq(GlOps)
        /\ DOMAIN glQueue = 1 .. Len(glQueue) /\ DOMAIN glQueue' = 1 .. Len(glQueue) + 2 /\ Len(glQueue) \in Nat
        /\ glQueue'[Len(glQueue) + 1] = a
        /\ \A k \in DOMAIN glQueue : glQueue'[k] = glQueue[k]
    BY <1>2
  <2> QED
    BY <2>1 DEF Grows, Asked
<1> QED
  BY <1>1, <1>2 DEF Grows

\* No step of the emulation thread takes a slot's "ready" for asked.
LEMMA EmuUnasked ==
    ASSUME TypeOK, Held, NEW t \in Slots, EmuNext, Unasked(t)
    PROVE  Unasked(t)'
<1>0. emu \in EmuType /\ slot \in [Slots -> SlotType] /\ slot[t] \in SlotType
  BY Typed
<1>1. UNCHANGED <<win, shown>>
  BY DEF EmuNext, FramePick, FrameDrop, FrameNoImage, FrameSubmit, FramePublish, ReadBack, ReadBackDone,
         NoReadBack, EmuStop, EmuDestroy, slotVars
<1>2. Asking(t)' <=> Asking(t)
  BY <1>1 DEF Asking
<1>3. CASE FramePublish
  <2>1. slot'[t] = IF t = emu.slot THEN [slot[t] EXCEPT !.state = "ready", !.seq = seq + 1] ELSE Outdated(t)
    BY <1>3 DEF FramePublish
  <2>2. InHand(t) \/ StateOf(t) \in {"ready", "stale"} => StateOf(t)' \in {"ready", "stale"}
    <3>1. CASE t = emu.slot
      <4>1. slot'[t] = [slot[t] EXCEPT !.state = "ready", !.seq = seq + 1]
        BY <2>1, <3>1
      <4> QED
        BY <1>0, <4>1 DEF SlotType, StateOf
    <3>2. CASE t # emu.slot
      <4>1. slot'[t] = Outdated(t)
        BY <2>1, <3>2
      <4>2. slot'[t].state = IF slot[t].state = "ready" THEN "stale" ELSE slot[t].state
        BY <1>0, <4>1 DEF SlotType, Outdated
      <4> QED
        BY <3>2, <4>2 DEF StateOf, InHand
    <3> QED
      BY <3>1, <3>2
  <2> QED
    BY <1>2, <2>2, UnaskedIs
<1>4. CASE FrameSubmit
  <2>1. emu'.pc = "sync" /\ emu'.slot = emu.slot /\ emu.pc = "fence"
    BY <1>0, <1>4 DEF FrameSubmit, EmuType
  <2>2. StateOf(t)' = StateOf(t)
    BY <1>0, <1>4 DEF FrameSubmit, SlotType, StateOf
  <2>3. ~InHand(t)
    BY <2>1 DEF InHand
  <2> QED
    BY <1>2, <2>2, <2>3, UnaskedIs
<1>5. CASE ~FramePublish /\ ~FrameSubmit
  <2>1. emu.pc # "sync"
    BY <1>5 DEF EmuNext, FramePick, FrameDrop, FrameNoImage, ReadBack, ReadBackDone, NoReadBack, EmuStop, EmuDestroy
  <2>2. StateOf(t)' = StateOf(t)
    <3>1. CASE FrameNoImage
      BY <1>0, <3>1 DEF FrameNoImage, SlotType, StateOf
    <3>2. CASE EmuDestroy
      BY <1>0, <3>2 DEF EmuDestroy, SlotType, StateOf
    <3>3. CASE slot' = slot
      BY <3>3 DEF StateOf
    <3> QED
      BY <1>5, <3>1, <3>2, <3>3 DEF EmuNext, FramePick, FrameDrop, ReadBack, ReadBackDone, NoReadBack, EmuStop, slotVars
  <2>3. ~InHand(t)
    BY <2>1 DEF InHand
  <2> QED
    BY <1>2, <2>2, <2>3, UnaskedIs
<1> QED
  BY <1>3, <1>4, <1>5

LEMMA EmuFeeds ==
    ASSUME TypeOK, Held, AllHanded, AllFed, NEW s \in Slots, NEW t \in Slots, EmuNext
    PROVE  Fed(s, t)'
<1>0. /\ vkQueue \in Seq(VkOps) /\ emu \in EmuType /\ slot \in [Slots -> SlotType] /\ slot[t] \in SlotType
      /\ syncIndex \in SyncIndices /\ HandedOver(s) /\ Fed(s, t) /\ Fed(s, s)
  BY Typed, TypeParts DEF SyncTyped, AllHanded, AllFed
<1>1. UNCHANGED <<glQueue, done>> /\ (Unasked(t) => Unasked(t)')
  BY EmuUnasked
     DEF EmuNext, FramePick, FrameDrop, FrameNoImage, FrameSubmit, FramePublish, ReadBack, ReadBackDone,
         NoReadBack, EmuStop, EmuDestroy, gpuVars
<1>2. CASE vkQueue' = vkQueue
  BY <1>0, <1>1, <1>2, FedKept DEF Behind
<1>3. ASSUME NEW e \in VkOps, vkQueue' = Append(vkQueue, e), e \notin Copies(t)
      PROVE  Fed(s, t)'
  <2>1. Behind(s, t)' => Behind(s, t)
    BY <1>0, <1>3, BehindAppend
  <2> QED
    BY <1>0, <1>1, <2>1, FedKept
<1>4. CASE FrameSubmit
  <2> DEFINE e == Copy(emu.slot, slot[emu.slot].donePending)
  <2>1. vkQueue' = Append(vkQueue, e) /\ emu.slot \in Slots /\ slot[emu.slot].donePending \in BOOLEAN
    BY <1>0, <1>4, Typed DEF FrameSubmit, SlotType
  <2>2. e \in VkOps
    BY <2>1 DEF VkOps
  <2>3. CASE e \notin Copies(t)
    BY <1>3, <2>1, <2>2, <2>3
  <2>4. CASE e \in Copies(t)
    <3>1. t = emu.slot
      BY <2>1, <2>4, CopiesApart
    <3>2. emu'.pc = "sync" /\ emu'.slot = emu.slot
      BY <1>0, <1>4 DEF FrameSubmit, EmuType
    <3>3. Unasked(t)'
      BY <3>1, <3>2 DEF Unasked
    <3> QED
      BY <3>3 DEF Fed
  <2> QED
    BY <2>3, <2>4
<1>5. CASE FramePublish
  <2>1. vkQueue' = Append(vkQueue, Sync(syncIndex))
    BY <1>5 DEF FramePublish
  <2>2. Sync(syncIndex) \in VkOps
    BY <1>0 DEF VkOps
  <2>3. Sync(syncIndex) \notin Copies(t)
    BY DEF Sync, Copies, Copy
  <2> QED
    BY <1>3, <2>1, <2>2, <2>3
<1>6. CASE ReadBack
  <2>1. vkQueue' = Append(vkQueue, Read) /\ Read \in VkOps /\ Read \notin Copies(t)
    BY <1>6 DEF ReadBack, VkOps, Read, Copies, Copy
  <2> QED
    BY <1>3, <2>1
<1> QED
  BY <1>2, <1>4, <1>5, <1>6
     DEF EmuNext, FramePick, FrameDrop, FrameNoImage, ReadBackDone, NoReadBack, EmuStop, EmuDestroy, gpuVars

\* The presentation thread asks for a "ready" whenever it makes a slot asked.
LEMMA WinAsks ==
    ASSUME TypeOK, Held, NEW t \in Slots, WinNext \/ SwapReturns \/ Close
    PROVE  glQueue' \in Seq(GlOps) /\ Grows /\ (Unasked(t) => Unasked(t)' \/ Asked(t))
<1>0. /\ glQueue \in Seq(GlOps) /\ win \in WinType /\ slot \in [Slots -> SlotType] /\ slot[t] \in SlotType
      /\ Wait(t) \in GlOps /\ Signal(t) \in GlOps /\ Draw(t) \in GlOps
  BY Typed, GlOpsTyped
<1>1. CASE PresentCannot \/ SwapReturns \/ Close \/ WindowEnd
  <2>1. UNCHANGED <<slot, shown, emu, glQueue>>
    BY <1>1 DEF PresentCannot, SwapReturns, Close, WindowEnd, slotVars, gpuVars
  <2>2. win' = win \/ (win.pc # "stale" /\ win'.pc # "stale")
    BY <1>0, <1>1 DEF PresentCannot, SwapReturns, Close, WindowEnd, WinType
  <2>3. SameHold(t)
    BY <2>1, <2>2, HoldKept
  <2>4. Unasked(t)' <=> Unasked(t)
    BY <2>1, <2>3, UnaskedIs DEF SameHold, StateOf
  <2> QED
    BY <1>0, <2>1, <2>4, IssuedMore
<1>2. CASE PresentPick
  <2> DEFINE fresh == {u \in Slots : /\ slot[u].state = "ready"
                                     /\ \A v \in Slots : slot[v].state = "ready" => slot[v].seq <= slot[u].seq}
  <2>1. /\ win.pc = "loop" /\ win'.pc = "stale" /\ win'.fresh = (fresh # {}) /\ glQueue' = glQueue /\ emu' = emu
        /\ \/ fresh = {} /\ UNCHANGED <<slot, shown>>
           \/ \E u \in fresh : slot' = [slot EXCEPT ![u].state = "shown"] /\ shown' = u
    BY <1>2 DEF PresentPick, gpuVars
  <2>2. fresh \subseteq Slots
    OBVIOUS
  <2> HIDE DEF fresh
  <2>3. ~Asking(t) /\ (InHand(t)' <=> InHand(t))
    BY <2>1 DEF Asking, InHand
  <2>4. StateOf(t)' = StateOf(t) \/ Asking(t)'
    <3>1. CASE fresh = {} /\ UNCHANGED <<slot, shown>>
      BY <3>1 DEF StateOf
    <3>2. ASSUME NEW u \in fresh, slot' = [slot EXCEPT ![u].state = "shown"], shown' = u
          PROVE  StateOf(t)' = StateOf(t) \/ Asking(t)'
      BY <1>0, <2>1, <2>2, <3>2 DEF StateOf, Asking
    <3> QED
      BY <2>1, <3>1, <3>2
  <2>5. Unasked(t) => Unasked(t)'
    BY <2>3, <2>4, UnaskedIs
  <2> QED
    BY <1>0, <2>1, <2>5, IssuedMore
<1>3. ASSUME NEW d \in Slots, PresentStale(d)
      PROVE  glQueue' \in Seq(GlOps) /\ Grows /\ (Unasked(t) => Unasked(t)' \/ Asked(t))
  <2>1. Wait(d) \in GlOps /\ Signal(d) \in GlOps
    BY GlOpsTyped
  <2>2. /\ glQueue' = Append(Append(glQueue, Wait(d)), Signal(d)) /\ GiveBack(d)
        /\ win' = [win EXCEPT !.stale = @ \ {d}] /\ UNCHANGED <<shown, emu>>
    BY <1>0, <1>3, <2>1, Concat DEF PresentStale
  <2>3. glQueue' \in Seq(GlOps) /\ Grows /\ Asked(d)
    BY <1>0, <2>1, <2>2, IssuedMore
  <2>4. CASE t # d
    <3>1. win'.pc = win.pc /\ win'.fresh = win.fresh
      BY <1>0, <2>2 DEF WinType
    <3>2. SameHold(t)
      BY <2>2, <3>1, HoldKept
    <3>3. StateOf(t)' = StateOf(t)
      BY <1>0, <2>2, <2>4 DEF GiveBack, StateOf
    <3> QED
      BY <2>3, <3>2, <3>3, UnaskedIs DEF SameHold
  <2> QED
    BY <2>3, <2>4
<1>4. CASE PresentDraw \/ PresentClosed
  <2>1. shown \in Slots /\ UNCHANGED <<slot, emu>> /\ win.fresh \in BOOLEAN
    BY <1>4, Typed DEF PresentDraw, PresentClosed, slotVars, WinType
  <2>2. Wait(shown) \in GlOps /\ Draw(shown) \in GlOps
    BY <2>1, GlOpsTyped
  <2>3. /\ win.fresh => glQueue' \in {Append(Append(glQueue, Wait(shown)), Draw(shown)), Append(glQueue, Wait(shown))}
        /\ ~win.fresh => glQueue' \in {Append(glQueue, Draw(shown)), glQueue}
    BY <1>0, <1>4, <2>2, Concat DEF PresentDraw, PresentClosed
  <2>4. glQueue' \in Seq(GlOps) /\ Grows /\ (win.fresh => Asked(shown))
    <3>1. CASE win.fresh
      BY <1>0, <2>2, <2>3, <3>1, IssuedMore
    <3>2. CASE ~win.fresh
      BY <1>0, <2>2, <2>3, <3>2, IssuedMore
    <3> QED
      BY <2>1, <3>1, <3>2
  <2>5. (InHand(t)' <=> InHand(t)) /\ StateOf(t)' = StateOf(t) /\ (Asking(t) => win.fresh /\ t = shown)
    BY <2>1 DEF InHand, StateOf, Asking
  <2> QED
    BY <2>4, <2>5, UnaskedIs
<1>5. CASE PresentRetire
  <2>1. /\ win.pc = "retire" /\ UNCHANGED <<shown, emu>>
        /\ win' = [win EXCEPT !.pc = "loop", !.fresh = FALSE, !.retired = None]
        /\ \/ UNCHANGED <<glQueue, slot>>
           \/ /\ win.retired \in Slots
              /\ glQueue' = Append(glQueue, Signal(win.retired)) /\ GiveBack(win.retired)
    BY <1>5, Typed DEF PresentRetire
  <2>2. SameHold(t) /\ ~Asking(t)
    <3>1. win'.pc = "loop"
      BY <1>0, <2>1 DEF WinType
    <3> QED
      BY <2>1, <3>1, HoldKept DEF Asking
  <2>3. CASE UNCHANGED <<glQueue, slot>>
    BY <1>0, <2>2, <2>3, IssuedMore, UnaskedIs DEF SameHold, StateOf
  <2>4. CASE win.retired \in Slots /\ glQueue' = Append(glQueue, Signal(win.retired)) /\ GiveBack(win.retired)
    <3>1. glQueue' \in Seq(GlOps) /\ Grows
      BY <1>0, <2>4, GlOpsTyped, IssuedMore
    <3>2. CASE t # win.retired
      <4>1. StateOf(t)' = StateOf(t)
        BY <1>0, <2>4, <3>2 DEF GiveBack, StateOf
      <4> QED
        BY <2>2, <3>1, <4>1, UnaskedIs DEF SameHold
    <3>3. CASE t = win.retired
      <4>1. StateOf(t) = "shown"
        BY <3>3 DEF Held, RetiredHeld
      <4>2. ~InHand(t)
        BY <4>1 DEF InHand, Held, HandHeld
      <4> QED
        BY <2>2, <3>1, <4>1, <4>2, UnaskedIs
    <3> QED
      BY <3>2, <3>3
  <2> QED
    BY <2>1, <2>3, <2>4
<1> QED
  BY <1>1, <1>2, <1>3, <1>4, <1>5 DEF WinNext

LEMMA WinFeeds ==
    ASSUME TypeOK, Held, AllHanded, AllFed, NEW s \in Slots, NEW t \in Slots, WinNext \/ SwapReturns \/ Close
    PROVE  Fed(s, t)'
<1>1. UNCHANGED <<vkQueue, done>>
  BY DEF WinNext, PresentCannot, PresentPick, PresentStale, PresentDraw, PresentClosed, PresentRetire,
         WindowEnd, SwapReturns, Close, gpuVars
<1> QED
  BY <1>1, WinAsks, FedIssued DEF AllHanded, AllFed

\* Places of one slot's copies, as no two of them are queued.
LEMMA OneCopy ==
    ASSUME TypeOK, NEW s \in Slots, HandedOver(s), NEW i \in DOMAIN vkQueue, NEW j \in DOMAIN vkQueue,
           vkQueue[i] \in Copies(s), vkQueue[j] \in Copies(s)
    PROVE  i = j
<1>1. VkTyped /\ GlTyped /\ vkQueue \in Seq(VkOps)
  BY Typed
<1>2. i \in Places(vkQueue, Copies(s)) /\ j \in Places(vkQueue, Copies(s)) /\ i \in Nat /\ j \in Nat
  BY <1>1 DEF Places
<1>3. Written(s) <= 1 /\ Written(s) \in Nat
  BY <1>1, CountsTyped DEF HandedOver, Fenced
<1>4. ~(Written(s) >= 2)
  BY <1>3
<1>5. ~(i < j) /\ ~(j < i)
  BY <1>1, <1>2, <1>4, CountTwo DEF Written
<1> QED
  BY <1>2, <1>5

LEMMA VkFeeds ==
    ASSUME TypeOK, Held, AllHanded, AllFed, NEW s \in Slots, NEW t \in Slots, VkExecute
    PROVE  Fed(s, t)'
<1> DEFINE e == Head(vkQueue)
<1>0. /\ vkQueue \in Seq(VkOps) /\ vkQueue # <<>> /\ e \in VkOps /\ e = vkQueue[1]
      /\ done \in [Slots -> BOOLEAN] /\ HandedOver(s) /\ Fed(s, t)
      /\ vkQueue' = Tail(vkQueue) /\ UNCHANGED <<slot, shown, emu, win, glQueue>>
  BY Typed, TailPlaces DEF VkExecute, slotVars, AllHanded, AllFed
<1>1. /\ DOMAIN vkQueue = 1 .. Len(vkQueue) /\ DOMAIN vkQueue' = 1 .. Len(vkQueue) - 1 /\ Len(vkQueue) \in Nat \ {0}
      /\ \A k \in DOMAIN vkQueue' : k + 1 \in DOMAIN vkQueue /\ vkQueue'[k] = vkQueue[k + 1]
  BY <1>0, TailPlaces
<1>2. Unasked(t)' <=> Unasked(t)
  BY <1>0 DEF Unasked
<1>3. SUFFICES ASSUME Behind(s, t)', ~done'[s] PROVE Behind(s, t) /\ ~done[s]
  BY <1>0, <1>2 DEF Fed, GivesFirst
<1>4. PICK i, j \in DOMAIN vkQueue' : i <= j /\ vkQueue'[i] = Copy(s, TRUE) /\ vkQueue'[j] \in Copies(t)
  BY <1>3 DEF Behind
<1>5. /\ i + 1 \in DOMAIN vkQueue /\ j + 1 \in DOMAIN vkQueue /\ i + 1 <= j + 1 /\ i + 1 # 1 /\ 1 \in DOMAIN vkQueue
      /\ vkQueue[i + 1] = Copy(s, TRUE) /\ vkQueue[j + 1] \in Copies(t)
  <2>1. i \in DOMAIN vkQueue' /\ j \in DOMAIN vkQueue' /\ i \in Nat /\ j \in Nat /\ i >= 1
    BY <1>1, <1>4
  <2>2. i + 1 <= j + 1 /\ i + 1 # 1 /\ 1 \in DOMAIN vkQueue
    BY <1>1, <1>4, <2>1
  <2>3. i + 1 \in DOMAIN vkQueue /\ vkQueue[i + 1] = vkQueue'[i]
    BY <1>1, <2>1
  <2>4. j + 1 \in DOMAIN vkQueue /\ vkQueue[j + 1] = vkQueue'[j]
    BY <1>1, <2>1
  <2> QED
    BY <1>4, <2>2, <2>3, <2>4
<1>6. Behind(s, t)
  BY <1>5 DEF Behind
<1>7. e \notin Copies(s)
  <2>1. vkQueue[i + 1] \in Copies(s)
    BY <1>5 DEF Copies
  <2>2. SUFFICES ASSUME vkQueue[1] \in Copies(s) PROVE FALSE
    BY <1>0
  <2> QED
    BY <1>0, <1>5, <2>1, <2>2, OneCopy
<1>8. done'[s] = done[s]
  <2>1. CASE e.op = "copy"
    <3>1. e = Copy(e.slot, e.waits) /\ e.waits \in BOOLEAN /\ e.slot \in Slots
      BY <1>0, <2>1, VkOpIs
    <3>2. e.slot # s
      BY <1>7, <3>1 DEF Copies
    <3>3. done' = [done EXCEPT ![e.slot] = IF e.waits THEN FALSE ELSE @]
      BY <2>1 DEF VkExecute
    <3> QED
      BY <1>0, <3>2, <3>3
  <2>2. CASE e.op # "copy"
    BY <2>2 DEF VkExecute
  <2> QED
    BY <2>1, <2>2
<1> QED
  BY <1>3, <1>6, <1>8

LEMMA GlFeeds ==
    ASSUME TypeOK, Held, AllHanded, AllFed, NEW s \in Slots, NEW t \in Slots, GlExecute
    PROVE  Fed(s, t)'
<1> DEFINE e == Head(glQueue)
<1>0. /\ glQueue \in Seq(GlOps) /\ glQueue # <<>> /\ e \in GlOps /\ e = glQueue[1]
      /\ done \in [Slots -> BOOLEAN] /\ Fed(s, t)
      /\ glQueue' = Tail(glQueue) /\ UNCHANGED <<slot, shown, emu, win, vkQueue>>
      /\ done' = [done EXCEPT ![e.slot] = IF e.op = "signal" THEN TRUE ELSE @]
  <2>1. glQueue # <<>>
    BY Typed DEF GlExecute, GlTyped
  <2> QED
    BY <2>1, Typed, TailPlaces DEF GlExecute, slotVars, AllFed
<1>1. /\ DOMAIN glQueue = 1 .. Len(glQueue) /\ Len(glQueue) \in Nat \ {0}
      /\ \A k \in DOMAIN glQueue : k > 1 => k - 1 \in DOMAIN glQueue' /\ glQueue'[k - 1] = glQueue[k]
  BY <1>0, TailPlaces
<1>2. (Unasked(t)' <=> Unasked(t)) /\ (Behind(s, t)' <=> Behind(s, t))
  BY <1>0 DEF Unasked, Behind
<1>3. SUFFICES ASSUME Behind(s, t), ~done'[s], GivesFirst(glQueue, s, t), ~done[s] PROVE GivesFirst(glQueue, s, t)'
  <2>1. ~done'[s] => ~done[s]
    BY <1>0
  <2> QED
    BY <1>0, <1>2, <2>1 DEF Fed
<1>4. PICK m, k \in DOMAIN glQueue : m < k /\ glQueue[m] = Signal(s) /\ glQueue[k] = Wait(t)
  BY <1>3 DEF GivesFirst
<1>5. m # 1
  <2>1. SUFFICES ASSUME e = Signal(s) PROVE FALSE
    BY <1>0, <1>4
  <2>2. e.op = "signal" /\ e.slot = s
    BY <2>1, GlOpsApart
  <2> QED
    BY <1>0, <1>3, <2>2
<1>6. /\ m - 1 \in DOMAIN glQueue' /\ k - 1 \in DOMAIN glQueue' /\ m - 1 < k - 1
      /\ glQueue'[m - 1] = Signal(s) /\ glQueue'[k - 1] = Wait(t)
  BY <1>1, <1>4, <1>5
<1> QED
  BY <1>6 DEF GivesFirst

LEMMA FedStep == TypeOK /\ Held /\ AllHanded /\ AllFed /\ [Next]_vars => AllFed'
<1> SUFFICES ASSUME TypeOK, Held, AllHanded, AllFed, [Next]_vars, NEW s \in Slots, NEW t \in Slots
             PROVE  Fed(s, t)'
  BY DEF AllFed
<1>1. CASE EmuNext
  BY <1>1, EmuFeeds
<1>2. CASE WinNext \/ SwapReturns \/ Close
  BY <1>2, WinFeeds
<1>3. CASE VkExecute \/ GlExecute
  BY <1>3, VkFeeds, GlFeeds
<1>4. CASE UNCHANGED vars
  BY <1>4 DEF vars, slotVars, gpuVars, AllFed, Fed, Behind, GivesFirst, Unasked
<1> QED
  BY <1>1, <1>2, <1>3, <1>4 DEF Next, Over

\* All that GL was given is flushed while a swap is held.
SwapFlushed == win.pc = "swap" => flushed = Len(glQueue)

LEMMA SwapFlushedStep == TypeOK /\ SwapFlushed /\ [Next]_vars => SwapFlushed'
<1> SUFFICES ASSUME TypeOK, SwapFlushed, [Next]_vars, win'.pc = "swap" PROVE flushed' = Len(glQueue')
  BY DEF SwapFlushed
<1>0. win \in WinType /\ glQueue \in Seq(GlOps) /\ GlTyped
  BY Typed
<1>1. CASE PresentDraw
  BY <1>1 DEF PresentDraw
<1>2. CASE GlExecute
  <2>1. flushed > 0 /\ glQueue' = Tail(glQueue) /\ flushed' = flushed - 1 /\ win' = win
    BY <1>2 DEF GlExecute
  <2>2. glQueue # <<>>
    BY <1>0, <2>1 DEF GlTyped
  <2>3. Len(Tail(glQueue)) = Len(glQueue) - 1
    BY <1>0, <2>2
  <2> QED
    BY <2>1, <2>3 DEF SwapFlushed
<1>3. CASE UNCHANGED <<win, glQueue, flushed>>
  BY <1>3 DEF SwapFlushed
<1>4. ASSUME PresentPick \/ PresentClosed \/ SwapReturns \/ PresentRetire \/ WindowEnd
             \/ \E s \in Slots : PresentStale(s)
      PROVE  FALSE
  <2>1. CASE PresentClosed \/ SwapReturns \/ PresentRetire \/ WindowEnd
    BY <1>0, <2>1 DEF PresentClosed, SwapReturns, PresentRetire, WindowEnd, WinType
  <2>2. CASE PresentPick
    BY <2>2 DEF PresentPick
  <2>3. ASSUME NEW s \in Slots, PresentStale(s) PROVE FALSE
    BY <1>0, <2>3 DEF PresentStale, WinType
  <2> QED
    BY <1>4, <2>1, <2>2, <2>3
<1> QED
  BY <1>1, <1>2, <1>3, <1>4
     DEF Next, vars, gpuVars, EmuNext, WinNext, FramePick, FrameDrop, FrameNoImage, FrameSubmit,
         FramePublish, ReadBack, ReadBackDone, NoReadBack, EmuStop, EmuDestroy, PresentCannot,
         Close, VkExecute, Over

\* With everything flushed, a Vulkan queue that cannot run leaves one to GL that can.
LEMMA OneRuns ==
    ASSUME TypeOK, Held, AllHanded, AllFed, vkQueue # <<>>, flushed = Len(glQueue)
    PROVE  VkRuns \/ GlRuns
<1> DEFINE c == Head(vkQueue)
           s == c.slot
           g == Head(glQueue)
           t == g.slot
<1>0. /\ vkQueue \in Seq(VkOps) /\ glQueue \in Seq(GlOps) /\ VkTyped /\ GlTyped
      /\ c \in VkOps /\ c = vkQueue[1] /\ 1 \in DOMAIN vkQueue
      /\ done \in [Slots -> BOOLEAN] /\ ready \in [Slots -> BOOLEAN]
  BY Typed, TailPlaces
<1>1. SUFFICES ASSUME ~VkRuns, ~GlRuns PROVE FALSE
  OBVIOUS
<1>2. c.op = "copy" /\ c.waits /\ ~done[s]
  BY <1>1 DEF VkRuns
<1>3. s \in Slots /\ vkQueue[1] = Copy(s, TRUE)
  <2>1. s \in Slots /\ c.waits \in BOOLEAN /\ c = Copy(s, c.waits)
    BY <1>0, <1>2, VkOpIs
  <2>2. c.waits = TRUE
    BY <1>2, <2>1
  <2> QED
    BY <1>0, <2>1, <2>2
<1>4. Queued(glQueue, {Signal(s)})
  BY <1>0, <1>2, <1>3, DoneIssued DEF AllHanded
<1>5. glQueue # <<>> /\ flushed > 0
  <2>1. glQueue # <<>>
    BY <1>0, <1>4 DEF Queued
  <2>2. Len(glQueue) > 0
    BY <1>0, <2>1
  <2> QED
    BY <2>1, <2>2
<1>6. g \in GlOps /\ g = glQueue[1] /\ 1 \in DOMAIN glQueue
  BY <1>0, <1>5
<1>7. g.op = "wait" /\ ~ready[t]
  BY <1>1, <1>5 DEF GlRuns
<1>8. t \in Slots /\ glQueue[1] = Wait(t)
  BY <1>6, <1>7, GlOpIs
<1> HIDE DEF c, s, g, t
<1>9. Queued(glQueue, {Wait(t)})
  BY <1>6, <1>8 DEF Queued
<1>10. Taken(t) >= 1
  BY <1>0, <1>9, CountSome DEF Taken
<1>11. /\ Written(t) \in Nat /\ Taken(t) \in Nat /\ Written(t) <= 1
       /\ 0 + Written(t) = Taken(t) + Payload(Unasked(t))
       /\ Written(t) >= 1 <=> Queued(vkQueue, Copies(t))
  BY <1>0, <1>7, <1>8, CountsTyped DEF AllHanded, HandedOver, Fenced, ReadyBalanced, Payload
<1>12. ~Unasked(t) /\ Taken(t) = 1 /\ Written(t) >= 1
  <2>1. Payload(Unasked(t)) \in Nat /\ (Unasked(t) => Payload(Unasked(t)) = 1)
    BY DEF Payload
  <2> QED
    BY <1>10, <1>11, <2>1
<1>13. PICK j \in DOMAIN vkQueue : vkQueue[j] \in Copies(t)
  BY <1>11, <1>12 DEF Queued
<1>14. Behind(s, t)
  <2>1. 1 <= j
    BY <1>0, <1>13
  <2> QED
    BY <1>0, <1>3, <1>13, <2>1 DEF Behind
<1>15. GivesFirst(glQueue, s, t)
  BY <1>2, <1>3, <1>8, <1>12, <1>14 DEF AllFed, Fed
<1>16. PICK m, k \in DOMAIN glQueue : m < k /\ glQueue[m] = Signal(s) /\ glQueue[k] = Wait(t)
  BY <1>15 DEF GivesFirst
<1>17. 1 \in Places(glQueue, {Wait(t)}) /\ k \in Places(glQueue, {Wait(t)}) /\ 1 < k
  BY <1>0, <1>6, <1>8, <1>16 DEF Places
<1>18. Taken(t) >= 2
  BY <1>0, <1>17, CountTwo DEF Taken
<1> QED
  BY <1>12, <1>18

\* However long the compositor holds a swap, one of the two queues can go on until the
\* Vulkan one is empty, for any slots, sizes and bounds: the safety that the emulation's
\* waiting for its fences rests on (wlvk_frame, wlp_present_vk).
THEOREM SwapNeverBlocks == Spec => []SwapHoldsNothingUp
<1>1. Init => AllFed /\ SwapFlushed
  BY DEF Init, AllFed, Fed, Behind, SwapFlushed
<1>2. TypeOK /\ Held /\ AllHanded /\ AllFed /\ SwapFlushed => SwapHoldsNothingUp
  BY OneRuns DEF SwapFlushed, SwapHoldsNothingUp
<1> QED
  BY <1>1, <1>2, FedStep, SwapFlushedStep, HandedAlways, PTL DEF Spec

=============================================================================
