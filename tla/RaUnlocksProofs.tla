---------------------------- MODULE RaUnlocksProofs ----------------------------
(***************************************************************************)
(* Proofs about RaUnlocks, for any unlocks and entries and an outage of    *)
(* any length: types, one owner, the refinement of Outbox, the mode of a   *)
(* submission, the order of the list and the alternation of the events.    *)
(***************************************************************************)
EXTENDS RaUnlocks, TLAPS

LEMMA DelayNat == ASSUME NEW n \in Nat, n > 0 PROVE Delay(n + 1) \in Nat
<1>1. CASE n + 1 > 8
  BY <1>1 DEF Delay
<1>2. CASE n + 1 <= 8
  <2>1. n \in {1, 2, 3, 4, 5, 6, 7}
    BY <1>2
  <2>2. Delay(n + 1) = <<1, 2, 4, 8, 16, 32, 64>>[n]
    BY <1>2 DEF Delay
  <2> QED
    BY <2>1, <2>2
<1> QED
  BY <1>1, <1>2

LEMMA InsertSeq ==
    ASSUME NEW q \in Seq(Scheduled), NEW n \in 0 .. Len(q), NEW e \in Scheduled
    PROVE  /\ Insert(q, n, e) \in Seq(Scheduled)
           /\ Len(Insert(q, n, e)) = Len(q) + 1
           /\ \A k \in 1 .. Len(q) + 1 :
                Insert(q, n, e)[k] = IF k <= n THEN q[k] ELSE IF k = n + 1 THEN e ELSE q[k - 1]
<1> DEFINE f(k) == IF k <= n THEN q[k] ELSE IF k = n + 1 THEN e ELSE q[k - 1]
<1>1. Insert(q, n, e) = [k \in 1 .. Len(q) + 1 |-> f(k)]
  BY DEF Insert
<1>2. \A k \in 1 .. Len(q) + 1 : f(k) \in Scheduled
  <2>1. SUFFICES ASSUME NEW k \in 1 .. Len(q) + 1 PROVE f(k) \in Scheduled
    OBVIOUS
  <2>2. CASE k <= n
    <3>1. k \in 1 .. Len(q)
      BY <2>2
    <3> QED
      BY <2>2, <3>1
  <2>3. CASE k > n + 1
    <3>1. k - 1 \in 1 .. Len(q)
      BY <2>3
    <3> QED
      BY <2>3, <3>1
  <2> QED
    BY <2>2, <2>3
<1>3. Insert(q, n, e) \in [1 .. Len(q) + 1 -> Scheduled]
  BY <1>1, <1>2
<1>4. Insert(q, n, e) \in Seq(Scheduled) /\ Len(Insert(q, n, e)) = Len(q) + 1
  BY <1>3, Len(q) + 1 \in Nat
<1> QED
  BY <1>1, <1>4

LEMMA TailParts ==
    ASSUME NEW S, NEW q \in Seq(S), q # <<>>
    PROVE  /\ Head(q) \in S /\ Head(q) = q[1] /\ 1 \in DOMAIN q
           /\ Tail(q) \in Seq(S)
           /\ DOMAIN Tail(q) = 1 .. Len(q) - 1
           /\ \A k \in 1 .. Len(q) - 1 : Tail(q)[k] = q[k + 1] /\ k + 1 \in DOMAIN q
  OBVIOUS

-----------------------------------------------------------------------------
(* Types.                                                                  *)
EmuType == [pc : Pcs, item : Unlocks \cup {None}, now : Nat]

LEMMA InitTyped == Init => TypeOK
  BY DEF Init, TypeOK, Pcs, Scheduled

LEMMA EmuTyped ==
    ASSUME TypeOK, [Next]_vars
    PROVE  emu' \in EmuType /\ (emu'.pc = "award" <=> emu'.item # None)
<1> USE DEF EmuType, Pcs
<1>0. emu \in EmuType /\ (emu.pc = "award" <=> emu.item # None) /\ clock \in Nat
  BY DEF TypeOK
<1>1. CASE FrameStart
  BY <1>0, <1>1 DEF FrameStart
<1>2. ASSUME NEW a \in Unlocks, Award(a) PROVE emu' \in EmuType /\ (emu'.pc = "award" <=> emu'.item # None)
  <2>1. a # None
    BY NoneAssumption DEF Items
  <2> QED
    BY <1>0, <1>2, <2>1 DEF Award
<1>3. CASE SendUnlock
  BY <1>0, <1>3 DEF SendUnlock
<1>4. CASE IdleStart
  BY <1>0, <1>4 DEF IdleStart
<1>5. CASE IdleEnd
  BY <1>0, <1>5 DEF IdleEnd
<1>6. CASE CheckDisconnect
  BY <1>0, <1>6 DEF CheckDisconnect
<1>7. CASE RaiseDisconnect
  BY <1>0, <1>7 DEF RaiseDisconnect
<1>8. CASE UNCHANGED emu
  BY <1>0, <1>8
<1> QED
  BY <1>1, <1>2, <1>3, <1>4, <1>5, <1>6, <1>7, <1>8
  DEF Next, Resend, Answer, ScheduleItem, SendEntry, IdlePop, Settle, RetryNow, RetryLater, Schedule,
      UpdateDisconnect, DropHardcore, Elapse, Quit, Destroy, Gone, vars

LEMMA ListTyped ==
    ASSUME TypeOK, [Next]_vars
    PROVE  /\ net' \subseteq Items /\ hand' \subseteq Scheduled /\ queue' \in Seq(Scheduled)
           /\ settled' \subseteq Items
<1> DEFINE Goal == /\ net \subseteq Items /\ hand \subseteq Scheduled /\ queue \in Seq(Scheduled)
                   /\ settled \subseteq Items
<1> SUFFICES Goal'
  OBVIOUS
<1>0. Goal
  BY DEF TypeOK
<1>1. CASE SendUnlock
  <2>1. emu.item \in Items
    BY <1>1 DEF SendUnlock, TypeOK, Items
  <2> QED
    BY <1>0, <1>1, <2>1 DEF SendUnlock
<1>2. ASSUME NEW e \in Entries, SendEntry(e) PROVE Goal'
  BY <1>0, <1>2 DEF SendEntry, Items
<1>3. CASE IdlePop
  <2>1. queue # <<>> /\ queue' = Tail(queue) /\ net' = net \cup {Head(queue).item}
        /\ UNCHANGED <<hand, settled>>
    BY <1>3 DEF IdlePop, Due
  <2>2. Head(queue) \in Scheduled /\ Tail(queue) \in Seq(Scheduled)
    BY <1>0, <2>1
  <2>3. Head(queue).item \in Items
    BY <2>2 DEF Scheduled
  <2> QED
    BY <1>0, <2>1, <2>2, <2>3
<1>4. ASSUME NEW i \in Items, Settle(i) PROVE Goal'
  BY <1>0, <1>4 DEF Settle
<1>5. ASSUME NEW i \in Items, RetryLater(i) PROVE Goal'
  <2>1. Delay(retries[i] + 1) \in Nat /\ clock \in Nat
    BY <1>5, DelayNat DEF RetryLater, TypeOK
  <2>2. /\ net' = net \ {i} /\ UNCHANGED <<queue, settled>>
        /\ hand' = hand \cup {[item |-> i, when |-> clock + Delay(retries[i] + 1)]}
    BY <1>5 DEF RetryLater
  <2> QED
    BY <1>0, <2>1, <2>2 DEF Scheduled
<1>6. ASSUME NEW h \in hand, Schedule(h) PROVE Goal'
  <2>1. PICK n \in 0 .. Len(queue) : queue' = Insert(queue, n, h)
    BY <1>6 DEF Schedule
  <2>2. queue' \in Seq(Scheduled)
    BY <1>0, <2>1, InsertSeq
  <2> QED
    BY <1>0, <1>6, <2>2 DEF Schedule
<1>7. CASE UNCHANGED <<net, hand, queue, settled>>
  BY <1>0, <1>7
<1> QED
  BY <1>1, <1>2, <1>3, <1>4, <1>5, <1>6, <1>7
  DEF Next, Resend, Answer, ScheduleItem, FrameStart, Award, IdleStart, IdleEnd, CheckDisconnect,
      RaiseDisconnect, RetryNow, UpdateDisconnect, DropHardcore, Elapse, Quit, Destroy, Gone, vars, subVars

LEMMA ItemsTyped ==
    ASSUME TypeOK, [Next]_vars
    PROVE  /\ retries' \in [Items -> Nat] /\ hard' \in [Items -> BOOLEAN]
           /\ unlocked' \in [Unlocks -> {"no", "soft", "both"}]
<1> DEFINE Goal == /\ retries \in [Items -> Nat] /\ hard \in [Items -> BOOLEAN]
                   /\ unlocked \in [Unlocks -> {"no", "soft", "both"}]
<1> SUFFICES Goal'
  OBVIOUS
<1>0. Goal /\ hardcore \in BOOLEAN
  BY DEF TypeOK
<1>1. ASSUME NEW a \in Unlocks, Award(a) PROVE Goal'
  BY <1>0, <1>1 DEF Award, subVars
<1>2. CASE SendUnlock
  BY <1>0, <1>2 DEF SendUnlock
<1>3. ASSUME NEW e \in Entries, SendEntry(e) PROVE Goal'
  BY <1>0, <1>3 DEF SendEntry
<1>4. ASSUME NEW i \in Items, RetryNow(i) PROVE Goal'
  BY <1>0, <1>4 DEF RetryNow
<1>5. ASSUME NEW i \in Items, RetryLater(i) PROVE Goal'
  <2>1. retries' = [retries EXCEPT ![i] = retries[i] + 1] /\ UNCHANGED <<hard, unlocked>>
    BY <1>5 DEF RetryLater
  <2>2. retries[i] + 1 \in Nat
    BY <1>0
  <2> QED
    BY <1>0, <2>1, <2>2
<1>6. CASE UNCHANGED <<retries, hard, unlocked>>
  BY <1>0, <1>6
<1> QED
  BY <1>1, <1>2, <1>3, <1>4, <1>5, <1>6
  DEF Next, Resend, Answer, ScheduleItem, FrameStart, IdleStart, IdlePop, IdleEnd, CheckDisconnect,
      RaiseDisconnect, Settle, Schedule, UpdateDisconnect, DropHardcore, Elapse, Quit, Destroy, Gone,
      vars, subVars

LEMMA FlagsTyped ==
    ASSUME TypeOK, [Next]_vars
    PROVE  /\ hardcore' \in BOOLEAN /\ owed' \in Nat /\ clock' \in Nat
           /\ life' \in {"playing", "quitting", "gone"}
<1>1. hardcore \in BOOLEAN /\ owed \in Nat /\ clock \in Nat /\ life \in {"playing", "quitting", "gone"}
  BY DEF TypeOK
<1> DEFINE Goal == /\ hardcore \in BOOLEAN /\ owed \in Nat /\ clock \in Nat
                   /\ life \in {"playing", "quitting", "gone"}
<1>2. CASE UNCHANGED <<hardcore, clock, life>> /\ owed' \in {owed, owed + 1}
  BY <1>1, <1>2
<1>3. CASE UpdateDisconnect
  BY <1>1, <1>3 DEF UpdateDisconnect
<1>9. CASE Elapse
  BY <1>1, <1>9 DEF Elapse, alarmVars
<1>4. CASE DropHardcore \/ Quit \/ Destroy \/ Gone \/ UNCHANGED vars
  BY <1>1, <1>4 DEF DropHardcore, Quit, Destroy, Gone, vars, alarmVars
<1>5. ASSUME NEW i \in Items, Settle(i) \/ RetryNow(i) \/ RetryLater(i) \/ ScheduleItem(i) PROVE Goal'
  BY <1>2, <1>5 DEF Settle, RetryNow, RetryLater, ScheduleItem, Schedule, alarmVars
<1>6. CASE FrameStart \/ SendUnlock \/ Resend
  BY <1>2, <1>6 DEF FrameStart, SendUnlock, Resend, IdleStart, IdlePop, IdleEnd, CheckDisconnect,
                    RaiseDisconnect, alarmVars
<1>7. ASSUME NEW a \in Unlocks, Award(a) PROVE Goal'
  BY <1>2, <1>7 DEF Award, alarmVars
<1>8. ASSUME NEW e \in Entries, SendEntry(e) PROVE Goal'
  BY <1>2, <1>8 DEF SendEntry, alarmVars
<1> QED
  BY <1>3, <1>4, <1>5, <1>6, <1>7, <1>8, <1>9 DEF Next, Answer

LEMMA AlarmTyped ==
    ASSUME TypeOK, [Next]_vars
    PROVE  /\ disconnect' \in {"hidden", "showing", "visible", "hiding"}
           /\ told' \in {"connected", "disconnected"}
<1>1. /\ disconnect \in {"hidden", "showing", "visible", "hiding"}
      /\ told \in {"connected", "disconnected"}
  BY DEF TypeOK
<1>2. CASE RaiseDisconnect
  BY <1>1, <1>2 DEF RaiseDisconnect
<1>3. CASE UpdateDisconnect
  BY <1>1, <1>3 DEF UpdateDisconnect, NextDisconnect
<1>4. CASE UNCHANGED <<disconnect, told>>
  BY <1>1, <1>4
<1> QED
  BY <1>2, <1>3, <1>4
  DEF Next, Resend, Answer, ScheduleItem, FrameStart, Award, SendUnlock, SendEntry, IdleStart, IdlePop,
      IdleEnd, CheckDisconnect, Settle, RetryNow, RetryLater, Schedule,
      DropHardcore, Elapse, Quit, Destroy, Gone, vars, alarmVars

\* The model's variables keep their types, for any outage (rc_client_state_t).
THEOREM UnlocksTypeCorrect == Spec => []TypeOK
<1>1. TypeOK /\ [Next]_vars => TypeOK'
  <2> SUFFICES ASSUME TypeOK, [Next]_vars PROVE TypeOK'
    OBVIOUS
  <2> QED
    BY EmuTyped, ListTyped, ItemsTyped, FlagsTyped, AlarmTyped DEF TypeOK, EmuType
<1> QED
  BY <1>1, InitTyped, PTL DEF Spec

-----------------------------------------------------------------------------
(* Owners.  A submission not yet sent has none: an achievement that is     *)
(* still locked, and one that was just unlocked.                           *)
UniqueHand == \A g, h \in hand : g.item = h.item => g = h
UniqueQueue == \A j, k \in DOMAIN queue : queue[j].item = queue[k].item => j = k
Apart == net \cap Held = {} /\ net \cap Queued = {} /\ Held \cap Queued = {} /\ settled \cap Waiting = {}

Unsent ==
    /\ emu.pc = "award" => emu.item \notin Waiting \cup settled /\ unlocked[emu.item] # "no"
    /\ \A a \in Unlocks : unlocked[a] = "no" => a \notin Waiting \cup settled

Owned == UniqueHand /\ UniqueQueue /\ Apart /\ Unsent

LEMMA OwnedOne == Owned => OneOwner
  BY DEF Owned, UniqueHand, UniqueQueue, Apart, OneOwner

LEMMA PoppedItems ==
    ASSUME TypeOK, UniqueQueue, IdlePop
    PROVE  /\ Head(queue).item \in Queued /\ Queued' = Queued \ {Head(queue).item}
           /\ UniqueQueue'
<1>1. queue \in Seq(Scheduled) /\ queue # <<>> /\ queue' = Tail(queue)
  BY DEF TypeOK, IdlePop, Due
<1>2. /\ Head(queue) = queue[1] /\ 1 \in DOMAIN queue
      /\ DOMAIN queue = 1 .. Len(queue) /\ Len(queue) \in Nat
      /\ DOMAIN queue' = 1 .. Len(queue) - 1
      /\ \A k \in 1 .. Len(queue) - 1 : queue'[k] = queue[k + 1] /\ k + 1 \in DOMAIN queue
  BY <1>1, TailParts
<1>3. UniqueQueue'
  BY <1>2 DEF UniqueQueue
<1>4. Queued' = {queue'[k].item : k \in 1 .. Len(queue) - 1}
  BY <1>2 DEF Queued
<1>5. ASSUME NEW x \in Queued' PROVE x \in Queued \ {Head(queue).item}
  <2>1. PICK k \in 1 .. Len(queue) - 1 : x = queue'[k].item
    BY <1>4, <1>5
  <2>2. x = queue[k + 1].item /\ k + 1 \in DOMAIN queue /\ k + 1 # 1
    BY <1>2, <2>1
  <2> QED
    BY <1>2, <2>2 DEF Queued, UniqueQueue
<1>6. ASSUME NEW x \in Queued, x # Head(queue).item PROVE x \in Queued'
  <2>1. PICK k \in DOMAIN queue : x = queue[k].item
    BY <1>6 DEF Queued
  <2>2. k # 1
    BY <1>2, <1>6, <2>1
  <2>3. k - 1 \in 1 .. Len(queue) - 1 /\ queue'[k - 1] = queue[k]
    BY <1>2, <2>1, <2>2
  <2> QED
    BY <1>4, <2>1, <2>3
<1>7. Head(queue).item \in Queued
  BY <1>2 DEF Queued
<1> QED
  BY <1>3, <1>5, <1>6, <1>7

LEMMA ScheduledItems ==
    ASSUME TypeOK, UniqueHand, UniqueQueue, Held \cap Queued = {}, NEW h \in hand, Schedule(h)
    PROVE  /\ h.item \in Held /\ Held' = Held \ {h.item} /\ UniqueHand'
           /\ Queued' = Queued \cup {h.item} /\ UniqueQueue'
<1>1. /\ queue \in Seq(Scheduled) /\ h \in Scheduled /\ hand' = hand \ {h}
      /\ DOMAIN queue = 1 .. Len(queue) /\ Len(queue) \in Nat
  BY DEF TypeOK, Schedule
<1>2. PICK n \in 0 .. Len(queue) : queue' = Insert(queue, n, h)
  BY DEF Schedule
<1>3. /\ queue' \in Seq(Scheduled) /\ Len(queue') = Len(queue) + 1
      /\ \A k \in 1 .. Len(queue) + 1 :
           queue'[k] = IF k <= n THEN queue[k] ELSE IF k = n + 1 THEN h ELSE queue[k - 1]
  <2> DEFINE q == queue
  <2>1. /\ Insert(q, n, h) \in Seq(Scheduled) /\ Len(Insert(q, n, h)) = Len(q) + 1
        /\ \A k \in 1 .. Len(q) + 1 :
             Insert(q, n, h)[k] = IF k <= n THEN q[k] ELSE IF k = n + 1 THEN h ELSE q[k - 1]
    <3> HIDE DEF q
    <3>1. q \in Seq(Scheduled) /\ h \in Scheduled /\ n \in 0 .. Len(q)
      BY <1>1 DEF q
    <3> QED
      BY <3>1, InsertSeq
  <2> QED
    BY <1>2, <2>1
<1>4. DOMAIN queue' = 1 .. Len(queue) + 1
  BY <1>3
<1>5. h.item \in Held /\ h.item \notin Queued
  BY DEF Held
<1>6. Held' = Held \ {h.item}
  BY <1>1 DEF Held, UniqueHand
<1>7. UniqueHand'
  BY <1>1 DEF UniqueHand
<1> DEFINE old(k) == IF k <= n THEN k ELSE k - 1
<1>8. ASSUME NEW k \in DOMAIN queue', k # n + 1
      PROVE  old(k) \in DOMAIN queue /\ queue'[k] = queue[old(k)]
  BY <1>1, <1>3, <1>4, <1>8
<1>9. n + 1 \in DOMAIN queue' /\ queue'[n + 1] = h
  BY <1>1, <1>3, <1>4
<1>10. ASSUME NEW j \in DOMAIN queue', NEW k \in DOMAIN queue', queue'[j].item = queue'[k].item
       PROVE  j = k
  <2>1. CASE j # n + 1 /\ k # n + 1
    <3>1. old(j) = old(k)
      BY <1>8, <1>10, <2>1 DEF UniqueQueue
    <3> QED
      BY <1>1, <1>4, <2>1, <3>1
  <2>2. CASE j = n + 1 /\ k # n + 1
    <3>1. h.item = queue[old(k)].item /\ old(k) \in DOMAIN queue
      BY <1>8, <1>9, <1>10, <2>2
    <3> QED
      BY <1>5, <3>1 DEF Queued
  <2>3. CASE j # n + 1 /\ k = n + 1
    <3>1. h.item = queue[old(j)].item /\ old(j) \in DOMAIN queue
      BY <1>8, <1>9, <1>10, <2>3
    <3> QED
      BY <1>5, <3>1 DEF Queued
  <2> QED
    BY <2>1, <2>2, <2>3
<1>11. UniqueQueue'
  BY <1>10 DEF UniqueQueue
<1>12. ASSUME NEW x \in Queued' PROVE x \in Queued \cup {h.item}
  <2>1. PICK k \in DOMAIN queue' : x = queue'[k].item
    BY <1>12 DEF Queued
  <2> QED
    BY <1>8, <1>9, <2>1 DEF Queued
<1>13. ASSUME NEW x \in Queued PROVE x \in Queued'
  <2>1. PICK k \in DOMAIN queue : x = queue[k].item
    BY <1>13 DEF Queued
  <2>2. CASE k <= n
    <3>1. k \in DOMAIN queue' /\ queue'[k] = queue[k]
      BY <1>1, <1>3, <1>4, <2>2
    <3> QED
      BY <2>1, <3>1 DEF Queued
  <2>3. CASE k > n
    <3>1. k + 1 \in DOMAIN queue' /\ queue'[k + 1] = queue[k]
      BY <1>1, <1>3, <1>4, <2>3
    <3> QED
      BY <2>1, <3>1 DEF Queued
  <2> QED
    BY <1>1, <2>2, <2>3
<1>14. h.item \in Queued'
  BY <1>9 DEF Queued
<1> QED
  BY <1>5, <1>6, <1>7, <1>11, <1>12, <1>13, <1>14

LEMMA RetriedItems ==
    ASSUME UniqueHand, NEW i \in Items, RetryLater(i), i \notin Held
    PROVE  Held' = Held \cup {i} /\ UniqueHand'
<1>1. hand' = hand \cup {[item |-> i, when |-> clock + Delay(retries[i] + 1)]}
  BY DEF RetryLater
<1>2. Held' = Held \cup {i}
  <2> DEFINE e == [item |-> i, when |-> clock + Delay(retries[i] + 1)]
  <2>1. e.item = i /\ hand' = hand \cup {e}
    BY <1>1
  <2> HIDE DEF e
  <2>2. Held' = {h.item : h \in hand'}
    BY DEF Held
  <2>3. Held = {h.item : h \in hand}
    BY DEF Held
  <2>4. \A x \in Held' : x \in Held \cup {i}
    BY <2>1, <2>2, <2>3
  <2>5. \A x \in Held \cup {i} : x \in Held'
    BY <2>1, <2>2, <2>3
  <2> QED
    BY <2>4, <2>5
<1>3. UniqueHand'
  BY <1>1 DEF UniqueHand, Held
<1> QED
  BY <1>2, <1>3

LEMMA WaitingStays ==
    ASSUME UNCHANGED <<net, hand, queue>>
    PROVE  UNCHANGED <<Waiting, Held, Queued>> /\ (UniqueHand <=> UniqueHand') /\ (UniqueQueue <=> UniqueQueue')
  BY DEF Waiting, Held, Queued, UniqueHand, UniqueQueue

LEMMA QuietStep ==
    ASSUME Owned, UNCHANGED <<net, hand, queue, settled, unlocked>>,
           emu'.pc = "award" => (emu.pc = "award" /\ emu'.item = emu.item)
    PROVE  Owned'
<1>1. UNCHANGED <<Waiting, Held, Queued>> /\ UniqueHand' /\ UniqueQueue'
  BY WaitingStays DEF Owned
<1>2. Apart'
  BY <1>1 DEF Owned, Apart
<1>3. Unsent'
  BY <1>1 DEF Owned, Unsent
<1> QED
  BY <1>1, <1>2, <1>3 DEF Owned

LEMMA AwardOwned == ASSUME TypeOK, Owned, NEW a \in Unlocks, Award(a) PROVE Owned'
<1>0. emu \in EmuType /\ unlocked \in [Unlocks -> {"no", "soft", "both"}] /\ emu.pc = "frame"
  BY DEF TypeOK, EmuType, Award
<1>1. /\ UNCHANGED <<net, hand, queue, settled>> /\ unlocked[a] = "no"
      /\ unlocked' = [unlocked EXCEPT ![a] = IF hardcore THEN "both" ELSE "soft"]
      /\ emu' = [emu EXCEPT !.pc = "award", !.item = a]
  BY DEF Award, subVars
<1>2. UNCHANGED <<Waiting, Held, Queued>> /\ UniqueHand' /\ UniqueQueue'
  BY <1>1, WaitingStays DEF Owned
<1>3. Apart'
  BY <1>1, <1>2 DEF Owned, Apart
<1>4. a \notin Waiting \cup settled /\ unlocked'[a] # "no"
  BY <1>0, <1>1 DEF Owned, Unsent
<1>5. emu'.pc = "award" => emu'.item = a
  BY <1>0, <1>1 DEF EmuType
<1>6. \A b \in Unlocks : unlocked'[b] = "no" => unlocked[b] = "no"
  BY <1>0, <1>1
<1>7. Unsent'
  BY <1>1, <1>2, <1>4, <1>5, <1>6 DEF Owned, Unsent
<1> QED
  BY <1>2, <1>3, <1>7 DEF Owned

LEMMA SendOwned ==
    ASSUME Owned, NEW i \in Items, i \notin Waiting \cup settled, emu'.pc # "award",
           net' = net \cup {i}, UNCHANGED <<hand, queue, settled, unlocked>>,
           i \in Unlocks => unlocked[i] # "no"
    PROVE  Owned' /\ Waiting' = Waiting \cup {i}
<1>1. UNCHANGED <<Held, Queued>> /\ UniqueHand' /\ UniqueQueue'
  BY DEF Owned, Held, Queued, UniqueHand, UniqueQueue
<1>2. Waiting' = Waiting \cup {i}
  BY <1>1 DEF Waiting
<1>3. Apart'
  BY <1>1, <1>2 DEF Owned, Apart, Waiting
<1>4. Unsent'
  BY <1>2 DEF Owned, Unsent
<1> QED
  BY <1>1, <1>2, <1>3, <1>4 DEF Owned

\* A submission that only changes hands, from one owner to the next.
LEMMA HandOver ==
    ASSUME Owned, UniqueHand', UniqueQueue', Apart', Waiting' = Waiting,
           UNCHANGED <<settled, unlocked, emu>>
    PROVE  Owned'
  BY DEF Owned, Unsent

LEMMA PopOwned == ASSUME TypeOK, Owned, IdlePop PROVE Owned' /\ Waiting' = Waiting
<1>1. /\ net' = net \cup {Head(queue).item} /\ UNCHANGED <<hand, settled, unlocked, emu>>
  BY DEF IdlePop
<1>2. /\ Head(queue).item \in Queued /\ Queued' = Queued \ {Head(queue).item}
      /\ UniqueQueue'
  BY PoppedItems DEF Owned
<1>3. Held' = Held /\ UniqueHand'
  BY <1>1 DEF Held, UniqueHand, Owned
<1>4. Waiting' = Waiting
  BY <1>1, <1>2, <1>3 DEF Waiting
<1>5. Apart'
  BY <1>1, <1>2, <1>3, <1>4 DEF Apart, Owned
<1> QED
  BY <1>1, <1>2, <1>3, <1>4, <1>5, HandOver

LEMMA SettleOwned ==
    ASSUME Owned, NEW i \in Items, Settle(i)
    PROVE  Owned' /\ Waiting' = Waiting \ {i} /\ settled' = settled \cup {i} /\ i \in Waiting
<1>1. /\ net' = net \ {i} /\ settled' = settled \cup {i} /\ i \in net
      /\ UNCHANGED <<hand, queue, unlocked, emu>>
  BY DEF Settle
<1>2. UNCHANGED <<Held, Queued>> /\ UniqueHand' /\ UniqueQueue'
  BY <1>1 DEF Owned, Held, Queued, UniqueHand, UniqueQueue
<1>3. i \notin Held \cup Queued
  BY <1>1 DEF Owned, Apart
<1>4. Waiting' = Waiting \ {i} /\ i \in Waiting
  BY <1>1, <1>2, <1>3 DEF Waiting
<1>5. Apart'
  BY <1>1, <1>2, <1>4 DEF Owned, Apart
<1>6. Unsent'
  BY <1>1, <1>4 DEF Owned, Unsent
<1> QED
  BY <1>1, <1>2, <1>4, <1>5, <1>6 DEF Owned

LEMMA RetryOwned == ASSUME Owned, NEW i \in Items, RetryLater(i) PROVE Owned' /\ Waiting' = Waiting
<1>1. /\ net' = net \ {i} /\ i \in net /\ UNCHANGED <<queue, settled, unlocked, emu>>
  BY DEF RetryLater
<1>2. i \notin Held \cup Queued
  BY <1>1 DEF Owned, Apart
<1>3. Held' = Held \cup {i} /\ UniqueHand'
  BY <1>2, RetriedItems DEF Owned
<1>4. Queued' = Queued /\ UniqueQueue'
  BY <1>1 DEF Owned, Queued, UniqueQueue
<1>5. Waiting' = Waiting
  BY <1>1, <1>3, <1>4 DEF Waiting
<1>6. Apart'
  BY <1>1, <1>2, <1>3, <1>4, <1>5 DEF Owned, Apart
<1> QED
  BY <1>1, <1>3, <1>4, <1>5, <1>6, HandOver

LEMMA ScheduleOwned ==
    ASSUME TypeOK, Owned, NEW h \in hand, Schedule(h)
    PROVE  Owned' /\ Waiting' = Waiting
<1>1. UNCHANGED <<net, settled, unlocked, emu>>
  BY DEF Schedule
<1>2. /\ h.item \in Held /\ Held' = Held \ {h.item} /\ UniqueHand'
      /\ Queued' = Queued \cup {h.item} /\ UniqueQueue'
  BY ScheduledItems DEF Owned, Apart
<1>3. Waiting' = Waiting
  BY <1>1, <1>2 DEF Waiting
<1>4. Apart'
  BY <1>1, <1>2, <1>3 DEF Owned, Apart
<1> QED
  BY <1>1, <1>2, <1>3, <1>4, HandOver

-----------------------------------------------------------------------------
(* Every step keeps the owners and is a step of the outbox, or none of it. *)
Kept == Owned' /\ [Submissions!Next]_(Submissions!vars)

LEMMA NoOutboxStep ==
    ASSUME Owned', Waiting' = Waiting, UNCHANGED <<settled, life>>
    PROVE  Kept
  BY DEF Kept, Submissions!vars, Alive

LEMMA OutboxStep == ASSUME TypeOK, Owned, [Next]_vars PROVE Kept
<1>0. emu \in EmuType
  BY DEF TypeOK, EmuType
<1>1. ASSUME UNCHANGED <<net, hand, queue, settled, unlocked, life>>,
             emu'.pc = "award" => (emu.pc = "award" /\ emu'.item = emu.item)
      PROVE  Kept
  BY <1>1, QuietStep, WaitingStays, NoOutboxStep
<1>2. CASE FrameStart \/ IdleStart \/ IdleEnd \/ CheckDisconnect \/ RaiseDisconnect
  <2>1. UNCHANGED <<net, hand, queue, settled, unlocked, life>>
    BY <1>2 DEF FrameStart, IdleStart, IdleEnd, CheckDisconnect, RaiseDisconnect, subVars
  <2>2. emu'.pc # "award"
    BY <1>0, <1>2 DEF FrameStart, IdleStart, IdleEnd, CheckDisconnect, RaiseDisconnect, EmuType
  <2> QED
    BY <1>1, <2>1, <2>2
<1>3. ASSUME NEW a \in Unlocks, Award(a) PROVE Kept
  <2>1. UNCHANGED <<net, hand, queue, settled, life>>
    BY <1>3 DEF Award, subVars
  <2> QED
    BY <1>3, <2>1, AwardOwned, WaitingStays, NoOutboxStep
<1>4. CASE SendUnlock
  <2>1. /\ emu.pc = "award" /\ Alive /\ net' = net \cup {emu.item}
        /\ UNCHANGED <<hand, queue, settled, unlocked, life>>
    BY <1>4 DEF SendUnlock
  <2>2. emu.item \in Items
    BY <2>1 DEF TypeOK, Items
  <2>3. emu'.pc # "award"
    BY <1>0, <1>4 DEF SendUnlock, EmuType
  <2>4. emu.item \notin Waiting \cup settled /\ unlocked[emu.item] # "no"
    BY <2>1 DEF Owned, Unsent
  <2>5. Owned' /\ Waiting' = Waiting \cup {emu.item}
    BY <2>1, <2>2, <2>3, <2>4, SendOwned
  <2>6. Submissions!HandIn(emu.item)
    BY <2>1, <2>4, <2>5 DEF Submissions!HandIn, Alive
  <2> QED
    BY <2>2, <2>5, <2>6 DEF Kept, Submissions!Next
<1>5. ASSUME NEW e \in Entries, SendEntry(e) PROVE Kept
  <2>1. /\ emu.pc = "frame" /\ Alive /\ net' = net \cup {e} /\ e \notin Waiting \cup settled
        /\ UNCHANGED <<hand, queue, settled, unlocked, life, emu>>
    BY <1>5 DEF SendEntry
  <2>2. e \in Items /\ e \notin Unlocks
    BY KindsAssumption DEF Items
  <2>3. Owned' /\ Waiting' = Waiting \cup {e}
    BY <2>1, <2>2, SendOwned
  <2>4. Submissions!HandIn(e)
    BY <2>1, <2>3 DEF Submissions!HandIn, Alive
  <2> QED
    BY <2>2, <2>3, <2>4 DEF Kept, Submissions!Next
<1>6. CASE IdlePop
  <2>1. UNCHANGED <<settled, life>>
    BY <1>6 DEF IdlePop
  <2> QED
    BY <1>6, <2>1, PopOwned, NoOutboxStep
<1>7. ASSUME NEW i \in Items, Settle(i) PROVE Kept
  <2>1. Alive /\ UNCHANGED life
    BY <1>7 DEF Settle
  <2>2. Submissions!Settle(i) /\ Owned'
    BY <1>7, <2>1, SettleOwned DEF Submissions!Settle, Alive
  <2> QED
    BY <2>2 DEF Kept, Submissions!Next
<1>8. ASSUME NEW i \in Items, RetryNow(i) PROVE Kept
  BY <1>1, <1>8 DEF RetryNow
<1>9. ASSUME NEW i \in Items, RetryLater(i) PROVE Kept
  <2>1. UNCHANGED <<settled, life>>
    BY <1>9 DEF RetryLater
  <2> QED
    BY <1>9, <2>1, RetryOwned, NoOutboxStep
<1>10. ASSUME NEW h \in hand, Schedule(h) PROVE Kept
  <2>1. UNCHANGED <<settled, life>>
    BY <1>10 DEF Schedule
  <2> QED
    BY <1>10, <2>1, ScheduleOwned, NoOutboxStep
<1>11. CASE UpdateDisconnect \/ DropHardcore \/ Elapse
  BY <1>1, <1>11 DEF UpdateDisconnect, DropHardcore, Elapse, subVars
<1>12. CASE Quit
  <2>1. /\ UNCHANGED <<net, hand, queue, settled, unlocked, emu>>
        /\ life = "playing" /\ life' = "quitting"
    BY <1>12 DEF Quit, subVars
  <2>2. Owned' /\ UNCHANGED Waiting
    BY <2>1, QuietStep, WaitingStays
  <2> QED
    BY <2>1, <2>2 DEF Kept, Submissions!vars, Alive
<1>13. CASE Destroy
  <2>1. UNCHANGED <<net, hand, queue, settled, unlocked, emu>> /\ life' = "gone"
    BY <1>13 DEF Destroy, subVars
  <2>2. Owned' /\ UNCHANGED Waiting
    BY <2>1, QuietStep, WaitingStays
  <2>3. Submissions!Close
    BY <2>1, <2>2 DEF Submissions!Close, Alive
  <2> QED
    BY <2>2, <2>3 DEF Kept, Submissions!Next
<1>14. CASE UNCHANGED vars
  BY <1>1, <1>14 DEF vars, subVars
<1> QED
  BY <1>2, <1>3, <1>4, <1>5, <1>6, <1>7, <1>8, <1>9, <1>10, <1>11, <1>12, <1>13, <1>14
  DEF Next, Resend, Answer, ScheduleItem, Gone

LEMMA InitOwned == Init => Owned /\ Submissions!Init
<1> SUFFICES ASSUME Init PROVE Owned /\ Submissions!Init
  OBVIOUS
<1>1. net = {} /\ Held = {} /\ Queued = {} /\ Waiting = {} /\ settled = {}
  BY DEF Init, Held, Queued, Waiting
<1>2. UniqueHand /\ UniqueQueue
  BY DEF Init, UniqueHand, UniqueQueue
<1>3. Unsent
  BY <1>1 DEF Init, Unsent
<1>4. Submissions!Init
  BY <1>1 DEF Init, Submissions!Init, Alive
<1> QED
  BY <1>1, <1>2, <1>3, <1>4 DEF Owned, Apart

\* Callback data has one owner, however often it is sent and scheduled again.
THEOREM OneOwnerAlways == Spec => []OneOwner
<1>1. TypeOK /\ Owned /\ [Next]_vars => Owned'
  BY OutboxStep DEF Kept
<1> QED
  BY <1>1, InitOwned, OwnedOne, UnlocksTypeCorrect, PTL DEF Spec

\* The retries implement the outbox: nothing is lost, doubled or settled twice.
THEOREM OutboxImplemented == Spec => SubmissionsKept
<1>1. TypeOK /\ Owned /\ [Next]_vars => Owned'
  BY OutboxStep DEF Kept
<1>2. TypeOK /\ Owned /\ [Next]_vars => [Submissions!Next]_(Submissions!vars)
  BY OutboxStep DEF Kept
<1>3. Init => Owned /\ Submissions!Init
  BY InitOwned
<1>4. Spec => Submissions!Spec
  BY <1>1, <1>2, <1>3, UnlocksTypeCorrect, PTL DEF Spec, Submissions!Spec
<1> QED
  BY <1>4 DEF SubmissionsKept

-----------------------------------------------------------------------------
(* The list stays sorted, so an idle turn that stops has sent all it could. *)
Sorted == \A j, k \in DOMAIN queue : j < k => queue[j].when <= queue[k].when

LEMMA EntryWhen ==
    ASSUME NEW q \in Seq(Scheduled), NEW k \in DOMAIN q
    PROVE  q[k] \in Scheduled /\ q[k].when \in Nat
<1>1. q[k] \in Scheduled
  OBVIOUS
<1> QED
  BY <1>1 DEF Scheduled

LEMMA TailSorted == ASSUME TypeOK, Sorted, IdlePop PROVE Sorted'
<1>1. queue \in Seq(Scheduled) /\ queue # <<>> /\ queue' = Tail(queue)
  BY DEF TypeOK, IdlePop, Due
<1>2. /\ DOMAIN queue = 1 .. Len(queue) /\ Len(queue) \in Nat
      /\ DOMAIN queue' = 1 .. Len(queue) - 1
      /\ \A k \in 1 .. Len(queue) - 1 : queue'[k] = queue[k + 1] /\ k + 1 \in DOMAIN queue
  BY <1>1, TailParts
<1>3. SUFFICES ASSUME NEW j \in DOMAIN queue', NEW k \in DOMAIN queue', j < k
               PROVE  queue'[j].when <= queue'[k].when
  BY DEF Sorted
<1>4. /\ j + 1 \in DOMAIN queue /\ k + 1 \in DOMAIN queue /\ j + 1 < k + 1
      /\ queue'[j] = queue[j + 1] /\ queue'[k] = queue[k + 1]
  BY <1>2, <1>3
<1>5. queue[j + 1].when <= queue[k + 1].when
  BY <1>4 DEF Sorted
<1> QED
  BY <1>4, <1>5

LEMMA InsertSorted == ASSUME TypeOK, Sorted, NEW h \in hand, Schedule(h) PROVE Sorted'
<1>1. /\ queue \in Seq(Scheduled) /\ h \in Scheduled
      /\ DOMAIN queue = 1 .. Len(queue) /\ Len(queue) \in Nat
  BY DEF TypeOK
<1>2. PICK n \in 0 .. Len(queue) : Place(queue, h, n) /\ queue' = Insert(queue, n, h)
  BY DEF Schedule
<1>3. /\ queue' \in Seq(Scheduled) /\ Len(queue') = Len(queue) + 1
      /\ \A k \in 1 .. Len(queue) + 1 :
           queue'[k] = IF k <= n THEN queue[k] ELSE IF k = n + 1 THEN h ELSE queue[k - 1]
  <2> DEFINE q == queue
  <2>1. /\ Insert(q, n, h) \in Seq(Scheduled) /\ Len(Insert(q, n, h)) = Len(q) + 1
        /\ \A k \in 1 .. Len(q) + 1 :
             Insert(q, n, h)[k] = IF k <= n THEN q[k] ELSE IF k = n + 1 THEN h ELSE q[k - 1]
    <3> HIDE DEF q
    <3>1. q \in Seq(Scheduled) /\ h \in Scheduled /\ n \in 0 .. Len(q)
      BY <1>1 DEF q
    <3> QED
      BY <3>1, InsertSeq
  <2> QED
    BY <1>2, <2>1
<1>4. DOMAIN queue' = 1 .. Len(queue) + 1
  BY <1>3
<1>5. \A k \in DOMAIN queue : queue[k].when \in Nat
  BY <1>1, EntryWhen
<1>6. h.when \in Nat
  BY <1>1 DEF Scheduled
<1>7. \A k \in DOMAIN queue : k <= n => queue[k].when <= h.when
  BY <1>1, <1>2 DEF Place
<1>8. \A k \in DOMAIN queue : k > n => h.when <= queue[k].when
  <2>1. SUFFICES ASSUME NEW k \in DOMAIN queue, k > n PROVE h.when <= queue[k].when
    OBVIOUS
  <2>2. n + 1 \in DOMAIN queue /\ h.when < queue[n + 1].when
    BY <1>1, <1>2, <2>1 DEF Place
  <2>3. queue[n + 1].when <= queue[k].when
    <3>1. CASE k = n + 1
      BY <1>5, <2>2, <3>1
    <3>2. CASE k > n + 1
      BY <2>2, <3>2 DEF Sorted
    <3> QED
      BY <1>1, <2>1, <3>1, <3>2
  <2> QED
    BY <1>5, <1>6, <2>2, <2>3
<1>9. SUFFICES ASSUME NEW j \in DOMAIN queue', NEW k \in DOMAIN queue', j < k
               PROVE  queue'[j].when <= queue'[k].when
  BY DEF Sorted
<1>10. CASE k <= n
  <2>1. j \in DOMAIN queue /\ k \in DOMAIN queue /\ queue'[j] = queue[j] /\ queue'[k] = queue[k]
    BY <1>1, <1>3, <1>4, <1>9, <1>10
  <2> QED
    BY <1>9, <2>1 DEF Sorted
<1>11. CASE k = n + 1
  <2>1. j \in DOMAIN queue /\ j <= n /\ queue'[j] = queue[j] /\ queue'[k] = h
    BY <1>1, <1>3, <1>4, <1>9, <1>11
  <2> QED
    BY <1>7, <2>1
<1>12. CASE k > n + 1
  <2>1. k - 1 \in DOMAIN queue /\ queue'[k] = queue[k - 1] /\ k - 1 > n
    BY <1>1, <1>3, <1>4, <1>12
  <2>2. CASE j <= n
    <3>1. j \in DOMAIN queue /\ queue'[j] = queue[j] /\ j < k - 1
      BY <1>1, <1>3, <1>4, <1>12, <2>2
    <3> QED
      BY <2>1, <3>1 DEF Sorted
  <2>3. CASE j = n + 1
    <3>1. queue'[j] = h
      BY <1>1, <1>3, <1>4, <2>3
    <3> QED
      BY <1>8, <2>1, <3>1
  <2>4. CASE j > n + 1
    <3>1. j - 1 \in DOMAIN queue /\ queue'[j] = queue[j - 1] /\ j - 1 < k - 1
      BY <1>1, <1>3, <1>4, <1>9, <2>4
    <3> QED
      BY <2>1, <3>1 DEF Sorted
  <2> QED
    BY <1>1, <1>4, <2>2, <2>3, <2>4
<1> QED
  BY <1>1, <1>4, <1>10, <1>11, <1>12

LEMMA SortedStep == TypeOK /\ Sorted /\ [Next]_vars => Sorted'
<1> SUFFICES ASSUME TypeOK, Sorted, [Next]_vars PROVE Sorted'
  OBVIOUS
<1>1. CASE UNCHANGED queue
  BY <1>1 DEF Sorted
<1> QED
  BY <1>1, TailSorted, InsertSorted
  DEF Next, Resend, Answer, ScheduleItem, FrameStart, Award, SendUnlock, SendEntry, IdleStart, IdleEnd,
      CheckDisconnect, RaiseDisconnect, Settle, RetryNow, RetryLater, UpdateDisconnect, DropHardcore,
      Elapse, Quit, Destroy, Gone, vars, subVars

LEMMA IdleEndsClear ==
    ASSUME TypeOK, Sorted, [Next]_vars, emu.pc = "idle", emu'.pc = "check"
    PROVE  \A k \in DOMAIN queue : queue[k].when > emu.now
<1>0. emu \in EmuType
  BY DEF TypeOK, EmuType
<1>1. ~Due
  <2>1. CASE IdleEnd
    BY <2>1 DEF IdleEnd
  <2>2. CASE UNCHANGED emu
    BY <2>2
  <2> QED
    BY <1>0, <2>1, <2>2
    DEF Next, Resend, Answer, ScheduleItem, FrameStart, Award, SendUnlock, SendEntry, IdleStart, IdlePop,
        CheckDisconnect, RaiseDisconnect, Settle, RetryNow, RetryLater, Schedule, UpdateDisconnect,
        DropHardcore, Elapse, Quit, Destroy, Gone, vars
<1>2. SUFFICES ASSUME NEW k \in DOMAIN queue PROVE queue[k].when > emu.now
  OBVIOUS
<1>3. queue \in Seq(Scheduled) /\ queue # <<>> /\ emu.now \in Nat
  BY <1>0, <1>2 DEF TypeOK, EmuType
<1>4. Head(queue) = queue[1] /\ 1 \in DOMAIN queue /\ DOMAIN queue = 1 .. Len(queue)
  BY <1>3
<1>5. queue[1].when \in Nat /\ queue[k].when \in Nat
  BY <1>2, <1>3, <1>4, EntryWhen
<1>6. queue[1].when > emu.now
  BY <1>1, <1>3, <1>4, <1>5 DEF Due
<1>7. queue[1].when <= queue[k].when
  <2>1. CASE k = 1
    BY <1>5, <2>1
  <2>2. CASE 1 < k
    BY <1>2, <1>4, <2>2 DEF Sorted
  <2> QED
    BY <1>2, <1>4, <2>1, <2>2
<1> QED
  BY <1>3, <1>5, <1>6, <1>7

\* An idle turn leaves nothing behind that was due (rc_client_idle on a sorted list).
THEOREM NothingDueLeft == Spec => NothingHeldUp
<1>1. Init => Sorted
  BY DEF Init, Sorted
<1>2. TypeOK /\ Sorted /\ [Next]_vars
        => [emu.pc = "idle" /\ emu'.pc = "check" =>
              \A k \in DOMAIN queue : queue[k].when > emu.now]_vars
  BY IdleEndsClear
<1>3. Spec => [][emu.pc = "idle" /\ emu'.pc = "check" =>
                   \A k \in DOMAIN queue : queue[k].when > emu.now]_vars
  BY <1>1, <1>2, SortedStep, UnlocksTypeCorrect, PTL DEF Spec
<1> QED
  BY <1>3 DEF NothingHeldUp

-----------------------------------------------------------------------------
(* The mode of a submission.                                               *)
Earned ==
    /\ \A a \in Unlocks : hard[a] => unlocked[a] = "both"
    /\ emu.pc = "award" /\ hardcore => unlocked[emu.item] = "both"
    /\ \A a \in Unlocks : unlocked[a] = "no" => ~hard[a]

LEMMA EarnedStep == TypeOK /\ Earned /\ [Next]_vars => Earned'
<1> SUFFICES ASSUME TypeOK, Earned, [Next]_vars PROVE Earned'
  OBVIOUS
<1>0. /\ emu \in EmuType /\ hard \in [Items -> BOOLEAN]
      /\ unlocked \in [Unlocks -> {"no", "soft", "both"}]
  BY DEF TypeOK, EmuType
<1>1. ASSUME NEW a \in Unlocks, Award(a) PROVE Earned'
  <2>1. /\ unlocked[a] = "no" /\ UNCHANGED <<hard, hardcore>> /\ emu.pc = "frame"
        /\ unlocked' = [unlocked EXCEPT ![a] = IF hardcore THEN "both" ELSE "soft"]
        /\ emu' = [emu EXCEPT !.pc = "award", !.item = a]
    BY <1>1 DEF Award, subVars
  <2>2. emu'.pc = "award" => emu'.item = a
    BY <1>0, <2>1 DEF EmuType
  <2>3. ~hard[a]
    BY <2>1 DEF Earned
  <2>4. unlocked'[a] = IF hardcore THEN "both" ELSE "soft"
    BY <1>0, <2>1
  <2>5. \A b \in Unlocks : b # a => unlocked'[b] = unlocked[b]
    BY <1>0, <2>1
  <2> QED
    BY <2>1, <2>2, <2>3, <2>4, <2>5 DEF Earned
<1>2. CASE SendUnlock
  <2>1. /\ emu.pc = "award" /\ UNCHANGED <<hardcore, unlocked>> /\ emu'.pc # "award"
        /\ hard' = [hard EXCEPT ![emu.item] = hardcore]
    BY <1>0, <1>2 DEF SendUnlock, EmuType
  <2>2. \A a \in Unlocks : hard'[a] => hard[a] \/ (a = emu.item /\ hardcore)
    BY <1>0, <2>1 DEF Items
  <2>3. \A a \in Unlocks : hard'[a] => unlocked[a] = "both"
    BY <2>1, <2>2 DEF Earned
  <2> QED
    BY <2>1, <2>3 DEF Earned
<1>3. ASSUME NEW e \in Entries, SendEntry(e) PROVE Earned'
  <2>1. hard' = [hard EXCEPT ![e] = TRUE] /\ UNCHANGED <<hardcore, unlocked, emu>>
    BY <1>3 DEF SendEntry
  <2>2. \A a \in Unlocks : hard'[a] = hard[a]
    BY <1>0, <2>1, KindsAssumption DEF Items
  <2> QED
    BY <2>1, <2>2 DEF Earned
<1>4. CASE DropHardcore
  BY <1>4 DEF DropHardcore, subVars, Earned
<1>5. ASSUME UNCHANGED <<hard, hardcore, unlocked>>, emu'.pc # "award" PROVE Earned'
  BY <1>5 DEF Earned
<1>6. CASE FrameStart \/ Resend
  <2>1. CASE IdlePop
    BY <2>1 DEF IdlePop, Earned
  <2>2. CASE FrameStart \/ IdleStart \/ IdleEnd \/ CheckDisconnect \/ RaiseDisconnect
    <3>1. UNCHANGED <<hard, hardcore, unlocked>>
      BY <2>2 DEF FrameStart, IdleStart, IdleEnd, CheckDisconnect, RaiseDisconnect, subVars
    <3>2. emu'.pc # "award"
      BY <1>0, <2>2 DEF FrameStart, IdleStart, IdleEnd, CheckDisconnect, RaiseDisconnect, EmuType
    <3> QED
      BY <1>5, <3>1, <3>2
  <2> QED
    BY <1>6, <2>1, <2>2 DEF Resend
<1>7. CASE UNCHANGED <<hard, hardcore, unlocked, emu>>
  BY <1>7 DEF Earned
<1> QED
  BY <1>1, <1>2, <1>3, <1>4, <1>6, <1>7
  DEF Next, Answer, ScheduleItem, Settle, RetryNow, RetryLater, Schedule, UpdateDisconnect,
      Elapse, Quit, Destroy, Gone, vars, subVars

\* Nothing is submitted as hardcore that was unlocked in softcore (award_achievement).
THEOREM HardcoreEarned == Spec => []NeverInflated
<1>1. Init => Earned
  BY DEF Init, Earned, Items
<1>2. Earned => NeverInflated
  BY DEF Earned, NeverInflated
<1> QED
  BY <1>1, <1>2, EarnedStep, UnlocksTypeCorrect, PTL DEF Spec

-----------------------------------------------------------------------------
(* What was told last is what the visible bit says.                        *)
AlarmTrue == told = "disconnected" <=> Visible

LEMMA AlarmStep == TypeOK /\ AlarmTrue /\ [Next]_vars => AlarmTrue'
<1> SUFFICES ASSUME TypeOK, AlarmTrue, [Next]_vars PROVE AlarmTrue'
  OBVIOUS
<1>1. CASE RaiseDisconnect
  BY <1>1 DEF RaiseDisconnect, AlarmTrue, Visible
<1>2. CASE UpdateDisconnect
  BY <1>2 DEF UpdateDisconnect, NextDisconnect, AlarmTrue, Visible
<1>3. CASE UNCHANGED <<disconnect, told>>
  BY <1>3 DEF AlarmTrue, Visible
<1> QED
  BY <1>1, <1>2, <1>3
  DEF Next, Resend, Answer, ScheduleItem, FrameStart, Award, SendUnlock, SendEntry, IdleStart, IdlePop,
      IdleEnd, CheckDisconnect, Settle, RetryNow, RetryLater, Schedule,
      DropHardcore, Elapse, Quit, Destroy, Gone, vars, alarmVars

LEMMA RaisedOnce ==
    ASSUME TypeOK, AlarmTrue, [Next]_vars, emu.pc = "raise", emu'.pc = "top", told' = "disconnected"
    PROVE  told = "connected"
<1>1. CASE RaiseDisconnect
  BY <1>1 DEF RaiseDisconnect, AlarmTrue, Visible, TypeOK
<1>2. CASE emu' = emu
  BY <1>2
<1> QED
  BY <1>1, <1>2
  DEF Next, Resend, Answer, ScheduleItem, FrameStart, Award, SendUnlock, SendEntry, IdleStart, IdlePop,
      IdleEnd, CheckDisconnect, Settle, RetryNow, RetryLater, Schedule, UpdateDisconnect,
      DropHardcore, Elapse, Quit, Destroy, Gone, vars

\* The player is told DISCONNECTED once per disconnection (raise_disconnect_events).
THEOREM AlarmsAlternate == Spec => AlarmOnce
<1>1. Init => AlarmTrue
  BY DEF Init, AlarmTrue, Visible
<1>2. TypeOK /\ AlarmTrue /\ [Next]_vars
        => [emu.pc = "raise" /\ emu'.pc = "top" /\ told' = "disconnected" => told = "connected"]_vars
  BY RaisedOnce
<1>3. Spec => [][emu.pc = "raise" /\ emu'.pc = "top" /\ told' = "disconnected"
                   => told = "connected"]_vars
  BY <1>1, <1>2, AlarmStep, UnlocksTypeCorrect, PTL DEF Spec
<1> QED
  BY <1>3 DEF AlarmOnce

(* The schedule's two halves: whose its items are, and that none due is held up
   (rc_client_schedule_callback, rc_client_idle). *)
THEOREM ScheduleStaysSound == Spec => ScheduleSound
  BY OneOwnerAlways, NothingDueLeft DEF ScheduleSound

-----------------------------------------------------------------------------
(* The safe part of OutageEnds.  A retry is due within two minutes of the  *)
(* failure that caused it, and as long as the player has been told of an   *)
(* outage, something is left that will recompute or take back the alarm.   *)
RetrySoon ==
    /\ \A h \in hand : h.when <= clock + 120
    /\ \A k \in DOMAIN queue : queue[k].when <= clock + 120

WorkLeft == queue # <<>> \/ hand # {} \/ owed > 0 \/ \E i \in net : retries[i] > 0
AlarmWorkedOn == told = "disconnected" => disconnect = "hiding" \/ WorkLeft

\* What is scheduled failed before; the alarm is shown for work that is left.
Retried == \A i \in Held \cup Queued : retries[i] > 0
ShownForWork == disconnect \in {"showing", "visible"} => WorkLeft

LEMMA DelayShort == ASSUME NEW n \in Nat, n > 0 PROVE Delay(n + 1) <= 120
<1>1. CASE n + 1 > 8
  BY <1>1 DEF Delay
<1>2. CASE n + 1 <= 8
  <2>1. n \in {1, 2, 3, 4, 5, 6, 7}
    BY <1>2
  <2>2. Delay(n + 1) = <<1, 2, 4, 8, 16, 32, 64>>[n]
    BY <1>2 DEF Delay
  <2> QED
    BY <2>1, <2>2
<1> QED
  BY <1>1, <1>2

\* The entries after a callback was taken off the list, or put on it.
LEMMA PoppedWhen ==
    ASSUME TypeOK, IdlePop, NEW k \in DOMAIN queue'
    PROVE  \E j \in DOMAIN queue : queue'[k] = queue[j]
<1>1. queue \in Seq(Scheduled) /\ queue # <<>> /\ queue' = Tail(queue)
  BY DEF TypeOK, IdlePop, Due
<1>2. k \in 1 .. Len(queue) - 1 /\ queue'[k] = queue[k + 1] /\ DOMAIN queue = 1 .. Len(queue)
  BY <1>1
<1>3. k + 1 \in DOMAIN queue
  BY <1>1, <1>2
<1> QED
  BY <1>2, <1>3

LEMMA InsertedWhen ==
    ASSUME TypeOK, NEW h \in hand, Schedule(h), NEW k \in DOMAIN queue'
    PROVE  queue'[k] = h \/ \E j \in DOMAIN queue : queue'[k] = queue[j]
<1>1. PICK n \in 0 .. Len(queue) : queue' = Insert(queue, n, h)
  BY DEF Schedule
<1>2. queue \in Seq(Scheduled) /\ DOMAIN queue = 1 .. Len(queue) /\ Len(queue) \in Nat
  BY DEF TypeOK
<1>3. k \in 1 .. Len(queue) + 1
      /\ queue'[k] = IF k <= n THEN queue[k] ELSE IF k = n + 1 THEN h ELSE queue[k - 1]
  BY <1>1 DEF Insert
<1>4. CASE k <= n
  BY <1>2, <1>3, <1>4
<1>5. CASE k = n + 1
  BY <1>3, <1>5
<1>6. CASE k > n + 1
  <2>1. k - 1 \in DOMAIN queue /\ queue'[k] = queue[k - 1]
    BY <1>2, <1>3, <1>6
  <2> QED
    BY <2>1
<1> QED
  BY <1>3, <1>4, <1>5, <1>6

LEMMA SoonStep == TypeOK /\ RetrySoon /\ [Next]_vars => RetrySoon'
<1> SUFFICES ASSUME TypeOK, RetrySoon, [Next]_vars PROVE RetrySoon'
  OBVIOUS
<1>0. clock \in Nat /\ queue \in Seq(Scheduled) /\ hand \subseteq Scheduled /\ retries \in [Items -> Nat]
  BY DEF TypeOK
<1>1. CASE IdlePop
  <2>1. hand' = hand /\ clock' = clock
    BY <1>1 DEF IdlePop
  <2> QED
    BY <1>1, <2>1, PoppedWhen DEF RetrySoon
<1>2. ASSUME NEW h \in hand, Schedule(h) PROVE RetrySoon'
  <2>1. hand' = hand \ {h} /\ clock' = clock
    BY <1>2 DEF Schedule
  <2>2. \A k \in DOMAIN queue' : queue'[k].when <= clock + 120
    BY <1>2, InsertedWhen DEF RetrySoon
  <2> QED
    BY <2>1, <2>2 DEF RetrySoon
<1>3. ASSUME NEW i \in Items, RetryLater(i) PROVE RetrySoon'
  <2> DEFINE n == retries[i]
             e == [item |-> i, when |-> clock + Delay(n + 1)]
  <2>1. /\ n \in Nat /\ n > 0
        /\ hand' = hand \cup {e} /\ queue' = queue /\ clock' = clock
    BY <1>0, <1>3 DEF RetryLater
  <2>2. Delay(n + 1) \in Nat /\ Delay(n + 1) <= 120
    BY <2>1, DelayNat, DelayShort
  <2>3. e.when <= clock + 120
    BY <1>0, <2>2
  <2> HIDE DEF e
  <2> QED
    BY <2>1, <2>3 DEF RetrySoon
<1>4. CASE Elapse
  <2>1. clock' = clock + 1 /\ hand' = hand /\ queue' = queue
    BY <1>4 DEF Elapse, subVars
  <2>2. \A h \in hand : h.when \in Nat
    BY <1>0 DEF Scheduled
  <2>3. \A k \in DOMAIN queue : queue[k].when \in Nat
    BY <1>0, EntryWhen
  <2> QED
    BY <1>0, <2>1, <2>2, <2>3 DEF RetrySoon
<1>5. CASE UNCHANGED <<hand, queue, clock>>
  BY <1>5 DEF RetrySoon
<1> QED
  BY <1>1, <1>2, <1>3, <1>4, <1>5
  DEF Next, Resend, Answer, ScheduleItem, FrameStart, Award, SendUnlock, SendEntry, IdleStart,
      IdleEnd, CheckDisconnect, RaiseDisconnect, Settle, RetryNow, UpdateDisconnect,
      DropHardcore, Quit, Destroy, Gone, vars, subVars, alarmVars

LEMMA RetriedStep == TypeOK /\ Retried /\ [Next]_vars => Retried'
<1> SUFFICES ASSUME TypeOK, Retried, [Next]_vars PROVE Retried'
  OBVIOUS
<1>0. retries \in [Items -> Nat] /\ hand \subseteq Scheduled
  BY DEF TypeOK
<1>1. CASE IdlePop
  <2>1. hand' = hand /\ retries' = retries
    BY <1>1 DEF IdlePop
  <2>2. Queued' \subseteq Queued
    BY <1>1, PoppedWhen DEF Queued
  <2> QED
    BY <2>1, <2>2 DEF Retried, Held
<1>2. ASSUME NEW h \in hand, Schedule(h) PROVE Retried'
  <2>1. hand' = hand \ {h} /\ retries' = retries
    BY <1>2 DEF Schedule
  <2>2. Queued' \subseteq Queued \cup {h.item} /\ h.item \in Held
    BY <1>2, InsertedWhen DEF Queued, Held
  <2> QED
    BY <2>1, <2>2 DEF Retried, Held
<1>3. ASSUME NEW i \in Items, RetryNow(i) \/ RetryLater(i) PROVE Retried'
  <2>1. /\ retries' = [retries EXCEPT ![i] = retries[i] + 1] /\ queue' = queue
        /\ Held' \subseteq Held \cup {i}
    BY <1>0, <1>3 DEF RetryNow, RetryLater, Held
  <2>2. \A j \in Items : retries'[j] >= retries[j]
    BY <1>0, <2>1
  <2>3. retries'[i] > 0
    BY <1>0, <2>1
  <2>4. Held \cup Queued \subseteq Items
    <3>1. Held \subseteq Items
      BY <1>0 DEF Held, Scheduled
    <3>2. \A k \in DOMAIN queue : queue[k] \in Scheduled
      BY DEF TypeOK
    <3> QED
      BY <3>1, <3>2 DEF Queued, Scheduled
  <2>5. \A j \in Held \cup Queued : retries'[j] > 0
    BY <1>0, <2>1, <2>2, <2>4 DEF Retried
  <2> QED
    BY <2>1, <2>3, <2>5 DEF Retried, Queued
<1>5. CASE UNCHANGED <<hand, queue, retries>>
  BY <1>5 DEF Retried, Held, Queued
<1> QED
  BY <1>1, <1>2, <1>3, <1>5
  DEF Next, Resend, Answer, ScheduleItem, FrameStart, Award, SendUnlock, SendEntry, IdleStart,
      IdleEnd, CheckDisconnect, RaiseDisconnect, Settle, UpdateDisconnect,
      DropHardcore, Elapse, Quit, Destroy, Gone, vars, subVars, alarmVars

\* Work may change hands and is never simply gone: its end owes a recomputation.
LEMMA WorkStep ==
    ASSUME TypeOK, Retried, WorkLeft, Next, ~UpdateDisconnect
    PROVE  WorkLeft'
<1>0. retries \in [Items -> Nat] /\ owed \in Nat /\ net \subseteq Items /\ queue \in Seq(Scheduled)
  BY DEF TypeOK
<1>1. CASE IdlePop
  <2>1. /\ queue # <<>> /\ net' = net \cup {Head(queue).item} /\ retries' = retries
    BY <1>1 DEF IdlePop, Due
  <2>2. Head(queue).item \in Queued
    BY <1>0, <2>1 DEF Queued
  <2> QED
    BY <2>1, <2>2 DEF Retried, WorkLeft
<1>2. ASSUME NEW h \in hand, Schedule(h) PROVE WorkLeft'
  BY <1>0, <1>2 DEF Schedule, WorkLeft
<1>3. ASSUME NEW i \in Items, RetryLater(i) PROVE WorkLeft'
  BY <1>3 DEF RetryLater, WorkLeft
<1>4. ASSUME NEW i \in Items, RetryNow(i) PROVE WorkLeft'
  BY <1>0, <1>4 DEF RetryNow, WorkLeft
<1>5. ASSUME NEW i \in Items, Settle(i) PROVE WorkLeft'
  <2>1. CASE retries[i] > 0
    BY <1>0, <1>5, <2>1 DEF Settle, WorkLeft
  <2>2. CASE ~(retries[i] > 0)
    BY <1>5, <2>2 DEF Settle, WorkLeft
  <2> QED
    BY <2>1, <2>2
<1>6. CASE net \subseteq net' /\ UNCHANGED <<hand, queue, owed, retries>>
  BY <1>6 DEF WorkLeft
<1> QED
  BY <1>1, <1>2, <1>3, <1>4, <1>5, <1>6
  DEF Next, Resend, Answer, ScheduleItem, FrameStart, Award, SendUnlock, SendEntry, IdleStart,
      IdleEnd, CheckDisconnect, RaiseDisconnect, DropHardcore, Elapse, Quit, Destroy, Gone, vars, subVars,
      alarmVars

LEMMA ShownStep == TypeOK /\ Retried /\ ShownForWork /\ [Next]_vars => ShownForWork'
<1> SUFFICES ASSUME TypeOK, Retried, ShownForWork, [Next]_vars PROVE ShownForWork'
  OBVIOUS
<1>1. CASE UpdateDisconnect
  BY <1>1 DEF UpdateDisconnect, NextDisconnect, Visible, ShownForWork, WorkLeft, subVars
<1>2. CASE UNCHANGED vars
  BY <1>2 DEF vars, subVars, alarmVars, ShownForWork, WorkLeft
<1>3. CASE Next /\ ~UpdateDisconnect
  <2>1. disconnect' \in {"showing", "visible"} => disconnect \in {"showing", "visible"}
    BY <1>3
    DEF Next, Resend, Answer, ScheduleItem, FrameStart, Award, SendUnlock, SendEntry, IdleStart, IdlePop,
        IdleEnd, CheckDisconnect, RaiseDisconnect, Settle, RetryNow, RetryLater, Schedule,
        DropHardcore, Elapse, Quit, Destroy, Gone, vars, alarmVars
  <2> QED
    BY <1>3, <2>1, WorkStep DEF ShownForWork
<1> QED
  BY <1>1, <1>2, <1>3

\* For any unlocks, entries and outage: every retry is at most two minutes away, and a player who
\* was told DISCONNECTED is never left with it while nothing remains to be sent or recomputed
\* (rc_client_award_achievement_callback, rc_client_update_disconnect_state).
THEOREM OutageWorkedOn == Spec => [](RetrySoon /\ AlarmWorkedOn)
<1>1. Init => RetrySoon /\ Retried /\ ShownForWork /\ AlarmTrue
  BY DEF Init, RetrySoon, Retried, Held, Queued, ShownForWork, AlarmTrue, Visible
<1>2. TypeOK /\ ShownForWork /\ AlarmTrue => AlarmWorkedOn
  BY DEF ShownForWork, AlarmTrue, Visible, AlarmWorkedOn
<1> QED
  BY <1>1, <1>2, SoonStep, RetriedStep, ShownStep, AlarmStep, UnlocksTypeCorrect, PTL DEF Spec

=============================================================================
