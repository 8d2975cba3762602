------------------------------- MODULE RaUnlocks -------------------------------
(***************************************************************************)
(* Achievement unlocks and leaderboard entries on their way to the server  *)
(* (rc_client.c, driven by EmulatorSession and RetroAchievementsClient).   *)
(*                                                                         *)
(* The emulation thread unlocks, sends and, once per frame, resends what   *)
(* is due.  Every answer arrives on a pool thread of its own, which may    *)
(* put the submission back on the list of scheduled callbacks and then     *)
(* recomputes whether the player is to be told that unlocks are pending;   *)
(* the emulation thread tells.  The list and the "disconnect" state are    *)
(* each guarded by the client's lock, but never held together.             *)
(***************************************************************************)
EXTENDS Integers, Sequences, FiniteSets

CONSTANTS
    Unlocks,    \* achievements of category CORE; the others are never sent
    Entries,    \* leaderboard entries the game submits
    Outage,     \* bound: second at which the server's trouble is over
    None        \* no submission

Items == Unlocks \cup Entries

ASSUME KindsAssumption == Unlocks \cap Entries = {}
ASSUME NoneAssumption == None \notin Items
ASSUME OutageAssumption == Outage \in Nat

VARIABLES
    hardcore,   \* client->state.hardcore
    unlocked,   \* public_.unlocked of an achievement: "no", "soft" or "both"
    retries,    \* retry_count of a submission's callback data
    hard,       \* the mode a submission was sent in
    net,        \* submissions a request is under way for
    hand,       \* answered, about to be scheduled: item and time it is due
    queue,      \* scheduled_callbacks: item and time it is due
    owed,       \* pool threads about to call update_disconnect_state
    settled,    \* submissions whose callback data was freed after an answer
    disconnect, \* client->state.disconnect
    told,       \* last event of the kind: "connected" or "disconnected"
    clock,      \* get_time_millisecs, in seconds
    emu,        \* emulation thread: pc, achievement in hand, time the idle loop began
    life        \* "playing", "quitting" or "gone"

subVars == <<retries, hard, net, hand, queue, settled>>
alarmVars == <<owed, disconnect, told>>
vars == <<hardcore, unlocked, subVars, alarmVars, clock, emu, life>>

Queued == {queue[k].item : k \in DOMAIN queue}
Held == {h.item : h \in hand}
Waiting == net \cup Held \cup Queued

Alive == life # "gone"
Visible == disconnect \in {"visible", "hiding"}      \* RC_CLIENT_DISCONNECT_VISIBLE
Pending == disconnect \in {"showing", "hiding"}      \* SHOW_PENDING or HIDE_PENDING

Init ==
    /\ hardcore \in BOOLEAN
    /\ unlocked = [a \in Unlocks |-> "no"]
    /\ retries = [i \in Items |-> 0]
    /\ hard = [i \in Items |-> FALSE]
    /\ net = {} /\ hand = {} /\ queue = <<>> /\ settled = {}
    /\ owed = 0 /\ disconnect = "hidden" /\ told = "connected"
    /\ clock = 0
    /\ emu = [pc |-> "top", item |-> None, now |-> 0]
    /\ life = "playing"

-----------------------------------------------------------------------------
(* The emulation thread: rc_client_do_frame, then rc_client_idle.          *)

\* Once per turn of the loop, as long as the game runs.
FrameStart ==
    /\ life = "playing" /\ emu.pc = "top"
    /\ emu' = [emu EXCEPT !.pc = "frame"]
    /\ UNCHANGED <<hardcore, unlocked, subVars, alarmVars, clock, life>>

\* The part of award_achievement that holds the lock.
Award(a) ==
    /\ Alive /\ emu.pc = "frame" /\ unlocked[a] = "no"
    /\ unlocked' = [unlocked EXCEPT ![a] = IF hardcore THEN "both" ELSE "soft"]
    /\ emu' = [emu EXCEPT !.pc = "award", !.item = a]
    /\ UNCHANGED <<hardcore, subVars, alarmVars, clock, life>>

MutSendUnlock ==
    /\ Alive /\ emu.pc = "award"
    /\ hard' = [hard EXCEPT ![emu.item] = TRUE]
    /\ net' = net \cup {emu.item}
    /\ emu' = [emu EXCEPT !.pc = "frame", !.item = None]
    /\ UNCHANGED <<hardcore, unlocked, retries, hand, queue, settled, alarmVars, clock, life>>

MutLeaveItem ==
    /\ Alive /\ emu.pc = "award"
    /\ hard' = [hard EXCEPT ![emu.item] = hardcore]
    /\ net' = net \cup {emu.item}
    /\ emu' = [emu EXCEPT !.pc = "frame"]
    /\ UNCHANGED <<hardcore, unlocked, retries, hand, queue, settled, alarmVars, clock, life>>

\* The rest of it: the mode is read again, without the lock.
SendUnlock ==
    /\ Alive /\ emu.pc = "award"
    /\ hard' = [hard EXCEPT ![emu.item] = hardcore]
    /\ net' = net \cup {emu.item}
    /\ emu' = [emu EXCEPT !.pc = "frame", !.item = None]
    /\ UNCHANGED <<hardcore, unlocked, retries, hand, queue, settled, alarmVars, clock, life>>

\* submit_leaderboard_entry: not in softcore.
SendEntry(e) ==
    /\ Alive /\ emu.pc = "frame" /\ hardcore
    /\ e \notin Waiting \cup settled
    /\ hard' = [hard EXCEPT ![e] = TRUE]
    /\ net' = net \cup {e}
    /\ UNCHANGED <<hardcore, unlocked, retries, hand, queue, settled, alarmVars, clock, emu, life>>

\* rc_client_idle reads the clock once, and only if something is scheduled.
IdleStart ==
    /\ Alive /\ emu.pc = "frame"
    /\ emu' = [emu EXCEPT !.pc = IF queue = <<>> THEN "check" ELSE "idle", !.now = clock]
    /\ UNCHANGED <<hardcore, unlocked, subVars, alarmVars, clock, life>>

Due == queue # <<>> /\ Head(queue).when <= emu.now

MutIdlePop ==
    /\ Alive /\ emu.pc = "idle" /\ Due
    /\ queue' = Tail(queue)
    /\ UNCHANGED <<hardcore, unlocked, retries, hard, net, hand, settled, alarmVars, clock, emu, life>>

\* Take the first callback off the list and send it again.
IdlePop ==
    /\ Alive /\ emu.pc = "idle" /\ Due
    /\ queue' = Tail(queue)
    /\ net' = net \cup {Head(queue).item}
    /\ UNCHANGED <<hardcore, unlocked, retries, hard, hand, settled, alarmVars, clock, emu, life>>

IdleEnd ==
    /\ Alive /\ emu.pc = "idle" /\ ~Due
    /\ emu' = [emu EXCEPT !.pc = "check"]
    /\ UNCHANGED <<hardcore, unlocked, subVars, alarmVars, clock, life>>

\* Read without the lock; the events are raised in a step of their own.
CheckDisconnect ==
    /\ Alive /\ emu.pc = "check"
    /\ emu' = [emu EXCEPT !.pc = IF Pending THEN "raise" ELSE "top"]
    /\ UNCHANGED <<hardcore, unlocked, subVars, alarmVars, clock, life>>

\* raise_disconnect_events looks at the state again, under the lock.
RaiseDisconnect ==
    /\ Alive /\ emu.pc = "raise"
    /\ LET shows == disconnect = "showing" IN
       /\ disconnect' = IF shows THEN "visible" ELSE "hidden"
       /\ told' = IF shows THEN "disconnected" ELSE "connected"
    /\ emu' = [emu EXCEPT !.pc = "top"]
    /\ UNCHANGED <<hardcore, unlocked, subVars, owed, clock, life>>

-----------------------------------------------------------------------------
(* Pool threads: the callback of a request.                                *)

MutSettle(i) ==
    /\ Alive /\ i \in net
    /\ net' = net \ {i}
    /\ settled' = settled \cup {i}
    /\ owed' = owed
    /\ UNCHANGED <<hardcore, unlocked, retries, hard, hand, queue, disconnect, told, clock, emu, life>>

\* Accepted, or refused for good: the callback data is freed.
Settle(i) ==
    /\ Alive /\ i \in net
    /\ net' = net \ {i}
    /\ settled' = settled \cup {i}
    /\ owed' = IF retries[i] > 0 THEN owed + 1 ELSE owed
    /\ UNCHANGED <<hardcore, unlocked, retries, hard, hand, queue, disconnect, told, clock, emu, life>>

\* The first failure: sent again at once, by the pool thread.
RetryNow(i) ==
    /\ Alive /\ i \in net /\ retries[i] = 0
    /\ retries' = [retries EXCEPT ![i] = 1]
    /\ UNCHANGED <<hardcore, unlocked, hard, net, hand, queue, settled, alarmVars, clock, emu, life>>

\* Seconds to wait before the attempt that follows failure n > 1: 1 << (n - 2), at most 120.
Delay(n) == IF n > 8 THEN 120 ELSE <<1, 2, 4, 8, 16, 32, 64>>[n - 1]

\* Every later failure, while the outage lasts.
RetryLater(i) ==
    LET n == retries[i] + 1
        due == clock + Delay(n) IN
    /\ Alive /\ i \in net /\ retries[i] > 0 /\ due <= Outage
    /\ retries' = [retries EXCEPT ![i] = n]
    /\ net' = net \ {i}
    /\ hand' = hand \cup {[item |-> i, when |-> due]}
    /\ UNCHANGED <<hardcore, unlocked, hard, queue, settled, alarmVars, clock, emu, life>>

Insert(q, n, e) == [k \in 1 .. Len(q) + 1 |->
                      IF k <= n THEN q[k] ELSE IF k = n + 1 THEN e ELSE q[k - 1]]

MutPlace(q, e, n) == n = 0

\* e goes before the first entry that is due later, in place n + 1.
Place(q, e, n) ==
    /\ \A k \in 1 .. n : q[k].when <= e.when
    /\ n < Len(q) => e.when < q[n + 1].when

\* rc_client_schedule_callback.
Schedule(h) ==
    /\ Alive /\ h \in hand
    /\ \E n \in 0 .. Len(queue) :
         /\ Place(queue, h, n)
         /\ queue' = Insert(queue, n, h)
    /\ hand' = hand \ {h}
    /\ owed' = owed + 1
    /\ UNCHANGED <<hardcore, unlocked, retries, hard, net, settled, disconnect, told, clock, emu, life>>

MutNextDisconnect == IF queue # <<>> THEN "showing"
                     ELSE IF Visible THEN "hiding" ELSE "hidden"

\* What becomes of "disconnect", given what is scheduled now.
NextDisconnect == IF queue # <<>> THEN (IF Visible THEN "visible" ELSE "showing")
                  ELSE IF Visible THEN "hiding" ELSE "hidden"

\* rc_client_update_disconnect_state.
UpdateDisconnect ==
    /\ Alive /\ owed > 0
    /\ owed' = owed - 1
    /\ disconnect' = NextDisconnect
    /\ UNCHANGED <<hardcore, unlocked, subVars, told, clock, emu, life>>

\* A disc that is not recognised ends hardcore (change_media_internal).
DropHardcore ==
    /\ Alive /\ hardcore
    /\ hardcore' = FALSE
    /\ UNCHANGED <<unlocked, subVars, alarmVars, clock, emu, life>>

-----------------------------------------------------------------------------
Elapse ==
    /\ Alive /\ clock < Outage
    /\ clock' = clock + 1
    /\ UNCHANGED <<hardcore, unlocked, subVars, alarmVars, emu, life>>

\* The player quits; the emulation thread finishes its frame and ends, and
\* the client is destroyed whatever it still has to send.
Quit ==
    /\ life = "playing"
    /\ life' = "quitting"
    /\ UNCHANGED <<hardcore, unlocked, subVars, alarmVars, clock, emu>>

Destroy ==
    /\ life = "quitting" /\ emu.pc = "top"
    /\ life' = "gone"
    /\ UNCHANGED <<hardcore, unlocked, subVars, alarmVars, clock, emu>>

Gone == life = "gone" /\ UNCHANGED vars

Resend == IdleStart \/ IdlePop \/ IdleEnd \/ CheckDisconnect \/ RaiseDisconnect
Answer(i) == Settle(i) \/ RetryNow(i) \/ RetryLater(i)
ScheduleItem(i) == \E h \in hand : h.item = i /\ Schedule(h)

Next ==
    \/ FrameStart \/ SendUnlock \/ Resend
    \/ \E a \in Unlocks : Award(a)
    \/ \E e \in Entries : SendEntry(e)
    \/ \E i \in Items : Answer(i) \/ ScheduleItem(i)
    \/ UpdateDisconnect
    \/ DropHardcore
    \/ Elapse
    \/ Quit \/ Destroy \/ Gone

Spec == Init /\ [][Next]_vars

\* The emulation loop goes on, time passes, every request is answered or
\* times out, every callback runs to its end, and whoever quits disposes.
Fairness ==
    /\ WF_vars(FrameStart \/ SendUnlock \/ Resend)
    /\ WF_vars(Elapse)
    /\ \A i \in Items : WF_vars(Answer(i)) /\ WF_vars(ScheduleItem(i))
    /\ WF_vars(UpdateDisconnect)
    /\ WF_vars(Destroy)

FairSpec == Spec /\ Fairness

-----------------------------------------------------------------------------
Pcs == {"top", "frame", "award", "idle", "check", "raise"}
Scheduled == [item : Items, when : Nat]

TypeOK ==
    /\ hardcore \in BOOLEAN
    /\ unlocked \in [Unlocks -> {"no", "soft", "both"}]
    /\ retries \in [Items -> Nat]
    /\ hard \in [Items -> BOOLEAN]
    /\ net \subseteq Items /\ settled \subseteq Items
    /\ hand \subseteq Scheduled /\ queue \in Seq(Scheduled)
    /\ owed \in Nat
    /\ disconnect \in {"hidden", "showing", "visible", "hiding"}
    /\ told \in {"connected", "disconnected"}
    /\ clock \in Nat
    /\ emu \in [pc : Pcs, item : Unlocks \cup {None}, now : Nat]
    /\ emu.pc = "award" <=> emu.item # None
    /\ life \in {"playing", "quitting", "gone"}

\* A submission's callback data has one owner at a time: the request, the pool thread
\* that answered it, or the list of scheduled callbacks, which is linked through it; and
\* nobody has it once it was freed (rc_client_award_achievement_callback).
OneOwner ==
    /\ \A g, h \in hand : g.item = h.item => g = h
    /\ \A j, k \in DOMAIN queue : queue[j].item = queue[k].item => j = k
    /\ net \cap Held = {} /\ net \cap Queued = {} /\ Held \cap Queued = {}
    /\ settled \cap Waiting = {}

\* Whatever was unlocked or submitted waits until the server settled it, and is settled
\* once, although it moves between threads and may fail any number of times.
Submissions == INSTANCE Outbox
                 WITH waiting <- Waiting, closed <- ~Alive
SubmissionsKept == Submissions!Spec
SubmissionsSettle == Submissions!Settles

\* What is submitted as hardcore was earned in hardcore, although the mode is read twice,
\* once without the lock, while an unknown disc may end hardcore in between and during
\* the retries; the reverse does not hold.
NeverInflated ==
    \A a \in Unlocks \cap (Waiting \cup settled) : hard[a] => unlocked[a] = "both"

\* An idle turn resends all that was due when it began: nothing due is held up behind a
\* later entry, whatever pool threads scheduled meanwhile (rc_client_schedule_callback).
NothingHeldUp ==
    [][emu.pc = "idle" /\ emu'.pc = "check" =>
         \A k \in DOMAIN queue : queue[k].when > emu.now]_vars

\* DISCONNECTED is not told twice without RECONNECTED in between, although the state is
\* recomputed by any number of pool threads, also while the event is being raised.
AlarmOnce ==
    [][emu.pc = "raise" /\ emu'.pc = "top" /\ told' = "disconnected"
         => told = "connected"]_vars

\* A player who was told that unlocks are pending hears that they no longer are.
AlarmClears == told = "disconnected" ~> told = "connected" \/ ~Alive

\* RECONNECTED means "all pending unlocks have been completed" (rc_client.h): while one waits
\* on the list and no thread is about to say so, the alarm is up or about to be.
OutageTold == queue # <<>> /\ owed = 0 => disconnect \in {"showing", "visible"}

\* Every outage ends well for a session that goes on: what waited is settled, and the
\* player hears of it.
OutageEnds == SubmissionsSettle /\ AlarmClears

\* The list of scheduled callbacks, which two threads change, is linked through items that
\* are nobody else's and hides nothing that is due.
ScheduleSound == []OneOwner /\ NothingHeldUp
=============================================================================
