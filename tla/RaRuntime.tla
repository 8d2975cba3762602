------------------------------- MODULE RaRuntime -------------------------------
(***************************************************************************)
(* The achievement runtime (rc_client.c) under the emulation loop          *)
(* (EmulatorSession.RunLoop and RunDecoupled): game resets, state loads,   *)
(* disc swaps and frames on the emulation thread, the attaching of the     *)
(* runtime on a worker, and the answer to a disc's hash look-up on a pool  *)
(* thread, which may end hardcore.  Each of them changes triggers and sets *)
(* pending events under the client's lock, and raises the events after     *)
(* letting it go; the events move the indicators the player sees.          *)
(*                                                                         *)
(* Leaderboards are left out: the app shows nothing of their trackers.     *)
(***************************************************************************)
EXTENDS Integers, FiniteSets

CONSTANTS
    Achievements,   \* the achievements of the loaded set
    Decoupled,      \* RunDecoupled is the loop, not RunLoop
    None

ASSUME DecoupledAssumption == Decoupled \in BOOLEAN
ASSUME NoneAssumption == None \notin {"turn", "run", "idle"}

Off == -1   \* hide_callback->when = 0: not scheduled
Hold == 2   \* seconds the progress pill stays

VARIABLES
    phase,      \* RaInit: "none", "client" (_raClient set), "loaded", "ready" (_raReady) or "failed"
    game,       \* client->game # NULL
    hardcore,   \* client->state.hardcore
    session,    \* _raHardcoreActive
    disc,       \* client->game->public_.hash: "own", or "foreign" to the loaded game
    status,     \* per achievement: "fresh", "casual" (active, unlocked in softcore) or "unlocked"
    trig,       \* trigger->state
    pend,       \* pending_events of an achievement
    action,     \* progress_tracker.action, together with the game's pending flag
    timer,      \* seconds until hide_callback is due, or Off
    shown,      \* _raChallenges
    pill,       \* _raProgress is shown
    emu,        \* emulation thread: pc, and where it goes on after raising events
    media,      \* pool thread of a disc look-up: "none", "asked", "raise" or "tell"
    counted,    \* history: frames of this game were processed
    behind,     \* history: the game was reset, the hits counted before it are still there
    raced       \* history: two threads raised pending events at once

set == <<status, trig, pend>>
tracker == <<action, timer>>
view == <<shown, pill>>
modes == <<phase, hardcore, session>>
vars == <<modes, game, disc, set, tracker, view, emu, media, counted, behind, raced>>

Trigs == {"waiting", "active", "paused", "primed", "triggered"}
Active(a) == status[a] # "unlocked"
Primed(a) == game /\ Active(a) /\ trig[a] = "primed"
RaHardcoreActive == session /\ phase \notin {"none", "failed"}

Init ==
    /\ phase = "none" /\ game = FALSE
    /\ hardcore \in BOOLEAN /\ session = hardcore
    /\ disc = "own"
    /\ status = [a \in Achievements |-> "unlocked"]
    /\ trig = [a \in Achievements |-> "waiting"]
    /\ pend = [a \in Achievements |-> {}]
    /\ action = "none" /\ timer = Off
    /\ shown = {} /\ pill = FALSE
    /\ emu = [pc |-> "top", next |-> None]
    /\ media = "none"
    /\ counted = FALSE /\ behind = FALSE /\ raced = FALSE

-----------------------------------------------------------------------------
(* Attaching: InitRetroAchievements on its worker.                         *)

\* Signed in: _raClient is set before the game is identified.
SetClient ==
    /\ phase = "none"
    /\ phase' = "client"
    /\ UNCHANGED <<hardcore, session, game, disc, set, tracker, view, emu, media, counted, behind>>

\* What is unlocked in the mode played is not active; triggers start out waiting.
GameLoaded ==
    /\ phase = "client"
    /\ phase' = "loaded" /\ game' = TRUE
    /\ status' \in [Achievements -> IF hardcore THEN {"fresh", "casual", "unlocked"}
                                                ELSE {"fresh", "unlocked"}]
    /\ UNCHANGED <<hardcore, session, disc, trig, pend, tracker, view, emu, media, counted, behind>>

LoadFails ==
    /\ phase = "client"
    /\ phase' = "failed"
    /\ UNCHANGED <<hardcore, session, game, disc, set, tracker, view, emu, media, counted, behind>>

Ready ==
    /\ phase = "loaded"
    /\ phase' = "ready"
    /\ UNCHANGED <<hardcore, session, game, disc, set, tracker, view, emu, media, counted, behind>>

-----------------------------------------------------------------------------
(* What several handlers do under the lock, and the raising of events.     *)

At(pc) == emu.pc = pc
Goto(pc) == emu' = [emu EXCEPT !.pc = pc]
RaiseThen(pc) == emu' = [pc |-> "raise", next |-> pc]

\* rc_client_hide_progress_tracker.
HideTracker ==
    IF timer # Off /\ action = "none"
    THEN timer' = Off /\ action' = "hide"
    ELSE UNCHANGED tracker

\* rc_client_raise_pending_events: the icons of the achievements, then the pill.
\* A triggered achievement is awarded; "hide" goes before "show".
RaiseEvents ==
    /\ shown' = {a \in Achievements : \/ a \in shown /\ "hide" \notin pend[a]
                                      \/ "show" \in pend[a] /\ "hide" \notin pend[a]}
    /\ status' = [a \in Achievements |-> IF "triggered" \in pend[a] THEN "unlocked" ELSE status[a]]
    /\ pend' = [a \in Achievements |-> {}]
    /\ pill' = CASE action = "show" -> TRUE [] action = "hide" -> FALSE [] OTHER -> pill
    /\ action' = "none"

-----------------------------------------------------------------------------
(* The emulation thread.                                                   *)

NoReset ==
    /\ At("top") /\ Goto("turn")
    /\ UNCHANGED <<modes, game, disc, set, tracker, view, media, counted, behind>>

\* _core.Reset()
ResetCore ==
    /\ At("top") /\ Goto("reset")
    /\ behind' = counted
    /\ UNCHANGED <<modes, game, disc, set, tracker, view, media, counted>>

MutSkipRuntimeReset ==
    /\ At("reset") /\ Goto("turn")
    /\ UNCHANGED <<modes, game, disc, set, tracker, view, media, counted, behind>>

\* No RaReset in RunDecoupled; nothing for it to do without a game.
SkipRuntimeReset ==
    /\ At("reset") /\ (Decoupled \/ phase # "ready" \/ ~game)
    /\ Goto("turn")
    /\ UNCHANGED <<modes, game, disc, set, tracker, view, media, counted, behind>>

\* rc_client_reset: every active trigger starts again.
ResetRuntime ==
    /\ At("reset") /\ ~Decoupled /\ phase = "ready" /\ game /\ disc = "own"
    /\ pend' = [a \in Achievements |-> IF Primed(a) THEN pend[a] \cup {"hide"} ELSE pend[a]]
    /\ trig' = [a \in Achievements |-> IF Active(a) THEN "waiting" ELSE trig[a]]
    /\ HideTracker
    /\ behind' = FALSE
    /\ RaiseThen("turn")
    /\ UNCHANGED <<modes, game, disc, status, view, media, counted>>

\* rc_client_reset with another game's disc inserted: rc_client_unload_game.
Unload ==
    /\ At("reset") /\ ~Decoupled /\ phase = "ready" /\ game /\ disc = "foreign"
    /\ game' = FALSE
    /\ pend' = [a \in Achievements |-> IF Primed(a) THEN pend[a] \cup {"hide"} ELSE pend[a]]
    /\ HideTracker
    /\ counted' = FALSE /\ behind' = FALSE
    /\ RaiseThen("turn")
    /\ UNCHANGED <<modes, disc, status, trig, view, media>>

MutPaused ==
    /\ At("turn") /\ Goto("top")
    /\ UNCHANGED <<modes, game, disc, set, tracker, view, media, counted, behind>>

\* Only RaIdle is called while the game is paused.
Paused ==
    /\ At("turn") /\ Goto("idle")
    /\ UNCHANGED <<modes, game, disc, set, tracker, view, media, counted, behind>>

NoSwap ==
    /\ At("turn") /\ Goto("load")
    /\ UNCHANGED <<modes, game, disc, set, tracker, view, media, counted, behind>>

\* SwapToNextDisk of a disc that can be looked up (bound: one look-up at a time).
SwapDisc ==
    /\ At("turn") /\ Goto("load")
    /\ phase = "ready" /\ game /\ media = "none"
    /\ media' = "asked"
    /\ UNCHANGED <<modes, game, disc, set, tracker, view, counted, behind>>

\* No state to load, or refused in hardcore.
NoLoad ==
    /\ At("load") /\ Goto("run")
    /\ UNCHANGED <<modes, game, disc, set, tracker, view, media, counted, behind>>

MutLoadState ==
    /\ At("load") /\ Goto("restore")
    /\ UNCHANGED <<modes, game, disc, set, tracker, view, media, counted, behind>>

\* ExecuteLoadOnEmuThread looks at the mode again, however early the load was asked for.
LoadState ==
    /\ At("load") /\ ~RaHardcoreActive
    /\ Goto("restore")
    /\ UNCHANGED <<modes, game, disc, set, tracker, view, media, counted, behind>>

\* The core refused the state, no progress was saved with it, or there is no game.
NoProgress ==
    /\ At("restore") /\ Goto("run")
    /\ UNCHANGED <<modes, game, disc, set, tracker, view, media, counted, behind>>

MutRestoreProgress ==
    /\ At("restore") /\ phase \in {"loaded", "ready"} /\ game
    /\ trig' \in [Achievements -> Trigs]
    /\ \A a \in Achievements : IF Active(a) THEN trig'[a] # "triggered" ELSE trig'[a] = trig[a]
    /\ pend' = [a \in Achievements |-> IF Active(a) /\ trig'[a] = "primed"
                                       THEN pend[a] \cup {"show"} ELSE pend[a]]
    /\ HideTracker
    /\ behind' = FALSE
    /\ RaiseThen("run")
    /\ UNCHANGED <<modes, game, disc, status, view, media, counted>>

\* rc_client_deserialize_progress: triggers as saved, or reset where the blob has none;
\* an icon that is shown and stays is neither hidden nor shown.
RestoreProgress ==
    /\ At("restore") /\ phase \in {"loaded", "ready"} /\ game
    /\ trig' \in [Achievements -> Trigs]
    /\ \A a \in Achievements : IF Active(a) THEN trig'[a] # "triggered" ELSE trig'[a] = trig[a]
    /\ pend' = [a \in Achievements |->
                  LET now == Active(a) /\ trig'[a] = "primed" IN
                  CASE Primed(a) /\ ~now -> pend[a] \cup {"hide"}
                    [] Primed(a) /\ now -> pend[a] \ {"hide"}
                    [] ~Primed(a) /\ now -> pend[a] \cup {"show"}
                    [] OTHER -> pend[a]]
    /\ HideTracker
    /\ behind' = FALSE
    /\ RaiseThen("run")
    /\ UNCHANGED <<modes, game, disc, status, view, media, counted>>

\* Too much audio queued: no frame this turn.
SkipFrame ==
    /\ At("run") /\ Goto("top")
    /\ UNCHANGED <<modes, game, disc, set, tracker, view, media, counted, behind>>

\* The core runs a frame and there is nothing to process.
BareFrame ==
    /\ At("run") /\ (phase # "ready" \/ ~game)
    /\ Goto("idle")
    /\ UNCHANGED <<modes, game, disc, set, tracker, view, media, counted, behind>>

\* rc_evaluate_trigger: the states one frame leads to.
TrigStep(s) == CASE s = "waiting" -> Trigs \ {"triggered"}
                 [] s = "triggered" -> {"triggered"}
                 [] OTHER -> Trigs \ {"waiting"}

\* What rc_client_do_frame_process_achievements leaves pending as a trigger goes from s to t.
Changed(s, t) == IF s = t THEN {}
                    ELSE (IF s = "primed" THEN {"hide"} ELSE {})
                         \cup (IF t = "primed" THEN {"show"} ELSE {})
                         \cup (IF t = "triggered" THEN {"triggered"} ELSE {})

\* rc_client_do_frame, the part that holds the lock.  Progress is measured of
\* achievements that are active and no longer waiting.
Frame ==
    /\ At("run") /\ phase = "ready" /\ game
    /\ trig' \in [Achievements -> Trigs]
    /\ \A a \in Achievements : trig'[a] \in IF Active(a) THEN TrigStep(trig[a]) ELSE {trig[a]}
    /\ pend' = [a \in Achievements |-> pend[a] \cup Changed(trig[a], trig'[a])]
    /\ \/ UNCHANGED tracker
       \/ /\ \E a \in Achievements : Active(a) /\ trig'[a] \in {"active", "paused", "primed"}
          /\ action' = "show" /\ timer' = Hold
    /\ counted' = TRUE
    /\ RaiseThen("idle")
    /\ UNCHANGED <<modes, game, disc, status, view, media, behind>>

MutRaise ==
    /\ At("raise") /\ Goto(emu.next)
    /\ RaiseEvents
    /\ UNCHANGED <<modes, game, disc, trig, timer, media, counted, behind>>

\* The events of what was done last.
Raise ==
    /\ At("raise")
    /\ emu' = [pc |-> emu.next, next |-> None]
    /\ RaiseEvents
    /\ UNCHANGED <<modes, game, disc, trig, timer, media, counted, behind>>

MutIdle ==
    /\ At("idle") /\ Goto("top")
    /\ IF phase = "ready" /\ game /\ timer = 0 /\ action = "none"
       THEN pill' = FALSE /\ timer' = timer
       ELSE UNCHANGED <<pill, timer>>
    /\ UNCHANGED <<modes, game, disc, set, action, shown, media, counted, behind>>

\* rc_client_idle: the pill goes when its time is up (progress_tracker_timer_elapsed).
Idle ==
    /\ At("idle") /\ Goto("top")
    /\ IF phase = "ready" /\ game /\ timer = 0 /\ action = "none"
       THEN pill' = FALSE /\ timer' = Off
       ELSE UNCHANGED <<pill, timer>>
    /\ UNCHANGED <<modes, game, disc, set, action, shown, media, counted, behind>>

-----------------------------------------------------------------------------
(* The pool thread that brings the answer to a disc's look-up.             *)

\* An error, or the game was unloaded meanwhile: nothing changes.
NoAnswer ==
    /\ media = "asked"
    /\ media' = "none"
    /\ UNCHANGED <<modes, game, disc, set, tracker, view, emu, counted, behind>>

\* A disc of the game or of another one; or of none, in softcore (change_media_internal).
KnownDisc ==
    /\ media = "asked" /\ game
    /\ disc' \in {"own", "foreign"}
    /\ media' = "none"
    /\ UNCHANGED <<modes, game, set, tracker, view, emu, counted, behind>>

\* A disc of no game ends hardcore: what was unlocked in softcore is no longer active
\* (rc_client_disable_hardcore; this event is raised under the lock).
DropHardcore ==
    /\ media = "asked" /\ game /\ hardcore
    /\ disc' = "foreign"
    /\ hardcore' = FALSE
    /\ status' = [a \in Achievements |-> IF status[a] = "casual" THEN "unlocked" ELSE status[a]]
    /\ trig' = [a \in Achievements |-> IF status[a] = "casual" THEN "triggered" ELSE trig[a]]
    /\ shown' = shown \ {a \in Achievements : status[a] = "casual" /\ trig[a] = "primed"}
    /\ media' = "raise"
    /\ UNCHANGED <<phase, session, game, pend, tracker, pill, emu, counted, behind>>

\* rc_client_set_hardcore_enabled: pending events, if there is a game.
MediaRaise ==
    /\ media = "raise"
    /\ media' = "tell"
    /\ IF game THEN RaiseEvents ELSE UNCHANGED <<shown, status, pend, pill, action>>
    /\ UNCHANGED <<modes, game, disc, trig, timer, emu, counted, behind>>

\* The callback of RaChangeMedia: the session follows.
MediaTell ==
    /\ media = "tell"
    /\ media' = "none"
    /\ session' = FALSE
    /\ UNCHANGED <<phase, hardcore, game, disc, set, tracker, view, emu, counted, behind>>

-----------------------------------------------------------------------------
Elapse ==
    /\ timer > 0
    /\ timer' = timer - 1
    /\ UNCHANGED <<modes, game, disc, set, action, view, emu, media, counted, behind>>

Attach == SetClient \/ GameLoaded \/ LoadFails \/ Ready
Reset == NoReset \/ ResetCore \/ SkipRuntimeReset \/ ResetRuntime \/ Unload
Load == NoLoad \/ LoadState \/ NoProgress \/ RestoreProgress
Run == BareFrame \/ Frame
Emulation == Reset \/ Paused \/ NoSwap \/ SwapDisc \/ Load \/ SkipFrame \/ Run \/ Raise \/ Idle
Media == NoAnswer \/ KnownDisc \/ DropHardcore \/ MediaRaise \/ MediaTell

\* Pending events are raised without the lock: two threads at it at once is a data race.
Watch == raced' = (raced \/ (emu'.pc = "raise" /\ media' = "raise"))

Next == (Attach \/ Emulation \/ Media \/ Elapse) /\ Watch

Spec == Init /\ [][Next]_vars

\* The loop goes on, the audio queue drains so that frames are run, time passes and
\* requests are answered.
Fairness ==
    /\ WF_vars(Emulation /\ Watch)
    /\ SF_vars(Run /\ Watch)
    /\ WF_vars(Elapse /\ Watch)
    /\ WF_vars(Media /\ Watch)

FairSpec == Spec /\ Fairness

-----------------------------------------------------------------------------
Pcs == {"top", "reset", "turn", "load", "restore", "run", "raise", "idle"}

TypeOK ==
    /\ phase \in {"none", "client", "loaded", "ready", "failed"}
    /\ game \in BOOLEAN /\ hardcore \in BOOLEAN /\ session \in BOOLEAN
    /\ disc \in {"own", "foreign"}
    /\ status \in [Achievements -> {"fresh", "casual", "unlocked"}]
    /\ trig \in [Achievements -> Trigs]
    /\ pend \in [Achievements -> SUBSET {"hide", "show", "triggered"}]
    /\ action \in {"none", "show", "hide"} /\ timer \in Off .. Hold
    /\ shown \subseteq Achievements /\ pill \in BOOLEAN
    /\ emu \in [pc : Pcs, next : {"turn", "run", "idle", None}]
    /\ emu.pc = "raise" <=> emu.next # None
    /\ media \in {"none", "asked", "raise", "tell"}
    /\ counted \in BOOLEAN /\ behind \in BOOLEAN /\ raced \in BOOLEAN

\* Once its events are raised, the icons on screen are those of the primed achievements,
\* whichever of frame, reset, state load, unload and loss of hardcore came before; unless
\* the loss of hardcore ever raised events while the emulation thread did.
ShownIsPrimed ==
    ~raced /\ emu.pc # "raise" => shown = {a \in Achievements : Primed(a)}

\* The progress pill is on screen exactly as long as its removal is scheduled: no event of
\* either thread leaves it without a timer, or the timer without a pill.
PillTimed ==
    ~raced /\ emu.pc # "raise" => (pill <=> timer # Off)

\* What the player sees follows the triggers: the icons and the pill.
IndicatorsRight == ShownIsPrimed /\ PillTimed

\* The pill does not outlive the progress it reports, also while the game is paused,
\* reset or unloaded.
PillExpires == []<>(timer = Hold) \/ <>[]~pill \/ <>raced

\* A frame is never judged by hits counted before the game was last reset (the comment in
\* RunLoop on rc_client_reset).
ResetReachesRuntime == emu.pc # "reset" => ~behind

\* No state is loaded into a game whose frames count in hardcore, although the session's
\* copy of the mode is set by one thread, cleared by another later than the client's, and
\* read ahead of the load.
NoLoadInHardcore == emu.pc = "restore" => ~(hardcore /\ counted)
=============================================================================
