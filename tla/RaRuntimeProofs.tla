---------------------------- MODULE RaRuntimeProofs ----------------------------
(***************************************************************************)
(* Proofs about RaRuntime, for any set of achievements.  The icons and the *)
(* pill follow the triggers and the timer through the pending events: what *)
(* is shown once they are raised is the invariant, pending or not.         *)
(***************************************************************************)
EXTENDS RaRuntime, TLAPS

USE DEF At, Goto, RaiseThen, modes, set, tracker, view

-----------------------------------------------------------------------------
(* Type correctness.                                                       *)

\* Raising events keeps the types of what it changes.
LEMMA RaiseTypes ==
    ASSUME TypeOK, RaiseEvents
    PROVE  /\ shown' \subseteq Achievements
           /\ status' \in [Achievements -> {"fresh", "casual", "unlocked"}]
           /\ pend' \in [Achievements -> SUBSET {"hide", "show", "triggered"}]
           /\ pill' \in BOOLEAN
           /\ action' = "none"
  <1>1. shown' \subseteq Achievements
    BY DEF RaiseEvents
  <1>2. status' \in [Achievements -> {"fresh", "casual", "unlocked"}]
    BY DEF RaiseEvents, TypeOK
  <1>3. pend' \in [Achievements -> SUBSET {"hide", "show", "triggered"}]
    BY DEF RaiseEvents, TypeOK
  <1>4. pill' \in BOOLEAN
    <2>1. CASE action = "show"
      BY <2>1 DEF RaiseEvents
    <2>2. CASE action = "hide"
      BY <2>2 DEF RaiseEvents
    <2>3. CASE action = "none"
      BY <2>3 DEF RaiseEvents, TypeOK
    <2> QED BY <2>1, <2>2, <2>3 DEF TypeOK
  <1>5. action' = "none"
    BY DEF RaiseEvents
  <1> QED BY <1>1, <1>2, <1>3, <1>4, <1>5

\* So does hiding the tracker.
LEMMA HideTypes ==
    ASSUME TypeOK, HideTracker
    PROVE  action' \in {"none", "show", "hide"} /\ timer' \in Off .. Hold
  BY DEF TypeOK, HideTracker, Off, Hold

LEMMA TypeInit == Init => TypeOK
  <1> SUFFICES ASSUME Init PROVE TypeOK
    OBVIOUS
  <1>1. emu \in [pc : Pcs, next : {"turn", "run", "idle", None}] /\ emu.pc # "raise" /\ emu.next = None
    BY DEF Init, Pcs
  <1>2. action \in {"none", "show", "hide"} /\ timer \in Off .. Hold
    BY DEF Init, Off, Hold
  <1>3. status \in [Achievements -> {"fresh", "casual", "unlocked"}]
    BY DEF Init
  <1>4. trig \in [Achievements -> Trigs]
    BY DEF Init, Trigs
  <1>5. pend \in [Achievements -> SUBSET {"hide", "show", "triggered"}]
    BY DEF Init
  <1>6. phase = "none" /\ game = FALSE /\ hardcore \in BOOLEAN /\ session \in BOOLEAN /\ disc = "own"
    BY DEF Init
  <1> QED BY <1>1, <1>2, <1>3, <1>4, <1>5, <1>6 DEF Init, TypeOK

LEMMA TypeStep ==
    ASSUME TypeOK, [Next]_vars
    PROVE  TypeOK'
  <1> USE NoneAssumption DEF Trigs, Pcs
  <1>1. CASE UNCHANGED vars
    BY <1>1 DEF TypeOK, vars
  <1> SUFFICES ASSUME Next PROVE TypeOK'
    BY <1>1
  <1>w. raced' \in BOOLEAN
    BY DEF Next, Watch, TypeOK
  <1>2. CASE SetClient
    BY <1>2, <1>w DEF TypeOK, SetClient
  <1>3. CASE GameLoaded
    <2>1. status' \in [Achievements -> {"fresh", "casual", "unlocked"}]
      <3>1. CASE hardcore
        BY <1>3, <3>1 DEF GameLoaded
      <3>2. CASE ~hardcore
        BY <1>3, <3>2 DEF GameLoaded
      <3> QED BY <3>1, <3>2
    <2> QED BY <1>3, <1>w, <2>1 DEF TypeOK, GameLoaded
  <1>4. CASE LoadFails
    BY <1>4, <1>w DEF TypeOK, LoadFails
  <1>5. CASE Ready
    BY <1>5, <1>w DEF TypeOK, Ready
  <1>6. CASE NoReset \/ SkipRuntimeReset \/ Paused \/ NoSwap \/ NoLoad \/ LoadState
             \/ NoProgress \/ SkipFrame \/ BareFrame
    <2>1. UNCHANGED <<modes, game, disc, set, tracker, view, media, counted, behind>>
      BY <1>6 DEF NoReset, SkipRuntimeReset, Paused, NoSwap, NoLoad, LoadState, NoProgress,
                  SkipFrame, BareFrame
    <2>2. PICK p \in Pcs \ {"raise"} : emu' = [emu EXCEPT !.pc = p]
      BY <1>6 DEF NoReset, SkipRuntimeReset, Paused, NoSwap, NoLoad, LoadState, NoProgress,
                  SkipFrame, BareFrame
    <2>3. emu.pc # "raise"
      BY <1>6 DEF NoReset, SkipRuntimeReset, Paused, NoSwap, NoLoad, LoadState, NoProgress,
                  SkipFrame, BareFrame
    <2> QED BY <2>1, <2>2, <2>3, <1>w DEF TypeOK
  <1>7. CASE ResetCore
    BY <1>7, <1>w DEF TypeOK, ResetCore
  <1>8. CASE ResetRuntime
    <2>1. action' \in {"none", "show", "hide"} /\ timer' \in Off .. Hold
      BY <1>8, HideTypes DEF ResetRuntime
    <2>2. pend' \in [Achievements -> SUBSET {"hide", "show", "triggered"}]
      BY <1>8 DEF ResetRuntime, TypeOK
    <2>3. trig' \in [Achievements -> Trigs]
      BY <1>8 DEF ResetRuntime, TypeOK
    <2> QED BY <1>8, <1>w, <2>1, <2>2, <2>3 DEF TypeOK, ResetRuntime
  <1>9. CASE Unload
    <2>1. action' \in {"none", "show", "hide"} /\ timer' \in Off .. Hold
      BY <1>9, HideTypes DEF Unload
    <2>2. pend' \in [Achievements -> SUBSET {"hide", "show", "triggered"}]
      BY <1>9 DEF Unload, TypeOK
    <2> QED BY <1>9, <1>w, <2>1, <2>2 DEF TypeOK, Unload
  <1>10. CASE SwapDisc
    BY <1>10, <1>w DEF TypeOK, SwapDisc
  <1>11. CASE RestoreProgress
    <2>1. action' \in {"none", "show", "hide"} /\ timer' \in Off .. Hold
      BY <1>11, HideTypes DEF RestoreProgress
    <2>2. pend' \in [Achievements -> SUBSET {"hide", "show", "triggered"}]
      <3>1. ASSUME NEW a \in Achievements
            PROVE  pend'[a] \in SUBSET {"hide", "show", "triggered"}
        <4> DEFINE now == Active(a) /\ trig'[a] = "primed"
        <4>1. pend'[a] = CASE Primed(a) /\ ~now -> pend[a] \cup {"hide"}
                           [] Primed(a) /\ now -> pend[a] \ {"hide"}
                           [] ~Primed(a) /\ now -> pend[a] \cup {"show"}
                           [] OTHER -> pend[a]
          BY <1>11 DEF RestoreProgress
        <4> QED BY <4>1 DEF TypeOK
      <3>2. DOMAIN pend' = Achievements /\ pend' = [a \in Achievements |-> pend'[a]]
        BY <1>11 DEF RestoreProgress
      <3> QED BY <3>1, <3>2
    <2> QED BY <1>11, <1>w, <2>1, <2>2 DEF TypeOK, RestoreProgress
  <1>12. CASE Frame
    <2>1. action' \in {"none", "show", "hide"} /\ timer' \in Off .. Hold
      BY <1>12 DEF Frame, TypeOK, Off, Hold
    <2>2. pend' \in [Achievements -> SUBSET {"hide", "show", "triggered"}]
      BY <1>12 DEF Frame, TypeOK, Changed
    <2> QED BY <1>12, <1>w, <2>1, <2>2 DEF TypeOK, Frame
  <1>13. CASE Raise
    <2>1. emu' \in [pc : Pcs, next : {"turn", "run", "idle", None}]
          /\ emu'.pc # "raise" /\ emu'.next = None
      BY <1>13 DEF Raise, TypeOK
    <2> QED BY <1>13, <1>w, <2>1, RaiseTypes DEF TypeOK, Raise
  <1>14. CASE Idle
    <2>1. timer' \in Off .. Hold
      BY <1>14 DEF TypeOK, Idle, Off, Hold
    <2>2. pill' = pill \/ pill' = FALSE
      BY <1>14 DEF Idle
    <2>3. pill' \in BOOLEAN
      BY <2>2 DEF TypeOK
    <2> QED BY <1>14, <1>w, <2>1, <2>3 DEF TypeOK, Idle
  <1>15. CASE NoAnswer \/ KnownDisc \/ MediaTell
    <2>1. media' = "none" /\ UNCHANGED <<phase, game, hardcore, set, tracker, view, emu, counted, behind>>
      BY <1>15 DEF NoAnswer, KnownDisc, MediaTell
    <2>2. disc' \in {"own", "foreign"} /\ session' \in BOOLEAN
      BY <1>15 DEF TypeOK, NoAnswer, KnownDisc, MediaTell
    <2> QED BY <1>w, <2>1, <2>2 DEF TypeOK
  <1>16. CASE DropHardcore
    <2>1. status' \in [Achievements -> {"fresh", "casual", "unlocked"}]
      BY <1>16 DEF DropHardcore, TypeOK
    <2>2. trig' \in [Achievements -> Trigs]
      BY <1>16 DEF DropHardcore, TypeOK
    <2>3. hardcore' = FALSE /\ media' = "raise"
      BY <1>16 DEF DropHardcore
    <2>4. UNCHANGED <<phase, session, game, pend, tracker, pill, emu, counted, behind>>
      BY <1>16 DEF DropHardcore
    <2>5. shown' \subseteq Achievements
      <3>1. shown \subseteq Achievements
        BY DEF TypeOK
      <3>2. shown' = shown \ {a \in Achievements : status[a] = "casual" /\ trig[a] = "primed"}
        BY <1>16 DEF DropHardcore
      <3> QED BY <3>1, <3>2
    <2>6. disc' \in {"own", "foreign"}
      BY <1>16 DEF DropHardcore
    <2>7. /\ phase \in {"none", "client", "loaded", "ready", "failed"}
          /\ game \in BOOLEAN /\ session \in BOOLEAN
          /\ pend \in [Achievements -> SUBSET {"hide", "show", "triggered"}]
          /\ action \in {"none", "show", "hide"} /\ timer \in Off .. Hold /\ pill \in BOOLEAN
          /\ emu \in [pc : Pcs, next : {"turn", "run", "idle", None}]
          /\ (emu.pc = "raise" <=> emu.next # None)
          /\ counted \in BOOLEAN /\ behind \in BOOLEAN
      BY DEF TypeOK
    <2>8. hardcore' \in BOOLEAN /\ media' \in {"none", "asked", "raise", "tell"}
      BY <2>3
    <2> HIDE DEF Trigs, Pcs
    <2> QED BY <1>w, <2>1, <2>2, <2>4, <2>5, <2>6, <2>7, <2>8, Zenon DEF TypeOK
  <1>17. CASE MediaRaise
    <2>1. CASE game
      BY <1>17, <1>w, <2>1, RaiseTypes DEF TypeOK, MediaRaise
    <2>2. CASE ~game
      BY <1>17, <1>w, <2>2 DEF TypeOK, MediaRaise
    <2> QED BY <2>1, <2>2
  <1>18. CASE Elapse
    BY <1>18, <1>w DEF TypeOK, Elapse, Off, Hold
  <1> QED BY <1>2, <1>3, <1>4, <1>5, <1>6, <1>7, <1>8, <1>9, <1>10, <1>11, <1>12, <1>13, <1>14,
             <1>15, <1>16, <1>17, <1>18
          DEF Next, Attach, Emulation, Reset, Load, Run, Media

\* Every reachable state is well typed.
THEOREM RuntimeTypeCorrect == Spec => []TypeOK
  <1>1. TypeOK /\ [Next]_vars => TypeOK'
    BY TypeStep
  <1> QED BY TypeInit, <1>1, PTL DEF Spec

-----------------------------------------------------------------------------
(* Hardcore: the session's copy outlives the client's.                     *)

\* The session's mode is cleared after the client's, by the thread that cleared that one,
\* and frames count only once the session's mode is looked at.  Nothing moves before the
\* game is known.
Modes ==
    /\ hardcore => session
    /\ media \in {"raise", "tell"} => ~hardcore
    /\ counted => phase = "ready" /\ game
    /\ phase \in {"none", "client"} => ~game /\ \A a \in Achievements : trig[a] = "waiting"

LEMMA ModesStep ==
    ASSUME TypeOK, Modes, NoLoadInHardcore, [Next]_vars
    PROVE  Modes' /\ NoLoadInHardcore'
  <1> USE DEF Modes, NoLoadInHardcore
  <1>1. CASE UNCHANGED vars
    BY <1>1 DEF vars
  <1> SUFFICES ASSUME Next PROVE Modes' /\ NoLoadInHardcore'
    BY <1>1
  <1>2. CASE SetClient \/ GameLoaded \/ LoadFails \/ Ready
    BY <1>2 DEF SetClient, GameLoaded, LoadFails, Ready
  <1>3. CASE NoReset \/ ResetCore \/ SkipRuntimeReset \/ ResetRuntime \/ Unload
    BY <1>3 DEF NoReset, ResetCore, SkipRuntimeReset, ResetRuntime, Unload, TypeOK
  <1>4. CASE Paused \/ NoSwap \/ SwapDisc \/ NoLoad \/ NoProgress \/ SkipFrame \/ BareFrame
    BY <1>4 DEF Paused, NoSwap, SwapDisc, NoLoad, NoProgress, SkipFrame, BareFrame, TypeOK
  <1>5. CASE LoadState
    <2>1. ~(hardcore /\ counted)
      BY <1>5 DEF LoadState, RaHardcoreActive
    <2> QED BY <1>5, <2>1 DEF LoadState, TypeOK
  <1>6. CASE RestoreProgress \/ Frame
    BY <1>6 DEF RestoreProgress, Frame, TypeOK
  <1>7. CASE Raise
    BY <1>7 DEF Raise, TypeOK
  <1>8. CASE Idle
    BY <1>8 DEF Idle, TypeOK
  <1>9. CASE NoAnswer \/ KnownDisc \/ DropHardcore
    BY <1>9 DEF NoAnswer, KnownDisc, DropHardcore
  <1>10. CASE MediaRaise
    BY <1>10 DEF MediaRaise
  <1>11. CASE MediaTell
    BY <1>11 DEF MediaTell
  <1>12. CASE Elapse
    BY <1>12 DEF Elapse
  <1> QED BY <1>2, <1>3, <1>4, <1>5, <1>6, <1>7, <1>8, <1>9, <1>10, <1>11, <1>12
          DEF Next, Attach, Emulation, Reset, Load, Run, Media

LEMMA ModesHold == Spec => [](TypeOK /\ Modes /\ NoLoadInHardcore)
  <1>1. Init => Modes /\ NoLoadInHardcore
    BY DEF Init, Modes, NoLoadInHardcore
  <1>2. TypeOK /\ Modes /\ NoLoadInHardcore /\ [Next]_vars => Modes' /\ NoLoadInHardcore'
    BY ModesStep
  <1>3. Spec => []TypeOK
    BY RuntimeTypeCorrect
  <1> QED BY <1>1, <1>2, <1>3, PTL DEF Spec

\* No state is loaded into a game whose frames count in hardcore.
THEOREM HardcoreNotLoaded == Spec => []NoLoadInHardcore
  BY ModesHold, PTL

-----------------------------------------------------------------------------
(* Resets: RunLoop resets the runtime before the next frame.               *)

LEMMA ResetStep ==
    ASSUME ~Decoupled, TypeOK, Modes, ResetReachesRuntime, behind => counted, [Next]_vars
    PROVE  ResetReachesRuntime' /\ (behind' => counted')
  <1> USE DEF Modes, ResetReachesRuntime
  <1>1. CASE UNCHANGED vars
    BY <1>1 DEF vars
  <1> SUFFICES ASSUME Next PROVE ResetReachesRuntime' /\ (behind' => counted')
    BY <1>1
  <1>2. CASE SetClient \/ GameLoaded \/ LoadFails \/ Ready
    BY <1>2 DEF SetClient, GameLoaded, LoadFails, Ready
  <1>3. CASE ResetCore
    BY <1>3 DEF ResetCore, TypeOK
  <1>4. CASE SkipRuntimeReset
    <2>1. ~behind
      BY <1>4 DEF SkipRuntimeReset
    <2> QED BY <1>4, <2>1 DEF SkipRuntimeReset
  <1>5. CASE ResetRuntime \/ Unload \/ RestoreProgress
    BY <1>5 DEF ResetRuntime, Unload, RestoreProgress
  <1>6. CASE NoReset \/ Paused \/ NoSwap \/ SwapDisc \/ NoLoad \/ LoadState \/ NoProgress
             \/ SkipFrame \/ BareFrame \/ Frame \/ Raise \/ Idle
    BY <1>6 DEF NoReset, Paused, NoSwap, SwapDisc, NoLoad, LoadState, NoProgress, SkipFrame,
                BareFrame, Frame, Raise, Idle
  <1>7. CASE NoAnswer \/ KnownDisc \/ DropHardcore \/ MediaRaise \/ MediaTell \/ Elapse
    BY <1>7 DEF NoAnswer, KnownDisc, DropHardcore, MediaRaise, MediaTell, Elapse
  <1> QED BY <1>2, <1>3, <1>4, <1>5, <1>6, <1>7
          DEF Next, Attach, Emulation, Reset, Load, Run, Media

\* In RunLoop no frame is judged by hits counted before the last reset.
THEOREM ResetsReach == ASSUME ~Decoupled PROVE Spec => []ResetReachesRuntime
  <1>1. Init => ResetReachesRuntime /\ (behind => counted)
    BY DEF Init, ResetReachesRuntime
  <1>2. TypeOK /\ Modes /\ ResetReachesRuntime /\ (behind => counted) /\ [Next]_vars
        => ResetReachesRuntime' /\ (behind => counted)'
    BY ResetStep
  <1> QED BY <1>1, <1>2, ModesHold, PTL DEF Spec

-----------------------------------------------------------------------------
(* Indicators: what is shown once the pending events are raised.           *)

\* Events are pending between a handler and its Raise only, and one thread raises them.
Alone == ~(emu.pc = "raise" /\ media = "raise")
Quiet == emu.pc # "raise" => /\ \A a \in Achievements : pend[a] = {}
                             /\ action = "none"

\* Who is about to be awarded is not primed any more.
Won == \A a \in Achievements : "triggered" \in pend[a] => trig[a] = "triggered"

\* The icon of a and the pill as they will be once everything pending is raised.
IconLater(a) == "hide" \notin pend[a] /\ (a \in shown \/ "show" \in pend[a])
PillLater == IF action = "none" THEN pill ELSE action = "show"
Icons == \A a \in Achievements : IconLater(a) <=> Primed(a)
PillFollows == PillLater <=> timer # Off

Calm == Alone /\ Quiet /\ Won /\ Icons /\ PillFollows

\* Raising events makes the icons and the pill what they were to become.
LEMMA RaiseShows ==
    ASSUME TypeOK, Won, Icons, PillFollows, RaiseEvents, UNCHANGED <<game, trig, timer>>
    PROVE  /\ \A a \in Achievements : pend'[a] = {}
           /\ action' = "none"
           /\ Won' /\ Icons' /\ PillFollows'
  <1>1. \A a \in Achievements : pend'[a] = {}
    BY DEF RaiseEvents
  <1>2. action' = "none"
    BY DEF RaiseEvents
  <1>3. Won'
    BY <1>1 DEF Won
  <1>4. Icons'
    <2> SUFFICES ASSUME NEW a \in Achievements PROVE (a \in shown') <=> Primed(a)'
      BY <1>1 DEF Icons, IconLater
    <2>1. a \in shown' <=> IconLater(a)
      BY DEF RaiseEvents, IconLater
    <2>2. CASE "triggered" \in pend[a]
      BY <2>1, <2>2 DEF Won, Icons, Primed
    <2>3. CASE "triggered" \notin pend[a]
      <3>1. status'[a] = status[a]
        BY <2>3 DEF RaiseEvents
      <3> QED BY <2>1, <3>1 DEF Icons, Primed, Active
    <2> QED BY <2>2, <2>3
  <1>5. PillFollows'
    <2>1. pill' <=> PillLater
      <3>1. CASE action = "none"
        BY <3>1 DEF RaiseEvents, PillLater
      <3>2. CASE action = "show"
        BY <3>2 DEF RaiseEvents, PillLater
      <3>3. CASE action = "hide"
        BY <3>3 DEF RaiseEvents, PillLater
      <3> QED BY <3>1, <3>2, <3>3 DEF TypeOK
    <2>2. PillLater' <=> pill'
      BY <1>2 DEF PillLater
    <2> QED BY <2>1, <2>2 DEF PillFollows
  <1> QED BY <1>1, <1>2, <1>3, <1>4, <1>5

\* Hiding the tracker takes the pill away with its timer.
LEMMA HideFollows ==
    ASSUME action = "none", PillFollows, HideTracker, UNCHANGED pill
    PROVE  PillFollows'
  <1>1. CASE timer # Off
    <2>1. timer' = Off /\ action' = "hide"
      BY <1>1 DEF HideTracker
    <2> QED BY <2>1 DEF PillFollows, PillLater
  <1>2. CASE timer = Off
    <2>1. UNCHANGED <<timer, action, pill>>
      BY <1>2 DEF HideTracker
    <2> QED BY <2>1 DEF PillFollows, PillLater
  <1> QED BY <1>1, <1>2

\* What a frame leaves pending about an icon.
LEMMA ChangedShows ==
    ASSUME NEW s, NEW t
    PROVE  /\ "hide" \in Changed(s, t) <=> s = "primed" /\ t # "primed"
           /\ "show" \in Changed(s, t) <=> s # "primed" /\ t = "primed"
  <1>1. CASE s = t
    BY <1>1 DEF Changed
  <1>2. CASE s # t /\ s = "primed"
    <2>1. "hide" \in Changed(s, t)
      BY <1>2 DEF Changed
    <2>2. "show" \notin Changed(s, t)
      BY <1>2 DEF Changed
    <2> QED BY <1>2, <2>1, <2>2
  <1>3. CASE s # t /\ s # "primed"
    <2>1. "hide" \notin Changed(s, t)
      BY <1>3 DEF Changed
    <2>2. "show" \in Changed(s, t) <=> t = "primed"
      BY <1>3 DEF Changed
    <2> QED BY <1>3, <2>1, <2>2
  <1> QED BY <1>1, <1>2, <1>3

LEMMA CalmInit == Init => Calm
  BY DEF Init, Calm, Alone, Quiet, Won, Icons, IconLater, Primed, PillFollows, PillLater, Off

LEMMA CalmStep ==
    ASSUME TypeOK, Modes, ~raced => Calm, [Next]_vars
    PROVE  ~raced' => Calm'
  <1>1. CASE UNCHANGED vars
    BY <1>1 DEF vars, Calm, Alone, Quiet, Won, Icons, IconLater, Primed, Active, PillFollows, PillLater
  <1> SUFFICES ASSUME Next, ~raced' PROVE Calm'
    BY <1>1
  <1>0. Calm /\ Alone'
    BY DEF Next, Watch, Calm, Alone
  <1>a. ASSUME UNCHANGED <<game, set, action, shown, pill>>, emu'.pc # "raise" => emu.pc # "raise",
               timer' = Off <=> timer = Off
        PROVE  Calm'
    BY <1>0, <1>a DEF Calm, Quiet, Won, Icons, IconLater, Primed, Active, PillFollows, PillLater
  <1>2. CASE SetClient \/ LoadFails \/ Ready
    BY <1>2, <1>a DEF SetClient, LoadFails, Ready
  <1>3. CASE GameLoaded
    <2>1. \A a \in Achievements : trig[a] = "waiting"
      BY <1>3 DEF GameLoaded, Modes
    <2> QED BY <1>0, <1>3, <2>1 DEF GameLoaded, Modes, Calm, Quiet, Won, Icons, IconLater, Primed, PillFollows, PillLater
  <1>4. CASE NoReset \/ ResetCore \/ SkipRuntimeReset \/ Paused \/ NoSwap \/ SwapDisc \/ NoLoad
             \/ LoadState \/ NoProgress \/ SkipFrame \/ BareFrame
    BY <1>4, <1>a DEF NoReset, ResetCore, SkipRuntimeReset, Paused, NoSwap, SwapDisc, NoLoad,
                      LoadState, NoProgress, SkipFrame, BareFrame, TypeOK
  <1>5. CASE ResetRuntime
    <2>1. emu.pc # "raise" /\ emu'.pc = "raise"
      BY <1>5 DEF ResetRuntime
    <2>2. PillFollows'
      BY <1>0, <1>5, <2>1, HideFollows DEF ResetRuntime, Calm, Quiet
    <2>3. ASSUME NEW a \in Achievements
          PROVE  /\ pend'[a] = IF Primed(a) THEN {"hide"} ELSE {}
                 /\ Active(a) => trig'[a] = "waiting"
                 /\ ~Active(a) => ~Active(a)'
      BY <1>0, <1>5, <2>1 DEF ResetRuntime, Calm, Quiet, TypeOK, Active
    <2>4. Won'
      BY <2>3 DEF Won
    <2>5. Icons'
      BY <1>0, <1>5, <2>1, <2>3 DEF ResetRuntime, Calm, Quiet, Icons, IconLater, Primed
    <2> QED BY <1>0, <2>1, <2>2, <2>4, <2>5 DEF Calm, Quiet
  <1>6. CASE Unload
    <2>1. emu.pc # "raise" /\ emu'.pc = "raise" /\ ~game'
      BY <1>6 DEF Unload
    <2>2. PillFollows'
      BY <1>0, <1>6, <2>1, HideFollows DEF Unload, Calm, Quiet
    <2>3. ASSUME NEW a \in Achievements
          PROVE  pend'[a] = IF Primed(a) THEN {"hide"} ELSE {}
      BY <1>0, <1>6, <2>1 DEF Unload, Calm, Quiet, TypeOK
    <2>4. Won'
      BY <2>3 DEF Won
    <2>5. Icons'
      BY <1>0, <1>6, <2>1, <2>3 DEF Unload, Calm, Quiet, Icons, IconLater, Primed
    <2> QED BY <1>0, <2>1, <2>2, <2>4, <2>5 DEF Calm, Quiet
  <1>7. CASE RestoreProgress
    <2>1. emu.pc # "raise" /\ emu'.pc = "raise"
      BY <1>7 DEF RestoreProgress
    <2>2. PillFollows'
      BY <1>0, <1>7, <2>1, HideFollows DEF RestoreProgress, Calm, Quiet
    <2>3. ASSUME NEW a \in Achievements
          PROVE  /\ Primed(a) /\ ~Primed(a)' => pend'[a] = {"hide"}
                 /\ Primed(a) /\ Primed(a)' => pend'[a] = {}
                 /\ ~Primed(a) /\ Primed(a)' => pend'[a] = {"show"}
                 /\ ~Primed(a) /\ ~Primed(a)' => pend'[a] = {}
      <3> DEFINE now == Active(a) /\ trig'[a] = "primed"
      <3>1. Primed(a)' <=> now
        BY <1>7 DEF RestoreProgress, Primed, Active
      <3>2. pend[a] = {}
        BY <1>0, <2>1 DEF Calm, Quiet
      <3>3. pend'[a] = CASE Primed(a) /\ ~now -> {} \cup {"hide"}
                         [] Primed(a) /\ now -> {} \ {"hide"}
                         [] ~Primed(a) /\ now -> {} \cup {"show"}
                         [] OTHER -> {}
        BY <1>7, <3>2 DEF RestoreProgress
      <3> HIDE DEF now
      <3> QED BY <3>1, <3>3
    <2>4. Won'
      BY <2>3 DEF Won
    <2>5. Icons'
      <3> SUFFICES ASSUME NEW a \in Achievements PROVE IconLater(a)' <=> Primed(a)'
        BY DEF Icons
      <3>1. a \in shown <=> Primed(a)
        BY <1>0, <2>1 DEF Calm, Quiet, Icons, IconLater
      <3>2. shown' = shown
        BY <1>7 DEF RestoreProgress
      <3> QED BY <2>3, <3>1, <3>2 DEF IconLater
    <2> QED BY <1>0, <2>1, <2>2, <2>4, <2>5 DEF Calm, Quiet
  <1>8. CASE Frame
    <2>1. emu.pc # "raise" /\ emu'.pc = "raise" /\ game /\ game'
      BY <1>8 DEF Frame
    <2>2. PillFollows'
      <3>1. CASE UNCHANGED <<action, timer>>
        BY <1>0, <1>8, <3>1 DEF Frame, Calm, PillFollows, PillLater
      <3>2. CASE action' = "show" /\ timer' = Hold
        BY <3>2 DEF PillFollows, PillLater, Hold, Off
      <3> QED BY <1>8, <3>1, <3>2 DEF Frame
    <2>3. ASSUME NEW a \in Achievements
          PROVE  pend'[a] = Changed(trig[a], trig'[a]) /\ (Active(a)' <=> Active(a))
      BY <1>0, <1>8, <2>1 DEF Frame, Calm, Quiet, TypeOK, Active
    <2>4. Won'
      <3> SUFFICES ASSUME NEW a \in Achievements, "triggered" \in pend'[a]
                   PROVE  trig'[a] = "triggered"
        BY DEF Won
      <3>1. "triggered" \in Changed(trig[a], trig'[a])
        BY <2>3
      <3> QED BY <3>1 DEF Changed
    <2>5. Icons'
      <3> SUFFICES ASSUME NEW a \in Achievements PROVE IconLater(a)' <=> Primed(a)'
        BY DEF Icons
      <3>1. (a \in shown <=> Primed(a)) /\ shown' = shown
        BY <1>0, <1>8, <2>1 DEF Frame, Calm, Quiet, Icons, IconLater
      <3>2. CASE Active(a)
        <4>1. "hide" \in pend'[a] <=> trig[a] = "primed" /\ trig'[a] # "primed"
          BY <2>3, ChangedShows
        <4>2. "show" \in pend'[a] <=> trig[a] # "primed" /\ trig'[a] = "primed"
          BY <2>3, ChangedShows
        <4>3. (Primed(a) <=> trig[a] = "primed") /\ (Primed(a)' <=> trig'[a] = "primed")
          BY <2>1, <2>3, <3>2 DEF Primed
        <4> QED BY <3>1, <4>1, <4>2, <4>3 DEF IconLater
      <3>3. CASE ~Active(a)
        <4>1. trig'[a] = trig[a]
          BY <1>8, <3>3 DEF Frame
        <4> QED BY <2>1, <2>3, <3>1, <3>3, <4>1 DEF IconLater, Primed, Changed
      <3> QED BY <3>2, <3>3
    <2> QED BY <1>0, <2>1, <2>2, <2>4, <2>5 DEF Calm, Quiet
  <1>9. CASE Raise
    BY <1>0, <1>9, RaiseShows DEF Raise, Calm, Quiet
  <1>10. CASE Idle
    <2>1. CASE phase = "ready" /\ game /\ timer = 0 /\ action = "none"
      BY <1>0, <1>10, <2>1 DEF Idle, Calm, Quiet, Won, Icons, IconLater, Primed, Active, PillFollows, PillLater
    <2>2. CASE ~(phase = "ready" /\ game /\ timer = 0 /\ action = "none")
      BY <1>10, <1>a, <2>2 DEF Idle, TypeOK
    <2> QED BY <2>1, <2>2
  <1>11. CASE NoAnswer \/ KnownDisc \/ MediaTell
    BY <1>11, <1>a DEF NoAnswer, KnownDisc, MediaTell
  <1>12. CASE DropHardcore
    <2>1. emu.pc # "raise" /\ emu' = emu
      BY <1>0, <1>12 DEF DropHardcore, Alone
    <2>2. /\ \A a \in Achievements : pend[a] = {} /\ pend'[a] = {}
          /\ action' = "none"
      BY <1>0, <1>12, <2>1 DEF DropHardcore, Calm, Quiet
    <2>3. Icons'
      <3> SUFFICES ASSUME NEW a \in Achievements PROVE IconLater(a)' <=> Primed(a)'
        BY DEF Icons
      <3>1. a \in shown <=> Primed(a)
        BY <1>0, <2>2 DEF Calm, Icons, IconLater
      <3>2. IconLater(a)' <=> a \in shown'
        BY <2>2 DEF IconLater
      <3>3. CASE status[a] = "casual"
        <4>1. status'[a] = "unlocked"
          BY <1>12, <3>3 DEF DropHardcore
        <4>2. a \notin shown'
          BY <1>12, <3>1, <3>3 DEF DropHardcore, Primed
        <4> QED BY <3>2, <4>1, <4>2 DEF Primed, Active
      <3>4. CASE status[a] # "casual"
        <4>1. status'[a] = status[a] /\ trig'[a] = trig[a] /\ (a \in shown' <=> a \in shown) /\ game' = game
          BY <1>12, <3>4 DEF DropHardcore
        <4> QED BY <3>1, <3>2, <4>1 DEF Primed, Active
      <3> QED BY <3>3, <3>4
    <2>4. PillFollows'
      BY <1>0, <1>12 DEF DropHardcore, Calm, PillFollows, PillLater
    <2> QED BY <1>0, <2>1, <2>2, <2>3, <2>4 DEF Calm, Quiet, Won
  <1>13. CASE MediaRaise
    <2>1. CASE game
      BY <1>0, <1>13, <2>1, RaiseShows DEF MediaRaise, Calm, Quiet
    <2>2. CASE ~game
      BY <1>13, <1>a, <2>2 DEF MediaRaise
    <2> QED BY <2>1, <2>2
  <1>14. CASE Elapse
    <2>1. timer' = Off <=> timer = Off
      BY <1>14 DEF Elapse, TypeOK, Off, Hold
    <2> QED BY <1>14, <1>a, <2>1 DEF Elapse
  <1> QED BY <1>2, <1>3, <1>4, <1>5, <1>6, <1>7, <1>8, <1>9, <1>10, <1>11, <1>12, <1>13, <1>14
          DEF Next, Attach, Emulation, Reset, Load, Run, Media

LEMMA CalmHolds == Spec => [](TypeOK /\ (~raced => Calm))
  <1>1. Init => (~raced => Calm)
    BY CalmInit
  <1>2. TypeOK /\ Modes /\ (~raced => Calm) /\ [Next]_vars => (~raced => Calm)'
    BY CalmStep
  <1> QED BY <1>1, <1>2, ModesHold, PTL DEF Spec

\* The icons on screen are those of the primed achievements.
THEOREM IconsRight == Spec => []ShownIsPrimed
  <1>1. TypeOK /\ (~raced => Calm) => ShownIsPrimed
    <2> SUFFICES ASSUME TypeOK, Calm, emu.pc # "raise"
                 PROVE  shown = {a \in Achievements : Primed(a)}
      BY DEF ShownIsPrimed
    <2>1. \A a \in Achievements : a \in shown <=> Primed(a)
      BY DEF Calm, Quiet, Icons, IconLater
    <2> QED BY <2>1 DEF TypeOK
  <1> QED BY <1>1, CalmHolds, PTL

\* The pill is on screen exactly as long as its removal is scheduled.
THEOREM PillHasTimer == Spec => []PillTimed
  <1>1. (~raced => Calm) => PillTimed
    BY DEF PillTimed, Calm, Quiet, PillFollows, PillLater
  <1> QED BY <1>1, CalmHolds, PTL

\* For any set, icons and pill show what the triggers say once events are raised.
THEOREM IndicatorsStayRight == Spec => []IndicatorsRight
  BY IconsRight, PillHasTimer, PTL DEF IndicatorsRight

-----------------------------------------------------------------------------
(* The safe part of PillExpires.  Only new progress in a frame prolongs    *)
(* the pill's time, and the idle turn that finds it over removes the pill. *)
OnlyProgressProlongs ==
    [][timer' > timer => emu.pc = "run" /\ game /\ timer' = Hold]_vars

IdleHidesPill ==
    [][~raced /\ emu.pc = "idle" /\ emu'.pc = "top" /\ timer = 0 => ~pill']_vars

\* A pill that is to be hidden is one rc_client_idle looks at.
TimerAttached == timer # Off => phase = "ready" /\ game

LEMMA AttachedStep ==
    ASSUME TypeOK, ~raced => Calm /\ TimerAttached, [Next]_vars
    PROVE  ~raced' => TimerAttached'
  <1>1. CASE UNCHANGED vars
    BY <1>1 DEF vars, modes, tracker, TimerAttached
  <1> SUFFICES ASSUME Next, ~raced' PROVE TimerAttached'
    BY <1>1
  <1>0. Calm /\ TimerAttached
    BY DEF Next, Watch
  <1>a. ASSUME timer' = Off \/ timer # Off, phase' = phase \/ phase # "ready", game' = game \/ ~game
        PROVE  TimerAttached'
    BY <1>0, <1>a DEF TimerAttached
  <1>2. CASE Attach
    BY <1>2, <1>a DEF Attach, SetClient, GameLoaded, LoadFails, Ready, tracker, TimerAttached
  <1>3. CASE Unload
    <2>1. action = "none"
      BY <1>0, <1>3 DEF Unload, Calm, Quiet
    <2>2. timer' = Off
      BY <1>3, <2>1 DEF Unload, HideTracker, tracker
    <2> QED BY <2>2 DEF TimerAttached
  <1>4. CASE ResetRuntime \/ RestoreProgress
    BY <1>4, <1>a DEF ResetRuntime, RestoreProgress, HideTracker, tracker, modes
  <1>5. CASE Frame
    BY <1>5 DEF Frame, modes, TimerAttached
  <1>6. CASE NoReset \/ ResetCore \/ SkipRuntimeReset \/ Paused \/ NoSwap \/ SwapDisc \/ NoLoad
             \/ LoadState \/ NoProgress \/ SkipFrame \/ BareFrame
    BY <1>0, <1>6 DEF NoReset, ResetCore, SkipRuntimeReset, Paused, NoSwap, SwapDisc, NoLoad, LoadState,
                      NoProgress, SkipFrame, BareFrame, modes, tracker, TimerAttached
  <1>7. CASE Raise \/ Idle \/ Media
    BY <1>0, <1>7 DEF Raise, Idle, Media, NoAnswer, KnownDisc, DropHardcore, MediaRaise, MediaTell,
                      modes, tracker, TimerAttached
  <1>8. CASE Elapse
    BY <1>0, <1>8 DEF Elapse, modes, TimerAttached, Off, TypeOK, Hold
  <1> QED BY <1>2, <1>3, <1>4, <1>5, <1>6, <1>7, <1>8 DEF Next, Emulation, Reset, Load, Run

LEMMA ProlongedBy ==
    ASSUME TypeOK, [Next]_vars, timer' > timer
    PROVE  emu.pc = "run" /\ game /\ timer' = Hold
  <1>0. timer \in {-1, 0, 1, 2}
    BY DEF TypeOK, Off, Hold
  <1>1. timer' # timer /\ timer' # Off
    BY <1>0 DEF Off
  <1>2. CASE Frame
    BY <1>1, <1>2 DEF Frame, tracker, At
  <1>3. CASE Elapse
    BY <1>0, <1>3 DEF Elapse
  <1>4. CASE ResetRuntime \/ Unload \/ RestoreProgress
    BY <1>1, <1>4 DEF ResetRuntime, Unload, RestoreProgress, HideTracker, tracker
  <1>5. CASE Idle
    BY <1>1, <1>5 DEF Idle
  <1>6. CASE timer' = timer
    BY <1>1, <1>6
  <1> QED BY <1>2, <1>3, <1>4, <1>5, <1>6
          DEF Next, Attach, Emulation, Reset, Load, Run, Media, SetClient, GameLoaded, LoadFails, Ready,
              NoReset, ResetCore, SkipRuntimeReset, Paused, NoSwap, SwapDisc, NoLoad, LoadState, NoProgress,
              SkipFrame, BareFrame, Raise, NoAnswer, KnownDisc, DropHardcore, MediaRaise, MediaTell,
              tracker, vars

LEMMA IdleTurn ==
    ASSUME TypeOK, Calm, TimerAttached, [Next]_vars, emu.pc = "idle", emu'.pc = "top", timer = 0
    PROVE  ~pill'
  <1>1. CASE Idle
    <2>1. phase = "ready" /\ game /\ action = "none"
      BY DEF TimerAttached, Off, Calm, Quiet
    <2> QED BY <1>1, <2>1 DEF Idle
  <1>2. CASE emu' = emu
    BY <1>2
  <1>3. CASE Emulation /\ ~Idle
    BY <1>3 DEF Emulation, Reset, Load, Run, NoReset, ResetCore, SkipRuntimeReset, ResetRuntime, Unload, Paused,
                NoSwap, SwapDisc, NoLoad, LoadState, NoProgress, RestoreProgress, SkipFrame, BareFrame,
                Frame, Raise, At
  <1> QED BY <1>1, <1>2, <1>3
          DEF Next, Attach, Media, SetClient, GameLoaded, LoadFails, Ready, NoAnswer, KnownDisc,
              DropHardcore, MediaRaise, MediaTell, Elapse, vars

\* For any set: the time the pill has left never rises but by new progress, and once it is
\* over the next idle turn hides the pill, also of a paused game and after a reset, a load or
\* an unload.
THEOREM PillRunsOut == Spec => OnlyProgressProlongs /\ IdleHidesPill
  <1>1. Init => (~raced => TimerAttached)
    BY DEF Init, TimerAttached
  <1>2. TypeOK /\ (~raced => Calm) /\ (~raced => TimerAttached) /\ [Next]_vars
          => (~raced => TimerAttached)'
    BY AttachedStep
  <1>3. TypeOK /\ [Next]_vars => [timer' > timer => emu.pc = "run" /\ game /\ timer' = Hold]_vars
    BY ProlongedBy
  <1>4. TypeOK /\ (~raced => Calm) /\ (~raced => TimerAttached) /\ [Next]_vars
          => [~raced /\ emu.pc = "idle" /\ emu'.pc = "top" /\ timer = 0 => ~pill']_vars
    BY IdleTurn
  <1> QED BY <1>1, <1>2, <1>3, <1>4, CalmHolds, PTL DEF Spec, OnlyProgressProlongs, IdleHidesPill

=============================================================================
