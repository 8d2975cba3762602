------------------------------ MODULE LatestFrame ------------------------------
(***************************************************************************)
(* What a frame hand-off between an emulator and its window promises.      *)
(* Frames are numbered as they are made; the window looks whenever it is   *)
(* ready and then shows the newest frame there is.  It may skip frames and *)
(* show one many times, but it never goes back, and it never shows a frame *)
(* that was not yet made.                                                  *)
(***************************************************************************)
EXTENDS Naturals

VARIABLES
    made,   \* number of the newest frame handed over; 0 before the first
    seen    \* number of the frame the window shows; 0 before the first

Init ==
    /\ made = 0
    /\ seen = 0

Make ==
    /\ made' = made + 1
    /\ seen' = seen

Show ==
    /\ seen' = made
    /\ made' = made

Spec == Init /\ [][Make \/ Show]_<<made, seen>>
=============================================================================
