------------------------------- MODULE FrameLog -------------------------------
(***************************************************************************)
(* What a recorder promises of the frames it is offered, one at a time.    *)
(* It keeps a frame or drops it at once; what it kept it logs in order,    *)
(* each frame once.  When it is told to stop it first keeps no more, then  *)
(* makes the video from its log, which is whole if all that was kept had   *)
(* been logged, and then is not written any more.                          *)
(***************************************************************************)
EXTENDS Naturals, Sequences

VARIABLES
    offered,   \* number of the newest frame; 0 before the first
    hand,      \* the frame about to be kept or dropped, 0 for none
    kept,      \* frames kept and not yet logged
    log,       \* frames logged
    phase      \* "open", "closing", "closed", then "whole" or "part"

Init ==
    /\ offered = 0 /\ hand = 0
    /\ kept = {}
    /\ log = <<>>
    /\ phase = "open"

Offer ==
    /\ phase = "open" /\ hand = 0
    /\ offered' = offered + 1
    /\ hand' = offered + 1
    /\ UNCHANGED <<kept, log, phase>>

Drop ==
    /\ hand # 0 /\ hand' = 0
    /\ UNCHANGED <<offered, kept, log, phase>>

Keep ==
    /\ hand # 0 /\ phase \in {"open", "closing"}
    /\ kept' = kept \cup {hand}
    /\ hand' = 0
    /\ UNCHANGED <<offered, log, phase>>

Record ==
    /\ phase # "whole"
    /\ \E f \in kept :
          /\ \A g \in kept : f <= g
          /\ kept' = kept \ {f}
          /\ log' = Append(log, f)
    /\ UNCHANGED <<offered, hand, phase>>

Close ==
    /\ \/ phase = "open" /\ phase' = "closing"
       \/ phase = "closing" /\ phase' = "closed"
    /\ UNCHANGED <<offered, hand, kept, log>>

MakeVideo ==
    /\ phase = "closed"
    /\ \/ kept = {} /\ phase' = "whole"
       \/ phase' = "part"
    /\ UNCHANGED <<offered, hand, kept, log>>

vars == <<offered, hand, kept, log, phase>>
Next == Offer \/ Drop \/ Keep \/ Record \/ Close \/ MakeVideo
Spec == Init /\ [][Next]_vars
=============================================================================
