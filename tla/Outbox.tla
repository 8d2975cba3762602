-------------------------------- MODULE Outbox --------------------------------
(***************************************************************************)
(* What an outbox promises about the submissions handed to it: each is     *)
(* taken once, waits until the server settled it, and is settled once;     *)
(* nothing that waits gets lost while the outbox is open.                  *)
(***************************************************************************)

CONSTANT Items

VARIABLES
    waiting,   \* handed in and not yet settled
    settled,   \* answered by the server for good
    closed     \* the outbox is gone, with whatever still waits in it

Init ==
    /\ waiting = {}
    /\ settled = {}
    /\ closed = FALSE

HandIn(i) ==
    /\ ~closed /\ i \notin waiting \cup settled
    /\ waiting' = waiting \cup {i}
    /\ UNCHANGED <<settled, closed>>

Settle(i) ==
    /\ ~closed /\ i \in waiting
    /\ waiting' = waiting \ {i}
    /\ settled' = settled \cup {i}
    /\ UNCHANGED closed

Close ==
    /\ closed' = TRUE
    /\ UNCHANGED <<waiting, settled>>

Next == \/ \E i \in Items : HandIn(i) \/ Settle(i)
        \/ Close

vars == <<waiting, settled, closed>>
Spec == Init /\ [][Next]_vars

Settles == \A i \in Items : (i \in waiting) ~> (i \in settled \/ closed)
=============================================================================
