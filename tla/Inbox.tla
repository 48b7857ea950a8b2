-------------------------------- MODULE Inbox --------------------------------
(***************************************************************************)
(* What a serial link promises its application: received frames wait in    *)
(* the order of their arrival, at most Capacity of them, and each is       *)
(* looked at once.  Of those only the Valid ones reach the application.    *)
(***************************************************************************)
EXTENDS Naturals, Sequences

CONSTANTS Frames, Valid, Empty, Capacity

VARIABLES
  inbox,  \* frames not yet looked at
  last    \* the last frame the application was called with, Empty before

Init == inbox = <<>> /\ last = Empty

Receive ==
  /\ Len(inbox) < Capacity
  /\ \E frame \in Frames : inbox' = Append(inbox, frame)
  /\ UNCHANGED last

Deliver ==
  /\ inbox # <<>>
  /\ inbox' = Tail(inbox)
  /\ last' = IF Head(inbox) \in Valid THEN Head(inbox) ELSE last

Spec == Init /\ [][Receive \/ Deliver]_<<inbox, last>>
=============================================================================
