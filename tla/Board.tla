-------------------------------- MODULE Board --------------------------------
(***************************************************************************)
(* What the bootloader promises: a board has one firmware at a time, the   *)
(* one its next undisturbed start will run.  An update replaces it in one  *)
(* step, by a firmware that is meant for this board and passed its check;  *)
(* a start runs exactly it; nothing else, no power loss and no aborted     *)
(* transfer, touches it.                                                   *)
(***************************************************************************)
CONSTANTS
  Legal,     \* the firmware that may be installed
  Delivered, \* what a board may be delivered with: firmware, or None
  None

VARIABLES
  firmware,  \* what the next start will run
  running    \* what runs now; None is the bootloader

Init == firmware \in Delivered /\ running = None

Update ==
  /\ running = None
  /\ firmware' \in Legal
  /\ UNCHANGED running

Start ==
  /\ running = None
  /\ firmware # None /\ running' = firmware
  /\ UNCHANGED firmware

Stop ==
  /\ running # None /\ running' = None
  /\ UNCHANGED firmware

Spec == Init /\ [][Update \/ Start \/ Stop]_<<firmware, running>>
=============================================================================
