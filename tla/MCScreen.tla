------------------------------- MODULE MCScreen -------------------------------
(***************************************************************************)
(* Two levels for TLC: below 24.6 V, and above.  ScreenProofs has all.     *)
(***************************************************************************)
EXTENDS Screen

MCSteps == <<24600>>
=============================================================================
