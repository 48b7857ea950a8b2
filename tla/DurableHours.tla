----------------------------- MODULE DurableHours -----------------------------
(***************************************************************************)
(* What the parameter store promises: the working hours (an hour and a     *)
(* minute count) and one durable copy of them.  A save replaces the copy   *)
(* by what the clock shows, a load puts it back, and nothing else touches  *)
(* it.  The clock runs in another thread, so a save may miss one carry of  *)
(* the minutes into the hours, and a load may be followed by one.  Only a  *)
(* save that is cut off by the supply may leave anything behind; the next  *)
(* one makes up for it.                                                    *)
(***************************************************************************)
EXTENDS Integers

CONSTANTS
  MinPerHour,     \* minutes of an hour
  HoursLimit,     \* the hour counter starts again at this value
  None            \* nothing has been saved yet

VARIABLES
  work,           \* <<hours, minutes>> of the running machine
  durable,        \* what a restart will find
  saving          \* the copy is being replaced

\* One hour, and one minute, later.
HourAfter(t) == <<(t[1] + 1) % HoursLimit, t[2]>>
MinuteAfter(t) ==
  IF t[2] + 1 \in 1 .. MinPerHour - 1 THEN <<t[1], t[2] + 1>>
  ELSE <<HourAfter(t)[1], 0>>

Init == work = <<0, 0>> /\ durable = None /\ saving = FALSE

Tick == work' = MinuteAfter(work) /\ UNCHANGED <<durable, saving>>

Save ==
  /\ ~saving /\ saving'
  /\ durable' # None
  /\ durable' = work \/ HourAfter(durable') = work
  /\ UNCHANGED work

Saved == saving /\ ~saving' /\ UNCHANGED <<work, durable>>

Load ==
  /\ ~saving
  /\ durable # None /\ work' = durable
  /\ UNCHANGED <<durable, saving>>

CarryAfterLoad == work' = HourAfter(work) /\ UNCHANGED <<durable, saving>>

Restart == work' = <<0, 0>> /\ ~saving /\ UNCHANGED <<durable, saving>>

CutOff == work' = <<0, 0>> /\ saving /\ ~saving'

Next == Tick \/ Save \/ Saved \/ Load \/ CarryAfterLoad \/ Restart \/ CutOff

Spec == Init /\ [][Next]_<<work, durable, saving>>
=============================================================================
