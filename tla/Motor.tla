-------------------------------- MODULE Motor ---------------------------------
(***************************************************************************)
(* The Motor thread (app_motor.c): the ramps of both motors, the water     *)
(* valve and the light, driven by the key flags.  Key (priority 4) and the *)
(* software timers (4) run between any two statements of Motor (5), so the *)
(* flags of one turn need not belong together.  The flag of the off        *)
(* position is read and never used; it is left out.                        *)
(***************************************************************************)
EXTENDS Naturals

CONSTANTS
  Target,   \* speed of a motor in operation
  LastWave  \* last index of the light wave, which is never shown

ASSUME MotorAssumption == Target \in Nat \ {0} /\ LastWave \in Nat \ {0}

Motors == {"Brush", "Suction"}

\* What Key makes of the knob; the handle is independent of it.
Settings ==
  {mode \cup hand : mode \in {{}, {"All"}, {"Brush"}, {"Suction"}},
                   hand \in {{}, {"Hand"}}}

VARIABLES
  flags,         \* the flags of Key that are set
  motor,         \* the statement Motor has come to
  seen,          \* its copies of the flags
  speed, valve,
  RGB_timer,     \* running?
  light,         \* dark, changed by the timer, or steady
  num,           \* place in the wave
  offered        \* the flags that were set at some time of this turn

output == <<speed, valve, RGB_timer, light>>
vars == <<flags, motor, seen, output, num, offered>>

Init ==
  /\ flags = {}
  /\ motor = "SUCTION" /\ seen = {}
  /\ speed = [m \in Motors |-> 0]
  /\ valve = FALSE /\ RGB_timer = FALSE /\ light = "DARK" /\ num = 0
  /\ offered = {}

-----------------------------------------------------------------------------
(* The threads above.                                                      *)

KeyTurn ==
  /\ flags' \in Settings \ {flags}
  /\ offered' = offered \cup flags'
  /\ UNCHANGED <<motor, seen, output, num>>

NextWave == IF num + 1 = LastWave THEN 0 ELSE num + 1

RGB_timer_timeout ==
  /\ RGB_timer
  /\ light' = "WAVE"
  /\ num' = NextWave
  /\ UNCHANGED <<flags, motor, seen, speed, valve, RGB_timer, offered>>

-----------------------------------------------------------------------------
(* A turn of Motor.                                                        *)

Read(statement, flag, next) ==
  /\ motor = statement
  /\ seen' = (seen \ {flag}) \cup (flags \cap {flag})
  /\ motor' = next
  /\ offered' = IF motor = "SUCTION" THEN flags ELSE offered
  /\ UNCHANGED <<flags, output, num>>

ReadFlags ==
  \/ Read("SUCTION", "Suction", "BRUSH")
  \/ Read("BRUSH", "Brush", "ALL")
  \/ Read("ALL", "All", "HAND")
  \/ Read("HAND", "Hand", "VALVE")

\* Variant for mutation: the handle alone starts the brush.
BrushByHand == "Hand" \in seen

BrushOn == "Hand" \in seen /\ seen \cap {"Brush", "All"} # {}

SuctionOn == seen \cap {"Suction", "All"} # {}

SetValve ==
  /\ motor = "VALVE"
  /\ IF BrushOn
     THEN valve' = TRUE /\ motor' = "LIGHT" /\ UNCHANGED RGB_timer
     ELSE RGB_timer' = TRUE /\ valve' = FALSE /\ motor' = "RAMP"
  /\ UNCHANGED <<flags, seen, speed, light, num, offered>>

\* Variant for mutation: the light is set before the timer is stopped.
SteadyLightFirst ==
  /\ \/ motor = "LIGHT" /\ light' = "STEADY" /\ motor' = "STEADY"
        /\ UNCHANGED RGB_timer
     \/ motor = "STEADY" /\ RGB_timer' = FALSE /\ motor' = "RAMP"
        /\ UNCHANGED light
  /\ UNCHANGED <<flags, seen, speed, valve, num, offered>>

SteadyLight ==
  /\ \/ motor = "LIGHT" /\ RGB_timer' = FALSE /\ motor' = "STEADY"
        /\ UNCHANGED light
     \/ motor = "STEADY" /\ light' = "STEADY" /\ motor' = "RAMP"
        /\ UNCHANGED RGB_timer
  /\ UNCHANGED <<flags, seen, speed, valve, num, offered>>

\* Variant for mutation: the ramp of the work speed starts again at its end.
SpeedUpAgain(v) == (v + 1) % (Target + 1)

SpeedUp(v) == IF v < Target THEN v + 1 ELSE v

SlowDown(v) == IF v > 0 THEN v - 1 ELSE v

Ramp(m, on) ==
  speed' = [speed EXCEPT ![m] = IF on THEN SpeedUp(@) ELSE SlowDown(@)]

BrushSpeed ==
  /\ motor = "RAMP"
  /\ Ramp("Brush", BrushOn)
  /\ motor' = "RAMP_SUCTION"
  /\ UNCHANGED <<flags, seen, valve, RGB_timer, light, num, offered>>

\* The thread sleeps; the next turn begins with the first read.
SuctionSpeed ==
  /\ motor = "RAMP_SUCTION"
  /\ Ramp("Suction", SuctionOn)
  /\ motor' = "SUCTION"
  /\ UNCHANGED <<flags, seen, valve, RGB_timer, light, num, offered>>

MotorStep == ReadFlags \/ SetValve \/ SteadyLight \/ BrushSpeed \/ SuctionSpeed

Next == KeyTurn \/ RGB_timer_timeout \/ MotorStep

Spec == Init /\ [][Next]_vars

\* Key and the timers sleep between their turns, so Motor gets on.
FairSpec == Spec /\ WF_vars(MotorStep)

-----------------------------------------------------------------------------
(* Properties.                                                             *)

TypeOK ==
  /\ flags \in Settings
  /\ motor \in {"SUCTION", "BRUSH", "ALL", "HAND", "VALVE", "LIGHT", "STEADY",
                "RAMP", "RAMP_SUCTION"}
  /\ seen \subseteq {"Suction", "Brush", "All", "Hand"}
  /\ speed \in [Motors -> 0 .. Target]
  /\ valve \in BOOLEAN /\ RGB_timer \in BOOLEAN
  /\ light \in {"DARK", "WAVE", "STEADY"}
  /\ num \in 0 .. LastWave - 1
  /\ offered \subseteq {"Suction", "Brush", "All", "Hand"}

\* Between two turns the valve is open only while the brush turns and the light
\* is steady, and no timer is left that would change the light.
WetOnlyTurning ==
  motor = "SUCTION" /\ valve =>
    speed["Brush"] > 0 /\ light = "STEADY" /\ ~RGB_timer

\* A motor speeds up only in a turn in which Key has set a mode with this
\* motor, and the brush only if the handle was held at some time of it,
\* however the flags change while they are read.
SpeedsUpAsWanted ==
  [][/\ \A m \in Motors : speed'[m] > speed[m] => offered \cap {m, "All"} # {}
     /\ speed'["Brush"] > speed["Brush"] => "Hand" \in offered]_vars

\* Under flags that no longer change both motors reach the speeds that these
\* mean, the valve with them, and stay there.
Settled(set) ==
  LET brush == "Hand" \in set /\ set \cap {"Brush", "All"} # {}
      suction == set \cap {"Suction", "All"} # {}
  IN  /\ speed["Brush"] = IF brush THEN Target ELSE 0
      /\ speed["Suction"] = IF suction THEN Target ELSE 0
      /\ valve <=> brush
MotorsFollow ==
  \A set \in Settings : <>[](flags = set) => <>[]Settled(set)
=============================================================================
