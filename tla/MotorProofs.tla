----------------------------- MODULE MotorProofs ------------------------------
(***************************************************************************)
(* Theorems about the Motor thread, for every speed and every light wave.  *)
(***************************************************************************)
EXTENDS Motor, TLAPS

(***************************************************************************)
(* What holds at each statement of a turn.                                 *)
(***************************************************************************)
Resting == {"SUCTION", "BRUSH", "ALL", "HAND", "VALVE"}

\* Where valve, light, timer and brush agree.
WetInv ==
  /\ motor \in {"LIGHT", "STEADY"} => valve /\ BrushOn
  /\ motor = "STEADY" => ~RGB_timer
  /\ motor \in Resting \cup {"RAMP", "RAMP_SUCTION"} =>
       (valve => light = "STEADY" /\ ~RGB_timer)
  /\ motor = "RAMP" => (valve => BrushOn)
  /\ motor \in Resting \cup {"RAMP_SUCTION"} => (valve => speed["Brush"] > 0)

\* The copies made in this turn are of flags that were set during it.
Fresh ==
  CASE motor = "SUCTION" -> {}
    [] motor = "BRUSH" -> {"Suction"}
    [] motor = "ALL" -> {"Suction", "Brush"}
    [] motor = "HAND" -> {"Suction", "Brush", "All"}
    [] OTHER -> {"Suction", "Brush", "All", "Hand"}
CopyInv ==
  /\ motor # "SUCTION" => flags \subseteq offered
  /\ seen \cap Fresh \subseteq offered

IInv == TypeOK /\ WetInv /\ CopyInv

LEMMA SettingsFlags ==
  \A set \in Settings : set \subseteq {"Suction", "Brush", "All", "Hand"}
  BY DEF Settings

LEMMA InitInv == Init => IInv
<1> SUFFICES ASSUME Init PROVE IInv
  OBVIOUS
<1>1. {} \in Settings
  <2>1. {} = {} \cup {}
    OBVIOUS
  <2> QED
    BY <2>1 DEF Settings
<1>2. TypeOK
  <2>1. 0 \in 0 .. Target /\ 0 \in 0 .. LastWave - 1
    BY MotorAssumption
  <2>2. speed \in [Motors -> 0 .. Target]
    BY <2>1 DEF Init
  <2> QED
    BY <1>1, <2>1, <2>2 DEF Init, TypeOK
<1>3. WetInv /\ CopyInv
  BY DEF Init, WetInv, CopyInv, Fresh, Resting
<1> QED
  BY <1>2, <1>3 DEF IInv

-----------------------------------------------------------------------------
LEMMA TypeStep == IInv /\ [Next]_vars => TypeOK'
<1> SUFFICES ASSUME IInv, [Next]_vars PROVE TypeOK'
  OBVIOUS
<1> USE DEF IInv
<1>1. CASE KeyTurn
  BY <1>1, SettingsFlags DEF KeyTurn, output, TypeOK
<1>2. CASE RGB_timer_timeout
  BY <1>2, MotorAssumption DEF RGB_timer_timeout, NextWave, TypeOK
<1>3. CASE ReadFlags
  <2>1. seen' \subseteq {"Suction", "Brush", "All", "Hand"}
    BY <1>3 DEF ReadFlags, Read, TypeOK
  <2>2. offered' \subseteq {"Suction", "Brush", "All", "Hand"}
    BY <1>3, SettingsFlags DEF ReadFlags, Read, TypeOK
  <2> QED
    BY <1>3, <2>1, <2>2 DEF ReadFlags, Read, output, TypeOK
<1>4. CASE SetValve
  BY <1>4 DEF SetValve, TypeOK
<1>5. CASE SteadyLight
  BY <1>5 DEF SteadyLight, TypeOK
<1>6. ASSUME NEW m \in Motors, NEW on \in BOOLEAN, Ramp(m, on)
      PROVE  speed' \in [Motors -> 0 .. Target]
  BY <1>6, MotorAssumption DEF Ramp, SpeedUp, SlowDown, TypeOK
<1>7. CASE BrushSpeed
  BY <1>7, <1>6 DEF BrushSpeed, BrushOn, Motors, TypeOK
<1>8. CASE SuctionSpeed
  BY <1>8, <1>6 DEF SuctionSpeed, SuctionOn, Motors, TypeOK
<1>9. CASE UNCHANGED vars
  BY <1>9 DEF vars, output, TypeOK
<1> QED
  BY <1>1, <1>2, <1>3, <1>4, <1>5, <1>7, <1>8, <1>9 DEF Next, MotorStep

LEMMA WetStep == IInv /\ [Next]_vars => WetInv'
<1> SUFFICES ASSUME IInv, [Next]_vars PROVE WetInv'
  OBVIOUS
<1> USE DEF IInv
<1>1. CASE KeyTurn
  BY <1>1 DEF KeyTurn, output, WetInv, BrushOn
\* The timer runs only where the light is not yet steady, or the valve shut.
<1>2. CASE RGB_timer_timeout
  BY <1>2 DEF RGB_timer_timeout, WetInv, BrushOn, TypeOK, Resting
<1>3. CASE ReadFlags
  BY <1>3 DEF ReadFlags, Read, output, WetInv, Resting
<1>4. CASE SetValve
  BY <1>4 DEF SetValve, WetInv, BrushOn, Resting
<1>5. CASE SteadyLight
  BY <1>5 DEF SteadyLight, WetInv, BrushOn, Resting
<1>6. CASE BrushSpeed
  <2>1. BrushOn => speed'["Brush"] > 0
    BY <1>6, MotorAssumption
    DEF BrushSpeed, Ramp, SpeedUp, Motors, TypeOK
  <2> QED
    BY <1>6, <2>1 DEF BrushSpeed, WetInv, BrushOn, Resting
<1>7. CASE SuctionSpeed
  <2>1. speed'["Brush"] = speed["Brush"]
    BY <1>7 DEF SuctionSpeed, Ramp, Motors, TypeOK
  <2> QED
    BY <1>7, <2>1 DEF SuctionSpeed, WetInv, BrushOn, Resting
<1>8. CASE UNCHANGED vars
  BY <1>8 DEF vars, output, WetInv, BrushOn
<1> QED
  BY <1>1, <1>2, <1>3, <1>4, <1>5, <1>6, <1>7, <1>8 DEF Next, MotorStep

LEMMA CopyStep == IInv /\ [Next]_vars => CopyInv'
<1> SUFFICES ASSUME IInv, [Next]_vars PROVE CopyInv'
  OBVIOUS
<1> USE DEF IInv
<1>1. CASE KeyTurn
  BY <1>1 DEF KeyTurn, CopyInv, Fresh
<1>2. CASE RGB_timer_timeout
  BY <1>2 DEF RGB_timer_timeout, CopyInv, Fresh
<1>3. CASE Read("SUCTION", "Suction", "BRUSH")
  BY <1>3 DEF Read, CopyInv, Fresh
<1>4. CASE Read("BRUSH", "Brush", "ALL")
  BY <1>4 DEF Read, CopyInv, Fresh
<1>5. CASE Read("ALL", "All", "HAND")
  BY <1>5 DEF Read, CopyInv, Fresh
<1>6. CASE Read("HAND", "Hand", "VALVE")
  BY <1>6 DEF Read, CopyInv, Fresh
<1>7. CASE SetValve
  BY <1>7 DEF SetValve, CopyInv, Fresh
<1>8. CASE SteadyLight
  BY <1>8 DEF SteadyLight, CopyInv, Fresh
<1>9. CASE BrushSpeed
  BY <1>9 DEF BrushSpeed, CopyInv, Fresh
<1>10. CASE SuctionSpeed
  BY <1>10 DEF SuctionSpeed, CopyInv, Fresh
<1>11. CASE UNCHANGED vars
  BY <1>11 DEF vars, CopyInv, Fresh
<1> QED
  BY <1>1, <1>2, <1>3, <1>4, <1>5, <1>6, <1>7, <1>8, <1>9, <1>10, <1>11
  DEF Next, MotorStep, ReadFlags

LEMMA Invariance == Spec => []IInv
<1>1. IInv /\ [Next]_vars => IInv'
  BY TypeStep, WetStep, CopyStep DEF IInv
<1> QED
  BY InitInv, <1>1, PTL DEF Spec

-----------------------------------------------------------------------------
\* Types of the motor model: speeds stay in range and the light wave is never
\* read past its table.
THEOREM MotorTypeCorrect == Spec => []TypeOK
  BY Invariance, PTL DEF IInv

\* Between two turns of Motor the valve is open only over a turning brush with
\* the light steady, whatever Key and the light timer do in between.
THEOREM MotorWetOnlyTurning == Spec => []WetOnlyTurning
<1>1. IInv => WetOnlyTurning
  BY DEF IInv, WetInv, WetOnlyTurning, Resting
<1> QED
  BY Invariance, <1>1, PTL

\* A motor speeds up only in a turn in which Key has set a mode with it, and the
\* brush only with the handle held: torn reads of the flags start no motor that
\* was never asked for.
THEOREM MotorSpeedsUpAsWanted == Spec => SpeedsUpAsWanted
<1> DEFINE
      UpAsWanted ==
        /\ \A m \in Motors :
             speed'[m] > speed[m] => offered \cap {m, "All"} # {}
        /\ speed'["Brush"] > speed["Brush"] => "Hand" \in offered
<1>1. IInv /\ [Next]_vars => [UpAsWanted]_vars
  <2> SUFFICES ASSUME IInv, Next PROVE UpAsWanted
    OBVIOUS
  <2> USE DEF IInv
  <2>1. CASE BrushSpeed
    <3>1. speed'["Suction"] = speed["Suction"]
      BY <2>1 DEF BrushSpeed, Ramp, Motors, TypeOK
    <3>2. speed'["Brush"] > speed["Brush"] => BrushOn
      BY <2>1, MotorAssumption DEF BrushSpeed, Ramp, SlowDown, Motors, TypeOK
    <3>3. BrushOn => offered \cap {"Brush", "All"} # {} /\ "Hand" \in offered
      BY <2>1 DEF BrushSpeed, BrushOn, CopyInv, Fresh
    <3> QED
      BY <3>1, <3>2, <3>3 DEF Motors, TypeOK
  <2>2. CASE SuctionSpeed
    <3>1. speed'["Brush"] = speed["Brush"]
      BY <2>2 DEF SuctionSpeed, Ramp, Motors, TypeOK
    <3>2. speed'["Suction"] > speed["Suction"] => SuctionOn
      BY <2>2, MotorAssumption DEF SuctionSpeed, Ramp, SlowDown, Motors, TypeOK
    <3>3. SuctionOn => offered \cap {"Suction", "All"} # {}
      BY <2>2 DEF SuctionSpeed, SuctionOn, CopyInv, Fresh
    <3> QED
      BY <3>1, <3>2, <3>3 DEF Motors, TypeOK
  <2>3. ASSUME speed' = speed PROVE UpAsWanted
    BY <2>3 DEF Motors, TypeOK
  <2>4. ~BrushSpeed /\ ~SuctionSpeed => speed' = speed
    BY DEF Next, MotorStep, KeyTurn, RGB_timer_timeout, ReadFlags, Read,
           SetValve, SteadyLight, output
  <2> QED
    BY <2>1, <2>2, <2>3, <2>4
<1>2. Spec => [][Next]_vars
  BY DEF Spec
<1> QED
  BY Invariance, <1>1, <1>2, PTL DEF SpeedsUpAsWanted

-----------------------------------------------------------------------------
(***************************************************************************)
(* Following the flags.  While they stay the same, the copies of a turn    *)
(* come to agree with them and stay so; from then on each turn brings both *)
(* motors nearer to their speeds, and none moves away again.               *)
(***************************************************************************)
Agrees == \A flag \in Fresh : flag \in seen <=> flag \in flags
Wanted(m) ==
  IF m = "Brush" THEN IF BrushOn THEN Target ELSE 0
  ELSE IF SuctionOn THEN Target ELSE 0
Apart(m) ==
  IF speed[m] < Wanted(m) THEN Wanted(m) - speed[m] ELSE speed[m] - Wanted(m)

Follows ==
  /\ Agrees => Agrees'
  /\ seen = flags =>
       /\ seen' = flags
       /\ motor = "VALVE" /\ MotorStep => (valve' <=> BrushOn)
       /\ \A m \in Motors : Apart(m)' \in 0 .. Apart(m)
       /\ motor = "RAMP" /\ MotorStep =>
            Apart("Brush")' = 0 \/ Apart("Brush")' < Apart("Brush")
       /\ motor = "RAMP_SUCTION" /\ MotorStep =>
            Apart("Suction")' = 0 \/ Apart("Suction")' < Apart("Suction")
       /\ Settled(flags) => Settled(flags)'
MotorGetsOn ==
  [][/\ motor = "SUCTION" => Agrees
     /\ motor = "VALVE" /\ Agrees => seen = flags
     /\ flags' = flags => Follows]_vars

LEMMA Nearer ==
  ASSUME NEW v \in 0 .. Target
  PROVE  /\ SpeedUp(v) \in 0 .. Target /\ SlowDown(v) \in 0 .. Target
         /\ SpeedUp(v) >= v /\ (v < Target => SpeedUp(v) > v)
         /\ SlowDown(v) <= v /\ (v > 0 => SlowDown(v) < v)
  BY MotorAssumption DEF SpeedUp, SlowDown

\* The core of MotorsFollow, for every speed: the turns of Motor converge on
\* what the flags of Key mean, and stay there as long as the flags do.
THEOREM MotorFollowsFlags == Spec => MotorGetsOn
<1> DEFINE On ==
      /\ motor = "SUCTION" => Agrees
      /\ motor = "VALVE" /\ Agrees => seen = flags
      /\ flags' = flags => Follows
<1>1. IInv /\ [Next]_vars => [On]_vars
  <2> SUFFICES ASSUME IInv, Next PROVE On
    OBVIOUS
  <2> USE DEF IInv
  <2>1. motor = "SUCTION" => Agrees
    BY DEF Agrees, Fresh
  <2>2. ASSUME motor = "VALVE", Agrees PROVE seen = flags
    <3>1. seen \subseteq {"Suction", "Brush", "All", "Hand"}
      BY DEF TypeOK
    <3>2. flags \subseteq {"Suction", "Brush", "All", "Hand"}
      BY SettingsFlags DEF TypeOK
    <3>3. Fresh = {"Suction", "Brush", "All", "Hand"}
      BY <2>2 DEF Fresh
    <3> QED
      BY <2>2, <3>1, <3>2, <3>3 DEF Agrees
  <2>3. ASSUME flags' = flags PROVE Follows
    <3>1. Agrees => Agrees'
      <4>1. CASE ReadFlags
        BY <2>3, <4>1 DEF ReadFlags, Read, Agrees, Fresh
      <4>2. CASE SetValve \/ SteadyLight \/ BrushSpeed \/ SuctionSpeed \/ RGB_timer_timeout
        BY <2>3, <4>2
        DEF SetValve, SteadyLight, BrushSpeed, SuctionSpeed,
            RGB_timer_timeout, Agrees, Fresh
      <4> QED
        BY <2>3, <4>1, <4>2 DEF Next, MotorStep, KeyTurn
    <3>2. ASSUME seen = flags
          PROVE  /\ seen' = flags
                 /\ motor = "VALVE" /\ MotorStep => (valve' <=> BrushOn)
                 /\ \A m \in Motors : Apart(m)' \in 0 .. Apart(m)
                 /\ motor = "RAMP" /\ MotorStep =>
                      Apart("Brush")' = 0 \/ Apart("Brush")' < Apart("Brush")
                 /\ motor = "RAMP_SUCTION" /\ MotorStep =>
                      Apart("Suction")' = 0 \/ Apart("Suction")' < Apart("Suction")
                 /\ Settled(flags) => Settled(flags)'
      <4>1. seen' = flags
        BY <2>3, <3>2
        DEF Next, MotorStep, KeyTurn, RGB_timer_timeout, ReadFlags, Read,
            SetValve, SteadyLight, BrushSpeed, SuctionSpeed
      <4>2. \A m \in Motors : Wanted(m)' = Wanted(m) /\ Wanted(m) \in {0, Target}
        BY <3>2, <4>1 DEF Wanted, BrushOn, SuctionOn
      <4>3. \A m \in Motors : speed[m] \in 0 .. Target /\ Apart(m) \in Nat
        BY <4>2, MotorAssumption DEF TypeOK, Apart
      <4>4. ASSUME speed' = speed
            PROVE  \A m \in Motors : Apart(m)' = Apart(m)
        BY <4>2, <4>4 DEF Apart
      <4>5. ASSUME NEW m \in Motors, NEW on \in BOOLEAN, Ramp(m, on),
                   Wanted(m) = IF on THEN Target ELSE 0
            PROVE  /\ Apart(m)' \in 0 .. Apart(m)
                   /\ Apart(m)' = 0 \/ Apart(m)' < Apart(m)
                   /\ \A o \in Motors \ {m} : Apart(o)' = Apart(o) /\ speed'[o] = speed[o]
                   /\ speed[m] = Wanted(m) => speed'[m] = speed[m]
        <5>1. /\ speed'[m] = IF on THEN SpeedUp(speed[m]) ELSE SlowDown(speed[m])
              /\ \A o \in Motors \ {m} : speed'[o] = speed[o]
          BY <4>5 DEF Ramp, TypeOK
        <5>2. /\ speed'[m] \in 0 .. Target
              /\ on => speed'[m] >= speed[m] /\ (speed[m] < Target => speed'[m] > speed[m])
              /\ ~on => speed'[m] <= speed[m] /\ (speed[m] > 0 => speed'[m] < speed[m])
          BY <4>3, <5>1, Nearer
        <5>3. Wanted(m)' = IF on THEN Target ELSE 0
          BY <4>2, <4>5
        <5> QED
          BY <4>2, <4>3, <4>5, <5>1, <5>2, <5>3, MotorAssumption DEF Apart
      <4>6. motor = "VALVE" /\ MotorStep => (valve' <=> BrushOn)
        BY DEF MotorStep, ReadFlags, Read, SetValve, SteadyLight, BrushSpeed,
               SuctionSpeed
      <4>7. CASE BrushSpeed
        <5>1. Ramp("Brush", BrushOn) /\ motor = "RAMP" /\ valve' = valve
          BY <4>7 DEF BrushSpeed
        <5>2. Wanted("Brush") = IF BrushOn THEN Target ELSE 0
          BY DEF Wanted
        <5>3. BrushOn \in BOOLEAN /\ "Brush" \in Motors /\ "Suction" \in Motors \ {"Brush"}
          BY DEF BrushOn, Motors
        <5>4. /\ Apart("Brush")' \in 0 .. Apart("Brush")
              /\ Apart("Brush")' = 0 \/ Apart("Brush")' < Apart("Brush")
              /\ Apart("Suction")' = Apart("Suction")
              /\ speed'["Suction"] = speed["Suction"]
              /\ speed["Brush"] = Wanted("Brush") => speed'["Brush"] = speed["Brush"]
          BY <4>5, <5>1, <5>2, <5>3
        <5>5. Settled(flags) => Settled(flags)'
          BY <2>3, <3>2, <5>1, <5>2, <5>4 DEF Settled, BrushOn
        <5> QED
          BY <4>1, <4>3, <4>6, <5>1, <5>3, <5>4, <5>5 DEF Motors
      <4>8. CASE SuctionSpeed
        <5>1. Ramp("Suction", SuctionOn) /\ motor = "RAMP_SUCTION" /\ valve' = valve
          BY <4>8 DEF SuctionSpeed
        <5>2. Wanted("Suction") = IF SuctionOn THEN Target ELSE 0
          BY DEF Wanted
        <5>3. SuctionOn \in BOOLEAN /\ "Suction" \in Motors /\ "Brush" \in Motors \ {"Suction"}
          BY DEF SuctionOn, Motors
        <5>4. /\ Apart("Suction")' \in 0 .. Apart("Suction")
              /\ Apart("Suction")' = 0 \/ Apart("Suction")' < Apart("Suction")
              /\ Apart("Brush")' = Apart("Brush")
              /\ speed'["Brush"] = speed["Brush"]
              /\ speed["Suction"] = Wanted("Suction") => speed'["Suction"] = speed["Suction"]
          BY <4>5, <5>1, <5>2, <5>3
        <5>5. Settled(flags) => Settled(flags)'
          BY <2>3, <3>2, <5>1, <5>2, <5>4 DEF Settled, SuctionOn
        <5> QED
          BY <4>1, <4>3, <4>6, <5>1, <5>3, <5>4, <5>5 DEF Motors
      <4>9. CASE ~BrushSpeed /\ ~SuctionSpeed
        <5>1. speed' = speed
          BY <4>9
          DEF Next, MotorStep, KeyTurn, RGB_timer_timeout, ReadFlags, Read,
              SetValve, SteadyLight, output
        <5>2. motor \in {"RAMP", "RAMP_SUCTION"} => ~MotorStep
          BY <4>9 DEF MotorStep, ReadFlags, Read, SetValve, SteadyLight
        <5>3. motor # "VALVE" => valve' = valve
          BY <4>9
          DEF Next, MotorStep, KeyTurn, RGB_timer_timeout, ReadFlags, Read,
              SetValve, SteadyLight, output
        <5>4. Settled(flags) => Settled(flags)'
          <6>1. CASE motor = "VALVE" /\ SetValve
            BY <2>3, <3>2, <5>1, <6>1 DEF SetValve, Settled, BrushOn
          <6>2. CASE motor = "VALVE" /\ ~SetValve
            <7>1. valve' = valve
              BY <4>9, <6>2
              DEF Next, MotorStep, KeyTurn, RGB_timer_timeout, ReadFlags,
                  Read, SteadyLight, output
            <7> QED
              BY <2>3, <5>1, <7>1 DEF Settled
          <6>3. CASE motor # "VALVE"
            BY <2>3, <5>1, <5>3, <6>3 DEF Settled
          <6> QED
            BY <6>1, <6>2, <6>3
        <5> QED
          BY <4>1, <4>3, <4>4, <4>6, <5>1, <5>2, <5>4
      <4> QED
        BY <4>7, <4>8, <4>9
    <3> QED
      BY <3>1, <3>2 DEF Follows
  <2> QED
    BY <2>1, <2>2, <2>3
<1>2. Spec => [][Next]_vars
  BY DEF Spec
<1> QED
  BY Invariance, <1>1, <1>2, PTL DEF MotorGetsOn
=============================================================================
