----------------------------- MODULE ScreenProofs -----------------------------
(***************************************************************************)
(* Theorems about the supply voltage and the display, for every set of     *)
(* inputs and disturbed samples, every number of readings in a minute,     *)
(* every list of levels.                                                   *)
(***************************************************************************)
EXTENDS Screen, TLAPS

(***************************************************************************)
(* One disturbed sample in six leaves the average as it is, and the        *)
(* machine is on.                                                          *)
(***************************************************************************)
Readings == 0 .. 4095

LEMMA SteadyAverage ==
  \A ad, spike \in Readings, k \in Samples : Average(Batch(ad, spike, k)) = ad
<1> TAKE ad, spike \in Readings, k \in Samples
<1> DEFINE raw == Batch(ad, spike, k)
<1>1. \A j \in Samples : raw[j] = IF j = k THEN spike ELSE ad
  BY DEF Batch
<1>2. Samples = {1, 2, 3, 4, 5, 6}
  BY DEF Samples
<1>3. ad \in 0 .. 4095 /\ spike \in 0 .. 4095
  BY DEF Readings
<1>4. Total(raw) = 5 * ad + spike
  BY <1>1, <1>2, <1>3 DEF Total
<1>5. {raw[j] : j \in Samples} = {ad, spike}
  <2>1. PICK j \in Samples : j # k
    BY <1>2
  <2> QED
    BY <1>1, <2>1
<1>6. Largest(raw) \in {ad, spike} /\ ad <= Largest(raw) /\ spike <= Largest(raw)
  <2> DEFINE P(m) == \A j \in Samples : raw[j] <= m
  <2>1. \E m \in {ad, spike} : P(m)
    BY <1>1, <1>3
  <2>2. Largest(raw) = CHOOSE m \in {ad, spike} : P(m)
    BY <1>5 DEF Largest
  <2>3. Largest(raw) \in {ad, spike} /\ P(Largest(raw))
    BY <2>1, <2>2
  <2>4. PICK j \in Samples : j # k
    BY <1>2
  <2> QED
    BY <1>1, <1>3, <2>3, <2>4
<1>7. Smallest(raw) \in {ad, spike} /\ Smallest(raw) <= ad /\ Smallest(raw) <= spike
  <2> DEFINE P(m) == \A j \in Samples : m <= raw[j]
  <2>1. \E m \in {ad, spike} : P(m)
    BY <1>1, <1>3
  <2>2. Smallest(raw) = CHOOSE m \in {ad, spike} : P(m)
    BY <1>5 DEF Smallest
  <2>3. Smallest(raw) \in {ad, spike} /\ P(Smallest(raw))
    BY <2>1, <2>2
  <2>4. PICK j \in Samples : j # k
    BY <1>2
  <2> QED
    BY <1>1, <1>3, <2>3, <2>4
<1>8. Largest(raw) + Smallest(raw) = ad + spike
  BY <1>3, <1>6, <1>7
<1>9. Total(raw) - Largest(raw) - Smallest(raw) = 4 * ad
  BY <1>3, <1>4, <1>6, <1>7, <1>8
<1>10. (4 * ad) \div 4 = ad
  BY <1>3
<1> QED
  BY <1>9, <1>10 DEF Average

LEMMA OutcomeFacts ==
  ASSUME NEW outcome \in Outcomes
  PROVE  /\ outcome.input \in Nat /\ outcome.input >= 10000
         /\ outcome.read = outcome.input
<1>1. PICK ad \in Counts, spike \in Counts \cup Spikes, k \in Samples :
        outcome = [input |-> Millivolts(ad),
                   read |-> Millivolts(Average(Batch(ad, spike, k)))]
  BY DEF Outcomes
<1>2. ad \in 1129 .. 4095 /\ ad \in Readings /\ spike \in Readings
  BY BatteryAssumption DEF Readings
<1>3. Millivolts(ad) \in Nat /\ Millivolts(ad) >= 10000
  BY <1>2 DEF Millivolts
<1>4. Average(Batch(ad, spike, k)) = ad
  BY <1>2, SteadyAverage
<1> QED
  BY <1>1, <1>3, <1>4

LEMMA JudgeFacts ==
  ASSUME NEW errors \in SUBSET BatteryErrors, NEW volts \in Nat
  PROVE  /\ Judge(errors, volts) \subseteq BatteryErrors
         /\ Judge(errors, volts) \subseteq errors \cup Called(volts)
         /\ Called(volts) \subseteq FirstErrors(volts)
         /\ FirstErrors(volts) \subseteq BatteryErrors
<1>1. Called(volts) \subseteq BatteryErrors
  BY DEF Called
<1>2. {Battery_Under} \subseteq BatteryErrors
  BY DEF BatteryErrors
<1> QED
  BY <1>1, <1>2 DEF Judge, FirstErrors

(***************************************************************************)
(* A sum of n readings of at least l has an average of at least l.         *)
(***************************************************************************)
LEMMA AverageBound ==
  ASSUME NEW sum \in Nat, NEW n \in Nat \ {0}, NEW l \in Nat, sum >= n * l
  PROVE  sum \div n \in Nat /\ sum \div n >= l
<1> DEFINE q == sum \div n
<1>1. q \in Nat /\ sum < n * (q + 1)
  OBVIOUS
<1>2. n * l < n * (q + 1)
  BY <1>1
<1>3. l < q + 1
  BY <1>1, <1>2
<1> QED
  BY <1>1, <1>3

-----------------------------------------------------------------------------
(***************************************************************************)
(* The supply: what has been added up in a minute is at least its readings *)
(* times the lowest voltage; and the errors are those of the history.      *)
(***************************************************************************)
SupplyInv ==
  /\ fConvertValue >= lowest /\ lowest >= 10000
  /\ supply_voltage_buff >= supply_voltage_count * lowest
  /\ SupplyAboveLowest

ErrorsInv ==
  /\ Called(fConvertValue) \subseteq seen
  /\ ErrorsReal

BatteryInv == BatteryTypeOK /\ SupplyInv /\ ErrorsInv

LEMMA BatteryInitInv == BatteryInit => BatteryInv
<1> SUFFICES ASSUME BatteryInit PROVE BatteryInv
  OBVIOUS
<1>1. PICK outcome \in Outcomes :
        /\ fConvertValue = outcome.read
        /\ uiErrorCode = FirstErrors(outcome.read)
        /\ seen = FirstErrors(outcome.input)
        /\ lowest = outcome.input
  BY DEF BatteryInit
<1>2. /\ outcome.input \in Nat /\ outcome.input >= 10000
      /\ outcome.read = outcome.input
  BY OutcomeFacts
<1>3. /\ FirstErrors(outcome.input) \subseteq BatteryErrors
      /\ Called(outcome.input) \subseteq FirstErrors(outcome.input)
  <2>1. {} \in SUBSET BatteryErrors
    OBVIOUS
  <2> QED
    BY <1>2, <2>1, JudgeFacts
<1>4. BatteryTypeOK
  BY <1>1, <1>2, <1>3, BatteryAssumption DEF BatteryInit, BatteryTypeOK
<1>5. SupplyInv
  BY <1>1, <1>2 DEF BatteryInit, SupplyInv, SupplyAboveLowest
<1>6. ErrorsInv
  BY <1>1, <1>2, <1>3 DEF ErrorsInv, ErrorsReal
<1> QED
  BY <1>4, <1>5, <1>6 DEF BatteryInv

LEMMA SampledInv ==
  ASSUME BatteryInv, ADC_vCalculateADValue
  PROVE  BatteryInv'
<1> USE DEF BatteryInv
<1>1. PICK outcome \in Outcomes :
        /\ fConvertValue' = outcome.read
        /\ seen' = seen \cup Called(outcome.input)
        /\ lowest' = IF outcome.input < lowest THEN outcome.input ELSE lowest
  BY DEF ADC_vCalculateADValue
<1>2. /\ outcome.input \in Nat /\ outcome.input >= 10000
      /\ outcome.read = outcome.input
  BY OutcomeFacts
<1>3. /\ UNCHANGED <<supply_voltage, supply_voltage_buff, supply_voltage_count,
                     timer, uiErrorCode>>
      /\ changes' \in 0 .. MaxChanges
  BY BatteryAssumption DEF ADC_vCalculateADValue, supply, BatteryTypeOK
<1>4. lowest' \in Nat /\ lowest' <= lowest /\ lowest' >= 10000 /\ lowest' <= fConvertValue'
  BY <1>1, <1>2 DEF SupplyInv, BatteryTypeOK
<1>5. Called(outcome.input) \subseteq BatteryErrors
  BY DEF Called
<1>6. BatteryTypeOK'
  BY <1>1, <1>2, <1>3, <1>4, <1>5 DEF BatteryTypeOK
<1>7. supply_voltage_buff >= supply_voltage_count * lowest'
  <2>1. /\ supply_voltage_buff \in Nat /\ supply_voltage_count \in Nat /\ lowest \in Nat
        /\ supply_voltage_buff >= supply_voltage_count * lowest
    BY BatteryAssumption DEF BatteryTypeOK, SupplyInv
  <2>2. \A m \in Nat : m <= lowest => supply_voltage_buff >= supply_voltage_count * m
    <3> TAKE m \in Nat
    <3> HAVE m <= lowest
    <3>1. supply_voltage_count * m <= supply_voltage_count * lowest
      BY <2>1
    <3> QED
      BY <2>1, <3>1
  <2> QED
    BY <1>4, <2>2
<1>8. SupplyInv'
  <2>1. SupplyAboveLowest'
    BY <1>3, <1>4 DEF SupplyInv, SupplyAboveLowest, BatteryTypeOK
  <2> QED
    BY <1>3, <1>4, <1>7, <2>1 DEF SupplyInv
<1>9. ErrorsInv'
  BY <1>1, <1>2, <1>3 DEF ErrorsInv, ErrorsReal
<1> QED
  BY <1>6, <1>8, <1>9

LEMMA JudgedInv ==
  ASSUME BatteryInv, Error_TaskHandler
  PROVE  BatteryInv'
<1>1. /\ uiErrorCode' = Judge(uiErrorCode, fConvertValue)
      /\ UNCHANGED <<fConvertValue, changes, supply_voltage, supply_voltage_buff,
                     supply_voltage_count, timer, seen, lowest>>
  BY DEF Error_TaskHandler, measured, supply
<1>2. uiErrorCode \in SUBSET BatteryErrors /\ fConvertValue \in Nat
  BY DEF BatteryInv, BatteryTypeOK
<1>3. /\ Judge(uiErrorCode, fConvertValue) \subseteq BatteryErrors
      /\ Judge(uiErrorCode, fConvertValue) \subseteq uiErrorCode \cup Called(fConvertValue)
  BY <1>2, JudgeFacts
<1>4. BatteryTypeOK'
  BY <1>1, <1>3 DEF BatteryInv, BatteryTypeOK
<1>5. SupplyInv'
  BY <1>1 DEF BatteryInv, SupplyInv, SupplyAboveLowest
<1>6. ErrorsInv'
  BY <1>1, <1>3 DEF BatteryInv, ErrorsInv, ErrorsReal
<1> QED
  BY <1>4, <1>5, <1>6 DEF BatteryInv

LEMMA FirstInv ==
  ASSUME BatteryInv, SupplyFirst
  PROVE  BatteryInv'
<1>1. /\ supply_voltage' = IF supply_voltage < 10000 THEN fConvertValue
                           ELSE supply_voltage
      /\ timer' = "ADD"
      /\ UNCHANGED <<fConvertValue, changes, uiErrorCode, supply_voltage_buff,
                     supply_voltage_count, seen, lowest>>
  BY DEF SupplyFirst, measured
<1>2. BatteryTypeOK'
  BY <1>1 DEF BatteryInv, BatteryTypeOK
<1>3. SupplyInv'
  BY <1>1 DEF BatteryInv, BatteryTypeOK, SupplyInv, SupplyAboveLowest
<1>4. ErrorsInv'
  BY <1>1 DEF BatteryInv, ErrorsInv, ErrorsReal
<1> QED
  BY <1>2, <1>3, <1>4 DEF BatteryInv

LEMMA AddedInv ==
  ASSUME BatteryInv, SupplyAdd
  PROVE  /\ BatteryInv' /\ supply_voltage' <= supply_voltage
         /\ supply_voltage # 0 => supply_voltage' # 0
<1> DEFINE sum == supply_voltage_buff + fConvertValue
           number == supply_voltage_count + 1
<1>1. /\ timer' = "WAIT"
      /\ UNCHANGED <<fConvertValue, changes, uiErrorCode, seen, lowest>>
  BY DEF SupplyAdd, measured
<1>2. /\ supply_voltage \in Nat /\ fConvertValue \in Nat
      /\ supply_voltage_buff \in Nat /\ supply_voltage_count \in Nat
      /\ supply_voltage_count \in 0 .. Minute - 1 /\ lowest \in Nat
      /\ fConvertValue >= lowest /\ lowest >= 10000
      /\ supply_voltage_buff >= supply_voltage_count * lowest
      /\ SupplyAboveLowest
      /\ Minute \in Nat \ {0}
  BY BatteryAssumption DEF BatteryInv, BatteryTypeOK, SupplyInv
<1>3. sum \in Nat /\ number \in Nat \ {0} /\ sum >= number * lowest
  <2>1. (supply_voltage_count + 1) * lowest = supply_voltage_count * lowest + lowest
    BY <1>2
  <2> QED
    BY <1>2, <2>1
<1>4. sum \div number \in Nat /\ sum \div number >= lowest
  BY <1>2, <1>3, AverageBound
<1>5. CASE number = Minute
  <2>1. /\ supply_voltage_buff' = 0 /\ supply_voltage_count' = 0
        /\ supply_voltage' = IF supply_voltage < sum \div number
                             THEN supply_voltage ELSE sum \div number
    BY <1>5 DEF SupplyAdd
  <2>2. /\ supply_voltage' \in Nat /\ supply_voltage' <= supply_voltage
        /\ supply_voltage # 0 => supply_voltage' # 0
    BY <1>2, <1>4, <2>1
  <2>3. SupplyAboveLowest'
    BY <1>1, <1>2, <1>4, <2>1 DEF SupplyAboveLowest
  <2>4. BatteryTypeOK'
    BY <1>1, <1>2, <2>1, <2>2 DEF BatteryInv, BatteryTypeOK
  <2>5. SupplyInv'
    BY <1>1, <1>2, <2>1, <2>3 DEF BatteryInv, SupplyInv
  <2> QED
    BY <1>1, <2>2, <2>4, <2>5 DEF BatteryInv, ErrorsInv, ErrorsReal
<1>6. CASE number # Minute
  <2>1. /\ supply_voltage_buff' = sum /\ supply_voltage_count' = number
        /\ supply_voltage' = supply_voltage
    BY <1>6 DEF SupplyAdd
  <2>2. BatteryTypeOK'
    BY <1>1, <1>2, <1>3, <1>6, <2>1 DEF BatteryInv, BatteryTypeOK
  <2>3. SupplyInv'
    BY <1>1, <1>2, <1>3, <2>1 DEF BatteryInv, SupplyInv, SupplyAboveLowest
  <2> QED
    BY <1>1, <1>2, <2>1, <2>2, <2>3 DEF BatteryInv, ErrorsInv, ErrorsReal
<1> QED
  BY <1>5, <1>6

\* Once measured, the voltage only falls, and not below that of a running machine.
LEMMA BatteryNextInv ==
  ASSUME BatteryInv, BatteryStep
  PROVE  /\ BatteryInv'
         /\ supply_voltage # 0 => supply_voltage' # 0 /\ supply_voltage' <= supply_voltage
<1>1. BatteryInv'
  BY SampledInv, JudgedInv, FirstInv, AddedInv DEF BatteryStep
<1>2. supply_voltage \in Nat /\ (supply_voltage # 0 => supply_voltage >= 10000)
  BY DEF BatteryInv, BatteryTypeOK, SupplyInv, SupplyAboveLowest
<1>3. supply_voltage # 0 => supply_voltage' <= supply_voltage
  BY <1>2, AddedInv DEF BatteryStep, ADC_vCalculateADValue, Error_TaskHandler,
       SupplyFirst, supply
<1>4. supply_voltage # 0 => supply_voltage' # 0
  <2>1. CASE ADC_vCalculateADValue \/ Error_TaskHandler \/ SupplyFirst
    BY <1>2, <2>1 DEF ADC_vCalculateADValue, Error_TaskHandler, SupplyFirst, supply
  <2>2. CASE SupplyAdd
    BY <2>2, AddedInv
  <2> QED
    BY <2>1, <2>2 DEF BatteryStep
<1> QED
  BY <1>1, <1>3, <1>4

-----------------------------------------------------------------------------
(***************************************************************************)
(* The texts that must be told apart.                                      *)
(***************************************************************************)
LEMMA TextFacts ==
  /\ OpHrs # Junk /\ Blank # Junk /\ Company # Junk /\ Version # Junk
  /\ Company # OpHrs /\ Version # OpHrs /\ Blank # OpHrs
  /\ \A k : Battery(k) # Junk
BY DEF OpHrs, Junk, Blank, Company, Version, Battery, Text

LEMMA ErrorTexts ==
  ASSUME NEW n \in 0 .. 6
  PROVE  error1(n) # Junk /\ error1(n) # OpHrs
<1>1. n \in {0, 1, 2, 3, 4, 5, 6}
  OBVIOUS
<1>2. ErrorLines[n + 1] # "junk" /\ ErrorLines[n + 1] # "OpHrs"
  BY <1>1 DEF ErrorLines
<1> QED
  BY <1>2 DEF error1, Text, Junk, OpHrs

(***************************************************************************)
(* The states of Display and Task.                                         *)
(***************************************************************************)
ScreenTypeOK ==
  /\ DisplayTaskState \in {"INIT", "INIT_DONE", "START_UP", "START_UP_DONE",
                           "RUN", "ERROR", "REBOOT"}
  /\ SysTaskState \in {"INIT", "START", "IDLE", "RUN", "ERROR"}
  /\ display \in {"LOOP", "INIT", "REBOOT", "RUN", "USE_TIME"}
  /\ ran \in BOOLEAN
  /\ i \in 0 .. IndexMod - 1
  /\ level \in Levels /\ batter_info \in Levels /\ known \in BOOLEAN
  /\ versionTimer \in BOOLEAN /\ logoTimer \in BOOLEAN /\ errorTimer \in BOOLEAN
  /\ glitches \in 0 .. MaxGlitches

ControlInv ==
  /\ DisplayTaskState = "INIT" => SysTaskState = "INIT"
  /\ SysTaskState = "INIT" => DisplayTaskState \in {"INIT", "INIT_DONE"}
  /\ SysTaskState = "START" => DisplayTaskState = "INIT_DONE"
  /\ display = "INIT" => DisplayTaskState = "INIT"
  /\ display = "REBOOT" => SysTaskState \notin {"INIT", "START"}
  /\ display \in {"RUN", "USE_TIME"} => DisplayTaskState = "RUN"

\* Until the machine runs, only what the start writes stands in the first line.
StartInv ==
  DisplayTaskState \in {"INIT_DONE", "START_UP"} =>
    line1 \in {Company, Version, Blank, Junk}

\* The two lines are in order together.  A level is shown, or all that have been
\* compared were above the voltage.
LinesInv ==
  /\ line1 = Junk <=> line2 = Junk
  /\ known => supply_voltage # 0
  /\ known /\ display = "RUN" =>
       \/ line1 = Junk \/ Level1 \/ level = Len(Steps)
       \/ level < Len(Steps) /\ supply_voltage < Steps[level + 1]
  /\ known /\ display = "USE_TIME" => line1 = Junk \/ Level1
  /\ known /\ display # "RUN" /\ line2 = OpHrs => Level1

IInv == BatteryInv /\ ScreenTypeOK /\ ControlInv /\ StartInv /\ LinesInv

LEMMA InitInv == Init => IInv
<1> SUFFICES ASSUME Init PROVE IInv
  OBVIOUS
<1>1. BatteryInv
  BY BatteryInitInv DEF Init
<1>2. ScreenTypeOK
  <2>1. 0 \in 0 .. IndexMod - 1 /\ 0 \in Levels /\ 0 \in 0 .. MaxGlitches
    BY ScreenAssumption DEF Levels, ERROR_NUM
  <2> QED
    BY <2>1 DEF Init, ScreenTypeOK
<1>3. ControlInv /\ StartInv
  BY DEF Init, ControlInv, StartInv
<1>4. LinesInv
  BY TextFacts DEF Init, LinesInv
<1> QED
  BY <1>1, <1>2, <1>3, <1>4 DEF IInv

-----------------------------------------------------------------------------
LEMMA BatterySteps ==
  ASSUME IInv, BatteryStep, UNCHANGED screenVars
  PROVE  IInv'
<1>1. /\ BatteryInv'
      /\ supply_voltage # 0 => supply_voltage' # 0 /\ supply_voltage' <= supply_voltage
  BY BatteryNextInv DEF IInv
<1>2. ScreenTypeOK' /\ ControlInv' /\ StartInv'
  BY DEF IInv, screenVars, control, lines, startTimers, ScreenTypeOK, ControlInv, StartInv
<1>3. LinesInv'
  <2>1. supply_voltage \in Nat /\ supply_voltage' \in Nat
    BY <1>1 DEF IInv, BatteryInv, BatteryTypeOK
  <2>2. level < Len(Steps) => Steps[level + 1] \in Nat
    BY ScreenAssumption DEF IInv, ScreenTypeOK, Levels
  <2>3. UNCHANGED <<line1, line2, known, display, level, batter_info>>
    BY DEF screenVars, control, lines
  <2> QED
    BY <1>1, <2>1, <2>2, <2>3 DEF IInv, LinesInv, Level1
<1> QED
  BY <1>1, <1>2, <1>3 DEF IInv

LEMMA BatteryKept ==
  ASSUME IInv, UNCHANGED batteryVars
  PROVE  BatteryInv'
BY DEF IInv, batteryVars, measured, supply, BatteryInv, BatteryTypeOK, SupplyInv,
       ErrorsInv, ErrorsReal, SupplyAboveLowest

LEMMA TaskSteps ==
  ASSUME IInv, TaskStep
  PROVE  IInv'
<1>1. BatteryInv'
  BY BatteryKept DEF TaskStep
<1>2. /\ UNCHANGED <<display, line1, line2, i, level, known, batter_info,
                     versionTimer, logoTimer, errorTimer, glitches, supply_voltage>>
      /\ ran' = TRUE
  BY DEF TaskStep, lines, startTimers, batteryVars, supply
<1>3. ScreenTypeOK' /\ ControlInv'
  BY <1>2 DEF IInv, ScreenTypeOK, ControlInv, TaskStep, TaskInit, TaskStart, TaskIdle,
       TaskRun, TaskError, TaskTurn
<1>4. StartInv'
  BY <1>2 DEF IInv, ControlInv, StartInv, TaskStep, TaskInit, TaskStart, TaskIdle,
       TaskRun, TaskError, TaskTurn
<1>5. LinesInv'
  BY <1>2 DEF IInv, LinesInv, Level1
<1> QED
  BY <1>1, <1>3, <1>4, <1>5 DEF IInv

LEMMA TimerSteps ==
  ASSUME IInv, VersionTimer \/ LogoTimer \/ ErrorTimer
  PROVE  IInv'
<1>1. BatteryInv'
  BY BatteryKept DEF VersionTimer, LogoTimer, ErrorTimer
<1>2. UNCHANGED <<DisplayTaskState, SysTaskState, display, ran, line1, line2, i,
                  level, known, batter_info, glitches, supply_voltage>>
  BY DEF VersionTimer, LogoTimer, ErrorTimer, control, lines, batteryVars, supply
<1>3. versionTimer \in BOOLEAN /\ logoTimer \in BOOLEAN /\ errorTimer \in BOOLEAN
  BY DEF IInv, ScreenTypeOK
<1>4. versionTimer' \in BOOLEAN /\ logoTimer' \in BOOLEAN /\ errorTimer' \in BOOLEAN
  <2>1. CASE VersionTimer
    <3>1. versionTimer' = FALSE /\ logoTimer' = logoTimer /\ errorTimer' = errorTimer
      BY <2>1 DEF VersionTimer
    <3> QED
      BY <1>3, <3>1
  <2>2. CASE LogoTimer
    <3>1. logoTimer' = FALSE /\ versionTimer' = versionTimer /\ errorTimer' = errorTimer
      BY <2>2 DEF LogoTimer
    <3> QED
      BY <1>3, <3>1
  <2>3. CASE ErrorTimer
    <3>1. /\ errorTimer' = FALSE
          /\ versionTimer' = versionTimer /\ logoTimer' = logoTimer
      BY <2>3 DEF ErrorTimer, startTimers
    <3> QED
      BY <1>3, <3>1
  <2> QED
    BY <2>1, <2>2, <2>3
<1>5. ScreenTypeOK'
  BY <1>2, <1>4 DEF IInv, ScreenTypeOK
<1> QED
  BY <1>1, <1>2, <1>5 DEF IInv, ControlInv, StartInv, LinesInv, Level1

LEMMA GlitchSteps ==
  ASSUME IInv, Glitch
  PROVE  IInv'
<1>1. BatteryInv'
  BY BatteryKept DEF Glitch
<1>2. /\ UNCHANGED <<DisplayTaskState, SysTaskState, display, ran, i, level, known,
                     batter_info, versionTimer, logoTimer, errorTimer, supply_voltage>>
      /\ line1' = Junk /\ line2' = Junk
  BY DEF Glitch, control, startTimers, batteryVars, supply
<1>3. ScreenTypeOK'
  BY <1>2, ScreenAssumption DEF IInv, ScreenTypeOK, Glitch
<1>4. LinesInv'
  BY <1>2, TextFacts DEF IInv, LinesInv
<1> QED
  BY <1>1, <1>2, <1>3, <1>4 DEF IInv, ControlInv, StartInv

-----------------------------------------------------------------------------
(***************************************************************************)
(* The steps of Display: they keep the invariant, and restart the display  *)
(* only when it is out of order.                                           *)
(***************************************************************************)
Kept ==
  DisplayTaskState' = "REBOOT" /\ DisplayTaskState # "REBOOT" =>
    \/ line1 = Junk \/ DisplayTaskState = "ERROR"
    \/ DisplayTaskState = "RUN" /\ ~known

TimersOK == versionTimer \in BOOLEAN /\ logoTimer \in BOOLEAN /\ errorTimer \in BOOLEAN

Others == /\ UNCHANGED <<batteryVars, SysTaskState, glitches>>

LEMMA EndTurnFacts ==
  ASSUME NEW s, NEW checks \in BOOLEAN, EndTurn(s, checks)
  PROVE  /\ display' = "LOOP" /\ ran' = FALSE
         /\ \/ DisplayTaskState' = s
            \/ DisplayTaskState' = "REBOOT" /\ Misread(s, line1', line2')
BY DEF EndTurn

LEMMA WriteFacts ==
  ASSUME LinesInv, NEW text1, NEW text2, Write(text1, text2)
  PROVE  /\ line1 = Junk => line1' = Junk /\ line2' = Junk
         /\ line1 # Junk => line1' = text1 /\ line2' = text2
BY DEF Write, LinesInv, lines

LEMMA ScreenRest ==
  ASSUME IInv, Others, UNCHANGED <<level, batter_info, i, known, errorTimer>>,
         UNCHANGED startTimers \/ (versionTimer' = TRUE /\ logoTimer' = TRUE),
         display' \in {"LOOP", "INIT", "REBOOT", "RUN", "USE_TIME"}, ran' \in BOOLEAN,
         DisplayTaskState' \in {"INIT", "INIT_DONE", "START_UP", "START_UP_DONE",
                                "RUN", "ERROR", "REBOOT"}
  PROVE  BatteryInv' /\ ScreenTypeOK' /\ UNCHANGED supply_voltage
<1>1. TimersOK
  BY DEF IInv, ScreenTypeOK, TimersOK
<1>2. TimersOK'
  <2>1. errorTimer' = errorTimer
    OBVIOUS
  <2>2. CASE UNCHANGED startTimers
    <3>1. versionTimer' = versionTimer /\ logoTimer' = logoTimer
      BY <2>2 DEF startTimers
    <3> QED
      BY <1>1, <2>1, <3>1 DEF TimersOK
  <2>3. CASE versionTimer' = TRUE /\ logoTimer' = TRUE
    BY <1>1, <2>1, <2>3 DEF TimersOK
  <2> QED
    BY <2>2, <2>3
<1>3. UNCHANGED <<batteryVars, SysTaskState, glitches, supply_voltage>>
  BY DEF Others, batteryVars, supply
<1>4. /\ SysTaskState' \in {"INIT", "START", "IDLE", "RUN", "ERROR"}
      /\ i' \in 0 .. IndexMod - 1 /\ glitches' \in 0 .. MaxGlitches
      /\ level' \in Levels /\ batter_info' \in Levels
  BY <1>3 DEF IInv, ScreenTypeOK
<1>5. known' \in BOOLEAN
  <2>1. known \in BOOLEAN /\ known' = known
    BY DEF IInv, ScreenTypeOK
  <2> QED
    BY <2>1
<1> QED
  BY <1>2, <1>3, <1>4, <1>5, BatteryKept DEF ScreenTypeOK, TimersOK

LEMMA SleepSteps ==
  ASSUME IInv, Others, DisplaySleeps
  PROVE  IInv' /\ Kept
<1>1. /\ display = "LOOP" /\ DisplayTaskState \in {"INIT", "REBOOT"}
      /\ display' = DisplayTaskState
      /\ UNCHANGED <<DisplayTaskState, ran, line1, line2, i, level, known, batter_info,
                     startTimers, errorTimer>>
  BY DEF DisplaySleeps, Turn, lines
<1>2. ran \in BOOLEAN
  BY DEF IInv, ScreenTypeOK
<1>3. ran' \in BOOLEAN
  <2>1. ran' = ran
    BY <1>1
  <2> QED
    BY <1>2, <2>1
<1>4. BatteryInv' /\ ScreenTypeOK' /\ UNCHANGED supply_voltage
  BY <1>1, <1>3, ScreenRest
<1>5. ControlInv' /\ StartInv'
  BY <1>1 DEF IInv, ControlInv, StartInv, Others
<1>6. LinesInv'
  BY <1>1, <1>4 DEF IInv, LinesInv, Level1
<1> QED
  BY <1>1, <1>4, <1>5, <1>6 DEF IInv, Kept

LEMMA InitDoneSteps ==
  ASSUME IInv, Others, NEW checks \in BOOLEAN, DisplayInitDone(checks)
  PROVE  IInv' /\ Kept
<1>1. /\ display = "INIT" /\ line1' = Blank /\ line2' = Blank
      /\ EndTurn("INIT_DONE", checks)
      /\ UNCHANGED <<i, level, known, batter_info, errorTimer>>
  BY DEF DisplayInitDone, WriteInit
<1>2. versionTimer' = TRUE /\ logoTimer' = TRUE
  BY DEF DisplayInitDone
<1>3. display' = "LOOP" /\ ran' = FALSE /\ DisplayTaskState' = "INIT_DONE"
  BY <1>1, EndTurnFacts DEF Misread
<1>4. BatteryInv' /\ ScreenTypeOK' /\ UNCHANGED supply_voltage
  BY <1>1, <1>2, <1>3, ScreenRest
<1>5. ControlInv' /\ StartInv'
  BY <1>1, <1>3 DEF IInv, ControlInv, StartInv, Others
<1>6. LinesInv'
  BY <1>1, <1>3, <1>4, TextFacts DEF IInv, LinesInv
<1> QED
  BY <1>3, <1>4, <1>5, <1>6 DEF IInv, Kept

LEMMA RebootSteps ==
  ASSUME IInv, Others, NEW checks \in BOOLEAN, DisplayRebootDone(checks)
  PROVE  IInv' /\ Kept
<1>1. /\ display = "REBOOT" /\ line1' = Blank /\ line2' = Blank
      /\ EndTurn("RUN", checks)
      /\ UNCHANGED <<i, level, known, batter_info, startTimers, errorTimer>>
  BY DEF DisplayRebootDone, WriteInit
<1>2. display' = "LOOP" /\ ran' = FALSE /\ DisplayTaskState' = "RUN"
  BY <1>1, EndTurnFacts DEF Misread
<1>3. BatteryInv' /\ ScreenTypeOK' /\ UNCHANGED supply_voltage
  BY <1>1, <1>2, ScreenRest
<1>4. ControlInv' /\ StartInv'
  BY <1>1, <1>2 DEF IInv, ControlInv, StartInv, Others
<1>5. LinesInv'
  BY <1>1, <1>2, <1>3, TextFacts DEF IInv, LinesInv
<1> QED
  BY <1>2, <1>3, <1>4, <1>5 DEF IInv, Kept

LEMMA StartUpSteps ==
  ASSUME IInv, Others, NEW checks \in BOOLEAN, Display_Start_up(checks)
  PROVE  IInv' /\ Kept
<1>1. /\ display = "LOOP" /\ DisplayTaskState = "START_UP"
      /\ EndTurn(IF logoTimer THEN "START_UP" ELSE "START_UP_DONE", checks)
      /\ UNCHANGED <<i, level, known, batter_info, startTimers, errorTimer>>
      /\ Write(Company, Blank) \/ Write(Version, Blank) \/ UNCHANGED lines
  BY DEF Display_Start_up, Turn
<1>2. LinesInv /\ StartInv
  BY DEF IInv
<1>3. /\ line1 = Junk => line1' = Junk /\ line2' = Junk
      /\ line1 # Junk => line1' \in {Company, Version, Blank}
      /\ line1' = Junk <=> line2' = Junk
      /\ line2' = OpHrs => line1' = line1 /\ line2 = OpHrs
  <2>1. CASE Write(Company, Blank) \/ Write(Version, Blank)
    BY <1>2, <2>1, WriteFacts, TextFacts
  <2>2. CASE UNCHANGED lines
    BY <1>1, <1>2, <2>2 DEF lines, StartInv, LinesInv
  <2> QED
    BY <1>1, <2>1, <2>2
<1>4. PICK s \in {"START_UP", "START_UP_DONE"} : EndTurn(s, checks)
  BY <1>1
<1>5. /\ display' = "LOOP" /\ ran' = FALSE
      /\ \/ DisplayTaskState' \in {"START_UP", "START_UP_DONE"}
         \/ DisplayTaskState' = "REBOOT" /\ line1 = Junk
  <2>1. Misread(s, line1', line2') => line1' \notin {Company, Version, Blank}
    BY <1>4 DEF Misread
  <2> QED
    BY <1>3, <1>4, <2>1, EndTurnFacts
<1>6. BatteryInv' /\ ScreenTypeOK' /\ UNCHANGED supply_voltage
  BY <1>1, <1>5, ScreenRest
<1>7. ControlInv' /\ StartInv'
  BY <1>1, <1>3, <1>5 DEF IInv, ControlInv, StartInv, Others
<1>8. LinesInv'
  <2>1. line2' = OpHrs /\ known' => Level1'
    BY <1>1, <1>2, <1>3 DEF LinesInv, Level1
  <2> QED
    BY <1>1, <1>2, <1>3, <1>5, <1>6, <2>1 DEF LinesInv
<1> QED
  BY <1>5, <1>6, <1>7, <1>8 DEF IInv, Kept

LEMMA IdleSteps ==
  ASSUME IInv, Others, NEW checks \in BOOLEAN, DisplayIdles(checks)
  PROVE  IInv' /\ Kept
<1>1. /\ display = "LOOP" /\ DisplayTaskState \in {"INIT_DONE", "START_UP_DONE"}
      /\ EndTurn(DisplayTaskState, checks)
      /\ UNCHANGED <<line1, line2, i, level, known, batter_info, startTimers, errorTimer>>
  BY DEF DisplayIdles, Turn, lines
<1>2. ~Misread(DisplayTaskState, line1', line2')
  BY <1>1 DEF Misread
<1>3. display' = "LOOP" /\ ran' = FALSE /\ DisplayTaskState' = DisplayTaskState
  BY <1>1, <1>2, EndTurnFacts
<1>4. BatteryInv' /\ ScreenTypeOK' /\ UNCHANGED supply_voltage
  BY <1>1, <1>3, ScreenRest
<1>5. ControlInv' /\ StartInv'
  BY <1>1, <1>3 DEF IInv, ControlInv, StartInv, Others
<1>6. LinesInv'
  BY <1>1, <1>3, <1>4 DEF IInv, LinesInv, Level1
<1> QED
  BY <1>3, <1>4, <1>5, <1>6 DEF IInv, Kept

LEMMA ErrorSteps ==
  ASSUME IInv, Others, NEW checks \in BOOLEAN, Display_Error(checks)
  PROVE  IInv' /\ Kept
<1>1. /\ display = "LOOP" /\ DisplayTaskState = "ERROR"
      /\ EndTurn("ERROR", checks)
      /\ UNCHANGED <<level, known, batter_info, startTimers>>
  BY DEF Display_Error, Turn
<1>2. /\ i \in Nat /\ i < IndexMod /\ IndexMod \in Nat /\ IndexMod > 14
      /\ uiErrorCode \subseteq {0, 1, 2}
  BY ScreenAssumption DEF IInv, ScreenTypeOK, BatteryInv, BatteryTypeOK, BatteryErrors,
       Battery_Empty, Battery_Under, Battery_Over, ERROR_NUM
<1>3. i \div 2 \in uiErrorCode => i \in 0 .. 5
  BY <1>2
<1>4. errorTimer \in BOOLEAN /\ LinesInv
  BY DEF IInv, ScreenTypeOK
<1>5. /\ i' \in 0 .. IndexMod - 1
      /\ errorTimer' \in BOOLEAN
      /\ \/ Write(error1(i), error1(i + 1)) /\ i \in 0 .. 5
         \/ UNCHANGED lines
  <2>1. CASE i \div 2 \notin uiErrorCode
    <3>1. i' = (i + 1) % IndexMod /\ errorTimer' = errorTimer /\ UNCHANGED lines
      BY <2>1 DEF Display_Error
    <3>2. (i + 1) % IndexMod \in 0 .. IndexMod - 1
      BY <1>2
    <3> QED
      BY <1>4, <3>1, <3>2
  <2>2. CASE i \div 2 \in uiErrorCode /\ errorTimer
    <3>1. errorTimer' = errorTimer /\ UNCHANGED lines /\ i' = i
      BY <2>2 DEF Display_Error
    <3>2. i' \in 0 .. IndexMod - 1
      BY <1>2, <3>1
    <3> QED
      BY <1>4, <3>1, <3>2
  <2>3. CASE i \div 2 \in uiErrorCode /\ ~errorTimer
    <3>1. /\ errorTimer' = TRUE
          /\ Write(error1(i), error1(i + 1))
          /\ i' = IF i + 2 >= ERROR_NUM * 2 THEN 0 ELSE i + 2
      BY <2>3 DEF Display_Error
    <3>2. i' \in 0 .. IndexMod - 1
      BY <1>2, <1>3, <2>3, <3>1 DEF ERROR_NUM
    <3> QED
      BY <1>3, <2>3, <3>1, <3>2
  <2> QED
    BY <2>1, <2>2, <2>3
<1>6. /\ line1' = Junk <=> line2' = Junk
      /\ line2' = OpHrs => line1' = line1 /\ line2 = OpHrs
  <2>1. CASE Write(error1(i), error1(i + 1)) /\ i \in 0 .. 5
    <3>1. /\ error1(i) # Junk
          /\ error1(i + 1) # Junk /\ error1(i + 1) # OpHrs
      <4>1. i \in 0 .. 6 /\ i + 1 \in 0 .. 6
        BY <2>1
      <4> QED
        BY <4>1, ErrorTexts
    <3> QED
      BY <1>4, <2>1, <3>1, WriteFacts, TextFacts
  <2>2. CASE UNCHANGED lines
    BY <1>4, <2>2 DEF lines, LinesInv
  <2> QED
    BY <1>5, <2>1, <2>2
<1>7. display' = "LOOP" /\ ran' = FALSE /\ DisplayTaskState' \in {"ERROR", "REBOOT"}
  BY <1>1, EndTurnFacts
<1>8. BatteryInv' /\ UNCHANGED supply_voltage
  BY BatteryKept DEF Others, batteryVars, supply
<1>9. ScreenTypeOK'
  <2>1. known' \in BOOLEAN
    <3>1. known \in BOOLEAN /\ known' = known
      BY <1>1 DEF IInv, ScreenTypeOK
    <3> QED
      BY <3>1
  <2>2. versionTimer' \in BOOLEAN /\ logoTimer' \in BOOLEAN
    <3>1. versionTimer' = versionTimer /\ logoTimer' = logoTimer
      BY <1>1 DEF startTimers
    <3>2. versionTimer \in BOOLEAN /\ logoTimer \in BOOLEAN
      BY DEF IInv, ScreenTypeOK
    <3> QED
      BY <3>1, <3>2
  <2>3. /\ SysTaskState' \in {"INIT", "START", "IDLE", "RUN", "ERROR"}
        /\ glitches' \in 0 .. MaxGlitches
        /\ level' \in Levels /\ batter_info' \in Levels
    BY <1>1 DEF IInv, ScreenTypeOK, Others
  <2> QED
    BY <1>5, <1>7, <2>1, <2>2, <2>3 DEF ScreenTypeOK
<1>10. ControlInv' /\ StartInv'
  BY <1>1, <1>7 DEF IInv, ControlInv, StartInv, Others
<1>11. LinesInv'
  <2>1. line2' = OpHrs /\ known' => Level1'
    BY <1>1, <1>4, <1>6 DEF LinesInv, Level1
  <2> QED
    BY <1>1, <1>4, <1>6, <1>7, <1>8, <2>1 DEF LinesInv
<1> QED
  BY <1>1, <1>8, <1>9, <1>10, <1>11 DEF IInv, Kept

LEMMA RunStartSteps ==
  ASSUME IInv, Others, RunStarts
  PROVE  IInv' /\ Kept
<1>1. /\ display = "LOOP" /\ DisplayTaskState = "RUN" /\ display' = "RUN"
      /\ level' = Len(Steps)
      /\ UNCHANGED <<DisplayTaskState, ran, line1, line2, i, batter_info, startTimers,
                     errorTimer>>
  BY DEF RunStarts, Turn, lines
<1>2. known' = (supply_voltage # 0)
  BY DEF RunStarts
<1>3. BatteryInv' /\ supply_voltage' = supply_voltage
  BY BatteryKept DEF Others, batteryVars, supply
<1>4. ScreenTypeOK'
  <2>1. known' \in BOOLEAN
    BY <1>2
  <2>2. TimersOK' /\ ran' \in BOOLEAN
    <3>1. /\ versionTimer' = versionTimer /\ logoTimer' = logoTimer
          /\ errorTimer' = errorTimer /\ ran' = ran
      BY <1>1 DEF startTimers
    <3>2. TimersOK /\ ran \in BOOLEAN
      BY DEF IInv, ScreenTypeOK, TimersOK
    <3> QED
      BY <3>1, <3>2 DEF TimersOK
  <2>3. /\ SysTaskState' \in {"INIT", "START", "IDLE", "RUN", "ERROR"}
        /\ glitches' \in 0 .. MaxGlitches /\ i' \in 0 .. IndexMod - 1
        /\ level' \in Levels /\ batter_info' \in Levels
    BY <1>1, ScreenAssumption DEF IInv, ScreenTypeOK, Others, Levels
  <2> QED
    BY <1>1, <2>1, <2>2, <2>3 DEF ScreenTypeOK, TimersOK
<1>5. ControlInv' /\ StartInv'
  BY <1>1 DEF IInv, ControlInv, StartInv, Others
<1>6. LinesInv'
  <2>1. known' => supply_voltage' # 0
    BY <1>2, <1>3
  <2>2. line1' = Junk <=> line2' = Junk
    BY <1>1 DEF IInv, LinesInv
  <2> QED
    BY <1>1, <2>1, <2>2 DEF LinesInv
<1> QED
  BY <1>1, <1>3, <1>4, <1>5, <1>6 DEF IInv, Kept

(***************************************************************************)
(* A comparison that does not hold is one with a lower bound above the     *)
(* voltage: the voltage only falls, so it stays below the bounds that were *)
(* compared.  The last one has no lower bound.                             *)
(***************************************************************************)
LEMMA CompareSteps ==
  ASSUME IInv, Others, RunCompares
  PROVE  IInv' /\ Kept
<1>1. /\ display = "RUN" /\ DisplayTaskState = "RUN"
      /\ UNCHANGED <<DisplayTaskState, ran, i, known, startTimers, errorTimer>>
      /\ IF level > 0 THEN level' = level - 1 /\ display' = "RUN"
         ELSE display' = "USE_TIME" /\ level' = level
  BY DEF RunCompares, IInv, ControlInv
<1>2. /\ BatteryInv' /\ supply_voltage' = supply_voltage
      /\ supply_voltage \in Nat /\ LinesInv /\ level \in Levels /\ batter_info \in Levels
  BY BatteryKept DEF Others, batteryVars, supply, IInv, BatteryInv, BatteryTypeOK,
       ScreenTypeOK
<1>3. Len(Steps) \in Nat /\ Len(Steps) > 0 /\ \A k \in 1 .. Len(Steps) : Steps[k] \in Nat
  BY ScreenAssumption
<1>4. level \in 0 .. Len(Steps)
  BY <1>2 DEF Levels
<1>5. /\ line1' = Junk <=> line2' = Junk
      /\ batter_info' \in Levels
      /\ \/ AtLevel(level) /\ (line1' = Junk \/ Level1')
         \/ ~AtLevel(level) /\ UNCHANGED <<line1, line2, batter_info>>
  <2>1. CASE AtLevel(level) /\ Write(Battery(level), line2)
    <3>1. batter_info' = level
      BY <2>1 DEF RunCompares
    <3> QED
      BY <1>2, <2>1, <3>1, WriteFacts, TextFacts DEF Level1, LinesInv
  <2>2. CASE AtLevel(level) /\ level \in Blinking /\ Write(Blank, line2)
    <3>1. batter_info' = level
      BY <2>2 DEF RunCompares
    <3> QED
      BY <1>2, <2>2, <3>1, WriteFacts, TextFacts DEF Level1, LinesInv
  <2>3. CASE ~AtLevel(level)
    <3>1. UNCHANGED <<lines, batter_info>>
      BY <2>3 DEF RunCompares
    <3> QED
      BY <1>2, <2>3, <3>1 DEF lines, LinesInv
  <2> QED
    BY <2>1, <2>2, <2>3 DEF RunCompares
<1>6. ScreenTypeOK'
  <2>1. known' \in BOOLEAN /\ ran' \in BOOLEAN /\ TimersOK'
    <3>1. /\ versionTimer' = versionTimer /\ logoTimer' = logoTimer
          /\ errorTimer' = errorTimer /\ ran' = ran /\ known' = known
      BY <1>1 DEF startTimers
    <3>2. known \in BOOLEAN /\ ran \in BOOLEAN /\ TimersOK
      BY DEF IInv, ScreenTypeOK, TimersOK
    <3> QED
      BY <3>1, <3>2 DEF TimersOK
  <2>2. level' \in Levels /\ display' \in {"RUN", "USE_TIME"}
    BY <1>1, <1>3, <1>4 DEF Levels
  <2>3. /\ SysTaskState' \in {"INIT", "START", "IDLE", "RUN", "ERROR"}
        /\ glitches' \in 0 .. MaxGlitches /\ i' \in 0 .. IndexMod - 1
    BY <1>1 DEF IInv, ScreenTypeOK, Others
  <2> QED
    BY <1>1, <1>5, <2>1, <2>2, <2>3 DEF ScreenTypeOK, TimersOK
<1>7. ControlInv' /\ StartInv'
  BY <1>1 DEF IInv, ControlInv, StartInv, Others
<1>8. ~AtLevel(level) /\ known /\ ~(line1 = Junk \/ Level1) =>
        level > 0 /\ supply_voltage < Steps[level]
  BY <1>1, <1>2, <1>3, <1>4 DEF AtLevel, LinesInv
<1>9. LinesInv'
  <2>1. known' = known
    BY <1>1
  <2>2. known =>
          \/ line1' = Junk \/ Level1'
          \/ level' < Len(Steps) /\ supply_voltage' < Steps[level' + 1] /\ level > 0
    <3>1. CASE AtLevel(level)
      BY <1>5, <3>1
    <3>2. CASE ~AtLevel(level)
      <4>1. line1' = line1 /\ (Level1 => Level1')
        BY <1>5, <3>2 DEF Level1
      <4>2. level > 0 /\ supply_voltage < Steps[level] =>
              level' < Len(Steps) /\ supply_voltage' < Steps[level' + 1]
        BY <1>1, <1>2, <1>3, <1>4
      <4> QED
        BY <1>8, <3>2, <4>1, <4>2
    <3> QED
      BY <3>1, <3>2
  <2>3. known => supply_voltage' # 0
    BY <1>2 DEF LinesInv
  <2>4. line2' = OpHrs => line1' # Junk
    BY <1>5, TextFacts
  <2>5. display' = "RUN" \/ (display' = "USE_TIME" /\ ~(level > 0))
    BY <1>1
  <2> QED
    BY <1>5, <2>1, <2>2, <2>3, <2>4, <2>5 DEF LinesInv
<1> QED
  BY <1>1, <1>2, <1>6, <1>7, <1>9 DEF IInv, Kept

LEMMA RunEndSteps ==
  ASSUME IInv, Others, NEW checks \in BOOLEAN, RunEnds(checks)
  PROVE  IInv' /\ Kept
<1>1. /\ display = "USE_TIME" /\ DisplayTaskState = "RUN"
      /\ Write(line1, OpHrs) /\ EndTurn("RUN", checks)
      /\ UNCHANGED <<i, level, known, batter_info, startTimers, errorTimer>>
  BY DEF RunEnds, IInv, ControlInv
<1>2. LinesInv /\ batter_info \in Levels
  BY DEF IInv, ScreenTypeOK
<1>3. /\ line1' = line1 /\ (line1' = Junk <=> line2' = Junk)
      /\ line1 # Junk => line2' = OpHrs
  BY <1>1, <1>2, WriteFacts, TextFacts
<1>4. display' = "LOOP" /\ ran' = FALSE /\ DisplayTaskState' \in {"RUN", "REBOOT"}
  BY <1>1, EndTurnFacts
<1>5. known /\ line1 # Junk => DisplayTaskState' = "RUN"
  <2>1. known /\ line1 # Junk => line1 \in LevelTexts \cup {Blank}
    BY <1>1, <1>2 DEF LinesInv, Level1, LevelTexts
  <2>2. known /\ line1 # Junk => ~Misread("RUN", line1', line2')
    BY <1>3, <2>1 DEF Misread
  <2> QED
    BY <1>1, <2>2, EndTurnFacts
<1>6. BatteryInv' /\ ScreenTypeOK' /\ UNCHANGED supply_voltage
  BY <1>1, <1>4, ScreenRest
<1>7. ControlInv' /\ StartInv'
  BY <1>1, <1>4 DEF IInv, ControlInv, StartInv, Others
<1>8. LinesInv'
  <2>1. line2' = OpHrs /\ known' => Level1'
    BY <1>1, <1>2, <1>3, TextFacts DEF LinesInv, Level1
  <2> QED
    BY <1>1, <1>2, <1>3, <1>4, <1>6, <2>1 DEF LinesInv
<1> QED
  BY <1>1, <1>5, <1>6, <1>7, <1>8 DEF IInv, Kept

LEMMA DisplaySteps ==
  ASSUME IInv, DisplayStep
  PROVE  IInv' /\ Kept
<1>1. Others
  BY DEF DisplayStep, Others
<1>2. CASE DisplaySleeps \/ RunStarts \/ RunCompares
  BY <1>1, <1>2, SleepSteps, RunStartSteps, CompareSteps
<1>3. CASE \E checks \in BOOLEAN : DisplayEnds(checks)
  <2>1. PICK checks \in BOOLEAN : DisplayEnds(checks)
    BY <1>3
  <2>2. CASE DisplayInitDone(checks)
    BY <1>1, <2>2, InitDoneSteps
  <2>3. CASE DisplayRebootDone(checks)
    BY <1>1, <2>3, RebootSteps
  <2>4. CASE Display_Start_up(checks)
    BY <1>1, <2>4, StartUpSteps
  <2>5. CASE Display_Error(checks)
    BY <1>1, <2>5, ErrorSteps
  <2>6. CASE DisplayIdles(checks)
    BY <1>1, <2>6, IdleSteps
  <2>7. CASE RunEnds(checks)
    BY <1>1, <2>7, RunEndSteps
  <2> QED
    BY <2>1, <2>2, <2>3, <2>4, <2>5, <2>6, <2>7 DEF DisplayEnds
<1> QED
  BY <1>2, <1>3 DEF DisplayStep

-----------------------------------------------------------------------------
LEMMA NextInv ==
  ASSUME IInv, [Next]_vars
  PROVE  IInv' /\ Kept
<1>1. CASE BatteryStep /\ UNCHANGED screenVars
  <2>1. UNCHANGED DisplayTaskState
    BY <1>1 DEF screenVars, control
  <2> QED
    BY <1>1, <2>1, BatterySteps DEF Kept
<1>2. CASE DisplayStep
  BY <1>2, DisplaySteps
<1>3. CASE TaskStep
  <2>1. DisplayTaskState' # "REBOOT" \/ DisplayTaskState' = DisplayTaskState
    BY <1>3 DEF TaskStep, TaskInit, TaskStart, TaskIdle, TaskRun, TaskError
  <2> QED
    BY <1>3, <2>1, TaskSteps DEF Kept
<1>4. CASE VersionTimer \/ LogoTimer \/ ErrorTimer
  <2>1. UNCHANGED DisplayTaskState
    BY <1>4 DEF VersionTimer, LogoTimer, ErrorTimer, control
  <2> QED
    BY <1>4, <2>1, TimerSteps DEF Kept
<1>5. CASE Glitch
  <2>1. UNCHANGED DisplayTaskState
    BY <1>5 DEF Glitch, control
  <2> QED
    BY <1>5, <2>1, GlitchSteps DEF Kept
<1>6. CASE UNCHANGED vars
  <2>1. UNCHANGED <<batteryVars, SysTaskState, DisplayTaskState, display, ran, line1, line2,
                    i, level, known, batter_info, versionTimer, logoTimer, errorTimer,
                    glitches, supply_voltage>>
    BY <1>6 DEF vars, screenVars, control, lines, startTimers, batteryVars, supply
  <2>2. BatteryInv'
    BY <2>1, BatteryKept
  <2> QED
    BY <2>1, <2>2 DEF IInv, ScreenTypeOK, ControlInv, StartInv, LinesInv, Level1, Kept
<1> QED
  BY <1>1, <1>2, <1>3, <1>4, <1>5, <1>6 DEF Next

LEMMA Invariant == Spec => []IInv
<1>1. IInv /\ [Next]_vars => IInv'
  BY NextInv
<1> QED
  BY InitInv, <1>1, PTL DEF Spec

\* Every variable keeps its type: in the index of the error text, in particular,
\* only texts that exist are looked up.
THEOREM TypeCorrect == Spec => []TypeOK
<1>1. IInv => TypeOK
  BY DEF IInv, BatteryInv, ScreenTypeOK, TypeOK
<1> QED
  BY Invariant, <1>1, PTL

\* The filter of a minute never reports less than the lowest voltage of the input,
\* whatever single samples the converter disturbs.
THEOREM SupplyIsReal == Spec => []SupplyAboveLowest
<1>1. IInv => SupplyAboveLowest
  BY DEF IInv, BatteryInv, SupplyInv
<1> QED
  BY Invariant, <1>1, PTL

\* No disturbed sample raises an error.
THEOREM ErrorsAreReal == Spec => []ErrorsReal
<1>1. IInv => ErrorsReal
  BY DEF IInv, BatteryInv, ErrorsInv
<1> QED
  BY Invariant, <1>1, PTL

\* After each turn the display and batter_info agree, for every list of levels.
THEOREM LevelIsShown == Spec => []LevelShown
<1>1. IInv => LevelShown
  BY DEF IInv, LinesInv, LevelShown
<1> QED
  BY Invariant, <1>1, PTL

\* DisplayErrorHandler restarts only a display that is out of order.
THEOREM HealthyIsKept == Spec => HealthyKept
<1>1. IInv /\ [Next]_vars =>
        [DisplayTaskState' = "REBOOT" /\ DisplayTaskState # "REBOOT" =>
           \/ line1 = Junk \/ DisplayTaskState = "ERROR"
           \/ DisplayTaskState = "RUN" /\ ~known]_vars
  BY NextInv DEF Kept
<1> QED
  BY Invariant, <1>1, PTL DEF Spec, HealthyKept

-----------------------------------------------------------------------------
(***************************************************************************)
(* How an error is found and kept: the index of its text walks on by one   *)
(* until it comes to a pair of lines whose bit is set.                     *)
(***************************************************************************)
Away(e) == IF i <= 2 * e THEN 2 * e - i ELSE IndexMod + 2 * e - i

\* While e is the only error a turn of Display_Error waits for its timer, shows
\* e, or brings the index nearer; the one index from which it would show half
\* of e and half of the next is not come to any more.  What is shown once stays
\* until the error does or the LCD is disturbed.
ErrorSought ==
  [][\A e \in BatteryErrors : uiErrorCode = {e} =>
       /\ (\E checks \in BOOLEAN : Display_Error(checks)) =>
            \/ errorTimer /\ UNCHANGED <<lines, i>> /\ i \in {2 * e, 2 * e + 1}
            \/ i = 2 * e /\ (line1 = Junk \/ Shows(e)')
            \/ Away(e)' < Away(e)
       /\ i # 2 * e + 1 => i' # 2 * e + 1
       /\ /\ Shows(e) /\ i # 2 * e + 1
          /\ DisplayTaskState = "ERROR" /\ display = "LOOP"
          => Shows(e)' \/ Glitch]_vars

LEMMA IndexSteps ==
  ASSUME IInv, NEW e \in BatteryErrors, uiErrorCode = {e},
         NEW checks \in BOOLEAN, Display_Error(checks)
  PROVE  \/ errorTimer /\ UNCHANGED <<lines, i>> /\ i \in {2 * e, 2 * e + 1}
         \/ i = 2 * e /\ i' = 2 * e + 2 /\ Write(error1(2 * e), error1(2 * e + 1))
         \/ i = 2 * e + 1 /\ i' = 2 * e + 3
         \/ i \notin {2 * e, 2 * e + 1} /\ UNCHANGED lines
              /\ i' = IF i + 1 = IndexMod THEN 0 ELSE i + 1
<1>1. /\ i \in Nat /\ i < IndexMod /\ IndexMod \in Nat /\ IndexMod > 14
      /\ e \in {0, 1, 2}
  BY ScreenAssumption DEF IInv, ScreenTypeOK, BatteryErrors, Battery_Empty,
       Battery_Under, Battery_Over, ERROR_NUM
<1>2. i \div 2 = e <=> i \in {2 * e, 2 * e + 1}
  BY <1>1
<1>3. CASE i \div 2 \notin uiErrorCode
  <2>1. i' = (i + 1) % IndexMod /\ UNCHANGED lines
    BY <1>3 DEF Display_Error
  <2>2. (i + 1) % IndexMod = IF i + 1 = IndexMod THEN 0 ELSE i + 1
    <3>1. CASE i + 1 = IndexMod
      <4>1. IndexMod % IndexMod = 0
        BY <1>1
      <4> QED
        BY <3>1, <4>1
    <3>2. CASE i + 1 # IndexMod
      <4>1. i + 1 \in 0 .. IndexMod - 1
        BY <1>1, <3>2
      <4> QED
        BY <1>1, <3>2, <4>1
    <3> QED
      BY <3>1, <3>2
  <2> QED
    BY <1>2, <1>3, <2>1, <2>2
<1>4. CASE i \div 2 \in uiErrorCode /\ errorTimer
  BY <1>2, <1>4 DEF Display_Error
<1>5. CASE i \div 2 \in uiErrorCode /\ ~errorTimer
  <2>1. /\ Write(error1(i), error1(i + 1))
        /\ i' = IF i + 2 >= ERROR_NUM * 2 THEN 0 ELSE i + 2
    BY <1>5 DEF Display_Error
  <2>2. i \in {2 * e, 2 * e + 1} /\ i' = i + 2
    BY <1>1, <1>2, <1>5, <2>1 DEF ERROR_NUM
  <2>3. CASE i = 2 * e
    BY <2>1, <2>2, <2>3
  <2>4. CASE i = 2 * e + 1
    BY <1>1, <2>2, <2>4
  <2> QED
    BY <2>2, <2>3, <2>4
<1> QED
  BY <1>3, <1>4, <1>5

LEMMA OnlyErrorTurns ==
  ASSUME IInv, Next, ~Glitch, ~\E checks \in BOOLEAN : Display_Error(checks)
  PROVE  /\ i' = i
         /\ DisplayTaskState = "ERROR" /\ display = "LOOP" => UNCHANGED lines
<1>1. CASE (BatteryStep /\ UNCHANGED screenVars) \/ TaskStep
           \/ VersionTimer \/ LogoTimer \/ ErrorTimer
  BY <1>1 DEF screenVars, TaskStep, VersionTimer, LogoTimer, ErrorTimer, lines
<1>2. CASE DisplaySleeps \/ RunStarts \/ RunCompares
  BY <1>2 DEF DisplaySleeps, RunStarts, RunCompares, Turn
<1>3. ASSUME NEW checks \in BOOLEAN, DisplayEnds(checks)
      PROVE  /\ i' = i
             /\ DisplayTaskState = "ERROR" /\ display = "LOOP" => UNCHANGED lines
  BY <1>3
     DEF DisplayEnds, DisplayInitDone, DisplayRebootDone, Display_Start_up,
         DisplayIdles, RunEnds, Turn
<1> QED
  BY <1>1, <1>2, <1>3 DEF Next, DisplayStep

\* The core of ErrorShown: a lasting error is found in at most a round of the
\* index and then stays on the display, for every error and every range of the
\* index.
THEOREM ErrorIsFound == Spec => ErrorSought
<1> DEFINE
      Sought(e) ==
        /\ (\E checks \in BOOLEAN : Display_Error(checks)) =>
             \/ errorTimer /\ UNCHANGED <<lines, i>> /\ i \in {2 * e, 2 * e + 1}
             \/ i = 2 * e /\ (line1 = Junk \/ Shows(e)')
             \/ Away(e)' < Away(e)
        /\ i # 2 * e + 1 => i' # 2 * e + 1
        /\ /\ Shows(e) /\ i # 2 * e + 1
           /\ DisplayTaskState = "ERROR" /\ display = "LOOP"
           => Shows(e)' \/ Glitch
<1>1. IInv /\ [Next]_vars =>
        [\A e \in BatteryErrors : uiErrorCode = {e} => Sought(e)]_vars
  <2> SUFFICES ASSUME IInv, Next, NEW e \in BatteryErrors, uiErrorCode = {e}
               PROVE  Sought(e)
    OBVIOUS
  <2>1. /\ i \in Nat /\ i < IndexMod /\ IndexMod \in Nat /\ IndexMod > 14
        /\ e \in {0, 1, 2}
    BY ScreenAssumption DEF IInv, ScreenTypeOK, BatteryErrors, Battery_Empty,
         Battery_Under, Battery_Over, ERROR_NUM
  <2>2. CASE \E checks \in BOOLEAN : Display_Error(checks)
    <3>1. PICK checks \in BOOLEAN : Display_Error(checks)
      BY <2>2
    <3>2. CASE errorTimer /\ UNCHANGED <<lines, i>> /\ i \in {2 * e, 2 * e + 1}
      BY <3>2 DEF Shows, lines
    <3>3. CASE i = 2 * e /\ i' = 2 * e + 2
               /\ Write(error1(2 * e), error1(2 * e + 1))
      <4>1. \/ line1 = Junk /\ UNCHANGED lines
            \/ Shows(e)'
        BY <3>3 DEF Write, Shows, error1
      <4>2. Shows(e) => Shows(e)'
        BY <4>1 DEF Shows, lines
      <4>3. i' # 2 * e + 1
        BY <2>1, <3>3
      <4> QED
        BY <3>3, <4>1, <4>2, <4>3
    <3>4. CASE i = 2 * e + 1 /\ i' = 2 * e + 3
      BY <2>1, <3>4 DEF Away
    <3>5. CASE i \notin {2 * e, 2 * e + 1} /\ UNCHANGED lines
               /\ i' = IF i + 1 = IndexMod THEN 0 ELSE i + 1
      <4>1. Away(e)' < Away(e) /\ i' # 2 * e + 1
        BY <2>1, <3>5 DEF Away
      <4> QED
        BY <3>5, <4>1 DEF Shows, lines
    <3> QED
      BY <3>1, <3>2, <3>3, <3>4, <3>5, IndexSteps
  <2>3. CASE Glitch
    BY <2>2, <2>3 DEF Glitch
  <2>4. CASE ~Glitch /\ ~\E checks \in BOOLEAN : Display_Error(checks)
    <3>1. /\ i' = i
          /\ DisplayTaskState = "ERROR" /\ display = "LOOP" => UNCHANGED lines
      BY <2>4, OnlyErrorTurns
    <3> QED
      BY <2>4, <3>1 DEF Shows, lines
  <2> QED
    BY <2>2, <2>3, <2>4
<1>2. Spec => [][Next]_vars
  BY DEF Spec
<1> QED
  BY Invariant, <1>1, <1>2, PTL DEF ErrorSought
=============================================================================
