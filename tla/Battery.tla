-------------------------------- MODULE Battery --------------------------------
(***************************************************************************)
(* The supply voltage: sampled and averaged by the ADC thread (priority 3),*)
(* judged by the Error thread (4), filtered over a minute by a timer that  *)
(* runs in the timer thread (4).  Voltages are in millivolts, rounded down.*)
(*                                                                         *)
(* The model starts when the first average has been taken and judged: 130  *)
(* ms after the start, before the display is initialised.  Until then the  *)
(* Error thread has seen 0 V.                                              *)
(***************************************************************************)
EXTENDS Integers

CONSTANTS
  Counts,         \* steady inputs of the converter
  Spikes,         \* disturbed ones
  Minute,         \* readings of the supply filter: 60, one a second
  MaxChanges      \* bound on the number of averages taken

ASSUME BatteryAssumption ==
  /\ Counts \subseteq 1129 .. 4095 /\ Counts # {}      \* 10 V: the machine is on
  /\ Spikes \subseteq 0 .. 4095
  /\ Minute \in Nat \ {0}
  /\ MaxChanges \in Nat

VARIABLES
  fConvertValue,          \* the last average
  uiErrorCode,            \* a set of error numbers
  supply_voltage, supply_voltage_buff, supply_voltage_count,
  timer,                  \* the statement of the timer
  seen,                   \* history: errors the input called for so far
  lowest,                 \* history: the lowest voltage at the input
  changes

measured == <<fConvertValue, changes>>
supply == <<supply_voltage, supply_voltage_buff, supply_voltage_count, timer>>
batteryVars == <<measured, supply, uiErrorCode, seen, lowest>>

-----------------------------------------------------------------------------
(* ADC_vCalculateADValue and ADC_vValueHanler2: six samples, without the   *)
(* largest and the smallest.                                               *)

Samples == 1 .. 6                           \* ADC_SAMPLE_TIMES
Largest(raw) == CHOOSE m \in {raw[j] : j \in Samples} : \A j \in Samples : raw[j] <= m
Smallest(raw) == CHOOSE m \in {raw[j] : j \in Samples} : \A j \in Samples : m <= raw[j]
Total(raw) == raw[1] + raw[2] + raw[3] + raw[4] + raw[5] + raw[6]

\* Variant for mutation: the smallest sample is kept.
AverageKeepingLow(raw) == (Total(raw) - Largest(raw)) \div 5

Average(raw) == (Total(raw) - Largest(raw) - Smallest(raw)) \div 4

Millivolts(ad) == (ad * 11000) \div 1241

\* Six samples of a steady input, one of them disturbed.
Batch(ad, spike, k) == [j \in Samples |-> IF j = k THEN spike ELSE ad]
Outcomes ==
  {[input |-> Millivolts(ad), read |-> Millivolts(Average(Batch(ad, spike, k)))] :
     ad \in Counts, spike \in Counts \cup Spikes, k \in Samples}

-----------------------------------------------------------------------------
(* Error_TaskHandler.                                                      *)

Battery_Empty == 0
Battery_Under == 1
Battery_Over == 2
BatteryErrors == {Battery_Empty, Battery_Under, Battery_Over}

Called(volts) ==
  {e \in BatteryErrors :
     \/ e = Battery_Under /\ volts < 19200
     \/ e = Battery_Empty /\ 19200 < volts /\ volts < 22000
     \/ e = Battery_Over /\ 30500 < volts}

\* In the normal range Under is deleted twice and Over never; a reading that
\* equals a threshold changes nothing.
Cleared(volts) ==
  {e \in BatteryErrors \ Called(volts) :
     /\ volts \notin {19200, 22000, 30500}
     /\ e = Battery_Over => volts < 22000}

Judge(errors, volts) == (errors \ Cleared(volts)) \cup Called(volts)

\* The errors of a start: 0 V, then the first average.
FirstErrors(volts) == Judge({Battery_Under}, volts)

BatteryInit ==
  /\ \E outcome \in Outcomes :
       /\ fConvertValue = outcome.read
       /\ uiErrorCode = FirstErrors(outcome.read)
       /\ seen = FirstErrors(outcome.input)
       /\ lowest = outcome.input
  /\ supply_voltage = 0 /\ supply_voltage_buff = 0 /\ supply_voltage_count = 0
  /\ timer = "WAIT"
  /\ changes = 0

ADC_vCalculateADValue ==
  /\ changes < MaxChanges
  /\ changes' = changes + 1
  /\ \E outcome \in Outcomes :
       /\ fConvertValue' = outcome.read
       /\ seen' = seen \cup Called(outcome.input)
       /\ lowest' = IF outcome.input < lowest THEN outcome.input ELSE lowest
  /\ UNCHANGED <<supply, uiErrorCode>>

Error_TaskHandler ==
  /\ uiErrorCode' = Judge(uiErrorCode, fConvertValue)
  /\ UNCHANGED <<measured, supply, seen, lowest>>

-----------------------------------------------------------------------------
(* supply_voltage_timeout.  The ADC thread may run between its two reads.  *)

\* Below 10 V the machine was off: take the reading.
SupplyFirst ==
  /\ timer = "WAIT"
  /\ supply_voltage' = IF supply_voltage < 10000 THEN fConvertValue
                       ELSE supply_voltage
  /\ timer' = "ADD"
  /\ UNCHANGED <<measured, uiErrorCode, supply_voltage_buff, supply_voltage_count,
                 seen, lowest>>

\* Variant for mutation: the count goes on after a minute.
SupplyAddCountingOn ==
  /\ timer = "ADD"
  /\ LET sum == supply_voltage_buff + fConvertValue
         number == supply_voltage_count + 1
     IN IF number % Minute = 0
        THEN /\ supply_voltage_buff' = 0 /\ supply_voltage_count' = number % 256
             /\ supply_voltage' = IF supply_voltage < sum \div number
                                  THEN supply_voltage ELSE sum \div number
        ELSE /\ supply_voltage_buff' = sum /\ supply_voltage_count' = number
             /\ UNCHANGED supply_voltage
  /\ timer' = "WAIT"
  /\ UNCHANGED <<measured, uiErrorCode, seen, lowest>>

SupplyAdd ==
  /\ timer = "ADD"
  /\ LET sum == supply_voltage_buff + fConvertValue
         number == supply_voltage_count + 1
     IN IF number = Minute
        THEN /\ supply_voltage_buff' = 0 /\ supply_voltage_count' = 0
             /\ supply_voltage' = IF supply_voltage < sum \div number
                                  THEN supply_voltage ELSE sum \div number
        ELSE /\ supply_voltage_buff' = sum /\ supply_voltage_count' = number
             /\ UNCHANGED supply_voltage
  /\ timer' = "WAIT"
  /\ UNCHANGED <<measured, uiErrorCode, seen, lowest>>

BatteryStep ==
  \/ ADC_vCalculateADValue \/ Error_TaskHandler \/ SupplyFirst \/ SupplyAdd

-----------------------------------------------------------------------------
BatteryTypeOK ==
  /\ fConvertValue \in Nat
  /\ uiErrorCode \subseteq BatteryErrors
  /\ supply_voltage \in Nat /\ supply_voltage_buff \in Nat
  /\ supply_voltage_count \in 0 .. Minute - 1
  /\ timer \in {"WAIT", "ADD"}
  /\ seen \subseteq BatteryErrors
  /\ lowest \in Nat
  /\ changes \in 0 .. MaxChanges

\* One disturbed sample in six, and the two reads of the timer that may come
\* from different averages, never bring the filtered voltage below the lowest
\* one at the input.
SupplyAboveLowest ==
  supply_voltage # 0 => supply_voltage >= lowest

\* An error was called for by the voltage at the input, or is left from the
\* start.
ErrorsReal == uiErrorCode \subseteq seen
=============================================================================
