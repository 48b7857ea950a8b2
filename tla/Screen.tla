-------------------------------- MODULE Screen ---------------------------------
(***************************************************************************)
(* What the display shows: the Display thread (applications/app_display.c, *)
(* priority 6) with the text it writes and reads back, under the states    *)
(* Task (9) sets and the errors and voltages of Battery.  The machine is   *)
(* on: closing and updating are in AppControl.                             *)
(*                                                                         *)
(* A turn of Display is one step, except where it sleeps and where it      *)
(* compares the supply voltage, which the timer thread changes meanwhile.  *)
(* A turn of Task is one step (AppControl has it statement by statement).  *)
(* A tick is 10 ms and both sleep for one: while Display sleeps Task has   *)
(* one turn (Lockstep), in the 200 ms of an LCD initialisation any number. *)
(***************************************************************************)
EXTENDS Battery, Sequences

CONSTANTS
  Steps,          \* lower bounds of the levels 1, 2, ... of the battery: ten
                  \* voltages from 22200 to 24600
  Blinking,       \* levels that blink: 0, 1, 2
  IndexMod,       \* the index of the error text is a byte: 256
  MaxGlitches,    \* bound on the disturbances of the LCD
  Lockstep        \* Task has just one turn between two of Display

Levels == 0 .. Len(Steps)
ERROR_NUM == 7

ASSUME ScreenAssumption ==
  /\ Steps \in Seq(Nat) /\ Len(Steps) > 0
  /\ \A k \in 1 .. Len(Steps) - 1 : Steps[k] < Steps[k + 1]
  /\ Blinking \subseteq Levels
  /\ IndexMod \in Nat /\ IndexMod > 2 * ERROR_NUM
  /\ MaxGlitches \in Nat
  /\ Lockstep \in BOOLEAN

VARIABLES
  DisplayTaskState, SysTaskState,
  display,        \* where Display sleeps or works
  ran,            \* Task has had its turn
  line1, line2,   \* what the LCD shows
  i,              \* the index of Display_Error
  level,          \* the comparison Display_Run has come to
  known,          \* history: the supply was measured when they began
  batter_info,
  versionTimer, logoTimer, errorTimer,      \* running?
  glitches

lines == <<line1, line2>>
control == <<DisplayTaskState, SysTaskState, display, ran>>
startTimers == <<versionTimer, logoTimer>>
screenVars == <<control, lines, i, level, known, batter_info, startTimers,
                errorTimer, glitches>>
vars == <<batteryVars, screenVars>>

-----------------------------------------------------------------------------
(* Texts.  The LCD out of step with its four data lines shows and reads    *)
(* back Junk, until it is initialised again.                               *)

Text(name) == <<name, 0>>
Blank == Text("blank")
Junk == Text("junk")
Company == Text("company")
Version == Text("version")
OpHrs == Text("OpHrs")
Battery(k) == <<"battery", k>>

\* error1: two lines for each error.
ErrorLines ==
  <<"Battery", "Empty", "Battery", "Under", "Battery", "Over",
    "Suction", "Current", "Branch", "Current",
    "Suction", "Open", "Branch", "Open">>
error1(n) == Text(ErrorLines[n + 1])

Write(text1, text2) ==
  IF line1 = Junk THEN UNCHANGED lines ELSE line1' = text1 /\ line2' = text2

WriteInit == line1' = Blank /\ line2' = Blank

LevelTexts == {Battery(k) : k \in Levels}

\* Variant for mutation: a blinking level is not expected.
MisreadBlank(state, text1, text2) ==
  \/ state = "START_UP" /\ text1 \notin {Company, Version, Blank}
  \/ state = "RUN" /\ (text1 \notin LevelTexts \/ text2 \notin {OpHrs, Blank})
  \/ state = "ERROR" /\ \/ text1 \notin {error1(0), error1(2), Blank}
                        \/ text2 \notin {error1(1), error1(3), Blank}

\* The comparisons of DisplayErrorHandler.  clear has the length of a line, the
\* blanks of a blinking level two less; only the first 14 are compared but in
\* START_UP, where no level has been written since the LCD was cleared.
Misread(state, text1, text2) ==
  \/ state = "START_UP" /\ text1 \notin {Company, Version, Blank}
  \/ state = "RUN" /\ \/ text1 \notin LevelTexts \cup {Blank}
                      \/ text2 \notin {OpHrs, Blank}
  \/ state = "ERROR" /\ \/ text1 \notin {error1(0), error1(2), Blank}
                        \/ text2 \notin {error1(1), error1(3), Blank}

\* DisplayErrorHandler, at the end of a turn that leaves state s; it reads the
\* lines back in one second of three.
EndTurn(s, checks) ==
  /\ DisplayTaskState' = IF checks /\ Misread(s, line1', line2') THEN "REBOOT" ELSE s
  /\ display' = "LOOP"
  /\ ran' = FALSE

-----------------------------------------------------------------------------
(* Display_vTaskHandler_entry.                                             *)

Turn(state) ==
  /\ display = "LOOP"
  /\ Lockstep => ran
  /\ DisplayTaskState = state

\* IIC_LCD1602_Write_Init, up to its sleeps.
DisplaySleeps ==
  /\ Turn("INIT") \/ Turn("REBOOT")
  /\ display' = DisplayTaskState
  /\ UNCHANGED <<DisplayTaskState, ran, lines, i, level, known, batter_info,
                 startTimers, errorTimer>>

DisplayInitDone(checks) ==
  /\ display = "INIT"
  /\ WriteInit
  /\ versionTimer' = TRUE /\ logoTimer' = TRUE
  /\ EndTurn("INIT_DONE", checks)
  /\ UNCHANGED <<i, level, known, batter_info, errorTimer>>

\* Variant for mutation: the LCD is not cleared.
DisplayRebootUncleared(checks) ==
  /\ display = "REBOOT"
  /\ UNCHANGED lines
  /\ EndTurn("RUN", checks)
  /\ UNCHANGED <<i, level, known, batter_info, startTimers, errorTimer>>

DisplayRebootDone(checks) ==
  /\ display = "REBOOT"
  /\ WriteInit
  /\ EndTurn("RUN", checks)
  /\ UNCHANGED <<i, level, known, batter_info, startTimers, errorTimer>>

Display_Start_up(checks) ==
  /\ Turn("START_UP")
  /\ IF versionTimer THEN Write(Company, Blank)
     ELSE IF logoTimer THEN Write(Version, Blank)
     ELSE UNCHANGED lines
  /\ EndTurn(IF logoTimer THEN "START_UP" ELSE "START_UP_DONE", checks)
  /\ UNCHANGED <<i, level, known, batter_info, startTimers, errorTimer>>

\* Variant for mutation: an error without its bit is not skipped.
Display_ErrorStuck(checks) ==
  /\ Turn("ERROR")
  /\ IF i \div 2 \in uiErrorCode /\ ~errorTimer
     THEN /\ errorTimer' = TRUE
          /\ Write(error1(i), error1(i + 1))
          /\ i' = IF i + 2 >= ERROR_NUM * 2 THEN 0 ELSE i + 2
     ELSE UNCHANGED <<errorTimer, lines, i>>
  /\ EndTurn("ERROR", checks)
  /\ UNCHANGED <<level, known, batter_info, startTimers>>

\* With the bit set: the two lines from i on, every two seconds; without: on.
\* The last line of the last error has no successor, but its bit is never set.
Display_Error(checks) ==
  /\ Turn("ERROR")
  /\ IF i \div 2 \in uiErrorCode
     THEN IF errorTimer THEN UNCHANGED <<errorTimer, lines, i>>
          ELSE /\ errorTimer' = TRUE
               /\ Write(error1(i), error1(i + 1))
               /\ i' = IF i + 2 >= ERROR_NUM * 2 THEN 0 ELSE i + 2
     ELSE i' = (i + 1) % IndexMod /\ UNCHANGED <<errorTimer, lines>>
  /\ EndTurn("ERROR", checks)
  /\ UNCHANGED <<level, known, batter_info, startTimers>>

DisplayIdles(checks) ==
  /\ Turn("INIT_DONE") \/ Turn("START_UP_DONE")
  /\ EndTurn(DisplayTaskState, checks)
  /\ UNCHANGED <<lines, i, level, known, batter_info, startTimers, errorTimer>>

-----------------------------------------------------------------------------
(* Display_Run: the supply voltage is read again for each level.           *)

RunStarts ==
  /\ Turn("RUN")
  /\ display' = "RUN"
  /\ level' = Len(Steps) /\ known' = (supply_voltage # 0)
  /\ UNCHANGED <<DisplayTaskState, ran, lines, i, batter_info, startTimers,
                 errorTimer>>

AtLevel(k) ==
  /\ k > 0 => supply_voltage >= Steps[k]
  /\ k < Len(Steps) => supply_voltage < Steps[k + 1]

\* Variant for mutation: nothing is reported in the dark half of a blinking level.
RunComparesDark ==
  /\ display = "RUN"
  /\ IF AtLevel(level)
     THEN \/ Write(Battery(level), line2) /\ batter_info' = level
          \/ level \in Blinking /\ Write(Blank, line2) /\ UNCHANGED batter_info
     ELSE UNCHANGED <<lines, batter_info>>
  /\ IF level > 0 THEN level' = level - 1 /\ UNCHANGED display
     ELSE display' = "USE_TIME" /\ UNCHANGED level
  /\ UNCHANGED <<DisplayTaskState, ran, i, known, startTimers, errorTimer>>

RunCompares ==
  /\ display = "RUN"
  /\ IF AtLevel(level)
     THEN /\ \/ Write(Battery(level), line2)
             \/ level \in Blinking /\ Write(Blank, line2)
          /\ batter_info' = level
     ELSE UNCHANGED <<lines, batter_info>>
  /\ IF level > 0 THEN level' = level - 1 /\ UNCHANGED display
     ELSE display' = "USE_TIME" /\ UNCHANGED level
  /\ UNCHANGED <<DisplayTaskState, ran, i, known, startTimers, errorTimer>>

\* Display_UseTime; the sign for the network stands behind the level and is
\* not compared.
RunEnds(checks) ==
  /\ display = "USE_TIME"
  /\ Write(line1, OpHrs)
  /\ EndTurn("RUN", checks)
  /\ UNCHANGED <<i, level, known, batter_info, startTimers, errorTimer>>

DisplayEnds(checks) ==
  \/ DisplayInitDone(checks) \/ DisplayRebootDone(checks)
  \/ Display_Start_up(checks) \/ Display_Error(checks) \/ DisplayIdles(checks)
  \/ RunEnds(checks)

DisplayStep ==
  /\ \/ DisplaySleeps \/ RunStarts \/ RunCompares
     \/ \E checks \in BOOLEAN : DisplayEnds(checks)
  /\ UNCHANGED <<batteryVars, SysTaskState, glitches>>

-----------------------------------------------------------------------------
(* Task_vTaskHandler_Entry; the parameters have been read when the display *)
(* is initialised.                                                         *)

TaskTurn(state) ==
  /\ display \notin {"RUN", "USE_TIME"}
  /\ Lockstep /\ display = "LOOP" => ~ran
  /\ SysTaskState = state

TaskInit ==
  /\ TaskTurn("INIT")
  /\ SysTaskState' = IF DisplayTaskState = "INIT_DONE" THEN "START" ELSE "INIT"
  /\ UNCHANGED DisplayTaskState

TaskStart ==
  /\ TaskTurn("START")
  /\ DisplayTaskState' = "START_UP"
  /\ SysTaskState' = "IDLE"

TaskIdle ==
  /\ TaskTurn("IDLE")
  /\ SysTaskState' = IF DisplayTaskState \in {"START_UP_DONE", "ERROR", "RUN"}
                     THEN "RUN" ELSE "IDLE"
  /\ UNCHANGED DisplayTaskState

TaskRun ==
  /\ TaskTurn("RUN")
  /\ IF uiErrorCode # {}
     THEN SysTaskState' = "ERROR" /\ UNCHANGED DisplayTaskState
     ELSE SysTaskState' = "IDLE" /\ DisplayTaskState' = "RUN"

TaskError ==
  /\ TaskTurn("ERROR")
  /\ DisplayTaskState' = "ERROR"
  /\ SysTaskState' = IF uiErrorCode = {} THEN "IDLE" ELSE "ERROR"

TaskStep ==
  /\ TaskInit \/ TaskStart \/ TaskIdle \/ TaskRun \/ TaskError
  /\ ran' = TRUE
  /\ UNCHANGED <<batteryVars, display, lines, i, level, known, batter_info, startTimers,
                 errorTimer, glitches>>

-----------------------------------------------------------------------------
VersionTimer ==
  /\ versionTimer /\ versionTimer' = FALSE
  /\ UNCHANGED <<batteryVars, control, lines, i, level, known, batter_info, logoTimer,
                 errorTimer, glitches>>

\* Three seconds after the start: the timer of the supply came in every one.
LogoTimer ==
  /\ logoTimer /\ ~versionTimer /\ supply_voltage # 0
  /\ logoTimer' = FALSE
  /\ UNCHANGED <<batteryVars, control, lines, i, level, known, batter_info,
                 versionTimer, errorTimer, glitches>>

ErrorTimer ==
  /\ errorTimer /\ errorTimer' = FALSE
  /\ UNCHANGED <<batteryVars, control, lines, i, level, known, batter_info, startTimers,
                 glitches>>

\* A disturbance of the lines to the LCD.
Glitch ==
  /\ glitches < MaxGlitches
  /\ glitches' = glitches + 1
  /\ line1' = Junk /\ line2' = Junk
  /\ UNCHANGED <<batteryVars, control, i, level, known, batter_info, startTimers,
                 errorTimer>>

Init ==
  /\ BatteryInit
  /\ DisplayTaskState = "INIT" /\ SysTaskState = "INIT"
  /\ display = "LOOP" /\ ran = TRUE
  /\ line1 = Junk /\ line2 = Junk
  /\ i = 0 /\ level = 0 /\ known = FALSE /\ batter_info = 0
  /\ versionTimer = FALSE /\ logoTimer = FALSE /\ errorTimer = FALSE
  /\ glitches = 0

Next ==
  \/ BatteryStep /\ UNCHANGED screenVars
  \/ DisplayStep \/ TaskStep
  \/ VersionTimer \/ LogoTimer \/ ErrorTimer
  \/ Glitch

Spec == Init /\ [][Next]_vars

\* Display and Task come to every turn, timers expire, the supply is measured
\* every second, and one of the many readings back in a second meets Task while
\* it waits for Display.
FairSpec ==
  /\ Spec
  /\ WF_vars(DisplayStep) /\ WF_vars(TaskStep)
  /\ WF_vars(VersionTimer) /\ WF_vars(LogoTimer) /\ WF_vars(ErrorTimer)
  /\ WF_vars(BatteryStep /\ UNCHANGED screenVars /\ timer' # timer)
  /\ SF_vars(DisplayStep /\ SysTaskState = "IDLE" /\ DisplayEnds(TRUE))

-----------------------------------------------------------------------------
TypeOK ==
  /\ BatteryTypeOK
  /\ DisplayTaskState \in {"INIT", "INIT_DONE", "START_UP", "START_UP_DONE",
                           "RUN", "ERROR", "REBOOT"}
  /\ SysTaskState \in {"INIT", "START", "IDLE", "RUN", "ERROR"}
  /\ display \in {"LOOP", "INIT", "REBOOT", "RUN", "USE_TIME"}
  /\ ran \in BOOLEAN
  /\ i \in 0 .. IndexMod - 1
  /\ level \in Levels /\ batter_info \in Levels /\ known \in BOOLEAN
  /\ versionTimer \in BOOLEAN /\ logoTimer \in BOOLEAN /\ errorTimer \in BOOLEAN
  /\ glitches \in 0 .. MaxGlitches

\* The level on the display is the one reported as batter_info, whatever the
\* filter did between the comparisons.
Level1 ==
  \/ line1 = Battery(batter_info)
  \/ line1 = Blank /\ batter_info \in Blinking
LevelShown ==
  DisplayTaskState = "RUN" /\ display = "LOOP" /\ line2 = OpHrs /\ known => Level1

\* DisplayErrorHandler never restarts a display that is in order while the
\* machine starts or runs; a display that is out of order may be.
HealthyKept ==
  [][DisplayTaskState' = "REBOOT" /\ DisplayTaskState # "REBOOT" =>
       \/ line1 = Junk \/ DisplayTaskState = "ERROR"
       \/ DisplayTaskState = "RUN" /\ ~known]_vars

\* An error that lasts is shown in the end, and stays, on an LCD that is not
\* disturbed.
Shows(e) == line1 = error1(2 * e) /\ line2 = error1(2 * e + 1)
ErrorShown ==
  \A e \in BatteryErrors :
    <>[](uiErrorCode = {e}) => <>[](Shows(e) \/ line1 = Junk)

\* An LCD that is out of order is initialised again, unless an error lasts:
\* then Task sets the state anew before Display comes to restart it.
Repaired == (line1 = Junk) ~> (line1 # Junk \/ SysTaskState = "ERROR")
=============================================================================
