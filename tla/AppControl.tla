------------------------------ MODULE AppControl ------------------------------
(***************************************************************************)
(* Switching the machine on and off, the working hours and the restart for *)
(* an update: the Task, Display, Flash, Key and Error threads and the OTA  *)
(* receiver of the application, with the states they share.                *)
(*                                                                         *)
(* Priorities (a lower number preempts): Key and Error 4, Display and      *)
(* Flash 6, OTA 7, Task 9.  A thread therefore sees others change its data *)
(* in two ways: a thread of higher priority runs between any two of its    *)
(* steps; one of lower priority runs only while it sleeps.  The turns of   *)
(* Display and Flash between two sleeps are one step here; Task and OTA go *)
(* statement by statement, as far as they touch shared data.  Only a test  *)
(* of the key or of the errors is one step with what it decides on: as no  *)
(* thread but Task acts on them, a change between the two can as well come *)
(* after both.                                                             *)
(***************************************************************************)
EXTENDS Naturals

CONSTANTS
  MaxHours,     \* bound on the working hours
  MaxMessages,  \* bound on the number of OTA messages
  LcdReboots,   \* the display may read back what it does not expect
  SteadyKey,    \* the Off key is not released before the save it caused
  CalmOta       \* the last handshake comes while Task sleeps and no LCD
                \* initialisation is under way or due

ASSUME ControlAssumption ==
  /\ MaxHours \in Nat /\ MaxMessages \in Nat
  /\ LcdReboots \in BOOLEAN /\ SteadyKey \in BOOLEAN /\ CalmOta \in BOOLEAN

VARIABLES
  SysTaskState, DisplayTaskState, FlashTaskState,
  task,           \* the statement Task has come to
  nextState,      \* what it is about to write to SysTaskState
  display, flash, \* where Display sleeps, whether Flash has begun
  ota,            \* the statement the OTA receiver has come to
  handshakes,
  Off_Key_Flag, uiErrorCode,
  logoTimer, closeTimer,      \* running?
  pow,            \* the port that holds the supply
  hours, durable, \* working hours on the clock and in flash
  asked,          \* the hours when the last save was asked for
  messages

threads == <<task, nextState, display, flash, ota>>
states == <<SysTaskState, DisplayTaskState, FlashTaskState>>
inputs == <<Off_Key_Flag, uiErrorCode>>
timers == <<logoTimer, closeTimer>>
count == <<hours, durable, asked>>
vars == <<threads, states, inputs, timers, count, pow, handshakes, messages>>

-----------------------------------------------------------------------------
\* The variables of the application after a start of the processor.
Started ==
  /\ SysTaskState = "INIT" /\ DisplayTaskState = "INIT"
  /\ FlashTaskState = "INIT"
  /\ task = "SLEEP" /\ nextState = "INIT"
  /\ display = "READY" /\ flash = "READY" /\ ota = "WAIT"
  /\ handshakes = "FIRST"
  /\ Off_Key_Flag = FALSE /\ uiErrorCode = FALSE
  /\ logoTimer = FALSE /\ closeTimer = FALSE
  /\ pow = FALSE
  /\ hours = 0

Init == Started /\ durable = 0 /\ asked = 0 /\ messages = 0

Restart ==
  /\ SysTaskState' = "INIT" /\ DisplayTaskState' = "INIT"
  /\ FlashTaskState' = "INIT"
  /\ task' = "SLEEP" /\ nextState' = "INIT"
  /\ display' = "READY" /\ flash' = "READY" /\ ota' = "WAIT"
  /\ handshakes' = "FIRST"
  /\ Off_Key_Flag' = FALSE /\ uiErrorCode' = FALSE
  /\ logoTimer' = FALSE /\ closeTimer' = FALSE
  /\ pow' = FALSE
  /\ hours' = 0
  /\ asked' = durable
  /\ UNCHANGED <<durable, messages>>

-----------------------------------------------------------------------------
(* Flash, seen from the threads below it: a search with its load, or a     *)
(* save, is made without sleeping (ParamStore shows how).                  *)

FlashLoad ==
  /\ FlashTaskState = "INIT"
  /\ hours' = durable
  /\ FlashTaskState' = "READ_DONE"
  /\ UNCHANGED <<durable, asked>>

\* Variant for mutation: the state is reported before the record is written.
FlashSaveEarly ==
  /\ FlashTaskState = "SAVE"
  /\ FlashTaskState' = "SAVE_DONE"
  /\ UNCHANGED count

FlashSave ==
  /\ FlashTaskState = "SAVE"
  /\ durable' = hours
  /\ FlashTaskState' = "SAVE_DONE"
  /\ UNCHANGED <<hours, asked>>

FlashTurn ==
  /\ FlashLoad \/ FlashSave
  /\ flash' = "SLEEP"
  /\ UNCHANGED <<SysTaskState, DisplayTaskState, task, nextState, display, ota,
                 inputs, timers, pow, handshakes, messages>>

-----------------------------------------------------------------------------
(* Display.                                                                *)

\* DisplayErrorHandler, at the end of a turn that leaves state s.
ErrorHandler(s) ==
  \/ DisplayTaskState' = s
  \/ /\ LcdReboots
     /\ s \in {"START_UP", "RUN", "ERROR"}
     /\ DisplayTaskState' = "REBOOT"

\* The turns that sleep in IIC_LCD1602_Write_Init or in Display_Close.
DisplayBlocks ==
  /\ display \in {"READY", "LOOP"}
  /\ DisplayTaskState \in {"INIT", "REBOOT", "CLOSE"}
  /\ display' = DisplayTaskState
  /\ UNCHANGED <<DisplayTaskState, logoTimer>>

\* Variant for mutation: the end of the initialisation is not reported.
DisplayInitUnreported ==
  /\ display = "INIT"
  /\ logoTimer' = TRUE
  /\ display' = "LOOP"
  /\ UNCHANGED DisplayTaskState

DisplayInitDone ==
  /\ display = "INIT"
  /\ logoTimer' = TRUE
  /\ DisplayTaskState' = "INIT_DONE"
  /\ display' = "LOOP"

DisplayRebootDone ==
  /\ display = "REBOOT"
  /\ ErrorHandler("RUN")
  /\ display' = "LOOP"
  /\ UNCHANGED logoTimer

DisplayCloseDone ==
  /\ display = "CLOSE"
  /\ ErrorHandler(DisplayTaskState)
  /\ display' = "LOOP"
  /\ UNCHANGED logoTimer

DisplayShows ==
  /\ display = "LOOP"
  /\ DisplayTaskState \notin {"INIT", "REBOOT", "CLOSE"}
  /\ IF DisplayTaskState = "START_UP" /\ ~logoTimer
     THEN ErrorHandler("START_UP_DONE") ELSE ErrorHandler(DisplayTaskState)
  /\ UNCHANGED <<display, logoTimer>>

DisplayTurn ==
  /\ \/ DisplayBlocks \/ DisplayInitDone \/ DisplayRebootDone
     \/ DisplayCloseDone \/ DisplayShows
  /\ UNCHANGED <<SysTaskState, FlashTaskState, task, nextState, flash, ota,
                 inputs, closeTimer, count, pow, handshakes, messages>>

-----------------------------------------------------------------------------
(* OTA_vRxInfo.                                                            *)

HigherAsleep == flash = "SLEEP" /\ display # "READY"

Calm ==
  /\ task = "SLEEP"
  /\ {display, DisplayTaskState} \cap {"INIT", "REBOOT"} = {}

OtaMessage(payload) ==
  /\ HigherAsleep /\ ota = "WAIT"
  /\ messages < MaxMessages
  /\ messages' = messages + 1
  /\ CASE handshakes = "FIRST" /\ payload = 0 ->
            handshakes' = "SECOND" /\ UNCHANGED ota
       [] handshakes = "SECOND" /\ payload = 2 ->
            /\ CalmOta => Calm
            /\ ota' = "SAVE"
            /\ UNCHANGED handshakes
       [] OTHER -> UNCHANGED <<handshakes, ota>>
  /\ UNCHANGED <<task, nextState, display, flash, states, inputs, timers, count,
                 pow>>

OtaSave ==
  /\ ota = "SAVE"
  /\ FlashTaskState' = "SAVE"
  /\ asked' = hours
  /\ ota' = "SHOW"
  /\ UNCHANGED <<SysTaskState, DisplayTaskState, hours, durable>>

OtaShow ==
  /\ ota = "SHOW"
  /\ DisplayTaskState' = "OTA"
  /\ ota' = "TASK"
  /\ UNCHANGED <<SysTaskState, FlashTaskState, count>>

App_Task ==
  /\ ota = "TASK"
  /\ SysTaskState' = "OTA"
  /\ ota' = "WAIT"
  /\ UNCHANGED <<DisplayTaskState, FlashTaskState, count>>

OtaStep ==
  /\ OtaSave \/ OtaShow \/ App_Task
  /\ UNCHANGED <<task, nextState, display, flash, inputs, timers, pow,
                 handshakes, messages>>

-----------------------------------------------------------------------------
(* Task_vTaskHandler_Entry.                                                *)

At(statement) == task = statement
Goto(statement) == task' = statement /\ UNCHANGED nextState
ThenSet(state) == task' = "SET" /\ nextState' = state

\* The switch: SysTaskState is read once a turn.
TaskSwitch ==
  /\ At("SLEEP")
  /\ Goto(SysTaskState)
  /\ UNCHANGED <<states, closeTimer, pow, asked>>

TaskSet ==
  /\ At("SET")
  /\ SysTaskState' = nextState
  /\ Goto("SLEEP")
  /\ UNCHANGED <<DisplayTaskState, FlashTaskState, closeTimer, pow, asked>>

TaskInit ==
  /\ At("INIT")
  /\ pow' = TRUE
  /\ IF DisplayTaskState = "INIT_DONE" /\ FlashTaskState = "READ_DONE"
     THEN ThenSet("START") ELSE Goto("SLEEP")
  /\ UNCHANGED <<states, closeTimer, asked>>

TaskStart ==
  /\ At("START")
  /\ DisplayTaskState' = "START_UP"
  /\ ThenSet("IDLE")
  /\ UNCHANGED <<SysTaskState, FlashTaskState, closeTimer, pow, asked>>

\* Variant for mutation: the machine is closed without asking for a save.
AskSaveNot ==
  /\ asked' = hours
  /\ closeTimer' = TRUE
  /\ UNCHANGED FlashTaskState

AskSave ==
  /\ FlashTaskState' = "SAVE"
  /\ asked' = hours
  /\ closeTimer' = TRUE

TaskIdle ==
  /\ At("IDLE")
  /\ \/ /\ Off_Key_Flag
        /\ AskSave
        /\ ThenSet("CLOSE")
     \/ /\ ~Off_Key_Flag
        /\ IF DisplayTaskState \in {"START_UP_DONE", "ERROR", "RUN"}
           THEN ThenSet("RUN") ELSE Goto("SLEEP")
        /\ UNCHANGED <<FlashTaskState, asked, closeTimer>>
  /\ UNCHANGED <<SysTaskState, DisplayTaskState, pow>>

TaskRun ==
  /\ At("RUN")
  /\ \/ uiErrorCode /\ ThenSet("ERROR") /\ UNCHANGED DisplayTaskState
     \/ ~uiErrorCode /\ ThenSet("IDLE") /\ DisplayTaskState' = "RUN"
  /\ UNCHANGED <<SysTaskState, FlashTaskState, closeTimer, pow, asked>>

TaskError ==
  /\ At("ERROR")
  /\ DisplayTaskState' = "ERROR"
  /\ Goto("ERROR_KEY")
  /\ UNCHANGED <<SysTaskState, FlashTaskState, closeTimer, pow, asked>>

TaskErrorKey ==
  /\ At("ERROR_KEY")
  /\ \/ Off_Key_Flag /\ AskSave /\ Goto("ERROR_CLOSE")
     \/ /\ ~Off_Key_Flag
        /\ Goto("ERROR_GONE")
        /\ UNCHANGED <<FlashTaskState, asked, closeTimer>>
  /\ UNCHANGED <<SysTaskState, DisplayTaskState, pow>>

TaskErrorClose ==
  /\ At("ERROR_CLOSE")
  /\ SysTaskState' = "CLOSE"
  /\ Goto("ERROR_GONE")
  /\ UNCHANGED <<DisplayTaskState, FlashTaskState, closeTimer, pow, asked>>

TaskErrorGone ==
  /\ At("ERROR_GONE")
  /\ IF uiErrorCode THEN Goto("SLEEP") ELSE ThenSet("IDLE")
  /\ UNCHANGED <<states, closeTimer, pow, asked>>

TaskClose ==
  /\ At("CLOSE")
  /\ DisplayTaskState' = "CLOSE"
  /\ Goto("CLOSE_SAVED")
  /\ UNCHANGED <<SysTaskState, FlashTaskState, closeTimer, pow, asked>>

\* Variant for mutation: the power is cut when the delay is over.
TaskCloseUnsaved ==
  /\ At("CLOSE_SAVED")
  /\ Goto("CLOSE_DELAY")
  /\ UNCHANGED <<states, closeTimer, pow, asked>>

TaskCloseSaved ==
  /\ At("CLOSE_SAVED")
  /\ IF FlashTaskState = "SAVE_DONE" THEN Goto("CLOSE_DELAY") ELSE Goto("CLOSE_KEY")
  /\ UNCHANGED <<states, closeTimer, pow, asked>>

TaskCloseDelay ==
  /\ At("CLOSE_DELAY")
  /\ IF closeTimer THEN Goto("CLOSE_KEY") ELSE Goto("CLOSE_CUT")
  /\ UNCHANGED <<states, closeTimer, pow, asked>>

TaskCut ==
  /\ At("CLOSE_CUT")
  /\ pow' = FALSE
  /\ Goto("CLOSE_KEY")
  /\ UNCHANGED <<states, closeTimer, asked>>

\* Variant for mutation: the display is left closed.
TaskCloseKeyDark ==
  /\ At("CLOSE_KEY")
  /\ IF Off_Key_Flag THEN Goto("SLEEP") ELSE Goto("CLOSE_LOAD")
  /\ UNCHANGED <<states, closeTimer, pow, asked>>

TaskCloseKey ==
  /\ At("CLOSE_KEY")
  /\ \/ Off_Key_Flag /\ Goto("SLEEP") /\ UNCHANGED DisplayTaskState
     \/ /\ ~Off_Key_Flag
        /\ DisplayTaskState' = "INIT"
        /\ Goto("CLOSE_LOAD")
  /\ UNCHANGED <<SysTaskState, FlashTaskState, closeTimer, pow, asked>>

TaskCloseLoad ==
  /\ At("CLOSE_LOAD")
  /\ FlashTaskState' = "INIT"
  /\ ThenSet("INIT")
  /\ UNCHANGED <<SysTaskState, DisplayTaskState, closeTimer, pow, asked>>

\* Variant for mutation: the wrong state of Flash is waited for.
TaskOtaLoaded ==
  /\ At("OTA")
  /\ IF FlashTaskState = "READ_DONE" THEN Goto("OTA_SHOWN") ELSE Goto("SLEEP")
  /\ UNCHANGED <<states, closeTimer, pow, asked>>

TaskOtaSaved ==
  /\ At("OTA")
  /\ IF FlashTaskState = "SAVE_DONE" THEN Goto("OTA_SHOWN") ELSE Goto("SLEEP")
  /\ UNCHANGED <<states, closeTimer, pow, asked>>

TaskOtaShown ==
  /\ At("OTA_SHOWN")
  /\ IF DisplayTaskState = "OTA" THEN Goto("RESET") ELSE Goto("SLEEP")
  /\ UNCHANGED <<states, closeTimer, pow, asked>>

TaskStep ==
  /\ HigherAsleep /\ ota = "WAIT"
  /\ \/ TaskSwitch \/ TaskSet \/ TaskInit \/ TaskStart \/ TaskIdle \/ TaskRun
     \/ TaskError \/ TaskErrorKey \/ TaskErrorClose \/ TaskErrorGone
     \/ TaskClose \/ TaskCloseSaved \/ TaskCloseDelay \/ TaskCut
     \/ TaskCloseKey \/ TaskCloseLoad \/ TaskOtaSaved \/ TaskOtaShown
  /\ UNCHANGED <<display, flash, ota, inputs, logoTimer, hours, durable,
                 handshakes, messages>>

\* In the last statement of the OTA case.
hw_cpu_reset ==
  /\ HigherAsleep /\ ota = "WAIT"
  /\ At("RESET")
  /\ Restart

-----------------------------------------------------------------------------
(* Keys, errors, clock and supply.                                         *)

Key_Output ==
  /\ SteadyKey /\ Off_Key_Flag => FlashTaskState # "SAVE" /\ task = "SLEEP"
  /\ Off_Key_Flag' = ~Off_Key_Flag
  /\ UNCHANGED <<threads, states, uiErrorCode, timers, count, pow, handshakes,
                 messages>>

Error_TaskHandler ==
  /\ uiErrorCode' = ~uiErrorCode
  /\ UNCHANGED <<threads, states, Off_Key_Flag, timers, count, pow, handshakes,
                 messages>>

Tick ==
  /\ hours < MaxHours
  /\ hours' = hours + 1
  /\ UNCHANGED <<threads, states, inputs, timers, durable, asked, pow,
                 handshakes, messages>>

LogoTimer ==
  /\ logoTimer /\ logoTimer' = FALSE
  /\ UNCHANGED <<threads, states, inputs, closeTimer, count, pow, handshakes,
                 messages>>

CloseTimer ==
  /\ closeTimer /\ closeTimer' = FALSE
  /\ UNCHANGED <<threads, states, inputs, logoTimer, count, pow, handshakes,
                 messages>>

\* With the key off and the port released nothing holds the supply; the key
\* turned on again starts the processor.
SupplyFails == ~pow /\ Off_Key_Flag /\ Restart

Next ==
  \/ FlashTurn \/ DisplayTurn \/ OtaStep \/ TaskStep \/ hw_cpu_reset
  \/ LogoTimer \/ CloseTimer \/ SupplyFails
  \/ \E payload \in {0, 1, 2} : OtaMessage(payload)
  \/ Key_Output \/ Error_TaskHandler \/ Tick

Spec == Init /\ [][Next]_vars

FairSpec ==
  /\ Spec
  /\ WF_vars(FlashTurn) /\ WF_vars(DisplayTurn) /\ WF_vars(OtaStep)
  /\ WF_vars(TaskStep \/ hw_cpu_reset)
  /\ WF_vars(LogoTimer) /\ WF_vars(CloseTimer)

-----------------------------------------------------------------------------
(* Properties.                                                             *)

SysStates == {"INIT", "START", "IDLE", "RUN", "ERROR", "CLOSE", "OTA"}

TypeOK ==
  /\ SysTaskState \in SysStates /\ nextState \in SysStates
  /\ DisplayTaskState \in {"INIT", "INIT_DONE", "START_UP", "START_UP_DONE",
                           "RUN", "ERROR", "CLOSE", "REBOOT", "OTA"}
  /\ FlashTaskState \in {"INIT", "READ_DONE", "SAVE", "SAVE_DONE"}
  /\ task \in SysStates \cup {"SLEEP", "SET", "ERROR_KEY", "ERROR_CLOSE",
                "ERROR_GONE", "CLOSE_SAVED", "CLOSE_DELAY", "CLOSE_CUT",
                "CLOSE_KEY", "CLOSE_LOAD", "OTA_SHOWN", "RESET"}
  /\ display \in {"READY", "LOOP", "INIT", "REBOOT", "CLOSE"}
  /\ flash \in {"READY", "SLEEP"}
  /\ ota \in {"WAIT", "SAVE", "SHOW", "TASK"}
  /\ handshakes \in {"FIRST", "SECOND"}
  /\ Off_Key_Flag \in BOOLEAN /\ uiErrorCode \in BOOLEAN
  /\ logoTimer \in BOOLEAN /\ closeTimer \in BOOLEAN /\ pow \in BOOLEAN
  /\ hours \in 0 .. MaxHours /\ durable \in 0 .. MaxHours
  /\ asked \in 0 .. MaxHours
  /\ messages \in 0 .. MaxMessages

\* The supply is let go, and the processor reset for an update (which lets go
\* of the port as well), only when the working hours of the moment the save was
\* asked for are in flash, whatever keys, errors and display do in between.  Task
\* looks at the state of Flash one or two statements before it acts: a last
\* handshake just there asks for another save, which is not waited for.  CalmOta
\* excludes it.
CutsAfterSave == [][pow /\ ~pow' => durable >= asked]_vars

\* The accumulated time on the display never falls behind what it was when a
\* save was last asked for: a shut-down that is broken off loads nothing older.
KeepsCount ==
  [][hours' < hours => durable >= asked \/ flash' = "READY"]_vars

\* Task never waits for what no thread will do any more: in its four waiting
\* states the states of Display and Flash it waits for are there, or these
\* threads are on the way to them, though Task, Display and OTA write them at
\* different moments and Display writes after its sleeps.
WaitsForWhatComes ==
  task = "SLEEP" /\ ota = "WAIT" =>
    /\ SysTaskState = "INIT" =>
         /\ DisplayTaskState \in {"INIT", "INIT_DONE"}
         /\ FlashTaskState \in {"INIT", "READ_DONE"}
    /\ SysTaskState = "IDLE" =>
         DisplayTaskState \in {"START_UP", "START_UP_DONE", "RUN", "ERROR"}
    /\ SysTaskState \in {"CLOSE", "OTA"} => FlashTaskState \in {"SAVE", "SAVE_DONE"}
    /\ SysTaskState = "OTA" => DisplayTaskState = "OTA"

\* The start of the machine gets through once it holds the supply, also the one
\* after a shut-down that was broken off.
StartsUp == (SysTaskState = "INIT" /\ pow) ~> (SysTaskState # "INIT")

\* With the key off the supply is let go in the end, unless an update is
\* being prepared.
ShutdownServed == []<>(~Off_Key_Flag \/ ~pow \/ SysTaskState = "OTA")

\* An update that was agreed upon leads to the reset into the bootloader.
UpdateServed == (ota = "TASK") ~> (flash = "READY")
=============================================================================
