--------------------------- MODULE AppControlProofs ---------------------------
(***************************************************************************)
(* Proofs about switching off and updating, for any number of hours and    *)
(* messages and with or without each of the assumptions on key, display    *)
(* and messages, unless the theorem names one.                             *)
(***************************************************************************)
EXTENDS AppControl, TLAPS

USE DEF vars, threads, states, inputs, timers, count

-----------------------------------------------------------------------------
(* Types.                                                                  *)

LEMMA ZeroInRange == 0 \in 0 .. MaxHours /\ 0 \in 0 .. MaxMessages
  BY ControlAssumption

LEMMA InitType == Init => TypeOK
  BY ZeroInRange, Zenon DEF Init, Started, TypeOK, SysStates

LEMMA RestartType == TypeOK /\ Restart => TypeOK'
  BY ZeroInRange, Zenon DEF Restart, TypeOK, SysStates

LEMMA TaskType == TypeOK /\ TaskStep => TypeOK'
  BY ControlAssumption
     DEF TypeOK, SysStates, TaskStep, TaskSwitch, TaskSet, TaskInit, TaskStart,
         TaskIdle, TaskRun, TaskError, TaskErrorKey, TaskErrorClose,
         TaskErrorGone, TaskClose, TaskCloseSaved, TaskCloseDelay, TaskCut,
         TaskCloseKey, TaskCloseLoad, TaskOtaSaved, TaskOtaShown, AskSave, Goto,
         ThenSet

LEMMA NextType == TypeOK /\ [Next]_vars => TypeOK'
<1> SUFFICES ASSUME TypeOK, [Next]_vars PROVE TypeOK'
  OBVIOUS
<1>1. CASE FlashTurn
  BY <1>1 DEF TypeOK, FlashTurn, FlashLoad, FlashSave
<1>2. CASE DisplayTurn
  <2>1. CASE DisplayBlocks
    BY <1>2, <2>1 DEF TypeOK, DisplayTurn, DisplayBlocks
  <2>2. CASE DisplayInitDone
    <3>1. logoTimer' \in BOOLEAN
      BY <2>2, Zenon DEF DisplayInitDone
    <3>2. QED
      BY <1>2, <2>2, <3>1 DEF TypeOK, DisplayTurn, DisplayInitDone
  <2>3. CASE DisplayRebootDone \/ DisplayCloseDone
    BY <1>2, <2>3
       DEF TypeOK, DisplayTurn, DisplayRebootDone, DisplayCloseDone, ErrorHandler
  <2>4. CASE DisplayShows
    BY <1>2, <2>4 DEF TypeOK, DisplayTurn, DisplayShows, ErrorHandler
  <2>5. QED
    BY <1>2, <2>1, <2>2, <2>3, <2>4 DEF DisplayTurn
<1>3. CASE OtaStep
  BY <1>3 DEF TypeOK, SysStates, OtaStep, OtaSave, OtaShow, App_Task
<1>4. CASE TaskStep
  BY <1>4, TaskType
<1>5. CASE hw_cpu_reset \/ SupplyFails
  BY <1>5, RestartType DEF hw_cpu_reset, SupplyFails
<1>6. CASE LogoTimer \/ CloseTimer \/ Key_Output \/ Error_TaskHandler
  BY <1>6 DEF TypeOK, LogoTimer, CloseTimer, Key_Output, Error_TaskHandler
<1>7. ASSUME NEW payload \in {0, 1, 2}, OtaMessage(payload) PROVE TypeOK'
  BY <1>7, ControlAssumption DEF TypeOK, OtaMessage
<1>8. CASE Tick
  BY <1>8, ControlAssumption DEF TypeOK, Tick
<1>9. CASE UNCHANGED vars
  BY <1>9 DEF TypeOK
<1>10. QED
  BY <1>1, <1>2, <1>3, <1>4, <1>5, <1>6, <1>7, <1>8, <1>9 DEF Next

\* Every variable keeps its type.
THEOREM ControlTypeCorrect == Spec => []TypeOK
  BY InitType, NextType, PTL DEF Spec

-----------------------------------------------------------------------------
(* A save asked for has still the hours to save; a save done has them in   *)
(* flash.  That is inductive together with the types, as nothing loads     *)
(* between the two: Flash makes a load only from its state INIT.           *)

AskInv ==
  /\ FlashTaskState = "SAVE" => hours >= asked
  /\ FlashTaskState = "SAVE_DONE" => durable >= asked

LEMMA NextAsk == TypeOK /\ AskInv /\ [Next]_vars => AskInv'
<1> SUFFICES ASSUME TypeOK, AskInv, [Next]_vars PROVE AskInv'
  OBVIOUS
<1> hours \in Nat /\ durable \in Nat /\ asked \in Nat
  BY ControlAssumption DEF TypeOK
<1>1. CASE FlashTurn
  BY <1>1 DEF AskInv, FlashTurn, FlashLoad, FlashSave
<1>2. CASE DisplayTurn
  BY <1>2 DEF AskInv, DisplayTurn
<1>3. CASE OtaStep
  BY <1>3 DEF AskInv, OtaStep, OtaSave, OtaShow, App_Task
<1>4. CASE TaskStep
  <2>1. UNCHANGED <<hours, durable>>
    BY <1>4 DEF TaskStep
  <2>2. \/ UNCHANGED <<FlashTaskState, asked>>
        \/ FlashTaskState' = "SAVE" /\ asked' = hours
        \/ FlashTaskState' = "INIT"
    BY <1>4
       DEF TaskStep, TaskSwitch, TaskSet, TaskInit, TaskStart, TaskIdle,
           TaskRun, TaskError, TaskErrorKey, TaskErrorClose, TaskErrorGone,
           TaskClose, TaskCloseSaved, TaskCloseDelay, TaskCut, TaskCloseKey,
           TaskCloseLoad, TaskOtaSaved, TaskOtaShown, AskSave
  <2>3. QED
    BY <2>1, <2>2 DEF AskInv
<1>5. CASE hw_cpu_reset \/ SupplyFails
  BY <1>5 DEF AskInv, hw_cpu_reset, SupplyFails, Restart
<1>6. CASE LogoTimer \/ CloseTimer \/ Key_Output \/ Error_TaskHandler
  BY <1>6 DEF AskInv, LogoTimer, CloseTimer, Key_Output, Error_TaskHandler
<1>7. ASSUME NEW payload \in {0, 1, 2}, OtaMessage(payload) PROVE AskInv'
  BY <1>7 DEF AskInv, OtaMessage
<1>8. CASE Tick
  BY <1>8 DEF AskInv, Tick
<1>9. CASE UNCHANGED vars
  BY <1>9 DEF AskInv
<1>10. QED
  BY <1>1, <1>2, <1>3, <1>4, <1>5, <1>6, <1>7, <1>8, <1>9 DEF Next

LEMMA Asked == Spec => [](TypeOK /\ AskInv)
<1>1. Init => AskInv
  BY DEF Init, Started, AskInv
<1>2. QED
  BY <1>1, InitType, NextType, NextAsk, PTL DEF Spec

\* The statements of Task past a test that found the save done.
Cutting == {"CLOSE_DELAY", "CLOSE_CUT", "OTA_SHOWN", "RESET"}

\* Every step of Task that comes to one of these statements starts at a test of
\* Flash, or at another of them.
LEMMA TaskCuts ==
  TypeOK /\ TaskStep =>
    /\ pow /\ ~pow' => task = "CLOSE_CUT"
    /\ task' \in Cutting =>
         /\ task \in Cutting \/ FlashTaskState = "SAVE_DONE"
         /\ UNCHANGED <<FlashTaskState, durable, asked, hours>>
<1> SUFFICES ASSUME TypeOK, TaskStep
             PROVE  /\ pow /\ ~pow' => task = "CLOSE_CUT"
                    /\ task' \in Cutting =>
                         /\ task \in Cutting \/ FlashTaskState = "SAVE_DONE"
                         /\ UNCHANGED <<FlashTaskState, durable, asked, hours>>
  OBVIOUS
<1> UNCHANGED <<hours, durable>>
  BY DEF TaskStep
<1>1. CASE TaskSwitch \/ TaskSet \/ TaskInit \/ TaskStart
  BY <1>1
     DEF TypeOK, SysStates, Cutting, TaskSwitch, TaskSet, TaskInit, TaskStart, At,
         Goto, ThenSet
<1>2. CASE \/ TaskIdle \/ TaskRun \/ TaskError \/ TaskErrorKey \/ TaskErrorClose
           \/ TaskErrorGone
  BY <1>2
     DEF Cutting, TaskIdle, TaskRun, TaskError, TaskErrorKey, TaskErrorClose,
         TaskErrorGone, At, Goto, ThenSet
<1>3. CASE TaskClose \/ TaskCloseSaved \/ TaskCloseDelay \/ TaskCut
  BY <1>3
     DEF Cutting, TaskClose, TaskCloseSaved, TaskCloseDelay, TaskCut, At, Goto
<1>4. CASE TaskCloseKey \/ TaskCloseLoad \/ TaskOtaSaved \/ TaskOtaShown
  BY <1>4
     DEF Cutting, TaskCloseKey, TaskCloseLoad, TaskOtaSaved, TaskOtaShown, At, Goto,
         ThenSet
<1>5. QED
  BY <1>1, <1>2, <1>3, <1>4 DEF TaskStep

\* Only Task and the reset let go of the port while it holds the supply.
LEMMA CutIsInCutting ==
  TypeOK /\ Next /\ pow /\ ~pow' => task \in {"CLOSE_CUT", "RESET"}
<1> SUFFICES ASSUME TypeOK, Next, pow, ~pow' PROVE task \in {"CLOSE_CUT", "RESET"}
  OBVIOUS
<1>1. CASE TaskStep
  BY <1>1, TaskCuts
<1>2. CASE hw_cpu_reset
  BY <1>2 DEF hw_cpu_reset, At
<1>3. CASE SupplyFails
  BY <1>3 DEF SupplyFails
<1>4. ASSUME NEW payload \in {0, 1, 2}, OtaMessage(payload) PROVE FALSE
  BY <1>4 DEF OtaMessage
<1>5. CASE \/ FlashTurn \/ DisplayTurn \/ OtaStep \/ LogoTimer \/ CloseTimer
           \/ Key_Output \/ Error_TaskHandler \/ Tick
  BY <1>5
     DEF FlashTurn, DisplayTurn, OtaStep, LogoTimer, CloseTimer, Key_Output,
         Error_TaskHandler, Tick
<1>6. QED
  BY <1>1, <1>2, <1>3, <1>4, <1>5 DEF Next

\* With a last handshake that finds Task asleep, OTA is not inside one while
\* Task acts on what it has found.
DoneInv ==
  /\ ota # "WAIT" => task = "SLEEP"
  /\ task \in Cutting => FlashTaskState = "SAVE_DONE"

LEMMA NextDone ==
  ASSUME CalmOta
  PROVE  TypeOK /\ DoneInv /\ [Next]_vars => DoneInv'
<1> SUFFICES ASSUME TypeOK, DoneInv, [Next]_vars PROVE DoneInv'
  OBVIOUS
<1>1. CASE FlashTurn
  BY <1>1 DEF DoneInv, FlashTurn, FlashLoad, FlashSave
<1>2. CASE OtaStep
  BY <1>2 DEF DoneInv, Cutting, OtaStep, OtaSave, OtaShow, App_Task
<1>3. CASE TaskStep
  <2>1. ota' = "WAIT"
    BY <1>3 DEF TaskStep
  <2>2. QED
    BY <1>3, <2>1, TaskCuts DEF DoneInv
<1>4. CASE hw_cpu_reset \/ SupplyFails
  BY <1>4 DEF hw_cpu_reset, SupplyFails, Restart, DoneInv, Cutting
<1>5. ASSUME NEW payload \in {0, 1, 2}, OtaMessage(payload) PROVE DoneInv'
  <2>1. UNCHANGED <<FlashTaskState, task>> /\ ota = "WAIT"
    BY <1>5 DEF OtaMessage
  <2>2. ota' = "WAIT" \/ task = "SLEEP"
    BY <1>5, <2>1, Zenon DEF OtaMessage, Calm
  <2>3. QED
    BY <2>1, <2>2 DEF DoneInv
<1>6. CASE \/ DisplayTurn \/ LogoTimer \/ CloseTimer \/ Key_Output
           \/ Error_TaskHandler \/ Tick \/ UNCHANGED vars
  <2>1. UNCHANGED <<FlashTaskState, task, ota>>
    BY <1>6
       DEF DisplayTurn, LogoTimer, CloseTimer, Key_Output, Error_TaskHandler, Tick
  <2>2. QED
    BY <2>1 DEF DoneInv
<1>7. QED
  BY <1>1, <1>2, <1>3, <1>4, <1>5, <1>6 DEF Next

\* If the last handshake finds Task asleep, the supply is let go, by Task or by
\* the reset for an update, only with the hours of the last request in flash,
\* whatever keys, errors and a restarting display do between the test of Flash
\* and the statement that acts on it.
THEOREM ControlCutsAfterSave ==
  ASSUME CalmOta
  PROVE  Spec => CutsAfterSave
<1>1. Init => DoneInv
  BY DEF Init, Started, DoneInv, Cutting
<1>2. TypeOK /\ DoneInv /\ [Next]_vars => DoneInv'
  BY NextDone
<1>3. TypeOK /\ AskInv /\ DoneInv /\ [Next]_vars =>
        [pow /\ ~pow' => durable >= asked]_vars
  BY CutIsInCutting DEF AskInv, DoneInv, Cutting
<1>4. QED
  BY <1>1, <1>2, <1>3, Asked, PTL DEF Spec, CutsAfterSave

-----------------------------------------------------------------------------
(* Without that assumption the last handshake may ask for another save     *)
(* between test and cut.  What Task has found saved stays saved even then: *)
(* while a save is reported done, and while Task acts on one, the clock is *)
(* not behind flash, so another save cannot write older hours.             *)

AheadInv ==
  /\ FlashTaskState = "SAVE_DONE" => hours >= durable
  /\ task \in Cutting => hours >= durable /\ FlashTaskState \in {"SAVE", "SAVE_DONE"}

LEMMA NextAhead == TypeOK /\ AheadInv /\ [Next]_vars => AheadInv'
<1> SUFFICES ASSUME TypeOK, AheadInv, [Next]_vars PROVE AheadInv'
  OBVIOUS
<1> hours \in Nat /\ durable \in Nat
  BY ControlAssumption DEF TypeOK
<1>1. CASE FlashTurn
  BY <1>1 DEF AheadInv, FlashTurn, FlashLoad, FlashSave
<1>2. CASE OtaStep
  BY <1>2 DEF AheadInv, OtaStep, OtaSave, OtaShow, App_Task
<1>3. CASE TaskStep
  <2>1. UNCHANGED <<hours, durable>>
    BY <1>3 DEF TaskStep
  <2>2. FlashTaskState' = "SAVE_DONE" => FlashTaskState = "SAVE_DONE"
    BY <1>3
       DEF TaskStep, TaskSwitch, TaskSet, TaskInit, TaskStart, TaskIdle,
           TaskRun, TaskError, TaskErrorKey, TaskErrorClose, TaskErrorGone,
           TaskClose, TaskCloseSaved, TaskCloseDelay, TaskCut, TaskCloseKey,
           TaskCloseLoad, TaskOtaSaved, TaskOtaShown, AskSave
  <2>3. QED
    BY <1>3, <2>1, <2>2, TaskCuts DEF AheadInv
<1>4. CASE hw_cpu_reset \/ SupplyFails
  BY <1>4 DEF hw_cpu_reset, SupplyFails, Restart, AheadInv, Cutting
<1>5. ASSUME NEW payload \in {0, 1, 2}, OtaMessage(payload) PROVE AheadInv'
  <2>1. UNCHANGED <<FlashTaskState, task, hours, durable>>
    BY <1>5 DEF OtaMessage
  <2>2. QED
    BY <2>1 DEF AheadInv
<1>6. CASE Tick
  BY <1>6 DEF AheadInv, Tick
<1>7. CASE \/ DisplayTurn \/ LogoTimer \/ CloseTimer \/ Key_Output
           \/ Error_TaskHandler \/ UNCHANGED vars
  <2>1. UNCHANGED <<FlashTaskState, task, hours, durable>>
    BY <1>7 DEF DisplayTurn, LogoTimer, CloseTimer, Key_Output, Error_TaskHandler
  <2>2. QED
    BY <2>1 DEF AheadInv
<1>8. QED
  BY <1>1, <1>2, <1>3, <1>4, <1>5, <1>6, <1>7 DEF Next

\* The supply is let go at the end of Cutting only, which begins with the hours
\* of the last request in flash and takes nothing of them back.
CutsWhatItFound ==
  /\ pow /\ ~pow' => task \in {"CLOSE_CUT", "RESET"}
  /\ task \notin Cutting /\ task' \in Cutting => durable >= asked
  /\ task \in Cutting => durable' >= durable

LEMMA CuttingSteps ==
  TypeOK /\ AskInv /\ AheadInv /\ [Next]_vars => [CutsWhatItFound]_vars
<1> SUFFICES ASSUME TypeOK, AskInv, AheadInv, Next PROVE CutsWhatItFound
  OBVIOUS
<1> durable \in Nat
  BY ControlAssumption DEF TypeOK
<1>1. pow /\ ~pow' => task \in {"CLOSE_CUT", "RESET"}
  BY CutIsInCutting
<1>2. /\ task \notin Cutting /\ task' \in Cutting => durable >= asked
      /\ task \in Cutting => durable' >= durable
  <2>1. CASE TaskStep
    <3>1. UNCHANGED durable
      BY <2>1 DEF TaskStep
    <3>2. QED
      BY <2>1, <3>1, TaskCuts DEF AskInv
  <2>2. CASE hw_cpu_reset \/ SupplyFails
    BY <2>2 DEF hw_cpu_reset, SupplyFails, Restart, Cutting
  <2>3. CASE FlashTurn
    BY <2>3 DEF FlashTurn, FlashLoad, FlashSave, AheadInv
  <2>4. ASSUME NEW payload \in {0, 1, 2}, OtaMessage(payload)
        PROVE  UNCHANGED <<task, durable>>
    BY <2>4 DEF OtaMessage
  <2>5. CASE \/ DisplayTurn \/ OtaStep \/ LogoTimer \/ CloseTimer \/ Key_Output
             \/ Error_TaskHandler \/ Tick
    <3>1. UNCHANGED <<task, durable>>
      BY <2>5
         DEF DisplayTurn, OtaStep, OtaSave, OtaShow, App_Task, LogoTimer,
             CloseTimer, Key_Output, Error_TaskHandler, Tick
    <3>2. QED
      BY <3>1
  <2>6. QED
    BY <2>1, <2>2, <2>3, <2>4, <2>5 DEF Next
<1>3. QED
  BY <1>1, <1>2 DEF CutsWhatItFound

\* For messages at any moment: Task comes to cut the power or to reset only past
\* a test at which the hours of the last request were in flash, and the record
\* falls back behind them at no statement up to the cut, whatever else is asked
\* for meanwhile (app_task.c:135, 155).
THEOREM ControlCutsAfterTest == Spec => [][CutsWhatItFound]_vars
<1>1. Init => AheadInv
  BY DEF Init, Started, AheadInv, Cutting
<1>2. QED
  BY <1>1, NextAhead, CuttingSteps, Asked, PTL DEF Spec

-----------------------------------------------------------------------------
(* With a key that stays off until the hours are saved, and a last         *)
(* handshake that finds Task asleep, a load never follows a request before *)
(* its save.                                                               *)

LoadInv ==
  /\ FlashTaskState \in {"INIT", "READ_DONE"} => durable >= asked
  /\ FlashTaskState = "SAVE" =>
       Off_Key_Flag \/ ota # "WAIT" \/ SysTaskState = "OTA"
  /\ task = "CLOSE_LOAD" => FlashTaskState # "SAVE"
  /\ ota # "WAIT" => task = "SLEEP"
  /\ SysTaskState = "OTA" => task \in {"SLEEP", "OTA", "OTA_SHOWN", "RESET"}
  /\ nextState # "OTA"

LEMMA TaskLoad ==
  ASSUME SteadyKey, CalmOta
  PROVE  TypeOK /\ AskInv /\ LoadInv /\ TaskStep => LoadInv'
<1> SUFFICES ASSUME TypeOK, AskInv, LoadInv, TaskStep PROVE LoadInv'
  OBVIOUS
<1> ota = "WAIT" /\ UNCHANGED <<ota, Off_Key_Flag, durable>>
  BY DEF TaskStep
<1>1. CASE TaskSwitch \/ TaskSet \/ TaskOtaSaved \/ TaskOtaShown
  BY <1>1
     DEF TypeOK, SysStates, LoadInv, TaskSwitch, TaskSet, TaskOtaSaved,
         TaskOtaShown, At, Goto
<1>2. CASE TaskInit \/ TaskStart \/ TaskRun
  BY <1>2 DEF LoadInv, TaskInit, TaskStart, TaskRun, At, Goto, ThenSet
<1>3. CASE TaskIdle \/ TaskErrorKey
  BY <1>3 DEF LoadInv, TaskIdle, TaskErrorKey, AskSave, At, Goto, ThenSet
<1>4. CASE TaskError \/ TaskErrorClose \/ TaskErrorGone
  BY <1>4
     DEF LoadInv, TaskError, TaskErrorClose, TaskErrorGone, At, Goto, ThenSet
<1>5. CASE TaskClose \/ TaskCloseSaved \/ TaskCloseDelay \/ TaskCut \/ TaskCloseKey
  BY <1>5
     DEF LoadInv, TaskClose, TaskCloseSaved, TaskCloseDelay, TaskCut, TaskCloseKey,
         At, Goto
<1>6. CASE TaskCloseLoad
  BY <1>6 DEF TypeOK, AskInv, LoadInv, TaskCloseLoad, At, ThenSet
<1>7. QED
  BY <1>1, <1>2, <1>3, <1>4, <1>5, <1>6 DEF TaskStep

LEMMA NextLoad ==
  ASSUME SteadyKey, CalmOta
  PROVE  TypeOK /\ AskInv /\ LoadInv /\ [Next]_vars => LoadInv'
<1> SUFFICES ASSUME TypeOK, AskInv, LoadInv, [Next]_vars PROVE LoadInv'
  OBVIOUS
<1>1. CASE FlashTurn
  BY <1>1 DEF AskInv, LoadInv, FlashTurn, FlashLoad, FlashSave
<1>2. CASE DisplayTurn
  BY <1>2 DEF LoadInv, DisplayTurn
<1>3. CASE OtaStep
  BY <1>3 DEF LoadInv, OtaStep, OtaSave, OtaShow, App_Task
<1>4. CASE TaskStep
  BY <1>4, TaskLoad
<1>5. CASE hw_cpu_reset \/ SupplyFails
  <2>1. durable' \in Nat /\ asked' = durable'
    BY <1>5, ControlAssumption
       DEF TypeOK, hw_cpu_reset, SupplyFails, Restart
  <2>2. QED
    BY <1>5, <2>1 DEF LoadInv, hw_cpu_reset, SupplyFails, Restart
<1>6. CASE LogoTimer \/ CloseTimer \/ Key_Output \/ Error_TaskHandler
  BY <1>6 DEF LoadInv, LogoTimer, CloseTimer, Key_Output, Error_TaskHandler
<1>7. ASSUME NEW payload \in {0, 1, 2}, OtaMessage(payload) PROVE LoadInv'
  <2>1. UNCHANGED <<states, count, task, nextState, Off_Key_Flag>>
    BY <1>7 DEF OtaMessage
  <2>2. ota = "WAIT"
    BY <1>7 DEF OtaMessage
  <2>3. ota' = "WAIT" \/ task = "SLEEP"
    BY <1>7, <2>2, Zenon DEF OtaMessage, Calm
  <2>4. QED
    BY <2>1, <2>2, <2>3 DEF LoadInv
<1>8. CASE Tick
  BY <1>8 DEF LoadInv, Tick
<1>9. CASE UNCHANGED vars
  BY <1>9 DEF LoadInv
<1>10. QED
  BY <1>1, <1>2, <1>3, <1>4, <1>5, <1>6, <1>7, <1>8, <1>9 DEF Next

LEMMA LoadStep ==
  TypeOK /\ LoadInv /\ [Next]_vars =>
    [hours' < hours => durable >= asked \/ flash' = "READY"]_vars
<1> SUFFICES ASSUME TypeOK, LoadInv, Next, hours' < hours
             PROVE  durable >= asked \/ flash' = "READY"
  OBVIOUS
<1> hours \in Nat
  BY ControlAssumption DEF TypeOK
<1>1. CASE FlashTurn
  BY <1>1 DEF LoadInv, FlashTurn, FlashLoad, FlashSave
<1>2. CASE hw_cpu_reset \/ SupplyFails
  BY <1>2 DEF hw_cpu_reset, SupplyFails, Restart
<1>3. ASSUME NEW payload \in {0, 1, 2}, OtaMessage(payload) PROVE FALSE
  BY <1>3 DEF OtaMessage
<1>4. CASE \/ DisplayTurn \/ OtaStep \/ TaskStep \/ LogoTimer \/ CloseTimer
           \/ Key_Output \/ Error_TaskHandler \/ Tick
  BY <1>4
     DEF DisplayTurn, OtaStep, OtaSave, OtaShow, App_Task, TaskStep, LogoTimer,
         CloseTimer, Key_Output, Error_TaskHandler, Tick
<1>5. QED
  BY <1>1, <1>2, <1>3, <1>4 DEF Next

\* A shut-down that is broken off, and an update, never load hours older than
\* those a save was asked for, if the Off key outlasts the save and the last
\* handshake finds Task asleep; without a steady key TLC refutes it.
THEOREM ControlKeepsCount ==
  ASSUME SteadyKey, CalmOta
  PROVE  Spec => KeepsCount
<1>1. Init => LoadInv
  BY DEF Init, Started, LoadInv
<1>2. TypeOK /\ AskInv /\ LoadInv /\ [Next]_vars => LoadInv'
  BY NextLoad
<1>3. QED
  BY <1>1, <1>2, Asked, LoadStep, PTL DEF Spec, KeepsCount

-----------------------------------------------------------------------------
(* What Task waits for.  In each of its states it needs something of       *)
(* Display and Flash to be done or under way (Due).  To know it of the     *)
(* next state already when Task has decided on it, and of the statements   *)
(* between, the invariant follows Task through its cases; a message of OTA *)
(* comes in between only where CalmOta lets it, and Display overwrites     *)
(* nothing as long as it never restarts the LCD.                           *)

Saving == FlashTaskState \in {"SAVE", "SAVE_DONE"}
Starting == DisplayTaskState \in {"INIT", "INIT_DONE"}
Showing == DisplayTaskState \in {"START_UP", "START_UP_DONE", "RUN", "ERROR"}

\* What holds when Task enters its state s.
Due(s) ==
  CASE s = "INIT" -> Starting /\ FlashTaskState \in {"INIT", "READ_DONE"}
    [] s = "START" -> DisplayTaskState = "INIT_DONE"
    [] s = "CLOSE" -> Saving /\ (Showing \/ DisplayTaskState = "CLOSE")
    [] s = "OTA" -> Saving /\ DisplayTaskState = "OTA"
    [] OTHER -> Showing

DisplayInv ==
  /\ DisplayTaskState # "REBOOT" /\ display # "REBOOT"
  /\ display = "INIT" => DisplayTaskState = "INIT"

OtaInv ==
  /\ ota # "WAIT" => task = "SLEEP" /\ DisplayTaskState # "INIT"
  /\ ota \in {"SHOW", "TASK"} => Saving
  /\ ota = "TASK" => DisplayTaskState = "OTA"

TaskInv ==
  /\ task \in SysStates => SysTaskState = task
  /\ task \in SysStates \cup {"SLEEP"} => Due(SysTaskState)
  /\ task = "SET" => Due(nextState) /\ nextState # "OTA"
  /\ task \in {"ERROR_KEY", "ERROR_CLOSE", "ERROR_GONE"} => DisplayTaskState = "ERROR"
  /\ task = "ERROR_KEY" => SysTaskState = "ERROR"
  /\ task = "ERROR_CLOSE" => Saving
  /\ task = "ERROR_GONE" => SysTaskState = "ERROR" \/ (SysTaskState = "CLOSE" /\ Saving)
  /\ task \in {"CLOSE_SAVED", "CLOSE_DELAY", "CLOSE_CUT", "CLOSE_KEY"} =>
       SysTaskState = "CLOSE" /\ Due("CLOSE")
  /\ task \in {"OTA_SHOWN", "RESET"} => SysTaskState = "OTA" /\ Due("OTA")
  /\ task = "CLOSE_LOAD" => Starting

WaitInv == DisplayInv /\ OtaInv /\ (ota = "WAIT" => TaskInv)

LEMMA TaskWaits ==
  TypeOK /\ WaitInv /\ TaskStep => WaitInv'
<1> SUFFICES ASSUME TypeOK, WaitInv, TaskStep PROVE WaitInv'
  OBVIOUS
<1> USE DEF WaitInv, DisplayInv, OtaInv, TaskInv, Due, Saving, Starting, Showing,
            SysStates, At, Goto, ThenSet
<1>a. ota = "WAIT" /\ UNCHANGED <<ota, display>>
  BY DEF TaskStep
<1>t. SysTaskState \in SysStates /\ nextState \in SysStates
  BY DEF TypeOK
<1>1. CASE TaskSwitch
  BY <1>a, <1>t, <1>1 DEF TaskSwitch
<1>2. CASE TaskSet
  BY <1>a, <1>t, <1>2 DEF TaskSet
<1>3. CASE TaskInit
  BY <1>a, <1>t, <1>3 DEF TaskInit
<1>4. CASE TaskStart
  BY <1>a, <1>t, <1>4 DEF TaskStart
<1>5. CASE TaskIdle
  BY <1>a, <1>t, <1>5 DEF TaskIdle, AskSave
<1>6. CASE TaskRun
  BY <1>a, <1>t, <1>6 DEF TaskRun
<1>7. CASE TaskError
  BY <1>a, <1>t, <1>7 DEF TaskError
<1>8. CASE TaskErrorKey
  BY <1>a, <1>t, <1>8 DEF TaskErrorKey, AskSave
<1>9. CASE TaskErrorClose
  BY <1>a, <1>t, <1>9 DEF TaskErrorClose
<1>10. CASE TaskErrorGone
  BY <1>a, <1>t, <1>10 DEF TaskErrorGone
<1>11. CASE TaskClose \/ TaskCloseSaved \/ TaskCloseDelay \/ TaskCut
  BY <1>a, <1>t, <1>11 DEF TaskClose, TaskCloseSaved, TaskCloseDelay, TaskCut
<1>12. CASE TaskCloseKey
  BY <1>a, <1>t, <1>12 DEF TaskCloseKey
<1>13. CASE TaskCloseLoad
  BY <1>a, <1>t, <1>13 DEF TaskCloseLoad
<1>14. CASE TaskOtaSaved \/ TaskOtaShown
  BY <1>a, <1>t, <1>14 DEF TaskOtaSaved, TaskOtaShown
<1>15. QED
  BY <1>1, <1>2, <1>3, <1>4, <1>5, <1>6, <1>7, <1>8, <1>9, <1>10, <1>11, <1>12,
     <1>13, <1>14 DEF TaskStep

\* Display and Flash bring what is due nearer and take nothing of it back.
LEMMA DisplayWaits ==
  ASSUME ~LcdReboots
  PROVE  TypeOK /\ WaitInv /\ DisplayTurn => WaitInv'
<1> SUFFICES ASSUME TypeOK, WaitInv, DisplayTurn PROVE WaitInv'
  OBVIOUS
<1>1. UNCHANGED <<SysTaskState, FlashTaskState, task, nextState, ota>>
  BY DEF DisplayTurn
<1>2. /\ \/ UNCHANGED DisplayTaskState
         \/ DisplayTaskState = "INIT" /\ DisplayTaskState' = "INIT_DONE"
         \/ DisplayTaskState = "START_UP" /\ DisplayTaskState' = "START_UP_DONE"
      /\ display' # "REBOOT"
      /\ display' = "INIT" => DisplayTaskState' = "INIT"
  BY DEF DisplayTurn, DisplayBlocks, DisplayInitDone, DisplayRebootDone,
         DisplayCloseDone, DisplayShows, ErrorHandler, WaitInv, DisplayInv
<1>3. \A s \in SysStates : Due(s) => Due(s)'
  BY <1>1, <1>2 DEF Due, Saving, Starting, Showing, SysStates
<1>4. (DisplayInv /\ OtaInv)'
  BY <1>1, <1>2 DEF WaitInv, DisplayInv, OtaInv, Saving
<1>5. ASSUME ota = "WAIT" PROVE TaskInv'
  <2>1. TaskInv
    BY <1>5 DEF WaitInv
  <2>2. (Due(SysTaskState) => Due(SysTaskState)') /\ (Due(nextState) => Due(nextState)')
    BY <1>1, <1>2 DEF Due, Saving, Starting, Showing, SysStates
  <2>3. (Due("CLOSE") => Due("CLOSE")') /\ (Due("OTA") => Due("OTA")')
    BY <1>3 DEF SysStates
  <2>4. QED
    BY <1>1, <1>2, <2>1, <2>2, <2>3, Zenon DEF TaskInv, Saving, Starting
<1>6. QED
  BY <1>1, <1>4, <1>5 DEF WaitInv

LEMMA NextWaits ==
  ASSUME ~LcdReboots, CalmOta
  PROVE  TypeOK /\ WaitInv /\ [Next]_vars => WaitInv'
<1> SUFFICES ASSUME TypeOK, WaitInv, [Next]_vars PROVE WaitInv'
  OBVIOUS
<1>1. CASE FlashTurn
  <2>1. UNCHANGED <<SysTaskState, DisplayTaskState, task, nextState, ota, display>>
    BY <1>1 DEF FlashTurn
  <2>2. \/ FlashTaskState = "INIT" /\ FlashTaskState' = "READ_DONE"
        \/ FlashTaskState = "SAVE" /\ FlashTaskState' = "SAVE_DONE"
    BY <1>1 DEF FlashTurn, FlashLoad, FlashSave
  <2>3. QED
    BY <2>1, <2>2
       DEF WaitInv, DisplayInv, OtaInv, TaskInv, Due, Saving, Starting, Showing,
           SysStates
<1>2. CASE DisplayTurn
  BY <1>2, DisplayWaits
<1>3. CASE OtaStep
  BY <1>3
     DEF OtaStep, OtaSave, OtaShow, App_Task, WaitInv, DisplayInv, OtaInv, TaskInv,
         Due, Saving, SysStates
<1>4. CASE TaskStep
  BY <1>4, TaskWaits
<1>5. CASE hw_cpu_reset \/ SupplyFails
  BY <1>5
     DEF hw_cpu_reset, SupplyFails, Restart, WaitInv, DisplayInv, OtaInv, TaskInv,
         Due, Starting, SysStates
<1>6. CASE \/ LogoTimer \/ CloseTimer \/ Key_Output \/ Error_TaskHandler \/ Tick
           \/ UNCHANGED vars
  <2>1. UNCHANGED <<threads, states>>
    BY <1>6 DEF LogoTimer, CloseTimer, Key_Output, Error_TaskHandler, Tick
  <2>2. QED
    BY <2>1
       DEF WaitInv, DisplayInv, OtaInv, TaskInv, Due, Saving, Starting, Showing
<1>7. ASSUME NEW payload \in {0, 1, 2}, OtaMessage(payload) PROVE WaitInv'
  <2>1. ota = "WAIT" /\ UNCHANGED <<task, nextState, display, states>>
    BY <1>7 DEF OtaMessage
  <2>2. ota' = "WAIT" \/ (ota' = "SAVE" /\ Calm)
    BY <1>7, <2>1, Zenon DEF OtaMessage
  <2>3. QED
    BY <2>1, <2>2
       DEF Calm, WaitInv, DisplayInv, OtaInv, TaskInv, Due, Saving, Starting,
           Showing
<1>8. QED
  BY <1>1, <1>2, <1>3, <1>4, <1>5, <1>6, <1>7 DEF Next

\* As long as the display always reads back right and the last handshake of an
\* update is calm, Task never waits for a state that Display or Flash will not
\* reach: none of its waits can become a deadlock of the threads.
THEOREM ControlWaitsForWhatComes ==
  ASSUME ~LcdReboots, CalmOta
  PROVE  Spec => []WaitsForWhatComes
<1>1. Init => WaitInv
  BY DEF Init, Started, WaitInv, DisplayInv, OtaInv, TaskInv, Due, Starting,
         SysStates
<1>2. TypeOK /\ WaitInv /\ [Next]_vars => WaitInv'
  BY NextWaits
<1>3. TypeOK /\ WaitInv => WaitsForWhatComes
  BY DEF WaitsForWhatComes, WaitInv, TaskInv, Due, Saving, Starting, Showing,
         SysStates
<1>4. QED
  BY <1>1, <1>2, <1>3, ControlTypeCorrect, PTL DEF Spec

\* What is closed is being saved.  Task enters its state CLOSE only after it has
\* asked for a save, and leaves it when it asks for a load.
CloseInv ==
  /\ SysTaskState = "CLOSE" => Saving \/ (task = "SET" /\ nextState # "CLOSE")
  /\ task = "SET" /\ nextState = "CLOSE" => Saving
  /\ task = "ERROR_CLOSE" => Saving

\* A shut-down always has its save, done or to be done, whatever keys, errors,
\* messages and a display that restarts do: Task cannot wait in CLOSE for a save
\* that was taken back.
THEOREM ControlCloseIsSaved ==
  Spec => [](task = "SLEEP" /\ SysTaskState = "CLOSE" => Saving)
<1>1. Init => CloseInv
  BY DEF Init, Started, CloseInv
<1>2. TypeOK /\ CloseInv /\ [Next]_vars => CloseInv'
  <2> SUFFICES ASSUME TypeOK, CloseInv, [Next]_vars PROVE CloseInv'
    OBVIOUS
  <2>1. CASE FlashTurn
    BY <2>1 DEF FlashTurn, FlashLoad, FlashSave, CloseInv, Saving
  <2>2. CASE OtaStep
    BY <2>2 DEF OtaStep, OtaSave, OtaShow, App_Task, CloseInv, Saving
  <2>3. CASE TaskStep
    BY <2>3
       DEF TaskStep, TaskSwitch, TaskSet, TaskInit, TaskStart, TaskIdle, TaskRun,
           TaskError, TaskErrorKey, TaskErrorClose, TaskErrorGone, TaskClose,
           TaskCloseSaved, TaskCloseDelay, TaskCut, TaskCloseKey, TaskCloseLoad,
           TaskOtaSaved, TaskOtaShown, AskSave, At, Goto, ThenSet, CloseInv,
           Saving, TypeOK, SysStates
  <2>4. CASE hw_cpu_reset \/ SupplyFails
    BY <2>4 DEF hw_cpu_reset, SupplyFails, Restart, CloseInv
  <2>5. CASE \/ DisplayTurn \/ LogoTimer \/ CloseTimer \/ Key_Output
             \/ Error_TaskHandler \/ Tick \/ UNCHANGED vars
    <3>1. UNCHANGED <<SysTaskState, FlashTaskState, task, nextState>>
      BY <2>5
         DEF DisplayTurn, LogoTimer, CloseTimer, Key_Output, Error_TaskHandler, Tick
    <3>2. QED
      BY <3>1 DEF CloseInv, Saving
  <2>6. ASSUME NEW payload \in {0, 1, 2}, OtaMessage(payload) PROVE CloseInv'
    <3>1. UNCHANGED <<SysTaskState, FlashTaskState, task, nextState>>
      BY <2>6 DEF OtaMessage
    <3>2. QED
      BY <3>1 DEF CloseInv, Saving
  <2>7. QED
    BY <2>1, <2>2, <2>3, <2>4, <2>5, <2>6 DEF Next
<1>3. CloseInv => (task = "SLEEP" /\ SysTaskState = "CLOSE" => Saving)
  BY DEF CloseInv
<1>4. QED
  BY <1>1, <1>2, <1>3, ControlTypeCorrect, PTL DEF Spec
=============================================================================
