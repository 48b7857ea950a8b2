# P2001 floor scrubber controller: verification project

The repository holds the firmware of one board, the P2001 floor scrubber
controller (HC32F460, 256 KB flash): a bare-metal **bootloader**
(`src/P2001-bootload/source`) and an **application** on RT-Thread
(`src/P2001-app/bsp/hc32f460`). This directory holds TLA+ modules translated
from that code, TLC configurations that check them on small instances, and
TLAPS proofs. RT-Thread itself, the vendor library, CMSIS and the board support
generated by the vendor's tools are third-party code and are not modelled,
except for the promises the firmware relies on (priority scheduling, semaphores).

## 1. Inventory

### Bootloader

| Part | State | Operations | Hard behaviour |
|---|---|---|---|
| FOTA task, `tnd_fota.c` | `FOTA_tTaskState`, `app_file_size`, timer `TMR_FOTA_POLLING` | one `switch` per turn: listen, check firmware, update, forward, start application | power loss anywhere in erase/copy; the check is made in one turn and used in the next |
| YMODEM receiver, `ymodem_ota.c` | `ymodem_ota_task_state`, `ymodem_ota_sem`, expected packet number, bytes written, mailbox | handshake, data, EOT, closing packet, reset | lost, repeated, corrupted packets; number modulo 256; write address not bounded |
| UART receive interrupt, `AlgorithmBoard.c` | the mailbox | `ymodem_ota_set_received_data` | overwrites the mailbox while a packet is being written to flash |
| Flash, `flash.c` | app area, download area, header copy | erase by sector, write by word | cells can only be written after an erase |
| Main loop and timers, `task.c`, `sw_timer.c`, `main.c` | task table, timers | tasks in turn, tick interrupt | - |
| CAN programming, `can_iap.c`, `can.c`, `Board2Board.c` | - | - | compiled, but not in the task table |

The two tasks share flash, and `FOTA_vTaskHandler` reads the stage of the YMODEM
task to see whether a session is under way. The device learns of a new firmware
only through the download area: YMODEM writes it there and resets the machine,
and the next boot checks it, copies it over the application and erases it.

What makes it correct: a board that works keeps working (at every moment a whole
application or a whole, checked firmware is in flash); only whole applications
are started; a received update is not lost; every write hits erased flash inside
its area; what is written is what was sent, in order; the boot always comes to a
decision.

### Application (threads by priority, a lower number preempts)

| Part | State | Operations | Hard behaviour |
|---|---|---|---|
| ADC, `adc.c`, prio 3 | filtered voltages and currents | six samples, average without the extremes; a timer filters the supply over a minute | a disturbed sample; the filter reads the average twice while ADC changes it |
| Key, `app_key.c`, prio 4 | key flags, debounce counters | debounce of four contacts, off position from the supply voltage, knob position | byte counters start again; contacts change during a scan; readers see flags change one by one |
| Error, `app_error.c`, prio 4 | `uiErrorCode` | battery voltage against thresholds | Over is never cleared in the normal range; 0 V is judged before the first average |
| Motor, `app_motor.c`, prio 5 | speeds of brush and suction, valve, light | ramps up or down by one step a turn, from the key flags | flags read one by one; light timer between any two statements |
| Parameter store, `flash.c`, prio 6 | two sectors of 4-word records, working hours | log-structured save and search | power loss in a save; wrap erases both sectors |
| Display, `app_display.c`, prio 6 | `DisplayTaskState`, index of the error text, level of the battery | texts to the LCD over soft I2C with sleeps inside, read back and compared; restart of the LCD | writes the state after a sleep and overwrites a request made meanwhile; compares with a voltage that changes between the comparisons; a byte index past its table |
| IOT link, `app_IOT2Board.c`, prio 7 | receive queue, semaphore | parse, answer | ring of slots filled by an interrupt without a full check |
| OTA link, `app_OTA.c`, prio 7 | receive queue, semaphore | requests the OTA task state | written between the read and the write of another thread |
| Watchdog, `app_wdt.c`, prio 8 | - | refresh | - |
| Task, `app_task.c`, prio 9 | `SysTaskState` | power-up, run, error, close with save, OTA with save and reset | three other threads write its state and those it waits for |
| Drivers, `usart.c`, `lcd1602.c`, `myiic.c`, timers, GPIO | DMA buffers | - | interrupts |

What makes it correct: the power is cut, and the machine reset for an update,
only after the working hours are saved; what is on the display is what the
machine reports, an error that lasts gets there, and a display in order is not
restarted; a request for power off or for an update
is eventually honoured; the newest saved record is the one found after a power
loss; messages are taken in order and none is lost below the ring's capacity; a motor
speeds up only when asked to, and water runs only under a turning brush.

## 2. Modules

| Module | Contents |
|---|---|
| `Board` | what the bootloader promises: a firmware of the board that an update replaces in one step, and nothing else is ever started |
| `BootState` | constants, flash and RAM of the bootloader, its helpers |
| `Fota` | the FOTA task, one action per state and outcome, flash work block by block |
| `Ymodem` | the YMODEM receiver, one action per stage and outcome |
| `Bootloader` | interrupts, power loss, sender and line; specification, fairness of loop and line, properties |
| `MCBootloader` | a catalogue of files for TLC |
| `BootloaderProofs` | inductive invariant of the flash; crash safety; the refinement of `Board`; progress of the main loop |
| `SessionProofs` | inductive invariant of a session; order, bounds, what can part sender and device, and how a session gets on |
| `DurableHours` | what the parameter store promises: hours that survive a loss of power |
| `ParamStore` | the flash thread: search, load, save and wrap of the log of records, word by word |
| `ParamStoreProofs` | inductive invariant, theorems, the refinement of `DurableHours` |
| `AppControl` | Task with Display, Flash, OTA, Key and Error and the states they share |
| `AppControlProofs` | inductive invariants, theorems; what each wait waits for |
| `Inbox` | what a link promises of received frames: a FIFO queue |
| `SerialLink` | one link, OTA or IOT: interrupt, ring, semaphores, both threads |
| `SerialLinkProofs` | inductive invariants, the refinement of `Inbox` |
| `Keys`, `KeysProofs` | debouncing and the knob; theorems |
| `Motor`, `MotorProofs` | ramps, valve and light under changing key flags; theorems |
| `Battery` | ADC, Error and the timer that filters the supply voltage |
| `Screen` | Display with its texts, their reading back, the level of the battery and the error texts, under Task and `Battery` |
| `MCScreen` | two levels for TLC |
| `ScreenProofs` | what the ADC computes; inductive invariant, theorems |

### Bootloader: model and code

Flash is a function from block numbers to cells. A block is at once an erase
sector and the payload of a packet; it holds `Erased`, `Junk`, or block `k` of
file `f` as `<<f, k>>`. Block 0 of a file carries its header, so a file is known
by its block 0. `Format`, `Target`, `Size`, `Sound` and `Vector` say what the
code can tell of a file: header kind, target name, length, whether its own CRC
field is right, whether its first word is a stack address. The CRC comparison is
exact: no two contents collide. An erase and a copy take one step per block, so
power may fail between blocks, and leaves the block being worked on untouched or
`Junk`. `app_info` stands for the header copy in the last 32 bytes of the app
area: a file that fits the download area together with its 32 byte header leaves
exactly those bytes free.

`pc` says who runs: the FOTA task, the YMODEM task, or a flash operation inside
one of them. `Usart2RxIrqCallback` and the two timer actions may happen between
any two of these steps, also in the middle of `WriteBlock` (`held` is the packet
`ymodem_on_data` was called for; what reaches the flash is it, the packet that
replaced it, or `Junk`). The watchdog is always served and is not modelled.

`FOTA_tTaskState`, `app_file_size`, `ymodem_ota_sem`, `ymodem_ota_task_state`,
`ymodem_next_packet_index`, `update_file_cur_size` (in blocks) and
`ymodem_ota_msg` are the variables of those names. The two timers are 1 while
running and 0 when expired; how long they run is not modelled, so every order of
timer and message is covered. The sender is external: it repeats its packet,
loses, corrupts, gives up, starts again with any file, and moves on when it reads
the answer it needs. With `Patient = TRUE` it waits until the device has
answered before it sends again. With `Quiet = TRUE` no first packet arrives while
a checked update is waiting to be installed and no session is under way: that is
what a service tool that does not poke a rebooting device gives, and what the
code itself does not enforce (`boot_half_app`).

A session that the FOTA task waits for has no timeout, so it matters when it can
get stuck. `Together` says that the device is at the packet the sender is at, or
one further and has only to acknowledge it again. `PartOnlyByLoss` lists all that
can end this before the session does: every step of `ymodem_ota.c` answers a
repeated packet, except that the answer to the first packet and the one to the
second EOT are sent once. When one of these two is lost the sender repeats what
the device no longer expects, and the FOTA task waits until the power is cut.
`SessionEnds` says that over a line that lets enough through (`FairLine`) a
session that stays together reaches its end. What it rests on is a statement about
single steps, `SessionsAdvance`: `SessionLeft` counts the packets the sender has
not come to and the blocks and stages the device has not; it never rises while the
two are together, an answer that moves the sender lowers it, and a packet that
arrives whole lowers it or leaves the answer the sender needs.

`Board` has two variables: the firmware of the board and the one that runs.
`UpdatesAtOnce` maps the first to the file that may be installed from the download
area, or else to the application that is complete (`BoardFirmware`). The long way of an update
through erasures, copies and restarts is then no step at all; the one step is the
write of the last block of a whole transfer.

### Parameter store: model and code

The log is a function from slots to records of four words (`flag`, a counter,
`hours`, `minutes`), an erased word being -1 for 0xFFFFFFFF. `FLASH_PAGE_INDEX_END`
and `FLASH_SEG_INDEX_END` give its shape; the two halves are the two sectors. `search` and `save`
walk through `FLASH_ucSearchFlagFromFlash`, `FLASH_vReadData` and
`FLASH_vSaveData` as the code does: one slot per round of the search, hours and
minutes loaded and taken by two calls, a wrap that erases the first and then the
second sector, a record programmed in order of addresses. A word and the erasure
of a sector are atomic with respect to a power loss; everything between them is
not. The timer thread, which preempts the flash thread, ticks between the two
calls, so a record may lack one hour at a carry, and `DurableHours` allows just
that. Power may fail at every point of a save. `KeepsHours` is the refinement of
`DurableHours` under such losses: a save makes the hours durable in one step (the
last word it needs), a load or a restart finds exactly them, and only a save that
is cut off (`CutOff`) may leave anything behind, which is what the code does at a
wrap and with a torn record; the next save makes up for it.

### Task, Display, Flash, OTA: model and code

RT-Thread runs the ready thread of highest priority, so a thread sees its data
change in two ways only: a higher thread runs between any two of its statements,
a lower one while it sleeps. Display and Flash (6) never interrupt each other and
are above Task (9) and OTA (7), so their turns between two sleeps are one action;
OTA and Task go statement by statement where they touch shared states. A test of
Flash or Display by Task is a step of its own, apart from what Task does upon it:
OTA may come in between. Only its tests of key and errors are one step with what
follows, as no other thread acts on these. Display
sleeps inside `IIC_LCD1602_Write_Init` (200 ms) and `Display_Close` (1.5 s), and
what it writes after a sleep is where requests are overwritten: `display` says in
which sleep it is. `task` is the case of the switch that was taken, or the
statement within it; `nextState` is the value about to be assigned.
`ErrorHandler` stands for `DisplayErrorHandler`, which may or may not read back
what it expects (`Screen` says when). `LcdReboots = FALSE` is a display that always
reads back right.
`SteadyKey` is an Off key that stays on until the save it caused is done;
`CalmOta` a last handshake that comes while Task sleeps and no LCD initialisation
is due. The second excludes two things the code lets happen: that Task writes over
what the handshake has just written (`app_task.c:112`, `148`), and that Task, having
found an earlier save done, cuts the power or resets while the handshake asks for
another (`app_task.c:135` to `141`, `155` to `158`). `hours` is one abstract number for hours and minutes: `ParamStore` shows
how a save and a load treat it. The supply, with the port that holds it, is
external: it can fail only when the port is released and the key is off.

### Serial links: model and code

`app_OTA.c` and `app_IOT2Board.c` are the same program apart from the frames, so
one module stands for both (lines of either file are cited). The interrupt
routine copies the frame, advances `head` and releases the semaphore; nothing of
lower priority sees it half done, so it is one action. The receiving thread takes
a token, compares the indices, works on the frame in place and advances `tail`:
four actions with the interrupt between them. `Waiting` counts the frames that
still stand for a token, `Burst` bounds it: `Burst < Slots` says that at most
seven frames (of eight slots) arrive while the thread is kept from running. The
line is quiet until the thread has opened the link with its own call of the
interrupt routine, which enters one empty frame. `asked` is a history variable:
a request since the last message was put together.

### Keys and Motor: model and code

A turn of Key is one action, since only ADC, which gives one value to it, can
interrupt it; the contacts are external, and `changing` are those that are open
at the first of the two reads of a scan and closed at the second. `settled` is
a history variable that counts the scans a contact was found closed for.
`modes` stands for `All_Key_Flag`, `Brush_Key_Flag` and `Suction_Key_Flag`
(every branch of `Key_Output` writes all three) and for `Work_Status`.
A turn of Motor goes statement by statement, as Key and the timer thread (both
priority 4) preempt it (5). `offered`, a history variable, collects the flags
that were set at some time of the turn. The environment of `Motor` sets any
combination of flags that `Keys` can produce at any moment: at most one mode is on
(`KeysTypeCorrect`), the handle is independent.

### Battery and Screen: model and code

`Battery` computes in millivolts, rounded down, from counts of the converter:
six samples, one of which may be disturbed, are averaged without the largest and
the smallest (`ADC_vValueHanler2`), Error compares the result with its thresholds
(a reading that equals one changes nothing, as in the code), and the callback
`supply_voltage_timeout` takes the lowest of averages over `Minute` readings, in
two statements between which ADC may run. The model starts when the first average
has been judged, before the display is initialised; until then Error has seen 0 V
and set Under. `seen` and `lowest` are history variables of the voltage at the
input.

A turn of Display is one step except where others get in: where it sleeps
(`DisplaySleeps`, then `DisplayInitDone` or `DisplayRebootDone`), and between the
comparisons of `Display_Run`, each of which reads the supply voltage again
(`RunStarts`, `RunCompares` once per level, `RunEnds`). The LCD either shows what
was written or, after a disturbance of its lines (`Glitch`), `Junk`, which it also
reads back until it is initialised again. `Misread` are the comparisons of
`DisplayErrorHandler` per state, with their lengths. Display and Task both sleep
for one tick (`rt_thread_mdelay(10)` at 100 ticks a second), so both wake at each
tick, Display first: `Lockstep` says that Task has one turn between two of
Display, any number in the 200 ms of an initialisation. The three seconds of the
company and version texts end after the supply was first measured, as that timer
comes every second. `known` is a history variable: the supply had been measured
when the comparisons began.

## 3. Runs

| Run | What it asks | Bounds |
|---|---|---|
| `boot_quiet` | `StartsOnlyComplete`, `NeverWithoutFirmware`, `WritesHitErased`, `PendingKept`, `UpdatesAtOnce` (implements `Board`) with two versions and an impatient sender | 2 blocks, packet numbers modulo 4, 2 power losses |
| `boot_live` | `InOrder`, `WritesInside`, `PartOnlyByLoss`, `SessionsAdvance` over a lossy line; `PendingIsInstalled` (a whole application, the download area free again), `BootDecides` with a fair loop and fair timers; `SessionEnds` with a fair line as well | 4 kinds of file, with or without a factory application, 3 blocks, modulo 5, 1 power loss, patient sender |
| `boot_half_app` | **violated**: `ChecksAppBeforeStart` (`tnd_fota.c:328`) | 1 file, 2 blocks, 2 power losses |
| `param_log` | `ProgramsErased`, `RestsAtNewest`, `KeepsHours` (implements `DurableHours`), and with a fair flash thread `SearchEnds`, `SaveServed` | two sectors of two slots, 5 saves, 1 power loss anywhere, hours and minutes that carry at 2 |
| `param_flag` | **violated**: `FlagMeansData` (`flash.h:47`) | 2 saves, 1 power loss |
| `app_steady` | `CutsAfterSave`, `KeepsCount` with a steady key and a calm last handshake | 2 hours, 3 messages, display may restart |
| `app_live` | `WaitsForWhatComes`, and with fair threads `StartsUp`, `ShutdownServed`, `UpdateServed` | 1 hour, 3 messages, display reads back right |
| `app_stuck` | **violated**: `ShutdownServed` with a display that restarts (`app_key.c:149`) | 1 hour, no message |
| `link_ring` | `WakesForFrames`, `WakesForAsks`, `KeepsFrames` (implements `Inbox`), and with fair threads `FramesHandled`, `AsksServed` | 4 slots, burst of 3, 3 frames, 2 requests at a time |
| `keys_scan` | `Debounced`, `StartsSettled`, and with a fair thread `KnobTaken` | 2 scans, counters modulo 4 |
| `motor_turns` | `WetOnlyTurning`, `SpeedsUpAsWanted`, and with a fair thread `MotorsFollow` | speed 3, wave of 2 |
| `screen` | `SupplyAboveLowest`, `ErrorsReal`, `LevelShown`, `HealthyKept`, and with fair threads `ErrorShown`, `Repaired` | an under-voltage, a normal and an over-voltage input, samples of 0 and 4095 in between, a minute of 2 readings, 2 averages, 1 disturbance of the LCD, 2 levels, index modulo 16 |

The type invariants (`TypeOK` of each module) are proved for all constants and not
repeated in the runs.

Why the bounds are enough: two blocks tell "first block" (header, stack word)
from "the rest", which is all the code looks at; a third block, with packet
numbers modulo 5, lets a session lose, repeat and reorder in its middle. The
modulus is larger than the longest legal session, as 256 is larger than the 104
packets of the largest file; a device that expects a wrong number sees the wrap.
Two power losses (`boot_quiet`) put one into the recovery from another. In the application, two
slots per sector put the wrap, the middle and the end of the log within a few
saves; two hours tell an old record from a new one; three messages are a whole
handshake and one more; four slots let the ring wrap with frames waiting on both
sides of its end; counters modulo 4 start again soon after a debounce time of 2;
a speed of 3 has a middle; the three inputs of `screen` (18.0, 24.0 and 31.0 V)
are one for each outcome of Error but Empty, which behaves as Under does, between
the comparisons for two levels the voltage can change, and an index modulo 16 passes the end of
the 14 texts as one modulo 256 does. The proofs remove all these bounds for the properties
they cover.

Fairness (`FairSpec`): the main loop never stops and the timer interrupt keeps
ticking, so the steps of the device and the expiry of each timer are weakly fair.
Nothing is assumed of the sender, the line or the supply, except in `SessionEnds`,
which has its assumption in its own statement: `FairLine` is a sender that keeps
on sending, whose packets sometimes arrive whole while the device looks, and whose
answers are not lost for ever. The code can do nothing about a line that is worse.
`MaxResets` bounds the power losses, as an endless series of them prevents any
progress. In the
application each thread sleeps at the end of its turn, so RT-Thread comes to
every thread again, and the timer thread keeps counting: steps of Flash, Display,
OTA, Task, Key, Motor, the two threads of a link, and the expiry of a timer are
weakly fair. Nothing is assumed of keys, errors, frames, hours or the supply. Task
and the reset share one fairness condition: they are one thread. In `Screen` the
reading back is strongly fair while Task waits in `SYS_TASK_IDLE`: it happens in
every turn during one second of three, about 100 turns, and Task alternates between
IDLE and RUN from one turn to the next, so it meets that state again and again.

## 4. Proofs

### Bootloader

`BootloaderProofs` proves, for every set of files, any area size, any modulus and
any number of power losses:

* `TypeCorrect`, `WritesErasedFlash`: without any assumption on the sender;
* `LoopProgress`: without any assumption either (see "Progress" below);
* `FirmwareSurvives`, `StartsOnlyWhole`, `UpdateKept`, `UpdatesAreAtomic`: from
  `Quiet`.

`BootInv` is the inductive invariant. `TypeInv` is the type invariant with the
order between positions and sizes; `WriteInv` says that in a session all blocks
from the write position on are erased (this alone gives `WritesHitErased`);
`CopyInv` says how far an erase or a copy has come, block by block, and that the
source of a copy is a checked firmware; `ApartInv` says that no session touches
the download area while the FOTA task works on it, which is where `Quiet` is
needed; `SafeInv` is the claim itself. The safety claim alone is not inductive:
in the middle of a copy it has to be known that what is being copied is intact.

`UpdatesAreAtomic` is the refinement of `Board`. A file is known by its image
(`ImageNames`), so the file that may be installed and the one that is complete are
unique and the `CHOOSE` of the mapping has one value. A step changes one area only
(`OneAreaChanges`); by `UpdateKept` the firmware of the board stays the same as
long as it is pending, and what replaces it is legal (`FirmwareKept`). That what is
started is this firmware, not an older one, needs `StartInv`: where the FOTA task
comes to `START_APP` nothing is pending any more.

`SessionProofs` adds `WritesStayInside`, `SessionsAreInOrder` and
`SessionsStayTogether`, from `Orderly`: a sender that waits for its answers and
fewer packets than packet numbers (104 of 1024 bytes, 256 numbers; a sender of 128
byte packets would need 832). Its invariant `LineInv` says what can lie in the
mailbox (`MailInv`: nothing, a corrupted packet, or the one the sender is at, and
then no answer it could move on by is under way), what a session is opened by
(`OpenInv`), how far device and sender can be apart whether or not they started in
step (`InsideInv`) and when they did (`OrderInv`), and that the last two handshakes
belong together (`EndInv`). `WritesInside` alone says nothing about the next
packet; that the device is at most one packet ahead is what keeps it inside.
`SessionsGetOn` is `SessionsAdvance` from the same assumption: `WrittenInv` bounds
what is written by the area, `LeftInv` makes what either side has left a natural
number, and each step of the receiver and each answer is then compared with it.

### Parameter store

`StoreTypeCorrect`, `StoreProgramsErased` and `StoreRestsAtNewest` hold for every
number of pages and segments and any number of saves and power losses, those
inside a save or between the two erasures included. The inductive invariant says
where records may lie: up to the newest record every slot is used, beyond it
everything is erased, except that a wrap cut off between its two erasures leaves
the old records of the second sector; and at each point of search and save it
says where the indexes stand relative to that (`PlaceInv`). Without this picture
of the whole log "the word is erased" is not inductive, as it depends on what all
earlier saves have left. `StoreKeepsHours` is the refinement of `DurableHours`,
step by step under the same invariant.

### Task, Display, Flash, OTA

`ControlTypeCorrect` needs no assumption. For `ControlCutsAfterSave`, `AskInv` ties
the state of the flash thread to the last request: while a save is pending the
hours to be saved are no older than those asked for, and once it reports the save
the record in flash is. As Task acts on that report some statements after it has
read it (`Cutting`), it also takes `DoneInv`: the report still stands there, because
with `CalmOta` no handshake is under way while Task is awake. Keys, errors and the
display are free. What is left without `CalmOta` is `ControlCutsAfterTest`: Task gets
to `Cutting` only with the hours of the last request in flash, and even if another
save is asked for there the record does not fall behind them; `AheadInv` shows that
the clock is then never behind the record. `ControlKeepsCount` adds `LoadInv`: a load is only pending
when the record is as new as the last request, and as long as a save is pending
Task cannot reach the statement that asks for a load, because the key is still
off or an update is under way (`SteadyKey`, `CalmOta`). `ControlCloseIsSaved` says
that whenever Task sleeps in CLOSE its save is done or still to be done, whatever
keys, errors, messages and a restarting display do: Task cannot wait for a save
that was taken back.

`ControlWaitsForWhatComes` proves `WaitsForWhatComes` for a display that always
reads back right (`~LcdReboots`) and a last handshake that comes while Task sleeps (`CalmOta`):
wherever Task waits for another thread, this thread has reached the state waited
for or is on its way to it, and nobody will write over it. `WaitInv` is the
inductive form: for each place Task can be at it names the states Display and Flash
can be in, and while OTA is inside a handshake, which moves Task's state under it,
for OTA's. It is what `StartsUp`, `ShutdownServed` and `UpdateServed` rest on, and what
fails in `app_stuck`.

### Serial links

`LinkTypeCorrect` and `LinkWakesForAsks` hold for every ring and every burst;
`LinkWakesForFrames` and `LinkKeepsFrames` for every ring and every burst smaller
than it (with `Burst = Slots` TLC refutes `KeepsFrames`). The invariant counts: frames between `tail` and
`head` are exactly the tokens given and not yet worked off. With it the distance
never reaches `Slots`, so `head = tail` means empty, the interrupt never writes
into the slot being read, and each step maps to an arrival, a departure or a
stutter of `Inbox` under `inbox <- Unread`.

### Keys and Motor

`KeysTypeCorrect`, `KeysDebounced`, `KeysStartsSettled` hold for every debounce
time below the range of the counters: as long as the flag is not set the counter
agrees with the history (`CountInv`), afterwards it may start again.
`MotorTypeCorrect`, `MotorWetOnlyTurning`, `MotorSpeedsUpAsWanted` hold for every
speed and wave: `WetInv` says statement by statement when valve, light, timer and
brush agree, `CopyInv` that the copies made so far in this turn are of flags that
were set in it.

### Battery and Screen

`SupplyIsReal`, `ErrorsAreReal`, `LevelIsShown`, `HealthyIsKept` and `TypeCorrect`
hold for every set of inputs and disturbances, every number of readings in a minute,
of levels and of glitches. First it is shown that the average of a batch with one
disturbed sample is the steady input (`OutcomeFacts`). `BatteryInv` then bounds
the sum of the filter by the lowest input times the count. `LinesInv` follows the
comparisons of one turn: a level is on the display, or all levels compared so far
were above the voltage; since the filtered voltage only falls, the next comparison
cannot miss it. `HealthyIsKept` needs that, and `StartInv` on what the start writes.

### Progress

Liveness needs fairness and ENABLED, which are out of the prover's reach. What the
liveness properties rest on is proved instead, for all constants: a measure in the
naturals that the steps of the thread in question lower and that only named events
raise, or a goal that steps only come nearer to. Each is an action property; the
theorems without a run of their own are marked with *.

| Liveness property | Theorem | What is proved |
|---|---|---|
| `PendingIsInstalled`, `BootDecides` | `LoopProgress`* | `TurnLeft`, the blocks a turn of the main loop has still to erase or write, falls with every step of the device; at its turn the FOTA task goes forward in the order of its states, begins the installation, starts the application, or waits for its timer, a session or the forward; it falls back only by a restart or without an application |
| `SessionEnds` | `SessionsGetOn` | `SessionLeft`, see above |
| `SearchEnds`, `SaveServed` | `StoreHandlerGetsOn`* | `StepsLeft`, the slots the search has still to look at or the words a save has still to write, falls with every step of the flash thread; only a wake-up and a power loss raise it |
| `StartsUp`, `ShutdownServed`, `UpdateServed` | `ControlWaitsForWhatComes` | no wait for what does not come, see above |
| `FramesHandled`, `AsksServed` | `LinkThreadsGetOn`* | the work given by the tokens falls with every step of a thread; only an interrupt or a request raises it; no token is for nothing, and none left means an empty ring |
| `KnobTaken` | `KeysKnobRead`* | a turn that finds the contacts of one position closed long enough, and only these, sets its mode |
| `MotorsFollow` | `MotorFollowsFlags`* | flags that stay are copied whole in a turn; then the distance of each speed from its goal never grows, and falls at its statement in the turn; once reached the goal is kept |
| `ErrorShown` | `ErrorIsFound`* | the distance of the index from the text of the only error falls with every turn until it is shown; the index from which half of two errors would be shown is not come to again; what is shown stays |

The inductive invariants used are those of the safety theorems. `RxLeft = 0 =>
Pending = 0` and the claim that the receiver is never woken for nothing need the
counting invariant of the ring, so `LinkThreadsGetOn` has `Burst < Slots`.

### Only model-checked

Every liveness property itself: that a step which stays possible is taken is
fairness, and that it is possible is ENABLED. Of `Repaired` no core is proved: it
depends on the turns of Task and Display meeting (the strong fairness of
`Screen`). `SessionEnds`, `PendingIsInstalled` and the others are checked on the
bounds of section 3 only; the theorems of the table above say that no larger
instance can spin without progress.

## 5. What the runs found

Three runs are expected to fail, each against a sentence of the repository;
`PROJECT.json` quotes the sentence and the line of the code for each.

* `boot_half_app`: a copy is cut short by a power loss, and before it is taken up
  again a session is opened (which erases the download area) and abandoned. The
  stack word, all that `FOTA_ucStartApplication` looks at, was copied first, so
  the half-written application is started.
* `param_flag`: the flag byte is programmed first, so a power loss inside a save
  leaves a flagged record without data, which every later start loads.
* `app_stuck`: a shut-down is broken off while the display restarts; the end of
  the restart writes `RUN` over the initialisation Task waits for, and Task stays
  in `SYS_TASK_INIT` for ever.

The constants that state an assumption show what it is needed for; setting them
the other way makes TLC print the counterexample:

| In | set | and TLC refutes | because |
|---|---|---|---|
| `boot_quiet` | `Quiet = FALSE` | `StartsOnlyComplete`, `NeverWithoutFirmware`, `PendingKept` | a first packet while an update is pending erases it (`tnd_fota.c:291`, `ymodem_ota.c:385`) |
| `app_steady` | `CalmOta = FALSE` | `CutsAfterSave`, `KeepsCount` | a last handshake asks for a save between the test of Flash and the cut or the reset (`app_task.c:135`, `155`), or just before the load that replaces it (`app_task.c:148`) |
| `app_steady` | `SteadyKey = FALSE` | `KeepsCount` | an Off reading of one sample asks for a save and 10 ms later for a load (`app_task.c:148`); the flash thread sees only the load |
| `app_live` | `LcdReboots = TRUE` | `ShutdownServed`, `WaitsForWhatComes` | as `app_stuck` |
| `screen` | `Lockstep = FALSE` | `ErrorShown`, `Repaired` | Task may then set the state of Display anew in just the turns where Display would have acted on it (`app_task.c:116`) |
| `link_ring` | `Burst = 4` | `KeepsFrames` | a full ring looks empty (`app_OTA.c:58`, `307`): a ring of 8 holds 7 |

More things of the code are visible in the models and have no failing run, as no
sentence of the repository denies them:

* `FW_FORWARD`, entered for a firmware of another board, is never left
  (`FotaForward`).
* After a rejected first packet the next session starts with an expected number
  that is one too high (`ymodem_ota.c:144`), acknowledges packet 1 without writing
  it, and is refused by the CRC at its end; `InOrder` therefore speaks of sessions
  that start in step.
* A lost `ACK C` after the first packet or the second EOT parts sender and device
  for good (the first disjunct of `PartOnlyByLoss`), and `DOWNLOADING` waits for
  them until the power is cut.
* A save that is cut off at a wrap leaves the store empty (`CutOff` of
  `DurableHours`).
* Before the supply is first measured no level fits, and a display in order may be
  restarted (`known` in `LevelShown` and `HealthyKept`). While errors are shown a
  display in order may be set to restart too: the comparison knows the first two
  errors only.
* `Battery_Over` is deleted only below 22 V, not in the normal range, where
  `Battery_Under` is deleted twice (`app_error.c:96`).
* While an error lasts a display is never restarted: Task sets the state `ERROR`
  again before Display comes to `REBOOT` (`app_task.c:118`); `Repaired` exempts it.

## 6. Not modelled

* Data: the currents and the floating point of `adc.c` beyond the supply voltage,
  the digits of the working hours and the sign of the network on the display, the
  contents of reports. No state the properties are about depends on them.
* Hardware: register set-up of USART, DMA, PWM, GPIO and watchdog, the bus
  protocol of the LCD. Their effect is in the interrupts and in `Glitch`.
* CAN programming: compiled, but not in the task table of this build.
* A frame that comes before a link has created its semaphore (`app_OTA.c:64`): the
  models start with a line that is quiet until the link is open.
* Everything else under `src/` is third-party: RT-Thread with its components
  (file systems, lwIP, and so on, most of them not compiled into this firmware),
  CMSIS and the vendor's drivers. It is by far the largest part of the tree, so the
  modelled firmware is a small share of all lines.

## 7. Plan

Done in this order: bootloader, parameter store, control, links, keys and motor,
battery and screen; the refinement of `DurableHours` under every power loss; the
order of sessions and how they end; the refinement of `Board`; the progress
theorems. Next:

1. A composition of `AppControl` with `ParamStore` in place of its one-step save
   and load, and of `Keys` with `Motor`, each shown to implement the module that
   now stands for it.
2. The link of the OTA receiver to `AppControl`: frames of `SerialLink` as the
   messages of `OtaMessage`.
3. A measure for a whole close or update of `AppControl`, over the threads it
   waits for, as `SessionLeft` is for a session.
