------------------------------ MODULE ParamStore ------------------------------
(***************************************************************************)
(* The store for the working hours in the last two flash sectors           *)
(* (applications/flash.c): a log of records of four words, appended slot   *)
(* by slot.  The newest record is found by a search from the last slot     *)
(* backwards; when all slots are used both sectors are erased and the log  *)
(* starts again.                                                           *)
(*                                                                         *)
(* The flash thread sleeps while it has nothing to do.  Threads of lower   *)
(* priority (Task, OTA) set its state only then; the soft timer thread     *)
(* (priority 4), which counts the minutes, preempts it anywhere, also      *)
(* between the two reads or writes of hours and minutes.  The supply may   *)
(* fail between any two words and between the two sector erasures.         *)
(***************************************************************************)
EXTENDS Integers

CONSTANTS
  FLASH_SEG_INDEX_END,    \* last segment of a page (127)
  FLASH_PAGE_INDEX_END,   \* last page (7); the pages fill two sectors
  MinPerHour,             \* 60
  HoursLimit,             \* 10000000
  MaxWrites,              \* bound on the write counter
  MaxResets               \* bound on the number of power losses

ASSUME StoreAssumption ==
  /\ FLASH_SEG_INDEX_END \in Nat
  /\ FLASH_PAGE_INDEX_END \in Nat
  /\ FLASH_PAGE_INDEX_END % 2 = 1
  /\ MinPerHour \in Nat \ {0, 1}
  /\ HoursLimit \in Nat \ {0, 1}
  /\ MaxWrites \in Nat
  /\ MaxResets \in Nat

VARIABLES
  flash,                  \* the records
  ucSegIndex, ucPageIndex, ulWriteCounter, tTaskState,
  pc,                     \* where the flash thread stands in its handler
  buffer,                 \* the record being saved or loaded
  carry,                  \* a minute has passed since pc entered two-word data
  systick_hrs, systick_min,
  resets

index == <<ucSegIndex, ucPageIndex>>
clock == <<systick_hrs, systick_min>>
vars == <<flash, index, ulWriteCounter, tTaskState, pc, buffer, carry, clock,
          resets>>

-----------------------------------------------------------------------------
(* Slots in the order of their addresses, and what they hold.  A word that *)
(* was never programmed reads 0xFFFFFFFF, which is -1 for uint32_t sums.   *)

Slots == (0 .. FLASH_PAGE_INDEX_END) \X (0 .. FLASH_SEG_INDEX_END)
Before(s, t) == s[1] < t[1] \/ (s[1] = t[1] /\ s[2] < t[2])
FirstSlot == <<0, 0>>
LastSlot == <<FLASH_PAGE_INDEX_END, FLASH_SEG_INDEX_END>>
Sector(s) == IF s[1] <= FLASH_PAGE_INDEX_END \div 2 THEN 0 ELSE 1

Erased == -1
BlankHead == <<-1, -1>>                     \* not FLASH_DATA_FLAG
BlankSlot == [head |-> BlankHead, cnt |-> Erased, hrs |-> Erased, min |-> Erased]
Hours == Erased .. HoursLimit - 1
Minutes == Erased .. MinPerHour - 1
Records == [head : Slots \cup {BlankHead}, cnt : Erased .. MaxWrites,
            hrs : Hours, min : Minutes]

Flagged(s) == flash[s].head # BlankHead
Complete(s) == Flagged(s) /\ flash[s].min # Erased

\* ulNextDataAddr, computed from the two indexes wherever it is used.
Current == <<ucPageIndex, ucSegIndex>>

-----------------------------------------------------------------------------
RamCleared ==
  /\ ucSegIndex = 0 /\ ucPageIndex = 0
  /\ ulWriteCounter = 0
  /\ tTaskState = "INIT"
  /\ pc = "RUN"
  /\ buffer = BlankSlot
  /\ carry = FALSE
  /\ systick_hrs = 0 /\ systick_min = 0

Init ==
  /\ flash = [s \in Slots |-> BlankSlot]
  /\ RamCleared
  /\ resets = 0

\* hundreds_millisecond_timeout and one_msecond_timeout, once a minute.  No
\* two minutes pass while the flash thread handles hours and minutes.
MinuteTick ==
  /\ pc \in {"SAVE_MIN", "LOAD_MIN"} => ~carry
  /\ carry' = (pc \in {"SAVE_MIN", "LOAD_MIN"})
  /\ IF systick_min + 1 = MinPerHour \/ systick_min = Erased
     THEN /\ systick_min' = 0
          /\ systick_hrs' = (systick_hrs + 1) % HoursLimit
     ELSE /\ systick_min' = systick_min + 1
          /\ UNCHANGED systick_hrs
  /\ UNCHANGED <<flash, index, ulWriteCounter, tTaskState, pc, buffer, resets>>

-----------------------------------------------------------------------------
(* FLASH_vTaskHandler_Entry.                                               *)

Run(state) == pc = "RUN" /\ tTaskState = state

\* Variant for mutation: the search starts at the first slot.
TaskInitAtFirst ==
  /\ Run("INIT")
  /\ ucSegIndex' = 0
  /\ ucPageIndex' = 0
  /\ tTaskState' = "INIT_DONE"
  /\ UNCHANGED <<flash, ulWriteCounter, pc, buffer, carry, clock, resets>>

TaskInit ==
  /\ Run("INIT")
  /\ ucSegIndex' = FLASH_SEG_INDEX_END
  /\ ucPageIndex' = FLASH_PAGE_INDEX_END
  /\ tTaskState' = "INIT_DONE"
  /\ UNCHANGED <<flash, ulWriteCounter, pc, buffer, carry, clock, resets>>

TaskInitDone ==
  /\ Run("INIT_DONE")
  /\ tTaskState' = "READ"
  /\ UNCHANGED <<flash, index, ulWriteCounter, pc, buffer, carry, clock, resets>>

\* FLASH_ucSearchFlagFromFlash: no flag here, go one slot back.
SearchBack ==
  /\ Run("READ")
  /\ ~Flagged(Current)
  /\ IF ucSegIndex > 0
     THEN /\ ucSegIndex' = ucSegIndex - 1
          /\ UNCHANGED <<ucPageIndex, tTaskState>>
     ELSE /\ ucSegIndex' = FLASH_SEG_INDEX_END
          /\ IF ucPageIndex > 0
             THEN ucPageIndex' = ucPageIndex - 1 /\ UNCHANGED tTaskState
             ELSE /\ ucPageIndex' = FLASH_PAGE_INDEX_END
                  /\ tTaskState' = "READ_DONE"
  /\ UNCHANGED <<flash, ulWriteCounter, pc, buffer, carry, clock, resets>>

\* FLASH_vReadData up to the hours; the next step takes the minutes.
ReadHours ==
  /\ Run("READ")
  /\ Flagged(Current)
  /\ IF flash[Current].head = Current
     THEN /\ buffer' = flash[Current]
          /\ ulWriteCounter' = flash[Current].cnt
          /\ systick_hrs' = flash[Current].hrs
          /\ pc' = "LOAD_MIN"
          /\ UNCHANGED tTaskState
     ELSE /\ tTaskState' = "READ_DONE"
          /\ UNCHANGED <<ulWriteCounter, systick_hrs, pc, buffer>>
  /\ carry' = FALSE
  /\ UNCHANGED <<flash, index, systick_min, resets>>

\* Variant for mutation: the handler forgets to report the end of a search.
ReadMinutesUnreported ==
  /\ pc = "LOAD_MIN"
  /\ systick_min' = buffer.min
  /\ buffer' = BlankSlot
  /\ pc' = "RUN"
  /\ carry' = FALSE
  /\ UNCHANGED <<flash, index, ulWriteCounter, tTaskState, systick_hrs, resets>>

ReadMinutes ==
  /\ pc = "LOAD_MIN"
  /\ systick_min' = buffer.min
  /\ buffer' = BlankSlot
  /\ pc' = "RUN"
  /\ tTaskState' = "READ_DONE"
  /\ carry' = FALSE
  /\ UNCHANGED <<flash, index, ulWriteCounter, systick_hrs, resets>>

Sleep ==
  /\ Run("READ_DONE") \/ Run("SAVE_DONE")
  /\ pc' = "ASLEEP"
  /\ UNCHANGED <<flash, index, ulWriteCounter, tTaskState, buffer, carry, clock,
                 resets>>

\* Variant for mutation: the state is set again after the sleep.
WakeReadDone ==
  /\ pc = "ASLEEP"
  /\ pc' = "RUN"
  /\ tTaskState' = "READ_DONE"
  /\ UNCHANGED <<flash, index, ulWriteCounter, buffer, carry, clock, resets>>

Wake ==
  /\ pc = "ASLEEP"
  /\ pc' = "RUN"
  /\ UNCHANGED <<flash, index, ulWriteCounter, tTaskState, buffer, carry, clock,
                 resets>>

\* App_Task and OTA_vRxInfo: save before the power goes or the machine
\* restarts; and read again when the Off key was released before the end.
Request(state) ==
  /\ pc = "ASLEEP"
  /\ state = "SAVE" => ulWriteCounter < MaxWrites
  /\ tTaskState' = state
  /\ UNCHANGED <<flash, index, ulWriteCounter, pc, buffer, carry, clock, resets>>

-----------------------------------------------------------------------------
(* FLASH_vSaveData.                                                        *)

NextSlot ==
  IF ucSegIndex < FLASH_SEG_INDEX_END THEN <<ucPageIndex, ucSegIndex + 1>>
  ELSE IF ucPageIndex < FLASH_PAGE_INDEX_END THEN <<ucPageIndex + 1, 0>>
  ELSE FirstSlot

SaveHours ==
  /\ Run("SAVE")
  /\ ucPageIndex' = NextSlot[1] /\ ucSegIndex' = NextSlot[2]
  /\ ulWriteCounter' = ulWriteCounter + 1
  /\ buffer' = [head |-> NextSlot, cnt |-> ulWriteCounter + 1,
                hrs |-> systick_hrs, min |-> Erased]
  /\ pc' = "SAVE_MIN"
  /\ carry' = FALSE
  /\ UNCHANGED <<flash, tTaskState, clock, resets>>

\* Variant for mutation: both sectors are erased at the start of every page.
SaveMinutesErasingOften ==
  /\ pc = "SAVE_MIN"
  /\ buffer' = [buffer EXCEPT !.min = systick_min]
  /\ pc' = IF ucSegIndex = 0 THEN "ERASE_0" ELSE "PROG_HEAD"
  /\ carry' = FALSE
  /\ UNCHANGED <<flash, index, ulWriteCounter, tTaskState, clock, resets>>

SaveMinutes ==
  /\ pc = "SAVE_MIN"
  /\ buffer' = [buffer EXCEPT !.min = systick_min]
  /\ pc' = IF Current = FirstSlot THEN "ERASE_0" ELSE "PROG_HEAD"
  /\ carry' = FALSE
  /\ UNCHANGED <<flash, index, ulWriteCounter, tTaskState, clock, resets>>

EraseSector(n, next) ==
  /\ flash' = [s \in Slots |-> IF Sector(s) = n THEN BlankSlot ELSE flash[s]]
  /\ pc' = next
  /\ UNCHANGED <<index, ulWriteCounter, tTaskState, buffer, carry, clock, resets>>

\* Variant for mutation: only one sector is erased at the wrap.
EraseFirstOnly == pc = "ERASE_0" /\ EraseSector(0, "PROG_HEAD")

EraseFirst == pc = "ERASE_0" /\ EraseSector(0, "ERASE_1")

EraseSecond == pc = "ERASE_1" /\ EraseSector(1, "PROG_HEAD")

\* FLASH_WriteByte, word by word.
Program(record, next) ==
  /\ flash' = [flash EXCEPT ![Current] = record]
  /\ pc' = next
  /\ UNCHANGED <<index, ulWriteCounter, carry, clock, resets>>

ProgramHead ==
  /\ pc = "PROG_HEAD"
  /\ Program([flash[Current] EXCEPT !.head = buffer.head], "PROG_CNT")
  /\ UNCHANGED <<tTaskState, buffer>>

ProgramCounter ==
  /\ pc = "PROG_CNT"
  /\ Program([flash[Current] EXCEPT !.cnt = buffer.cnt], "PROG_HRS")
  /\ UNCHANGED <<tTaskState, buffer>>

ProgramHours ==
  /\ pc = "PROG_HRS"
  /\ Program([flash[Current] EXCEPT !.hrs = buffer.hrs], "PROG_MIN")
  /\ UNCHANGED <<tTaskState, buffer>>

ProgramMinutes ==
  /\ pc = "PROG_MIN"
  /\ Program([flash[Current] EXCEPT !.min = buffer.min], "RUN")
  /\ tTaskState' = "SAVE_DONE"
  /\ buffer' = BlankSlot

-----------------------------------------------------------------------------
Writing == pc \in {"ERASE_0", "ERASE_1", "PROG_HEAD", "PROG_CNT", "PROG_HRS",
                   "PROG_MIN"}
Saving == pc = "SAVE_MIN" \/ Writing

PowerLoss ==
  /\ resets < MaxResets
  /\ resets' = resets + 1
  /\ ucSegIndex' = 0 /\ ucPageIndex' = 0
  /\ ulWriteCounter' = 0
  /\ tTaskState' = "INIT"
  /\ pc' = "RUN"
  /\ buffer' = BlankSlot
  /\ carry' = FALSE
  /\ systick_hrs' = 0 /\ systick_min' = 0
  /\ UNCHANGED flash

FlashThread ==
  \/ TaskInit \/ TaskInitDone \/ SearchBack \/ ReadHours \/ ReadMinutes
  \/ Sleep \/ Wake
  \/ SaveHours \/ SaveMinutes \/ EraseFirst \/ EraseSecond
  \/ ProgramHead \/ ProgramCounter \/ ProgramHours \/ ProgramMinutes

Next ==
  \/ FlashThread \/ MinuteTick \/ PowerLoss
  \/ \E state \in {"SAVE", "INIT"} : Request(state)

Spec == Init /\ [][Next]_vars

\* The flash thread has no equal that keeps it from running for ever.
FairSpec == Spec /\ WF_vars(FlashThread)

-----------------------------------------------------------------------------
(* Properties.                                                             *)

TypeOK ==
  /\ flash \in [Slots -> Records]
  /\ ucSegIndex \in 0 .. FLASH_SEG_INDEX_END
  /\ ucPageIndex \in 0 .. FLASH_PAGE_INDEX_END
  /\ ulWriteCounter \in Erased .. MaxWrites
  /\ tTaskState \in {"INIT", "INIT_DONE", "READ", "READ_DONE", "SAVE", "SAVE_DONE"}
  /\ pc \in {"RUN", "ASLEEP", "LOAD_MIN", "SAVE_MIN", "ERASE_0", "ERASE_1",
             "PROG_HEAD", "PROG_CNT", "PROG_HRS", "PROG_MIN"}
  /\ buffer \in Records
  /\ carry \in BOOLEAN
  /\ systick_hrs \in Hours
  /\ systick_min \in Minutes
  /\ resets \in 0 .. MaxResets

\* FLASH_WriteByte programs erased words only, wherever the power failed in
\* an earlier save or in the erasure of one of the two sectors.
ProgramsErased ==
  /\ pc = "PROG_HEAD" => flash[Current] = BlankSlot
  /\ pc = "PROG_CNT" => flash[Current].cnt = Erased
  /\ pc = "PROG_HRS" => flash[Current].hrs = Erased
  /\ pc = "PROG_MIN" => flash[Current].min = Erased

\* The used slots are the first ones without a gap, or, when the power failed
\* between the two erasures, exactly those of the second sector.
NoGap ==
  \/ \A s, t \in Slots : Before(s, t) /\ Flagged(t) => Flagged(s)
  \/ \A s \in Slots : Flagged(s) <=> Sector(s) = 1

\* FLASH_ucSearchFlagFromFlash stops at the newest record, and a save leaves
\* the indexes there: the next save goes to the slot after it, and to the
\* first slot when there is no record.
Newest(s) == Flagged(s) /\ \A t \in Slots : Flagged(t) => ~Before(s, t)
Idle == ~Saving /\ tTaskState \in {"READ_DONE", "SAVE", "SAVE_DONE"}
RestsAtNewest ==
  /\ pc # "ERASE_1" => NoGap
  /\ Idle => \/ Newest(Current)
             \/ Current = LastSlot /\ \A s \in Slots : ~Flagged(s)

\* The store keeps the promise of DurableHours.  From the moment a save has
\* read the minutes its record is the durable one; a search returns the newest
\* flagged record, whatever it holds.
Stored ==
  IF \E s \in Slots : Flagged(s)
  THEN LET s == CHOOSE s \in Slots : Newest(s)
       IN <<flash[s].hrs, flash[s].min>>
  ELSE << >>
durableHours == IF Writing THEN <<buffer.hrs, buffer.min>> ELSE Stored
workHours == IF pc = "LOAD_MIN" THEN <<systick_hrs, buffer.min>> ELSE clock

D == INSTANCE DurableHours
       WITH work <- workHours, durable <- durableHours, saving <- Writing,
            None <- << >>

\* Saves replace the durable hours in one step and by what the clock shows, or
\* one hour less; loads and restarts find them again; nothing else changes
\* them, except that the supply fails inside a save.
KeepsHours == D!Spec

\* A search that has started comes to an end, with or without a record, also
\* when the power fails in the middle of it.
SearchEnds ==
  (tTaskState = "INIT" /\ pc = "RUN") ~> (tTaskState = "READ_DONE")

\* A save that was asked for is made, unless another request or the end of
\* the supply comes first.
SaveServed == (tTaskState = "SAVE") ~> (tTaskState \in {"SAVE_DONE", "INIT"})

\* flash.h:47 "data flag(data is stored here)": a flagged record that is found
\* and loaded holds data.
FlagMeansData ==
  Idle => \A s \in Slots : Flagged(s) => Complete(s)
=============================================================================
