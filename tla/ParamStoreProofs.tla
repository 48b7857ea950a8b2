--------------------------- MODULE ParamStoreProofs ---------------------------
(***************************************************************************)
(* Proofs about the parameter store, for every number of pages and         *)
(* segments, every number of saves and of power losses, also in a save.    *)
(***************************************************************************)
EXTENDS ParamStore, TLAPS

USE DEF vars, index, clock, Writing

-----------------------------------------------------------------------------
(* Types.  A save is only started while the write counter is in bounds.    *)

WriteBound ==
  tTaskState = "SAVE" /\ pc \in {"RUN", "ASLEEP"} => ulWriteCounter < MaxWrites

TypeInv == TypeOK /\ WriteBound

LEMMA BlankTypes ==
  /\ BlankSlot \in Records
  /\ FirstSlot \in Slots /\ LastSlot \in Slots
  BY StoreAssumption
     DEF BlankSlot, BlankHead, Records, Hours, Minutes, Erased, FirstSlot,
         LastSlot, Slots

LEMMA ZeroTypes ==
  /\ 0 \in Hours /\ 0 \in Minutes /\ 0 \in Erased .. MaxWrites
  /\ 0 \in 0 .. FLASH_SEG_INDEX_END /\ 0 \in 0 .. FLASH_PAGE_INDEX_END
  /\ 0 \in 0 .. MaxResets
  BY StoreAssumption DEF Hours, Minutes, Erased

LEMMA NextSlotType == TypeOK => NextSlot \in Slots
  BY StoreAssumption DEF TypeOK, NextSlot, FirstSlot, Slots

LEMMA CurrentType == TypeOK => Current \in Slots
  BY DEF TypeOK, Current, Slots

LEMMA InitType == Init => TypeInv
  BY BlankTypes, ZeroTypes DEF Init, RamCleared, TypeInv, TypeOK, WriteBound

LEMMA NextType == TypeInv /\ [Next]_vars => TypeInv'
<1> SUFFICES ASSUME TypeInv, [Next]_vars PROVE TypeInv'
  OBVIOUS
<1> USE StoreAssumption DEF TypeInv, TypeOK, WriteBound, Run
<1>1. CASE MinuteTick
  BY <1>1 DEF MinuteTick, Hours, Minutes, Erased
<1>2. CASE TaskInit \/ TaskInitDone \/ Sleep \/ Wake
  BY <1>2 DEF TaskInit, TaskInitDone, Sleep, Wake
<1>3. CASE SearchBack
  BY <1>3 DEF SearchBack
<1>4. CASE ReadHours
  <2>1. flash[Current] \in Records
    BY CurrentType
  <2>2. /\ flash[Current].cnt \in Erased .. MaxWrites
        /\ flash[Current].hrs \in Hours
    BY <2>1 DEF Records
  <2>3. QED
    BY <1>4, <2>1, <2>2 DEF ReadHours
<1>5. CASE ReadMinutes
  BY <1>5, BlankTypes DEF ReadMinutes, Records
<1>6. ASSUME NEW state \in {"SAVE", "INIT"}, Request(state) PROVE TypeInv'
  BY <1>6 DEF Request
<1>7. CASE SaveHours
  <2>1. NextSlot \in Slots
    BY NextSlotType
  <2>2. buffer' \in Records
    BY <1>7, <2>1 DEF SaveHours, Records, Hours, Minutes, Erased
  <2>3. NextSlot[1] \in 0 .. FLASH_PAGE_INDEX_END /\ NextSlot[2] \in 0 .. FLASH_SEG_INDEX_END
    BY <2>1 DEF Slots
  <2>4. ulWriteCounter' \in Erased .. MaxWrites
    BY <1>7 DEF SaveHours, Erased
  <2>5. QED
    BY <1>7, <2>2, <2>3, <2>4 DEF SaveHours
<1>8. CASE SaveMinutes
  <2>1. buffer' \in Records
    BY <1>8 DEF SaveMinutes, Records
  <2>2. QED
    BY <1>8, <2>1 DEF SaveMinutes
<1>9. CASE EraseFirst \/ EraseSecond
  BY <1>9, BlankTypes DEF EraseFirst, EraseSecond, EraseSector
<1>10. CASE ProgramHead \/ ProgramCounter \/ ProgramHours \/ ProgramMinutes
  <2>1. flash[Current] \in Records /\ Current \in Slots
    BY CurrentType
  <2>2. \A h \in Slots \cup {BlankHead} : [flash[Current] EXCEPT !.head = h] \in Records
    BY <2>1 DEF Records
  <2>3. \A c \in Erased .. MaxWrites : [flash[Current] EXCEPT !.cnt = c] \in Records
    BY <2>1 DEF Records
  <2>4. \A h \in Hours : [flash[Current] EXCEPT !.hrs = h] \in Records
    BY <2>1 DEF Records
  <2>5. \A m \in Minutes : [flash[Current] EXCEPT !.min = m] \in Records
    BY <2>1 DEF Records
  <2>6. /\ buffer.head \in Slots \cup {BlankHead}
        /\ buffer.cnt \in Erased .. MaxWrites
        /\ buffer.hrs \in Hours /\ buffer.min \in Minutes
    BY DEF Records
  <2>7. flash' \in [Slots -> Records]
    BY <1>10, <2>1, <2>2, <2>3, <2>4, <2>5, <2>6
       DEF ProgramHead, ProgramCounter, ProgramHours, ProgramMinutes, Program
  <2>8. QED
    BY <1>10, <2>7, BlankTypes
       DEF ProgramHead, ProgramCounter, ProgramHours, ProgramMinutes, Program
<1>11. CASE PowerLoss
  <2>1. resets' \in 0 .. MaxResets
    BY <1>11 DEF PowerLoss
  <2>2. QED
    BY <1>11, <2>1, BlankTypes, ZeroTypes DEF PowerLoss
<1>12. CASE UNCHANGED vars
  BY <1>12
<1>13. QED
  BY <1>1, <1>2, <1>3, <1>4, <1>5, <1>6, <1>7, <1>8, <1>9, <1>10, <1>11, <1>12
     DEF Next, FlashThread

LEMMA TypeInvariant == Spec => []TypeInv
  BY InitType, NextType, PTL DEF Spec

\* Every variable keeps its type, for any geometry of the log.
THEOREM StoreTypeCorrect == Spec => []TypeOK
<1>1. TypeInv => TypeOK
  BY DEF TypeInv
<1>2. QED
  BY <1>1, TypeInvariant, PTL

-----------------------------------------------------------------------------
(* Where the log stands.  RestsAtNewest is not inductive: it says nothing   *)
(* of the search, which must not have passed a record, nor of a save under  *)
(* way, whose slot must be the one after the newest record.                 *)

NoneFlagged == \A s \in Slots : ~Flagged(s)
FlaggedBefore(c) == \A t \in Slots : Flagged(t) <=> Before(t, c)
FlaggedTo(c) == \A t \in Slots : Flagged(t) <=> t = c \/ Before(t, c)
NothingAfter(c) == \A t \in Slots : Flagged(t) => ~Before(c, t)

AtEnd == Newest(Current) \/ (Current = LastSlot /\ NoneFlagged)
Wrapping ==
  Current = FirstSlot /\ NoGap /\ (Flagged(LastSlot) \/ NoneFlagged)
Resting ==
  \/ pc \in {"ASLEEP", "LOAD_MIN"}
  \/ pc = "RUN" /\ tTaskState \in {"READ_DONE", "SAVE", "SAVE_DONE"}

HeadsInPlace ==
  \A s \in Slots : \/ flash[s] = BlankSlot
                   \/ flash[s].head = s
SearchPlace ==
  /\ pc \in {"RUN", "ASLEEP", "LOAD_MIN"} => NoGap
  /\ pc = "RUN" /\ tTaskState = "INIT_DONE" => Current = LastSlot
  /\ pc = "RUN" /\ tTaskState = "READ" => NothingAfter(Current)
  /\ Resting => AtEnd
  /\ pc = "ASLEEP" =>
       tTaskState \in {"INIT", "READ_DONE", "SAVE", "SAVE_DONE"}
SavePlace ==
  /\ Saving => buffer.head = Current
  /\ pc = "SAVE_MIN" => Wrapping \/ (Current # FirstSlot /\ FlaggedBefore(Current))
  /\ pc = "ERASE_0" => Wrapping
  /\ pc = "ERASE_1" =>
       /\ Current = FirstSlot
       /\ NoneFlagged \/ \A s \in Slots : Flagged(s) <=> Sector(s) = 1
  /\ pc = "PROG_HEAD" => FlaggedBefore(Current)
  /\ pc \in {"PROG_CNT", "PROG_HRS", "PROG_MIN"} => FlaggedTo(Current)
WordsPlace ==
  /\ pc = "PROG_CNT" => flash[Current].cnt = Erased
  /\ pc \in {"PROG_CNT", "PROG_HRS"} => flash[Current].hrs = Erased
  /\ pc \in {"PROG_CNT", "PROG_HRS", "PROG_MIN"} => flash[Current].min = Erased

PlaceInv == HeadsInPlace /\ SearchPlace /\ SavePlace /\ WordsPlace

(* The order of the slots.                                                 *)

LEMMA Order ==
  \A s, t \in Slots :
    /\ s = t \/ Before(s, t) \/ Before(t, s)
    /\ ~(Before(s, t) /\ Before(t, s))
    /\ ~Before(s, s)
    /\ ~Before(s, FirstSlot)
    /\ ~Before(LastSlot, s)
  BY StoreAssumption DEF Slots, Before, FirstSlot, LastSlot

LEMMA OrderTransitive ==
  \A s, t, u \in Slots : Before(s, t) /\ Before(t, u) => Before(s, u)
  BY StoreAssumption DEF Slots, Before

LEMMA SectorOrder ==
  /\ Sector(FirstSlot) = 0 /\ Sector(LastSlot) = 1
  /\ \A s \in Slots : Sector(s) \in {0, 1}
  /\ \A s, t \in Slots : Before(s, t) => Sector(s) = 0 \/ Sector(t) = 1
<1>1. FLASH_PAGE_INDEX_END \div 2 \in 0 .. FLASH_PAGE_INDEX_END - 1
  BY StoreAssumption
<1>2. QED
  BY <1>1, StoreAssumption DEF Sector, Slots, Before, FirstSlot, LastSlot

LEMMA NextSlotOrder ==
  ASSUME TypeOK
  PROVE  /\ Current = LastSlot => NextSlot = FirstSlot
         /\ Current # LastSlot =>
              /\ NextSlot # FirstSlot
              /\ \A t \in Slots :
                   Before(t, NextSlot) <=> t = Current \/ Before(t, Current)
  BY StoreAssumption
     DEF TypeOK, Current, NextSlot, FirstSlot, LastSlot, Before, Slots

LEMMA BlankIsUnflagged ==
  /\ BlankHead \notin Slots
  /\ BlankSlot.head = BlankHead /\ BlankSlot.cnt = Erased
  /\ BlankSlot.hrs = Erased /\ BlankSlot.min = Erased
  BY StoreAssumption DEF BlankSlot, BlankHead, Slots

(* Each part of RestsAtNewest and of ProgramsErased follows.               *)

LEMMA PrefixHasNoGap ==
  ASSUME NEW c \in Slots, FlaggedBefore(c) \/ FlaggedTo(c)
  PROVE  NoGap
  BY OrderTransitive, Order DEF NoGap, FlaggedBefore, FlaggedTo

LEMMA NoneHasNoGap == NoneFlagged => NoGap
  BY DEF NoGap, NoneFlagged

LEMMA NoGapInSave ==
  ASSUME TypeOK, PlaceInv, pc # "ERASE_1"
  PROVE  NoGap
<1>1. Current \in Slots
  BY CurrentType
<1>2. CASE pc \in {"RUN", "ASLEEP", "LOAD_MIN"}
  BY <1>2 DEF PlaceInv, SearchPlace
<1>3. CASE pc \in {"SAVE_MIN", "ERASE_0", "PROG_HEAD", "PROG_CNT", "PROG_HRS",
                   "PROG_MIN"}
  BY <1>1, <1>3, PrefixHasNoGap DEF PlaceInv, SavePlace, Wrapping
<1>4. QED
  BY <1>2, <1>3 DEF TypeOK

LEMMA PlaceImplies ==
  TypeOK /\ PlaceInv => ProgramsErased /\ RestsAtNewest
<1> SUFFICES ASSUME TypeOK, PlaceInv PROVE ProgramsErased /\ RestsAtNewest
  OBVIOUS
<1>1. Current \in Slots
  BY CurrentType
<1>2. ASSUME pc = "PROG_HEAD" PROVE flash[Current] = BlankSlot
  <2>1. ~Flagged(Current)
    BY <1>1, <1>2, Order DEF PlaceInv, SavePlace, FlaggedBefore
  <2>2. QED
    BY <1>1, <2>1, BlankIsUnflagged DEF PlaceInv, HeadsInPlace, Flagged
<1>3. ProgramsErased
  BY <1>2 DEF ProgramsErased, PlaceInv, WordsPlace
<1>4. Idle => Resting
  BY DEF Idle, Resting, Saving, TypeOK
<1>5. QED
  BY <1>3, <1>4, NoGapInSave
     DEF RestsAtNewest, PlaceInv, SearchPlace, AtEnd, NoneFlagged

LEMMA InitPlace == Init => PlaceInv
  BY BlankIsUnflagged, NoneHasNoGap
     DEF Init, RamCleared, PlaceInv, HeadsInPlace, SearchPlace, SavePlace,
         WordsPlace, Resting, Saving, NoneFlagged, Flagged

(* Steps that leave the log alone, and then those that leave the indexes
   alone as well. *)

LEMMA SameLog ==
  ASSUME UNCHANGED flash
  PROVE  /\ \A s : Flagged(s)' <=> Flagged(s)
         /\ HeadsInPlace' <=> HeadsInPlace
         /\ NoneFlagged' <=> NoneFlagged
         /\ NoGap' <=> NoGap
         /\ \A c : Newest(c)' <=> Newest(c)
         /\ \A c : FlaggedBefore(c)' <=> FlaggedBefore(c)
         /\ \A c : FlaggedTo(c)' <=> FlaggedTo(c)
         /\ \A c : NothingAfter(c)' <=> NothingAfter(c)
  BY DEF Flagged, HeadsInPlace, NoneFlagged, NoGap, Newest, FlaggedBefore,
         FlaggedTo, NothingAfter

LEMMA SamePlace ==
  ASSUME UNCHANGED <<flash, index>>
  PROVE  /\ Current' = Current
         /\ HeadsInPlace' <=> HeadsInPlace
         /\ NoGap' <=> NoGap
         /\ AtEnd' <=> AtEnd
         /\ Wrapping' <=> Wrapping
         /\ NothingAfter(Current)' <=> NothingAfter(Current)
         /\ FlaggedBefore(Current)' <=> FlaggedBefore(Current)
         /\ FlaggedTo(Current)' <=> FlaggedTo(Current)
         /\ NoneFlagged' <=> NoneFlagged
         /\ (\A s \in Slots : Flagged(s) <=> Sector(s) = 1)' <=>
              (\A s \in Slots : Flagged(s) <=> Sector(s) = 1)
         /\ flash[Current]' = flash[Current]
  BY DEF Flagged, HeadsInPlace, NoneFlagged, NoGap, Newest, FlaggedBefore,
         FlaggedTo, NothingAfter, AtEnd, Wrapping, Current, Sector

LEMMA TickPlace == PlaceInv /\ MinuteTick => PlaceInv'
  BY SamePlace
     DEF MinuteTick, PlaceInv, SearchPlace, SavePlace, WordsPlace, Resting,
         Saving

LEMMA SleepPlace ==
  ASSUME PlaceInv,
         Sleep \/ Wake \/ \E state \in {"SAVE", "INIT"} : Request(state)
  PROVE  PlaceInv'
  BY SamePlace
     DEF Sleep, Wake, Request, Run, PlaceInv, SearchPlace, SavePlace,
         WordsPlace, Resting, Saving

LEMMA LoadPlace ==
  PlaceInv /\ ReadMinutes => PlaceInv'
  BY SamePlace
     DEF ReadMinutes, PlaceInv, SearchPlace, SavePlace, WordsPlace, Resting,
         Saving

LEMMA RestartPlace ==
  ASSUME TypeOK, PlaceInv, TaskInit \/ TaskInitDone \/ PowerLoss
  PROVE  PlaceInv'
<1>1. Current \in Slots
  BY CurrentType
<1>2. CASE TaskInit
  <2>1. Current' = LastSlot
    BY <1>2 DEF TaskInit, Current, LastSlot
  <2>2. QED
    BY <1>2, <2>1, SameLog
       DEF TaskInit, Run, PlaceInv, SearchPlace, SavePlace, WordsPlace,
           Resting, Saving
<1>3. CASE TaskInitDone
  <2>1. Current = LastSlot
    BY <1>3 DEF TaskInitDone, Run, PlaceInv, SearchPlace
  <2>2. NothingAfter(Current)
    BY <2>1, Order, <1>1 DEF NothingAfter
  <2>3. QED
    BY <1>3, <2>2, SamePlace
       DEF TaskInitDone, Run, PlaceInv, SearchPlace, SavePlace, WordsPlace,
           Resting, Saving
<1>4. CASE PowerLoss
  <2>1. NoGap
    <3>1. CASE pc = "ERASE_1"
      BY <3>1, NoneHasNoGap DEF PlaceInv, SavePlace, NoGap
    <3>2. QED
      BY <3>1, NoGapInSave
  <2>2. QED
    BY <1>4, <2>1, SameLog
       DEF PowerLoss, PlaceInv, SearchPlace, SavePlace, WordsPlace, Resting,
           Saving
<1>5. QED
  BY <1>2, <1>3, <1>4

LEMMA SearchPlaceStep ==
  ASSUME TypeOK, PlaceInv, SearchBack \/ ReadHours
  PROVE  PlaceInv'
<1>1. Current \in Slots /\ NothingAfter(Current) /\ NoGap
  BY CurrentType
     DEF PlaceInv, SearchPlace, SearchBack, ReadHours, Run
<1>2. CASE ReadHours
  <2>1. Newest(Current)
    BY <1>1, <1>2 DEF Newest, NothingAfter, ReadHours
  <2>2. QED
    BY <1>1, <1>2, <2>1, SamePlace
       DEF ReadHours, Run, PlaceInv, SearchPlace, SavePlace, WordsPlace,
           Resting, Saving, AtEnd
<1>3. CASE SearchBack /\ Current = FirstSlot
  <2>1. Current' = LastSlot /\ tTaskState' = "READ_DONE"
    BY <1>3 DEF SearchBack, Current, FirstSlot, LastSlot
  <2>2. NoneFlagged
    BY <1>1, <1>3, Order DEF NoneFlagged, NothingAfter, SearchBack
  <2>3. AtEnd' /\ NoGap'
    BY <1>1, <1>3, <2>1, <2>2, SameLog DEF AtEnd, SearchBack
  <2>4. QED
    BY <1>3, <2>1, <2>3, SameLog
       DEF SearchBack, Run, PlaceInv, SearchPlace, SavePlace, WordsPlace,
           Resting, Saving
<1>4. CASE SearchBack /\ Current # FirstSlot
  <2>1. /\ tTaskState' = "READ"
        /\ Current' = IF ucSegIndex > 0 THEN <<ucPageIndex, ucSegIndex - 1>>
                      ELSE <<ucPageIndex - 1, FLASH_SEG_INDEX_END>>
    BY <1>4, StoreAssumption
       DEF SearchBack, Current, FirstSlot, TypeOK, Run
  <2>2. \A t \in Slots : Before(Current', t) => t = Current \/ Before(Current, t)
    BY <2>1, StoreAssumption DEF TypeOK, Before, Current, Slots
  <2>3. \A t \in Slots : Flagged(t) => ~Before(Current', t)
    BY <1>1, <1>4, <2>2 DEF NothingAfter, SearchBack
  <2>4. \A t \in Slots : Flagged(t)' => ~Before(Current, t)'
    BY <1>4, <2>3 DEF SearchBack, Flagged, Before
  <2>5. NothingAfter(Current)'
    BY <2>4 DEF NothingAfter
  <2>6. QED
    BY <1>1, <1>4, <2>1, <2>5, SameLog
       DEF SearchBack, Run, PlaceInv, SearchPlace, SavePlace, WordsPlace,
           Resting, Saving
<1>5. QED
  BY <1>2, <1>3, <1>4

(* The steps of a save.                                                    *)

LEMMA AtEndIsPrefix ==
  ASSUME NoGap, NEW c \in Slots, Newest(c), c # LastSlot
  PROVE  FlaggedTo(c)
<1>1. CASE \A s, t \in Slots : Before(s, t) /\ Flagged(t) => Flagged(s)
  BY <1>1, Order DEF Newest, FlaggedTo
<1>2. CASE \A s \in Slots : Flagged(s) <=> Sector(s) = 1
  <2>1. LastSlot \in Slots /\ Flagged(LastSlot)
    BY <1>2, BlankTypes, SectorOrder
  <2>2. Before(c, LastSlot)
    BY <2>1, Order
  <2>3. QED
    BY <2>1, <2>2 DEF Newest
<1>3. QED
  BY <1>1, <1>2 DEF NoGap

LEMMA SaveStartPlace ==
  ASSUME TypeOK, PlaceInv, SaveHours
  PROVE  PlaceInv'
<1>1. Current \in Slots /\ NextSlot \in Slots /\ LastSlot \in Slots
  BY CurrentType, NextSlotType, BlankTypes
<1>2. AtEnd /\ NoGap
  BY DEF SaveHours, Run, PlaceInv, SearchPlace, Resting
<1>3. Current' = NextSlot
  BY <1>1 DEF SaveHours, Current, Slots
<1>4. CASE Current = LastSlot
  <2>1. Flagged(LastSlot) \/ NoneFlagged
    BY <1>2, <1>4 DEF AtEnd, Newest
  <2>2. UNCHANGED flash /\ NextSlot = FirstSlot
    BY <1>4, NextSlotOrder DEF SaveHours
  <2>3. Wrapping'
    BY <1>2, <1>3, <2>1, <2>2, SameLog DEF Wrapping, FirstSlot, LastSlot
  <2>4. QED
    BY <1>3, <2>3, SameLog
       DEF SaveHours, PlaceInv, SearchPlace, SavePlace, WordsPlace, Resting,
           Saving
<1>5. CASE Current # LastSlot
  <2>1. FlaggedTo(Current)
    BY <1>1, <1>2, <1>5, AtEndIsPrefix DEF AtEnd
  <2>2. FlaggedBefore(NextSlot) /\ NextSlot # FirstSlot
    BY <1>5, <2>1, NextSlotOrder DEF FlaggedTo, FlaggedBefore
  <2>3. UNCHANGED flash
    BY DEF SaveHours
  <2>4. FlaggedBefore(Current)'
    <3>1. \A t \in Slots : Flagged(t)' <=> Before(t, Current')
      BY <1>3, <2>2, <2>3, SameLog DEF FlaggedBefore
    <3>2. QED
      BY <3>1 DEF FlaggedBefore, Before
  <2>5. (Current # FirstSlot)'
    BY <1>3, <2>2 DEF FirstSlot
  <2>6. QED
    BY <1>3, <2>4, <2>5, SameLog
       DEF SaveHours, PlaceInv, SearchPlace, SavePlace, WordsPlace, Resting,
           Saving
<1>6. QED
  BY <1>4, <1>5

LEMMA SaveRecordPlace ==
  ASSUME TypeOK, PlaceInv, SaveMinutes
  PROVE  PlaceInv'
<1>1. buffer'.head = buffer.head
  BY DEF SaveMinutes, TypeOK, Records
<1>2. Wrapping \/ (Current # FirstSlot /\ FlaggedBefore(Current))
  BY DEF SaveMinutes, PlaceInv, SavePlace
<1>3. QED
  BY <1>1, <1>2, SamePlace
     DEF SaveMinutes, PlaceInv, SearchPlace, SavePlace, WordsPlace, Resting,
         Saving, Wrapping

LEMMA ErasePlace ==
  ASSUME TypeOK, PlaceInv, EraseFirst \/ EraseSecond
  PROVE  PlaceInv'
<1>1. Current' = Current /\ Current = FirstSlot /\ UNCHANGED buffer
  BY DEF EraseFirst, EraseSecond, EraseSector, Current, PlaceInv, SavePlace,
         Wrapping
<1>2. HeadsInPlace'
  BY BlankIsUnflagged
     DEF EraseFirst, EraseSecond, EraseSector, PlaceInv, HeadsInPlace
<1>3. CASE EraseFirst
  <2>1. \A s \in Slots : Flagged(s)' <=> Flagged(s) /\ Sector(s) # 0
    BY <1>3, BlankIsUnflagged DEF EraseFirst, EraseSector, Flagged, TypeOK
  <2>2. NoGap /\ (Flagged(LastSlot) \/ NoneFlagged)
    BY <1>3 DEF EraseFirst, PlaceInv, SavePlace, Wrapping
  <2>3. NoneFlagged' \/ (\A s \in Slots : Flagged(s) <=> Sector(s) = 1)'
    <3>1. CASE NoneFlagged
      BY <2>1, <3>1 DEF NoneFlagged
    <3>2. CASE Flagged(LastSlot)
      <4>1. \A s \in Slots : Sector(s) # 0 => Flagged(s)
        BY <2>2, <3>2, Order, SectorOrder, BlankTypes DEF NoGap
      <4>2. \A s \in Slots : Flagged(s)' <=> Sector(s) = 1
        BY <2>1, <4>1, SectorOrder
      <4>3. QED
        BY <4>2 DEF Sector
    <3>3. QED
      BY <2>2, <3>1, <3>2
  <2>4. QED
    BY <1>1, <1>2, <1>3, <2>3
       DEF EraseFirst, EraseSector, PlaceInv, SearchPlace, SavePlace,
           WordsPlace, Resting, Saving, FirstSlot
<1>4. CASE EraseSecond
  <2>1. \A s \in Slots : Flagged(s)' <=> Flagged(s) /\ Sector(s) # 1
    BY <1>4, BlankIsUnflagged DEF EraseSecond, EraseSector, Flagged, TypeOK
  <2>2. \A s \in Slots : ~Flagged(s)'
    BY <1>4, <2>1 DEF EraseSecond, PlaceInv, SavePlace, NoneFlagged
  <2>3. \A s \in Slots : Flagged(s)' <=> Before(s, Current')
    BY <1>1, <2>2, Order
  <2>4. FlaggedBefore(Current)'
    BY <2>3 DEF FlaggedBefore, Before
  <2>5. QED
    BY <1>1, <1>2, <1>4, <2>4
       DEF EraseSecond, EraseSector, PlaceInv, SearchPlace, SavePlace,
           WordsPlace, Resting, Saving
<1>5. QED
  BY <1>3, <1>4

LEMMA ProgramPlace ==
  ASSUME TypeOK, PlaceInv,
         ProgramHead \/ ProgramCounter \/ ProgramHours \/ ProgramMinutes
  PROVE  PlaceInv'
<1>1. Current \in Slots /\ flash[Current] \in Records /\ Current # BlankHead
  BY CurrentType, BlankIsUnflagged DEF TypeOK
<1>2. UNCHANGED index /\ Current' = Current
  BY DEF ProgramHead, ProgramCounter, ProgramHours, ProgramMinutes, Program,
         Current
<1>3. /\ \A s \in Slots \ {Current} : flash'[s] = flash[s]
      /\ flash'[Current].head = Current
  <2>1. flash[Current].head = Current \/ pc = "PROG_HEAD"
    BY <1>1, BlankIsUnflagged
       DEF ProgramHead, ProgramCounter, ProgramHours, ProgramMinutes, PlaceInv,
           HeadsInPlace, SavePlace, FlaggedTo, Flagged
  <2>2. buffer.head = Current
    BY DEF ProgramHead, ProgramCounter, ProgramHours, ProgramMinutes, PlaceInv,
           SavePlace, Saving
  <2>3. QED
    BY <1>1, <2>1, <2>2
       DEF ProgramHead, ProgramCounter, ProgramHours, ProgramMinutes, Program,
           Records, TypeOK
<1>4. HeadsInPlace'
  BY <1>3 DEF PlaceInv, HeadsInPlace
<1>5. \A t \in Slots : Flagged(t) \/ t = Current <=> t = Current \/ Before(t, Current)
  BY Order
     DEF ProgramHead, ProgramCounter, ProgramHours, ProgramMinutes, PlaceInv,
         SavePlace, FlaggedTo, FlaggedBefore
<1>6. \A t \in Slots : Flagged(t)' <=> t = Current \/ Before(t, Current)
  BY <1>1, <1>3, <1>5 DEF Flagged
<1>7. FlaggedTo(Current)'
  BY <1>2, <1>6 DEF FlaggedTo, Before
<1>8. WordsPlace'
  <2>1. pc = "PROG_HEAD" => flash[Current] = BlankSlot
    BY PlaceImplies DEF ProgramsErased
  <2>2. QED
    BY <1>1, <1>2, <2>1, BlankIsUnflagged
       DEF ProgramHead, ProgramCounter, ProgramHours, ProgramMinutes, Program,
           PlaceInv, WordsPlace, TypeOK, Records
<1>9. pc' = "RUN" => AtEnd' /\ NoGap'
  <2>1. FlaggedTo(Current)' => NoGap'
    BY OrderTransitive, Order, <1>1, <1>2, <1>6 DEF NoGap, Before
  <2>2. \A t \in Slots : Flagged(t)' => ~Before(Current, t)
    BY <1>1, <1>6, Order
  <2>3. Newest(Current)'
    BY <1>1, <1>2, <1>6, <2>2 DEF Newest, Before
  <2>4. QED
    BY <1>7, <2>1, <2>3 DEF AtEnd
<1>10. QED
  BY <1>2, <1>4, <1>7, <1>8, <1>9
     DEF ProgramHead, ProgramCounter, ProgramHours, ProgramMinutes, Program,
         PlaceInv, SearchPlace, SavePlace, Resting, Saving

LEMMA NextPlace == TypeInv /\ PlaceInv /\ [Next]_vars => PlaceInv'
<1> SUFFICES ASSUME TypeInv, PlaceInv, [Next]_vars PROVE PlaceInv'
  OBVIOUS
<1>1. TypeOK
  BY DEF TypeInv
<1>2. CASE UNCHANGED vars
  BY <1>2, SamePlace
     DEF PlaceInv, SearchPlace, SavePlace, WordsPlace, Resting, Saving
<1>3. CASE Next
  BY <1>1, <1>3, TickPlace, SleepPlace, LoadPlace, RestartPlace,
     SearchPlaceStep, SaveStartPlace, SaveRecordPlace, ErasePlace, ProgramPlace
     DEF Next, FlashThread
<1>4. QED
  BY <1>2, <1>3

LEMMA PlaceInvariant == Spec => []PlaceInv
  BY InitPlace, NextPlace, TypeInvariant, PTL DEF Spec

\* A word is only programmed while it is erased, wherever the power failed in
\* the saves and erasures before.
THEOREM StoreProgramsErased == Spec => []ProgramsErased
<1>1. TypeInv /\ PlaceInv => ProgramsErased
  BY PlaceImplies DEF TypeInv
<1>2. QED
  BY <1>1, TypeInvariant, PlaceInvariant, PTL

\* The search from the last slot backwards ends at the newest record.
THEOREM StoreRestsAtNewest == Spec => []RestsAtNewest
<1>1. TypeInv /\ PlaceInv => RestsAtNewest
  BY PlaceImplies DEF TypeInv
<1>2. QED
  BY <1>1, TypeInvariant, PlaceInvariant, PTL

-----------------------------------------------------------------------------
(* The promise.  Of a save under way it has to be known that the hours in   *)
(* the buffer are those of the clock, or one less after a carry, and before *)
(* the last word that the hours are in flash.                               *)

HoursTaken ==
  pc = "SAVE_MIN" =>
    \/ buffer.hrs = systick_hrs
    \/ carry /\ (buffer.hrs + 1) % HoursLimit = systick_hrs
HoursWritten == pc = "PROG_MIN" => flash[Current].hrs = buffer.hrs
TimeInv == HoursTaken /\ HoursWritten

LEMMA InitTime == Init => TimeInv
  BY DEF Init, RamCleared, TimeInv, HoursTaken, HoursWritten

LEMMA NextTime == TypeInv /\ TimeInv /\ [Next]_vars => TimeInv'
<1> SUFFICES ASSUME TypeOK, TimeInv, [Next]_vars PROVE TimeInv'
  BY DEF TypeInv
<1> USE DEF TimeInv, HoursTaken, HoursWritten
<1>1. CASE MinuteTick
  BY <1>1 DEF MinuteTick, Current
<1>2. CASE TaskInit \/ TaskInitDone \/ Sleep \/ Wake \/ PowerLoss
  BY <1>2 DEF TaskInit, TaskInitDone, Sleep, Wake, PowerLoss, Run
<1>3. CASE SearchBack \/ ReadHours \/ ReadMinutes
  BY <1>3 DEF SearchBack, ReadHours, ReadMinutes, Run
<1>4. ASSUME NEW state \in {"SAVE", "INIT"}, Request(state) PROVE TimeInv'
  BY <1>4 DEF Request
<1>5. CASE SaveHours
  BY <1>5 DEF SaveHours
<1>6. CASE SaveMinutes \/ EraseFirst \/ EraseSecond
  BY <1>6 DEF SaveMinutes, EraseFirst, EraseSecond, EraseSector
<1>7. CASE ProgramHead \/ ProgramCounter \/ ProgramMinutes
  BY <1>7 DEF ProgramHead, ProgramCounter, ProgramMinutes, Program
<1>8. CASE ProgramHours
  <2>1. Current \in Slots /\ flash[Current] \in Records /\ Current' = Current
    BY <1>8, CurrentType DEF TypeOK, ProgramHours, Program, Current
  <2>2. flash'[Current].hrs = buffer.hrs
    BY <1>8, <2>1 DEF ProgramHours, Program, TypeOK, Records
  <2>3. QED
    BY <1>8, <2>1, <2>2 DEF ProgramHours, Program
<1>9. CASE UNCHANGED vars
  BY <1>9 DEF Current
<1>10. QED
  BY <1>1, <1>2, <1>3, <1>4, <1>5, <1>6, <1>7, <1>8, <1>9 DEF Next, FlashThread

LEMMA TimeInvariant == Spec => []TimeInv
  BY InitTime, NextTime, TypeInvariant, PTL DEF Spec

\* There is one newest record: what is stored is what it holds.
LEMMA StoredIsNewest ==
  ASSUME NEW c \in Slots, Newest(c)
  PROVE  Stored = <<flash[c].hrs, flash[c].min>>
<1>1. \A s \in Slots : Newest(s) => s = c
  BY Order DEF Newest
<1>2. (CHOOSE s \in Slots : Newest(s)) = c
  BY <1>1
<1>3. \E s \in Slots : Flagged(s)
  BY DEF Newest
<1>4. QED
  BY <1>2, <1>3 DEF Stored

LEMMA SameStored == UNCHANGED flash => Stored' = Stored
  BY DEF Stored, Newest, Flagged

\* Steps that move neither the clock nor the log nor a save.
LEMMA QuietStep ==
  ASSUME UNCHANGED <<flash, clock, buffer>>, Writing' <=> Writing,
         pc # "LOAD_MIN", pc' # "LOAD_MIN"
  PROVE  UNCHANGED <<workHours, durableHours, Writing>>
  BY SameStored DEF workHours, durableHours

\* Each step of the store is one of what it promises, or changes nothing of it.
LEMMA PromiseStep ==
  ASSUME TypeOK, PlaceInv, PlaceInv', TimeInv, [Next]_vars
  PROVE  [D!Next]_<<workHours, durableHours, Writing>>
<1> USE DEF D!Next
<1>1. CASE MinuteTick
  <2>1. UNCHANGED <<durableHours, Writing>>
    BY <1>1, SameStored DEF MinuteTick, durableHours
  <2>2. CASE pc = "LOAD_MIN"
    BY <1>1, <2>1, <2>2
       DEF MinuteTick, workHours, D!CarryAfterLoad, D!HourAfter
  <2>3. CASE pc # "LOAD_MIN"
    <3>1. workHours' = D!MinuteAfter(workHours)
      BY <1>1, <2>3, StoreAssumption
         DEF MinuteTick, workHours, D!MinuteAfter, D!HourAfter, TypeOK, Minutes,
             Hours, Erased
    <3>2. QED
      BY <2>1, <3>1 DEF D!Tick
  <2>4. QED
    BY <2>2, <2>3
<1>2. CASE TaskInit \/ TaskInitDone \/ SearchBack \/ Sleep \/ Wake
  BY <1>2, QuietStep DEF TaskInit, TaskInitDone, SearchBack, Sleep, Wake, Run
<1>3. ASSUME NEW state \in {"SAVE", "INIT"}, Request(state)
      PROVE  UNCHANGED <<workHours, durableHours, Writing>>
  BY <1>3, QuietStep DEF Request
<1>4. CASE ReadHours
  <2>1. Current \in Slots /\ Newest(Current)
    BY <1>4, CurrentType
       DEF ReadHours, Run, PlaceInv, SearchPlace, NothingAfter, Newest
  <2>2. ~Writing /\ ~Writing' /\ Stored' = Stored
    BY <1>4, SameStored DEF ReadHours, Run, TypeOK
  <2>3. durableHours = Stored /\ durableHours' = Stored
    BY <2>2 DEF durableHours
  <2>4. CASE flash[Current].head = Current
    <3>1. workHours' = Stored
      BY <1>4, <2>1, <2>4, StoredIsNewest DEF ReadHours, workHours
    <3>2. Stored # << >>
      BY <2>1, StoredIsNewest
    <3>3. QED
      BY <2>2, <2>3, <3>1, <3>2 DEF D!Load
  <2>5. CASE flash[Current].head # Current
    BY <1>4, <2>2, <2>3, <2>5 DEF ReadHours, Run, workHours
  <2>6. QED
    BY <2>4, <2>5
<1>5. CASE ReadMinutes
  BY <1>5, SameStored DEF ReadMinutes, workHours, durableHours
<1>6. CASE SaveHours
  BY <1>6, SameStored DEF SaveHours, Run, workHours, durableHours
<1>7. CASE SaveMinutes
  <2>1. ~Writing /\ Writing'
    BY <1>7 DEF SaveMinutes
  <2>2. durableHours' = <<buffer.hrs, systick_min>>
    BY <1>7, <2>1 DEF SaveMinutes, durableHours, TypeOK, Records
  <2>3. workHours = <<systick_hrs, systick_min>> /\ UNCHANGED workHours
    BY <1>7 DEF SaveMinutes, workHours
  <2>4. \/ buffer.hrs = systick_hrs
        \/ (buffer.hrs + 1) % HoursLimit = systick_hrs
    BY <1>7 DEF SaveMinutes, TimeInv, HoursTaken
  <2>5. durableHours' = workHours \/ D!HourAfter(durableHours') = workHours
    BY <2>2, <2>3, <2>4 DEF D!HourAfter
  <2>6. durableHours' # << >>
    BY <2>2
  <2>7. QED
    BY <2>1, <2>3, <2>5, <2>6 DEF D!Save
<1>8. CASE EraseFirst \/ EraseSecond \/ ProgramHead \/ ProgramCounter \/ ProgramHours
  BY <1>8
     DEF EraseFirst, EraseSecond, EraseSector, ProgramHead, ProgramCounter,
         ProgramHours, Program, workHours, durableHours
<1>9. CASE ProgramMinutes
  <2>1. Current \in Slots /\ flash[Current] \in Records /\ Current' = Current
    BY <1>9, CurrentType DEF TypeOK, ProgramMinutes, Program, Current
  <2>2. Newest(Current)'
    <3>1. \A t \in Slots : Flagged(t) => ~Before(Current, t)
      BY <1>9, <2>1, Order
         DEF ProgramMinutes, PlaceInv, SavePlace, FlaggedTo
    <3>2. \A t \in Slots : Flagged(t)' <=> Flagged(t)
      BY <1>9, <2>1
         DEF ProgramMinutes, Program, Flagged, TypeOK, Records
    <3>3. Flagged(Current)
      BY <1>9, <2>1 DEF ProgramMinutes, PlaceInv, SavePlace, FlaggedTo
    <3>4. QED
      BY <2>1, <3>1, <3>2, <3>3 DEF Newest, Before
  <2>3. /\ flash'[Current].hrs = buffer.hrs
        /\ flash'[Current].min = buffer.min
    BY <1>9, <2>1 DEF ProgramMinutes, Program, TimeInv, HoursWritten, TypeOK, Records
  <2>4. Stored' = <<buffer.hrs, buffer.min>>
    <3>1. \A s \in Slots : Newest(s)' => s = Current'
      BY <2>1, <2>2, Order DEF Newest, Before
    <3>2. (CHOOSE s \in Slots : Newest(s)') = Current'
      BY <2>1, <2>2, <3>1
    <3>3. \E s \in Slots : Flagged(s)'
      BY <2>1, <2>2 DEF Newest
    <3>4. QED
      BY <2>1, <2>3, <3>2, <3>3 DEF Stored
  <2>5. Writing /\ ~Writing' /\ UNCHANGED workHours
    BY <1>9 DEF ProgramMinutes, Program, workHours
  <2>6. UNCHANGED durableHours
    BY <2>4, <2>5 DEF durableHours
  <2>7. QED
    BY <2>5, <2>6 DEF D!Saved
<1>10. CASE PowerLoss
  <2>1. workHours' = <<0, 0>> /\ ~Writing'
    BY <1>10 DEF PowerLoss, workHours
  <2>2. ~Writing => UNCHANGED durableHours
    BY <1>10, <2>1, SameStored DEF PowerLoss, durableHours
  <2>3. QED
    BY <2>1, <2>2 DEF D!Restart, D!CutOff
<1>11. CASE UNCHANGED vars
  BY <1>11, SameStored DEF workHours, durableHours
<1>12. QED
  BY <1>1, <1>2, <1>3, <1>4, <1>5, <1>6, <1>7, <1>8, <1>9, <1>10, <1>11
     DEF Next, FlashThread

\* The store implements DurableHours, whatever number of power losses.
THEOREM StoreKeepsHours == Spec => KeepsHours
<1>1. Init => D!Init
  <2> SUFFICES ASSUME Init PROVE D!Init
    OBVIOUS
  <2>1. \A s \in Slots : ~Flagged(s)
    BY BlankIsUnflagged DEF Init, Flagged
  <2>2. QED
    BY <2>1 DEF Init, RamCleared, D!Init, workHours, durableHours, Stored
<1>2. TypeInv /\ PlaceInv /\ PlaceInv' /\ TimeInv /\ [Next]_vars
      => [D!Next]_<<workHours, durableHours, Writing>>
  BY PromiseStep DEF TypeInv
<1>3. QED
  BY <1>1, <1>2, TypeInvariant, PlaceInvariant, TimeInvariant, PTL
     DEF Spec, KeepsHours, D!Spec

-----------------------------------------------------------------------------
(* Progress.  A request sets the handler going; what is left of it is the  *)
(* rest of the search, a slot at a time, or the rest of the save.          *)

SlotsBehind == ucPageIndex * (FLASH_SEG_INDEX_END + 1) + ucSegIndex
AllSlots == (FLASH_PAGE_INDEX_END + 1) * (FLASH_SEG_INDEX_END + 1)

StepsLeft ==
  CASE pc = "ASLEEP" -> 0
    [] pc = "RUN" /\ tTaskState = "INIT" -> AllSlots + 4
    [] pc = "RUN" /\ tTaskState = "INIT_DONE" -> AllSlots + 3
    [] pc = "RUN" /\ tTaskState = "READ" -> SlotsBehind + 3
    [] pc = "LOAD_MIN" -> 2
    [] pc = "RUN" /\ tTaskState = "SAVE" -> 9
    [] pc = "SAVE_MIN" -> 8
    [] pc = "ERASE_0" -> 7
    [] pc = "ERASE_1" -> 6
    [] pc = "PROG_HEAD" -> 5
    [] pc = "PROG_CNT" -> 4
    [] pc = "PROG_HRS" -> 3
    [] pc = "PROG_MIN" -> 2
    [] OTHER -> 1

\* Every step of the handler brings the end of its work nearer, from wherever
\* a power loss or a request has set it; the minutes that pass and the requests
\* that are made meanwhile add nothing to it.
HandlerGetsOn ==
  [][/\ StepsLeft \in Nat
     /\ FlashThread /\ pc # "ASLEEP" => StepsLeft' < StepsLeft
     /\ StepsLeft' > StepsLeft => Wake \/ PowerLoss]_vars

SlotsInv ==
  SlotsBehind \in Nat /\ AllSlots \in Nat /\ SlotsBehind < AllSlots

LEMMA SlotsBehindRange == TypeOK => SlotsInv
<1> SUFFICES ASSUME TypeOK PROVE SlotsInv
  OBVIOUS
<1> DEFINE w == FLASH_SEG_INDEX_END + 1
<1>1. /\ w \in Nat /\ ucPageIndex \in Nat /\ FLASH_PAGE_INDEX_END \in Nat
      /\ ucPageIndex <= FLASH_PAGE_INDEX_END /\ ucSegIndex \in Nat /\ ucSegIndex < w
  BY StoreAssumption DEF TypeOK
<1>2. \A p, q, v \in Nat : p <= q => p * v \in Nat /\ p * v <= q * v
  OBVIOUS
<1>3. /\ ucPageIndex * w \in Nat /\ FLASH_PAGE_INDEX_END * w \in Nat
      /\ ucPageIndex * w <= FLASH_PAGE_INDEX_END * w
  <2> HIDE DEF w
  <2> QED BY <1>1, <1>2
<1>4. \A q, v \in Nat : (q + 1) * v = q * v + v
  OBVIOUS
<1>5. (FLASH_PAGE_INDEX_END + 1) * w = FLASH_PAGE_INDEX_END * w + w
  <2> HIDE DEF w
  <2> QED BY <1>1, <1>4
<1>6. SlotsBehind = ucPageIndex * w + ucSegIndex /\ AllSlots = (FLASH_PAGE_INDEX_END + 1) * w
  BY DEF SlotsBehind, AllSlots
<1> HIDE DEF w
<1> QED
  BY <1>1, <1>3, <1>5, <1>6 DEF SlotsInv

LEMMA SearchShortens ==
  ASSUME TypeOK, SearchBack, tTaskState' = "READ"
  PROVE  SlotsBehind' = SlotsBehind - 1
<1>1. CASE ucSegIndex > 0
  <2>1. ucPageIndex' = ucPageIndex /\ ucSegIndex' = ucSegIndex - 1
    BY <1>1 DEF SearchBack
  <2>2. ucPageIndex * (FLASH_SEG_INDEX_END + 1) \in Int /\ ucSegIndex \in Int
    BY StoreAssumption DEF TypeOK
  <2> QED
    BY <2>1, <2>2 DEF SlotsBehind
<1>2. CASE ~(ucSegIndex > 0)
  <2>1. /\ ucSegIndex = 0 /\ ucSegIndex' = FLASH_SEG_INDEX_END
        /\ ucPageIndex' = ucPageIndex - 1
    BY <1>2 DEF SearchBack, TypeOK
  <2>2. \A p, v \in Nat : (p - 1) * (v + 1) + v = p * (v + 1) + 0 - 1
    OBVIOUS
  <2> QED
    BY <2>1, <2>2, StoreAssumption DEF SlotsBehind, TypeOK
<1> QED
  BY <1>1, <1>2

\* The core of SearchEnds and SaveServed for every size of the log: the handler
\* cannot run for ever without going back to sleep, wherever the power failed.
THEOREM StoreHandlerGetsOn == Spec => HandlerGetsOn
<1> DEFINE
      On ==
        /\ StepsLeft \in Nat
        /\ FlashThread /\ pc # "ASLEEP" => StepsLeft' < StepsLeft
        /\ StepsLeft' > StepsLeft => Wake \/ PowerLoss
<1>1. TypeOK /\ SlotsInv /\ SlotsInv' /\ [Next]_vars => [On]_vars
  <2> SUFFICES ASSUME TypeOK, SlotsInv, SlotsInv', Next PROVE On
    OBVIOUS
  <2>1. /\ SlotsBehind \in Nat /\ SlotsBehind' \in Nat
        /\ AllSlots \in Nat /\ AllSlots' = AllSlots
        /\ SlotsBehind < AllSlots /\ SlotsBehind' < AllSlots
    BY DEF SlotsInv, AllSlots
  <2>2. StepsLeft \in Nat
    BY <2>1 DEF StepsLeft
  <2> HIDE DEF SlotsBehind, AllSlots
  <2>3. ASSUME FlashThread, pc # "ASLEEP" PROVE StepsLeft' < StepsLeft
    <3> USE DEF Run
    <3>1. CASE TaskInit \/ TaskInitDone \/ Sleep
      BY <3>1, <2>1 DEF TaskInit, TaskInitDone, Sleep, StepsLeft
    <3>2. CASE SearchBack
      <4>1. CASE tTaskState' = "READ"
        BY <3>2, <4>1, <2>1, SearchShortens DEF SearchBack, StepsLeft
      <4>2. CASE tTaskState' = "READ_DONE"
        BY <3>2, <4>2, <2>1 DEF SearchBack, StepsLeft
      <4> QED
        BY <3>2, <4>1, <4>2 DEF SearchBack
    <3>3. CASE ReadHours \/ ReadMinutes
      BY <3>3, <2>1 DEF ReadHours, ReadMinutes, StepsLeft
    <3>4. CASE SaveHours \/ SaveMinutes \/ EraseFirst \/ EraseSecond
      BY <3>4 DEF SaveHours, SaveMinutes, EraseFirst, EraseSecond, EraseSector,
                  StepsLeft
    <3>5. CASE ProgramHead \/ ProgramCounter \/ ProgramHours \/ ProgramMinutes
      BY <3>5 DEF ProgramHead, ProgramCounter, ProgramHours, ProgramMinutes,
                  Program, StepsLeft
    <3> QED
      BY <2>3, <3>1, <3>2, <3>3, <3>4, <3>5 DEF FlashThread, Wake
  <2>4. ASSUME MinuteTick \/ \E state \in {"SAVE", "INIT"} : Request(state)
        PROVE  StepsLeft' = StepsLeft
    <3>1. SlotsBehind' = SlotsBehind
      BY <2>4 DEF MinuteTick, Request, SlotsBehind
    <3> QED
      BY <2>4, <3>1, <2>1 DEF MinuteTick, Request, StepsLeft
  <2>5. StepsLeft' > StepsLeft => Wake \/ PowerLoss
    <3>1. CASE FlashThread /\ pc # "ASLEEP"
      <4>1. StepsLeft' < StepsLeft /\ StepsLeft' \in Nat
        BY <3>1, <2>3, <2>1 DEF StepsLeft
      <4> QED
        BY <4>1, <2>2
    <3>2. CASE FlashThread /\ pc = "ASLEEP"
      BY <3>2 DEF FlashThread, TaskInit, TaskInitDone, SearchBack, ReadHours,
           ReadMinutes, Sleep, SaveHours, SaveMinutes, EraseFirst, EraseSecond,
           ProgramHead, ProgramCounter, ProgramHours, ProgramMinutes, Run
    <3> QED
      BY <3>1, <3>2, <2>2, <2>4 DEF Next
  <2> QED
    BY <2>2, <2>3, <2>5
<1>2. Spec => [][Next]_vars
  BY DEF Spec
<1> QED
  BY StoreTypeCorrect, SlotsBehindRange, <1>1, <1>2, PTL DEF HandlerGetsOn
=============================================================================
