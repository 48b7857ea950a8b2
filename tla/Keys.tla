--------------------------------- MODULE Keys ---------------------------------
(***************************************************************************)
(* The Key thread (app_key.c): the contacts of the knob and of the handle  *)
(* are debounced, the key is told from the supply voltage, and the knob    *)
(* position follows from both.  The thread scans and decides in one turn   *)
(* of its own, which no thread that uses the result can interrupt; the     *)
(* contacts change at any time, also while they are scanned.               *)
(***************************************************************************)
EXTENDS Naturals

CONSTANTS
  Debounce,  \* scans a contact must be closed for
  CountMod   \* range of a debounce counter (uint8_t)

ASSUME KeysAssumption ==
  /\ Debounce \in Nat \ {0}
  /\ CountMod \in Nat
  /\ Debounce < CountMod

Contacts == {"B3", "A1", "A2", "Hand"}

VARIABLES
  closed,   \* the contacts, by name
  supply,   \* the reading of the supply voltage, against 500
  Count, Flag, Off_Flag,  \* Key_tCount
  Hand_Key_Flag, Off_Key_Flag,
  modes,    \* which of All, Brush and Suction are set
  settled   \* scans in a row in which the contact was found closed, up to
            \* Debounce

key_tCount == <<Count, Flag, Off_Flag>>
key_tInfo == <<Hand_Key_Flag, Off_Key_Flag, modes>>
vars == <<closed, supply, key_tCount, key_tInfo, settled>>

Init ==
  /\ closed \in [Contacts -> BOOLEAN] /\ supply \in {"below", "at", "above"}
  /\ Count = [c \in Contacts |-> 0]
  /\ Flag = [c \in Contacts |-> FALSE] /\ Off_Flag = FALSE
  /\ Hand_Key_Flag = FALSE /\ Off_Key_Flag = FALSE /\ modes = {}
  /\ settled = [c \in Contacts |-> 0]

-----------------------------------------------------------------------------
Increment(n) == (n + 1) % CountMod

\* Variant for mutation: the flag is taken back when the counter starts again.
FlagFollowsCount(c) == Increment(Count[c]) >= Debounce

FlagAfterClosed(c) == Flag[c] \/ Increment(Count[c]) >= Debounce

\* Variant for mutation: an open contact clears its flag, not its counter.
OpenCountKept(c) == Count[c]

OpenCount(c) == 0

\* The contacts found open by the first look and closed by the second are
\* left as they were.
Key_Scan(changing) ==
  /\ Count' = [c \in Contacts |->
                 IF closed[c] THEN Increment(Count[c])
                 ELSE IF c \in changing THEN Count[c] ELSE OpenCount(c)]
  /\ Flag' = [c \in Contacts |->
                IF closed[c] THEN FlagAfterClosed(c)
                ELSE c \in changing /\ Flag[c]]
  /\ Off_Flag' = IF supply = "at" THEN Off_Flag ELSE supply = "below"

\* Variant for mutation: what was set last stays set in the off position.
OffModesKept == modes

OffModes == {}

\* The position of the knob, where the contacts of one are closed.
Selected ==
  IF ~Flag'["B3"] THEN modes
  ELSE IF ~Flag'["A1"] THEN {IF Flag'["A2"] THEN "Brush" ELSE "All"}
  ELSE IF Flag'["A2"] THEN {"Suction"} ELSE modes

Key_Output ==
  /\ Hand_Key_Flag' = Flag'["Hand"]
  /\ Off_Key_Flag' = Off_Flag'
  /\ modes' = IF Off_Flag' THEN OffModes ELSE Selected

KeyTurn ==
  \E changing \in SUBSET {c \in Contacts : ~closed[c]} :
    /\ Key_Scan(changing)
    /\ Key_Output
    /\ closed' = [c \in Contacts |-> closed[c] \/ c \in changing]
    /\ settled' = [c \in Contacts |->
         IF closed[c]
         THEN IF settled[c] < Debounce THEN settled[c] + 1 ELSE Debounce
         ELSE IF c \in changing THEN settled[c] ELSE 0]
    /\ UNCHANGED supply

Switch(c) ==
  /\ closed' = [closed EXCEPT ![c] = ~closed[c]]
  /\ UNCHANGED <<supply, key_tCount, key_tInfo, settled>>

SupplyMoves ==
  /\ supply' \in {"below", "at", "above"} \ {supply}
  /\ UNCHANGED <<closed, key_tCount, key_tInfo, settled>>

Next == KeyTurn \/ SupplyMoves \/ \E c \in Contacts : Switch(c)

Spec == Init /\ [][Next]_vars

\* The thread is woken every 5 ms and only ADC is above it.
FairSpec == Spec /\ WF_vars(KeyTurn)

-----------------------------------------------------------------------------
TypeOK ==
  /\ closed \in [Contacts -> BOOLEAN] /\ supply \in {"below", "at", "above"}
  /\ Count \in [Contacts -> 0 .. CountMod - 1]
  /\ Flag \in [Contacts -> BOOLEAN] /\ Off_Flag \in BOOLEAN
  /\ Hand_Key_Flag \in BOOLEAN /\ Off_Key_Flag \in BOOLEAN
  /\ modes \in {{}, {"All"}, {"Brush"}, {"Suction"}}
  /\ settled \in [Contacts -> 0 .. Debounce]

\* A contact counts as closed exactly when it was found closed Debounce times
\* since it was last found open, however often its counter has started again.
Debounced == \A c \in Contacts : Flag[c] <=> settled[c] = Debounce

\* A mode comes on, also the last one after the off position, only with the key
\* on and with each of its contacts closed for the whole time of debouncing;
\* none is on in the off position.
Needed(mode) ==
  IF mode = "All" THEN {"B3"}
  ELSE IF mode = "Brush" THEN {"B3", "A2"} ELSE {"B3", "A1", "A2"}
ComesOn(mode) ==
  /\ ~Off_Key_Flag'
  /\ \A c \in Needed(mode) : settled'[c] = Debounce
StartsSettled ==
  [][\A mode \in modes' : mode \notin modes \/ Off_Key_Flag => ComesOn(mode)]_vars

\* A position the knob is left in takes effect and stays in effect.
At(on) == \A c \in {"B3", "A1", "A2"} : closed[c] <=> c \in on
Taken(on, mode) ==
  <>[](supply = "above" /\ At(on)) => <>[](modes = {mode})
KnobTaken ==
  /\ <>[](supply = "below") => <>[](Off_Key_Flag /\ modes = {})
  /\ Taken({"B3"}, "All")
  /\ Taken({"B3", "A2"}, "Brush")
  /\ Taken({"B3", "A1", "A2"}, "Suction")
=============================================================================
