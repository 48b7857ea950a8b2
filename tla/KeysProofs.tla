------------------------------ MODULE KeysProofs ------------------------------
(***************************************************************************)
(* Theorems about the Key thread, for every debounce time and every range  *)
(* of the counters above it.                                               *)
(***************************************************************************)
EXTENDS Keys, TLAPS

(***************************************************************************)
(* Until the flag is set, the counter counts what the history counts;      *)
(* after that it may start again.                                          *)
(***************************************************************************)
CountInv ==
  \A c \in Contacts :
    IF Flag[c] THEN settled[c] = Debounce
    ELSE settled[c] < Debounce /\ Count[c] = settled[c]

IInv ==
  /\ TypeOK
  /\ CountInv
  /\ Off_Key_Flag => modes = {}

LEMMA InitInv == Init => IInv
<1> SUFFICES ASSUME Init PROVE IInv
  OBVIOUS
<1>1. TypeOK
  <2>1. 0 \in 0 .. CountMod - 1 /\ 0 \in 0 .. Debounce
    BY KeysAssumption
  <2>2. Count \in [Contacts -> 0 .. CountMod - 1]
    BY <2>1 DEF Init
  <2>3. settled \in [Contacts -> 0 .. Debounce]
    BY <2>1 DEF Init
  <2>4. Flag \in [Contacts -> BOOLEAN]
    BY DEF Init
  <2> QED
    BY <2>2, <2>3, <2>4 DEF Init, TypeOK
<1>2. CountInv
  BY KeysAssumption DEF Init, CountInv
<1> QED
  BY <1>1, <1>2 DEF Init, IInv

LEMMA IncrementRange ==
  \A n \in 0 .. CountMod - 1 :
    /\ Increment(n) \in 0 .. CountMod - 1
    /\ n < Debounce => Increment(n) = n + 1
  BY KeysAssumption DEF Increment

-----------------------------------------------------------------------------
LEMMA TurnCounts ==
  ASSUME IInv, KeyTurn
  PROVE  CountInv' /\ TypeOK'
<1> PICK changing \in SUBSET {c \in Contacts : ~closed[c]} :
      /\ Key_Scan(changing)
      /\ Key_Output
      /\ closed' = [c \in Contacts |-> closed[c] \/ c \in changing]
      /\ settled' = [c \in Contacts |->
           IF closed[c]
           THEN IF settled[c] < Debounce THEN settled[c] + 1 ELSE Debounce
           ELSE IF c \in changing THEN settled[c] ELSE 0]
      /\ UNCHANGED supply
  BY DEF KeyTurn
<1>1. Count' \in [Contacts -> 0 .. CountMod - 1]
  BY IncrementRange, KeysAssumption DEF Key_Scan, OpenCount, IInv, TypeOK
<1>2. Flag' \in [Contacts -> BOOLEAN]
  BY DEF Key_Scan, FlagAfterClosed, IInv, TypeOK
<1>3. settled' \in [Contacts -> 0 .. Debounce]
  BY KeysAssumption DEF IInv, TypeOK
<1>4. closed' \in [Contacts -> BOOLEAN]
  BY DEF IInv, TypeOK
<1>5. Off_Flag' \in BOOLEAN
  BY DEF Key_Scan, IInv, TypeOK
<1>6. modes' \in {{}, {"All"}, {"Brush"}, {"Suction"}}
  BY DEF Key_Output, Selected, OffModes, IInv, TypeOK
<1>7. TypeOK'
  BY <1>1, <1>2, <1>3, <1>4, <1>5, <1>6
  DEF Key_Output, Contacts, IInv, TypeOK
<1>8. ASSUME NEW c \in Contacts
      PROVE  IF Flag'[c] THEN settled'[c] = Debounce
             ELSE settled'[c] < Debounce /\ Count'[c] = settled'[c]
  <2>1. CASE closed[c]
    <3>1. /\ Count'[c] = Increment(Count[c])
          /\ Flag'[c] = (Flag[c] \/ Increment(Count[c]) >= Debounce)
      BY <2>1, <1>8 DEF Key_Scan, FlagAfterClosed
    <3>2. settled'[c] = IF settled[c] < Debounce THEN settled[c] + 1 ELSE Debounce
      BY <2>1, <1>8
    <3>3. settled[c] \in 0 .. Debounce /\ Count[c] \in 0 .. CountMod - 1
      BY <1>8 DEF IInv, TypeOK
    <3>4. CASE Flag[c]
      <4>1. settled[c] = Debounce
        BY <3>4, <1>8 DEF IInv, CountInv
      <4>2. Flag'[c]
        BY <3>1, <3>4
      <4> QED
        BY <4>1, <4>2, <3>2, <3>3
    <3>5. CASE ~Flag[c]
      <4>1. settled[c] < Debounce /\ Count[c] = settled[c]
        BY <3>5, <1>8 DEF IInv, CountInv
      <4>2. Increment(Count[c]) = settled[c] + 1
        BY <4>1, <3>3, IncrementRange
      <4>3. Flag'[c] <=> settled[c] + 1 >= Debounce
        BY <4>2, <3>1, <3>5
      <4> QED
        BY <4>1, <4>2, <4>3, <3>1, <3>2, <3>3, KeysAssumption
    <3> QED
      BY <3>4, <3>5 DEF IInv, TypeOK
  <2>2. CASE ~closed[c] /\ c \in changing
    BY <2>2, <1>8 DEF Key_Scan, IInv, CountInv, TypeOK
  <2>3. CASE ~closed[c] /\ c \notin changing
    <3>1. ~Flag'[c] /\ Count'[c] = 0
      BY <2>3, <1>8 DEF Key_Scan, OpenCount
    <3>2. settled'[c] = 0
      BY <2>3, <1>8
    <3> QED
      BY <3>1, <3>2, KeysAssumption
  <2> QED
    BY <2>1, <2>2, <2>3
<1> QED
  BY <1>7, <1>8 DEF CountInv

LEMMA InvStep == IInv /\ [Next]_vars => IInv'
<1> SUFFICES ASSUME IInv, [Next]_vars PROVE IInv'
  OBVIOUS
<1>1. CASE KeyTurn
  <2>1. Off_Key_Flag' => modes' = {}
    BY <1>1 DEF KeyTurn, Key_Output, OffModes
  <2> QED
    BY <1>1, <2>1, TurnCounts DEF IInv
<1>2. ASSUME NEW c \in Contacts, Switch(c) PROVE IInv'
  <2>1. closed' \in [Contacts -> BOOLEAN]
    BY <1>2 DEF Switch, IInv, TypeOK
  <2> QED
    BY <1>2, <2>1
    DEF Switch, key_tCount, key_tInfo, IInv, TypeOK, CountInv
<1>3. CASE SupplyMoves
  BY <1>3 DEF SupplyMoves, key_tCount, key_tInfo, IInv, TypeOK, CountInv
<1>4. CASE UNCHANGED vars
  BY <1>4 DEF vars, key_tCount, key_tInfo, IInv, TypeOK, CountInv
<1> QED
  BY <1>1, <1>2, <1>3, <1>4 DEF Next

LEMMA Invariance == Spec => []IInv
  BY InitInv, InvStep, PTL DEF Spec

-----------------------------------------------------------------------------
\* Types of the key model: the counters keep their width, and at most one mode
\* is on, as Motor's Settings take for granted.
THEOREM KeysTypeCorrect == Spec => []TypeOK
  BY Invariance, PTL DEF IInv

\* The flag of a contact says that it was found closed for the whole debounce
\* time since it was last found open, for every such time and although the
\* counter overflows.
THEOREM KeysDebounced == Spec => []Debounced
<1>1. IInv => Debounced
  BY KeysAssumption DEF IInv, TypeOK, CountInv, Debounced
<1> QED
  BY Invariance, <1>1, PTL

\* A mode of the motors comes on only with the key on and all its contacts
\* debounced, the mode kept from before the off position included.
THEOREM KeysStartsSettled == Spec => StartsSettled
<1> DEFINE Fresh ==
      \A mode \in modes' : mode \notin modes \/ Off_Key_Flag => ComesOn(mode)
<1>1. IInv /\ [Next]_vars => [Fresh]_vars
  <2> SUFFICES ASSUME IInv, Next PROVE Fresh
    OBVIOUS
  <2>1. CASE KeyTurn
    <3> SUFFICES ASSUME NEW mode \in modes', mode \notin modes \/ Off_Key_Flag
                 PROVE  ComesOn(mode)
      OBVIOUS
    <3>1. mode \notin modes
      BY DEF IInv
    <3>2. ~Off_Flag' /\ ~Off_Key_Flag' /\ mode \in Selected
      BY <2>1 DEF KeyTurn, Key_Output, OffModes
    <3>3. \A c \in Contacts : Flag'[c] => settled'[c] = Debounce
      BY <2>1, TurnCounts DEF CountInv
    <3>4. \A c \in Needed(mode) : c \in Contacts /\ Flag'[c]
      BY <3>1, <3>2 DEF Selected, Needed, Contacts
    <3> QED
      BY <3>2, <3>3, <3>4 DEF ComesOn
  <2>2. CASE SupplyMoves \/ \E c \in Contacts : Switch(c)
    BY <2>2 DEF SupplyMoves, Switch, key_tCount, key_tInfo, IInv
  <2> QED
    BY <2>1, <2>2 DEF Next
<1>2. Spec => [][Next]_vars
  BY DEF Spec
<1> QED
  BY Invariance, <1>1, <1>2, PTL DEF StartsSettled

-----------------------------------------------------------------------------
\* The other direction: a turn of Key that finds the contacts of exactly one
\* position closed for the whole time of debouncing sets the mode of this
\* position and no other, whatever was set before, and the handle with it.
Knob == {"B3", "A1", "A2"}
ModeAt(on) ==
  CASE on = {"B3"} -> "All"
    [] on = {"B3", "A2"} -> "Brush"
    [] on = {"B3", "A1", "A2"} -> "Suction"
Reads ==
  KeyTurn =>
    /\ ~Off_Key_Flag' =>
         \A on \in {{"B3"}, {"B3", "A2"}, {"B3", "A1", "A2"}} :
           (\A c \in Knob : settled'[c] = Debounce <=> c \in on) =>
             modes' = {ModeAt(on)}
    /\ supply = "above" => ~Off_Key_Flag'
    /\ supply = "below" => Off_Key_Flag' /\ modes' = {}
    /\ Hand_Key_Flag' <=> settled'["Hand"] = Debounce
KnobRead == [][Reads]_vars

\* The core of KnobTaken: what the turns of Key converge on is the position of
\* the knob, for every debounce time.
THEOREM KeysKnobRead == Spec => KnobRead
<1>1. IInv /\ [Next]_vars => [Reads]_vars
  <2> SUFFICES ASSUME IInv, KeyTurn PROVE Reads
    BY DEF Reads
  <2>1. \A c \in Contacts : Flag'[c] <=> settled'[c] = Debounce
    BY TurnCounts, KeysAssumption DEF CountInv, TypeOK
  <2>2. \A c \in Contacts : Flag'[c] \in BOOLEAN
    BY TurnCounts DEF TypeOK
  <2>3. /\ Hand_Key_Flag' = Flag'["Hand"] /\ Off_Key_Flag' = Off_Flag'
        /\ modes' = IF Off_Flag' THEN {} ELSE Selected
        /\ Off_Flag' = IF supply = "at" THEN Off_Flag ELSE supply = "below"
    BY DEF KeyTurn, Key_Output, Key_Scan, OffModes
  <2>4. ASSUME ~Off_Key_Flag',
               NEW on \in {{"B3"}, {"B3", "A2"}, {"B3", "A1", "A2"}},
               \A c \in Knob : settled'[c] = Debounce <=> c \in on
        PROVE  modes' = {ModeAt(on)}
    <3>1. ~Off_Flag'
      BY <2>3, <2>4
    <3>2. \A c \in Knob : Flag'[c] <=> c \in on
      BY <2>1, <2>2, <2>4 DEF Knob, Contacts
    <3>3. Selected = {ModeAt(on)}
      BY <2>4, <3>2 DEF Selected, ModeAt, Knob
    <3> QED
      BY <2>3, <3>1, <3>3
  <2>5. Hand_Key_Flag' <=> settled'["Hand"] = Debounce
    BY <2>1, <2>2, <2>3 DEF Contacts
  <2> QED
    BY <2>3, <2>4, <2>5 DEF Reads
<1>2. Spec => [][Next]_vars
  BY DEF Spec
<1> QED
  BY Invariance, <1>1, <1>2, PTL DEF KnobRead
=============================================================================
