------------------------------ MODULE SerialLink ------------------------------
(***************************************************************************)
(* The two serial links of the application, OTA (app_OTA.c, USART 2) and   *)
(* IOT (app_IOT2Board.c, USART 3), which are one program with different    *)
(* frames.                                                                 *)
(*                                                                         *)
(* Receiving: the interrupt of a pause on the line puts the frame from the *)
(* DMA buffer into a ring of slots and releases a semaphore; a thread      *)
(* takes the semaphore, looks for a frame and hands it on.  Sending: who   *)
(* wants a message sent sets its bit and releases another semaphore; a     *)
(* second thread clears the bit and sends.                                 *)
(*                                                                         *)
(* The interrupt comes between any two steps.  So do the steps of the two  *)
(* threads and of the one that asks: on the OTA link all have the same     *)
(* priority, on the IOT link Task asks, which has a lower one.             *)
(***************************************************************************)
EXTENDS Naturals, Sequences

CONSTANTS
  Slots,    \* size of the ring
  Burst,    \* bound on the frames that wait, the one in work included
  Frames,   \* what the checks of a frame tell apart
  Valid,    \* the frames that pass them
  Empty,    \* cleared memory
  MaxAsks   \* bound on the value of the sending semaphore

ASSUME LinkAssumption ==
  /\ Slots \in Nat \ {0, 1}
  /\ Burst \in 1 .. Slots
  /\ Valid \subseteq Frames
  /\ Empty \in Frames \ Valid
  /\ MaxAsks \in Nat \ {0}

VARIABLES
  slots, head, tail,  \* the ring; the next slot to fill, the next to look at
  rx_sem,
  rx,                 \* where the receiving thread is
  last,               \* the frame the application was last called with
  bit,                \* the message is to be sent
  tx_sem,
  tx,                 \* where the sending thread is
  ask,                \* where the thread that asks is
  asked               \* asked for since the last message was put together

receiving == <<slots, head, tail, rx_sem, rx, last>>
sending == <<bit, tx_sem, tx, ask, asked>>
vars == <<receiving, sending>>

Index == 0 .. Slots - 1

-----------------------------------------------------------------------------
Init ==
  /\ slots = [i \in Index |-> Empty]
  /\ head = 0 /\ tail = 0 /\ rx_sem = 0
  /\ rx = "START" /\ last = Empty
  /\ bit = FALSE /\ tx_sem = 0 /\ tx = "WAIT"
  /\ ask = "IDLE" /\ asked = FALSE

-----------------------------------------------------------------------------
(* Receiving.                                                              *)

\* Frames that stand for a token, to be taken or taken and in work.
Waiting == rx_sem + (IF rx \in {"START", "WAIT"} THEN 0 ELSE 1)

\* Variant for mutation: the semaphore is released for the first frame only.
RxIrqCallbackLazy(frame) ==
  /\ slots' = [slots EXCEPT ![head] = frame]
  /\ head' = (head + 1) % Slots
  /\ rx_sem' = IF head = tail THEN rx_sem + 1 ELSE rx_sem
  /\ UNCHANGED <<tail, last, sending>>

RxIrqCallback(frame) ==
  /\ slots' = [slots EXCEPT ![head] = frame]
  /\ head' = (head + 1) % Slots
  /\ rx_sem' = rx_sem + 1
  /\ UNCHANGED <<tail, last, sending>>

\* The interrupt.  The line is quiet until the thread has opened the link.
RxIrq ==
  /\ rx # "START"
  /\ Waiting < Burst
  /\ \E frame \in Frames : RxIrqCallback(frame)
  /\ UNCHANGED rx

\* The thread creates the semaphore and calls the callback once.
RxStart ==
  /\ rx = "START"
  /\ RxIrqCallback(Empty)
  /\ rx' = "WAIT"

RxTake ==
  /\ rx = "WAIT" /\ rx_sem > 0
  /\ rx_sem' = rx_sem - 1
  /\ rx' = "LOOK"
  /\ UNCHANGED <<slots, head, tail, last, sending>>

RxLook ==
  /\ rx = "LOOK"
  /\ rx' = IF tail # head THEN "CHECK" ELSE "WAIT"
  /\ UNCHANGED <<slots, head, tail, rx_sem, last, sending>>

\* Variant for mutation: the slot last filled is looked at.
CheckNewest ==
  /\ rx = "CHECK"
  /\ LET newest == (head + Slots - 1) % Slots
     IN  last' = IF slots[newest] \in Valid THEN slots[newest] ELSE last
  /\ rx' = "NEXT"
  /\ UNCHANGED <<slots, head, tail, rx_sem, sending>>

CheckReceptionTask ==
  /\ rx = "CHECK"
  /\ last' = IF slots[tail] \in Valid THEN slots[tail] ELSE last
  /\ rx' = "NEXT"
  /\ UNCHANGED <<slots, head, tail, rx_sem, sending>>

RxNext ==
  /\ rx = "NEXT"
  /\ tail' = (tail + 1) % Slots
  /\ rx' = "WAIT"
  /\ UNCHANGED <<slots, head, rx_sem, last, sending>>

-----------------------------------------------------------------------------
(* Sending.                                                                *)

\* Variant for mutation: the semaphore is released before the bit is set.
TransmitMessageLate ==
  /\ ask = "IDLE" /\ tx_sem < MaxAsks
  /\ tx_sem' = tx_sem + 1
  /\ asked' = TRUE
  /\ ask' = "RELEASE"
  /\ UNCHANGED <<bit, tx, receiving>>

TransmitMessage ==
  /\ ask = "IDLE" /\ tx_sem < MaxAsks
  /\ bit' = TRUE
  /\ asked' = TRUE
  /\ ask' = "RELEASE"
  /\ UNCHANGED <<tx_sem, tx, receiving>>

TransmitRelease ==
  /\ ask = "RELEASE"
  /\ tx_sem' = tx_sem + 1
  /\ ask' = "IDLE"
  /\ UNCHANGED <<bit, tx, asked, receiving>>

TxTake ==
  /\ tx = "WAIT" /\ tx_sem > 0
  /\ tx_sem' = tx_sem - 1
  /\ tx' = "TEST"
  /\ UNCHANGED <<bit, ask, asked, receiving>>

TxTest ==
  /\ tx = "TEST"
  /\ tx' = IF bit THEN "CLEAR" ELSE "WAIT"
  /\ UNCHANGED <<bit, tx_sem, ask, asked, receiving>>

\* Variant for mutation: the message is put together before its bit is cleared.
TxClearLast ==
  /\ tx = "CLEAR"
  /\ bit' = FALSE
  /\ tx' = "WAIT"
  /\ UNCHANGED <<tx_sem, ask, asked, receiving>>

TxClear ==
  /\ tx = "CLEAR"
  /\ bit' = FALSE
  /\ tx' = "SEND"
  /\ UNCHANGED <<tx_sem, ask, asked, receiving>>

TxSend ==
  /\ tx = "SEND"
  /\ asked' = FALSE
  /\ tx' = "WAIT"
  /\ UNCHANGED <<bit, tx_sem, ask, receiving>>

-----------------------------------------------------------------------------
Receiver == RxStart \/ RxTake \/ RxLook \/ CheckReceptionTask \/ RxNext
Sender == TxTake \/ TxTest \/ TxClear \/ TxSend
Next ==
  RxIrq \/ Receiver \/ TransmitMessage \/ TransmitRelease \/ Sender

Spec == Init /\ [][Next]_vars

\* No thread above these runs without ever sleeping.
FairSpec ==
  Spec /\ WF_vars(Receiver) /\ WF_vars(Sender) /\ WF_vars(TransmitRelease)

-----------------------------------------------------------------------------
(* Properties.                                                             *)

TypeOK ==
  /\ slots \in [Index -> Frames]
  /\ head \in Index /\ tail \in Index
  /\ rx_sem \in 0 .. Burst
  /\ rx \in {"START", "WAIT", "LOOK", "CHECK", "NEXT"}
  /\ last \in Valid \cup {Empty}
  /\ bit \in BOOLEAN /\ asked \in BOOLEAN
  /\ tx_sem \in 0 .. MaxAsks
  /\ tx \in {"WAIT", "TEST", "CLEAR", "SEND"}
  /\ ask \in {"IDLE", "RELEASE"}

\* The number of slots from tail to head, and the i-th of them.
Pending == IF head >= tail THEN head - tail ELSE head + Slots - tail
Slot(i) == IF tail + i - 1 < Slots THEN tail + i - 1 ELSE tail + i - 1 - Slots

\* The receiving thread never waits for its semaphore while a frame is in the
\* ring that no token stands for: every frame still wakes the thread.
WakesForFrames == Pending = Waiting

\* A message asked for has its bit set or is about to be put together, and a
\* set bit has a token to come: the message is sent after it was asked for.
WakesForAsks ==
  /\ asked => bit \/ tx = "SEND"
  /\ bit => \/ tx_sem > 0 \/ tx \in {"TEST", "CLEAR"} \/ ask = "RELEASE"

\* The frames in the ring, without the one that has been looked at.
Unread ==
  LET done == IF rx = "NEXT" THEN 1 ELSE 0
  IN  [i \in 1 .. Pending - done |-> slots[Slot(i + done)]]

Fifo == INSTANCE Inbox WITH inbox <- Unread, Capacity <- Slots - 1

\* The ring is a queue: whatever the interrupt interrupts, the frames are
\* looked at in order, each once, and none is changed while it is.
KeepsFrames == Fifo!Spec

\* A frame does not stay in the ring.
Holds(i) == \E k \in 1 .. Pending : Slot(k) = i
FramesHandled == \A i \in Index : Holds(i) ~> ~Holds(i)

\* A message that is asked for is sent.
AsksServed == asked ~> ~asked
=============================================================================
