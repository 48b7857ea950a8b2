--------------------------- MODULE SerialLinkProofs ---------------------------
(***************************************************************************)
(* Proofs about the serial links, for a ring of any size and frames of any *)
(* kind: with at most Slots - 1 frames waiting no frame is lost.           *)
(***************************************************************************)
EXTENDS SerialLink, TLAPS

USE DEF vars, receiving, sending, Index
USE LinkAssumption

-----------------------------------------------------------------------------
(* The ring.                                                               *)

\* One step around the ring.
LEMMA Successor ==
  ASSUME NEW i \in Index
  PROVE  /\ (i + 1) % Slots \in Index
         /\ (i + 1) % Slots = IF i = Slots - 1 THEN 0 ELSE i + 1
<1>1. CASE i = Slots - 1
  <2>1. Slots % Slots = 0
    BY SMT
  <2>2. QED
    BY <1>1, <2>1
<1>2. CASE i # Slots - 1
  <2>1. i + 1 \in 0 .. Slots - 1
    BY <1>2
  <2>2. (i + 1) % Slots = i + 1
    BY <2>1, SMT
  <2>3. QED
    BY <1>2, <2>1, <2>2
<1>3. QED
  BY <1>1, <1>2

-----------------------------------------------------------------------------
(* Types, with the bounds on the semaphores they need.                     *)

TypeInv ==
  /\ TypeOK
  /\ Waiting <= Burst
  /\ rx = "START" => rx_sem = 0
  /\ ask = "RELEASE" => tx_sem < MaxAsks

LEMMA LinkNumbers ==
  /\ 0 \in Index /\ 0 \in 0 .. Burst /\ 0 <= Burst /\ 0 + 0 <= Burst
  /\ 0 \in 0 .. MaxAsks
  OBVIOUS

LEMMA InitType == Init => TypeInv
  BY Zenon, LinkNumbers DEF Init, TypeInv, TypeOK, Waiting

LEMMA NextType == TypeInv /\ [Next]_vars => TypeInv'
<1> SUFFICES ASSUME TypeInv, [Next]_vars PROVE TypeInv'
  OBVIOUS
<1>1. CASE RxIrq \/ RxStart
  <2>1. PICK frame \in Frames : RxIrqCallback(frame)
    BY <1>1 DEF RxIrq, RxStart
  <2>2. head' \in Index
    BY <2>1, Successor DEF RxIrqCallback, TypeInv, TypeOK
  <2>3. QED
    BY <1>1, <2>1, <2>2
       DEF RxIrqCallback, RxIrq, RxStart, TypeInv, TypeOK, Waiting
<1>2. CASE RxTake \/ RxLook
  BY <1>2 DEF RxTake, RxLook, TypeInv, TypeOK, Waiting
<1>3. CASE CheckReceptionTask
  BY <1>3 DEF CheckReceptionTask, TypeInv, TypeOK, Waiting
<1>4. CASE RxNext
  BY <1>4, Successor DEF RxNext, TypeInv, TypeOK, Waiting
<1>5. CASE TransmitMessage
  <2>1. bit' \in BOOLEAN /\ asked' \in BOOLEAN
    BY <1>5, Zenon DEF TransmitMessage
  <2>2. QED
    BY <1>5, <2>1 DEF TransmitMessage, TypeInv, TypeOK, Waiting
<1>6. CASE TransmitRelease \/ TxTake \/ TxTest
  BY <1>6 DEF TransmitRelease, TxTake, TxTest, TypeInv, TypeOK, Waiting
<1>7. CASE TxClear
  <2>1. bit' \in BOOLEAN
    BY <1>7, Zenon DEF TxClear
  <2>2. QED
    BY <1>7, <2>1 DEF TxClear, TypeInv, TypeOK, Waiting
<1>8. CASE TxSend
  <2>1. asked' \in BOOLEAN
    BY <1>8, Zenon DEF TxSend
  <2>2. QED
    BY <1>8, <2>1 DEF TxSend, TypeInv, TypeOK, Waiting
<1>9. CASE UNCHANGED vars
  BY <1>9 DEF TypeInv, TypeOK, Waiting
<1>10. QED
  BY <1>1, <1>2, <1>3, <1>4, <1>5, <1>6, <1>7, <1>8, <1>9
     DEF Next, Receiver, Sender

\* Every variable keeps its type, whatever the size of the ring.
THEOREM LinkTypeCorrect == Spec => []TypeOK
<1>1. TypeInv => TypeOK
  BY DEF TypeInv
<1>2. QED
  BY <1>1, InitType, NextType, PTL DEF Spec

-----------------------------------------------------------------------------
(* Sending.                                                                *)

LEMMA NextAsks == TypeInv /\ WakesForAsks /\ [Next]_vars => WakesForAsks'
<1> SUFFICES ASSUME TypeInv, WakesForAsks, [Next]_vars PROVE WakesForAsks'
  OBVIOUS
<1> tx_sem \in Nat
  BY DEF TypeInv, TypeOK
<1>1. CASE RxIrq \/ RxStart \/ RxTake \/ RxLook \/ CheckReceptionTask \/ RxNext
  BY <1>1
     DEF RxIrq, RxStart, RxIrqCallback, RxTake, RxLook, CheckReceptionTask,
         RxNext, WakesForAsks
<1>2. CASE TransmitMessage \/ TransmitRelease
  BY <1>2 DEF TransmitMessage, TransmitRelease, WakesForAsks
<1>3. CASE Sender
  BY <1>3 DEF Sender, TxTake, TxTest, TxClear, TxSend, WakesForAsks
<1>4. CASE UNCHANGED vars
  BY <1>4 DEF WakesForAsks
<1>5. QED
  BY <1>1, <1>2, <1>3, <1>4 DEF Next, Receiver

\* A message asked for is never forgotten, wherever the two threads interrupt
\* each other.
THEOREM LinkWakesForAsks == Spec => []WakesForAsks
<1>1. Init => WakesForAsks
  BY DEF Init, WakesForAsks
<1>2. QED
  BY <1>1, InitType, NextType, NextAsks, PTL DEF Spec

-----------------------------------------------------------------------------
(* Receiving.  A ring that is never full has a token for each frame.       *)

LEMMA NextFrames ==
  ASSUME Burst < Slots
  PROVE  TypeInv /\ WakesForFrames /\ [Next]_vars => WakesForFrames'
<1> SUFFICES ASSUME TypeInv, WakesForFrames, [Next]_vars PROVE WakesForFrames'
  OBVIOUS
<1> /\ head \in Index /\ tail \in Index
    /\ rx_sem \in Nat /\ Waiting \in 0 .. Burst
  BY DEF TypeInv, TypeOK, Waiting
<1>1. CASE RxIrq \/ RxStart
  <2>1. PICK frame \in Frames : RxIrqCallback(frame)
    BY <1>1 DEF RxIrq, RxStart
  <2>2. Waiting < Burst
    BY <1>1 DEF RxIrq, RxStart, TypeInv, Waiting
  <2>3. Waiting' = Waiting + 1
    BY <1>1, <2>1 DEF RxIrq, RxStart, RxIrqCallback, Waiting
  <2>4. /\ head' = IF head = Slots - 1 THEN 0 ELSE head + 1
        /\ tail' = tail
    BY <2>1, Successor DEF RxIrqCallback
  <2>5. Pending' = Pending + 1
    BY <2>2, <2>4 DEF WakesForFrames, Pending
  <2>6. QED
    BY <2>3, <2>5 DEF WakesForFrames
<1>2. CASE RxTake
  BY <1>2 DEF RxTake, WakesForFrames, Pending, Waiting
<1>3. CASE RxLook
  BY <1>3 DEF RxLook, WakesForFrames, Pending, Waiting
<1>4. CASE CheckReceptionTask
  BY <1>4 DEF CheckReceptionTask, WakesForFrames, Pending, Waiting
<1>5. CASE RxNext
  <2>1. Waiting >= 1 /\ Waiting' = Waiting - 1
    BY <1>5 DEF RxNext, Waiting
  <2>2. /\ tail' = IF tail = Slots - 1 THEN 0 ELSE tail + 1
        /\ head' = head
    BY <1>5, Successor DEF RxNext
  <2>3. Pending' = Pending - 1
    BY <2>1, <2>2 DEF WakesForFrames, Pending
  <2>4. QED
    BY <2>1, <2>3 DEF WakesForFrames
<1>6. CASE TransmitMessage \/ TransmitRelease \/ Sender
  BY <1>6
     DEF TransmitMessage, TransmitRelease, Sender, TxTake, TxTest, TxClear,
         TxSend, WakesForFrames, Pending, Waiting
<1>7. CASE UNCHANGED vars
  BY <1>7 DEF WakesForFrames, Pending, Waiting
<1>8. QED
  BY <1>1, <1>2, <1>3, <1>4, <1>5, <1>6, <1>7 DEF Next, Receiver

\* As long as fewer frames wait than there are slots, the receiving thread has
\* a token for each of them.
THEOREM LinkWakesForFrames ==
  ASSUME Burst < Slots
  PROVE  Spec => []WakesForFrames
<1>1. Init => WakesForFrames
  BY DEF Init, WakesForFrames, Pending, Waiting
<1>2. TypeInv /\ WakesForFrames /\ [Next]_vars => WakesForFrames'
  BY NextFrames
<1>3. QED
  BY <1>1, <1>2, InitType, NextType, PTL DEF Spec

-----------------------------------------------------------------------------
(* The ring implements the inbox: an interrupt appends a frame, the check  *)
(* takes the first one away, every other step leaves the inbox as it is.   *)

\* The frames of n slots from slot t on, without the first d of them.
Around(t, i) == IF t + i - 1 < Slots THEN t + i - 1 ELSE t + i - 1 - Slots
FramesFrom(s, t, n, d) == [i \in 1 .. n - d |-> s[Around(t, i + d)]]

LEMMA FramesFromSeq ==
  ASSUME NEW s \in [Index -> Frames], NEW t \in Index, NEW n \in Index,
         NEW d \in {0, 1}, d <= n
  PROVE  /\ FramesFrom(s, t, n, d) \in Seq(Frames)
         /\ Len(FramesFrom(s, t, n, d)) = n - d
<1>1. ASSUME NEW i \in 1 .. n - d PROVE s[Around(t, i + d)] \in Frames
  <2>1. Around(t, i + d) \in Index
    BY DEF Around
  <2>2. QED
    BY <2>1
<1>2. n - d \in Nat
  OBVIOUS
<1> DEFINE f == [i \in 1 .. n - d |-> s[Around(t, i + d)]]
<1>3. f \in [1 .. n - d -> Frames]
  BY <1>1
<1>4. f \in Seq(Frames) /\ Len(f) = n - d
  BY <1>2, <1>3
<1>5. QED
  BY <1>4 DEF FramesFrom

\* new is the ring s with a frame put behind the n slots from t on.
Appended(s, t, n, d, new, frame) ==
  /\ s \in [Index -> Frames] /\ t \in Index
  /\ n \in Nat /\ n + 1 < Slots
  /\ d \in {0, 1} /\ d <= n
  /\ frame \in Frames
  /\ new = [s EXCEPT ![Around(t, n + 1)] = frame]

\* Adding a frame behind them, and taking the first away.
LEMMA FramesAppend ==
  ASSUME NEW s, NEW t, NEW n, NEW d, NEW new, NEW frame,
         Appended(s, t, n, d, new, frame)
  PROVE  FramesFrom(new, t, n + 1, d) = Append(FramesFrom(s, t, n, d), frame)
<1> /\ s \in [Index -> Frames] /\ t \in Index
    /\ n \in Nat /\ n + 1 < Slots
    /\ d \in {0, 1} /\ d <= n
    /\ frame \in Frames
  BY DEF Appended
<1>1. /\ Around(t, n + 1) \in Index
      /\ new \in [Index -> Frames]
      /\ new[Around(t, n + 1)] = frame
      /\ \A j \in Index : j # Around(t, n + 1) => new[j] = s[j]
  BY DEF Around, Appended
<1>2. /\ FramesFrom(new, t, n + 1, d) \in Seq(Frames)
      /\ Len(FramesFrom(new, t, n + 1, d)) = n + 1 - d
  <2> DEFINE m == n + 1
  <2>1. m \in Index /\ d \in {0, 1} /\ d <= m
    OBVIOUS
  <2>2. new \in [Index -> Frames]
    BY <1>1
  <2> HIDE DEF m
  <2>3. \A dd \in {0, 1} : dd <= m =>
          /\ FramesFrom(new, t, m, dd) \in Seq(Frames)
          /\ Len(FramesFrom(new, t, m, dd)) = m - dd
    BY <2>1, <2>2, FramesFromSeq, ZenonT(60)
  <2>4. QED
    BY <2>1, <2>3 DEF m
<1>3. /\ FramesFrom(s, t, n, d) \in Seq(Frames)
      /\ Len(FramesFrom(s, t, n, d)) = n - d
  <2>1. n \in Index /\ d \in {0, 1} /\ d <= n
    OBVIOUS
  <2>2. QED
    BY <2>1, FramesFromSeq, ZenonT(60)
<1>4. ASSUME NEW i \in 1 .. n + 1 - d
      PROVE  FramesFrom(new, t, n + 1, d)[i] =
               IF i = n + 1 - d THEN frame ELSE FramesFrom(s, t, n, d)[i]
  <2>1. CASE i = n + 1 - d
    BY <1>1, <2>1 DEF FramesFrom
  <2>2. CASE i # n + 1 - d
    <3>1. /\ i \in 1 .. n - d
          /\ Around(t, i + d) \in Index
          /\ Around(t, i + d) # Around(t, n + 1)
      BY <2>2 DEF Around
    <3>2. new[Around(t, i + d)] = s[Around(t, i + d)]
      BY <1>1, <3>1
    <3>3. FramesFrom(new, t, n + 1, d)[i] = new[Around(t, i + d)]
      BY DEF FramesFrom
    <3>4. FramesFrom(s, t, n, d)[i] = s[Around(t, i + d)]
      BY <3>1 DEF FramesFrom
    <3>5. QED
      BY <2>2, <3>2, <3>3, <3>4
  <2>3. QED
    BY <2>1, <2>2
<1>5. FramesFrom(new, t, n + 1, d) = Append(FramesFrom(s, t, n, d), frame)
  <2>1. n - d \in Nat /\ n + 1 - d = n - d + 1
    OBVIOUS
  <2> DEFINE f == FramesFrom(s, t, n, d)  g == FramesFrom(new, t, n + 1, d)
  <2> HIDE DEF f, g
  <2>2. /\ f \in Seq(Frames) /\ Len(f) = n - d
        /\ g \in Seq(Frames) /\ Len(g) = n - d + 1
    BY <1>2, <1>3, <2>1 DEF f, g
  <2>3. \A i \in 1 .. n - d + 1 : g[i] = IF i = n - d + 1 THEN frame ELSE f[i]
    BY <1>4, <2>1 DEF f, g
  <2>4. g = Append(f, frame)
    BY <2>1, <2>2, <2>3
  <2>5. QED
    BY <2>4 DEF f, g
<1>6. QED
  BY <1>5

LEMMA FramesTail ==
  ASSUME NEW s \in [Index -> Frames], NEW t \in Index, NEW n \in Index, n > 0
  PROVE  /\ FramesFrom(s, t, n, 0) # <<>>
         /\ Head(FramesFrom(s, t, n, 0)) = s[t]
         /\ FramesFrom(s, t, n, 1) = Tail(FramesFrom(s, t, n, 0))
         /\ FramesFrom(s, (t + 1) % Slots, n - 1, 0) = FramesFrom(s, t, n, 1)
<1>1. /\ FramesFrom(s, t, n, 0) \in Seq(Frames)
      /\ Len(FramesFrom(s, t, n, 0)) = n
      /\ FramesFrom(s, t, n, 1) \in Seq(Frames)
      /\ Len(FramesFrom(s, t, n, 1)) = n - 1
  <2>1. 0 <= n /\ 1 <= n /\ 0 \in {0, 1} /\ 1 \in {0, 1} /\ n - 0 = n
    OBVIOUS
  <2>2. /\ FramesFrom(s, t, n, 0) \in Seq(Frames)
        /\ Len(FramesFrom(s, t, n, 0)) = n - 0
    BY <2>1, FramesFromSeq, Zenon
  <2>3. /\ FramesFrom(s, t, n, 1) \in Seq(Frames)
        /\ Len(FramesFrom(s, t, n, 1)) = n - 1
    BY <2>1, FramesFromSeq, Zenon
  <2>4. QED
    BY <2>1, <2>2, <2>3, Zenon
<1>2. FramesFrom(s, t, n, 0)[1] = s[t]
  BY DEF FramesFrom, Around
<1>3. \A i \in 1 .. n - 1 :
        FramesFrom(s, t, n, 1)[i] = FramesFrom(s, t, n, 0)[i + 1]
  BY DEF FramesFrom
<1>4. /\ FramesFrom(s, t, n, 0) # <<>>
      /\ Head(FramesFrom(s, t, n, 0)) = s[t]
  BY <1>1, <1>2
<1>5. FramesFrom(s, t, n, 1) = Tail(FramesFrom(s, t, n, 0))
  BY <1>1, <1>3
<1>6. \A i \in 1 .. n - 1 : Around((t + 1) % Slots, i) = Around(t, i + 1)
  BY Successor DEF Around
<1>7. FramesFrom(s, (t + 1) % Slots, n - 1, 0) = FramesFrom(s, t, n, 1)
  BY <1>6 DEF FramesFrom
<1>8. QED
  BY <1>4, <1>5, <1>7

Done == IF rx = "NEXT" THEN 1 ELSE 0

LEMMA UnreadFrames ==
  /\ Unread = FramesFrom(slots, tail, Pending, Done)
  /\ Unread' = FramesFrom(slots', tail', Pending', Done')
  BY DEF Unread, Slot, FramesFrom, Around, Done

LEMMA InboxStep ==
  ASSUME Burst < Slots, TypeInv, WakesForFrames, WakesForFrames', [Next]_vars
  PROVE  [Fifo!Receive \/ Fifo!Deliver]_<<Unread, last>>
<1> slots \in [Index -> Frames] /\ head \in Index /\ tail \in Index
  BY DEF TypeInv, TypeOK
<1> rx_sem \in Nat /\ Waiting \in 0 .. Burst /\ Pending \in Index
  BY DEF TypeInv, TypeOK, WakesForFrames, Waiting
<1> Done \in {0, 1} /\ Done <= Pending
  BY DEF Done, WakesForFrames, Waiting
<1>1. ASSUME RxIrq \/ RxStart PROVE Fifo!Receive
  <2>1. PICK frame \in Frames : RxIrqCallback(frame)
    BY <1>1 DEF RxIrq, RxStart
  <2>2. Waiting < Burst /\ Waiting' = Waiting + 1
    BY <1>1, <2>1 DEF RxIrq, RxStart, RxIrqCallback, TypeInv, Waiting
  <2>3. /\ Pending + 1 < Slots /\ Pending' = Pending + 1
    BY <2>2 DEF WakesForFrames
  <2>4. head = Around(tail, Pending + 1)
    BY <2>3 DEF Around, Pending
  <2>5. /\ slots' = [slots EXCEPT ![Around(tail, Pending + 1)] = frame]
        /\ tail' = tail /\ last' = last
    BY <2>1, <2>4 DEF RxIrqCallback
  <2>6. Done' = Done
    BY <1>1 DEF RxIrq, RxStart, Done
  <2>7. Unread' = Append(Unread, frame)
    <3>1. Unread' = FramesFrom(slots', tail, Pending + 1, Done)
      BY <2>3, <2>5, <2>6, UnreadFrames, Zenon
    <3>2. Appended(slots, tail, Pending, Done, slots', frame)
      BY <2>3, <2>5 DEF Appended
    <3>3. FramesFrom(slots', tail, Pending + 1, Done)
            = Append(FramesFrom(slots, tail, Pending, Done), frame)
      BY <3>2, FramesAppend
    <3>4. QED
      BY <3>1, <3>3, UnreadFrames, Zenon
  <2>8. Len(Unread) < Slots - 1
    <3>1. Len(Unread) = Pending - Done
      <4> HIDE DEF Done, Pending
      <4>1. Len(FramesFrom(slots, tail, Pending, Done)) = Pending - Done
        BY FramesFromSeq, ZenonT(60)
      <4>2. QED
        BY <4>1, UnreadFrames, Zenon
    <3>2. QED
      BY <2>3, <3>1
  <2>9. QED
    BY <2>5, <2>7, <2>8 DEF Fifo!Receive
<1>2. ASSUME CheckReceptionTask PROVE Fifo!Deliver
  <2>1. Done = 0 /\ Done' = 1 /\ Pending > 0
    BY <1>2 DEF CheckReceptionTask, Done, WakesForFrames, Waiting
  <2>2. slots' = slots /\ tail' = tail /\ Pending' = Pending
    BY <1>2 DEF CheckReceptionTask, Pending
  <2>3. /\ Unread # <<>> /\ Head(Unread) = slots[tail]
        /\ Unread' = Tail(Unread)
    BY <2>1, <2>2, FramesTail, UnreadFrames
  <2>4. QED
    BY <1>2, <2>3 DEF CheckReceptionTask, Fifo!Deliver
<1>3. ASSUME RxNext PROVE UNCHANGED <<Unread, last>>
  <2>1. Done = 1 /\ Done' = 0 /\ Pending > 0
    BY <1>3 DEF RxNext, Done, WakesForFrames, Waiting
  <2>2. Pending' = Pending - 1
    BY <1>3 DEF RxNext, WakesForFrames, Waiting
  <2>3. slots' = slots /\ tail' = (tail + 1) % Slots /\ last' = last
    BY <1>3 DEF RxNext
  <2>4. Unread' = Unread
    BY <2>1, <2>2, <2>3, FramesTail, UnreadFrames
  <2>5. QED
    BY <2>3, <2>4
<1>4. ASSUME UNCHANGED <<slots, head, tail, last>>, Done' = Done
      PROVE  UNCHANGED <<Unread, last>>
  BY <1>4, UnreadFrames DEF Pending
<1>5. CASE RxTake \/ RxLook
  BY <1>4, <1>5 DEF RxTake, RxLook, Done
<1>6. CASE TransmitMessage \/ TransmitRelease \/ Sender \/ UNCHANGED vars
  BY <1>4, <1>6
     DEF TransmitMessage, TransmitRelease, Sender, TxTake, TxTest, TxClear,
         TxSend, Done
<1>7. QED
  BY <1>1, <1>2, <1>3, <1>5, <1>6 DEF Next, Receiver

\* The ring of either link is a queue: frames are looked at in the order they
\* came, each once and unchanged, if never more than Slots - 1 of them wait.
THEOREM LinkKeepsFrames ==
  ASSUME Burst < Slots
  PROVE  Spec => KeepsFrames
<1>1. Init => Fifo!Init
  <2> SUFFICES ASSUME Init PROVE Unread = <<>> /\ last = Empty
    BY DEF Fifo!Init
  <2>1. Pending = 0 /\ last = Empty /\ Done = 0
    BY DEF Init, Pending, Done
  <2>2. QED
    BY <2>1, UnreadFrames DEF FramesFrom
<1>2. /\ TypeInv /\ WakesForFrames /\ TypeInv' /\ WakesForFrames' /\ [Next]_vars
      => [Fifo!Receive \/ Fifo!Deliver]_<<Unread, last>>
  BY InboxStep
<1>3. QED
  BY <1>1, <1>2, LinkWakesForFrames, InitType, NextType, PTL
     DEF Spec, KeepsFrames, Fifo!Spec

-----------------------------------------------------------------------------
(* Progress of the two threads: what their tokens still have them do.      *)

Stage(thread) ==
  CASE thread = "LOOK" -> 3 [] thread = "CHECK" -> 2 [] thread = "NEXT" -> 1
    [] thread = "TEST" -> 3 [] thread = "CLEAR" -> 2 [] thread = "SEND" -> 1
    [] thread = "START" -> 5
    [] OTHER -> 0
RxLeft == 4 * rx_sem + Stage(rx)
TxLeft == 4 * tx_sem + Stage(tx)

\* Every step of a thread brings it nearer to its sleep, and only an interrupt
\* or a request gives it more to do.  The receiving thread is never woken for
\* nothing, and it sleeps for good only over an empty ring.
LinkGetsOn ==
  [][/\ RxLeft \in Nat /\ TxLeft \in Nat
     /\ Receiver => RxLeft' < RxLeft
     /\ Sender => TxLeft' < TxLeft
     /\ RxLeft' > RxLeft => RxIrq
     /\ TxLeft' > TxLeft => TransmitRelease
     /\ rx = "LOOK" => tail # head
     /\ RxLeft = 0 => Pending = 0]_vars

\* The core of FramesHandled and AsksServed, for rings of any size that are
\* never full.
THEOREM LinkThreadsGetOn ==
  ASSUME Burst < Slots
  PROVE  Spec => LinkGetsOn
<1> DEFINE
      On ==
        /\ RxLeft \in Nat /\ TxLeft \in Nat
        /\ Receiver => RxLeft' < RxLeft
        /\ Sender => TxLeft' < TxLeft
        /\ RxLeft' > RxLeft => RxIrq
        /\ TxLeft' > TxLeft => TransmitRelease
        /\ rx = "LOOK" => tail # head
        /\ RxLeft = 0 => Pending = 0
<1>1. TypeInv /\ WakesForFrames /\ [Next]_vars => [On]_vars
  <2> SUFFICES ASSUME TypeInv, WakesForFrames, Next PROVE On
    OBVIOUS
  <2>1. /\ rx_sem \in Nat /\ tx_sem \in Nat
        /\ rx \in {"START", "WAIT", "LOOK", "CHECK", "NEXT"}
        /\ tx \in {"WAIT", "TEST", "CLEAR", "SEND"}
        /\ head \in Nat /\ tail \in Nat
        /\ rx = "START" => rx_sem = 0
    BY DEF TypeInv, TypeOK, Index
  <2>2. Stage(rx) \in Nat /\ Stage(tx) \in Nat
    BY DEF Stage
  <2>3. RxLeft \in Nat /\ TxLeft \in Nat
    BY <2>1, <2>2 DEF RxLeft, TxLeft
  <2>4. RxLeft = 0 => Pending = 0
    <3>1. RxLeft = 0 => rx_sem = 0 /\ Stage(rx) = 0
      BY <2>1, <2>2 DEF RxLeft
    <3>2. Stage(rx) = 0 => rx = "WAIT"
      BY <2>1 DEF Stage
    <3> QED
      BY <3>1, <3>2 DEF WakesForFrames, Waiting
  <2>5. rx = "LOOK" => tail # head
    BY <2>1 DEF WakesForFrames, Waiting, Pending
  <2>6. Receiver => RxLeft' < RxLeft
    <3>1. CASE RxStart
      BY <3>1, <2>1 DEF RxStart, RxIrqCallback, RxLeft, Stage
    <3>2. CASE RxTake
      BY <3>2, <2>1 DEF RxTake, RxLeft, Stage
    <3>3. CASE RxLook \/ CheckReceptionTask \/ RxNext
      BY <3>3, <2>1 DEF RxLook, CheckReceptionTask, RxNext, RxLeft, Stage
    <3> QED
      BY <3>1, <3>2, <3>3 DEF Receiver
  <2>7. Sender => TxLeft' < TxLeft
    BY <2>1 DEF Sender, TxTake, TxTest, TxClear, TxSend, TxLeft, Stage
  <2>8. ~Receiver /\ ~RxIrq => RxLeft' = RxLeft
    BY DEF Next, TransmitMessage, TransmitRelease, Sender, TxTake, TxTest,
           TxClear, TxSend, RxLeft, Stage
  <2>9. ~Sender /\ ~TransmitRelease => TxLeft' = TxLeft
    BY DEF Next, TransmitMessage, Receiver, RxStart, RxTake, RxLook,
           CheckReceptionTask, RxNext, RxIrq, RxIrqCallback, TxLeft, Stage
  <2>10. /\ Receiver => RxLeft' \in Nat
         /\ Sender => TxLeft' \in Nat
    <3>1. Receiver => rx_sem' \in Nat /\ Stage(rx)' \in Nat
      BY <2>1
         DEF Receiver, RxStart, RxTake, RxLook, CheckReceptionTask, RxNext,
             RxIrqCallback, Stage
    <3>2. Sender => tx_sem' \in Nat /\ Stage(tx)' \in Nat
      BY <2>1 DEF Sender, TxTake, TxTest, TxClear, TxSend, Stage
    <3> QED
      BY <3>1, <3>2 DEF RxLeft, TxLeft
  <2>11. RxLeft' > RxLeft => RxIrq
    <3>1. CASE Receiver
      BY <3>1, <2>3, <2>6, <2>10
    <3> QED
      BY <3>1, <2>3, <2>8
  <2>12. TxLeft' > TxLeft => TransmitRelease
    <3>1. CASE Sender
      BY <3>1, <2>3, <2>7, <2>10
    <3> QED
      BY <3>1, <2>3, <2>9
  <2> QED
    BY <2>3, <2>4, <2>5, <2>6, <2>7, <2>11, <2>12
<1>2. TypeInv => TypeOK
  BY DEF TypeInv
<1>3. Spec => []TypeInv
  BY InitType, NextType, PTL DEF Spec
<1>4. Spec => [][Next]_vars
  BY DEF Spec
<1>5. Spec => []WakesForFrames
  BY LinkWakesForFrames
<1>6. QED
  BY <1>1, <1>3, <1>4, <1>5, PTL DEF LinkGetsOn
=============================================================================
