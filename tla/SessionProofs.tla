----------------------------- MODULE SessionProofs -----------------------------
(***************************************************************************)
(* Proofs about a session of the bootloader: that what is written is in    *)
(* order and inside the download area, and what can part sender and        *)
(* device.  They need a sender that waits for its answers, and packet      *)
(* numbers that do not wrap within a session.                              *)
(***************************************************************************)
EXTENDS BootloaderProofs

USE DEF vars, flash, rymRam, fotaRam, timers, line,
        RYM_STAGE_NONE, RYM_STAGE_ESTABLISHING, RYM_STAGE_ESTABLISHED,
        RYM_STAGE_TRANSMITTING, RYM_STAGE_FINISHING, RYM_STAGE_FINISH_PACKET,
        RYM_STAGE_FINISHED, RYM_STAGE_RESET

\* A sender that waits for its answers, and a download area of fewer packets
\* than there are numbers (104 packets of 1024 bytes, 256 numbers).
Orderly == Patient /\ Blocks + 1 < IndexMod

-----------------------------------------------------------------------------
(* The invariant.                                                          *)

\* How far a session can be while the FOTA task does not wait for it: it takes
\* at most one step of the handshake between two looks of that task.
LoopInv ==
  LET stage == ymodem_ota_task_state IN
  /\ FOTA_tTaskState = "INIT" => stage = RYM_STAGE_NONE /\ pc = "FOTA"
  /\ FOTA_tTaskState \in {"CHECK_UPDATE", "CHECK_FW", "FW_UPDATE"} =>
       /\ stage <= RYM_STAGE_ESTABLISHED
       /\ pc = "YMODEM" => stage <= RYM_STAGE_ESTABLISHING
  /\ FOTA_tTaskState = "START_APP" =>
       /\ stage <= RYM_STAGE_TRANSMITTING
       /\ pc \in {"YMODEM", "ERASE_DOWNLOAD"} => stage <= RYM_STAGE_ESTABLISHED
  /\ pc \in {"APP", "ERASE_DOWNLOAD"} => FOTA_tTaskState = "START_APP"

\* What lies in the mailbox is what the sender is sending now.
Unfinished == ymodem_ota_task_state < RYM_STAGE_FINISHED
BadMsg == Message("bad", NoFile, 0)

MailInv ==
  /\ Unfinished =>
       \/ ymodem_ota_msg \in {NoMsg, BadMsg}
       \/ sender.phase # "idle" /\ ymodem_ota_msg = CurrentPacket
  /\ Unfinished /\ ymodem_ota_msg # NoMsg => reply \notin {"ACK", "ACK_C"}
  /\ pc = "WRITE" => held = ymodem_ota_msg /\ Packet

\* A session is opened by a first or a closing packet only, and by one that fits.
OpenInv ==
  pc = "ERASE_BEGIN" \/ ymodem_ota_task_state = RYM_STAGE_ESTABLISHED =>
    /\ sender.phase \in {"begin", "null"}
    /\ ymodem_ota_msg = CurrentPacket
    /\ sender.phase = "begin" => Size[sender.file] <= Blocks

\* Only files that fit get past their first packet.
PhaseInv ==
  /\ sender.phase = "begin" => sender.blk = 0
  /\ sender.phase = "data" =>
       sender.blk < Size[sender.file] /\ Size[sender.file] <= Blocks
  /\ sender.phase = "begin" /\ reply = "ACK_C" =>
       /\ Size[sender.file] <= Blocks
       /\ ymodem_ota_task_state = RYM_STAGE_TRANSMITTING => update_file_cur_size = 0

\* In step or not, the device is never ahead of the sender's packet by more than
\* the one it has to acknowledge again.
InsideInv ==
  /\ WritesInside
  /\ ymodem_ota_task_state = RYM_STAGE_TRANSMITTING =>
       /\ Accepted > 0 => ymodem_next_packet_index \in 1 .. Blocks + 1
       /\ sender.phase = "data" =>
            \/ Accepted <= sender.blk
            \/ Accepted = sender.blk + 1 /\ ymodem_next_packet_index = sender.blk + 2

\* In step, it is at that packet or one behind, and has the same file.
InStepNow == ymodem_next_packet_index = (Accepted + 1) % IndexMod

OrderInv ==
  /\ ymodem_ota_task_state = RYM_STAGE_TRANSMITTING /\ InStepNow =>
       /\ \E f \in Files : Sent(f, update_file_cur_size)
       /\ pc = "WRITE" => sender.phase = "data" /\ sender.blk = update_file_cur_size
       /\ sender.phase = "data" =>
            /\ Sent(sender.file, update_file_cur_size)
            /\ Accepted \in {sender.blk, sender.blk + 1}
            /\ reply \in {"ACK", "ACK_C"} => Accepted = sender.blk + 1
       /\ sender.phase \in {"eot1", "eot2"} =>
            /\ Sent(sender.file, update_file_cur_size)
            /\ Size[sender.file] = update_file_cur_size
  /\ ymodem_ota_task_state > RYM_STAGE_TRANSMITTING /\ InStepNow =>
       \E f \in Files : Sent(f, update_file_cur_size) /\ Size[f] = update_file_cur_size

\* The two handshakes at the end belong together.
EndInv ==
  /\ sender.phase \in {"eot1", "eot2"} /\ reply = "ACK_C" =>
       /\ ymodem_ota_task_state \notin
            RYM_STAGE_ESTABLISHED .. RYM_STAGE_FINISH_PACKET
       /\ ymodem_ota_task_state = RYM_STAGE_FINISHED => ymodem_ota_msg = NoMsg
  /\ sender.phase = "null" /\ ymodem_ota_task_state = RYM_STAGE_FINISHED =>
       reply \notin {"ACK", "ACK_C"}

LineInv == MailInv /\ OpenInv /\ PhaseInv /\ InsideInv /\ OrderInv /\ EndInv
SessionInv == LoopInv /\ LineInv
BeforeInv == Orderly /\ TypeInv /\ WriteInv /\ SessionInv

-----------------------------------------------------------------------------
(* Facts about packets and senders.                                        *)

LEMMA SmallMod == ASSUME Orderly, NEW n \in 0 .. Blocks + 1 PROVE n % IndexMod = n
  BY SizesAssumption DEF Orderly

LEMMA SenderFacts ==
  ASSUME TypeInv
  PROVE  /\ sender.phase \in {"idle", "begin", "data", "eot1", "eot2", "null"}
         /\ sender.phase # "idle" =>
              /\ sender.file \in Files /\ Size[sender.file] \in Nat \ {0}
              /\ sender.blk \in Nat
  BY FilesAssumption DEF TypeInv, TypeOK, Senders, NoSession

LEMMA PacketFacts ==
  ASSUME TypeInv
  PROVE  /\ NoMsg.type = "none" /\ BadMsg.type = "bad"
         /\ sender.phase = "begin" =>
              CurrentPacket.type = "begin" /\ CurrentPacket.file = sender.file
         /\ sender.phase = "data" =>
              /\ CurrentPacket.type = "data" /\ CurrentPacket.file = sender.file
              /\ CurrentPacket.blk = sender.blk
         /\ sender.phase = "null" => CurrentPacket.type = "null"
         /\ sender.phase \notin {"begin", "data", "null"} => CurrentPacket.type = "eot"
  BY DEF NoMsg, BadMsg, Message, CurrentPacket

LEMMA SeqFacts ==
  ASSUME Orderly, TypeInv, PhaseInv
  PROVE  /\ sender.phase = "data" =>
              /\ sender.blk \in 0 .. Blocks - 1
              /\ SeqNo(CurrentPacket) = sender.blk + 1
         /\ sender.phase # "data" => SeqNo(CurrentPacket) = 0
<1>1. CASE sender.phase = "data"
  <2>1. sender.blk \in 0 .. Blocks - 1
    BY <1>1, SenderFacts, SizesAssumption DEF PhaseInv
  <2>2. (sender.blk + 1) % IndexMod = sender.blk + 1
    BY <2>1, SmallMod, SizesAssumption
  <2>3. QED
    BY <1>1, <2>1, <2>2, PacketFacts DEF SeqNo
<1>2. CASE sender.phase # "data"
  BY <1>2, PacketFacts, SenderFacts DEF SeqNo
<1>3. QED
  BY <1>1, <1>2

\* In an unfinished session the type of a message tells the phase of the sender.
LEMMA MailFacts ==
  ASSUME TypeInv, MailInv, Unfinished
  PROVE  /\ ymodem_ota_msg.type \in {"none", "bad"} \/ ymodem_ota_msg = CurrentPacket
         /\ ymodem_ota_msg.type = "begin" => sender.phase = "begin"
         /\ ymodem_ota_msg.type = "data" => sender.phase = "data"
         /\ ymodem_ota_msg.type = "null" => sender.phase = "null"
         /\ ymodem_ota_msg.type = "eot" => sender.phase \in {"eot1", "eot2"}
         /\ ymodem_ota_msg.type # "none" => reply \notin {"ACK", "ACK_C"}
  BY PacketFacts, SenderFacts DEF MailInv

-----------------------------------------------------------------------------
(* Steps that touch nothing of a session, and steps that end it.           *)

LEMMA SameSession ==
  ASSUME TypeInv, LineInv,
         UNCHANGED <<ymodem_ota_task_state, ymodem_next_packet_index,
                     update_file_cur_size, held, ymodem_ota_msg, sender, reply>>,
         UNCHANGED download \/ ymodem_ota_task_state <= RYM_STAGE_ESTABLISHED,
         pc' = "WRITE" <=> pc = "WRITE",
         pc' = "ERASE_BEGIN" => pc = "ERASE_BEGIN"
  PROVE  LineInv'
<1>1. CurrentPacket' = CurrentPacket /\ Accepted' = Accepted
  BY DEF CurrentPacket, Accepted, Message
<1>2. MailInv'
  BY <1>1 DEF LineInv, MailInv, Unfinished, Packet
<1>3. OpenInv'
  BY <1>1 DEF LineInv, OpenInv
<1>4. PhaseInv'
  BY DEF LineInv, PhaseInv
<1>5. InsideInv'
  BY <1>1 DEF LineInv, InsideInv, WritesInside
<1>6. OrderInv'
  <2>1. CASE UNCHANGED download
    BY <1>1, <2>1 DEF LineInv, OrderInv, InStepNow, Sent
  <2>2. CASE ymodem_ota_task_state <= RYM_STAGE_ESTABLISHED
    BY <2>2 DEF OrderInv, TypeInv, TypeOK
  <2>3. QED
    BY <2>1, <2>2
<1>7. EndInv'
  BY DEF LineInv, EndInv
<1>8. QED
  BY <1>2, <1>3, <1>4, <1>5, <1>6, <1>7 DEF LineInv

LEMMA NoSessionOpen ==
  ASSUME TypeInv, LineInv, UNCHANGED sender,
         ymodem_ota_task_state' \in {RYM_STAGE_NONE, RYM_STAGE_ESTABLISHING},
         pc' \notin {"WRITE", "ERASE_BEGIN"},
         reply' = reply \/ reply' \in {"C", "NAK"},
         \/ ymodem_ota_msg' = NoMsg
         \/ Unfinished /\ ymodem_ota_msg' = ymodem_ota_msg
  PROVE  LineInv'
<1>1. CurrentPacket' = CurrentPacket
  BY DEF CurrentPacket, Message
<1>2. MailInv'
  BY <1>1 DEF LineInv, MailInv, Unfinished
<1>3. OpenInv' /\ PhaseInv' /\ InsideInv' /\ OrderInv' /\ EndInv'
  BY DEF LineInv, OpenInv, PhaseInv, InsideInv, WritesInside, OrderInv, EndInv
<1>4. QED
  BY <1>2, <1>3 DEF LineInv

LEMMA FotaSession == BeforeInv /\ FotaStep => SessionInv'
<1> SUFFICES ASSUME BeforeInv, FotaStep PROVE SessionInv'
  OBVIOUS
<1> USE DEF BeforeInv, SessionInv, FotaTurn, Goto
<1>1. CASE FotaInit \/ FotaCheckUpdate \/ FotaDownloading \/ CheckFwNoFirmware
  <2>1. LoopInv'
    BY <1>1 DEF LoopInv, FotaInit, FotaCheckUpdate, FotaDownloading,
                CheckFwNoFirmware, ymodem_is_ota_data_received, TypeInv, TypeOK
  <2>2. LineInv'
    BY <1>1, SameSession DEF FotaInit, FotaCheckUpdate, FotaDownloading,
                             CheckFwNoFirmware
  <2>3. QED
    BY <2>1, <2>2
<1>2. ASSUME NEW f \in Files, CheckFwCrcWrong(f) \/ CheckFwPasses(f) PROVE SessionInv'
  <2>1. HeadOf(download, f)
    BY <1>2 DEF CheckFwCrcWrong, CheckFwPasses, Magic, RblPasses
  <2>2. ymodem_ota_task_state <= RYM_STAGE_ESTABLISHING
    <3>1. ymodem_ota_task_state \in RYM_STAGE_NONE .. RYM_STAGE_ESTABLISHED
      BY <1>2 DEF CheckFwCrcWrong, CheckFwPasses, LoopInv, TypeInv, TypeOK
    <3>2. ASSUME ymodem_ota_task_state = RYM_STAGE_ESTABLISHED PROVE FALSE
      <4>1. download[0] = Erased
        BY <3>2, SizesAssumption DEF WriteInv, ErasedFrom, Positions
      <4>2. <<f, 0>> \in Files \X Nat
        OBVIOUS
      <4>3. QED
        BY <2>1, <4>1, <4>2, CellsAssumption DEF HeadOf
    <3>3. QED
      BY <3>1, <3>2
  <2>3. LoopInv'
    BY <1>2, <2>2 DEF LoopInv, CheckFwCrcWrong, CheckFwPasses, CheckFwTarget,
                      TypeInv, TypeOK
  <2>4. LineInv'
    BY <1>2, SameSession DEF CheckFwCrcWrong, CheckFwPasses
  <2>5. QED
    BY <2>3, <2>4
<1>3. CASE FotaUpdate \/ EraseApp \/ CopyBlock \/ CopyInfo
  <2>1. LoopInv'
    BY <1>3 DEF LoopInv, FotaUpdate, EraseApp, CopyBlock, CopyInfo,
                TypeInv, TypeOK, CopyBound
  <2>2. LineInv'
    BY <1>3, SameSession DEF FotaUpdate, EraseApp, CopyBlock, CopyInfo
  <2>3. QED
    BY <2>1, <2>2
<1>4. CASE EraseDownload
  <2>1. LoopInv' /\ ymodem_ota_task_state <= RYM_STAGE_ESTABLISHED
    BY <1>4 DEF LoopInv, EraseDownload, TypeInv, TypeOK
  <2>2. LineInv'
    BY <1>4, <2>1, SameSession DEF EraseDownload
  <2>3. QED
    BY <2>1, <2>2
<1>5. CASE FotaForward \/ FotaStartApp
  <2>1. LoopInv'
    BY <1>5 DEF LoopInv, FotaForward, FotaStartApp, TypeInv, TypeOK
  <2>2. LineInv'
    BY <1>5, SameSession DEF FotaForward, FotaStartApp
  <2>3. QED
    BY <2>1, <2>2
<1>6. CASE FotaNoApp
  <2>1. LoopInv' /\ Unfinished
    BY <1>6 DEF LoopInv, FotaNoApp, Unfinished, TypeInv, TypeOK
  <2>2. LineInv'
    BY <1>6, <2>1, NoSessionOpen DEF FotaNoApp
  <2>3. QED
    BY <2>1, <2>2
<1>7. QED
  BY <1>1, <1>2, <1>3, <1>4, <1>5, <1>6 DEF FotaStep


-----------------------------------------------------------------------------
(* The steps of the session.                                               *)

LEMMA RymLoop == BeforeInv /\ RymStep => LoopInv'
<1> SUFFICES ASSUME BeforeInv, RymStep PROVE LoopInv'
  OBVIOUS
<1> USE DEF BeforeInv, SessionInv, LoopInv, RymTurn, RymDone, TypeInv, TypeOK
<1>1. CASE RymNone \/ HandshakePoll \/ HandshakeWait \/ HandshakeBad
  BY <1>1 DEF RymNone, HandshakePoll, HandshakeWait, HandshakeBad
<1>2. CASE HandshakeReject \/ HandshakeBegin \/ EraseForSession
  BY <1>2 DEF HandshakeReject, HandshakeBegin, FirstPacket, EraseForSession, WriteInv
<1>3. CASE RymDoTrans \/ TransNothing \/ TransEot \/ TransBad
  BY <1>3 DEF RymDoTrans, TransNothing, TransEot, TransBad
<1>4. CASE TransOtherIndex \/ TransData \/ WriteBlock
  BY <1>4 DEF TransOtherIndex, TransData, WriteBlock, WriteInv
<1>5. CASE RymDoFin \/ RymTransFinPacket \/ RymTransFin \/ RymBeforeReset
  BY <1>5 DEF RymDoFin, RymTransFinPacket, RymTransFin, RymBeforeReset
<1>6. CASE RymReset
  BY <1>6 DEF RymReset, hw_cpu_reset, ClearRam
<1>7. QED
  BY <1>1, <1>2, <1>3, <1>4, <1>5, <1>6 DEF RymStep

LEMMA HandshakeLine ==
  ASSUME BeforeInv, HandshakeBegin \/ EraseForSession \/ RymDoTrans
  PROVE  LineInv'
<1> USE DEF BeforeInv, SessionInv, LineInv, TypeInv, TypeOK, RymTurn, RymDone
<1>1. CASE HandshakeBegin
  <2> USE DEF HandshakeBegin, FirstPacket
  <2>1. CurrentPacket' = CurrentPacket
    BY <1>1 DEF CurrentPacket, Message
  <2>2. Unfinished /\ SeqNo(ymodem_ota_msg) = 0
    BY <1>1 DEF Unfinished
  <2>3. /\ sender.phase \in {"begin", "null"}
        /\ ymodem_ota_msg = CurrentPacket
    BY <1>1, <2>2, MailFacts, SeqFacts
  <2>4. sender.phase = "begin" => Size[sender.file] <= Blocks
    BY <1>1, <2>3, PacketFacts DEF DeclaredSizes, FitsDownload
  <2>5. OpenInv'
    BY <1>1, <2>1, <2>3, <2>4 DEF OpenInv
  <2>6. MailInv' /\ PhaseInv' /\ InsideInv' /\ OrderInv' /\ EndInv'
    BY <1>1, <2>1 DEF MailInv, Unfinished, PhaseInv, InsideInv, WritesInside,
                      OrderInv, EndInv
  <2>7. QED
    BY <2>5, <2>6
<1>2. CASE EraseForSession
  <2> USE DEF EraseForSession
  <2>1. CurrentPacket' = CurrentPacket
    BY <1>2 DEF CurrentPacket, Message
  <2>2. ymodem_ota_task_state = RYM_STAGE_ESTABLISHING
    BY <1>2 DEF WriteInv
  <2>3. ymodem_ota_task_state' <= RYM_STAGE_ESTABLISHED
    BY <1>2, <2>2
  <2>4. OpenInv' /\ MailInv'
    BY <1>2, <2>1, <2>2, <2>3 DEF OpenInv, MailInv, Unfinished
  <2>5. PhaseInv' /\ InsideInv' /\ OrderInv'
    BY <1>2, <2>2, <2>3 DEF PhaseInv, InsideInv, WritesInside, OrderInv
  <2>6. EndInv'
    BY <1>2, <2>2, <2>3 DEF EndInv, OpenInv
  <2>7. QED
    BY <2>4, <2>5, <2>6
<1>3. CASE RymDoTrans
  <2> USE DEF RymDoTrans
  <2>1. sender.phase \in {"begin", "null"} /\ sender.file \in Files
    BY <1>3, SenderFacts DEF OpenInv
  <2>2. update_file_cur_size = 0
    BY <1>3 DEF WriteInv
  <2>3. MailInv' /\ OpenInv' /\ EndInv'
    BY <1>3, <2>1 DEF MailInv, OpenInv, EndInv
  <2>4. PhaseInv' /\ InsideInv'
    BY <1>3, <2>1, <2>2 DEF PhaseInv, OpenInv, InsideInv, WritesInside, Accepted
  <2>5. Sent(sender.file, update_file_cur_size)'
    BY <1>3, <2>2 DEF Sent
  <2>6. OrderInv'
    BY <1>3, <2>1, <2>5 DEF OrderInv
  <2>7. QED
    BY <2>3, <2>4, <2>6
<1>4. QED
  BY <1>1, <1>2, <1>3

LEMMA TransLine ==
  ASSUME BeforeInv, TransEot \/ TransBad \/ TransOtherIndex
  PROVE  LineInv'
<1> USE DEF BeforeInv, SessionInv, LineInv, TypeInv, TypeOK, RymTurn, RymDone, Answer
<1>1. CASE TransEot
  <2> USE DEF TransEot
  <2>1. CurrentPacket' = CurrentPacket /\ Accepted' = Accepted /\ Unfinished
    BY <1>1 DEF CurrentPacket, Message, Accepted, Unfinished
  <2>2. sender.phase \in {"eot1", "eot2"} /\ reply \notin {"ACK", "ACK_C"}
    BY <1>1, <2>1, MailFacts
  <2>3. MailInv' /\ OpenInv' /\ PhaseInv' /\ InsideInv'
    BY <1>1, <2>1, <2>2 DEF MailInv, Unfinished, OpenInv, PhaseInv, InsideInv,
                            WritesInside
  <2>4. OrderInv'
    <3> SUFFICES ASSUME InStepNow'
                 PROVE  \E f \in Files : Sent(f, update_file_cur_size)' /\
                                         Size[f] = update_file_cur_size'
      BY <1>1 DEF OrderInv
    <3>1. InStepNow
      BY <1>1, <2>1 DEF InStepNow
    <3>2. /\ Sent(sender.file, update_file_cur_size)
          /\ Size[sender.file] = update_file_cur_size
          /\ sender.file \in Files
      BY <1>1, <2>2, <3>1, SenderFacts DEF OrderInv
    <3>3. QED
      BY <1>1, <3>2 DEF Sent
  <2>5. EndInv'
    BY <1>1, <2>2 DEF EndInv
  <2>6. QED
    BY <2>3, <2>4, <2>5
<1>2. CASE TransBad
  <2> USE DEF TransBad
  <2>1. Accepted' = Accepted
    BY <1>2 DEF Accepted
  <2>2. MailInv' /\ OpenInv' /\ PhaseInv' /\ EndInv'
    BY <1>2 DEF MailInv, OpenInv, PhaseInv, EndInv
  <2>3. InsideInv' /\ OrderInv'
    BY <1>2, <2>1 DEF InsideInv, WritesInside, OrderInv, InStepNow, Sent
  <2>4. QED
    BY <2>2, <2>3
<1>3. CASE TransOtherIndex
  <2> USE DEF TransOtherIndex, Packet
  <2>1. Accepted' = Accepted /\ Unfinished
    BY <1>3 DEF Accepted, Unfinished
  <2>2. MailInv' /\ OpenInv' /\ PhaseInv' /\ EndInv'
    BY <1>3 DEF MailInv, OpenInv, PhaseInv, EndInv
  <2>3. InsideInv'
    BY <1>3, <2>1 DEF InsideInv, WritesInside
  <2>4. ASSUME InStepNow, sender.phase = "data" PROVE Accepted = sender.blk + 1
    <3>1. ymodem_ota_msg = CurrentPacket
      BY <1>3, <2>1, MailFacts
    <3>2. /\ sender.blk \in 0 .. Blocks - 1
          /\ ymodem_next_packet_index # sender.blk + 1
      BY <1>3, <2>4, <3>1, SeqFacts
    <3>3. Accepted \in {sender.blk, sender.blk + 1}
      BY <1>3, <2>4 DEF OrderInv
    <3>4. (sender.blk + 1) % IndexMod = sender.blk + 1
      BY <3>2, SmallMod, SizesAssumption
    <3>5. QED
      BY <2>4, <3>2, <3>3, <3>4 DEF InStepNow
  <2>5. OrderInv'
    BY <1>3, <2>1, <2>4 DEF OrderInv, InStepNow, Sent
  <2>6. QED
    BY <2>2, <2>3, <2>5
<1>4. QED
  BY <1>1, <1>2, <1>3

LEMMA DataLine == BeforeInv /\ TransData => LineInv'
<1> SUFFICES ASSUME BeforeInv, TransData PROVE LineInv'
  OBVIOUS
<1> USE DEF BeforeInv, SessionInv, LineInv, TypeInv, TypeOK, RymTurn, TransData,
            Packet
<1>1. /\ CurrentPacket' = CurrentPacket /\ Unfinished
      /\ Accepted = update_file_cur_size /\ Accepted' = update_file_cur_size + 1
  BY DEF CurrentPacket, Message, Accepted, Unfinished
<1>2. /\ ymodem_ota_msg = CurrentPacket
      /\ SeqNo(CurrentPacket) = ymodem_next_packet_index
      /\ sender.phase \in {"begin", "data", "null"}
  BY <1>1, MailFacts
<1>3. CASE sender.phase = "data"
  <2>1. /\ sender.blk \in 0 .. Blocks - 1
        /\ ymodem_next_packet_index = sender.blk + 1
    BY <1>2, <1>3, SeqFacts
  <2>2. Accepted <= sender.blk
    BY <1>3, <2>1 DEF InsideInv
  <2>3. ymodem_next_packet_index' = sender.blk + 2
    <3>1. sender.blk + 2 \in 0 .. Blocks + 1
      BY <2>1, SizesAssumption
    <3>2. (sender.blk + 2) % IndexMod = sender.blk + 2
      BY <3>1, SmallMod
    <3>3. QED
      BY <2>1, <3>2 DEF NextIndex
  <2>4. InsideInv'
    BY <1>1, <1>3, <2>1, <2>2, <2>3, SizesAssumption DEF InsideInv, WritesInside
  <2>5. ASSUME InStepNow'
        PROVE  InStepNow /\ Accepted = sender.blk
    <3>1. update_file_cur_size + 2 \in 0 .. Blocks + 1
      BY <1>1, <2>1, <2>2, SizesAssumption
    <3>2. (update_file_cur_size + 2) % IndexMod = update_file_cur_size + 2
      BY <3>1, SmallMod
    <3>3. Accepted' + 1 = update_file_cur_size + 2
      BY <1>1
    <3>4. update_file_cur_size + 2 = sender.blk + 2
      BY <2>3, <2>5, <3>2, <3>3 DEF InStepNow
    <3>5. (update_file_cur_size + 1) % IndexMod = update_file_cur_size + 1
      BY <3>1, SmallMod, SizesAssumption
    <3>6. QED
      BY <1>1, <2>1, <3>4, <3>5 DEF InStepNow
  <2>6. OrderInv'
    BY <1>1, <1>3, <2>1, <2>5 DEF OrderInv, Sent
  <2>7. QED
    BY <1>1, <1>2, <1>3, <2>4, <2>6 DEF MailInv, Unfinished, OpenInv, PhaseInv, EndInv
<1>4. CASE sender.phase \in {"begin", "null"}
  <2>1. ymodem_next_packet_index = 0
    BY <1>2, <1>4, SeqFacts
  <2>2. update_file_cur_size = 0
    BY <1>1, <2>1 DEF InsideInv
  <2>3. 1 % IndexMod = 1 /\ 2 % IndexMod = 2
    BY SmallMod, SizesAssumption
  <2>4. ymodem_next_packet_index' = 1 /\ ~InStepNow'
    BY <1>1, <2>1, <2>2, <2>3 DEF NextIndex, InStepNow
  <2>5. InsideInv' /\ OrderInv'
    BY <1>1, <1>4, <2>2, <2>4, SizesAssumption DEF InsideInv, WritesInside, OrderInv
  <2>6. QED
    BY <1>1, <1>2, <1>4, <2>5 DEF MailInv, Unfinished, OpenInv, PhaseInv, EndInv
<1>5. QED
  BY <1>2, <1>3, <1>4

LEMMA WriteLine == BeforeInv /\ WriteBlock => LineInv'
<1> SUFFICES ASSUME BeforeInv, WriteBlock PROVE LineInv'
  OBVIOUS
<1> USE DEF BeforeInv, SessionInv, LineInv, TypeInv, TypeOK, RymDone, Answer,
            WriteBlock
<1>1. /\ Unfinished
      /\ ymodem_ota_task_state = RYM_STAGE_TRANSMITTING
      /\ Accepted = update_file_cur_size + 1 /\ Accepted' = Accepted
  BY DEF Accepted, Unfinished, WriteInv
<1>2. held = ymodem_ota_msg /\ Packet
  BY <1>1 DEF MailInv
<1>3. update_file_cur_size \in 0 .. Blocks - 1
  BY SizesAssumption DEF InsideInv, WritesInside
<1>4. MailInv' /\ OpenInv' /\ PhaseInv' /\ EndInv'
  BY <1>1 DEF MailInv, OpenInv, PhaseInv, EndInv
<1>5. InsideInv'
  BY <1>1 DEF InsideInv, WritesInside
<1>6. ASSUME InStepNow
      PROVE  /\ sender.phase = "data" /\ sender.file \in Files
             /\ sender.blk = update_file_cur_size
             /\ Sent(sender.file, update_file_cur_size)'
  <2>1. /\ sender.phase = "data" /\ sender.blk = update_file_cur_size
        /\ Sent(sender.file, update_file_cur_size)
        /\ sender.file \in Files
    BY <1>1, <1>6, SenderFacts DEF OrderInv
  <2>2. held = CurrentPacket
    BY <1>1, <1>2, MailFacts DEF Packet
  <2>3. Payload(held) = <<sender.file, update_file_cur_size>>
    BY <2>1, <2>2, PacketFacts DEF Payload
  <2>4. download' = [download EXCEPT ![update_file_cur_size] =
                       <<sender.file, update_file_cur_size>>]
    BY <1>2, <2>3 DEF Written
  <2>5. QED
    BY <1>3, <2>1, <2>4 DEF Sent, Positions
<1>7. OrderInv'
  BY <1>1, <1>6 DEF OrderInv, InStepNow
<1>8. QED
  BY <1>4, <1>5, <1>7

LEMMA FinishLine ==
  ASSUME BeforeInv, RymDoFin \/ RymTransFinPacket \/ RymTransFin
  PROVE  LineInv'
<1> USE DEF BeforeInv, SessionInv, LineInv, TypeInv, TypeOK, RymTurn, RymDone, Answer
<1>1. CurrentPacket' = CurrentPacket
  BY DEF CurrentPacket, Message, RymDoFin, RymTransFinPacket, RymTransFin
<1>2. UNCHANGED <<sender, update_file_cur_size, ymodem_next_packet_index, download>>
  BY DEF RymDoFin, RymTransFinPacket, RymTransFin
<1>3. /\ ymodem_ota_task_state > RYM_STAGE_TRANSMITTING
      /\ ymodem_ota_task_state' > RYM_STAGE_TRANSMITTING
      /\ pc # "WRITE" /\ pc' = "FOTA"
  BY DEF RymDoFin, RymTransFinPacket, RymTransFin
<1>4. Accepted' = Accepted
  BY <1>2, <1>3 DEF Accepted
<1>5. OpenInv' /\ PhaseInv' /\ InsideInv'
  <2>1. OpenInv' /\ InsideInv'
    BY <1>3 DEF OpenInv, InsideInv, WritesInside
  <2>2. sender.phase = "begin" => reply' # "ACK_C" \/ reply = "ACK_C"
    <3>1. CASE RymTransFinPacket
      BY <3>1, MailFacts DEF RymTransFinPacket, Unfinished
    <3>2. CASE RymDoFin \/ RymTransFin
      BY <3>2 DEF RymDoFin, RymTransFin
    <3>3. QED
      BY <3>1, <3>2
  <2>3. QED
    BY <1>2, <1>3, <2>1, <2>2 DEF PhaseInv
<1>6. OrderInv'
  BY <1>2, <1>3, <1>4 DEF OrderInv, InStepNow, Sent
<1>7. MailInv' /\ EndInv'
  <2>1. CASE RymDoFin
    BY <2>1 DEF RymDoFin, MailInv, EndInv
  <2>2. CASE RymTransFinPacket
    <3>1. ymodem_ota_msg.type = "eot" => sender.phase \in {"eot1", "eot2"}
      BY <2>2, MailFacts DEF RymTransFinPacket, Unfinished
    <3>2. QED
      BY <1>1, <2>2, <3>1 DEF RymTransFinPacket, MailInv, EndInv, Unfinished
  <2>3. CASE RymTransFin
    BY <2>3 DEF RymTransFin, MailInv, EndInv, Unfinished
  <2>4. QED
    BY <2>1, <2>2, <2>3
<1>8. QED
  BY <1>5, <1>6, <1>7

LEMMA RymSession == BeforeInv /\ RymStep => SessionInv'
<1> SUFFICES ASSUME BeforeInv, RymStep PROVE LineInv'
  BY RymLoop DEF SessionInv
<1> USE DEF BeforeInv, SessionInv, RymTurn, RymDone
<1>1. CASE RymNone \/ HandshakePoll \/ HandshakeWait \/ HandshakeBad
  BY <1>1, NoSessionOpen
     DEF RymNone, HandshakePoll, HandshakeWait, HandshakeBad, Unfinished
<1>2. CASE HandshakeReject
  BY <1>2, NoSessionOpen DEF HandshakeReject, FirstPacket, Unfinished
<1>3. CASE HandshakeBegin \/ EraseForSession \/ RymDoTrans
  BY <1>3, HandshakeLine
<1>4. CASE TransNothing \/ RymBeforeReset
  BY <1>4, SameSession DEF TransNothing, RymBeforeReset
<1>5. CASE TransEot \/ TransBad \/ TransOtherIndex
  BY <1>5, TransLine
<1>6. CASE TransData \/ WriteBlock
  BY <1>6, DataLine, WriteLine
<1>7. CASE RymDoFin \/ RymTransFinPacket \/ RymTransFin
  BY <1>7, FinishLine
<1>8. CASE RymReset
  BY <1>8, NoSessionOpen DEF RymReset, hw_cpu_reset, ClearRam
<1>9. QED
  BY <1>1, <1>2, <1>3, <1>4, <1>5, <1>6, <1>7, <1>8 DEF RymStep

-----------------------------------------------------------------------------
(* Reading an answer moves the sender on.                                  *)

LEMMA AdvanceFacts ==
  ASSUME TypeInv, ReadReply
  PROVE  /\ sender'.file = sender.file \/ sender'.phase = "idle"
         /\ \/ sender' = sender
            \/ /\ sender.phase = "begin" /\ reply = "ACK_C"
               /\ sender'.phase = "data" /\ sender'.blk = sender.blk
            \/ /\ sender.phase = "data" /\ reply \in {"ACK", "ACK_C"}
               /\ \/ /\ sender.blk + 1 < Size[sender.file]
                     /\ sender'.phase = "data" /\ sender'.blk = sender.blk + 1
                  \/ /\ ~(sender.blk + 1 < Size[sender.file])
                     /\ sender'.phase = "eot1"
            \/ sender.phase = "eot1" /\ reply = "NAK" /\ sender'.phase = "eot2"
            \/ /\ sender.phase \in {"eot1", "eot2"} /\ reply = "ACK_C"
               /\ sender'.phase = "null"
            \/ /\ sender.phase = "null" /\ reply \in {"ACK", "ACK_C"}
               /\ sender'.phase = "idle"
<1>1. sender' = Advance
  BY DEF ReadReply
<1>2. sender.phase = "data" /\ reply \in {"ACK", "ACK_C"} => Advance = AfterData
  BY DEF Advance
<1>3. QED
  BY <1>1, <1>2 DEF Advance, AfterData, NoSession, TypeInv, TypeOK, Senders

LEMMA ReadSession == BeforeInv /\ ReadReply => SessionInv'
<1> SUFFICES ASSUME BeforeInv, ReadReply PROVE SessionInv'
  OBVIOUS
<1> USE DEF BeforeInv, SessionInv, LineInv, TypeInv, TypeOK
<1>1. /\ UNCHANGED <<pc, pos, fotaRam, rymRam, ymodem_ota_msg, timers, flash>>
      /\ reply' = "none"
  BY DEF ReadReply
<1>2. LoopInv' /\ EndInv'
  BY <1>1 DEF LoopInv, EndInv
<1>3. Accepted' = Accepted
  BY <1>1 DEF Accepted
\* A message that is still to be looked at holds the sender where it is.
<1>4. ASSUME Unfinished, ymodem_ota_msg # NoMsg
      PROVE  /\ CurrentPacket' = CurrentPacket
             /\ sender.phase # "idle" => sender'.phase # "idle"
             /\ sender' = sender \/ (sender.phase = "eot1" /\ sender'.phase = "eot2")
  <2>1. sender' = sender \/ (sender.phase = "eot1" /\ sender'.phase = "eot2")
    BY <1>4, AdvanceFacts DEF MailInv
  <2>2. CurrentPacket' = CurrentPacket
    BY <2>1 DEF CurrentPacket, Message
  <2>3. QED
    BY <2>1, <2>2
<1>5. MailInv'
  BY <1>1, <1>4, AdvanceFacts DEF MailInv, Unfinished, Packet
<1>6. OpenInv'
  <2>1. pc = "ERASE_BEGIN" \/ ymodem_ota_task_state = RYM_STAGE_ESTABLISHED =>
          Unfinished /\ ymodem_ota_msg # NoMsg
    BY PacketFacts DEF OpenInv, Unfinished, WriteInv
  <2>2. QED
    BY <1>1, <1>4, <2>1 DEF OpenInv
<1>7. PhaseInv'
  BY <1>1, AdvanceFacts, SenderFacts DEF PhaseInv
<1>8. pc = "WRITE" => ymodem_ota_msg # NoMsg /\ Unfinished
  BY PacketFacts DEF MailInv, Packet, Unfinished, WriteInv
<1>9. ASSUME ymodem_ota_task_state = RYM_STAGE_TRANSMITTING,
             sender.phase = "begin", sender'.phase = "data"
      PROVE  Accepted = 0 /\ sender'.blk = 0 /\ update_file_cur_size = 0
  <2>1. reply = "ACK_C" /\ sender'.blk = sender.blk
    BY <1>9, AdvanceFacts
  <2>2. update_file_cur_size = 0 /\ sender.blk = 0
    BY <1>9, <2>1 DEF PhaseInv
  <2>3. pc # "WRITE"
    BY <1>8, <2>1 DEF MailInv
  <2>4. QED
    BY <2>1, <2>2, <2>3 DEF Accepted
<1>10. InsideInv'
  <2>1. ASSUME ymodem_ota_task_state = RYM_STAGE_TRANSMITTING,
               sender'.phase = "data", sender.phase = "data", sender' # sender
        PROVE  Accepted <= sender'.blk
    <3>1. sender'.blk = sender.blk + 1
      BY <2>1, AdvanceFacts
    <3>2. QED
      BY <2>1, <3>1, SenderFacts DEF InsideInv, Accepted
  <2>2. sender'.phase = "data" => sender' = sender \/ sender.phase \in {"begin", "data"}
    BY AdvanceFacts
  <2>3. QED
    BY <1>1, <1>3, <1>9, <2>1, <2>2, SizesAssumption DEF InsideInv, WritesInside
<1>11. OrderInv'
  <2>1. ASSUME ymodem_ota_task_state = RYM_STAGE_TRANSMITTING, InStepNow,
               sender' # sender
        PROVE  /\ pc # "WRITE"
               /\ sender'.phase = "data" =>
                    /\ Sent(sender'.file, update_file_cur_size)
                    /\ Accepted \in {sender'.blk, sender'.blk + 1}
               /\ sender'.phase \in {"eot1", "eot2"} =>
                    /\ Sent(sender'.file, update_file_cur_size)
                    /\ Size[sender'.file] = update_file_cur_size
    <3>1. pc # "WRITE" /\ Accepted = update_file_cur_size
      <4>1. pc = "WRITE" => sender.phase = "data"
        BY <2>1 DEF OrderInv
      <4>2. pc # "WRITE"
        BY <1>4, <1>8, <2>1, <4>1
      <4>3. QED
        BY <4>2 DEF Accepted
    <3>2. CASE sender.phase = "begin"
      BY <2>1, <1>9, <3>1, <3>2, AdvanceFacts DEF Sent
    <3>3. CASE sender.phase = "data"
      <4>1. /\ Sent(sender.file, update_file_cur_size)
            /\ Accepted = sender.blk + 1
        BY <2>1, <3>3, AdvanceFacts DEF OrderInv
      <4>2. CASE sender'.phase = "data"
        BY <2>1, <3>1, <3>3, <4>1, <4>2, AdvanceFacts
      <4>3. CASE sender'.phase = "eot1"
        <5>1. ~(sender.blk + 1 < Size[sender.file])
          BY <2>1, <3>3, <4>3, AdvanceFacts
        <5>2. sender.blk < Size[sender.file]
          BY <3>3 DEF PhaseInv
        <5>3. Size[sender.file] = sender.blk + 1
          BY <5>1, <5>2, <3>3, SenderFacts
        <5>4. QED
          BY <2>1, <3>1, <3>3, <4>1, <4>3, <5>3, AdvanceFacts
      <4>4. QED
        BY <2>1, <3>1, <3>3, <4>2, <4>3, AdvanceFacts
    <3>4. CASE sender.phase = "eot1" /\ sender'.phase = "eot2"
      BY <2>1, <3>1, <3>4, AdvanceFacts DEF OrderInv
    <3>5. QED
      BY <2>1, <3>1, <3>2, <3>3, <3>4, AdvanceFacts
  <2>2. InStepNow' = InStepNow /\ \A f \in Files, n \in Nat : Sent(f, n)' = Sent(f, n)
    BY <1>1, <1>3 DEF InStepNow, Sent
  <2>3. CASE sender' = sender
    BY <1>1, <1>3, <2>3 DEF OrderInv, InStepNow, Sent
  <2>4. CASE sender' # sender
    BY <1>1, <1>3, <2>1, <2>4 DEF OrderInv, InStepNow, Sent
  <2>5. QED
    BY <2>3, <2>4
<1>12. QED
  BY <1>2, <1>5, <1>6, <1>7, <1>10, <1>11

-----------------------------------------------------------------------------
(* The sender and the other steps.                                         *)

LEMMA SenderSession == BeforeInv /\ SenderStep => SessionInv'
<1> SUFFICES ASSUME BeforeInv, SenderStep PROVE SessionInv'
  OBVIOUS
<1> USE DEF BeforeInv, SessionInv, LineInv, TypeInv, TypeOK
<1>1. UNCHANGED <<pc, pos, fotaRam, rymRam, timers, flash>>
  BY DEF SenderStep, SendPacket, Usart2RxIrqCallback, SenderStart, SenderGivesUp,
         ReadReply, ReplyLost
<1>2. LoopInv'
  BY <1>1 DEF LoopInv
<1>3. Accepted' = Accepted
  BY <1>1 DEF Accepted
\* A sender that waits for its answer does nothing while the device is busy.
<1>4. ASSUME MayAct
      PROVE  /\ reply \in {"none", "C"}
             /\ Unfinished => ymodem_ota_msg = NoMsg
             /\ pc \notin {"WRITE", "ERASE_BEGIN"}
             /\ ymodem_ota_task_state # RYM_STAGE_ESTABLISHED
  <2>1. /\ pc \in {"FOTA", "YMODEM", "APP"}
        /\ reply \in {"none", "C"}
        /\ Unfinished => ymodem_ota_msg = NoMsg
    BY <1>4 DEF MayAct, Busy, Orderly, Unfinished
  <2>2. CurrentPacket # NoMsg
    BY PacketFacts, SenderFacts
  <2>3. QED
    BY <2>1, <2>2 DEF OpenInv, Unfinished
<1>5. CASE SendPacket
  <2>1. /\ ymodem_ota_msg' \in {CurrentPacket, BadMsg} /\ sender.phase # "idle"
        /\ MayAct /\ UNCHANGED line
    BY <1>5 DEF SendPacket, Usart2RxIrqCallback, BadMsg
  <2>2. CurrentPacket' = CurrentPacket
    BY <2>1 DEF CurrentPacket, Message
  <2>3. MailInv' /\ OpenInv' /\ EndInv'
    BY <1>1, <1>4, <2>1, <2>2 DEF MailInv, OpenInv, EndInv
  <2>4. PhaseInv' /\ InsideInv' /\ OrderInv'
    BY <1>1, <1>3, <2>1
       DEF PhaseInv, InsideInv, WritesInside, OrderInv, InStepNow, Sent
  <2>5. QED
    BY <1>2, <2>3, <2>4
<1>6. ASSUME NEW f \in Files, SenderStart(f) PROVE SessionInv'
  <2>1. /\ sender'.phase = "begin" /\ sender'.blk = 0 /\ reply' = "none"
        /\ MayAct /\ UNCHANGED ymodem_ota_msg
    BY <1>6 DEF SenderStart
  <2>2. MailInv' /\ OpenInv' /\ EndInv'
    BY <1>1, <1>4, <2>1 DEF MailInv, OpenInv, EndInv, Unfinished
  <2>3. PhaseInv' /\ InsideInv'
    BY <1>1, <1>3, <1>4, <2>1 DEF PhaseInv, InsideInv, WritesInside
  <2>4. OrderInv'
    BY <1>1, <1>3, <1>4, <2>1 DEF OrderInv, InStepNow, Sent
  <2>5. QED
    BY <1>2, <2>2, <2>3, <2>4
<1>7. CASE SenderGivesUp
  <2>1. /\ sender'.phase = "idle" /\ MayAct /\ UNCHANGED <<reply, ymodem_ota_msg>>
    BY <1>7 DEF SenderGivesUp, NoSession
  <2>2. MailInv' /\ OpenInv' /\ EndInv'
    BY <1>1, <1>4, <2>1 DEF MailInv, OpenInv, EndInv, Unfinished
  <2>3. PhaseInv' /\ InsideInv'
    BY <1>1, <1>3, <1>4, <2>1 DEF PhaseInv, InsideInv, WritesInside
  <2>4. OrderInv'
    BY <1>1, <1>3, <1>4, <2>1 DEF OrderInv, InStepNow, Sent
  <2>5. QED
    BY <1>2, <2>2, <2>3, <2>4
<1>8. CASE ReplyLost
  <2>1. UNCHANGED <<sender, ymodem_ota_msg>> /\ reply' = "none"
    BY <1>8 DEF ReplyLost
  <2>2. CurrentPacket' = CurrentPacket
    BY <2>1 DEF CurrentPacket, Message
  <2>3. MailInv' /\ OpenInv' /\ EndInv'
    BY <1>1, <2>1, <2>2 DEF MailInv, OpenInv, EndInv, Unfinished, Packet
  <2>4. PhaseInv' /\ InsideInv' /\ OrderInv'
    BY <1>1, <1>3, <2>1
       DEF PhaseInv, InsideInv, WritesInside, OrderInv, InStepNow, Sent
  <2>5. QED
    BY <1>2, <2>3, <2>4
<1>9. CASE ReadReply
  BY <1>9, ReadSession
<1>10. QED
  BY <1>5, <1>6, <1>7, <1>8, <1>9 DEF SenderStep

-----------------------------------------------------------------------------
(* The rest of the steps, and the theorems.                                *)

LEMMA OtherSession ==
  ASSUME BeforeInv,
         \/ FotaTimerExpires \/ YmodemTimerExpires \/ PowerLoss \/ AppReset
         \/ UNCHANGED vars
  PROVE  SessionInv'
<1> USE DEF BeforeInv, SessionInv
<1>1. CASE FotaTimerExpires \/ YmodemTimerExpires \/ UNCHANGED vars
  <2>1. LoopInv'
    BY <1>1 DEF LoopInv, FotaTimerExpires, YmodemTimerExpires
  <2>2. LineInv'
    BY <1>1, SameSession DEF FotaTimerExpires, YmodemTimerExpires
  <2>3. QED
    BY <2>1, <2>2
<1>2. CASE PowerLoss \/ AppReset
  <2>1. ClearRam /\ UNCHANGED line
    BY <1>2 DEF PowerLoss, AppReset, hw_cpu_reset
  <2>2. LoopInv'
    BY <2>1 DEF ClearRam, LoopInv
  <2>3. LineInv'
    BY <2>1, NoSessionOpen DEF ClearRam
  <2>4. QED
    BY <2>2, <2>3
<1>3. QED
  BY <1>1, <1>2

LEMMA SessionInvariant == Orderly /\ Spec => []BeforeInv
<1> SUFFICES ASSUME Orderly PROVE Spec => []BeforeInv
  OBVIOUS
<1>1. Init => BeforeInv
  <2> SUFFICES ASSUME Init PROVE BeforeInv
    OBVIOUS
  <2>1. TypeInv /\ WriteInv
    BY InitType DEF Init, RamCleared, WriteInv
  <2>2. SessionInv
    BY DEF Init, RamCleared, NoSession, SessionInv, LineInv, LoopInv, MailInv,
           OpenInv, PhaseInv, InsideInv, WritesInside, OrderInv, EndInv
  <2>3. QED
    BY <2>1, <2>2 DEF BeforeInv
<1>2. BeforeInv /\ [Next]_vars => BeforeInv'
  <2> SUFFICES ASSUME BeforeInv, [Next]_vars PROVE BeforeInv'
    OBVIOUS
  <2>1. (TypeInv /\ WriteInv)'
    BY NextType, FotaWrites, RymWrites, OtherWrites DEF Next, Device, BeforeInv
  <2>2. SessionInv'
    BY FotaSession, RymSession, SenderSession, OtherSession DEF Next, Device
  <2>3. QED
    BY <2>1, <2>2 DEF BeforeInv, Orderly
<1>3. QED
  BY <1>1, <1>2, PTL DEF Spec

\* ymodem_on_data writes inside the download area although it never compares
\* its address with the end of it.
THEOREM WritesStayInside == Orderly /\ Spec => []WritesInside
<1>1. BeforeInv => WritesInside
  BY DEF BeforeInv, SessionInv, LineInv, InsideInv
<1>2. QED
  BY <1>1, SessionInvariant, PTL

\* What a session in step has written is the beginning of one file, and at its
\* end the whole of it, whatever is lost, repeated or corrupted on the line.
THEOREM SessionsAreInOrder == Orderly /\ Spec => []InOrder
<1>1. BeforeInv => InOrder
  <2> SUFFICES ASSUME BeforeInv, InStep, pc # "WRITE"
               PROVE  /\ ymodem_ota_task_state >= RYM_STAGE_TRANSMITTING =>
                           \E f \in Files : Sent(f, update_file_cur_size)
                      /\ ymodem_ota_task_state >= RYM_STAGE_FINISHING =>
                           \E f \in Files :
                              Sent(f, update_file_cur_size) /\
                              Size[f] = update_file_cur_size
    BY DEF InOrder
  <2>1. InStepNow
    BY DEF InStep, InStepNow, Accepted
  <2>2. QED
    BY <2>1 DEF BeforeInv, SessionInv, LineInv, OrderInv, TypeInv, TypeOK
<1>2. QED
  BY <1>1, SessionInvariant, PTL

-----------------------------------------------------------------------------
(* What can part sender and device.                                        *)

Parted ==
  \/ ReplyLost /\ reply = "ACK_C"
  \/ SenderGivesUp \/ PowerLoss
  \/ ymodem_ota_task_state = RYM_STAGE_RESET

\* What each stage of a session can do, and what the FOTA task does meanwhile.
LEMMA StageSteps ==
  ASSUME BeforeInv, RymStep,
         ymodem_ota_task_state \in RYM_STAGE_ESTABLISHED .. RYM_STAGE_RESET
  PROVE  /\ ymodem_ota_task_state = RYM_STAGE_ESTABLISHED => RymDoTrans
         /\ ymodem_ota_task_state = RYM_STAGE_TRANSMITTING =>
              \/ TransNothing \/ TransEot \/ TransBad \/ TransOtherIndex \/ TransData
              \/ WriteBlock
         /\ ymodem_ota_task_state \in RYM_STAGE_FINISHING .. RYM_STAGE_FINISHED =>
              RymDoFin \/ RymTransFinPacket \/ RymTransFin
         /\ ymodem_ota_task_state = RYM_STAGE_RESET => RymReset \/ RymBeforeReset
  BY DEF BeforeInv, RymTurn, RymStep, RymNone, HandshakePoll, HandshakeWait,
         HandshakeBad, HandshakeReject, HandshakeBegin, FirstPacket,
         EraseForSession, RymDoTrans, TransNothing, TransEot, TransBad,
         TransOtherIndex, TransData, WriteBlock, RymDoFin, RymTransFinPacket,
         RymTransFin, RymReset, RymBeforeReset, WriteInv

LEMMA OnlyWaits ==
  ASSUME BeforeInv, FotaStep, FOTA_tTaskState = "DOWNLOADING"
  PROVE  FotaDownloading
  BY DEF BeforeInv, SessionInv, FotaStep, FotaTurn, Goto, FotaInit,
         FotaCheckUpdate, CheckFwNoFirmware, CheckFwCrcWrong, CheckFwPasses,
         FotaUpdate, EraseApp, CopyBlock, CopyInfo, EraseDownload, FotaForward,
         FotaStartApp, FotaNoApp, CopyBound, LoopInv, TypeInv, TypeOK

LEMMA DeviceKeeps ==
  ASSUME BeforeInv, Device, Downloading, ymodem_ota_task_state # RYM_STAGE_RESET
  PROVE  Downloading'
<1> USE DEF BeforeInv, SessionInv, LineInv, TypeInv, TypeOK, RymTurn, RymDone, Answer
<1>1. FOTA_tTaskState = "DOWNLOADING" /\ Together /\ sender.phase # "idle"
  BY SenderFacts DEF Downloading, Together
<1>2. CASE FotaStep
  <2>1. FotaDownloading
    BY <1>1, <1>2, OnlyWaits
  <2>2. QED
    BY <1>1, <2>1 DEF FotaDownloading, FotaTurn, Goto, Downloading, Together, Accepted
<1>3. CASE RymStep
  <2> SUFFICES Together'
    <3>1. UNCHANGED FOTA_tTaskState
      BY <1>1, <1>3
         DEF RymStep, RymNone, HandshakePoll, HandshakeWait, HandshakeBad,
             HandshakeReject, HandshakeBegin, FirstPacket, EraseForSession,
             RymDoTrans, TransNothing, TransEot, TransBad, TransOtherIndex,
             TransData, WriteBlock, RymDoFin, RymTransFinPacket, RymTransFin,
             RymReset, RymBeforeReset
    <3>2. QED
      BY <1>1, <3>1 DEF Downloading
  <2>1. ymodem_ota_task_state \in RYM_STAGE_ESTABLISHED .. RYM_STAGE_FINISHED
    BY <1>1, SenderFacts DEF Together
  <2>2. /\ ymodem_ota_task_state = RYM_STAGE_ESTABLISHED => RymDoTrans
        /\ ymodem_ota_task_state = RYM_STAGE_TRANSMITTING =>
             \/ TransNothing \/ TransEot \/ TransBad \/ TransOtherIndex \/ TransData
             \/ WriteBlock
        /\ ymodem_ota_task_state > RYM_STAGE_TRANSMITTING =>
             RymDoFin \/ RymTransFinPacket \/ RymTransFin
    BY <1>3, <2>1, StageSteps
  <2>3. CASE ymodem_ota_task_state = RYM_STAGE_ESTABLISHED
    BY <1>1, <2>2, <2>3 DEF RymDoTrans, Together, WriteInv, Accepted
  <2>4. CASE ymodem_ota_task_state = RYM_STAGE_TRANSMITTING
    <3>1. ymodem_ota_msg # NoMsg => reply # "ACK_C"
      BY <2>4 DEF MailInv, Unfinished
    <3>2. CASE sender.phase = "begin"
      <4>1. ymodem_ota_msg.type = "none" /\ pc # "WRITE"
        BY <1>1, <2>4, <3>1, <3>2, PacketFacts DEF Together, MailInv, Packet
      <4>2. TransNothing
        BY <2>2, <2>4, <4>1
           DEF TransEot, TransBad, TransOtherIndex, TransData, Packet, WriteBlock
      <4>3. QED
        BY <1>1, <2>4, <3>2, <4>1, <4>2 DEF TransNothing, Together, Accepted
    <3>3. CASE sender.phase = "data"
      <4>1. ~TransEot
        BY <2>4, <3>3, MailFacts DEF TransEot, Unfinished
      <4>2. CASE TransNothing \/ TransBad \/ TransOtherIndex \/ WriteBlock
        BY <1>1, <2>4, <3>3, <4>2
           DEF TransNothing, TransBad, TransOtherIndex, WriteBlock, Together, Accepted
      <4>3. CASE TransData
        <5>1. /\ ymodem_ota_msg = CurrentPacket
              /\ sender.blk \in 0 .. Blocks - 1
              /\ ymodem_next_packet_index = sender.blk + 1
          BY <2>4, <3>3, <4>3, MailFacts, SeqFacts DEF TransData, Packet, Unfinished
        <5>2. /\ ymodem_next_packet_index = (Accepted + 1) % IndexMod
              /\ Accepted \in {sender.blk, sender.blk + 1}
              /\ Accepted = update_file_cur_size
              /\ Accepted' = update_file_cur_size + 1
          BY <1>1, <3>3, <4>3, SenderFacts DEF TransData, Together, Accepted
        <5>3. /\ (sender.blk + 1) % IndexMod = sender.blk + 1
              /\ (sender.blk + 2) % IndexMod = sender.blk + 2
          <6>1. sender.blk + 1 \in 0 .. Blocks + 1 /\ sender.blk + 2 \in 0 .. Blocks + 1
            BY <5>1, SizesAssumption
          <6>2. QED
            BY <6>1, SmallMod
        <5>4. CASE Accepted = sender.blk + 1
          <6>1. (Accepted + 1) % IndexMod = (sender.blk + 2) % IndexMod
            BY <5>1, <5>4
          <6>2. QED
            BY <5>1, <5>2, <5>3, <6>1
        <5>5. CASE Accepted = sender.blk
          <6>1. Accepted' = sender.blk + 1 /\ ymodem_next_packet_index' = sender.blk + 2
            BY <4>3, <5>1, <5>2, <5>3, <5>5 DEF TransData, NextIndex
          <6>2. ymodem_next_packet_index' = (Accepted' + 1) % IndexMod
            BY <5>1, <5>3, <6>1
          <6>3. QED
            BY <2>4, <3>3, <4>3, <5>1, <6>1, <6>2 DEF TransData, Together
        <5>6. QED
          BY <5>2, <5>4, <5>5
      <4>4. QED
        BY <2>2, <2>4, <4>1, <4>2, <4>3
    <3>4. CASE sender.phase \in {"eot1", "eot2"}
      BY <2>2, <2>4, <3>4
         DEF TransNothing, TransEot, TransBad, TransOtherIndex, TransData,
             WriteBlock, Together
    <3>5. QED
      BY <1>1, <2>4, <3>2, <3>3, <3>4, SenderFacts DEF Together
  <2>5. CASE ymodem_ota_task_state > RYM_STAGE_TRANSMITTING
    <3>1. sender.phase \in {"eot1", "eot2", "null"}
      BY <1>1, <2>5, SenderFacts DEF Together
    <3>2. CASE RymDoFin
      BY <1>1, <3>1, <3>2 DEF RymDoFin, Together
    <3>3. CASE RymTransFinPacket
      BY <1>1, <3>1, <3>3 DEF RymTransFinPacket, Together
    <3>4. CASE RymTransFin
      <4>1. sender.phase \in {"eot1", "eot2"} => ymodem_ota_msg = NoMsg
        BY <1>1, <3>4 DEF RymTransFin, Together, EndInv
      <4>2. QED
        BY <1>1, <3>1, <3>4, <4>1, PacketFacts DEF RymTransFin, Together, Packet
    <3>5. QED
      BY <2>2, <2>5, <3>2, <3>3, <3>4
  <2>6. QED
    BY <2>1, <2>3, <2>4, <2>5
<1>4. QED
  BY <1>2, <1>3 DEF Device

LEMMA SenderKeeps ==
  ASSUME BeforeInv, SenderStep, Downloading, ~Parted
  PROVE  Downloading'
<1> USE DEF BeforeInv, SessionInv, LineInv, TypeInv, TypeOK
<1>1. /\ FOTA_tTaskState = "DOWNLOADING" /\ Together /\ sender.phase # "idle"
      /\ ymodem_ota_task_state # RYM_STAGE_RESET
  BY SenderFacts DEF Downloading, Together, Parted
<1>2. UNCHANGED <<pc, pos, fotaRam, rymRam, timers, flash>>
  BY DEF SenderStep, SendPacket, Usart2RxIrqCallback, SenderStart, SenderGivesUp,
         ReadReply, ReplyLost
<1>3. Accepted' = Accepted
  BY <1>2 DEF Accepted
<1>4. CASE SendPacket
  <2>1. UNCHANGED line
    BY <1>4 DEF SendPacket, Usart2RxIrqCallback
  <2>2. QED
    BY <1>1, <1>2, <1>3, <2>1 DEF Downloading, Together
<1>5. CASE ReplyLost
  <2>1. UNCHANGED sender /\ reply # "ACK_C"
    BY <1>5 DEF ReplyLost, Parted
  <2>2. QED
    BY <1>1, <1>2, <1>3, <2>1 DEF Downloading, Together
<1>6. CASE ReadReply
  <2>1. CASE sender.phase = "begin"
    <3>1. ymodem_ota_task_state = RYM_STAGE_ESTABLISHED => reply # "ACK_C"
      BY PacketFacts, <2>1 DEF OpenInv, MailInv, Unfinished
    <3>2. CASE reply = "ACK_C"
      <4>1. /\ ymodem_ota_task_state = RYM_STAGE_TRANSMITTING /\ Accepted = 0
            /\ sender'.phase = "data" /\ sender'.blk = 0
        <5>1. ymodem_ota_task_state = RYM_STAGE_TRANSMITTING /\ Accepted = 0
          BY <1>1, <2>1, <3>1, <3>2 DEF Together
        <5>2. sender' = [sender EXCEPT !.phase = "data"]
          BY <1>6, <2>1, <3>2 DEF ReadReply, Advance
        <5>3. sender'.phase = "data" /\ sender'.blk = sender.blk
          BY <2>1, <5>2 DEF Senders, NoSession
        <5>4. QED
          BY <2>1, <5>1, <5>3 DEF PhaseInv
      <4>2. QED
        BY <1>1, <1>2, <1>3, <2>1, <4>1 DEF Downloading, Together
    <3>3. CASE reply # "ACK_C"
      <4>1. UNCHANGED sender
        BY <1>6, <2>1, <3>3 DEF ReadReply, Advance
      <4>2. QED
        BY <1>1, <1>2, <1>3, <2>1, <3>3, <4>1 DEF Downloading, Together
    <3>4. QED
      BY <3>2, <3>3
  <2>2. CASE sender.phase = "data"
    <3>1. /\ InStepNow /\ ymodem_ota_task_state = RYM_STAGE_TRANSMITTING
          /\ Accepted \in {sender.blk, sender.blk + 1}
      BY <1>1, <2>2, SenderFacts DEF Together, InStepNow, Accepted
    <3>2. reply \in {"ACK", "ACK_C"} => Accepted = sender.blk + 1
      BY <2>2, <3>1 DEF OrderInv
    <3>3. CASE sender'.phase = "data"
      <4>1. Accepted - sender'.blk \in {0, 1}
        BY <1>6, <2>2, <3>1, <3>2, <3>3, AdvanceFacts, SenderFacts
      <4>2. QED
        BY <1>1, <1>2, <1>3, <2>2, <3>1, <3>3, <4>1
           DEF Downloading, Together, InStepNow
    <3>4. CASE sender'.phase = "eot1"
      BY <1>1, <1>2, <3>1, <3>4 DEF Downloading, Together
    <3>5. QED
      BY <1>6, <2>2, <3>3, <3>4, AdvanceFacts
  <2>3. CASE sender.phase \in {"eot1", "eot2"}
    <3>1. CASE reply = "ACK_C"
      <4>1. ymodem_ota_task_state = RYM_STAGE_FINISHED
        BY <1>1, <2>3, <3>1 DEF Together, EndInv
      <4>2. sender'.phase = "null"
        BY <1>6, <2>3, <3>1 DEF ReadReply, Advance
      <4>3. QED
        BY <1>1, <1>2, <4>1, <4>2 DEF Downloading, Together
    <3>2. CASE reply # "ACK_C"
      <4>1. /\ sender'.phase \in {"eot1", "eot2"}
            /\ ymodem_ota_task_state \in
                 RYM_STAGE_TRANSMITTING .. RYM_STAGE_FINISH_PACKET
        BY <1>1, <1>6, <2>3, <3>2, AdvanceFacts DEF Together
      <4>2. QED
        BY <1>1, <1>2, <4>1 DEF Downloading, Together
    <3>3. QED
      BY <3>1, <3>2
  <2>4. CASE sender.phase = "null"
    <3>1. ymodem_ota_task_state = RYM_STAGE_FINISHED
      BY <1>1, <2>4 DEF Together
    <3>2. UNCHANGED sender
      BY <1>6, <2>4, <3>1, AdvanceFacts DEF EndInv
    <3>3. QED
      BY <1>1, <1>2, <2>4, <3>1, <3>2 DEF Downloading, Together
  <2>5. QED
    BY <1>1, <2>1, <2>2, <2>3, <2>4, SenderFacts
<1>7. QED
  BY <1>1, <1>4, <1>5, <1>6 DEF SenderStep, SenderStart, Parted

\* While the FOTA task waits in DOWNLOADING, nothing that repeats, delays or
\* corrupts packets, and no lost acknowledgement of data, parts sender and
\* device: it takes a lost answer to the first packet or to the second EOT, a
\* sender that gives up, or a loss of power.
THEOREM SessionsStayTogether == Orderly /\ Spec => PartOnlyByLoss
<1> DEFINE Keeps == Downloading /\ ~Downloading' => Parted
<1>1. BeforeInv /\ [Next]_vars => Keeps
  <2> SUFFICES ASSUME BeforeInv, [Next]_vars, Downloading, ~Parted
               PROVE  Downloading'
    OBVIOUS
  <2>1. CASE Device
    BY <2>1, DeviceKeeps DEF Parted
  <2>2. CASE SenderStep
    BY <2>2, SenderKeeps
  <2>3. CASE FotaTimerExpires \/ YmodemTimerExpires \/ UNCHANGED vars
    BY <2>3 DEF FotaTimerExpires, YmodemTimerExpires, Downloading, Together, Accepted
  <2>4. CASE AppReset
    BY <2>4 DEF AppReset, Downloading, BeforeInv, SessionInv, LoopInv
  <2>5. QED
    BY <2>1, <2>2, <2>3, <2>4 DEF Next, Parted
<1>2. QED
  BY <1>1, SessionInvariant, PTL DEF Spec, PartOnlyByLoss, Parted

-----------------------------------------------------------------------------
(* That a session which stays together gets on: what sender and device have *)
(* left to do is a number that never grows, and that every exchange         *)
(* lessens.  With a line that is fair to both it leaves nothing but the end.*)

WrittenInv == update_file_cur_size <= Blocks

LEMMA WriteBound == Orderly /\ Spec => []WrittenInv
<1>1. Init => WrittenInv
  BY SizesAssumption DEF Init, RamCleared, WrittenInv
<1>2. BeforeInv /\ WrittenInv /\ [Next]_vars => WrittenInv'
  <2> SUFFICES ASSUME BeforeInv, update_file_cur_size <= Blocks, [Next]_vars
               PROVE  update_file_cur_size' <= Blocks
    BY DEF WrittenInv
  <2> USE SizesAssumption DEF BeforeInv, TypeInv, TypeOK
  <2>1. CASE FotaStep
    BY <2>1
       DEF FotaStep, FotaInit, FotaCheckUpdate, FotaDownloading, CheckFwNoFirmware,
           CheckFwCrcWrong, CheckFwPasses, FotaUpdate, EraseApp, CopyBlock,
           CopyInfo, EraseDownload, FotaForward, FotaStartApp, FotaNoApp
  <2>2. CASE RymStep
    <3>1. CASE WriteBlock
      BY <3>1 DEF WriteBlock, SessionInv, LineInv, InsideInv, WritesInside
    <3>2. CASE RymReset
      BY <3>2 DEF RymReset, hw_cpu_reset, ClearRam
    <3>3. CASE ~WriteBlock /\ ~RymReset
      BY <2>2, <3>3
         DEF RymStep, RymNone, HandshakePoll, HandshakeWait, HandshakeBad,
             HandshakeReject, HandshakeBegin, FirstPacket, EraseForSession,
             RymDoTrans, TransNothing, TransEot, TransBad, TransOtherIndex,
             TransData, RymDoFin, RymTransFinPacket, RymTransFin, RymBeforeReset
    <3>4. QED
      BY <3>1, <3>2, <3>3
  <2>3. CASE PowerLoss \/ AppReset
    BY <2>3 DEF PowerLoss, AppReset, hw_cpu_reset, ClearRam
  <2>4. CASE SenderStep \/ FotaTimerExpires \/ YmodemTimerExpires \/ UNCHANGED vars
    BY <2>4
       DEF SenderStep, SendPacket, Usart2RxIrqCallback, SenderStart, SenderGivesUp,
           ReadReply, ReplyLost, FotaTimerExpires, YmodemTimerExpires
  <2>5. QED
    BY <2>1, <2>2, <2>3, <2>4 DEF Next, Device
<1>3. QED
  BY <1>1, <1>2, SessionInvariant, PTL DEF Spec

LeftInv ==
  SenderLeft \in Nat /\ DeviceLeft \in Nat /\ Accepted \in 0 .. Blocks

LEMMA LeftFacts == BeforeInv /\ WrittenInv => LeftInv
<1> SUFFICES ASSUME BeforeInv, update_file_cur_size <= Blocks PROVE LeftInv
  BY DEF WrittenInv
<1> USE SizesAssumption DEF BeforeInv, SessionInv, LineInv, TypeInv, TypeOK
<1>1. Accepted \in 0 .. Blocks
  BY DEF Accepted, InsideInv, WritesInside
<1>2. DeviceLeft \in Nat
  BY <1>1 DEF DeviceLeft
<1>3. SenderLeft \in Nat
  BY SenderFacts DEF SenderLeft, PhaseInv
<1>4. QED
  BY <1>1, <1>2, <1>3 DEF LeftInv

SessionBounds == BeforeInv /\ LeftInv

LEMMA DifferenceFalls ==
  \A s, t, a, b, n \in Int :
    s <= t /\ a <= b =>
      /\ (7 - t) + (n - b) <= (7 - s) + (n - a)
      /\ s < t \/ a < b => (7 - t) + (n - b) < (7 - s) + (n - a)
  OBVIOUS

\* A device that goes on by a stage or a block has less to do.
LEMMA DeviceGoesOn ==
  ASSUME TypeInv, TypeInv', LeftInv, LeftInv',
         ymodem_ota_task_state' >= ymodem_ota_task_state, Accepted' >= Accepted
  PROVE  /\ DeviceLeft' <= DeviceLeft
         /\ \/ ymodem_ota_task_state' > ymodem_ota_task_state
            \/ Accepted' > Accepted
            => DeviceLeft' < DeviceLeft
<1>1. /\ Accepted \in Int /\ Accepted' \in Int /\ Blocks \in Int
      /\ ymodem_ota_task_state \in Int /\ ymodem_ota_task_state' \in Int
  BY SizesAssumption DEF LeftInv, TypeInv, TypeOK
<1>2. /\ DeviceLeft = (7 - ymodem_ota_task_state) + (Blocks - Accepted)
      /\ DeviceLeft' = (7 - ymodem_ota_task_state') + (Blocks - Accepted')
  BY DEF DeviceLeft
<1>3. QED
  BY <1>1, <1>2, DifferenceFalls

LEMMA SumFalls ==
  \A a, b, c, d \in Nat :
    c <= a /\ d <= b =>
      c + d \in 0 .. a + b /\ (c < a \/ d < b => c + d < a + b)
  OBVIOUS

\* The answers that move a sender.
LEMMA AnswerMoves ==
  ASSUME TypeInv, UNCHANGED sender,
         \/ sender.phase = "data" /\ reply' = "ACK"
         \/ sender.phase \in {"eot1", "eot2"} /\ reply' = "ACK_C"
  PROVE  Advance' # sender'
<1> USE DEF TypeInv, TypeOK, Senders, NoSession, Advance
<1>1. CASE sender.phase = "data" /\ reply' = "ACK"
  <2>1. Advance' = AfterData
    BY <1>1 DEF AfterData
  <2>2. AfterData.blk = sender.blk + 1 \/ AfterData.phase = "eot1"
    BY <1>1 DEF AfterData
  <2>3. sender.blk + 1 # sender.blk
    BY <1>1
  <2>4. QED
    BY <1>1, <2>1, <2>2, <2>3
<1>2. CASE sender.phase \in {"eot1", "eot2"} /\ reply' = "ACK_C"
  <2>1. Advance' = [sender EXCEPT !.phase = "null"]
    BY <1>2
  <2>2. Advance'.phase = "null"
    BY <1>2, <2>1
  <2>3. QED
    BY <1>2, <2>2
<1>3. QED
  BY <1>1, <1>2

LEMMA DeviceAdvances ==
  ASSUME SessionBounds, SessionBounds', Device, Downloading, Downloading'
  PROVE  /\ UNCHANGED sender /\ DeviceLeft' <= DeviceLeft
         /\ Arrives /\ ymodem_ota_task_state # RYM_STAGE_RESET =>
              DeviceLeft' < DeviceLeft \/ Advance' # sender'
<1> USE DEF SessionBounds, LeftInv, BeforeInv, SessionInv, LineInv, TypeInv, TypeOK, RymTurn,
            RymDone, Answer
<1>1. /\ FOTA_tTaskState = "DOWNLOADING" /\ Together /\ sender.phase # "idle"
      /\ ymodem_ota_task_state \in RYM_STAGE_ESTABLISHED .. RYM_STAGE_RESET
  BY SenderFacts DEF Downloading, Together
<1>2. /\ Accepted \in 0 .. Blocks /\ Accepted' \in 0 .. Blocks
      /\ DeviceLeft \in Nat
  OBVIOUS
<1>3. CASE FotaStep
  <2>1. FotaDownloading
    BY <1>1, <1>3, OnlyWaits
  <2>2. pc = "FOTA" /\ UNCHANGED <<sender, DeviceLeft>>
    BY <2>1 DEF FotaDownloading, FotaTurn, Goto, DeviceLeft, Accepted
  <2>3. ~RymStep
    BY <2>2
       DEF RymStep, RymNone, HandshakePoll, HandshakeWait, HandshakeBad,
           HandshakeReject, HandshakeBegin, FirstPacket, EraseForSession,
           RymDoTrans, TransNothing, TransEot, TransBad, TransOtherIndex,
           TransData, WriteBlock, RymDoFin, RymTransFinPacket, RymTransFin,
           RymReset, RymBeforeReset
  <2>4. QED
    BY <1>2, <2>2, <2>3 DEF Arrives
<1>4. CASE RymStep
  <2>1. CASE ymodem_ota_task_state = RYM_STAGE_ESTABLISHED
    <3>1. RymDoTrans
      BY <1>4, <2>1, StageSteps
    <3>2. pc # "WRITE" /\ pc' # "WRITE"
      BY <3>1 DEF RymDoTrans
    <3>3. DeviceLeft' < DeviceLeft
      <4>1. /\ ymodem_ota_task_state' > ymodem_ota_task_state
            /\ Accepted' = Accepted
        BY <3>1, <3>2 DEF RymDoTrans, Accepted
      <4>2. QED
        BY <4>1, DeviceGoesOn
    <3>4. QED
      BY <1>2, <3>1, <3>3 DEF RymDoTrans
  <2>2. CASE ymodem_ota_task_state = RYM_STAGE_TRANSMITTING
    <3>1. ymodem_ota_msg = CurrentPacket => sender.phase # "begin"
      BY <1>1, <2>2, PacketFacts DEF Together, MailInv, Unfinished
    <3>2. sender.phase \in {"begin", "data", "eot1", "eot2"}
      BY <1>1, <2>2, SenderFacts DEF Together
    <3>3. CASE TransNothing \/ TransBad
      <4>1. UNCHANGED <<sender, DeviceLeft>> /\ ymodem_ota_msg # CurrentPacket
        BY <1>1, <3>2, <3>3, PacketFacts DEF TransNothing, TransBad, DeviceLeft, Accepted
      <4>2. QED
        BY <1>2, <4>1 DEF Arrives
    <3>4. CASE TransEot
      <4>1. /\ UNCHANGED sender
            /\ ymodem_ota_task_state' >= ymodem_ota_task_state
            /\ Accepted' >= Accepted
            /\ \/ ymodem_ota_task_state' > ymodem_ota_task_state
               \/ Accepted' > Accepted
        BY <3>4 DEF TransEot, Accepted
      <4>2. QED
        BY <4>1, DeviceGoesOn
    <3>5. CASE TransData
      <4>1. /\ UNCHANGED sender
            /\ ymodem_ota_task_state' >= ymodem_ota_task_state
            /\ Accepted' >= Accepted
            /\ \/ ymodem_ota_task_state' > ymodem_ota_task_state
               \/ Accepted' > Accepted
        BY <3>5 DEF TransData, Accepted
      <4>2. QED
        BY <4>1, DeviceGoesOn
    <3>6. CASE TransOtherIndex \/ WriteBlock
      <4>1. UNCHANGED <<sender, DeviceLeft>> /\ reply' = "ACK"
        BY <2>2, <3>6 DEF TransOtherIndex, WriteBlock, DeviceLeft, Accepted
      <4>2. Packet
        BY <3>6 DEF TransOtherIndex, MailInv, WriteBlock
      <4>3. ymodem_ota_msg = CurrentPacket => sender.phase = "data"
        BY <3>1, <3>2, <4>2, PacketFacts DEF Packet
      <4>4. QED
        BY <1>2, <4>1, <4>3, AnswerMoves DEF Arrives
    <3>7. QED
      BY <1>4, <2>2, <3>3, <3>4, <3>5, <3>6, StageSteps
  <2>3. CASE ymodem_ota_task_state \in RYM_STAGE_FINISHING .. RYM_STAGE_FINISHED
    <3>1. sender.phase \in {"eot1", "eot2", "null"}
      BY <1>1, <2>3, SenderFacts DEF Together
    <3>2. CASE RymDoFin
      <4>1. /\ UNCHANGED sender
            /\ ymodem_ota_task_state' >= ymodem_ota_task_state
            /\ Accepted' >= Accepted
            /\ \/ ymodem_ota_task_state' > ymodem_ota_task_state
               \/ Accepted' > Accepted
        BY <3>2 DEF RymDoFin, Accepted
      <4>2. QED
        BY <4>1, DeviceGoesOn
    <3>3. CASE RymTransFinPacket
      <4>1. sender.phase \in {"eot1", "eot2"}
        BY <1>1, <3>1, <3>3 DEF RymTransFinPacket, Together
      <4>2. UNCHANGED sender /\ DeviceLeft' <= DeviceLeft
        <5>1. /\ UNCHANGED sender /\ Accepted' = Accepted
              /\ ymodem_ota_task_state' >= ymodem_ota_task_state
          BY <3>3 DEF RymTransFinPacket, Accepted
        <5>2. QED
          BY <5>1, DeviceGoesOn
      <4>3. ymodem_ota_msg = CurrentPacket => reply' = "ACK_C"
        BY <3>3, <4>1, PacketFacts DEF RymTransFinPacket
      <4>4. QED
        BY <4>1, <4>2, <4>3, AnswerMoves DEF Arrives
    <3>4. CASE RymTransFin
      <4>1. UNCHANGED sender /\ DeviceLeft' <= DeviceLeft
        <5>1. /\ UNCHANGED sender /\ Accepted' = Accepted
              /\ ymodem_ota_task_state' >= ymodem_ota_task_state
          BY <3>4 DEF RymTransFin, Accepted
        <5>2. QED
          BY <5>1, DeviceGoesOn
      <4>2. ASSUME ymodem_ota_msg = CurrentPacket PROVE sender.phase = "null"
        BY <1>1, <3>1, <3>4, <4>2, PacketFacts DEF RymTransFin, Together, EndInv
      <4>3. ASSUME ymodem_ota_msg = CurrentPacket PROVE DeviceLeft' < DeviceLeft
        <5>1. Packet /\ SeqNo(ymodem_ota_msg) = 0
          BY <4>2, <4>3, PacketFacts, SeqFacts DEF Packet
        <5>2. /\ Accepted' = Accepted
              /\ ymodem_ota_task_state' > ymodem_ota_task_state
          BY <3>4, <5>1 DEF RymTransFin, Accepted
        <5>3. QED
          BY <5>2, DeviceGoesOn
      <4>4. QED
        BY <4>1, <4>3 DEF Arrives
    <3>5. QED
      BY <1>4, <2>3, <3>2, <3>3, <3>4, StageSteps
  <2>4. CASE ymodem_ota_task_state = RYM_STAGE_RESET
    <3>1. RymBeforeReset
      BY <1>4, <2>4, StageSteps DEF RymReset, hw_cpu_reset, ClearRam, Downloading
    <3>2. UNCHANGED <<sender, DeviceLeft>>
      BY <3>1 DEF RymBeforeReset, DeviceLeft, Accepted
    <3>3. QED
      BY <1>2, <2>4, <3>2
  <2>5. QED
    BY <1>1, <2>1, <2>2, <2>3, <2>4
<1>5. QED
  BY <1>3, <1>4 DEF Device

LEMMA SenderAdvances ==
  ASSUME SessionBounds, SessionBounds', SenderStep, Downloading, Downloading'
  PROVE  /\ DeviceLeft' = DeviceLeft /\ SenderLeft' <= SenderLeft
         /\ sender' # sender => SenderLeft' < SenderLeft
<1> USE DEF SessionBounds, LeftInv, BeforeInv, SessionInv, LineInv, TypeInv, TypeOK
<1>1. UNCHANGED <<pc, pos, fotaRam, rymRam, timers, flash>>
  BY DEF SenderStep, SendPacket, Usart2RxIrqCallback, SenderStart, SenderGivesUp,
         ReadReply, ReplyLost
<1>2. DeviceLeft' = DeviceLeft
  BY <1>1 DEF DeviceLeft, Accepted
<1>3. sender.phase # "idle" /\ sender'.phase # "idle"
  BY SenderFacts DEF Downloading, Together
<1>4. CASE UNCHANGED sender
  BY <1>2, <1>4 DEF SenderLeft
<1>5. CASE sender' # sender
  <2>1. ReadReply
    BY <1>3, <1>5
       DEF SenderStep, SendPacket, Usart2RxIrqCallback, SenderStart, SenderGivesUp,
           ReplyLost, NoSession
  <2>2. /\ sender'.file = sender.file /\ sender.file \in Files
        /\ Size[sender.file] \in Nat
    BY <1>3, <2>1, AdvanceFacts, SenderFacts
  <2>3. SenderLeft' < SenderLeft
    BY <1>3, <1>5, <2>1, <2>2, AdvanceFacts, SenderFacts DEF SenderLeft, PhaseInv
  <2>4. QED
    BY <1>2, <2>3
<1>6. QED
  BY <1>4, <1>5

\* A session that stays together only gets nearer to its end: neither side falls
\* back, every answer the sender waits for brings the sum of what is left down,
\* and every packet that arrives does so or fetches such an answer.
THEOREM SessionsGetOn == Orderly /\ Spec => SessionsAdvance
<1> DEFINE
      Onward ==
        /\ SessionLeft' \in 0 .. SessionLeft
        /\ ReadReply /\ sender' # sender => SessionLeft' < SessionLeft
        /\ Arrives /\ ymodem_ota_task_state # RYM_STAGE_RESET =>
             SessionLeft' < SessionLeft \/ Advance' # sender'
<1>1. SessionBounds /\ SessionBounds' /\ [Next]_vars =>
        (Downloading /\ Downloading' => Onward)
  <2> SUFFICES ASSUME SessionBounds, SessionBounds', [Next]_vars,
                      Downloading, Downloading'
               PROVE  Onward
    OBVIOUS
  <2>1. /\ SenderLeft \in Nat /\ DeviceLeft \in Nat
        /\ SenderLeft' \in Nat /\ DeviceLeft' \in Nat
    BY DEF LeftInv, SessionBounds
  <2>2. ASSUME SenderLeft' <= SenderLeft, DeviceLeft' <= DeviceLeft
        PROVE  /\ SessionLeft' \in 0 .. SessionLeft
               /\ SenderLeft' < SenderLeft \/ DeviceLeft' < DeviceLeft =>
                    SessionLeft' < SessionLeft
    BY <2>1, <2>2, SumFalls, Zenon DEF SessionLeft
  <2>3. CASE Device
    <3>1. SenderLeft' = SenderLeft /\ sender' = sender
      BY <2>3, DeviceAdvances DEF SenderLeft
    <3>2. QED
      BY <2>1, <2>2, <2>3, <3>1, DeviceAdvances
  <2>4. CASE SenderStep /\ ~Device
    BY <2>1, <2>2, <2>4, SenderAdvances DEF Arrives, Device
  <2>5. CASE ~SenderStep /\ ~Device
    <3>1. FotaTimerExpires \/ YmodemTimerExpires \/ UNCHANGED vars
      BY <2>5 DEF Next, PowerLoss, AppReset, hw_cpu_reset, ClearRam, Downloading
    <3>2. UNCHANGED <<sender, DeviceLeft, SenderLeft>>
      BY <3>1 DEF FotaTimerExpires, YmodemTimerExpires, DeviceLeft, Accepted, SenderLeft
    <3>3. QED
      BY <2>1, <2>2, <2>5, <3>2 DEF Arrives, Device
  <2>6. QED
    BY <2>3, <2>4, <2>5
<1>2. Orderly /\ Spec => []SessionBounds
  BY SessionInvariant, WriteBound, LeftFacts, PTL DEF SessionBounds
<1>3. QED
  BY <1>1, <1>2, PTL DEF Spec, SessionsAdvance
=============================================================================
