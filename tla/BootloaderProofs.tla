-------------------------- MODULE BootloaderProofs --------------------------
(***************************************************************************)
(* Proofs about the bootloader, for every set of files, every size of the  *)
(* flash areas, every number of power losses and every sender.             *)
(***************************************************************************)
EXTENDS Bootloader, TLAPS

USE DEF vars, flash, rymRam, fotaRam, timers, line,
        RYM_STAGE_NONE, RYM_STAGE_ESTABLISHING, RYM_STAGE_ESTABLISHED,
        RYM_STAGE_TRANSMITTING, RYM_STAGE_FINISHING, RYM_STAGE_FINISH_PACKET,
        RYM_STAGE_FINISHED, RYM_STAGE_RESET

-----------------------------------------------------------------------------
(* Types.  The copy loop is bounded by app_file_size alone, so its position *)
(* stays inside the app area only because the CRC has covered that length.  *)

CopyBound ==
  /\ FOTA_tTaskState = "FW_UPDATE" => app_file_size \in 1 .. Blocks
  /\ pc \in {"ERASE_APP", "COPY", "COPY_INFO"} => FOTA_tTaskState = "FW_UPDATE"

TypeInv == TypeOK /\ CopyBound

\* The whole image of a file is made of cells.
LEMMA ImageCells == \A f \in Files : Image(f) \in [Positions -> Cells]
  BY DEF Image, Positions, Cells

LEMMA InitType == Init => TypeInv
<1> SUFFICES ASSUME Init PROVE TypeInv
  OBVIOUS
<1>1. Blank \in [Positions -> Cells] /\ 0 \in Positions
  BY SizesAssumption DEF Blank, Positions, Cells
<1>2. app \in [Positions -> Cells]
  BY <1>1, ImageCells, FilesAssumption DEF Init
<1>3. NoMsg \in Messages
  BY DEF NoMsg, Message, Messages
<1>4. QED
  BY <1>1, <1>2, <1>3, SizesAssumption
     DEF Init, RamCleared, TypeInv, TypeOK, CopyBound, FotaStates, Senders,
         NoSession, Replies, Cells

LEMMA FotaType == TypeInv /\ FotaStep => TypeInv'
<1> SUFFICES ASSUME TypeInv, FotaStep PROVE TypeInv'
  OBVIOUS
<1> USE SizesAssumption, FilesAssumption
<1> USE DEF TypeInv, TypeOK, CopyBound, FotaTurn, Goto, FotaStates, Positions
<1>1. CASE FotaInit \/ FotaCheckUpdate \/ FotaDownloading \/ CheckFwNoFirmware
  <2>1. CASE FotaInit
    BY <2>1 DEF FotaInit
  <2>2. CASE FotaCheckUpdate
    BY <2>2 DEF FotaCheckUpdate, ymodem_is_ota_data_received
  <2>3. CASE FotaDownloading \/ CheckFwNoFirmware
    BY <2>3 DEF FotaDownloading, CheckFwNoFirmware
  <2>4. QED
    BY <1>1, <2>1, <2>2, <2>3
<1>2. ASSUME NEW f \in Files, CheckFwCrcWrong(f) PROVE TypeInv'
  BY <1>2 DEF CheckFwCrcWrong
<1>3. ASSUME NEW f \in Files, CheckFwPasses(f) PROVE TypeInv'
  <2>1. Size[f] \in 1 .. Blocks
    BY <1>3 DEF CheckFwPasses, RblPasses, CrcMatches
  <2>2. CheckFwTarget(f) \in {"FW_FORWARD", "FW_UPDATE", "START_APP"}
    BY DEF CheckFwTarget
  <2>3. QED
    BY <1>3, <2>1, <2>2 DEF CheckFwPasses
<1>4. CASE FotaUpdate
  BY <1>4 DEF FotaUpdate
<1>5. CASE EraseApp
  <2>1. Erased \in Cells
    BY DEF Cells
  <2>2. QED
    BY <1>5, <2>1 DEF EraseApp
<1>6. CASE CopyBlock
  BY <1>6 DEF CopyBlock
<1>7. CASE CopyInfo
  BY <1>7 DEF CopyInfo
<1>8. CASE EraseDownload
  <2>1. Erased \in Cells
    BY DEF Cells
  <2>2. QED
    BY <1>8, <2>1 DEF EraseDownload
<1>9. CASE FotaForward \/ FotaStartApp \/ FotaNoApp
  BY <1>9 DEF FotaForward, FotaStartApp, FotaNoApp
<1>10. QED
  BY <1>1, <1>2, <1>3, <1>4, <1>5, <1>6, <1>7, <1>8, <1>9 DEF FotaStep

\* What ClearRam leaves is typed.
LEMMA ClearedType ==
  ASSUME TypeInv, ClearRam, UNCHANGED line, resets' \in 0 .. MaxResets,
         download' \in [Positions -> Cells], app' \in [Positions -> Cells],
         app_info' \in Cells
  PROVE  TypeInv'
<1>1. NoMsg \in Messages
  BY DEF NoMsg, Message, Messages
<1>2. QED
  BY <1>1, SizesAssumption
     DEF ClearRam, TypeInv, TypeOK, CopyBound, FotaStates, Positions

LEMMA RymType == TypeInv /\ RymStep => TypeInv'
<1> SUFFICES ASSUME TypeInv, RymStep PROVE TypeInv'
  OBVIOUS
<1> USE SizesAssumption
<1> USE DEF TypeInv, TypeOK, CopyBound, RymTurn, RymDone, Answer, Replies
<1>a. NoMsg \in Messages
  BY DEF NoMsg, Message, Messages
<1>b. NextIndex \in 0 .. IndexMod - 1
  BY DEF NextIndex
<1>c. Erased \in Cells /\ Junk \in Cells
  BY DEF Cells
<1>1. CASE RymNone \/ HandshakePoll \/ HandshakeWait \/ HandshakeBad
  BY <1>1, <1>a
     DEF RymNone, HandshakePoll, HandshakeWait, HandshakeBad
<1>2. CASE HandshakeReject
  BY <1>2, <1>b DEF HandshakeReject, FirstPacket
<1>3. CASE HandshakeBegin
  BY <1>3, <1>b DEF HandshakeBegin, FirstPacket, Positions
<1>4. CASE EraseForSession
  BY <1>4, <1>c DEF EraseForSession, Positions
<1>5. CASE RymDoTrans \/ TransNothing \/ TransEot \/ TransBad \/ TransOtherIndex
  BY <1>5, <1>a
     DEF RymDoTrans, TransNothing, TransEot, TransBad, TransOtherIndex
<1>6. CASE TransData
  BY <1>6, <1>b DEF TransData
<1>7. CASE WriteBlock
  <2>1. \A m \in Messages : Payload(m) \in Cells
    BY <1>c DEF Payload, Messages, Cells
  <2>2. \A cell \in Written : cell \in Cells
    BY <2>1, <1>c DEF Written
  <2>3. download' \in [Positions -> Cells]
    BY <1>7, <2>2 DEF WriteBlock
  <2>4. QED
    BY <1>7, <1>a, <2>3 DEF WriteBlock
<1>8. CASE RymDoFin \/ RymTransFinPacket \/ RymTransFin \/ RymBeforeReset
  BY <1>8, <1>a DEF RymDoFin, RymTransFinPacket, RymTransFin, RymBeforeReset
<1>9. CASE RymReset
  BY <1>9, ClearedType DEF RymReset, hw_cpu_reset
<1>10. QED
  BY <1>1, <1>2, <1>3, <1>4, <1>5, <1>6, <1>7, <1>8, <1>9 DEF RymStep

LEMMA SenderType == TypeInv /\ SenderStep => TypeInv'
<1> SUFFICES ASSUME TypeInv, SenderStep PROVE TypeInv'
  OBVIOUS
<1> USE FilesAssumption
<1> USE DEF TypeInv, TypeOK, CopyBound, Replies
<1>1. CASE SendPacket
  <2>1. CurrentPacket \in Messages
    BY <1>1 DEF SendPacket, CurrentPacket, Message, Messages, Senders, NoSession
  <2>2. Message("bad", NoFile, 0) \in Messages
    BY DEF Message, Messages
  <2>3. ymodem_ota_msg' \in {CurrentPacket, Message("bad", NoFile, 0)}
    BY <1>1 DEF SendPacket, Usart2RxIrqCallback
  <2>4. UNCHANGED <<pc, pos, fotaRam, rymRam, timers, flash, line, resets>>
    BY <1>1 DEF SendPacket, Usart2RxIrqCallback
  <2>5. ymodem_ota_msg' \in Messages
    BY <2>1, <2>2, <2>3
  <2>6. QED
    BY <2>4, <2>5
<1>2. CASE SenderGivesUp \/ ReplyLost
  BY <1>2 DEF SenderGivesUp, ReplyLost, Senders
<1>3. ASSUME NEW f \in Files, SenderStart(f) PROVE TypeInv'
  BY <1>3 DEF SenderStart, Senders
<1>4. CASE ReadReply
  <2>1. Advance \in Senders
    <3>1. CASE sender = NoSession
      BY <3>1 DEF Advance, Senders, NoSession
    <3>2. CASE sender # NoSession
      <4>1. /\ sender.phase \in {"begin", "data", "eot1", "eot2", "null"}
            /\ sender.file \in Files
            /\ sender.blk \in Nat
            /\ sender = [phase |-> sender.phase, file |-> sender.file,
                         blk |-> sender.blk]
        BY <3>2 DEF Senders
      <4>2. AfterData \in Senders
        <5>1. Size[sender.file] \in Nat /\ sender.blk + 1 \in Nat
          BY <4>1
        <5>2. QED
          BY <4>1, <5>1 DEF AfterData, Senders
      <4>3. QED
        BY <4>1, <4>2 DEF Advance, Senders
    <3>3. QED
      BY <3>1, <3>2
  <2>2. QED
    BY <1>4, <2>1 DEF ReadReply
<1>5. QED
  BY <1>1, <1>2, <1>3, <1>4 DEF SenderStep

LEMMA NextType == TypeInv /\ [Next]_vars => TypeInv'
<1> SUFFICES ASSUME TypeInv, [Next]_vars PROVE TypeInv'
  OBVIOUS
<1>1. CASE Device
  BY <1>1, FotaType, RymType DEF Device
<1>2. CASE FotaTimerExpires \/ YmodemTimerExpires
  BY <1>2 DEF FotaTimerExpires, YmodemTimerExpires, TypeInv, TypeOK, CopyBound
<1>3. CASE PowerLoss
  <2>1. resets' \in 0 .. MaxResets
    BY <1>3, SizesAssumption DEF PowerLoss, TypeInv, TypeOK
  <2>2. ASSUME NEW area \in [Positions -> Cells], NEW p, NEW torn \in Torn(area, p)
        PROVE  torn \in [Positions -> Cells]
    BY DEF Torn, Cells
  <2>3. download' \in [Positions -> Cells] /\ app' \in [Positions -> Cells]
    BY <1>3, <2>2 DEF PowerLoss, TypeInv, TypeOK
  <2>4. app_info' \in Cells
    BY <1>3 DEF PowerLoss, TypeInv, TypeOK, Cells
  <2>5. QED
    BY <1>3, <2>1, <2>3, <2>4, ClearedType DEF PowerLoss
<1>4. CASE AppReset
  BY <1>4, ClearedType DEF AppReset, hw_cpu_reset, TypeInv, TypeOK
<1>5. CASE SenderStep
  BY <1>5, SenderType
<1>6. CASE UNCHANGED vars
  BY <1>6 DEF TypeInv, TypeOK, CopyBound
<1>7. QED
  BY <1>1, <1>2, <1>3, <1>4, <1>5, <1>6 DEF Next

\* Every variable keeps its type; in particular no running erase or copy ever
\* leaves the area it works on.
THEOREM TypeCorrect == Spec => []TypeOK
<1>1. TypeInv => TypeOK
  BY DEF TypeInv
<1>2. QED
  BY <1>1, InitType, NextType, PTL DEF Spec

-----------------------------------------------------------------------------
(* Every write lands on erased flash.  The reason is that the part of the  *)
(* download area from update_file_cur_size on is erased as long as a       *)
(* session lives, and the part of the app area still to copy as long as    *)
(* the copy lasts.                                                         *)

ErasedFrom(area, n) == \A k \in Positions : k >= n => area[k] = Erased
ErasedBelow(area, n) == \A k \in Positions : k < n => area[k] = Erased

WriteInv ==
  /\ pc = "WRITE" => ymodem_ota_task_state = RYM_STAGE_TRANSMITTING
  /\ pc = "ERASE_BEGIN" =>
       /\ ymodem_ota_task_state = RYM_STAGE_ESTABLISHING
       /\ update_file_cur_size = 0
       /\ ErasedBelow(download, pos)
  /\ ymodem_ota_task_state = RYM_STAGE_ESTABLISHED => update_file_cur_size = 0
  /\ ymodem_ota_task_state >= RYM_STAGE_ESTABLISHED =>
       ErasedFrom(download, update_file_cur_size)
  /\ pc = "ERASE_APP" => ErasedBelow(app, pos)
  /\ pc = "COPY" => ErasedFrom(app, pos)

LEMMA FotaWrites == TypeInv /\ WriteInv /\ FotaStep => WriteInv'
<1> SUFFICES ASSUME TypeInv, WriteInv, FotaStep PROVE WriteInv'
  OBVIOUS
<1> USE SizesAssumption
<1> USE DEF TypeInv, TypeOK, WriteInv, FotaTurn, Goto, ErasedFrom, ErasedBelow,
            Positions
<1>1. CASE FotaInit
  BY <1>1 DEF FotaInit
<1>2. CASE FotaCheckUpdate \/ FotaDownloading \/ CheckFwNoFirmware
  BY <1>2 DEF FotaCheckUpdate, FotaDownloading, CheckFwNoFirmware
<1>3. ASSUME NEW f \in Files, CheckFwCrcWrong(f) PROVE WriteInv'
  BY <1>3 DEF CheckFwCrcWrong
<1>4. ASSUME NEW f \in Files, CheckFwPasses(f) PROVE WriteInv'
  BY <1>4 DEF CheckFwPasses
<1>5. CASE FotaUpdate
  BY <1>5 DEF FotaUpdate
<1>6. CASE EraseApp
  BY <1>6 DEF EraseApp
<1>7. CASE CopyBlock
  BY <1>7 DEF CopyBlock
<1>8. CASE CopyInfo
  BY <1>8 DEF CopyInfo
<1>9. CASE EraseDownload
  BY <1>9 DEF EraseDownload
<1>10. CASE FotaForward \/ FotaStartApp \/ FotaNoApp
  BY <1>10 DEF FotaForward, FotaStartApp, FotaNoApp
<1>11. QED
  BY <1>1, <1>2, <1>3, <1>4, <1>5, <1>6, <1>7, <1>8, <1>9, <1>10 DEF FotaStep

LEMMA RymWrites == TypeInv /\ WriteInv /\ RymStep => WriteInv'
<1> SUFFICES ASSUME TypeInv, WriteInv, RymStep PROVE WriteInv'
  OBVIOUS
<1> USE SizesAssumption
<1> USE DEF TypeInv, TypeOK, WriteInv, RymTurn, RymDone, Answer, ErasedFrom,
            ErasedBelow, Positions
<1>1. CASE RymNone \/ HandshakePoll \/ HandshakeWait \/ HandshakeBad
  BY <1>1 DEF RymNone, HandshakePoll, HandshakeWait, HandshakeBad
<1>2. CASE HandshakeReject
  BY <1>2 DEF HandshakeReject, FirstPacket
<1>3. CASE HandshakeBegin
  BY <1>3 DEF HandshakeBegin, FirstPacket
<1>4. CASE EraseForSession
  BY <1>4 DEF EraseForSession
<1>5. CASE RymDoTrans \/ TransNothing \/ TransEot \/ TransBad \/ TransOtherIndex
  BY <1>5 DEF RymDoTrans, TransNothing, TransEot, TransBad, TransOtherIndex
<1>6. CASE TransData
  BY <1>6 DEF TransData
<1>7. CASE WriteBlock
  <2>1. PICK cell \in Written :
          download' = [download EXCEPT ![update_file_cur_size] = cell]
    BY <1>7 DEF WriteBlock
  <2>2. ErasedFrom(download', update_file_cur_size')
    BY <1>7, <2>1 DEF WriteBlock
  <2>3. QED
    BY <1>7, <2>2 DEF WriteBlock
<1>8. CASE RymDoFin \/ RymTransFinPacket \/ RymTransFin \/ RymBeforeReset
  BY <1>8 DEF RymDoFin, RymTransFinPacket, RymTransFin, RymBeforeReset
<1>9. CASE RymReset
  BY <1>9 DEF RymReset, hw_cpu_reset, ClearRam
<1>10. QED
  BY <1>1, <1>2, <1>3, <1>4, <1>5, <1>6, <1>7, <1>8, <1>9 DEF RymStep

\* Steps of the surroundings leave the loop where it is, or reset it.
LEMMA OtherWrites ==
  ASSUME TypeInv, WriteInv,
         \/ FotaTimerExpires \/ YmodemTimerExpires \/ PowerLoss \/ AppReset
         \/ SenderStep \/ UNCHANGED vars
  PROVE  WriteInv'
<1> USE SizesAssumption DEF WriteInv, ErasedFrom, ErasedBelow, Positions
<1>1. CASE FotaTimerExpires \/ YmodemTimerExpires \/ UNCHANGED vars
  BY <1>1 DEF FotaTimerExpires, YmodemTimerExpires
<1>2. CASE PowerLoss \/ AppReset
  BY <1>2 DEF PowerLoss, AppReset, hw_cpu_reset, ClearRam
<1>3. CASE SenderStep
  <2>1. UNCHANGED <<pc, pos, rymRam, flash>>
    BY <1>3 DEF SenderStep, SendPacket, Usart2RxIrqCallback, SenderStart,
                SenderGivesUp, ReadReply, ReplyLost
  <2>2. QED
    BY <2>1
<1>4. QED
  BY <1>1, <1>2, <1>3

LEMMA WriteInvariant == Spec => [](TypeInv /\ WriteInv)
<1>1. Init => TypeInv /\ WriteInv
  BY InitType DEF Init, RamCleared, WriteInv
<1>2. TypeInv /\ WriteInv /\ [Next]_vars => (TypeInv /\ WriteInv)'
  BY NextType, FotaWrites, RymWrites, OtherWrites DEF Next, Device
<1>3. QED
  BY <1>1, <1>2, PTL DEF Spec

\* Flash is programmed only where it is erased, whatever the sender sends,
\* wherever sessions are cut off and whenever the power fails.
THEOREM WritesErasedFlash == Spec => []WritesHitErased
<1>1. TypeInv /\ WriteInv => WritesHitErased
  BY SizesAssumption
     DEF TypeInv, TypeOK, WriteInv, WritesHitErased, ErasedFrom, Positions
<1>2. QED
  BY <1>1, WriteInvariant, PTL

-----------------------------------------------------------------------------
(* Crash safety.  Under the assumption Quiet, at every moment one of the   *)
(* two areas holds a whole firmware, and the application that is started   *)
(* is whole.  The assertions are not inductive by themselves: a step of    *)
(* the copy relies on the download area having passed the check and on no  *)
(* session being open meanwhile, which in turn rests on the position of    *)
(* the FOTA task when a session opens.                                     *)

AppWhole == AppComplete \/ NeverInstalled

\* The file being installed is in the app area up to the current position.
CopyInv ==
  /\ FOTA_tTaskState = "FW_UPDATE" =>
       \E f \in Files : Installable(download, f) /\ Size[f] = app_file_size
  /\ pc = "COPY" => pos < app_file_size
  /\ \A f \in Files : Installable(download, f) =>
       /\ pc = "COPY" => \A k \in Positions : k < pos => app[k] = <<f, k>>
       /\ pc \in {"COPY_INFO", "ERASE_DOWNLOAD"} => app = Image(f)

\* Sessions and installations keep out of each other's way.
ApartInv ==
  /\ FOTA_tTaskState = "CHECK_FW" =>
       IF pc = "FOTA" THEN ymodem_ota_task_state <= RYM_STAGE_ESTABLISHED
       ELSE ymodem_ota_task_state <= RYM_STAGE_ESTABLISHING
  /\ FOTA_tTaskState = "FW_UPDATE" =>
       /\ ymodem_ota_task_state <= RYM_STAGE_ESTABLISHING
       /\ pc # "ERASE_BEGIN"
  /\ pc = "ERASE_BEGIN" => ~Pending
  /\ Pending /\ IsFirstPacket(ymodem_ota_msg) => SessionUnderWay

SafeInv ==
  /\ AppWhole \/ Pending
  /\ FOTA_tTaskState = "START_APP" => AppWhole
  /\ ymodem_ota_task_state >= RYM_STAGE_ESTABLISHED => AppWhole
  /\ pc = "ERASE_BEGIN" => AppWhole
  /\ pc = "ERASE_DOWNLOAD" => FOTA_tTaskState = "START_APP"
  /\ pc = "APP" => AppComplete

BootInv == TypeInv /\ WriteInv /\ CopyInv /\ ApartInv /\ SafeInv

\* A file that may be installed has a name, and only one.
LEMMA OneInstallable ==
  ASSUME NEW area, NEW f \in Files, NEW g \in Files,
         HeadOf(area, f), HeadOf(area, g)
  PROVE  f = g
  BY DEF HeadOf

\* Erasing or tearing a block never completes a file.
LEMMA EraseInstallable ==
  ASSUME NEW area \in [Positions -> Cells], NEW p, NEW cell \in {Erased, Junk},
         NEW f \in Files, Installable([area EXCEPT ![p] = cell], f)
  PROVE  Installable(area, f)
<1> DEFINE spoiled == [area EXCEPT ![p] = cell]
<1>1. \A k \in 0 .. Size[f] - 1 : spoiled[k] = <<f, k>> /\ k \in Positions
  BY FilesAssumption, SizesAssumption
     DEF Installable, CrcMatches, Positions
<1>2. \A k \in 0 .. Size[f] - 1 : k # p
  BY <1>1, CellsAssumption
<1>3. \A k \in 0 .. Size[f] - 1 : area[k] = <<f, k>>
  BY <1>1, <1>2
<1>4. 0 \in 0 .. Size[f] - 1
  BY FilesAssumption
<1>5. HeadOf(area, f)
  BY <1>3, <1>4 DEF HeadOf
<1>6. QED
  BY <1>3, <1>5 DEF Installable, CrcMatches

\* Writing an erased block never spoils a file that is there.
LEMMA WriteInstallable ==
  ASSUME NEW area \in [Positions -> Cells], NEW p \in Nat, NEW cell,
         p \in Positions => area[p] = Erased,
         NEW f \in Files, Installable(area, f)
  PROVE  Installable([area EXCEPT ![p] = cell], f)
<1> DEFINE written == [area EXCEPT ![p] = cell]
<1>1. \A k \in 0 .. Size[f] - 1 : area[k] = <<f, k>> /\ k \in Positions
  BY FilesAssumption, SizesAssumption
     DEF Installable, CrcMatches, Positions
<1>2. \A k \in 0 .. Size[f] - 1 : k # p
  BY <1>1, CellsAssumption
<1>3. \A k \in 0 .. Size[f] - 1 : written[k] = <<f, k>>
  BY <1>1, <1>2
<1>4. 0 \in 0 .. Size[f] - 1
  BY FilesAssumption
<1>5. HeadOf(written, f)
  BY <1>3, <1>4 DEF HeadOf
<1>6. QED
  BY <1>3, <1>5 DEF Installable, CrcMatches

\* An erased download area holds nothing to install.
LEMMA ErasedNotPending ==
  ASSUME ErasedFrom(download, 0) PROVE ~Pending
  BY SizesAssumption, CellsAssumption
     DEF ErasedFrom, Positions, Pending, Installable, HeadOf

LEMMA FotaSafe == Quiet /\ BootInv /\ FotaStep => (CopyInv /\ ApartInv /\ SafeInv)'
<1> SUFFICES ASSUME BootInv, FotaStep PROVE (CopyInv /\ ApartInv /\ SafeInv)'
  OBVIOUS
<1> USE SizesAssumption
<1> USE DEF BootInv, CopyInv, ApartInv, SafeInv, FotaTurn, Goto, Pending,
            AppWhole, AppComplete, AppIs, NeverInstalled, SessionUnderWay,
            ymodem_is_ota_data_received
<1>t. /\ ymodem_ota_task_state \in 0 .. 7
      /\ pos \in Positions
      /\ FOTA_tTaskState \in FotaStates
      /\ app_file_size \in Nat
      /\ download \in [Positions -> Cells]
      /\ app \in [Positions -> Cells]
  BY DEF TypeInv, TypeOK
<1>c. /\ FOTA_tTaskState = "FW_UPDATE" => app_file_size \in 1 .. Blocks
      /\ pc \in {"ERASE_APP", "COPY", "COPY_INFO"} => FOTA_tTaskState = "FW_UPDATE"
  BY DEF TypeInv, CopyBound
<1>1. CASE FotaInit
  BY <1>1, <1>t, <1>c DEF FotaInit
<1>2. CASE FotaCheckUpdate
  BY <1>2, <1>t, <1>c DEF FotaCheckUpdate
<1>3. CASE FotaDownloading
  BY <1>3, <1>t, <1>c DEF FotaDownloading
<1>4. CASE CheckFwNoFirmware
  <2>1. ~Pending
    BY <1>4 DEF CheckFwNoFirmware, Magic, Installable
  <2>2. QED
    BY <1>4, <1>t, <1>c, <2>1 DEF CheckFwNoFirmware
<1>5. ASSUME NEW f \in Files, CheckFwCrcWrong(f)
      PROVE (CopyInv /\ ApartInv /\ SafeInv)'
  <2>1. ~Pending
    BY <1>5, OneInstallable DEF CheckFwCrcWrong, Magic, Installable
  <2>2. QED
    BY <1>5, <1>t, <1>c, <2>1 DEF CheckFwCrcWrong
<1>6. ASSUME NEW f \in Files, CheckFwPasses(f)
      PROVE (CopyInv /\ ApartInv /\ SafeInv)'
  <2>1. CASE CheckFwTarget(f) = "FW_UPDATE"
    <3>1. Installable(download, f)
      BY <1>6, <2>1 DEF CheckFwPasses, CheckFwTarget, Magic, RblPasses, Installable
    <3>2. ymodem_ota_task_state # RYM_STAGE_ESTABLISHED
      BY <3>1, ErasedNotPending DEF WriteInv
    <3>3. ymodem_ota_task_state <= RYM_STAGE_ESTABLISHING
      BY <1>6, <1>t, <3>2 DEF CheckFwPasses
    <3>4. QED
      BY <1>6, <1>t, <1>c, <2>1, <3>1, <3>3 DEF CheckFwPasses
  <2>2. CASE CheckFwTarget(f) # "FW_UPDATE"
    <3>1. ~Pending
      BY <1>6, <2>2, OneInstallable
         DEF CheckFwPasses, CheckFwTarget, Magic, RblPasses, Installable
    <3>2. CheckFwTarget(f) \in {"FW_FORWARD", "START_APP"}
      BY <2>2 DEF CheckFwTarget
    <3>3. QED
      BY <1>6, <1>t, <1>c, <3>1, <3>2 DEF CheckFwPasses
  <2>3. QED
    BY <2>1, <2>2
<1>7. CASE FotaUpdate
  BY <1>7, <1>t, <1>c DEF FotaUpdate
<1>8. CASE EraseApp
  BY <1>8, <1>t, <1>c DEF EraseApp, Positions
<1>9. CASE CopyBlock
  <2>1. PICK f \in Files : Installable(download, f) /\ Size[f] = app_file_size
    BY <1>9, <1>c DEF CopyBlock
  <2>2. download[pos] = <<f, pos>>
    BY <1>9, <1>t, <2>1 DEF CopyBlock, Installable, CrcMatches, Positions
  <2>3. \A k \in Positions : k < pos + 1 => app'[k] = <<f, k>>
    BY <1>9, <1>t, <2>1, <2>2 DEF CopyBlock, Positions
  <2>4. \A k \in Positions : k > pos => app'[k] = Erased
    BY <1>9, <1>t DEF CopyBlock, WriteInv, ErasedFrom, Positions
  <2>5. ASSUME pos + 1 >= app_file_size PROVE app' = Image(f)
    <3>1. app' \in [Positions -> Cells] /\ Image(f) \in [Positions -> Cells]
      BY FotaType, ImageCells DEF TypeInv, TypeOK
    <3>2. pos + 1 = Size[f]
      BY <1>9, <1>t, <2>1, <2>5 DEF CopyBlock, Positions
    <3>3. \A k \in Positions : app'[k] = Image(f)[k]
      BY <1>t, <2>3, <2>4, <3>2 DEF Image, Positions
    <3>4. QED
      BY <3>1, <3>3
  <2>6. \A g \in Files : Installable(download, g) => g = f
    BY <2>1, OneInstallable DEF Installable
  <2>7. CopyInv'
    BY <1>9, <1>t, <1>c, <2>1, <2>3, <2>5, <2>6 DEF CopyBlock, Positions
  <2>8. (ApartInv /\ SafeInv)'
    BY <1>9, <1>t, <1>c, <2>1 DEF CopyBlock
  <2>9. QED
    BY <2>7, <2>8
<1>10. CASE CopyInfo
  <2>1. PICK f \in Files : Installable(download, f) /\ Size[f] = app_file_size
    BY <1>10, <1>c DEF CopyInfo
  <2>2. AppIs(f)
    BY <1>10, <2>1 DEF CopyInfo, Installable, CrcMatches, ForThisBoard
  <2>3. QED
    BY <1>10, <1>t, <1>c, <2>1, <2>2 DEF CopyInfo
<1>11. CASE EraseDownload
  <2>1. \A f \in Files : Installable(download', f) => Installable(download, f)
    BY <1>11, <1>t, EraseInstallable DEF EraseDownload
  <2>2. QED
    BY <1>11, <1>t, <1>c, <2>1 DEF EraseDownload
<1>12. CASE FotaForward
  BY <1>12, <1>t, <1>c DEF FotaForward
<1>13. CASE FotaStartApp
  <2>1. app # Blank
    <3>1. PICK f \in Files : app[0] = <<f, 0>>
      BY <1>13 DEF FotaStartApp, StackWordOk, HeadOf
    <3>2. Blank[0] = Erased
      BY DEF Blank, Positions
    <3>3. <<f, 0>> \in Files \X Nat
      OBVIOUS
    <3>4. QED
      BY <3>1, <3>2, <3>3, CellsAssumption
  <2>2. QED
    BY <1>13, <1>t, <1>c, <2>1 DEF FotaStartApp
<1>14. CASE FotaNoApp
  BY <1>14, <1>t, <1>c DEF FotaNoApp
<1>15. QED
  BY <1>1, <1>2, <1>3, <1>4, <1>5, <1>6, <1>7, <1>8, <1>9, <1>10, <1>11, <1>12,
     <1>13, <1>14 DEF FotaStep

LEMMA RymSafe == Quiet /\ BootInv /\ RymStep => (CopyInv /\ ApartInv /\ SafeInv)'
<1> SUFFICES ASSUME BootInv, RymStep PROVE (CopyInv /\ ApartInv /\ SafeInv)'
  OBVIOUS
<1> USE SizesAssumption
<1> USE DEF BootInv, CopyInv, ApartInv, SafeInv, RymTurn, RymDone, Answer,
            Pending, AppWhole, AppComplete, AppIs, NeverInstalled,
            SessionUnderWay, ymodem_is_ota_data_received
<1>t. /\ ymodem_ota_task_state \in 0 .. 7
      /\ pos \in Positions
      /\ FOTA_tTaskState \in FotaStates
      /\ app_file_size \in Nat
      /\ update_file_cur_size \in Nat
      /\ download \in [Positions -> Cells]
      /\ app \in [Positions -> Cells]
  BY DEF TypeInv, TypeOK
<1>c. pc \in {"ERASE_APP", "COPY", "COPY_INFO"} => FOTA_tTaskState = "FW_UPDATE"
  BY DEF TypeInv, CopyBound
<1>m. ~IsFirstPacket(NoMsg)
  BY DEF IsFirstPacket, NoMsg, Message
<1>1. CASE RymNone
  BY <1>1, <1>t, <1>c DEF RymNone
<1>2. CASE HandshakePoll
  BY <1>2, <1>t, <1>c, <1>m DEF HandshakePoll
<1>3. CASE HandshakeWait \/ HandshakeBad
  BY <1>3, <1>t, <1>c DEF HandshakeWait, HandshakeBad
<1>4. CASE HandshakeReject
  BY <1>4, <1>t, <1>c DEF HandshakeReject, FirstPacket
<1>5. CASE HandshakeBegin
  <2>1. ~Pending
    BY <1>5, <1>t DEF HandshakeBegin, FirstPacket, IsFirstPacket
  <2>2. QED
    BY <1>5, <1>t, <1>c, <2>1 DEF HandshakeBegin, FirstPacket
<1>6. CASE EraseForSession
  <2>1. \A f \in Files : Installable(download', f) => Installable(download, f)
    BY <1>6, <1>t, EraseInstallable DEF EraseForSession
  <2>2. UNCHANGED <<FOTA_tTaskState, app_file_size, app, ymodem_ota_msg>>
    BY <1>6 DEF EraseForSession
  <2>3. CopyInv'
    BY <1>6, <1>t, <1>c, <2>1, <2>2 DEF EraseForSession
  <2>4. ApartInv'
    <3>1. CASE pos + 1 < Blocks
      <4>1. UNCHANGED <<pc, ymodem_ota_task_state>>
        BY <1>6, <3>1 DEF EraseForSession
      <4>2. (Pending /\ IsFirstPacket(ymodem_ota_msg) => SessionUnderWay)'
        BY <2>1, <2>2, <4>1
      <4>3. pc = "ERASE_BEGIN" /\ ~Pending'
        BY <1>6, <2>1 DEF EraseForSession
      <4>4. QED
        BY <1>t, <2>2, <4>1, <4>2, <4>3
    <3>2. CASE ~(pos + 1 < Blocks)
      <4>1. pc = "ERASE_BEGIN" /\ pc' = "FOTA" /\ ymodem_ota_task_state' = 2
        BY <1>6, <3>2 DEF EraseForSession
      <4>2. (Pending /\ IsFirstPacket(ymodem_ota_msg) => SessionUnderWay)'
        BY <2>1, <2>2, <4>1
      <4>3. QED
        BY <1>t, <2>2, <4>1, <4>2
    <3>3. QED
      BY <3>1, <3>2
  <2>5. SafeInv'
    BY <1>6, <1>t, <1>c, <2>2 DEF EraseForSession
  <2>6. QED
    BY <2>3, <2>4, <2>5
<1>7. CASE RymDoTrans
  BY <1>7, <1>t, <1>c, <1>m DEF RymDoTrans
<1>8. CASE TransNothing \/ TransEot
  BY <1>8, <1>t, <1>c DEF TransNothing, TransEot
<1>9. CASE TransBad \/ TransOtherIndex
  BY <1>9, <1>t, <1>c, <1>m DEF TransBad, TransOtherIndex
<1>10. CASE TransData
  BY <1>10, <1>t, <1>c DEF TransData
<1>11. CASE WriteBlock
  <2>1. ymodem_ota_task_state = RYM_STAGE_TRANSMITTING
    BY <1>11 DEF WriteBlock, WriteInv
  <2>2. QED
    BY <1>11, <1>t, <1>c, <1>m, <2>1 DEF WriteBlock
<1>12. CASE RymDoFin
  BY <1>12, <1>t, <1>c, <1>m DEF RymDoFin
<1>13. CASE RymTransFinPacket
  BY <1>13, <1>t, <1>c, <1>m DEF RymTransFinPacket
<1>14. CASE RymTransFin
  BY <1>14, <1>t, <1>c DEF RymTransFin
<1>15. CASE RymBeforeReset
  BY <1>15, <1>t, <1>c DEF RymBeforeReset
<1>16. CASE RymReset
  BY <1>16, <1>m DEF RymReset, hw_cpu_reset, ClearRam
<1>17. QED
  BY <1>1, <1>2, <1>3, <1>4, <1>5, <1>6, <1>7, <1>8, <1>9, <1>10, <1>11, <1>12,
     <1>13, <1>14, <1>15, <1>16 DEF RymStep

\* Nothing around the main loop writes flash or moves the loop, other than
\* by a reset; and no first packet arrives while an update is pending.
LEMMA OtherSafe ==
  ASSUME Quiet, BootInv,
         \/ FotaTimerExpires \/ YmodemTimerExpires \/ PowerLoss \/ AppReset
         \/ SenderStep \/ UNCHANGED vars
  PROVE  (CopyInv /\ ApartInv /\ SafeInv)'
<1> USE DEF BootInv, CopyInv, ApartInv, SafeInv, Pending, AppWhole, AppComplete,
            AppIs, NeverInstalled, SessionUnderWay, ymodem_is_ota_data_received
<1>1. CASE FotaTimerExpires \/ YmodemTimerExpires \/ UNCHANGED vars
  BY <1>1 DEF FotaTimerExpires, YmodemTimerExpires
<1>m. ~IsFirstPacket(NoMsg)
  BY DEF IsFirstPacket, NoMsg, Message
<1>2. CASE PowerLoss
  <2>1. CASE pc \in {"ERASE_APP", "COPY"}
    <3>1. Pending /\ UNCHANGED download
      BY <1>2, <2>1 DEF PowerLoss, TypeInv, CopyBound
    <3>2. QED
      BY <1>2, <1>m, <3>1 DEF PowerLoss, ClearRam
  <2>2. CASE pc \notin {"ERASE_APP", "COPY"}
    <3>1. UNCHANGED app
      BY <1>2, <2>2 DEF PowerLoss
    <3>2. AppWhole \/ Pending'
      <4>1. CASE pc \in {"ERASE_DOWNLOAD", "ERASE_BEGIN"}
        BY <4>1
      <4>2. CASE pc = "WRITE"
        BY <4>2 DEF WriteInv
      <4>3. CASE pc \notin {"ERASE_DOWNLOAD", "ERASE_BEGIN", "WRITE"}
        BY <1>2, <4>3 DEF PowerLoss
      <4>4. QED
        BY <4>1, <4>2, <4>3
    <3>3. QED
      BY <1>2, <1>m, <3>1, <3>2 DEF PowerLoss, ClearRam
  <2>3. QED
    BY <2>1, <2>2
<1>3. CASE AppReset
  BY <1>3, <1>m DEF AppReset, hw_cpu_reset, ClearRam
<1>4. CASE SendPacket
  <2>1. UNCHANGED <<pc, pos, fotaRam, rymRam, flash>>
    BY <1>4 DEF SendPacket, Usart2RxIrqCallback
  <2>2. (Pending /\ IsFirstPacket(ymodem_ota_msg) => SessionUnderWay)'
    BY <1>4, <2>1 DEF SendPacket, Usart2RxIrqCallback
  <2>3. QED
    BY <2>1, <2>2
<1>5. CASE SenderStep /\ ~SendPacket
  BY <1>5 DEF SenderStep, SenderStart, SenderGivesUp, ReadReply, ReplyLost
<1>6. QED
  BY <1>1, <1>2, <1>3, <1>4, <1>5

LEMMA BootInvariant == Quiet /\ Spec => []BootInv
<1> SUFFICES ASSUME Quiet PROVE Spec => []BootInv
  OBVIOUS
<1>1. Init => BootInv
  <2> SUFFICES ASSUME Init PROVE BootInv
    OBVIOUS
  <2>1. TypeInv /\ WriteInv
    BY InitType DEF Init, RamCleared, WriteInv
  <2>2. ~Pending
    <3>1. download[0] = Erased
      BY SizesAssumption DEF Init, Blank, Positions
    <3>2. QED
      BY <3>1, CellsAssumption DEF Pending, Installable, HeadOf
  <2>3. AppWhole
    BY FilesAssumption DEF Init, AppWhole, AppComplete, AppIs, NeverInstalled
  <2>4. QED
    BY <2>1, <2>2, <2>3
       DEF Init, RamCleared, BootInv, CopyInv, ApartInv, SafeInv, Pending
<1>2. BootInv /\ [Next]_vars => BootInv'
  <2> SUFFICES ASSUME BootInv, [Next]_vars PROVE BootInv'
    OBVIOUS
  <2>1. (TypeInv /\ WriteInv)'
    BY NextType, FotaWrites, RymWrites, OtherWrites DEF Next, Device, BootInv
  <2>2. (CopyInv /\ ApartInv /\ SafeInv)'
    BY FotaSafe, RymSafe, OtherSafe DEF Next, Device
  <2>3. QED
    BY <2>1, <2>2 DEF BootInv
<1>3. QED
  BY <1>1, <1>2, PTL DEF Spec

\* At every moment the application area or the download area holds a whole
\* firmware: no sequence of power losses, transfers, lost answers and
\* installations leaves a board without one, provided that no new transfer is
\* opened while an update waits.
THEOREM FirmwareSurvives == Quiet /\ Spec => []NeverWithoutFirmware
<1>1. BootInv => NeverWithoutFirmware
  BY DEF BootInv, SafeInv, AppWhole, NeverWithoutFirmware
<1>2. QED
  BY <1>1, BootInvariant, PTL

\* FOTA_ucStartApplication never jumps into a half-written application, under
\* the same proviso.
THEOREM StartsOnlyWhole == Quiet /\ Spec => []StartsOnlyComplete
<1>1. BootInv => StartsOnlyComplete
  BY DEF BootInv, SafeInv, StartsOnlyComplete
<1>2. QED
  BY <1>1, BootInvariant, PTL

\* No step spoils an update that is not the application yet.
KeepsPending ==
  \A f \in Files :
    Installable(download, f) => Installable(download', f) \/ app = Image(f)

LEMMA PendingStep == BootInv /\ [Next]_vars => KeepsPending
<1> SUFFICES ASSUME BootInv, [Next]_vars,
                    NEW f \in Files, Installable(download, f), app # Image(f)
             PROVE  Installable(download', f)
  BY DEF KeepsPending
<1> USE DEF BootInv
<1>1. download \in [Positions -> Cells] /\ update_file_cur_size \in Nat
  BY DEF TypeInv, TypeOK
<1>2. CASE UNCHANGED download
  BY <1>2
<1>3. CASE EraseDownload
  BY <1>3 DEF EraseDownload, CopyInv
<1>4. CASE EraseForSession
  BY <1>4 DEF EraseForSession, ApartInv, Pending
<1>5. CASE WriteBlock
  <2>1. update_file_cur_size \in Positions => download[update_file_cur_size] = Erased
    BY <1>1, <1>5 DEF WriteBlock, WriteInv, ErasedFrom
  <2>2. PICK cell \in Written :
          download' = [download EXCEPT ![update_file_cur_size] = cell]
    BY <1>5 DEF WriteBlock
  <2>3. QED
    BY <1>1, <2>1, <2>2, WriteInstallable
<1>6. CASE PowerLoss
  <2>1. CASE pc \in {"ERASE_DOWNLOAD", "ERASE_BEGIN"}
    BY <2>1 DEF CopyInv, ApartInv, Pending
  <2>2. CASE pc = "WRITE"
    <3>1. update_file_cur_size \in Positions => download[update_file_cur_size] = Erased
      BY <1>1, <2>2 DEF WriteInv, ErasedFrom
    <3>2. download' \in Torn(download, update_file_cur_size)
      BY <1>6, <2>2 DEF PowerLoss
    <3>3. QED
      BY <1>1, <3>1, <3>2, WriteInstallable DEF Torn
  <2>3. CASE pc \notin {"ERASE_DOWNLOAD", "ERASE_BEGIN", "WRITE"}
    BY <1>6, <2>3 DEF PowerLoss
  <2>4. QED
    BY <2>1, <2>2, <2>3
<1>7. QED
  BY <1>2, <1>3, <1>4, <1>5, <1>6
     DEF Next, Device, FotaStep, RymStep, FotaInit, FotaCheckUpdate,
         FotaDownloading, CheckFwNoFirmware, CheckFwCrcWrong, CheckFwPasses,
         FotaUpdate, EraseApp, CopyBlock, CopyInfo, FotaForward, FotaStartApp,
         FotaNoApp, RymNone, HandshakePoll, HandshakeWait, HandshakeBad,
         HandshakeReject, HandshakeBegin, RymDoTrans, TransNothing, TransEot,
         TransBad, TransOtherIndex, TransData, RymDoFin, RymTransFinPacket,
         RymTransFin, RymReset, RymBeforeReset, hw_cpu_reset, FotaTimerExpires,
         YmodemTimerExpires, AppReset, SenderStep, SendPacket,
         Usart2RxIrqCallback, SenderStart, SenderGivesUp, ReadReply, ReplyLost,
         FirstPacket

\* An update that passes the check is not destroyed before the same file is
\* complete in the application area, under the same proviso.
THEOREM UpdateKept == Quiet /\ Spec => PendingKept
<1>1. BootInv /\ [Next]_vars =>
        \A f \in Files :
          Installable(download, f) => Installable(download', f) \/ app = Image(f)
  BY PendingStep DEF KeepsPending
<1>2. QED
  BY <1>1, BootInvariant, PTL DEF Spec, PendingKept

-----------------------------------------------------------------------------
(* The refinement of Board.  Besides BootInv it needs to be known that no  *)
(* update is pending when an application is started: the FOTA task checks  *)
(* the download area in one turn and starts in the next, and in the turns  *)
(* of the ymodem task in between a session can be opened but not finished. *)

StartInv ==
  /\ FOTA_tTaskState = "START_APP" =>
       /\ ymodem_ota_task_state <= IF pc \in {"FOTA", "APP"}
                                   THEN RYM_STAGE_TRANSMITTING
                                   ELSE RYM_STAGE_ESTABLISHED
       /\ pc # "ERASE_DOWNLOAD" => ~Pending
  /\ pc = "ERASE_DOWNLOAD" /\ pos > 0 => download[0] = Erased
  /\ pc = "COPY_INFO" => pos = 0
  /\ pc = "APP" => FOTA_tTaskState = "START_APP"

LEMMA FotaStarts == BootInv /\ StartInv /\ FotaStep => StartInv'
<1> SUFFICES ASSUME BootInv, StartInv, FotaStep PROVE StartInv'
  OBVIOUS
<1> USE SizesAssumption
<1> USE DEF BootInv, StartInv, FotaTurn, Goto, Pending
<1>t. /\ ymodem_ota_task_state \in 0 .. 7
      /\ pos \in Positions
      /\ download \in [Positions -> Cells]
  BY DEF TypeInv, TypeOK
<1>1. CASE FotaInit \/ FotaCheckUpdate \/ FotaDownloading \/ FotaForward
  BY <1>1, <1>t
     DEF FotaInit, FotaCheckUpdate, FotaDownloading, FotaForward, SafeInv
<1>2. CASE CheckFwNoFirmware
  <2>1. ~Pending
    BY <1>2 DEF CheckFwNoFirmware, Magic, Installable
  <2>2. QED
    BY <1>2, <1>t, <2>1 DEF CheckFwNoFirmware, ApartInv
<1>3. ASSUME NEW f \in Files, CheckFwCrcWrong(f) PROVE StartInv'
  <2>1. ~Pending
    BY <1>3, OneInstallable DEF CheckFwCrcWrong, Magic, Installable
  <2>2. QED
    BY <1>3, <1>t, <2>1 DEF CheckFwCrcWrong, ApartInv
<1>4. ASSUME NEW f \in Files, CheckFwPasses(f) PROVE StartInv'
  <2>1. CheckFwTarget(f) = "START_APP" => ~Pending
    BY <1>4, OneInstallable
       DEF CheckFwPasses, CheckFwTarget, Magic, RblPasses, Installable
  <2>2. QED
    BY <1>4, <1>t, <2>1 DEF CheckFwPasses, ApartInv
<1>5. CASE FotaUpdate \/ EraseApp \/ CopyBlock
  BY <1>5, <1>t DEF FotaUpdate, EraseApp, CopyBlock, TypeInv, CopyBound
<1>6. CASE CopyInfo
  <2>1. FOTA_tTaskState = "FW_UPDATE" /\ pos = 0
    BY <1>6 DEF CopyInfo, TypeInv, CopyBound
  <2>2. QED
    BY <1>6, <1>t, <2>1 DEF CopyInfo, ApartInv
<1>7. CASE EraseDownload
  <2>1. download'[0] = Erased
    BY <1>7, <1>t DEF EraseDownload, Positions
  <2>2. ~Pending'
    BY <2>1, CellsAssumption DEF Installable, HeadOf
  <2>3. QED
    BY <1>7, <1>t, <2>1, <2>2 DEF EraseDownload, SafeInv
<1>8. CASE FotaStartApp \/ FotaNoApp
  BY <1>8, <1>t DEF FotaStartApp, FotaNoApp
<1>9. QED
  BY <1>1, <1>2, <1>3, <1>4, <1>5, <1>6, <1>7, <1>8 DEF FotaStep

LEMMA RymStarts == BootInv /\ StartInv /\ RymStep => StartInv'
<1> SUFFICES ASSUME BootInv, StartInv, RymStep PROVE StartInv'
  OBVIOUS
<1> USE SizesAssumption
<1> USE DEF BootInv, StartInv, RymTurn, RymDone, Answer, Pending
<1>t. /\ ymodem_ota_task_state \in 0 .. 7
      /\ pos \in Positions
      /\ download \in [Positions -> Cells]
  BY DEF TypeInv, TypeOK
<1>1. CASE RymNone \/ HandshakePoll \/ HandshakeWait \/ HandshakeBad
  BY <1>1, <1>t DEF RymNone, HandshakePoll, HandshakeWait, HandshakeBad
<1>2. CASE HandshakeReject \/ HandshakeBegin
  BY <1>2, <1>t DEF HandshakeReject, HandshakeBegin, FirstPacket
<1>3. CASE EraseForSession
  <2>1. \A f \in Files : Installable(download', f) => Installable(download, f)
    BY <1>3, <1>t, EraseInstallable DEF EraseForSession
  <2>2. ~Pending'
    BY <1>3, <2>1 DEF EraseForSession, ApartInv
  <2>3. pc = "ERASE_BEGIN" /\ UNCHANGED FOTA_tTaskState
    BY <1>3 DEF EraseForSession
  <2>4. \/ UNCHANGED <<pc, ymodem_ota_task_state>>
        \/ pc' = "FOTA" /\ ymodem_ota_task_state' = RYM_STAGE_ESTABLISHED
    BY <1>3 DEF EraseForSession
  <2>5. QED
    BY <1>t, <2>2, <2>3, <2>4
<1>4. CASE RymDoTrans
  BY <1>4, <1>t DEF RymDoTrans
<1>5. CASE TransNothing \/ TransEot \/ TransBad \/ TransOtherIndex \/ TransData
  BY <1>5, <1>t DEF TransNothing, TransEot, TransBad, TransOtherIndex, TransData
<1>6. CASE WriteBlock
  <2>1. FOTA_tTaskState # "START_APP"
    BY <1>6, <1>t DEF WriteBlock, WriteInv
  <2>2. QED
    BY <1>6, <2>1 DEF WriteBlock
<1>7. CASE RymDoFin \/ RymTransFinPacket \/ RymTransFin \/ RymBeforeReset
  BY <1>7, <1>t DEF RymDoFin, RymTransFinPacket, RymTransFin, RymBeforeReset
<1>8. CASE RymReset
  BY <1>8 DEF RymReset, hw_cpu_reset, ClearRam
<1>9. QED
  BY <1>1, <1>2, <1>3, <1>4, <1>5, <1>6, <1>7, <1>8 DEF RymStep

LEMMA OtherStarts ==
  ASSUME BootInv, StartInv,
         \/ FotaTimerExpires \/ YmodemTimerExpires \/ PowerLoss \/ AppReset
         \/ SenderStep \/ UNCHANGED vars
  PROVE  StartInv'
<1> USE DEF StartInv, Pending
<1>1. CASE FotaTimerExpires \/ YmodemTimerExpires \/ UNCHANGED vars
  BY <1>1 DEF FotaTimerExpires, YmodemTimerExpires
<1>2. CASE PowerLoss \/ AppReset
  BY <1>2 DEF PowerLoss, AppReset, hw_cpu_reset, ClearRam
<1>3. CASE SenderStep
  <2>1. UNCHANGED <<pc, pos, fotaRam, rymRam, flash>>
    BY <1>3 DEF SenderStep, SendPacket, Usart2RxIrqCallback, SenderStart,
                SenderGivesUp, ReadReply, ReplyLost
  <2>2. QED
    BY <2>1
<1>4. QED
  BY <1>1, <1>2, <1>3

LEMMA StartInvariant == Quiet /\ Spec => [](BootInv /\ StartInv)
<1> SUFFICES ASSUME Quiet PROVE Spec => [](BootInv /\ StartInv)
  OBVIOUS
<1>1. Init => StartInv
  BY DEF Init, RamCleared, StartInv
<1>2. BootInv /\ StartInv /\ [Next]_vars => StartInv'
  BY FotaStarts, RymStarts, OtherStarts DEF Next, Device
<1>3. QED
  BY <1>1, <1>2, BootInvariant, PTL DEF Spec

\* A file is known by its image, which is never blank.
LEMMA ImageNames ==
  ASSUME NEW f \in Files
  PROVE  /\ Image(f) # Blank
         /\ \A g \in Files : Image(f) = Image(g) => f = g
<1>1. Image(f)[0] = <<f, 0>> /\ Blank[0] = Erased
  BY SizesAssumption, FilesAssumption DEF Image, Blank, Positions
<1>2. \A g \in Files : Image(g)[0] = <<g, 0>>
  BY SizesAssumption, FilesAssumption DEF Image, Positions
<1>3. <<f, 0>> \in Files \X Nat
  OBVIOUS
<1>4. QED
  BY <1>1, <1>2, <1>3, CellsAssumption

\* What the mapping of Board gives: the firmware of the board is the file that
\* may be installed, or else the one in the app area.
LEMMA InstalledIs ==
  ASSUME NEW f \in Files, AppIs(f)
  PROVE  AppComplete /\ Installed = f
<1>1. \A g \in Files : AppIs(g) => g = f
  BY ImageNames DEF AppIs
<1>2. QED
  BY <1>1 DEF AppComplete, Installed

LEMMA InstallableIs ==
  ASSUME NEW f \in Files, Installable(download, f)
  PROVE  Pending /\ BoardFirmware = f /\ ForThisBoard(f)
<1>1. \A g \in Files : Installable(download, g) => g = f
  BY OneInstallable DEF Installable
<1>2. QED
  BY <1>1 DEF Pending, BoardFirmware, ForThisBoard, Installable, CrcMatches

\* Of the two areas a step changes one at most, and the app area only while an
\* update is being installed.
LEMMA OneAreaChanges ==
  ASSUME BootInv, Next
  PROVE  \/ UNCHANGED app
         \/ UNCHANGED download /\ Pending /\ pc # "APP" /\ pc' # "APP"
<1> USE DEF BootInv
<1>1. pc \in {"ERASE_APP", "COPY"} => Pending
  BY DEF TypeInv, CopyBound, CopyInv, Pending
<1>2. CASE EraseApp \/ CopyBlock
  BY <1>1, <1>2 DEF EraseApp, CopyBlock
<1>3. CASE PowerLoss
  BY <1>1, <1>3 DEF PowerLoss, ClearRam
<1>4. CASE ~(EraseApp \/ CopyBlock \/ PowerLoss)
  BY <1>4
     DEF Next, Device, FotaStep, RymStep, FotaInit, FotaCheckUpdate,
         FotaDownloading, CheckFwNoFirmware, CheckFwCrcWrong, CheckFwPasses,
         FotaUpdate, CopyInfo, EraseDownload, FotaForward, FotaStartApp,
         FotaNoApp, RymNone, HandshakePoll, HandshakeWait, HandshakeBad,
         HandshakeReject, HandshakeBegin, EraseForSession, RymDoTrans,
         TransNothing, TransEot, TransBad, TransOtherIndex, TransData, WriteBlock,
         RymDoFin, RymTransFinPacket, RymTransFin, RymReset, RymBeforeReset,
         hw_cpu_reset, FotaTimerExpires, YmodemTimerExpires, AppReset, SenderStep,
         SendPacket, Usart2RxIrqCallback, SenderStart, SenderGivesUp, ReadReply,
         ReplyLost, FirstPacket
<1>5. QED
  BY <1>2, <1>3, <1>4

\* The application is entered by its start and left by a reset only, and flash
\* is left alone by both and in between.
LEMMA AppComesAndGoes ==
  ASSUME Next
  PROVE  /\ pc # "APP" /\ pc' = "APP" => FotaStartApp
         /\ pc = "APP" => UNCHANGED <<download, app>>
<1>1. CASE FotaStep
  BY <1>1
     DEF FotaStep, FotaTurn, Goto, FotaInit, FotaCheckUpdate, FotaDownloading,
         CheckFwNoFirmware, CheckFwCrcWrong, CheckFwPasses, FotaUpdate, EraseApp,
         CopyBlock, CopyInfo, EraseDownload, FotaForward, FotaStartApp, FotaNoApp
<1>2. CASE RymStep
  BY <1>2
     DEF RymStep, RymTurn, RymDone, RymNone, HandshakePoll, HandshakeWait,
         HandshakeBad, HandshakeReject, HandshakeBegin, EraseForSession,
         RymDoTrans, TransNothing, TransEot, TransBad, TransOtherIndex, TransData,
         WriteBlock, RymDoFin, RymTransFinPacket, RymTransFin, RymReset,
         RymBeforeReset, hw_cpu_reset, ClearRam, FirstPacket
<1>3. CASE PowerLoss \/ AppReset
  BY <1>3 DEF PowerLoss, AppReset, hw_cpu_reset, ClearRam
<1>4. CASE FotaTimerExpires \/ YmodemTimerExpires \/ SenderStep
  BY <1>4 DEF FotaTimerExpires, YmodemTimerExpires, SenderStep, SendPacket,
              Usart2RxIrqCallback, SenderStart, SenderGivesUp, ReadReply, ReplyLost
<1>5. QED
  BY <1>1, <1>2, <1>3, <1>4 DEF Next, Device

LEMMA BoardInit == Init => B!Init
<1> SUFFICES ASSUME Init PROVE BoardFirmware \in Factory /\ pc # "APP"
  BY DEF B!Init
<1>1. pc # "APP" /\ download[0] = Erased
  BY SizesAssumption DEF Init, RamCleared, Blank, Positions
<1>2. BoardFirmware = Installed
  BY <1>1, CellsAssumption DEF Pending, Installable, HeadOf, BoardFirmware
<1>3. PICK f \in Factory : app = IF f = NoFile THEN Blank ELSE Image(f)
  BY DEF Init
<1>4. CASE f = NoFile
  BY <1>1, <1>2, <1>3, <1>4, ImageNames DEF Installed, AppComplete, AppIs
<1>5. CASE f # NoFile
  BY <1>1, <1>2, <1>3, <1>5, InstalledIs, FilesAssumption DEF AppIs
<1>6. QED
  BY <1>4, <1>5

\* An update is legal whenever it becomes the firmware of the board; and when
\* it no longer is to be installed, it is the application.
LEMMA FirmwareKept ==
  ASSUME BootInv, Next,
         \A f \in Files :
           Installable(download, f) => Installable(download', f) \/ app = Image(f)
  PROVE  BoardFirmware' \in {f \in Files : ForThisBoard(f)} \/ UNCHANGED BoardFirmware
<1>1. CASE Pending'
  <2>1. PICK f \in Files : Installable(download', f)
    BY <1>1 DEF Pending
  <2>2. \A g \in Files : Installable(download', g) => g = f
    BY <2>1, OneInstallable DEF Installable
  <2>3. BoardFirmware' = f
    BY <1>1, <2>1, <2>2 DEF BoardFirmware
  <2>4. ForThisBoard(f)
    BY <2>1 DEF Installable, CrcMatches, ForThisBoard
  <2>5. QED
    BY <2>3, <2>4
<1>2. CASE ~Pending'
  <2>1. UNCHANGED app
    BY <1>2, OneAreaChanges DEF Pending
  <2>2. BoardFirmware' = Installed
    BY <1>2, <2>1 DEF BoardFirmware, Installed, AppComplete, AppIs
  <2>3. CASE Pending
    <3>1. PICK f \in Files : Installable(download, f)
      BY <2>3 DEF Pending
    <3>2. app = Image(f)
      BY <1>2, <3>1 DEF Pending
    <3>3. BoardFirmware = f /\ AppIs(f)
      BY <3>1, <3>2, InstallableIs DEF AppIs
    <3>4. QED
      BY <2>2, <3>3, InstalledIs
  <2>4. CASE ~Pending
    BY <2>2, <2>4 DEF BoardFirmware
  <2>5. QED
    BY <2>3, <2>4
<1>3. QED
  BY <1>1, <1>2

LEMMA BoardNext ==
  ASSUME Quiet, BootInv, StartInv, BootInv', Next,
         \A f \in Files :
           Installable(download, f) => Installable(download', f) \/ app = Image(f)
  PROVE  B!Update \/ B!Start \/ B!Stop
         \/ UNCHANGED <<BoardFirmware, IF pc = "APP" THEN Installed ELSE NoFile>>
<1> DEFINE running == IF pc = "APP" THEN Installed ELSE NoFile
<1>1. pc = "APP" => running = Installed /\ Installed \in Files
  BY DEF BootInv, SafeInv, AppComplete, Installed
<1>2. pc' = "APP" => running' = Installed' /\ Installed' \in Files
  BY DEF BootInv, SafeInv, AppComplete, Installed
<1>3. UNCHANGED <<download, app>> => UNCHANGED <<BoardFirmware, Installed>>
  BY DEF BoardFirmware, Installed, Pending, AppComplete, AppIs
<1>4. CASE pc # "APP" /\ pc' # "APP"
  BY <1>4, FirmwareKept DEF B!Update
<1>5. CASE pc = "APP" /\ pc' = "APP"
  BY <1>3, <1>5, AppComesAndGoes
<1>6. CASE pc = "APP" /\ pc' # "APP"
  BY <1>1, <1>3, <1>6, AppComesAndGoes, FilesAssumption DEF B!Stop
<1>7. CASE pc # "APP" /\ pc' = "APP"
  <2>1. FotaStartApp /\ UNCHANGED <<download, app>>
    BY <1>7, AppComesAndGoes DEF FotaStartApp
  <2>2. ~Pending
    BY <2>1 DEF FotaStartApp, FotaTurn, StartInv
  <2>3. BoardFirmware = Installed
    BY <2>2 DEF BoardFirmware
  <2>4. QED
    BY <1>2, <1>3, <1>7, <2>1, <2>3, FilesAssumption DEF B!Start
<1>8. QED
  BY <1>4, <1>5, <1>6, <1>7

\* The bootloader implements Board, under the same proviso: whatever the line,
\* the sender and the supply do, an update takes effect at once and as a whole,
\* and a board starts nothing but the firmware it has.
THEOREM UpdatesAreAtomic == Quiet /\ Spec => UpdatesAtOnce
<1> SUFFICES ASSUME Quiet PROVE Spec => UpdatesAtOnce
  OBVIOUS
<1>1. BootInv /\ StartInv /\ BootInv' /\ KeepsPending /\ [Next]_vars =>
        [B!Update \/ B!Start \/ B!Stop]_
          <<BoardFirmware, IF pc = "APP" THEN Installed ELSE NoFile>>
  <2>1. ASSUME UNCHANGED vars
        PROVE  UNCHANGED <<BoardFirmware, IF pc = "APP" THEN Installed ELSE NoFile>>
    BY <2>1 DEF BoardFirmware, Installed, Pending, AppComplete, AppIs
  <2>2. QED
    BY <2>1, BoardNext DEF KeepsPending
<1>2. QED
  BY <1>1, BoardInit, StartInvariant, PendingStep, PTL DEF Spec, UpdatesAtOnce, B!Spec

-----------------------------------------------------------------------------
(* Progress of the main loop: each of its turns comes to an end, the one    *)
(* that installs a firmware too, and in each the FOTA task goes forward,    *)
(* begins the installation, starts the application or has a reason to wait. *)

\* What is left of a turn, in blocks to be erased or written.
TurnLeft ==
  CASE pc = "ERASE_APP" -> 4 * Blocks + 4 - pos
    [] pc = "COPY" -> 3 * Blocks + 3 - pos
    [] pc = "COPY_INFO" -> 2 * Blocks + 3
    [] pc = "ERASE_DOWNLOAD" -> 2 * Blocks + 2 - pos
    [] pc = "YMODEM" -> Blocks + 2
    [] pc = "ERASE_BEGIN" -> Blocks + 1 - pos
    [] pc = "WRITE" -> 1
    [] OTHER -> 0

Order ==
  CASE FOTA_tTaskState = "INIT" -> 0
    [] FOTA_tTaskState = "CHECK_UPDATE" -> 1
    [] FOTA_tTaskState \in {"CHECK_FW", "DOWNLOADING"} -> 2
    [] FOTA_tTaskState \in {"FW_UPDATE", "FW_FORWARD"} -> 3
    [] OTHER -> 4

Waits ==
  \/ FOTA_tTaskState = "CHECK_UPDATE" /\ ~TMR_bIsTimeExpired(fota_tmr)
  \/ FOTA_tTaskState \in {"DOWNLOADING", "FW_FORWARD"}

Restarts == PowerLoss \/ AppReset \/ RymReset

LoopGoesOn ==
  [][/\ TurnLeft \in Nat
     /\ Device /\ pc # "FOTA" => TurnLeft' < TurnLeft
     /\ ~Device => UNCHANGED <<pc, pos, FOTA_tTaskState>> \/ Restarts
     /\ Device /\ pc = "FOTA" =>
          Order' > Order \/ pc' \in {"ERASE_APP", "APP"} \/ Waits \/ FotaNoApp
     /\ Order' < Order => Restarts \/ FotaNoApp]_vars

\* A turn of the FOTA task.
LEMMA FotaTurns ==
  ASSUME TypeInv, FotaStep, pc = "FOTA"
  PROVE  /\ Order' > Order \/ pc' \in {"ERASE_APP", "APP"} \/ Waits \/ FotaNoApp
         /\ Order' < Order => FotaNoApp
<1> USE DEF FotaTurn, Goto, Order
<1>1. CASE FotaInit \/ FotaCheckUpdate \/ FotaDownloading \/ FotaForward
  BY <1>1 DEF FotaInit, FotaCheckUpdate, FotaDownloading, FotaForward, Waits
<1>2. CASE CheckFwNoFirmware
  BY <1>2 DEF CheckFwNoFirmware
<1>3. ASSUME NEW f \in Files, CheckFwCrcWrong(f) \/ CheckFwPasses(f)
      PROVE  Order' > Order
  <2>1. CheckFwTarget(f) \in {"FW_FORWARD", "FW_UPDATE", "START_APP"}
    BY DEF CheckFwTarget
  <2>2. QED
    BY <1>3, <2>1 DEF CheckFwCrcWrong, CheckFwPasses
<1>4. CASE FotaUpdate \/ FotaStartApp
  BY <1>4 DEF FotaUpdate, FotaStartApp
<1>5. Order' > Order => ~(Order' < Order)
  BY DEF Order
<1>6. ~(EraseApp \/ CopyBlock \/ CopyInfo \/ EraseDownload)
  BY DEF EraseApp, CopyBlock, CopyInfo, EraseDownload
<1>7. QED
  BY <1>1, <1>2, <1>3, <1>4, <1>5, <1>6 DEF FotaStep

\* The steps of the ymodem task leave the FOTA task alone, and its turn is no
\* longer than the erasure it may begin.
LEMMA RymTurns ==
  ASSUME TypeInv, TypeInv', RymStep
  PROVE  /\ pc # "FOTA" /\ TurnLeft' < TurnLeft
         /\ UNCHANGED FOTA_tTaskState \/ RymReset
<1>1. /\ Blocks \in Nat \ {0} /\ pos \in 0 .. Blocks - 1
      /\ pos' \in 0 .. Blocks - 1
  BY SizesAssumption DEF TypeInv, TypeOK, Positions
<1> USE DEF RymTurn, RymDone, TurnLeft
<1>2. CASE RymNone \/ HandshakePoll \/ HandshakeWait \/ HandshakeBad
           \/ HandshakeReject \/ RymDoTrans
  BY <1>1, <1>2 DEF RymNone, HandshakePoll, HandshakeWait, HandshakeBad,
                    HandshakeReject, FirstPacket, RymDoTrans, fotaRam
<1>3. CASE HandshakeBegin \/ EraseForSession
  BY <1>1, <1>3 DEF HandshakeBegin, FirstPacket, EraseForSession, fotaRam
<1>4. CASE TransNothing \/ TransEot \/ TransBad \/ TransOtherIndex
           \/ TransData \/ WriteBlock
  BY <1>1, <1>4 DEF TransNothing, TransEot, TransBad, TransOtherIndex,
                    TransData, WriteBlock, fotaRam
<1>5. CASE RymDoFin \/ RymTransFinPacket \/ RymTransFin \/ RymBeforeReset
  BY <1>1, <1>5 DEF RymDoFin, RymTransFinPacket, RymTransFin, RymBeforeReset,
                    fotaRam
<1>6. CASE RymReset
  BY <1>1, <1>6 DEF RymReset, hw_cpu_reset, ClearRam
<1>7. QED
  BY <1>2, <1>3, <1>4, <1>5, <1>6 DEF RymStep

\* The core of PendingIsInstalled and BootDecides, for any number of blocks,
\* any files and whatever the sender does.
THEOREM LoopProgress == Spec => LoopGoesOn
<1> DEFINE
      On ==
        /\ TurnLeft \in Nat
        /\ Device /\ pc # "FOTA" => TurnLeft' < TurnLeft
        /\ ~Device => UNCHANGED <<pc, pos, FOTA_tTaskState>> \/ Restarts
        /\ Device /\ pc = "FOTA" =>
             Order' > Order \/ pc' \in {"ERASE_APP", "APP"} \/ Waits \/ FotaNoApp
        /\ Order' < Order => Restarts \/ FotaNoApp
<1>1. TypeInv /\ TypeInv' /\ [Next]_vars => [On]_vars
  <2> SUFFICES ASSUME TypeInv, TypeInv', Next PROVE On
    OBVIOUS
  <2>1. /\ Blocks \in Nat \ {0} /\ pos \in 0 .. Blocks - 1
        /\ pos' \in 0 .. Blocks - 1
    BY SizesAssumption DEF TypeInv, TypeOK, Positions
  <2>2. TurnLeft \in Nat
    BY <2>1 DEF TurnLeft
  <2>3. UNCHANGED FOTA_tTaskState => Order' = Order /\ Order \in Nat
    BY DEF Order
  <2>4. CASE FotaStep /\ pc = "FOTA"
    BY <2>2, <2>4, FotaTurns DEF Device
  <2>5. CASE FotaStep /\ pc # "FOTA"
    <3>1. EraseApp \/ CopyBlock \/ CopyInfo \/ EraseDownload
      BY <2>5
         DEF FotaStep, FotaTurn, FotaInit, FotaCheckUpdate, FotaDownloading,
             CheckFwNoFirmware, CheckFwCrcWrong, CheckFwPasses, FotaUpdate,
             FotaForward, FotaStartApp, FotaNoApp
    <3>2. TurnLeft' < TurnLeft
      BY <2>1, <3>1
         DEF EraseApp, CopyBlock, CopyInfo, EraseDownload, TurnLeft
    <3>3. ~(Order' < Order)
      BY <3>1
         DEF EraseApp, CopyBlock, CopyInfo, EraseDownload, fotaRam, Order,
             TypeInv, CopyBound
    <3>4. QED
      BY <2>2, <2>5, <3>2, <3>3 DEF Device
  <2>6. CASE RymStep
    <3>1. Order' < Order => RymReset
      BY <2>3, <2>6, RymTurns
    <3>2. QED
      BY <2>2, <2>6, <3>1, RymTurns DEF Device, Restarts
  <2>7. CASE ~Device /\ (PowerLoss \/ AppReset)
    BY <2>2, <2>7 DEF Restarts
  <2>8. CASE ~Device /\ (FotaTimerExpires \/ YmodemTimerExpires \/ SenderStep)
    <3>1. UNCHANGED <<pc, pos, FOTA_tTaskState>>
      BY <2>8 DEF FotaTimerExpires, YmodemTimerExpires, SenderStep, SendPacket,
              Usart2RxIrqCallback, SenderStart, SenderGivesUp, ReadReply,
              ReplyLost, fotaRam
    <3>2. ~(Order' < Order)
      BY <2>3, <3>1
    <3>3. QED
      BY <2>2, <2>8, <3>1, <3>2
  <2>9. QED
    BY <2>4, <2>5, <2>6, <2>7, <2>8 DEF Next, Device
<1>2. Spec => [][Next]_vars /\ []TypeInv
  BY InitType, NextType, PTL DEF Spec
<1>3. QED
  BY <1>1, <1>2, PTL DEF LoopGoesOn
=============================================================================
