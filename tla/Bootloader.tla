------------------------------ MODULE Bootloader ------------------------------
(***************************************************************************)
(* The bootloader as a whole: the FOTA task and the ymodem task take turns *)
(* in the main loop, the receive interrupt fills the mailbox, the timer    *)
(* interrupt expires timers, the supply may fail at any step, and a YMODEM *)
(* sender works at the other end of a line that loses and corrupts.        *)
(***************************************************************************)
EXTENDS Fota, Ymodem

NoSession == [phase |-> "idle", file |-> NoFile, blk |-> 0]
Replies == {"none", "ACK", "NAK", "C", "ACK_C"}
Senders ==
  [phase : {"begin", "data", "eot1", "eot2", "null"}, file : Files, blk : Nat]
    \cup {NoSession}

Init ==
  /\ RamCleared
  /\ download = Blank
  /\ app \in {IF f = NoFile THEN Blank ELSE Image(f) : f \in Factory}
  /\ app_info = Erased
  /\ sender = NoSession
  /\ reply = "none"
  /\ resets = 0

-----------------------------------------------------------------------------
(* Interrupts and supply.                                                  *)

\* TMR_vTickUpdate brings a timer down to zero.
FotaTimerExpires ==
  /\ pc # "APP" /\ ~TMR_bIsTimeExpired(fota_tmr)
  /\ fota_tmr' = 0
  /\ UNCHANGED <<pc, pos, fotaRam, rymRam, ymodem_ota_msg, ymodem_tmr, flash,
                 line, resets>>

YmodemTimerExpires ==
  /\ pc # "APP" /\ ~TMR_bIsTimeExpired(ymodem_tmr)
  /\ ymodem_tmr' = 0
  /\ UNCHANGED <<pc, pos, fotaRam, rymRam, ymodem_ota_msg, fota_tmr, flash,
                 line, resets>>

\* What a power loss leaves of an area whose block p was being worked on.
Torn(area, p) == {area, [area EXCEPT ![p] = Junk]}

PowerLoss ==
  /\ resets < MaxResets
  /\ ClearRam
  /\ resets' = resets + 1
  /\ download' \in CASE pc \in {"ERASE_DOWNLOAD", "ERASE_BEGIN"} -> Torn(download, pos)
                     [] pc = "WRITE" -> Torn(download, update_file_cur_size)
                     [] OTHER -> {download}
  /\ app' \in IF pc \in {"ERASE_APP", "COPY"} THEN Torn(app, pos) ELSE {app}
  /\ app_info' \in IF pc = "COPY_INFO" THEN {app_info, Junk} ELSE {app_info}
  /\ UNCHANGED line

\* The running application resets the machine (OTA request, watchdog).
AppReset ==
  /\ pc = "APP"
  /\ hw_cpu_reset

-----------------------------------------------------------------------------
(* The sender, as the receiver needs it to behave: it sends the packet it  *)
(* is at, as often as it likes, and moves on when it reads the answer.     *)

CurrentPacket ==
  CASE sender.phase = "begin" -> Message("begin", sender.file, 0)
    [] sender.phase = "data" -> Message("data", sender.file, sender.blk)
    [] sender.phase = "null" -> Message("null", NoFile, 0)
    [] OTHER -> Message("eot", NoFile, 0)

\* The device has something to answer, or its answer has not been read yet.
Busy ==
  \/ pc \notin {"FOTA", "YMODEM", "APP"}
  \/ reply \notin {"none", "C"}
  \/ /\ ymodem_ota_msg # NoMsg
     /\ ymodem_ota_task_state < RYM_STAGE_FINISHED

MayAct == Patient => ~Busy

\* A packet numbered 0 is taken for the start of a session, unless a session
\* is under way that the FOTA task knows of and waits for.
IsFirstPacket(m) == m.type \in {"begin", "null", "data"} /\ SeqNo(m) = 0
SessionUnderWay ==
  /\ ymodem_is_ota_data_received
  /\ FOTA_tTaskState \in {"DOWNLOADING", "FW_FORWARD"}

Receiving == pc # "APP" /\ ymodem_ota_task_state # RYM_STAGE_NONE

\* Usart2RxIrqCallback and ymodem_ota_set_received_data.
Usart2RxIrqCallback(m) ==
  /\ Receiving
  /\ Quiet /\ Pending /\ IsFirstPacket(m) => SessionUnderWay
  /\ ymodem_ota_msg' = m
  /\ UNCHANGED <<pc, pos, fotaRam, rymRam, timers, flash, line, resets>>

SendPacket ==
  /\ sender.phase # "idle"
  /\ MayAct
  /\ \/ Usart2RxIrqCallback(CurrentPacket)
     \/ Usart2RxIrqCallback(Message("bad", NoFile, 0))

SenderStart(f) ==
  /\ sender.phase = "idle"
  /\ MayAct
  /\ sender' = [phase |-> "begin", file |-> f, blk |-> 0]
  /\ reply' = "none"
  /\ UNCHANGED <<pc, pos, fotaRam, rymRam, ymodem_ota_msg, timers, flash, resets>>

SenderGivesUp ==
  /\ sender.phase # "idle"
  /\ MayAct
  /\ sender' = NoSession
  /\ UNCHANGED <<pc, pos, fotaRam, rymRam, ymodem_ota_msg, timers, flash, reply,
                 resets>>

AfterData ==
  IF sender.blk + 1 < Size[sender.file]
  THEN [sender EXCEPT !.blk = @ + 1]
  ELSE [sender EXCEPT !.phase = "eot1", !.blk = 0]

Advance ==
  CASE sender.phase = "begin" /\ reply = "ACK_C" -> [sender EXCEPT !.phase = "data"]
    [] sender.phase = "data" /\ reply \in {"ACK", "ACK_C"} -> AfterData
    [] sender.phase = "eot1" /\ reply = "NAK" -> [sender EXCEPT !.phase = "eot2"]
    [] sender.phase \in {"eot1", "eot2"} /\ reply = "ACK_C" ->
         [sender EXCEPT !.phase = "null"]
    [] sender.phase = "null" /\ reply \in {"ACK", "ACK_C"} -> NoSession
    [] OTHER -> sender

ReadReply ==
  /\ reply # "none"
  /\ sender' = Advance
  /\ reply' = "none"
  /\ UNCHANGED <<pc, pos, fotaRam, rymRam, ymodem_ota_msg, timers, flash, resets>>

ReplyLost ==
  /\ reply # "none"
  /\ reply' = "none"
  /\ UNCHANGED <<pc, pos, fotaRam, rymRam, ymodem_ota_msg, timers, flash, sender,
                 resets>>

SenderStep ==
  \/ SendPacket \/ SenderGivesUp \/ ReadReply \/ ReplyLost
  \/ \E f \in Files : SenderStart(f)

-----------------------------------------------------------------------------

Device == FotaStep \/ RymStep
Next ==
  \/ Device \/ FotaTimerExpires \/ YmodemTimerExpires
  \/ PowerLoss \/ AppReset \/ SenderStep

Spec == Init /\ [][Next]_vars

\* The main loop and the timer interrupt never stop.
FairSpec ==
  Spec /\ WF_vars(Device) /\ WF_vars(FotaTimerExpires) /\ WF_vars(YmodemTimerExpires)

-----------------------------------------------------------------------------
(* Properties.                                                             *)

\* Every variable has its type; positions of running flash operations stay
\* inside the area they work on.
TypeOK ==
  /\ pc \in {"FOTA", "YMODEM", "ERASE_DOWNLOAD", "ERASE_APP", "COPY",
             "COPY_INFO", "ERASE_BEGIN", "WRITE", "APP"}
  /\ pos \in Positions
  /\ FOTA_tTaskState \in FotaStates
  /\ app_file_size \in Nat
  /\ fota_tmr \in 0 .. 1
  /\ ymodem_tmr \in 0 .. 1
  /\ ymodem_ota_sem \in 0 .. 2
  /\ ymodem_ota_task_state \in RYM_STAGE_NONE .. RYM_STAGE_RESET
  /\ ymodem_next_packet_index \in 0 .. IndexMod - 1
  /\ update_file_cur_size \in Nat
  /\ ymodem_ota_msg \in Messages
  /\ held \in Messages
  /\ download \in [Positions -> Cells]
  /\ app \in [Positions -> Cells]
  /\ app_info \in Cells
  /\ sender \in Senders
  /\ reply \in Replies
  /\ resets \in 0 .. MaxResets

\* What FOTA_ucCheckFirmware looks for.
ForThisBoard(f) == Format[f] = "fota" /\ Sound[f] /\ Target[f] = "P2001_DRV"

\* A complete application: one that came with the board, or all the blocks
\* of a firmware for this board that has passed its CRC.
AppIs(f) ==
  /\ app = Image(f)
  /\ \/ f \in Factory
     \/ ForThisBoard(f)
AppComplete == \E f \in Files : AppIs(f)
NeverInstalled == NoFile \in Factory /\ app = Blank

\* FOTA_ucStartApplication never jumps into a half-written application, even
\* though it looks at one word only, wherever the power failed before.
StartsOnlyComplete == pc = "APP" => AppComplete

\* FOTA_ucFirmwareUpdate destroys the application before it writes the new
\* one; at every moment one of the two areas holds a whole firmware, so no
\* power loss can leave a board that had an application without one.
NeverWithoutFirmware == AppComplete \/ Pending \/ NeverInstalled

\* A checked update is given up (by whichever erase) only after the very same
\* file is complete in the app area.
PendingKept ==
  [][\A f \in Files :
       Installable(download, f) => Installable(download', f) \/ app = Image(f)]_vars

\* What the next start will run: the update that waits in the download area,
\* or else the application.
Installed == IF AppComplete THEN CHOOSE f \in Files : AppIs(f) ELSE NoFile
BoardFirmware ==
  IF Pending THEN CHOOSE f \in Files : Installable(download, f) ELSE Installed

B == INSTANCE Board
       WITH firmware <- BoardFirmware,
            running <- IF pc = "APP" THEN Installed ELSE NoFile,
            Legal <- {f \in Files : ForThisBoard(f)},
            Delivered <- Factory, None <- NoFile

\* The bootloader keeps the promise of Board.  An update takes effect in one
\* step, when the last block of a whole transfer is written; the erasures and
\* copies that follow, and every power loss in them, leave the firmware of the
\* board as it is, and only this firmware is ever started.
UpdatesAtOnce == B!Spec

\* Flash cells can only be programmed after an erase: every packet and every
\* block of a copy lands on an erased block, across aborted sessions,
\* erasures by the FOTA task in the middle of a session, and power losses.
WritesHitErased ==
  /\ pc = "WRITE" /\ update_file_cur_size < Blocks =>
       download[update_file_cur_size] = Erased
  /\ pc = "COPY" => app[pos] = Erased

\* ymodem_on_data has no bound of its own: the check of the declared size in
\* ymodem_on_begin and the packet numbers must keep it inside the area.
WritesInside == pc = "WRITE" => update_file_cur_size < Blocks

\* The packet expected next is the one that follows the last written.
InStep == ymodem_next_packet_index = (update_file_cur_size + 1) % IndexMod

\* Lost, repeated and corrupted packets and lost answers never leave a gap or
\* a repetition: in a session that started in step, what is written is the
\* beginning of one file, and the end of the session finds all of it.
Sent(f, n) == \A k \in 0 .. n - 1 : k < Blocks => download[k] = <<f, k>>
InOrder ==
  InStep /\ pc # "WRITE" =>
    /\ ymodem_ota_task_state >= RYM_STAGE_TRANSMITTING =>
         \E f \in Files : Sent(f, update_file_cur_size)
    /\ ymodem_ota_task_state >= RYM_STAGE_FINISHING =>
         \E f \in Files :
            Sent(f, update_file_cur_size) /\ Size[f] = update_file_cur_size

\* A session the FOTA task waits for, as DOWNLOADING has no timeout.  Sender
\* and device are together when the device is at the packet the sender is at,
\* or one further and has only to acknowledge it again.
Accepted == IF pc = "WRITE" THEN update_file_cur_size + 1 ELSE update_file_cur_size

Together ==
  LET stage == ymodem_ota_task_state
      asked == reply = "ACK_C"
  IN CASE sender.phase = "begin" ->
            /\ ymodem_next_packet_index = (Accepted + 1) % IndexMod
            /\ \/ stage = RYM_STAGE_ESTABLISHED
               \/ stage = RYM_STAGE_TRANSMITTING /\ asked /\ Accepted = 0
       [] sender.phase = "data" ->
            /\ ymodem_next_packet_index = (Accepted + 1) % IndexMod
            /\ stage = RYM_STAGE_TRANSMITTING
            /\ Accepted - sender.blk \in {0, 1}
       [] sender.phase \in {"eot1", "eot2"} ->
            \/ stage \in RYM_STAGE_TRANSMITTING .. RYM_STAGE_FINISH_PACKET
            \/ stage = RYM_STAGE_FINISHED /\ asked
       [] sender.phase = "null" -> stage >= RYM_STAGE_FINISHED
       [] OTHER -> FALSE

Downloading == FOTA_tTaskState = "DOWNLOADING" /\ Together

\* Corrupted, repeated and late packets and lost acknowledgements of data never
\* part the two: only the loss of an answer that the device does not repeat (to
\* the first packet and to the second EOT), a sender that gives up or a loss of
\* power does, or the reset that ends the session.
PartOnlyByLoss ==
  [][Downloading /\ ~Downloading' =>
       \/ ReplyLost /\ reply = "ACK_C"
       \/ SenderGivesUp \/ PowerLoss
       \/ ymodem_ota_task_state = RYM_STAGE_RESET]_vars

\* What a session that stays together has still to do: the packets the sender
\* has not come to, the blocks and stages the device has not.
SenderLeft ==
  CASE sender.phase = "begin" -> Size[sender.file] + 3
    [] sender.phase = "data" -> Size[sender.file] - sender.blk + 2
    [] sender.phase = "eot1" -> 2
    [] sender.phase = "eot2" -> 1
    [] OTHER -> 0
DeviceLeft == (RYM_STAGE_RESET - ymodem_ota_task_state) + (Blocks - Accepted)
SessionLeft == SenderLeft + DeviceLeft

\* A packet the sender is at, and the device looks at it whole.
Arrives == RymStep /\ ymodem_ota_msg = CurrentPacket

\* Neither side ever falls back, and no exchange is for nothing: an answer that
\* moves the sender brings the end nearer, and a packet that arrives, be it for
\* the first or the tenth time, moves the device or leaves the sender with an
\* answer that will move it.  Each retry of ymodem_ota.c serves its purpose.
SessionsAdvance ==
  [][Downloading /\ Downloading' =>
       /\ SessionLeft' \in 0 .. SessionLeft
       /\ ReadReply /\ sender' # sender => SessionLeft' < SessionLeft
       /\ Arrives /\ ymodem_ota_task_state # RYM_STAGE_RESET =>
            SessionLeft' < SessionLeft \/ Advance' # sender']_vars

\* A sender that keeps on sending over a line that does not lose the same
\* thing for ever: its packets arrive whole when the device looks (nothing
\* holds the sender back at the last one, so there it must be in time for the
\* look), its answers are read or lost, and those it waits for are not always
\* lost.
Sends ==
  /\ sender.phase # "idle" /\ MayAct /\ Usart2RxIrqCallback(CurrentPacket)
  /\ ymodem_ota_task_state = RYM_STAGE_FINISHED => pc = "YMODEM"
FairLine ==
  /\ SF_vars(Sends) /\ SF_vars(Arrives)
  /\ WF_vars(ReadReply \/ ReplyLost) /\ SF_vars(ReadReply /\ sender' # sender)

\* Over such a line no session is stuck while the two are together: the retries
\* of ymodem_ota.c bring it to its reset, though nothing there counts or times
\* them.
SessionEnds == FairLine => (Downloading ~> ~Downloading)

\* A board that starts with an update pending has it installed in the end, a
\* whole application and the download area free again, however often power fails
\* on the way.
PendingIsInstalled ==
  (Pending /\ FOTA_tTaskState = "INIT") ~> (AppComplete /\ ~Pending)

\* After a reset the loop reaches the application, a session, a forward, or
\* the long wait of a board without a legal application; it never just spins.
BootDecides ==
  (FOTA_tTaskState = "INIT") ~>
    (pc = "APP" \/ ymodem_is_ota_data_received
      \/ FOTA_tTaskState = "FW_FORWARD" \/ ~StackWordOk)

-----------------------------------------------------------------------------
(* What a comment of the sources says and the program does not do.         *)

\* tnd_fota.c:328 "check app validation and start": only a valid, complete
\* application is started, whatever the sender does and whenever power fails.
ChecksAppBeforeStart == pc = "APP" => AppComplete
=============================================================================
