------------------------------- MODULE Ymodem -------------------------------
(***************************************************************************)
(* The receiving side of YMODEM (ymodem_ota.c).  ymodem_ota runs once per  *)
(* turn of the main loop, after the FOTA task, and looks at the mailbox    *)
(* ymodem_ota_msg.  The receive interrupt may overwrite the mailbox at any *)
(* time, even while ymodem_on_data is writing out of it.                   *)
(***************************************************************************)
EXTENDS BootState

RymTurn(stage) ==
  pc = "YMODEM" /\ ymodem_ota_sem # 0 /\ ymodem_ota_task_state = stage

\* The end of a turn.
RymDone(stage) == pc' = "FOTA" /\ ymodem_ota_task_state' = stage

NextIndex == (ymodem_next_packet_index + 1) % IndexMod

RymNone ==
  /\ RymTurn(RYM_STAGE_NONE)
  /\ RymDone(RYM_STAGE_ESTABLISHING)
  /\ ymodem_next_packet_index' = 0
  /\ UNCHANGED <<pos, fotaRam, ymodem_ota_sem, update_file_cur_size, held,
                 ymodem_ota_msg, timers, flash, line, resets>>

-----------------------------------------------------------------------------
(* RYM_STAGE_ESTABLISHING: _rym_do_handshake and ymodem_on_begin.          *)

\* Every 40 ms the mailbox is cleared and 'C' is sent.
HandshakePoll ==
  /\ RymTurn(RYM_STAGE_ESTABLISHING)
  /\ TMR_bIsTimeExpired(ymodem_tmr)
  /\ ymodem_tmr' = 1
  /\ ymodem_ota_msg' = NoMsg
  /\ reply' = "C"
  /\ RymDone(RYM_STAGE_ESTABLISHING)
  /\ UNCHANGED <<pos, fotaRam, ymodem_ota_sem, ymodem_next_packet_index,
                 update_file_cur_size, held, fota_tmr, flash, sender, resets>>

\* Nothing received, or a packet number other than 0: wait.
HandshakeWait ==
  /\ RymTurn(RYM_STAGE_ESTABLISHING)
  /\ ~TMR_bIsTimeExpired(ymodem_tmr)
  /\ \/ ymodem_ota_msg.type \in {"none", "eot"}
     \/ ymodem_ota_msg.type = "data" /\ SeqNo(ymodem_ota_msg) # 0
  /\ RymDone(RYM_STAGE_ESTABLISHING)
  /\ UNCHANGED <<pos, fotaRam, ymodem_ota_sem, ymodem_next_packet_index,
                 update_file_cur_size, held, ymodem_ota_msg, timers, flash,
                 line, resets>>

\* A corrupted packet: NAK when its number survived, silence otherwise.
HandshakeBad ==
  /\ RymTurn(RYM_STAGE_ESTABLISHING)
  /\ ~TMR_bIsTimeExpired(ymodem_tmr)
  /\ ymodem_ota_msg.type = "bad"
  /\ reply' \in {reply, "NAK"}
  /\ RymDone(RYM_STAGE_ESTABLISHING)
  /\ UNCHANGED <<pos, fotaRam, ymodem_ota_sem, ymodem_next_packet_index,
                 update_file_cur_size, held, ymodem_ota_msg, timers, flash,
                 sender, resets>>

\* The file size ymodem_on_begin reads from packet 0.  The closing packet has
\* an empty name and reads as size 0; a data packet whose number has wrapped
\* to 0 reads as anything.
DeclaredSizes(m) ==
  CASE m.type = "begin" -> {Size[m.file]}
    [] m.type = "null" -> {0}
    [] OTHER -> {0, Blocks + 1}

FirstPacket ==
  /\ RymTurn(RYM_STAGE_ESTABLISHING)
  /\ ~TMR_bIsTimeExpired(ymodem_tmr)
  /\ ymodem_ota_msg.type \in {"begin", "null", "data"}
  /\ SeqNo(ymodem_ota_msg) = 0
  /\ ymodem_next_packet_index' = NextIndex
  /\ update_file_cur_size' = 0

\* Variant for mutation: the declared size is not checked.
FitsUnchecked(size) == size \in Nat

FitsDownload(size) == size <= Blocks

\* Too large: nothing is answered and the packet stays in the mailbox.
HandshakeReject ==
  /\ FirstPacket
  /\ \E size \in DeclaredSizes(ymodem_ota_msg) : ~FitsDownload(size)
  /\ RymDone(RYM_STAGE_ESTABLISHING)
  /\ UNCHANGED <<pos, fotaRam, ymodem_ota_sem, held, ymodem_ota_msg, timers,
                 flash, line, resets>>

\* Variant for mutation: the erasure starts one sector too late.
HandshakeBeginLate ==
  /\ FirstPacket
  /\ \E size \in DeclaredSizes(ymodem_ota_msg) : FitsDownload(size)
  /\ pc' = "ERASE_BEGIN"
  /\ pos' = IF Blocks > 1 THEN 1 ELSE 0
  /\ UNCHANGED <<fotaRam, ymodem_ota_sem, ymodem_ota_task_state, held,
                 ymodem_ota_msg, timers, flash, line, resets>>

HandshakeBegin ==
  /\ FirstPacket
  /\ \E size \in DeclaredSizes(ymodem_ota_msg) : FitsDownload(size)
  /\ pc' = "ERASE_BEGIN"
  /\ pos' = 0
  /\ UNCHANGED <<fotaRam, ymodem_ota_sem, ymodem_ota_task_state, held,
                 ymodem_ota_msg, timers, flash, line, resets>>

\* FLASH_vEraseSector on the download area, called by ymodem_on_begin.
EraseForSession ==
  /\ pc = "ERASE_BEGIN"
  /\ download' = [download EXCEPT ![pos] = Erased]
  /\ IF pos + 1 < Blocks
     THEN pos' = pos + 1 /\ UNCHANGED <<pc, ymodem_ota_sem, ymodem_ota_task_state>>
     ELSE /\ pos' = 0
          /\ ymodem_ota_sem' = 2
          /\ RymDone(RYM_STAGE_ESTABLISHED)
  /\ UNCHANGED <<fotaRam, ymodem_next_packet_index, update_file_cur_size, held,
                 ymodem_ota_msg, timers, app, app_info, line, resets>>

-----------------------------------------------------------------------------

\* _rym_do_trans: answer ACK, forget the mailbox, ask for data with 'C'.
RymDoTrans ==
  /\ RymTurn(RYM_STAGE_ESTABLISHED)
  /\ reply' = "ACK_C"
  /\ ymodem_ota_msg' = NoMsg
  /\ RymDone(RYM_STAGE_TRANSMITTING)
  /\ UNCHANGED <<pos, fotaRam, ymodem_ota_sem, ymodem_next_packet_index,
                 update_file_cur_size, held, timers, flash, sender, resets>>

-----------------------------------------------------------------------------
(* RYM_STAGE_TRANSMITTING: _rym_trans_data and ymodem_on_data.             *)

TransNothing ==
  /\ RymTurn(RYM_STAGE_TRANSMITTING)
  /\ ymodem_ota_msg.type = "none"
  /\ RymDone(RYM_STAGE_TRANSMITTING)
  /\ UNCHANGED <<pos, fotaRam, ymodem_ota_sem, ymodem_next_packet_index,
                 update_file_cur_size, held, ymodem_ota_msg, timers, flash,
                 line, resets>>

\* End of transmission: the mailbox is emptied by the next stage.
TransEot ==
  /\ RymTurn(RYM_STAGE_TRANSMITTING)
  /\ ymodem_ota_msg.type = "eot"
  /\ RymDone(RYM_STAGE_FINISHING)
  /\ UNCHANGED <<pos, fotaRam, ymodem_ota_sem, ymodem_next_packet_index,
                 update_file_cur_size, held, ymodem_ota_msg, timers, flash,
                 line, resets>>

Answer(code) == reply' = code /\ ymodem_ota_msg' = NoMsg

\* Wrong code, length, number complement or CRC: ask for the packet again.
TransBad ==
  /\ RymTurn(RYM_STAGE_TRANSMITTING)
  /\ ymodem_ota_msg.type = "bad"
  /\ Answer("NAK")
  /\ RymDone(RYM_STAGE_TRANSMITTING)
  /\ UNCHANGED <<pos, fotaRam, ymodem_ota_sem, ymodem_next_packet_index,
                 update_file_cur_size, held, timers, flash, sender, resets>>

Packet == ymodem_ota_msg.type \in {"begin", "null", "data"}

\* Variant for mutation: a repeated packet is refused.
TransOtherIndexRefused ==
  /\ RymTurn(RYM_STAGE_TRANSMITTING)
  /\ Packet
  /\ SeqNo(ymodem_ota_msg) # ymodem_next_packet_index
  /\ Answer("NAK")
  /\ RymDone(RYM_STAGE_TRANSMITTING)
  /\ UNCHANGED <<pos, fotaRam, ymodem_ota_sem, ymodem_next_packet_index,
                 update_file_cur_size, held, timers, flash, sender, resets>>

\* Not the expected number: acknowledged, and not written.
TransOtherIndex ==
  /\ RymTurn(RYM_STAGE_TRANSMITTING)
  /\ Packet
  /\ SeqNo(ymodem_ota_msg) # ymodem_next_packet_index
  /\ Answer("ACK")
  /\ RymDone(RYM_STAGE_TRANSMITTING)
  /\ UNCHANGED <<pos, fotaRam, ymodem_ota_sem, ymodem_next_packet_index,
                 update_file_cur_size, held, timers, flash, sender, resets>>

\* Variant for mutation: any packet is taken for the expected one.
TransDataAnyIndex ==
  /\ RymTurn(RYM_STAGE_TRANSMITTING)
  /\ Packet
  /\ ymodem_next_packet_index' = NextIndex
  /\ held' = ymodem_ota_msg
  /\ pc' = "WRITE"
  /\ UNCHANGED <<pos, fotaRam, ymodem_ota_sem, ymodem_ota_task_state,
                 update_file_cur_size, ymodem_ota_msg, timers, flash, line,
                 resets>>

TransData ==
  /\ RymTurn(RYM_STAGE_TRANSMITTING)
  /\ Packet
  /\ SeqNo(ymodem_ota_msg) = ymodem_next_packet_index
  /\ ymodem_next_packet_index' = NextIndex
  /\ held' = ymodem_ota_msg
  /\ pc' = "WRITE"
  /\ UNCHANGED <<pos, fotaRam, ymodem_ota_sem, ymodem_ota_task_state,
                 update_file_cur_size, ymodem_ota_msg, timers, flash, line,
                 resets>>

\* The block a packet carries.
Payload(m) == IF m.type = "data" THEN <<m.file, m.blk>> ELSE Junk

\* What reaches the flash: the packet that was checked, or, if the interrupt
\* has replaced it in the mailbox since, either packet or a mixture.
Written ==
  IF ymodem_ota_msg = held THEN {Payload(held)}
  ELSE {Payload(held), Payload(ymodem_ota_msg), Junk}

\* The write address is not compared with the size of the area; a block past
\* its end falls outside of the flash modelled here (see WritesInside).
WriteBlock ==
  /\ pc = "WRITE"
  /\ \E cell \in Written :
       download' = [download EXCEPT ![update_file_cur_size] = cell]
  /\ update_file_cur_size' = update_file_cur_size + 1
  /\ held' = NoMsg
  /\ Answer("ACK")
  /\ RymDone(RYM_STAGE_TRANSMITTING)
  /\ UNCHANGED <<pos, fotaRam, ymodem_ota_sem, ymodem_next_packet_index,
                 timers, app, app_info, sender, resets>>

-----------------------------------------------------------------------------
(* The end of a session: EOT / NAK, EOT / ACK C, closing packet / ACK.     *)

RymDoFin ==
  /\ RymTurn(RYM_STAGE_FINISHING)
  /\ Answer("NAK")
  /\ RymDone(RYM_STAGE_FINISH_PACKET)
  /\ UNCHANGED <<pos, fotaRam, ymodem_ota_sem, ymodem_next_packet_index,
                 update_file_cur_size, held, timers, flash, sender, resets>>

RymTransFinPacket ==
  /\ RymTurn(RYM_STAGE_FINISH_PACKET)
  /\ \/ /\ ymodem_ota_msg.type = "none"
        /\ RymDone(RYM_STAGE_FINISH_PACKET)
        /\ UNCHANGED <<ymodem_ota_msg, reply>>
     \/ /\ ymodem_ota_msg.type = "eot"
        /\ Answer("ACK_C")
        /\ RymDone(RYM_STAGE_FINISHED)
     \/ /\ ymodem_ota_msg.type \notin {"none", "eot"}
        /\ Answer("NAK")
        /\ RymDone(RYM_STAGE_FINISH_PACKET)
  /\ UNCHANGED <<pos, fotaRam, ymodem_ota_sem, ymodem_next_packet_index,
                 update_file_cur_size, held, timers, flash, sender, resets>>

\* A wrong closing packet is neither answered nor removed from the mailbox.
RymTransFin ==
  /\ RymTurn(RYM_STAGE_FINISHED)
  /\ IF Packet /\ SeqNo(ymodem_ota_msg) = 0
     THEN /\ reply' = "ACK"
          /\ ymodem_tmr' = 1
          /\ RymDone(RYM_STAGE_RESET)
     ELSE /\ RymDone(RYM_STAGE_FINISHED)
          /\ UNCHANGED <<reply, ymodem_tmr>>
  /\ UNCHANGED <<pos, fotaRam, ymodem_ota_sem, ymodem_next_packet_index,
                 update_file_cur_size, held, ymodem_ota_msg, fota_tmr, flash,
                 sender, resets>>

RymReset ==
  /\ RymTurn(RYM_STAGE_RESET)
  /\ TMR_bIsTimeExpired(ymodem_tmr)
  /\ hw_cpu_reset

RymBeforeReset ==
  /\ RymTurn(RYM_STAGE_RESET)
  /\ ~TMR_bIsTimeExpired(ymodem_tmr)
  /\ RymDone(RYM_STAGE_RESET)
  /\ UNCHANGED <<pos, fotaRam, ymodem_ota_sem, ymodem_next_packet_index,
                 update_file_cur_size, held, ymodem_ota_msg, timers, flash,
                 line, resets>>

RymStep ==
  \/ RymNone
  \/ HandshakePoll \/ HandshakeWait \/ HandshakeBad \/ HandshakeReject
  \/ HandshakeBegin \/ EraseForSession
  \/ RymDoTrans
  \/ TransNothing \/ TransEot \/ TransBad \/ TransOtherIndex \/ TransData
  \/ WriteBlock
  \/ RymDoFin \/ RymTransFinPacket \/ RymTransFin
  \/ RymReset \/ RymBeforeReset
=============================================================================
