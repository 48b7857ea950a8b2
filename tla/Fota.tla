-------------------------------- MODULE Fota --------------------------------
(***************************************************************************)
(* The FOTA task of the bootloader (tnd_fota.c) and the flash operations   *)
(* it starts.  FOTA_vTaskHandler runs once per turn of the main loop,      *)
(* before ymodem_ota.  Erasing and copying are split into one step per     *)
(* block, so that a power loss may fall before, between and inside them;   *)
(* nothing else of the main loop runs meanwhile.                           *)
(***************************************************************************)
EXTENDS BootState

FotaTurn(state) == pc = "FOTA" /\ FOTA_tTaskState = state
Goto(state) == pc' = "YMODEM" /\ FOTA_tTaskState' = state

FotaInit ==
  /\ FotaTurn("INIT")
  /\ Goto("CHECK_UPDATE")
  /\ ymodem_ota_sem' = 1                                \* ymodem_start_ota
  /\ fota_tmr' = 1                                  \* 200 ms
  /\ UNCHANGED <<pos, app_file_size, ymodem_ota_task_state,
                 ymodem_next_packet_index, update_file_cur_size, held,
                 ymodem_ota_msg, ymodem_tmr, flash, line, resets>>

\* Variant for mutation: the polling time is never looked at.
FotaCheckUpdateForever ==
  /\ FotaTurn("CHECK_UPDATE")
  /\ Goto(IF ymodem_is_ota_data_received THEN "DOWNLOADING" ELSE "CHECK_UPDATE")
  /\ UNCHANGED <<pos, app_file_size, rymRam, ymodem_ota_msg, timers, flash,
                 line, resets>>

FotaCheckUpdate ==
  /\ FotaTurn("CHECK_UPDATE")
  /\ Goto(IF ymodem_is_ota_data_received THEN "DOWNLOADING"
          ELSE IF TMR_bIsTimeExpired(fota_tmr) THEN "CHECK_FW" ELSE "CHECK_UPDATE")
  /\ UNCHANGED <<pos, app_file_size, rymRam, ymodem_ota_msg, timers, flash,
                 line, resets>>

\* Nothing leads out of this state: the ymodem task ends it with a reset.
FotaDownloading ==
  /\ FotaTurn("DOWNLOADING")
  /\ Goto("DOWNLOADING")
  /\ UNCHANGED <<pos, app_file_size, rymRam, ymodem_ota_msg, timers, flash,
                 line, resets>>

-----------------------------------------------------------------------------
(* FOTA_TASK_CHECK_FW: one action per outcome of FOTA_ucCheckFirmware.     *)

Magic(f) == HeadOf(download, f) /\ Format[f] = "fota"
RblPasses(f) ==
  HeadOf(download, f) /\ Format[f] = "rbl" /\ CrcMatches(download, f)

\* No magic word, or an RBL head whose checksums fail: skip to the app.
CheckFwNoFirmware ==
  /\ FotaTurn("CHECK_FW")
  /\ \A f \in Files : ~Magic(f) /\ ~RblPasses(f)
  /\ Goto("START_APP")
  /\ UNCHANGED <<pos, app_file_size, rymRam, ymodem_ota_msg, timers, flash,
                 line, resets>>

\* Magic word but wrong CRC: erase the download area, then skip to the app.
CheckFwCrcWrong(f) ==
  /\ FotaTurn("CHECK_FW")
  /\ Magic(f) /\ ~CrcMatches(download, f)
  /\ app_file_size' = Size[f]
  /\ pc' = "ERASE_DOWNLOAD"
  /\ pos' = 0
  /\ FOTA_tTaskState' = "START_APP"
  /\ UNCHANGED <<rymRam, ymodem_ota_msg, timers, flash, line, resets>>

\* Variant for mutation: the answers 1 and 2 exchanged.
CheckFwTargetSwapped(f) ==
  IF Format[f] = "rbl" THEN "FW_FORWARD"
  ELSE CASE Target[f] = "P2001_DRV" -> "FW_FORWARD"
         [] Target[f] = "TND" -> "FW_UPDATE"
         [] OTHER -> "START_APP"

CheckFwTarget(f) ==
  IF Format[f] = "rbl" THEN "FW_FORWARD"
  ELSE CASE Target[f] = "P2001_DRV" -> "FW_UPDATE"
         [] Target[f] = "TND" -> "FW_FORWARD"
         [] OTHER -> "START_APP"

CheckFwPasses(f) ==
  /\ FotaTurn("CHECK_FW")
  /\ RblPasses(f) \/ (Magic(f) /\ CrcMatches(download, f))
  /\ app_file_size' = Size[f]
  /\ Goto(CheckFwTarget(f))
  /\ UNCHANGED <<pos, rymRam, ymodem_ota_msg, timers, flash, line, resets>>

-----------------------------------------------------------------------------
(* FOTA_TASK_FW_UPDATE: FOTA_ucFirmwareUpdate erases the app area, copies  *)
(* app_file_size blocks, copies the header to FLASH_APP_INFO_ADDR (in the  *)
(* app area, so erased with it) and erases the download area.              *)

FotaUpdate ==
  /\ FotaTurn("FW_UPDATE")
  /\ pc' = "ERASE_APP"
  /\ pos' = 0
  /\ UNCHANGED <<fotaRam, rymRam, ymodem_ota_msg, timers, flash, line, resets>>

\* Variant for mutation: the download area is erased along with the app area.
EraseAppAndDownload ==
  /\ pc = "ERASE_APP"
  /\ app' = [app EXCEPT ![pos] = Erased]
  /\ download' = [download EXCEPT ![pos] = Erased]
  /\ IF pos + 1 < Blocks
     THEN pos' = pos + 1 /\ UNCHANGED <<pc, app_info>>
     ELSE pos' = 0 /\ pc' = "COPY" /\ app_info' = Erased
  /\ UNCHANGED <<fotaRam, rymRam, ymodem_ota_msg, timers, line, resets>>

EraseApp ==
  /\ pc = "ERASE_APP"
  /\ app' = [app EXCEPT ![pos] = Erased]
  /\ IF pos + 1 < Blocks
     THEN pos' = pos + 1 /\ UNCHANGED <<pc, app_info>>
     ELSE pos' = 0 /\ pc' = "COPY" /\ app_info' = Erased
  /\ UNCHANGED <<fotaRam, rymRam, ymodem_ota_msg, timers, download, line, resets>>

\* Variant for mutation: the copy stops one block short.
CopyBlockShort ==
  /\ pc = "COPY"
  /\ app' = [app EXCEPT ![pos] = download[pos]]
  /\ IF pos + 2 < app_file_size
     THEN pos' = pos + 1 /\ UNCHANGED pc
     ELSE pos' = 0 /\ pc' = "COPY_INFO"
  /\ UNCHANGED <<fotaRam, rymRam, ymodem_ota_msg, timers, download, app_info,
                 line, resets>>

CopyBlock ==
  /\ pc = "COPY"
  /\ app' = [app EXCEPT ![pos] = download[pos]]
  /\ IF pos + 1 < app_file_size
     THEN pos' = pos + 1 /\ UNCHANGED pc
     ELSE pos' = 0 /\ pc' = "COPY_INFO"
  /\ UNCHANGED <<fotaRam, rymRam, ymodem_ota_msg, timers, download, app_info,
                 line, resets>>

CopyInfo ==
  /\ pc = "COPY_INFO"
  /\ app_info' = download[0]
  /\ pc' = "ERASE_DOWNLOAD"
  /\ FOTA_tTaskState' = "START_APP"
  /\ UNCHANGED <<pos, app_file_size, rymRam, ymodem_ota_msg, timers, download,
                 app, line, resets>>

\* FLASH_vEraseSector on the download area, called by the FOTA task.
EraseDownload ==
  /\ pc = "ERASE_DOWNLOAD"
  /\ download' = [download EXCEPT ![pos] = Erased]
  /\ IF pos + 1 < Blocks
     THEN pos' = pos + 1 /\ UNCHANGED pc
     ELSE pos' = 0 /\ pc' = "YMODEM"
  /\ UNCHANGED <<fotaRam, rymRam, ymodem_ota_msg, timers, app, app_info, line,
                 resets>>

-----------------------------------------------------------------------------

\* FOTA_ucFirmwareForward asks the CAN task to forward the file and waits for
\* its final state.  can_iap is not in TASK_tTaskTbl, so that state never
\* comes and every turn ends here.
FotaForward ==
  /\ FotaTurn("FW_FORWARD")
  /\ Goto("FW_FORWARD")
  /\ UNCHANGED <<pos, app_file_size, rymRam, ymodem_ota_msg, timers, flash,
                 line, resets>>

\* The only check on the app: its first word must be a stack address.
StackWordOk == \E f \in Files : HeadOf(app, f) /\ Vector[f]

FotaStartApp ==
  /\ FotaTurn("START_APP")
  /\ StackWordOk
  /\ pc' = "APP"
  /\ UNCHANGED <<pos, fotaRam, rymRam, ymodem_ota_msg, timers, flash, line,
                 resets>>

\* Illegal app: listen again, with the ymodem session put back to its start.
FotaNoApp ==
  /\ FotaTurn("START_APP")
  /\ ~StackWordOk
  /\ Goto("CHECK_UPDATE")
  /\ ymodem_ota_sem' = 1                                \* ymodem_ota_task_init
  /\ ymodem_ota_task_state' = RYM_STAGE_ESTABLISHING
  /\ fota_tmr' = 1                                  \* 3600 s
  /\ UNCHANGED <<pos, app_file_size, ymodem_next_packet_index,
                 update_file_cur_size, held, ymodem_ota_msg, ymodem_tmr, flash,
                 line, resets>>

FotaStep ==
  \/ FotaInit \/ FotaCheckUpdate \/ FotaDownloading
  \/ CheckFwNoFirmware
  \/ \E f \in Files : CheckFwCrcWrong(f) \/ CheckFwPasses(f)
  \/ FotaUpdate \/ EraseApp \/ CopyBlock \/ CopyInfo \/ EraseDownload
  \/ FotaForward \/ FotaStartApp \/ FotaNoApp
=============================================================================
