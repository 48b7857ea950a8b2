------------------------------ MODULE BootState ------------------------------
(***************************************************************************)
(* The memory of the P2001 bootloader: the two flash areas that survive a  *)
(* reset, the RAM of the two tasks of the cooperative loop (FOTA and       *)
(* ymodem), the one-message mailbox filled by the UART receive interrupt,  *)
(* the two software timers, and the machine at the other end of the line.  *)
(*                                                                         *)
(* Flash is modelled by blocks: one block stands for an erase sector and   *)
(* for the payload of one packet.  A block holds Erased, Junk, or block k  *)
(* of file f, written <<f, k>>.  Block 0 of a file carries its 32 byte     *)
(* header (magic, size, CRC, target).  Files and their attributes are      *)
(* constants.  A CRC comparison is exact: it succeeds iff the bytes are    *)
(* those of a file whose own CRC field is right.                           *)
(***************************************************************************)
EXTENDS Integers

CONSTANTS
  Files,          \* the firmware files somebody may send
  Format,         \* Files -> {"rbl", "fota", "raw"}: which header it starts with
  Target,         \* Files -> {"P2001_DRV", "TND", "other"}: target device
  Size,           \* Files -> number of blocks
  Sound,          \* Files -> BOOLEAN: the CRC stored in the header is right
  Vector,         \* Files -> BOOLEAN: first word is a stack in 0x1FFFxxxx
  Factory,        \* what the app area may hold at first: files, or NoFile
  Blocks,         \* blocks of the app area and of the download area
  IndexMod,       \* packet numbers are taken modulo this (256 in the code)
  MaxResets,      \* bound on the number of power losses
  Patient,        \* the sender waits for the device before it sends again
  Quiet,          \* no session is opened while an update is pending
  NoFile, Erased, Junk

ASSUME SizesAssumption ==
  /\ Blocks \in Nat \ {0}
  /\ IndexMod \in Nat \ {0, 1}
  /\ MaxResets \in Nat
  /\ Patient \in BOOLEAN
  /\ Quiet \in BOOLEAN

ASSUME FilesAssumption ==
  /\ Format \in [Files -> {"rbl", "fota", "raw"}]
  /\ Target \in [Files -> {"P2001_DRV", "TND", "other"}]
  /\ Size \in [Files -> Nat \ {0}]
  /\ Sound \in [Files -> BOOLEAN]
  /\ Vector \in [Files -> BOOLEAN]
  /\ NoFile \notin Files
  /\ Factory \subseteq Files \cup {NoFile}
  /\ \A f \in Factory \ {NoFile} : Size[f] <= Blocks

ASSUME CellsAssumption ==
  /\ Erased # Junk
  /\ Erased \notin Files \X Nat
  /\ Junk \notin Files \X Nat

VARIABLES
  pc,                        \* where the main loop stands
  pos,                       \* block a running flash operation has reached
  FOTA_tTaskState,
  app_file_size,
  fota_tmr,                  \* TMR_FOTA_POLLING: 0 expired, 1 running
  ymodem_ota_sem,
  ymodem_ota_task_state,
  ymodem_next_packet_index,
  update_file_cur_size,
  ymodem_ota_msg,
  held,                      \* the message ymodem_on_data was called for
  ymodem_tmr,                \* TMR_YMODEM_POLLING: 0 expired, 1 running
  download, app, app_info,   \* flash
  sender, reply,             \* the sender and the last character it can read
  resets                     \* power losses so far

flash == <<download, app, app_info>>
rymRam == <<ymodem_ota_sem, ymodem_ota_task_state, ymodem_next_packet_index,
            update_file_cur_size, held>>
fotaRam == <<FOTA_tTaskState, app_file_size>>
timers == <<fota_tmr, ymodem_tmr>>
line == <<sender, reply>>
vars == <<pc, pos, fotaRam, rymRam, ymodem_ota_msg, timers, flash, line, resets>>

-----------------------------------------------------------------------------
(* Flash contents.                                                         *)

Positions == 0 .. Blocks - 1
Cells == (Files \X Nat) \cup {Erased, Junk}

Blank == [k \in Positions |-> Erased]
Image(f) == [k \in Positions |-> IF k < Size[f] THEN <<f, k>> ELSE Erased]

\* Variant for mutation: no checksum is compared.
CrcUnchecked(area, f) == area[0] = <<f, 0>>

\* FOTA_ucCheckFlashCrc and FOTA_ulCalculateCrc: the area holds f, all of it,
\* and the checksum stored in f is that of its contents.
CrcMatches(area, f) ==
  /\ Sound[f]
  /\ Size[f] <= Blocks
  /\ \A k \in 0 .. Size[f] - 1 : area[k] = <<f, k>>

\* The header found at the start of an area.
HeadOf(area, f) == area[0] = <<f, 0>>

\* What FOTA_ucCheckFirmware answers 1 for: a firmware of this board, ready
\* to be copied to the app area.
Installable(area, f) ==
  /\ HeadOf(area, f)
  /\ Format[f] = "fota"
  /\ CrcMatches(area, f)
  /\ Target[f] = "P2001_DRV"

-----------------------------------------------------------------------------
(* States of the two tasks, in the order of their enumerations.            *)

FotaStates == {"INIT", "CHECK_UPDATE", "DOWNLOADING", "CHECK_FW",
               "FW_UPDATE", "FW_FORWARD", "START_APP"}

RYM_STAGE_NONE          == 0
RYM_STAGE_ESTABLISHING  == 1
RYM_STAGE_ESTABLISHED   == 2
RYM_STAGE_TRANSMITTING  == 3
RYM_STAGE_FINISHING     == 4
RYM_STAGE_FINISH_PACKET == 5
RYM_STAGE_FINISHED      == 6
RYM_STAGE_RESET         == 7

\* A message is what one UART receive timeout leaves in the mailbox.
Message(type, f, k) == [type |-> type, file |-> f, blk |-> k]
NoMsg == Message("none", NoFile, 0)
Messages ==
  [type : {"begin", "data"}, file : Files, blk : Nat]
    \cup [type : {"none", "eot", "null", "bad"}, file : {NoFile}, blk : {0}]

\* The packet number in the second byte: 0 for the first and last packet of
\* a session, and 1, 2, ... modulo 256 for the data packets.
SeqNo(m) == IF m.type = "data" THEN (m.blk + 1) % IndexMod ELSE 0

ymodem_is_ota_data_received ==
  ymodem_ota_task_state > RYM_STAGE_ESTABLISHING

TMR_bIsTimeExpired(tmr) == tmr = 0

\* A firmware of this board is waiting in the download area.
Pending == \E f \in Files : Installable(download, f)

\* Contents of RAM after a reset: every static variable is zero again.
RamCleared ==
  /\ pc = "FOTA"
  /\ pos = 0
  /\ FOTA_tTaskState = "INIT"
  /\ app_file_size = 0
  /\ fota_tmr = 0
  /\ ymodem_ota_sem = 0
  /\ ymodem_ota_task_state = RYM_STAGE_NONE
  /\ ymodem_next_packet_index = 0
  /\ update_file_cur_size = 0
  /\ ymodem_ota_msg = NoMsg
  /\ held = NoMsg
  /\ ymodem_tmr = 0

\* The same of the next state: power-on and hw_cpu_reset.
ClearRam ==
  /\ pc' = "FOTA"
  /\ pos' = 0
  /\ FOTA_tTaskState' = "INIT"
  /\ app_file_size' = 0
  /\ fota_tmr' = 0
  /\ ymodem_ota_sem' = 0
  /\ ymodem_ota_task_state' = RYM_STAGE_NONE
  /\ ymodem_next_packet_index' = 0
  /\ update_file_cur_size' = 0
  /\ ymodem_ota_msg' = NoMsg
  /\ held' = NoMsg
  /\ ymodem_tmr' = 0

hw_cpu_reset ==
  /\ ClearRam
  /\ UNCHANGED <<flash, line, resets>>
=============================================================================
