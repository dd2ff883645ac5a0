----------------------------- MODULE Bootloader -----------------------------
(***************************************************************************)
(* The DFU bootloader: the boot decision (bootloader/src/main.c), the DFU  *)
(* class (bootloader/src/usb_dfu.c) and the flash helpers                  *)
(* (bootloader/src/flash.c), with a host that may send any request at any  *)
(* time.                                                                   *)
(*                                                                         *)
(* Flash is counted in pages of 2 KiB, DFU's wTransferSize: block b of a   *)
(* download is page Base + b.  A page is a row of cells, each of several   *)
(* half-words; the first cell of the firmware region holds the two words   *)
(* of the vector table.  A half-written cell reads as Torn, which is never *)
(* a plausible vector table (its unwritten half-words are 0xFFFF).         *)
(*                                                                         *)
(* Everything the bootloader does is one loop; flash_program runs inside   *)
(* the GETSTATUS handler, where only the power can interrupt it.           *)
(***************************************************************************)
EXTENDS Naturals

CONSTANTS Base, End,       \* FLASH_FIRMWARE_BASE and _END, in pages
          PageCells,       \* cells of a page
          Data,            \* what a cell of an image can hold
          Vectors,         \* those that firmware_looks_valid accepts
          Erased, Torn,    \* an erased and a half-written cell
          Protected,       \* pages write-protected by the option bytes
          Shipped,         \* the flash of a mouse with firmware on it
          Blocks           \* wValue of a DNLOAD

Pages == 0 .. End - 1
CellIx == 1 .. PageCells
Content == Data \cup {Erased, Torn}
ErasedPage == [c \in CellIx |-> Erased]

ASSUME BootAssumption ==
    /\ Base \in Nat /\ End \in Nat /\ Base < End
    /\ PageCells \in Nat \ {0}
    /\ Erased \notin Data /\ Torn \notin Data /\ Erased # Torn
    /\ Vectors \subseteq Data
    /\ Protected \subseteq Pages
    /\ Shipped \in [Pages -> [CellIx -> Content]]
    /\ Blocks \subseteq Nat

States == {"IDLE", "DNLOAD_SYNC", "DNLOAD_IDLE", "MANIFEST_SYNC", "MANIFEST", "ERROR"}
Statuses == {"OK", "errWRITE", "errUNKNOWN"}
NoReply == [status |-> "none", state |-> "none"]

VARIABLES mode,            \* "off", "boot" (just reset), "dfu", "firmware"
          flash,
          magic,           \* BOOT_MAGIC_ADDR == BOOT_MAGIC
          sr,              \* FLASH_SR error flags, cleared only by a reset
          dfu_state, dfu_status,
          dnload_block, dnload_len, dnload_buf,
          reset_pending,
          pc, written,     \* inside flash_program: "erase", "program"; else "poll"
          reply,           \* the last GETSTATUS answer, if nothing came after it
          fwd_was_pressed, armed

dfu == <<dfu_state, dfu_status>>
dnload == <<dnload_block, dnload_len, dnload_buf>>
prog == <<pc, written, sr>>
button == <<fwd_was_pressed, armed>>
vars == <<mode, flash, magic, dfu, dnload, prog, reset_pending, reply, button>>

\* Mutant: the block number is ignored.
FirstPage(b) == Base
Page(b) == Base + b
Target == Page(dnload_block)

-----------------------------------------------------------------------------
(* The C run-time initialises every variable after a reset; only flash and *)
(* the reserved magic word survive.                                        *)
RamReset ==
    /\ dfu_state' = "IDLE" /\ dfu_status' = "OK"
    /\ dnload_block' = 0 /\ dnload_len' = 0 /\ dnload_buf' = [c \in 1 .. 0 |-> Erased]
    /\ pc' = "poll" /\ written' = 0 /\ sr' = {}
    /\ reset_pending' = FALSE
    /\ reply' = NoReply
    /\ fwd_was_pressed' = FALSE /\ armed' = FALSE

Init ==
    /\ mode = "off"
    /\ flash \in {Shipped, [p \in Pages |-> IF p < Base THEN Shipped[p] ELSE ErasedPage]}
    /\ magic = FALSE
    /\ dfu_state = "IDLE" /\ dfu_status = "OK"
    /\ dnload_block = 0 /\ dnload_len = 0 /\ dnload_buf = [c \in 1 .. 0 |-> Erased]
    /\ pc = "poll" /\ written = 0 /\ sr = {}
    /\ reset_pending = FALSE
    /\ reply = NoReply
    /\ fwd_was_pressed = FALSE /\ armed = FALSE

scb_reset_system == mode' = "boot" /\ RamReset /\ UNCHANGED <<flash, magic>>

(* The SRAM holds anything after power-up, the magic word included.        *)
PowerUp ==
    /\ mode = "off"
    /\ mode' = "boot"
    /\ magic' \in BOOLEAN
    /\ UNCHANGED <<flash, dfu, dnload, prog, reset_pending, reply, button>>

firmware_looks_valid == flash[Base][1] \in Vectors

\* Mutant: the physical override is forgotten.
StayUnlessValid(dpi) == magic \/ ~firmware_looks_valid
should_stay_in_bootloader(dpi) == magic \/ dpi \/ ~firmware_looks_valid

(* main() of the bootloader, with the DPI button held or not.              *)
Boot(dpi) ==
    /\ mode = "boot"
    /\ magic' = FALSE
    /\ mode' = IF should_stay_in_bootloader(dpi) THEN "dfu" ELSE "firmware"
    /\ UNCHANGED <<flash, dfu, dnload, prog, reset_pending, reply, button>>

(* reboot_to_bootloader() of the application firmware.                     *)
FirmwareReboot ==
    /\ mode = "firmware"
    /\ mode' = "boot"
    /\ magic' = TRUE
    /\ RamReset
    /\ UNCHANGED flash

-----------------------------------------------------------------------------
(* Requests: usbd_poll calls dfu_control_request, which no other request   *)
(* and no button can interrupt.                                            *)
Serving == mode = "dfu" /\ pc = "poll" /\ ~reset_pending

\* Mutant: a block shorter than the one before it keeps the end of that one.
DnloadKeepsTail(b, len, data) ==
    /\ Serving
    /\ dnload_block' = b /\ dnload_len' = IF len < dnload_len THEN dnload_len ELSE len
    /\ dnload_buf' = [c \in 1 .. dnload_len' |-> IF c <= len THEN data[c] ELSE dnload_buf[c]]
    /\ dfu_state' = "DNLOAD_SYNC"
    /\ reply' = NoReply
    /\ UNCHANGED <<mode, flash, magic, dfu_status, prog, reset_pending, button>>
\* DFU_DNLOAD with data: kept in RAM until the next GETSTATUS.
Dnload(b, len, data) ==
    /\ Serving
    /\ dnload_block' = b /\ dnload_len' = len /\ dnload_buf' = data
    /\ dfu_state' = "DNLOAD_SYNC"
    /\ reply' = NoReply
    /\ UNCHANGED <<mode, flash, magic, dfu_status, prog, reset_pending, button>>

\* DFU_DNLOAD with a wLength beyond the buffer, which only an IN request can
\* have: the stack stalls an OUT stage that long before the handler sees it.
DnloadTooLong ==
    /\ Serving
    /\ dfu_state' = "ERROR" /\ dfu_status' = "errUNKNOWN"
    /\ reply' = NoReply
    /\ UNCHANGED <<mode, flash, magic, dnload, prog, reset_pending, button>>

\* DFU_DNLOAD of length zero.
DnloadEnd ==
    /\ Serving
    /\ dfu_state' = "MANIFEST_SYNC"
    /\ reply' = NoReply
    /\ UNCHANGED <<mode, flash, magic, dfu_status, dnload, prog, reset_pending, button>>

\* Mutant: the state changes, but the handler returns no buffer.
AnswerLost(status, state) ==
    /\ dfu_status' = status /\ dfu_state' = state
    /\ reply' = NoReply
Answer(status, state) ==
    /\ dfu_status' = status /\ dfu_state' = state
    /\ reply' = [status |-> status, state |-> state]

flash_is_writable(p) == Base <= p /\ p < End

\* Mutant: a block outside the firmware's region is skipped.
SkipBlock == Answer(dfu_status, "DNLOAD_IDLE")
RejectBlock == Answer("errWRITE", "ERROR")

\* DFU_GETSTATUS with a block pending enters flash_program.
GetStatusProgram ==
    /\ Serving
    /\ dfu_state = "DNLOAD_SYNC"
    /\ IF flash_is_writable(Target)
         THEN pc' = "erase" /\ reply' = NoReply /\ UNCHANGED dfu
         ELSE RejectBlock /\ pc' = pc
    /\ UNCHANGED <<mode, flash, magic, dnload, written, sr, reset_pending, button>>

\* Any other DFU_GETSTATUS; MANIFEST schedules the reset.
AfterGetStatus(s) == CASE s = "MANIFEST_SYNC" -> "MANIFEST"
                       [] s = "MANIFEST"      -> "IDLE"
                       [] OTHER               -> s
GetStatus ==
    /\ Serving
    /\ dfu_state # "DNLOAD_SYNC"
    /\ reset_pending' = (dfu_state = "MANIFEST")
    /\ Answer(dfu_status, AfterGetStatus(dfu_state))
    /\ UNCHANGED <<mode, flash, magic, dnload, prog, button>>

ClrStatus ==
    /\ Serving
    /\ dfu_state' = "IDLE" /\ dfu_status' = "OK"
    /\ reply' = NoReply
    /\ UNCHANGED <<mode, flash, magic, dnload, prog, reset_pending, button>>

Abort ==
    /\ Serving
    /\ dfu_state' = "IDLE"
    /\ reply' = NoReply
    /\ UNCHANGED <<mode, flash, magic, dfu_status, dnload, prog, reset_pending, button>>

Detach == Serving /\ scb_reset_system

-----------------------------------------------------------------------------
(* flash_program: one page erased, then the cells of the block.  Only      *)
(* PGERR is looked at after the erase, and no error flag is ever cleared.  *)
EraseFailed(flags) == "PGERR" \in flags
\* Mutant: the loop over the pages runs one page too far.
EraseTwoPages ==
    /\ mode = "dfu" /\ pc = "erase"
    /\ flash' = [p \in Pages |-> IF p \in {Target, Target + 1} \ Protected
                                 THEN ErasedPage ELSE flash[p]]
    /\ sr' = sr /\ written' = 0
    /\ pc' = "program"
    /\ UNCHANGED <<dfu, reply, mode, magic, dnload, reset_pending, button>>
ErasePage ==
    /\ mode = "dfu" /\ pc = "erase"
    /\ IF Target \in Protected
         THEN flash' = flash /\ sr' = sr \cup {"WRPRTERR"}
         ELSE flash' = [flash EXCEPT ![Target] = ErasedPage] /\ sr' = sr
    /\ written' = 0
    /\ IF EraseFailed(sr')
         THEN pc' = "poll" /\ Answer("errWRITE", "ERROR")
         ELSE pc' = "program" /\ UNCHANGED <<dfu, reply>>
    /\ UNCHANGED <<mode, magic, dnload, reset_pending, button>>

\* Mutants: only one of the error flags, or none, is looked at.
OnlyPgerr(flags) == "PGERR" \in flags
NeverFails(flags) == FALSE
ProgramFailed(flags) == flags # {}

\* The controller refuses a protected page and a cell that is not erased
\* (PGERR); a worn cell may look not erased.
ProgramCell ==
    LET c == written + 1
    IN  /\ mode = "dfu" /\ pc = "program"
        /\ written < dnload_len
        /\ \/ /\ Target \in Protected
              /\ sr' = sr \cup {"WRPRTERR"}
              /\ flash' = flash
           \/ /\ Target \notin Protected
              /\ sr' = sr \cup {"PGERR"}
              /\ flash' = flash
           \/ /\ Target \notin Protected
              /\ flash[Target][c] = Erased
              /\ sr' = sr
              /\ flash' = [flash EXCEPT ![Target][c] = dnload_buf[c]]
        /\ IF ProgramFailed(sr')
             THEN written' = 0 /\ pc' = "poll" /\ Answer("errWRITE", "ERROR")
             ELSE written' = c /\ UNCHANGED <<pc, dfu, reply>>
        /\ UNCHANGED <<mode, magic, dnload, reset_pending, button>>

\* Mutant: the loop over the half-words stops one early.
DoneEarly ==
    /\ mode = "dfu" /\ pc = "program"
    /\ written + 1 = dnload_len
    /\ pc' = "poll" /\ written' = 0
    /\ Answer(dfu_status, "DNLOAD_IDLE")
    /\ UNCHANGED <<mode, flash, magic, sr, dnload, reset_pending, button>>
ProgramDone ==
    /\ mode = "dfu" /\ pc = "program"
    /\ written = dnload_len
    /\ pc' = "poll" /\ written' = 0
    /\ Answer(dfu_status, "DNLOAD_IDLE")
    /\ UNCHANGED <<mode, flash, magic, sr, dnload, reset_pending, button>>

-----------------------------------------------------------------------------
(* The rest of the loop of usb_dfu_run.                                    *)

\* The FWD button: a press arms it, the release resets, also when the reset
\* that ends a download is pending.
PollFwd(fwd) ==
    /\ mode = "dfu" /\ pc = "poll"
    /\ LET armed1 == armed \/ (fwd /\ ~fwd_was_pressed)
       IN  IF ~fwd /\ fwd_was_pressed /\ armed1
             THEN scb_reset_system
             ELSE /\ armed' = armed1
                  /\ fwd_was_pressed' = fwd
                  /\ UNCHANGED <<mode, flash, magic, dfu, dnload, prog, reset_pending, reply>>

\* The reply has drained out of the FIFO when the spin is over.
\* Mutant: the reset waits for the answer to be taken.
ResetWhenTaken ==
    /\ mode = "dfu" /\ pc = "poll" /\ reset_pending /\ reply = NoReply
    /\ scb_reset_system
DelayedReset ==
    /\ mode = "dfu" /\ pc = "poll" /\ reset_pending
    /\ scb_reset_system

(* What an interrupted erase or an interrupted half-word leaves behind.    *)
PowerLoss ==
    /\ mode # "off"
    /\ mode' = "off"
    /\ \/ flash' = flash
       \/ /\ pc = "erase" /\ Target \notin Protected
          /\ \E S \in SUBSET CellIx :
                flash' = [flash EXCEPT ![Target] =
                            [c \in CellIx |-> IF c \in S THEN Torn ELSE @[c]]]
       \/ /\ pc = "program" /\ Target \notin Protected /\ written < dnload_len
          /\ flash[Target][written + 1] = Erased
          /\ flash' = [flash EXCEPT ![Target][written + 1] = Torn]
    /\ magic' = FALSE
    /\ RamReset

Request ==
    \/ \E b \in Blocks, len \in CellIx : \E data \in [1 .. len -> Data] : Dnload(b, len, data)
    \/ DnloadTooLong \/ DnloadEnd \/ GetStatusProgram \/ GetStatus \/ ClrStatus \/ Abort \/ Detach
Device == ErasePage \/ ProgramCell \/ ProgramDone \/ DelayedReset
Buttons == (\E dpi \in BOOLEAN : Boot(dpi)) \/ (\E fwd \in BOOLEAN : PollFwd(fwd))

Next == PowerUp \/ Buttons \/ FirmwareReboot \/ Request \/ Device \/ PowerLoss

(* The processor keeps running while it has power.                         *)
Fairness == WF_vars(Device) /\ WF_vars(\E dpi \in BOOLEAN : Boot(dpi))
Spec == Init /\ [][Next]_vars /\ Fairness

-----------------------------------------------------------------------------
(* Types; the buffer is as long as the last block.                         *)
TypeOK ==
    /\ mode \in {"off", "boot", "dfu", "firmware"}
    /\ flash \in [Pages -> [CellIx -> Content]]
    /\ magic \in BOOLEAN
    /\ sr \subseteq {"PGERR", "WRPRTERR"}
    /\ dfu_state \in States /\ dfu_status \in Statuses
    /\ dnload_block \in Nat
    /\ dnload_len \in 0 .. PageCells /\ dnload_buf \in [1 .. dnload_len -> Data]
    /\ reset_pending \in BOOLEAN
    /\ pc \in {"poll", "erase", "program"} /\ written \in 0 .. dnload_len
    /\ reply \in {NoReply} \cup [status : Statuses, state : States]
    /\ fwd_was_pressed \in BOOLEAN /\ armed \in BOOLEAN

(* The page of the last block holds exactly that block, the rest of the    *)
(* page erased.                                                            *)
Applied(n) ==
    \A c \in CellIx : flash[Target][c] = IF c <= n THEN dnload_buf[c] ELSE Erased

(* usb_dfu.c:140: an answer "dfuDNLOAD-IDLE" is given only for a block     *)
(* that is in flash as it was sent; it stays there until the next request. *)
IdleMeansWritten == dfu_state = "DNLOAD_IDLE" => Applied(dnload_len)

(* An error flag of the controller is never hidden by a later answer: once *)
(* one is up no block is accepted any more until the next reset, whatever  *)
(* the host clears.                                                        *)
ErrorNotHidden == dfu_state = "DNLOAD_IDLE" => sr = {}

(* The inductive invariant behind them.                                    *)
Programming ==
    /\ pc # "program" => written = 0
    /\ pc # "poll" => /\ mode = "dfu" /\ dfu_state = "DNLOAD_SYNC" /\ ~reset_pending
                      /\ flash_is_writable(Target) /\ dnload_len > 0
ProgramExact ==
    pc = "program" =>
        \/ Target \in Protected /\ written = 0 /\ sr # {}
        \/ /\ Target \notin Protected
           /\ sr = {} \/ written = 0
           /\ Applied(written)
SyncHasBlock == dfu_state = "DNLOAD_SYNC" => dnload_len > 0
BootInv == /\ TypeOK /\ IdleMeansWritten /\ ErrorNotHidden
           /\ Programming /\ ProgramExact /\ SyncHasBlock

(* flash.c:4-6: the bootloader never writes its own pages, and no step     *)
(* touches a page other than the one of the block being programmed.        *)
OnlyTargetWritten ==
    [][\A p \in Pages : flash'[p] # flash[p] => p >= Base /\ p = Target /\ pc # "poll"]_vars

(* The bootloader implements module BlockStore: whatever the host sends,   *)
(* and whenever the power goes away, a block is stored as a whole or       *)
(* judged a failure, in its own page only.                                 *)
Verdict == IF pc # "poll" THEN "writing"
           ELSE CASE dfu_state = "DNLOAD_SYNC" -> "pending"
                  [] dfu_state = "DNLOAD_IDLE" -> "stored"
                  [] dfu_state = "ERROR"       -> "failed"
                  [] OTHER                     -> "none"
NotWritten == [c \in {} |-> Erased]
SeenPages == [p \in Pages |-> IF pc # "poll" /\ p = Target THEN NotWritten ELSE flash[p]]
PendingBlock ==
    [page |-> Target, holds |-> [c \in CellIx |-> IF c <= dnload_len THEN dnload_buf[c] ELSE Erased]]

Promise == INSTANCE BlockStore
             WITH Writable <- {p \in Pages : flash_is_writable(p)}, Contents <- [CellIx -> Content],
                  Unknown <- NotWritten, pages <- SeenPages, block <- PendingBlock,
                  verdict <- Verdict, faulty <- sr # {}
ImplementsBlocks == Promise!Spec

(* usb_dfu.c:153-157: the reset that ends a download waits for the answer  *)
(* and then happens, whatever the host does.                               *)
ManifestResets == reset_pending ~> mode # "dfu"

(* A GETSTATUS that programs a block is answered, or the power goes away.  *)
ProgramAnswers == pc # "poll" ~> reply # NoReply \/ mode = "off"

(* usb_dfu.c:140 "so the response reports the true result".                *)
TrueResult == reply # NoReply /\ reply.state = "DNLOAD_IDLE" => reply.status = "OK"

(* usb_dfu.c:149 "All blocks applied".                                     *)
AllBlocksApplied ==
    dfu_state \in {"MANIFEST_SYNC", "MANIFEST"} /\ dnload_len > 0 => Applied(dnload_len)
=============================================================================
