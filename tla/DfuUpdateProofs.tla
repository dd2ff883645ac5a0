------------------------- MODULE DfuUpdateProofs --------------------------
(***************************************************************************)
(* Proofs about the bootloader and about a firmware update.                *)
(*                                                                         *)
(* First module Bootloader, under any host, for every size of the flash    *)
(* and of a page, any image data and any set of write-protected pages;     *)
(* nothing here cites more than BootAssumption.  Then module DfuUpdate:    *)
(* for every set of images and any number of faults, what the tool has     *)
(* been told is in flash is there.                                         *)
(***************************************************************************)
EXTENDS DfuUpdate, TLAPS

(* A page of Content stays one, whatever replaces some of its cells.       *)
LEMMA FlashTypes ==
    ASSUME TypeOK, Target \in Pages
    PROVE  /\ ErasedPage \in [CellIx -> Content]
           /\ \A pg \in [CellIx -> Content] :
                 [flash EXCEPT ![Target] = pg] \in [Pages -> [CellIx -> Content]]
           /\ \A c \in CellIx, x \in Content :
                 [flash EXCEPT ![Target][c] = x] \in [Pages -> [CellIx -> Content]]
BY DEF TypeOK, ErasedPage, Content

(* A writable page is a page of the firmware region.                       *)
LEMMA WritablePage ==
    ASSUME NEW p \in Nat, flash_is_writable(p) PROVE p \in Pages /\ p >= Base
BY BootAssumption DEF flash_is_writable, Pages

LEMMA TargetWritable ==
    ASSUME BootInv, pc # "poll" PROVE Target \in Pages /\ Target >= Base /\ Target \in Nat
<1>1. Target \in Nat
  BY BootAssumption DEF BootInv, TypeOK, Target, Page
<1> QED
  BY <1>1, WritablePage DEF BootInv, Programming

(* After a reset the RAM is as main() finds it.                            *)
LEMMA ResetInv ==
    ASSUME RamReset, flash' \in [Pages -> [CellIx -> Content]], magic' \in BOOLEAN,
           mode' \in {"off", "boot"}
    PROVE  BootInv'
<1>1. TypeOK'
  <2>1. [c \in 1 .. 0 |-> Erased] \in [1 .. 0 -> Data] /\ 0 \in 0 .. PageCells
    BY BootAssumption
  <2>2. dnload_len' = 0 /\ dnload_buf' \in [1 .. dnload_len' -> Data]
    BY <2>1 DEF RamReset
  <2>3. dnload_len' \in 0 .. PageCells /\ written' \in 0 .. dnload_len'
    BY <2>1 DEF RamReset
  <2> QED
    BY <2>2, <2>3 DEF RamReset, TypeOK, States, Statuses
<1> QED
  BY <1>1 DEF RamReset, BootInv, IdleMeansWritten, ErrorNotHidden, Programming, ProgramExact,
                  SyncHasBlock

LEMMA BootInit == Init => BootInv
<1> SUFFICES ASSUME Init PROVE BootInv
  OBVIOUS
<1>1. ErasedPage \in [CellIx -> Content]
  BY DEF ErasedPage, Content
<1>2. flash \in [Pages -> [CellIx -> Content]]
  BY <1>1, BootAssumption DEF Init
<1>3. TypeOK
  <2>1. [c \in 1 .. 0 |-> Erased] \in [1 .. 0 -> Data] /\ 0 \in 0 .. PageCells
    BY BootAssumption
  <2>2. dnload_len = 0 /\ dnload_buf \in [1 .. dnload_len -> Data]
    BY <2>1 DEF Init
  <2>3. dnload_len \in 0 .. PageCells /\ written \in 0 .. dnload_len
    BY <2>1 DEF Init
  <2> QED
    BY <1>2, <2>2, <2>3 DEF Init, TypeOK, States, Statuses
<1> QED
  BY <1>3 DEF Init, BootInv, IdleMeansWritten, ErrorNotHidden, Programming, ProgramExact,
              SyncHasBlock

(* Steps that touch neither flash nor the pending block and answer no      *)
(* "dfuDNLOAD-IDLE" that was not there before.                             *)
LEMMA QuietStep ==
    ASSUME BootInv, TypeOK', pc = "poll", pc' = "poll", flash' = flash, sr' = sr,
           dnload_block' = dnload_block, dnload_len' = dnload_len, dnload_buf' = dnload_buf,
           dfu_state' = "DNLOAD_IDLE" => dfu_state = "DNLOAD_IDLE",
           dfu_state' # "DNLOAD_SYNC", written' = written
    PROVE  BootInv'
<1>1. Target' = Target
  BY DEF Target, Page
<1> QED
  BY <1>1 DEF BootInv, IdleMeansWritten, ErrorNotHidden, Programming, ProgramExact, Applied,
                  SyncHasBlock

LEMMA DnloadStep ==
    ASSUME BootInv, NEW b \in Nat, NEW len \in CellIx, NEW data \in [1 .. len -> Data],
           Dnload(b, len, data)
    PROVE  BootInv'
<1> USE DEF dfu, dnload, prog, button, Serving
<1>1. len \in 0 .. PageCells /\ TypeOK
  BY BootAssumption DEF CellIx, BootInv
<1>2. pc = "poll" /\ pc' = "poll" /\ written' = 0 /\ written' \in 0 .. dnload_len'
  BY <1>1 DEF BootInv, Programming, Dnload
<1>3. TypeOK'
  BY <1>1, <1>2 DEF Dnload, TypeOK, States
<1> QED
  BY <1>2, <1>3 DEF Dnload, BootInv, IdleMeansWritten, ErrorNotHidden,
                    Programming, ProgramExact, SyncHasBlock, CellIx

LEMMA RequestStep == BootInv /\ Request => BootInv'
<1> SUFFICES ASSUME BootInv, Request PROVE BootInv'
  OBVIOUS
<1> USE DEF dfu, dnload, prog, button, Serving
<1>0. TypeOK
  BY DEF BootInv
<1>1. ASSUME NEW b \in Blocks, NEW len \in CellIx, NEW data \in [1 .. len -> Data],
             Dnload(b, len, data)
      PROVE  BootInv'
  BY <1>1, BootAssumption, DnloadStep
<1>2. CASE DnloadTooLong \/ DnloadEnd \/ ClrStatus \/ Abort
  <2>1. TypeOK'
    BY <1>0, <1>2 DEF TypeOK, DnloadTooLong, DnloadEnd, ClrStatus, Abort, States, Statuses
  <2> QED
    BY <1>2, <2>1, QuietStep DEF DnloadTooLong, DnloadEnd, ClrStatus, Abort
<1>3. CASE GetStatusProgram
  <2>1. Target' = Target /\ flash' = flash
    BY <1>3 DEF GetStatusProgram, Target, Page
  <2>2. CASE flash_is_writable(Target)
    <3>1. dnload_len > 0
      BY <1>0, <1>3 DEF BootInv, SyncHasBlock, GetStatusProgram
    <3>2. TypeOK'
      BY <1>0, <1>3, <2>2 DEF TypeOK, GetStatusProgram
    <3> QED
      BY <1>3, <2>1, <2>2, <3>1, <3>2 DEF GetStatusProgram, BootInv, IdleMeansWritten,
           ErrorNotHidden, Programming, ProgramExact, SyncHasBlock
  <2>3. CASE ~flash_is_writable(Target)
    <3>1. TypeOK'
      BY <1>0, <1>3, <2>3 DEF TypeOK, GetStatusProgram, RejectBlock, Answer, States, Statuses
    <3> QED
      BY <1>3, <2>3, <3>1, QuietStep DEF GetStatusProgram, RejectBlock, Answer
  <2> QED
    BY <2>2, <2>3
<1>4. CASE GetStatus
  <2>1. AfterGetStatus(dfu_state) \in States /\ dfu_status \in Statuses
        /\ (AfterGetStatus(dfu_state) = "DNLOAD_IDLE" => dfu_state = "DNLOAD_IDLE")
        /\ AfterGetStatus(dfu_state) # "DNLOAD_SYNC"
    BY <1>0, <1>4 DEF TypeOK, AfterGetStatus, States, GetStatus
  <2>2. TypeOK'
    BY <1>0, <1>4, <2>1 DEF TypeOK, GetStatus, Answer
  <2> QED
    BY <1>4, <2>1, <2>2, QuietStep DEF GetStatus, Answer
<1>5. CASE Detach
  <2>1. TypeOK
    BY <1>0
  <2> QED
    BY <1>5, <2>1, ResetInv DEF Detach, scb_reset_system, TypeOK
<1> QED
  BY <1>1, <1>2, <1>3, <1>4, <1>5 DEF Request

(* flash_program.                                                          *)
LEMMA EraseStep == BootInv /\ ErasePage => BootInv'
<1> SUFFICES ASSUME BootInv, ErasePage PROVE BootInv'
  OBVIOUS
<1> USE DEF dfu, dnload, prog, button
<1>0. /\ TypeOK /\ Target \in Pages /\ Target' = Target /\ dnload_len > 0
      /\ pc = "erase" /\ dnload_buf' = dnload_buf /\ dnload_len' = dnload_len
      /\ sr' \subseteq {"PGERR", "WRPRTERR"} /\ written' = 0 /\ 0 \in 0 .. dnload_len
  BY TargetWritable DEF BootInv, Programming, TypeOK, ErasePage, Target, Page
<1>1. flash' \in [Pages -> [CellIx -> Content]]
  BY <1>0, FlashTypes DEF ErasePage, EraseFailed, TypeOK
<1>2. TypeOK'
  BY <1>0, <1>1 DEF ErasePage, EraseFailed, Answer, TypeOK, States, Statuses
<1>3. CASE "PGERR" \in sr'
  BY <1>0, <1>2, <1>3 DEF ErasePage, EraseFailed, Answer, BootInv, IdleMeansWritten, ErrorNotHidden,
                          Programming, ProgramExact, SyncHasBlock
<1>4. CASE "PGERR" \notin sr'
  <2>1. pc' = "program" /\ dfu_state' = "DNLOAD_SYNC" /\ mode' = "dfu" /\ ~reset_pending'
        /\ flash_is_writable(Target')
    BY <1>0, <1>4 DEF ErasePage, EraseFailed, BootInv, Programming
  <2>2. ProgramExact'
    <3>1. CASE Target \in Protected
      BY <3>1, <1>0 DEF ProgramExact, ErasePage
    <3>2. CASE Target \notin Protected
      <4>1. flash'[Target] = ErasedPage
        BY <3>2, <1>0 DEF ErasePage, EraseFailed, TypeOK
      <4>2. Applied(0)'
        BY <4>1, <1>0, BootAssumption DEF Applied, ErasedPage, CellIx
      <4> QED
        BY <3>2, <4>2, <1>0 DEF ProgramExact
    <3> QED
      BY <3>1, <3>2
  <2> QED
    BY <1>0, <1>2, <2>1, <2>2 DEF BootInv, IdleMeansWritten, ErrorNotHidden, Programming,
                                  SyncHasBlock
<1> QED
  BY <1>3, <1>4

LEMMA ProgramStep == BootInv /\ ProgramCell => BootInv'
<1> SUFFICES ASSUME BootInv, ProgramCell PROVE BootInv'
  OBVIOUS
<1> USE DEF dfu, dnload, prog, button
<1>0. /\ TypeOK /\ Target \in Pages /\ Target' = Target /\ dnload_len > 0
      /\ pc = "program" /\ written \in Nat /\ written < dnload_len
      /\ dnload_buf' = dnload_buf /\ dnload_len' = dnload_len
      /\ written + 1 \in CellIx /\ written + 1 \in 1 .. dnload_len
      /\ dnload_len \in Nat /\ dnload_len <= PageCells
  BY TargetWritable, BootAssumption
     DEF BootInv, Programming, TypeOK, ProgramCell, Target, Page, CellIx
<1>1. dnload_buf[written + 1] \in Content
  BY <1>0 DEF TypeOK, Content
<1>2. flash' \in [Pages -> [CellIx -> Content]] /\ sr' \subseteq {"PGERR", "WRPRTERR"}
  <2>1. flash' = flash
        \/ flash' = [flash EXCEPT ![Target][written + 1] = dnload_buf[written + 1]]
    BY DEF ProgramCell
  <2>2. [flash EXCEPT ![Target][written + 1] = dnload_buf[written + 1]]
           \in [Pages -> [CellIx -> Content]]
    BY <1>0, <1>1, FlashTypes
  <2>3. sr' \subseteq {"PGERR", "WRPRTERR"}
    BY <1>0 DEF ProgramCell, ProgramFailed, TypeOK
  <2> QED
    BY <2>1, <2>2, <2>3, <1>0 DEF TypeOK
<1>3. TypeOK'
  BY <1>0, <1>2 DEF ProgramCell, ProgramFailed, Answer, TypeOK, States, Statuses
<1>4. CASE sr' # {}
  BY <1>0, <1>3, <1>4 DEF ProgramCell, ProgramFailed, Answer, BootInv, IdleMeansWritten, ErrorNotHidden,
                          Programming, ProgramExact, SyncHasBlock
<1>5. CASE sr' = {}
  <2>1. /\ Target \notin Protected /\ sr = {} /\ written' = written + 1 /\ pc' = "program"
        /\ flash' = [flash EXCEPT ![Target][written + 1] = dnload_buf[written + 1]]
        /\ dfu_state' = dfu_state /\ mode' = mode /\ reset_pending' = reset_pending
    BY <1>0, <1>5 DEF ProgramCell, ProgramFailed, BootInv
  <2>2. Applied(written)
    BY <2>1, <1>0 DEF BootInv, ProgramExact
  <2>3. flash[Target] \in [CellIx -> Content]
    BY <1>0 DEF TypeOK
  <2>4. /\ flash'[Target][written + 1] = dnload_buf[written + 1]
        /\ \A c \in CellIx : c # written + 1 => flash'[Target][c] = flash[Target][c]
    BY <2>1, <2>3, <1>0 DEF TypeOK
  <2>5. Applied(written)'
    <3> SUFFICES ASSUME NEW c \in CellIx
                 PROVE  flash'[Target][c] = IF c <= written + 1 THEN dnload_buf[c] ELSE Erased
      BY <2>1, <1>0 DEF Applied
    <3>1. c \in Nat
      BY DEF CellIx
    <3>2. CASE c = written + 1
      BY <3>2, <2>4, <1>0
    <3>3. CASE c # written + 1
      <4>1. (c <= written + 1) <=> (c <= written)
        BY <3>1, <3>3, <1>0
      <4> QED
        BY <4>1, <3>3, <2>2, <2>4 DEF Applied
    <3> QED
      BY <3>2, <3>3
  <2> QED
    BY <1>0, <1>3, <1>5, <2>1, <2>5 DEF BootInv, IdleMeansWritten, ErrorNotHidden,
                                    Programming, ProgramExact, SyncHasBlock
<1> QED
  BY <1>4, <1>5

LEMMA DoneStep == BootInv /\ ProgramDone => BootInv'
<1> SUFFICES ASSUME BootInv, ProgramDone PROVE BootInv'
  OBVIOUS
<1> USE DEF dfu, dnload, prog, button
<1>0. /\ TypeOK /\ Target' = Target /\ flash' = flash /\ dnload_buf' = dnload_buf
      /\ dnload_len' = dnload_len /\ dnload_len > 0 /\ written = dnload_len /\ sr' = sr
      /\ pc = "program" /\ pc' = "poll" /\ written' = 0 /\ dfu_state' = "DNLOAD_IDLE"
  BY DEF BootInv, Programming, ProgramDone, Answer, Target, Page
<1>1. Applied(dnload_len) /\ sr = {}
  BY <1>0 DEF BootInv, ProgramExact, TypeOK
<1>2. TypeOK'
  BY <1>0 DEF TypeOK, ProgramDone, Answer, States, Statuses
<1> QED
  BY <1>0, <1>1, <1>2 DEF BootInv, IdleMeansWritten, ErrorNotHidden, Programming,
                          ProgramExact, SyncHasBlock, Applied

(* Resets, buttons and the power.                                          *)
LEMMA PowerLossFlash ==
    ASSUME BootInv, PowerLoss PROVE flash' \in [Pages -> [CellIx -> Content]]
<1>0. TypeOK /\ Torn \in Content
  BY DEF BootInv, Content
<1>1. CASE flash' = flash
  BY <1>0, <1>1 DEF TypeOK
<1>2. ASSUME pc = "erase", NEW S \in SUBSET CellIx,
             flash' = [flash EXCEPT ![Target] = [c \in CellIx |-> IF c \in S THEN Torn ELSE @[c]]]
      PROVE  flash' \in [Pages -> [CellIx -> Content]]
  <2>1. [c \in CellIx |-> IF c \in S THEN Torn ELSE flash[Target][c]] \in [CellIx -> Content]
    BY <1>0, <1>2, TargetWritable DEF TypeOK
  <2> QED
    BY <2>1, <1>0, <1>2, TargetWritable, FlashTypes
<1>3. CASE pc = "program" /\ written < dnload_len
           /\ flash' = [flash EXCEPT ![Target][written + 1] = Torn]
  <2>1. written + 1 \in CellIx /\ Target \in Pages
    BY <1>0, <1>3, TargetWritable, BootAssumption DEF TypeOK, CellIx
  <2> QED
    BY <2>1, <1>0, <1>3, FlashTypes
<1> QED
  BY <1>1, <1>2, <1>3 DEF PowerLoss

LEMMA BootNext == BootInv /\ [Next]_vars => BootInv'
<1> SUFFICES ASSUME BootInv, [Next]_vars PROVE BootInv'
  OBVIOUS
<1>0. TypeOK /\ Target \in Nat
  BY BootAssumption DEF BootInv, TypeOK, Target, Page
<1>1. CASE Request
  BY <1>1, RequestStep
<1>2. CASE Device
  <2>1. CASE DelayedReset
    BY <2>1, <1>0, ResetInv DEF DelayedReset, scb_reset_system, TypeOK
  <2> QED
    BY <2>1, <1>2, EraseStep, ProgramStep, DoneStep DEF Device
<1>3. CASE PowerLoss
  BY <1>3, PowerLossFlash, ResetInv DEF PowerLoss
<1>4. CASE FirmwareReboot
  BY <1>4, <1>0, ResetInv DEF FirmwareReboot, TypeOK
<1>5. CASE PowerUp \/ \E dpi \in BOOLEAN : Boot(dpi)
  <2> USE DEF dfu, dnload, prog, button
  <2>1. TypeOK'
    BY <1>0, <1>5 DEF TypeOK, PowerUp, Boot
  <2>2. pc = "poll"
    BY <1>5 DEF BootInv, Programming, PowerUp, Boot
  <2> QED
    BY <1>5, <2>1, <2>2 DEF PowerUp, Boot, BootInv, IdleMeansWritten, ErrorNotHidden,
         Programming, ProgramExact, SyncHasBlock, Applied, Target, Page
<1>6. ASSUME NEW fwd \in BOOLEAN, PollFwd(fwd) PROVE BootInv'
  <2> USE DEF dfu, dnload, prog, button
  <2>1. CASE scb_reset_system
    BY <2>1, <1>0, ResetInv DEF scb_reset_system, TypeOK
  <2>2. CASE ~scb_reset_system
    <3>1. TypeOK'
      BY <2>2, <1>0, <1>6 DEF TypeOK, PollFwd
    <3> QED
      BY <3>1, <2>2, <1>6 DEF PollFwd, BootInv, IdleMeansWritten, ErrorNotHidden,
           Programming, ProgramExact, SyncHasBlock, Applied, Target, Page, Serving
  <2> QED
    BY <2>1, <2>2
<1>7. CASE UNCHANGED vars
  BY <1>7 DEF vars, dfu, dnload, prog, button, BootInv, TypeOK, IdleMeansWritten,
       ErrorNotHidden, Programming, ProgramExact, SyncHasBlock, Applied, Target, Page
<1> QED
  BY <1>1, <1>2, <1>3, <1>4, <1>5, <1>6, <1>7 DEF Next, Buttons

(* The invariant of the DFU state machine over any host, at any size.      *)
THEOREM BootCorrect == Spec => []BootInv
BY BootInit, BootNext, PTL DEF Spec

(* usb_dfu.c:97-98, 140: a block answered with "dfuDNLOAD-IDLE" is in      *)
(* flash as it was sent.                                                   *)
THEOREM IdleIsWritten == Spec => []IdleMeansWritten
<1>1. BootInv => IdleMeansWritten
  BY DEF BootInv
<1> QED
  BY <1>1, BootCorrect, PTL

(* An error flag of the flash controller is never hidden from the host.    *)
THEOREM ErrorsReported == Spec => []ErrorNotHidden
<1>1. BootInv => ErrorNotHidden
  BY DEF BootInv
<1> QED
  BY <1>1, BootCorrect, PTL

(* A step writes at most the page of the block that is being programmed.   *)
LEMMA OneWrite ==
    ASSUME BootInv, [Next]_vars, NEW p \in Pages, flash'[p] # flash[p]
    PROVE  p >= Base /\ p = Target /\ pc # "poll"
<1>1. pc # "poll" /\ \E pg : flash' = [flash EXCEPT ![Target] = pg]
  BY DEF Next, Buttons, Request, Device, vars, PowerUp, Boot, FirmwareReboot, Dnload,
       DnloadTooLong, DnloadEnd, GetStatusProgram, GetStatus, ClrStatus, Abort, Detach, ErasePage,
       ProgramCell, ProgramDone, DelayedReset, PollFwd, PowerLoss, scb_reset_system
<1>2. p = Target
  BY <1>1 DEF BootInv, TypeOK
<1> QED
  BY <1>1, <1>2, TargetWritable

(* flash.c:4-6: the bootloader protects itself; a step writes at most the  *)
(* firmware page of the pending block.                                     *)
THEOREM OnlyTargetPage == Spec => OnlyTargetWritten
<1>1. BootInv /\ [Next]_vars =>
         [\A p \in Pages : flash'[p] # flash[p] => p >= Base /\ p = Target /\ pc # "poll"]_vars
  BY OneWrite
<1> QED
  BY <1>1, BootCorrect, PTL DEF Spec, OnlyTargetWritten

-----------------------------------------------------------------------------
(* The bootloader implements BlockStore.  A block of the device is one of  *)
(* the abstract module, and the pages are the flash with the page that is  *)
(* being written hidden.                                                   *)
LEMMA BlockMapped == BootInv => PendingBlock \in Promise!Block
<1> SUFFICES ASSUME BootInv PROVE PendingBlock \in Promise!Block
  OBVIOUS
<1>1. TypeOK /\ Target \in Nat
  BY BootAssumption DEF BootInv, TypeOK, Target, Page
<1>2. ASSUME NEW c \in CellIx PROVE (IF c <= dnload_len THEN dnload_buf[c] ELSE Erased) \in Content
  BY <1>1, BootAssumption DEF TypeOK, CellIx, Content
<1>3. [c \in CellIx |-> IF c <= dnload_len THEN dnload_buf[c] ELSE Erased] \in [CellIx -> Content]
  BY <1>2
<1> QED BY <1>1, <1>3 DEF PendingBlock, Promise!Block

LEMMA NextBlockMapped == BootInv' => (PendingBlock \in Promise!Block)'
BY BlockMapped, PTL

LEMMA PagesMapped ==
    ASSUME BootInv
    PROVE  /\ pc = "poll" => SeenPages = flash
           /\ pc # "poll" => SeenPages = [flash EXCEPT ![Target] = NotWritten]
<1>1. flash \in [Pages -> [CellIx -> Content]]
  BY DEF BootInv, TypeOK
<1> QED BY <1>1 DEF SeenPages

(* What leaves flash and the pending block alone is not seen.              *)
LEMMA NotSeen ==
    ASSUME UNCHANGED <<flash, dnload_block, dnload_len, dnload_buf, pc>>
    PROVE  SeenPages' = SeenPages /\ PendingBlock' = PendingBlock
<1>1. Target' = Target
  BY DEF Target, Page
<1> QED BY <1>1 DEF SeenPages, PendingBlock

(* While a block is written nothing of it is seen; when the write ends,    *)
(* well or not, its page is seen again and no other one has changed.       *)
LEMMA WriteHidden ==
    ASSUME BootInv, BootInv', [Next]_vars, pc # "poll", pc' # "poll", Target' = Target
    PROVE  SeenPages' = SeenPages
<1>1. \A p \in Pages : p # Target => flash'[p] = flash[p]
  BY OneWrite
<1> QED BY <1>1 DEF SeenPages

LEMMA WriteEnds ==
    ASSUME BootInv, BootInv', [Next]_vars, pc # "poll", pc' = "poll"
    PROVE  /\ flash'[Target] \in [CellIx -> Content]
           /\ SeenPages' = [SeenPages EXCEPT ![Target] = flash'[Target]]
<1>1. Target \in Pages
  BY TargetWritable
<1>2. flash' \in [Pages -> [CellIx -> Content]]
  BY DEF BootInv, TypeOK
<1>3. \A p \in Pages : p # Target => flash'[p] = flash[p]
  BY OneWrite
<1>4. SeenPages' = flash'
  BY <1>2 DEF SeenPages
<1>5. SeenPages = [p \in Pages |-> IF p = Target THEN NotWritten ELSE flash[p]]
  BY DEF SeenPages
<1> QED BY <1>1, <1>2, <1>3, <1>4, <1>5

LEMMA SpoiltMapped ==
    ASSUME BootInv, BootInv', [Next]_vars, pc # "poll", pc' = "poll" PROVE Promise!Spoilt
<1>1. PendingBlock.page = Target
  BY DEF PendingBlock
<1> QED BY <1>1, WriteEnds DEF Promise!Spoilt

LEMMA PromiseInit == Init => Promise!Init
<1> SUFFICES ASSUME Init PROVE Promise!Init
  OBVIOUS
<1>1. BootInv /\ pc = "poll" /\ dfu_state = "IDLE" /\ sr = {}
  BY BootInit DEF Init
<1>2. SeenPages \in [Pages -> [CellIx -> Content]]
  BY <1>1, PagesMapped DEF BootInv, TypeOK
<1>3. Verdict = "none"
  BY <1>1 DEF Verdict
<1> QED BY <1>1, <1>2, <1>3, BlockMapped DEF Promise!Init

LEMMA ResetMapped ==
    ASSUME BootInv, BootInv', [Next]_vars, RamReset, pc = "poll" => flash' = flash
    PROVE  Promise!Reset
<1>1. pc' = "poll" /\ dfu_state' = "IDLE" /\ sr' = {}
  BY DEF RamReset
<1>2. Verdict' = "none"
  BY <1>1 DEF Verdict
<1>3. PendingBlock' \in Promise!Block
  BY NextBlockMapped
<1>4. CASE pc = "poll"
  <2>0. Verdict # "writing"
    BY <1>4 DEF Verdict
  <2>1. SeenPages' = SeenPages
    BY <1>1, <1>4 DEF SeenPages
  <2> QED BY <1>1, <1>2, <1>3, <2>0, <2>1 DEF Promise!Reset
<1>5. CASE pc # "poll"
  <2>1. Verdict = "writing"
    BY <1>5 DEF Verdict
  <2> QED BY <1>1, <1>2, <1>3, <1>5, <2>1, SpoiltMapped DEF Promise!Reset
<1> QED BY <1>4, <1>5

(* Requests: taking a block in, forgetting it, refusing it or starting to  *)
(* write it.                                                               *)
LEMMA RequestMapped ==
    ASSUME BootInv, BootInv', Serving,
           DnloadTooLong \/ DnloadEnd \/ ClrStatus \/ Abort \/ GetStatusProgram \/ GetStatus
           \/ (\E b \in Nat, len \in CellIx : \E data \in [1 .. len -> Data] : Dnload(b, len, data))
    PROVE  [Promise!Next]_(Promise!vars)
<1> USE DEF dfu, dnload, prog, button
<1>1. pc = "poll" /\ Verdict # "writing" /\ SeenPages = flash
  BY PagesMapped DEF Serving, Verdict
<1>2. ASSUME NEW b \in Nat, NEW len \in CellIx, NEW data \in [1 .. len -> Data], Dnload(b, len, data)
      PROVE  Promise!Accept
  <2>1. pc' = "poll" /\ dfu_state' = "DNLOAD_SYNC" /\ flash' = flash /\ sr' = sr
    BY <1>1, <1>2 DEF Dnload
  <2>2. Verdict' = "pending" /\ SeenPages' = SeenPages
    BY <1>1, <2>1 DEF Verdict, SeenPages
  <2>3. PendingBlock' \in Promise!Block
    BY NextBlockMapped
  <2> QED BY <1>1, <2>1, <2>2, <2>3 DEF Promise!Accept
<1>3. CASE DnloadEnd \/ ClrStatus \/ Abort
  <2>1. /\ UNCHANGED <<flash, dnload_block, dnload_len, dnload_buf, pc, sr>>
        /\ dfu_state' \in {"IDLE", "MANIFEST_SYNC"}
    BY <1>3 DEF DnloadEnd, ClrStatus, Abort
  <2>2. Verdict' = "none"
    BY <1>1, <2>1 DEF Verdict
  <2>3. Promise!Forget
    BY <1>1, <2>1, <2>2, NotSeen DEF Promise!Forget
  <2> QED BY <2>3 DEF Promise!Next
<1>4. CASE GetStatusProgram
  <2>1. /\ UNCHANGED <<flash, dnload_block, dnload_len, dnload_buf, sr>>
        /\ Verdict = "pending" /\ PendingBlock.page = Target /\ Target' = Target
        /\ PendingBlock' = PendingBlock
    BY <1>1, <1>4 DEF GetStatusProgram, Verdict, PendingBlock, Target, Page
  <2>2. Target \in Nat
    BY BootAssumption DEF BootInv, TypeOK, Target, Page
  <2>3. CASE flash_is_writable(Target)
    <3>1. pc' = "erase" /\ Target \in Pages
      BY <1>4, <2>2, <2>3, WritablePage DEF GetStatusProgram
    <3>2. Verdict' = "writing"
      BY <3>1 DEF Verdict
    <3>3. SeenPages' = [SeenPages EXCEPT ![Target] = NotWritten]
      BY <1>1, <2>1, <3>1 DEF SeenPages, NotWritten
    <3>4. Promise!Begin
      BY <2>1, <2>3, <3>1, <3>2, <3>3 DEF Promise!Begin
    <3> QED BY <3>4 DEF Promise!Next
  <2>4. CASE ~flash_is_writable(Target)
    <3>1. pc' = pc /\ dfu_state' = "ERROR"
      BY <1>4, <2>4 DEF GetStatusProgram, RejectBlock, Answer
    <3>2. Verdict' = "failed"
      BY <1>1, <3>1 DEF Verdict
    <3>3. Promise!Refuse
      BY <1>1, <2>1, <3>1, <3>2, NotSeen DEF Promise!Refuse
    <3> QED BY <3>3 DEF Promise!Next
  <2> QED BY <2>3, <2>4
<1>5. CASE GetStatus
  <2>1. /\ UNCHANGED <<flash, dnload_block, dnload_len, dnload_buf, pc, sr>>
        /\ dfu_state' = AfterGetStatus(dfu_state) /\ dfu_state # "DNLOAD_SYNC" /\ dfu_state \in States
    BY <1>5 DEF GetStatus, Answer, BootInv, TypeOK
  <2>2. Verdict' = Verdict
    BY <1>1, <2>1 DEF Verdict, AfterGetStatus, States
  <2> QED BY <2>1, <2>2, NotSeen DEF Promise!vars
<1>6. CASE DnloadTooLong
  <2>1. UNCHANGED <<flash, dnload_block, dnload_len, dnload_buf, pc, sr>> /\ dfu_state' = "ERROR"
    BY <1>6 DEF DnloadTooLong
  <2>2. Verdict' = "failed"
    BY <1>1, <2>1 DEF Verdict
  <2>3. Promise!Refuse
    BY <1>1, <2>1, <2>2, NotSeen DEF Promise!Refuse
  <2> QED BY <2>3 DEF Promise!Next
<1> QED BY <1>2, <1>3, <1>4, <1>5, <1>6 DEF Promise!Next

(* flash_program.                                                          *)
LEMMA WriteMapped ==
    ASSUME BootInv, BootInv', [Next]_vars, ErasePage \/ ProgramCell \/ ProgramDone
    PROVE  [Promise!Next]_(Promise!vars)
<1> USE DEF dfu, dnload, prog, button
<1>1. /\ pc # "poll" /\ Verdict = "writing" /\ PendingBlock.page = Target /\ Target' = Target
      /\ PendingBlock' = PendingBlock /\ Target \in Pages
  BY TargetWritable DEF ErasePage, ProgramCell, ProgramDone, Verdict, PendingBlock, Target, Page
<1>2. CASE pc' = "poll" /\ sr' # {} /\ dfu_state' = "ERROR"
  <2>1. Verdict' = "failed"
    BY <1>2 DEF Verdict
  <2>2. Promise!Fail
    BY <1>1, <1>2, <2>1, SpoiltMapped DEF Promise!Fail
  <2> QED BY <2>2 DEF Promise!Next
<1>3. CASE pc' # "poll" /\ (sr' = sr \/ sr' # {})
  <2>1. Verdict' = Verdict /\ SeenPages' = SeenPages
    BY <1>1, <1>3, WriteHidden DEF Verdict
  <2>2. CASE (sr # {})' = (sr # {})
    BY <1>1, <2>1, <2>2 DEF Promise!vars
  <2>3. CASE (sr # {})' # (sr # {})
    <3>1. (sr # {})' = TRUE
      BY <1>3, <2>3
    <3> QED BY <1>1, <2>1, <3>1 DEF Promise!FlashError, Promise!Next
  <2> QED BY <2>2, <2>3
<1>4. CASE ProgramDone
  <2>1. /\ pc = "program" /\ pc' = "poll" /\ dfu_state' = "DNLOAD_IDLE" /\ sr' = sr /\ flash' = flash
        /\ written = dnload_len /\ dnload_len > 0
    BY <1>4 DEF ProgramDone, Answer, BootInv, Programming
  <2>2. sr = {} /\ Applied(dnload_len)
    BY <2>1 DEF BootInv, ProgramExact, TypeOK
  <2>3. Verdict' = "stored"
    BY <2>1 DEF Verdict
  <2>4. flash[Target] = PendingBlock.holds
    <3>1. flash[Target] \in [CellIx -> Content]
      BY <1>1 DEF BootInv, TypeOK
    <3> QED BY <2>2, <3>1 DEF Applied, PendingBlock
  <2>5. SeenPages' = [SeenPages EXCEPT ![Target] = PendingBlock.holds]
    BY <1>1, <2>1, <2>4, WriteEnds
  <2> QED BY <1>1, <2>1, <2>2, <2>3, <2>5 DEF Promise!Store, Promise!Next
<1>5. CASE ErasePage
  BY <1>2, <1>3, <1>5 DEF ErasePage, EraseFailed, Answer
<1>6. CASE ProgramCell
  BY <1>2, <1>3, <1>6 DEF ProgramCell, ProgramFailed, Answer
<1> QED BY <1>4, <1>5, <1>6

LEMMA PromiseNext == ASSUME BootInv, BootInv', [Next]_vars PROVE [Promise!Next]_(Promise!vars)
<1> USE DEF dfu, dnload, prog, button
<1>1. CASE ErasePage \/ ProgramCell \/ ProgramDone
  BY <1>1, WriteMapped
<1>2. CASE RamReset
  <2>1. pc = "poll" => flash' = flash
    BY OneWrite DEF BootInv, TypeOK
  <2> QED BY <1>2, <2>1, ResetMapped DEF Promise!Next
<1>3. CASE UNCHANGED <<flash, dfu, dnload, pc, sr>>
  <2>1. Verdict' = Verdict
    BY <1>3 DEF Verdict
  <2> QED BY <1>3, <2>1, NotSeen DEF Promise!vars
<1>4. CASE Request
  <2>1. CASE Detach
    BY <1>2, <2>1 DEF Detach, scb_reset_system
  <2>2. CASE ~Detach
    <3>1. Serving
      BY <1>4, <2>2 DEF Request, Dnload, DnloadTooLong, DnloadEnd, GetStatusProgram, GetStatus, ClrStatus, Abort
    <3>2. \/ DnloadTooLong \/ DnloadEnd \/ ClrStatus \/ Abort \/ GetStatusProgram \/ GetStatus
          \/ (\E b \in Nat, len \in CellIx : \E data \in [1 .. len -> Data] : Dnload(b, len, data))
      BY <1>4, <2>2, BootAssumption, Zenon DEF Request
    <3> QED BY <3>1, <3>2, RequestMapped
  <2> QED BY <2>1, <2>2
<1>5. CASE DelayedReset \/ PowerLoss \/ FirmwareReboot
  BY <1>2, <1>5 DEF DelayedReset, PowerLoss, FirmwareReboot, scb_reset_system
<1>6. CASE PowerUp \/ Buttons \/ UNCHANGED vars
  BY <1>2, <1>3, <1>6 DEF PowerUp, Buttons, Boot, PollFwd, scb_reset_system, vars
<1> QED BY <1>1, <1>4, <1>5, <1>6 DEF Next, Device

(* usb_dfu.c:97-98, 140; flash.c:4-6: whatever the host sends, whatever    *)
(* fails and whenever the power goes away, a block is stored as a whole or *)
(* judged a failure, and only its own page is at stake.                    *)
THEOREM BlocksAreAtomic == Spec => ImplementsBlocks
<1>1. BootInv /\ BootInv' /\ [Next]_vars => [Promise!Next]_(Promise!vars)
  BY PromiseNext
<1> QED BY <1>1, PromiseInit, BootCorrect, PTL DEF Spec, ImplementsBlocks, Promise!Spec

-----------------------------------------------------------------------------
(* The device.  The last answer tells its state; ERROR always comes with a *)
(* status; the block in RAM never belongs to a page of the settings.       *)
DeviceInv ==
    /\ BootInv
    /\ reply # NoReply => /\ reply = [status |-> dfu_status, state |-> dfu_state]
                          /\ mode = "dfu" /\ pc = "poll"
    /\ dfu_state = "ERROR" => dfu_status # "OK"
    /\ mode # "dfu" => dfu_state = "IDLE"
    /\ Target < End - 2
    /\ AllBlocksApplied

(* The tool and the device: ToolInStep, with what else makes it inductive. *)
ToolInv ==
    /\ hpc \in {"idle", "query", "clear", "abort", "send", "poll", "manifest", "done", "failed"}
    /\ himg \in Images /\ hblk \in Nat /\ waiting \in BOOLEAN /\ faults \in 0 .. MaxFaults
    /\ hblk # 0 => hblk - 1 \in ImageBlocks(himg)
    /\ hpc \in {"query", "clear", "abort"} => hblk = 0
    /\ hpc = "poll" => hblk \in ImageBlocks(himg)
    /\ hpc \in {"manifest", "done"} => hblk \notin ImageBlocks(himg)
    /\ waiting => hpc \in {"query", "poll", "manifest"}
    /\ waiting /\ mode = "dfu" => reply # NoReply \/ pc # "poll"
    /\ hpc \in {"send", "manifest", "done"} => pc = "poll"
    /\ hpc = "poll" /\ mode = "dfu" => /\ dfu_state \in {"DNLOAD_SYNC", "DNLOAD_IDLE", "ERROR"}
                                       /\ PendingIs(himg, hblk)
    /\ hpc = "manifest" => dfu_state # "DNLOAD_SYNC"
    /\ hpc = "send" /\ hblk # 0 /\ mode = "dfu" => Applied(dnload_len)
    /\ hpc \in {"send", "poll", "manifest", "done"} => Installed(himg, hblk)

UInv == DeviceInv /\ ToolInv

-----------------------------------------------------------------------------
(* The images: blocks 0 .. n - 1, each fits a page of the region before    *)
(* the settings, and Len is the length of a block.                         *)
LEMMA BlockLength ==
    ASSUME NEW n \in CellIx, NEW data \in [1 .. n -> Data] PROVE Len(data) = n
<1>1. n \in Nat /\ n >= 1 /\ DOMAIN data = 1 .. n
  BY BootAssumption DEF CellIx
<1>2. data # [c \in 1 .. 0 |-> Erased]
  <2>1. 1 \in DOMAIN data /\ DOMAIN [c \in 1 .. 0 |-> Erased] = 1 .. 0 /\ 1 \notin 1 .. 0
    BY <1>1
  <2> QED BY <2>1
<1>3. \A m \in CellIx : DOMAIN data = 1 .. m => m = n
  <2> SUFFICES ASSUME NEW m \in CellIx, DOMAIN data = 1 .. m PROVE m = n
    OBVIOUS
  <2>1. m \in Nat /\ m >= 1 /\ m \in 1 .. m /\ n \in 1 .. n /\ 1 .. m = 1 .. n
    BY <1>1, BootAssumption DEF CellIx
  <2>2. m \in 1 .. n /\ n \in 1 .. m
    BY <2>1
  <2> QED BY <1>1, <2>1, <2>2
<1>4. (CHOOSE m \in CellIx : DOMAIN data = 1 .. m) = n
  BY <1>1, <1>3
<1> QED BY <1>2, <1>4 DEF Len

LEMMA BlockTypes ==
    ASSUME NEW img \in Images, NEW k \in ImageBlocks(img)
    PROVE  /\ k \in Nat /\ Page(k) \in Pages /\ Page(k) < End - 2
           /\ Len(img[k]) \in CellIx /\ img[k] \in [1 .. Len(img[k]) -> Data]
<1>1. PICK n \in 1 .. End - 2 - Base : ImageBlocks(img) = 0 .. n - 1
  BY UpdateAssumption
<1>2. PICK l \in CellIx : img[k] \in [1 .. l -> Data]
  BY UpdateAssumption
<1>3. Len(img[k]) = l
  BY <1>2, BlockLength
<1>4. k \in Nat /\ k <= n - 1 /\ Base \in Nat /\ End \in Nat
  BY <1>1, BootAssumption
<1> QED BY <1>1, <1>2, <1>3, <1>4 DEF Page, Pages

(* The tool stops at the first number that is no block.                    *)
LEMMA LastBlock ==
    ASSUME NEW img \in Images, NEW k \in Nat, k = 0 \/ k - 1 \in ImageBlocks(img)
    PROVE  /\ k \notin ImageBlocks(img) =>
                 k > 0 /\ \A j \in ImageBlocks(img) : j \in Nat /\ j < k
           /\ \A j \in ImageBlocks(img) : j < End
<1>1. PICK n \in 1 .. End - 2 - Base : ImageBlocks(img) = 0 .. n - 1
  BY UpdateAssumption
<1>2. Base \in Nat /\ End \in Nat /\ n \in Nat /\ n >= 1 /\ n <= (End - 2) - Base
  BY <1>1, BootAssumption
<1> QED BY <1>1, <1>2

(* What Applied says of the pending block is what PageHolds says of it.    *)
LEMMA AppliedIsInstalled ==
    ASSUME NEW img \in Images, NEW k \in ImageBlocks(img), PendingIs(img, k), Applied(dnload_len)
    PROVE  PageHolds(Page(k), img[k])
<1>1. DOMAIN img[k] = 1 .. dnload_len /\ dnload_len \in Nat
  BY BlockTypes, BootAssumption DEF PendingIs, CellIx
<1>2. \A c \in CellIx : c \in DOMAIN img[k] <=> c <= dnload_len
  BY <1>1, BootAssumption DEF CellIx
<1> QED BY <1>2 DEF PendingIs, Applied, PageHolds, Target

-----------------------------------------------------------------------------
(* Everything the device does but answer a request.                        *)
OnItsOwn == \/ Device \/ PowerLoss \/ PowerUp \/ FirmwareReboot
            \/ (\E fwd \in BOOLEAN : PollFwd(fwd)) \/ (\E dpi \in BOOLEAN : Boot(dpi))
            \/ UNCHANGED vars

(* It resets, goes on with a block, or changes nothing the tool sees.      *)
ItResets == /\ mode' # "dfu" /\ pc' = "poll" /\ dfu_state' = "IDLE" /\ dfu_status' = "OK"
            /\ dnload_block' = 0 /\ reply' = NoReply
ItPrograms == /\ pc # "poll" /\ mode' = mode /\ UNCHANGED <<dnload_block, dnload_len, dnload_buf>>
              /\ \/ UNCHANGED <<dfu_state, dfu_status, reply>> /\ pc' # "poll"
                 \/ /\ pc' = "poll"
                    /\ reply' = [status |-> dfu_status', state |-> dfu_state']
                    /\ \/ dfu_state' = "ERROR" /\ dfu_status' = "errWRITE"
                       \/ dfu_state' = "DNLOAD_IDLE"
ItIsQuiet == /\ UNCHANGED <<flash, dfu_state, dfu_status, dnload_block, dnload_len, dnload_buf, pc, reply>>
             /\ \/ mode' = mode
                \/ mode = "off" /\ mode' = "boot"
                \/ mode = "boot" /\ mode' \in {"dfu", "firmware"}

LEMMA OwnEffect == OnItsOwn => ItResets \/ ItPrograms \/ ItIsQuiet
<1> SUFFICES ASSUME OnItsOwn PROVE ItResets \/ ItPrograms \/ ItIsQuiet
  OBVIOUS
<1> USE DEF dfu, dnload, prog, button
<1>1. CASE ErasePage
  BY <1>1 DEF ErasePage, Answer, ItPrograms
<1>2. CASE ProgramCell
  BY <1>2 DEF ProgramCell, Answer, ItPrograms
<1>3. CASE ProgramDone
  BY <1>3 DEF ProgramDone, Answer, ItPrograms
<1>4. CASE DelayedReset
  BY <1>4 DEF DelayedReset, scb_reset_system, RamReset, ItResets
<1>5. CASE PowerLoss
  BY <1>5 DEF PowerLoss, RamReset, ItResets
<1>6. CASE PowerUp
  BY <1>6 DEF PowerUp, ItIsQuiet
<1>7. CASE FirmwareReboot
  BY <1>7 DEF FirmwareReboot, RamReset, ItResets
<1>8. ASSUME NEW fwd \in BOOLEAN, PollFwd(fwd) PROVE ItResets \/ ItIsQuiet
  <2>1. CASE scb_reset_system
    BY <2>1 DEF scb_reset_system, RamReset, ItResets
  <2>2. CASE ~scb_reset_system
    BY <1>8, <2>2 DEF PollFwd, ItIsQuiet
  <2> QED BY <2>1, <2>2
<1>9. ASSUME NEW dpi \in BOOLEAN, Boot(dpi) PROVE ItIsQuiet
  BY <1>9 DEF Boot, ItIsQuiet
<1>10. CASE UNCHANGED vars
  BY <1>10 DEF vars, ItIsQuiet
<1> QED BY <1>1, <1>2, <1>3, <1>4, <1>5, <1>6, <1>7, <1>8, <1>9, <1>10 DEF OnItsOwn, Device

LEMMA OwnIsNext == OnItsOwn => [Next]_vars
<1> QED BY DEF OnItsOwn, Next, Buttons

LEMMA OwnKeepsDevice == ASSUME DeviceInv, OnItsOwn PROVE DeviceInv'
<1>1. BootInv'
  BY OwnIsNext, BootNext DEF DeviceInv
<1>2. Base \in Nat /\ End \in Nat /\ Base < End - 2
  BY BootAssumption, UpdateAssumption
<1>3. CASE ItResets
  <2>1. Target' = Base
    BY <1>2, <1>3 DEF ItResets, Target, Page
  <2> QED BY <1>1, <1>2, <1>3, <2>1 DEF ItResets, DeviceInv, AllBlocksApplied
<1>4. CASE ItPrograms
  <2>1. mode = "dfu" /\ dfu_state = "DNLOAD_SYNC" /\ reply = NoReply
    BY <1>4 DEF ItPrograms, DeviceInv, BootInv, Programming
  <2>2. Target' = Target
    BY <1>4 DEF ItPrograms, Target, Page
  <2> QED BY <1>1, <1>4, <2>1, <2>2 DEF ItPrograms, DeviceInv, AllBlocksApplied
<1>5. CASE ItIsQuiet
  <2>1. Target' = Target /\ (Applied(dnload_len)' <=> Applied(dnload_len))
    BY <1>5 DEF ItIsQuiet, Target, Page, Applied
  <2> QED BY <1>1, <1>5, <2>1 DEF ItIsQuiet, DeviceInv, AllBlocksApplied
<1> QED BY <1>3, <1>4, <1>5, OwnEffect

-----------------------------------------------------------------------------
(* While a block is programmed the earlier ones stay: it has another page. *)
LEMMA InstalledStays ==
    ASSUME UInv, OnItsOwn, hpc \in {"send", "poll", "manifest", "done"}
    PROVE  \A k \in ImageBlocks(himg) : k < hblk => flash'[Page(k)] = flash[Page(k)]
<1> SUFFICES ASSUME NEW k \in ImageBlocks(himg), k < hblk, flash'[Page(k)] # flash[Page(k)]
             PROVE  FALSE
  OBVIOUS
<1>1. k \in Nat /\ Page(k) \in Pages /\ himg \in Images /\ hblk \in Nat
  BY BlockTypes DEF UInv, ToolInv
<1>2. pc # "poll" /\ Page(k) = Target
  BY <1>1, OneWrite, OwnIsNext DEF UInv, DeviceInv
<1>3. hpc = "poll" /\ mode = "dfu"
  BY <1>2 DEF UInv, DeviceInv, BootInv, Programming, ToolInv
<1>4. Target = Page(hblk)
  BY <1>3 DEF UInv, ToolInv, PendingIs, Target
<1> QED BY <1>1, <1>2, <1>4, BootAssumption DEF Page

LEMMA OwnKeepsTool ==
    ASSUME UInv, OnItsOwn, UNCHANGED <<himg, hblk>>, faults' \in 0 .. MaxFaults,
           \/ UNCHANGED <<hpc, waiting>>
           \/ hpc' \in {"failed", "idle"} /\ waiting' = FALSE,
           Running /\ mode' = "dfu" => mode = "dfu"
    PROVE  ToolInv'
<1>1. /\ hpc' \in {"send", "poll", "manifest", "done", "query", "clear", "abort"} => hpc' = hpc
      /\ waiting' => waiting /\ hpc' = hpc
      /\ hpc' \in {"send", "poll", "manifest", "query", "clear", "abort"} => Running
      /\ waiting' \in BOOLEAN
      /\ hpc' \in {"idle", "query", "clear", "abort", "send", "poll", "manifest", "done", "failed"}
  <2>1. waiting \in BOOLEAN
        /\ hpc \in {"idle", "query", "clear", "abort", "send", "poll", "manifest", "done", "failed"}
    BY DEF UInv, ToolInv
  <2>2. CASE UNCHANGED <<hpc, waiting>>
    BY <2>1, <2>2 DEF Running
  <2>3. CASE hpc' \in {"failed", "idle"} /\ waiting' = FALSE
    BY <2>3
  <2> QED BY <2>2, <2>3
<1>2. pc # "poll" => hpc' \notin {"send", "manifest", "done"} /\ dfu_state = "DNLOAD_SYNC" /\ mode = "dfu"
  BY <1>1 DEF UInv, ToolInv, DeviceInv, BootInv, Programming
<1>3. hpc' \in {"send", "manifest", "done"} => pc' = "poll"
  BY <1>1, <1>2, OwnEffect DEF ItResets, ItPrograms, ItIsQuiet
<1>4. hpc' = "poll" /\ mode' = "dfu" =>
         dfu_state' \in {"DNLOAD_SYNC", "DNLOAD_IDLE", "ERROR"} /\ PendingIs(himg, hblk)'
  <2> SUFFICES ASSUME hpc' = "poll", mode' = "dfu"
               PROVE  dfu_state' \in {"DNLOAD_SYNC", "DNLOAD_IDLE", "ERROR"} /\ PendingIs(himg, hblk)'
    OBVIOUS
  <2>1. dfu_state \in {"DNLOAD_SYNC", "DNLOAD_IDLE", "ERROR"} /\ PendingIs(himg, hblk)
    BY <1>1 DEF UInv, ToolInv
  <2>2. dfu_state' \in {"DNLOAD_SYNC", "DNLOAD_IDLE", "ERROR"}
        /\ UNCHANGED <<dnload_block, dnload_len, dnload_buf>>
    BY <2>1, OwnEffect DEF ItResets, ItPrograms, ItIsQuiet
  <2> QED BY <2>1, <2>2 DEF PendingIs
<1>5. hpc' = "manifest" => dfu_state' # "DNLOAD_SYNC"
  <2> SUFFICES ASSUME hpc' = "manifest" PROVE dfu_state' # "DNLOAD_SYNC"
    OBVIOUS
  <2>1. dfu_state # "DNLOAD_SYNC" /\ pc = "poll"
    BY <1>1, <1>2 DEF UInv, ToolInv
  <2> QED BY <2>1, OwnEffect DEF ItResets, ItPrograms, ItIsQuiet
<1>6. hpc' = "send" /\ hblk' # 0 /\ mode' = "dfu" => Applied(dnload_len)'
  <2> SUFFICES ASSUME hpc' = "send", hblk # 0, mode' = "dfu" PROVE Applied(dnload_len)'
    OBVIOUS
  <2>1. Applied(dnload_len) /\ pc = "poll"
    BY <1>1, <1>2 DEF UInv, ToolInv
  <2>2. UNCHANGED <<flash, dnload_block, dnload_len, dnload_buf>>
    BY <2>1, OwnEffect DEF ItResets, ItPrograms, ItIsQuiet
  <2> QED BY <2>1, <2>2 DEF Applied, Target, Page
<1>7. hpc' \in {"send", "poll", "manifest", "done"} => Installed(himg, hblk)'
  <2> SUFFICES ASSUME hpc' \in {"send", "poll", "manifest", "done"},
                      NEW k \in ImageBlocks(himg), k < hblk
               PROVE  PageHolds(Page(k), himg[k])'
    BY DEF Installed
  <2>1. PageHolds(Page(k), himg[k]) /\ flash'[Page(k)] = flash[Page(k)]
    BY <1>1, InstalledStays DEF UInv, ToolInv, Installed
  <2> QED BY <2>1 DEF PageHolds
<1>8. waiting' /\ mode' = "dfu" => reply' # NoReply \/ pc' # "poll"
  <2> SUFFICES ASSUME waiting', mode' = "dfu" PROVE reply' # NoReply \/ pc' # "poll"
    OBVIOUS
  <2>1. mode = "dfu" /\ waiting
    BY <1>1 DEF UInv, ToolInv
  <2>2. reply # NoReply \/ pc # "poll"
    BY <2>1 DEF UInv, ToolInv
  <2>3. CASE ItPrograms
    BY <2>3 DEF ItPrograms, NoReply
  <2>4. CASE ItIsQuiet
    BY <2>2, <2>4 DEF ItIsQuiet
  <2> QED BY <2>3, <2>4, OwnEffect DEF ItResets
<1> QED BY <1>1, <1>3, <1>4, <1>5, <1>6, <1>7, <1>8 DEF UInv, ToolInv

-----------------------------------------------------------------------------
(* The tool's requests.                                                    *)
LEMMA GetStatusKeeps == ASSUME UInv, SendGetStatus PROVE UInv'
<1> USE DEF dfu, dnload, prog, button
<1>1. BootInv'
  <2>1. Request
    BY DEF SendGetStatus, Request
  <2> QED BY <2>1, RequestStep DEF UInv, DeviceInv
<1>2. /\ UNCHANGED <<mode, flash, dnload_block, dnload_len, dnload_buf, hpc, himg, hblk, faults>>
      /\ mode = "dfu" /\ pc = "poll" /\ waiting' = TRUE /\ hpc \in {"query", "poll", "manifest"}
  BY DEF SendGetStatus, GetStatusProgram, GetStatus, Serving
<1>3. /\ Target' = Target /\ (Applied(dnload_len)' <=> Applied(dnload_len))
      /\ (PendingIs(himg, hblk)' <=> PendingIs(himg, hblk))
      /\ (Installed(himg, hblk)' <=> Installed(himg, hblk))
  BY <1>2 DEF Target, Page, Applied, PendingIs, Installed, PageHolds
<1>4. CASE GetStatusProgram
  <2>1. /\ dfu_state = "DNLOAD_SYNC"
        /\ \/ reply' = NoReply /\ UNCHANGED <<dfu_state, dfu_status>> /\ pc' # "poll"
           \/ /\ reply' = [status |-> dfu_status', state |-> dfu_state'] /\ pc' = pc
              /\ dfu_state' = "ERROR" /\ dfu_status' = "errWRITE"
    BY <1>4 DEF GetStatusProgram, RejectBlock, Answer
  <2>2. DeviceInv'
    BY <1>1, <1>2, <1>3, <2>1 DEF UInv, DeviceInv, AllBlocksApplied
  <2>3. hpc # "manifest"
    BY <2>1 DEF UInv, ToolInv
  <2>4. ToolInv'
    BY <1>2, <1>3, <2>1, <2>3 DEF UInv, ToolInv, NoReply
  <2> QED BY <2>2, <2>4 DEF UInv
<1>5. CASE GetStatus
  <2>1. /\ dfu_state # "DNLOAD_SYNC" /\ pc' = pc /\ dfu_status' = dfu_status
        /\ dfu_state' = AfterGetStatus(dfu_state)
        /\ reply' = [status |-> dfu_status', state |-> dfu_state']
    BY <1>5 DEF GetStatus, Answer
  <2>2. /\ dfu_state' # "DNLOAD_SYNC"
        /\ dfu_state \in {"DNLOAD_IDLE", "ERROR"} => dfu_state' = dfu_state
        /\ dfu_state' = "ERROR" => dfu_state = "ERROR"
        /\ dfu_state' \in {"MANIFEST_SYNC", "MANIFEST"} => dfu_state \in {"MANIFEST_SYNC", "MANIFEST"}
    BY <2>1 DEF AfterGetStatus
  <2>3. DeviceInv'
    BY <1>1, <1>2, <1>3, <2>1, <2>2 DEF UInv, DeviceInv, AllBlocksApplied
  <2>4. ToolInv'
    <3>1. dfu_state' \in States
      BY <1>1 DEF BootInv, TypeOK
    <3>2. reply' # NoReply
      BY <2>1, <3>1 DEF NoReply, States
    <3> QED BY <1>2, <1>3, <2>1, <2>2, <3>2 DEF UInv, ToolInv
  <2> QED BY <2>3, <2>4 DEF UInv
<1> QED BY <1>4, <1>5 DEF SendGetStatus

LEMMA SendBlockKeeps == ASSUME UInv, SendBlock PROVE UInv'
<1> USE DEF dfu, dnload, prog, button
<1>1. /\ himg \in Images /\ hblk \in ImageBlocks(himg) /\ Dnload(hblk, Len(himg[hblk]), himg[hblk])
      /\ hpc = "send" /\ hpc' = "poll" /\ UNCHANGED <<himg, hblk, waiting, faults>>
  BY DEF SendBlock, UInv, ToolInv
<1>2. hblk \in Nat /\ Page(hblk) < End - 2
      /\ Len(himg[hblk]) \in CellIx /\ himg[hblk] \in [1 .. Len(himg[hblk]) -> Data]
  BY <1>1, BlockTypes
<1>3. BootInv'
  BY <1>1, <1>2, DnloadStep DEF UInv, DeviceInv
<1>4. /\ dnload_block' = hblk /\ dnload_len' = Len(himg[hblk]) /\ dnload_buf' = himg[hblk]
      /\ dfu_state' = "DNLOAD_SYNC" /\ reply' = NoReply /\ UNCHANGED <<mode, flash, pc>> /\ mode = "dfu"
  BY <1>1 DEF Dnload, Serving
<1>5. Target' = Page(hblk)
  BY <1>4 DEF Target, Page
<1>6. DeviceInv'
  BY <1>2, <1>3, <1>4, <1>5 DEF DeviceInv, AllBlocksApplied
<1>7. PendingIs(himg, hblk)' /\ (Installed(himg, hblk)' <=> Installed(himg, hblk))
  BY <1>1, <1>4 DEF PendingIs, Installed, PageHolds, Page
<1>8. ToolInv'
  BY <1>1, <1>4, <1>7 DEF UInv, ToolInv
<1> QED BY <1>6, <1>8 DEF UInv

(* The last block has been acknowledged when the tool ends the download.   *)
LEMMA SendEndKeeps == ASSUME UInv, SendEnd PROVE UInv'
<1> USE DEF dfu, dnload, prog, button
<1>1. /\ hblk \notin ImageBlocks(himg) /\ DnloadEnd
      /\ hpc = "send" /\ hpc' = "manifest" /\ UNCHANGED <<himg, hblk, waiting, faults>>
  BY DEF SendEnd
<1>2. BootInv'
  BY <1>1, RequestStep DEF Request, UInv, DeviceInv
<1>3. /\ UNCHANGED <<mode, flash, pc, dnload_block, dnload_len, dnload_buf>> /\ mode = "dfu"
      /\ dfu_state' = "MANIFEST_SYNC" /\ reply' = NoReply
  BY <1>1 DEF DnloadEnd, Serving
<1>4. himg \in Images /\ hblk \in Nat /\ (hblk = 0 \/ hblk - 1 \in ImageBlocks(himg))
  BY DEF UInv, ToolInv
<1>5. hblk # 0
  BY <1>1, <1>4, LastBlock
<1>6. Applied(dnload_len)
  BY <1>1, <1>3, <1>5 DEF UInv, ToolInv
<1>7. /\ Target' = Target /\ (Applied(dnload_len)' <=> Applied(dnload_len))
      /\ (Installed(himg, hblk)' <=> Installed(himg, hblk))
  BY <1>1, <1>3 DEF Target, Page, Applied, Installed, PageHolds
<1>8. DeviceInv'
  BY <1>2, <1>3, <1>6, <1>7 DEF UInv, DeviceInv, AllBlocksApplied
<1>9. ToolInv'
  BY <1>1, <1>3, <1>7 DEF UInv, ToolInv
<1> QED BY <1>8, <1>9 DEF UInv

LEMMA ClearAbortKeeps == ASSUME UInv, SendClear \/ SendAbort PROVE UInv'
<1> USE DEF dfu, dnload, prog, button
<1>1. /\ ClrStatus \/ Abort
      /\ hpc \in {"clear", "abort"} /\ hpc' = "query" /\ UNCHANGED <<himg, hblk, waiting, faults>>
  BY DEF SendClear, SendAbort
<1>2. BootInv'
  BY <1>1, RequestStep DEF Request, UInv, DeviceInv
<1>3. /\ UNCHANGED <<mode, flash, pc, dnload_block, dnload_len, dnload_buf>> /\ mode = "dfu"
      /\ dfu_state' = "IDLE" /\ reply' = NoReply
  BY <1>1 DEF ClrStatus, Abort, Serving
<1>4. Target' = Target
  BY <1>3 DEF Target, Page
<1>5. DeviceInv'
  BY <1>2, <1>3, <1>4 DEF UInv, DeviceInv, AllBlocksApplied
<1>6. ToolInv'
  BY <1>1, <1>3 DEF UInv, ToolInv
<1> QED BY <1>5, <1>6 DEF UInv

-----------------------------------------------------------------------------
(* The tool's own steps.                                                   *)
LEMMA SameDevice ==
    ASSUME UInv, UNCHANGED vars
    PROVE  /\ DeviceInv' /\ (Applied(dnload_len)' <=> Applied(dnload_len))
           /\ UNCHANGED <<flash, pc, mode, dfu_state, dnload_block, dnload_len, dnload_buf>>
<1>1. DeviceInv'
  BY OwnKeepsDevice DEF OnItsOwn, UInv
<1>2. UNCHANGED <<flash, pc, mode, dfu_state, dnload_block, dnload_len, dnload_buf>>
  BY DEF vars, dfu, dnload, prog
<1> QED BY <1>1, <1>2 DEF Applied, Target, Page

LEMMA StartKeeps == ASSUME UInv, Start PROVE UInv'
<1>1. /\ hpc' = "query" /\ himg' \in Images /\ hblk' = 0 /\ waiting' = FALSE /\ UNCHANGED <<vars, faults>>
  BY DEF Start
<1>2. ToolInv'
  BY <1>1 DEF UInv, ToolInv
<1> QED BY <1>1, <1>2, SameDevice DEF UInv

(* Only the answer dfuDNLOAD-IDLE without an error counts a block as done. *)
LEMMA ReadAnswerKeeps == ASSUME UInv, ReadAnswer PROVE UInv'
<1>1. /\ waiting /\ reply # NoReply /\ waiting' = FALSE /\ UNCHANGED <<vars, himg, faults>>
      /\ hpc \in {"query", "poll", "manifest"}
      /\ reply = [status |-> dfu_status, state |-> dfu_state] /\ mode = "dfu" /\ pc = "poll"
  BY DEF ReadAnswer, UInv, DeviceInv, ToolInv
<1>2. hblk' = (IF hpc = "poll" /\ hpc' = "send" THEN hblk + 1 ELSE hblk)
  BY DEF ReadAnswer
<1>3. reply.status = dfu_status /\ reply.state = dfu_state
  BY <1>1
<1>4. /\ DeviceInv' /\ (Applied(dnload_len)' <=> Applied(dnload_len))
      /\ UNCHANGED <<flash, pc, mode, dfu_state, dnload_block, dnload_len, dnload_buf>>
  BY <1>1, SameDevice
<1>5. CASE hpc = "query"
  <2>1. hpc' = AfterQuery(reply) /\ hblk' = hblk /\ hblk = 0
    BY <1>2, <1>5 DEF ReadAnswer, UInv, ToolInv
  <2>2. hpc' \in {"clear", "abort", "send"}
    BY <2>1 DEF AfterQuery
  <2>3. Installed(himg, hblk)'
    <3>1. hblk' = 0 /\ himg' = himg /\ himg \in Images
      BY <1>1, <2>1 DEF UInv, ToolInv
    <3>2. \A k \in ImageBlocks(himg) : ~(k < 0)
      BY <3>1, BlockTypes
    <3> QED BY <3>1, <3>2 DEF Installed
  <2>4. ToolInv'
    BY <1>1, <1>4, <2>1, <2>2, <2>3 DEF UInv, ToolInv
  <2> QED BY <1>4, <2>4 DEF UInv
<1>6. CASE hpc = "poll"
  <2>1. /\ hpc' = AfterPoll(reply)
        /\ dfu_state \in {"DNLOAD_SYNC", "DNLOAD_IDLE", "ERROR"} /\ PendingIs(himg, hblk)
        /\ hblk \in ImageBlocks(himg) /\ hblk \in Nat /\ himg \in Images /\ Installed(himg, hblk)
    BY <1>1, <1>6 DEF ReadAnswer, UInv, ToolInv
  <2>2. \/ hpc' = "poll" /\ hblk' = hblk
        \/ hpc' = "failed" /\ hblk' = hblk
        \/ hpc' = "send" /\ hblk' = hblk + 1 /\ dfu_state = "DNLOAD_IDLE"
    BY <1>2, <1>3, <1>6, <2>1 DEF AfterPoll, UInv, DeviceInv
  <2>3. CASE hpc' \in {"poll", "failed"} /\ hblk' = hblk
    <3>1. PendingIs(himg, hblk)' /\ Installed(himg, hblk)'
      BY <1>1, <1>4, <2>1, <2>3 DEF PendingIs, Installed, PageHolds
    <3>2. ToolInv'
      BY <1>1, <1>4, <2>1, <2>3, <3>1 DEF UInv, ToolInv
    <3> QED BY <1>4, <3>2 DEF UInv
  <2>4. CASE hpc' = "send" /\ hblk' = hblk + 1 /\ dfu_state = "DNLOAD_IDLE"
    <3>1. Applied(dnload_len)
      BY <2>4 DEF UInv, DeviceInv, BootInv, IdleMeansWritten
    <3>2. PageHolds(Page(hblk), himg[hblk])
      BY <2>1, <3>1, AppliedIsInstalled
    <3>3. \A k \in ImageBlocks(himg) : k < hblk + 1 => k < hblk \/ k = hblk
      BY <2>1, BlockTypes
    <3>4. Installed(himg, hblk + 1)
      BY <2>1, <3>2, <3>3 DEF Installed
    <3>5. Installed(himg, hblk)'
      BY <1>1, <1>4, <2>4, <3>4 DEF Installed, PageHolds
    <3>6. hblk' \in Nat /\ hblk' - 1 = hblk
      BY <2>1, <2>4
    <3>7. ToolInv'
      BY <1>1, <1>4, <2>1, <2>4, <3>1, <3>5, <3>6 DEF UInv, ToolInv
    <3> QED BY <1>4, <3>7 DEF UInv
  <2> QED BY <2>2, <2>3, <2>4
<1>7. CASE hpc = "manifest"
  <2>1. hpc' = AfterManifest(reply) /\ hblk' = hblk
    BY <1>2, <1>7 DEF ReadAnswer
  <2>2. hpc' \in {"manifest", "done"}
    BY <2>1 DEF AfterManifest
  <2>3. Installed(himg, hblk)'
    BY <1>1, <1>4, <1>7, <2>1 DEF UInv, ToolInv, Installed, PageHolds
  <2>4. ToolInv'
    BY <1>1, <1>4, <1>7, <2>1, <2>2, <2>3 DEF UInv, ToolInv
  <2> QED BY <1>4, <2>4 DEF UInv
<1> QED BY <1>1, <1>5, <1>6, <1>7

-----------------------------------------------------------------------------
LEMMA StaysInDfu ==
    ASSUME \/ Device \/ PowerLoss \/ PowerUp \/ FirmwareReboot \/ (\E fwd \in BOOLEAN : PollFwd(fwd))
           \/ UNCHANGED vars
    PROVE  OnItsOwn /\ (mode' = "dfu" => mode = "dfu")
<1> QED BY DEF OnItsOwn, Device, ErasePage, ProgramCell, ProgramDone, DelayedReset, PowerLoss, PowerUp,
               FirmwareReboot, PollFwd, scb_reset_system, vars

LEMMA UpdateStep == ASSUME UInv, [UNext]_allvars PROVE UInv'
<1>0. faults \in 0 .. MaxFaults /\ MaxFaults \in Nat /\ (waiting => Running)
      /\ waiting \in BOOLEAN
  BY UpdateAssumption DEF UInv, ToolInv, Running
<1>1. CASE Start
  BY <1>1, StartKeeps
<1>2. CASE LoseDevice
  BY <1>0, <1>2, StaysInDfu, OwnKeepsDevice, OwnKeepsTool DEF LoseDevice, UInv
<1>3. CASE Tool /\ ~LoseDevice
  BY <1>3, GetStatusKeeps, ReadAnswerKeeps, SendBlockKeeps, SendEndKeeps, ClearAbortKeeps DEF Tool
<1>4. CASE DeviceStep \/ Plug \/ Handoff \/ Release
  <2>1. /\ Device \/ PowerUp \/ FirmwareReboot \/ (\E fwd \in BOOLEAN : PollFwd(fwd))
        /\ UNCHANGED <<hpc, himg, hblk, waiting, faults>>
    BY <1>4 DEF DeviceStep, Plug, Handoff, Release, host
  <2> QED BY <1>0, <2>1, StaysInDfu, OwnKeepsDevice, OwnKeepsTool DEF UInv
<1>5. ASSUME NEW dpi \in BOOLEAN, BootStep(dpi) PROVE UInv'
  <2>1. OnItsOwn /\ ~Running /\ UNCHANGED <<hpc, himg, hblk, waiting, faults>>
    BY <1>5 DEF BootStep, host, OnItsOwn
  <2> QED BY <1>0, <2>1, OwnKeepsDevice, OwnKeepsTool DEF UInv
<1>6. CASE Fault
  <2>1. faults' \in 0 .. MaxFaults
    BY <1>0, <1>6 DEF Fault
  <2>2. /\ Device \/ PowerLoss \/ (\E fwd \in BOOLEAN : PollFwd(fwd)) \/ UNCHANGED vars
        /\ UNCHANGED <<himg, hblk>>
        /\ UNCHANGED <<hpc, waiting>> \/ (hpc' \in {"failed", "idle"} /\ waiting' = FALSE)
    BY <1>6 DEF Fault, host
  <2> QED BY <2>1, <2>2, StaysInDfu, OwnKeepsDevice, OwnKeepsTool DEF UInv
<1>7. CASE Unplug
  <2>1. /\ PowerLoss /\ UNCHANGED <<himg, hblk, waiting, faults>> /\ ~waiting /\ hpc' = "idle"
    BY <1>0, <1>7 DEF Unplug, Running
  <2> QED BY <1>0, <2>1, StaysInDfu, OwnKeepsDevice, OwnKeepsTool DEF UInv
<1>8. CASE UNCHANGED allvars
  <2>1. UNCHANGED vars /\ UNCHANGED <<hpc, himg, hblk, waiting, faults>>
    BY <1>8 DEF allvars, host
  <2> QED BY <1>0, <2>1, StaysInDfu, OwnKeepsDevice, OwnKeepsTool DEF UInv
<1> QED BY <1>1, <1>2, <1>3, <1>4, <1>5, <1>6, <1>7, <1>8 DEF UNext

LEMMA UpdateInit == UInit => UInv
<1> SUFFICES ASSUME UInit PROVE UInv
  OBVIOUS
<1>1. BootInv
  BY BootInit DEF UInit
<1>2. Target < End - 2 /\ MaxFaults \in Nat
  BY BootAssumption, UpdateAssumption DEF UInit, Init, Target, Page
<1>3. DeviceInv
  BY <1>1, <1>2 DEF UInit, Init, DeviceInv, AllBlocksApplied
<1>4. ToolInv
  <2>1. hpc = "idle" /\ himg \in Images /\ hblk = 0 /\ ~waiting /\ waiting \in BOOLEAN /\ faults = 0
    BY DEF UInit
  <2>2. 0 \in 0 .. MaxFaults
    BY <1>2
  <2> QED BY <2>1, <2>2 DEF ToolInv
<1> QED BY <1>3, <1>4 DEF UInv

LEMMA UpdateInvariant == USpec => []UInv
<1> QED BY UpdateInit, UpdateStep, PTL DEF USpec

-----------------------------------------------------------------------------
(* Tool and device agree on where the download stands, over any number of  *)
(* faults and reruns: an answer the tool waits for is there or being made, *)
(* it tells the device's state, and it is about the block the tool sent.   *)
THEOREM ToolAndDeviceAgree == USpec => []ToolInStep
<1>1. UInv => ToolInStep
  BY DEF UInv, DeviceInv, ToolInv, ToolInStep
<1> QED BY <1>1, UpdateInvariant, PTL

(* Every block that the tool counts as sent is in flash, whatever an       *)
(* earlier run left in the device (usb_dfu.c:140).                         *)
THEOREM BlocksStay == USpec => []AcknowledgedBlocks
<1>1. UInv => AcknowledgedBlocks
  BY DEF UInv, ToolInv, AcknowledgedBlocks
<1> QED BY <1>1, UpdateInvariant, PTL

(* A tool that reports success has installed the image, after any number   *)
(* of flash errors, power losses, resets and killed runs.                  *)
THEOREM SuccessIsInstalled == USpec => []DoneIsInstalled
<1>1. ASSUME UInv PROVE DoneIsInstalled
  <2> SUFFICES ASSUME hpc = "done", NEW k \in ImageBlocks(himg) PROVE PageHolds(Page(k), himg[k])
    BY DEF DoneIsInstalled, Installed
  <2>1. k < hblk /\ Installed(himg, hblk)
    BY <1>1, LastBlock DEF UInv, ToolInv
  <2> QED BY <2>1 DEF Installed
<1> QED BY <1>1, UpdateInvariant, PTL

(* usb_dfu.c:149: the device manifests only with the last block applied,   *)
(* under a host that ends a download as dfu-util does.                     *)
THEOREM ManifestsApplied == USpec => []AllBlocksApplied
<1>1. UInv => AllBlocksApplied
  BY DEF UInv, DeviceInv
<1> QED BY <1>1, UpdateInvariant, PTL

(* No step of an update writes a page of the settings.                     *)
THEOREM SettingsKept == USpec => SettingsUntouched
<1>1. ASSUME UInv, [UNext]_allvars PROVE [\A p \in SettingsPages : flash'[p] = flash[p]]_allvars
  <2> SUFFICES ASSUME NEW p \in SettingsPages, flash'[p] # flash[p] PROVE FALSE
    OBVIOUS
  <2>1. p \in Pages /\ p >= End - 2 /\ Target < End - 2 /\ BootInv
    BY <1>1, BootAssumption, UpdateAssumption DEF SettingsPages, Pages, UInv, DeviceInv
  <2>2. [Next]_vars \/ flash' = flash
    BY <1>1 DEF UNext, Start, Tool, SendGetStatus, ReadAnswer, SendBlock, SendEnd, SendClear, SendAbort,
         LoseDevice, DeviceStep, BootStep, Plug, Handoff, Release, Fault, Unplug, allvars, vars,
         Next, Request, Buttons, Dnload
  <2>3. p = Target
    BY <2>1, <2>2, OneWrite
  <2> QED BY <2>1, <2>3, BootAssumption, UpdateAssumption DEF SettingsPages, UInv, DeviceInv, Target
<1> QED BY <1>1, UpdateInvariant, PTL DEF USpec, SettingsUntouched

(* What the bootloader promises any host it promises the update tool, over *)
(* any number of interrupted updates: each block is stored as a whole or   *)
(* judged a failure, and only its own page is at stake.                    *)
THEOREM UpdateIsAtomic == USpec => ImplementsBlocks
<1>1. UInit => Promise!Init
  BY PromiseInit DEF UInit
<1>2. ASSUME UInv, UInv', [UNext]_allvars PROVE [Promise!Next]_(Promise!vars)
  <2>1. BootInv /\ BootInv'
    BY <1>2 DEF UInv, DeviceInv
  <2>2. CASE SendBlock
    <3>1. /\ himg \in Images /\ hblk \in ImageBlocks(himg)
          /\ Dnload(hblk, Len(himg[hblk]), himg[hblk]) /\ Serving
      BY <1>2, <2>2 DEF SendBlock, UInv, ToolInv, Dnload
    <3>2. hblk \in Nat /\ Len(himg[hblk]) \in CellIx /\ himg[hblk] \in [1 .. Len(himg[hblk]) -> Data]
      BY <3>1, BlockTypes
    <3> QED BY <2>1, <3>1, <3>2, RequestMapped
  <2>3. CASE ~SendBlock
    <3>1. [Next]_vars
      BY <1>2, <2>3 DEF UNext, Start, Tool, SendGetStatus, ReadAnswer, SendEnd, SendClear, SendAbort,
           LoseDevice, DeviceStep, BootStep, Plug, Handoff, Release, Fault, Unplug, allvars,
           Next, Request, Buttons
    <3> QED BY <2>1, <3>1, PromiseNext
  <2> QED BY <2>2, <2>3
<1>3. UInv /\ UInv' /\ [UNext]_allvars => [Promise!Next]_(Promise!vars)
  BY <1>2
<1> QED BY <1>1, <1>3, UpdateInvariant, PTL DEF USpec, ImplementsBlocks, Promise!Spec
=============================================================================
