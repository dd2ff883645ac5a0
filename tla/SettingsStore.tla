---------------------------- MODULE SettingsStore ----------------------------
(***************************************************************************)
(* The persistent settings of the application firmware                     *)
(* (firmware/src/services/settings.{hpp,cpp}) over the flash driver        *)
(* (firmware/src/platform/flash.cpp) and the STM32F0 flash controller.     *)
(*                                                                         *)
(* Two flash pages form a log of length one: save() erases the page that   *)
(* is not active and programs a complete blob into it; load() picks the    *)
(* newer valid page.  The power may go away between any two half-words,    *)
(* and the controller may report an error for any of them.                 *)
(*                                                                         *)
(* A blob is a row of cells in the order program() writes them.  Fields of *)
(* several half-words (magic, size with _pad, crc, a slot, the last four   *)
(* bytes of the payload) are one cell: while one is half written it reads  *)
(* as anything.  The checksum is a constant; of CRC-32 only what is true   *)
(* of it is assumed.                                                       *)
(***************************************************************************)
EXTENDS Naturals

CONSTANTS HalfMod,         \* half the range of the 16-bit sequence number
          PayloadLen,      \* cells of payload after the header
          Magic,           \* kMagic
          Version,         \* kVersion of the running firmware
          Stored,          \* the payloads the modules store
          Defaults,        \* kDefault of the slots
          Crc,             \* CRC-32 of the covered cells
          Shipped,         \* what a page can hold before the first save()
          CutErase         \* the sets of cells an interrupted erase can clear

SeqMod == 2 * HalfMod
HalfWord == 0 .. SeqMod - 1
Erased == SeqMod - 1       \* 0xFFFF

Payload == [1 .. PayloadLen -> HalfWord]
Zeros == [i \in 1 .. PayloadLen |-> 0]

(* The cells of a blob in address order: the fields of struct Header, then *)
(* the payload.                                                            *)
MagicC == 1
VersionC == 2
SeqC == 3
SizeC == 4
CrcC == 5
NCells == CrcC + PayloadLen
Cells == 1 .. NCells
PageOK(pg) == pg \in [Cells -> HalfWord]
ErasedPage == [c \in Cells |-> Erased]

(* What the checksum runs over: one contiguous run from version on, of the *)
(* right length for a payload without the crc field before it.  So the crc *)
(* field is in it and the last four bytes of the payload are not.          *)
Covered == Cells \ {MagicC, NCells}
Body == [Covered -> HalfWord]

ASSUME StoreAssumption ==
    /\ HalfMod \in Nat /\ HalfMod >= 2
    /\ PayloadLen \in Nat /\ PayloadLen >= 2 /\ PayloadLen \in HalfWord
    /\ Stored \subseteq Payload
    /\ Magic \in HalfWord \ {Erased}
    /\ Version \in HalfWord \ {Erased}
    /\ Defaults \in Payload
    /\ \A pg \in Shipped : PageOK(pg)
    /\ CutErase \subseteq SUBSET Cells
    /\ Crc \in [Body -> HalfWord]

(* A CRC whose width is that of a run of its input tells any two values of *)
(* that run apart.                                                         *)
ASSUME CrcAssumption ==
    \A f \in Body, x, y \in HalfWord :
        Crc[[f EXCEPT ![CrcC] = x]] = Crc[[f EXCEPT ![CrcC] = y]] => x = y

Pages == {"A", "B"}
NoPage == "none"           \* active_addr_ == 0

VARIABLES flash,           \* the two settings pages
          sr,              \* FLASH_SR error flags, cleared only by a reset
          wrp,             \* the pages the option bytes write-protect
          pc,              \* "off", "idle", or inside save(): "erase", "program"
          ram,             \* store_
          active_addr, active_seq,
          written,         \* half-words programmed so far, i / 2 in program()
          acked            \* history: what load() returned, or the last save()
                           \* that returned true wrote

vars == <<flash, sr, wrp, pc, ram, active_addr, active_seq, written, acked>>

-----------------------------------------------------------------------------
crc32(pg) == Crc[[c \in Covered |-> pg[c]]]

header_valid(pg) == /\ pg[MagicC] = Magic
                    /\ pg[VersionC] = Version
                    /\ pg[SizeC] = PayloadLen
                    /\ pg[CrcC] = crc32(pg)

PayloadOf(pg) == [i \in 1 .. PayloadLen |-> pg[CrcC + i]]

\* static_cast<uint16_t>(s + 1)
NextSeq(s) == IF s = SeqMod - 1 THEN 0 ELSE s + 1

\* Mutant: the numbers are compared as they are.
GreaterSeq(a, b) == a >= b
\* static_cast<int16_t>(a - b) >= 0
NotOlder(a, b) == (IF a >= b THEN a - b ELSE a - b + SeqMod) < HalfMod

(* The page load() picks in a given flash. *)
Winner(fl) ==
    LET va == header_valid(fl["A"])
        vb == header_valid(fl["B"])
    IN  IF va /\ (vb => NotOlder(fl["A"][SeqC], fl["B"][SeqC])) THEN "A"
        ELSE IF vb THEN "B" ELSE NoPage

Loaded(fl) == IF Winner(fl) = NoPage THEN Defaults ELSE PayloadOf(fl[Winner(fl)])

\* Mutant: the pages do not alternate.
FirstPage == "A"
(* The page the next save() writes. *)
Target == IF active_addr = "A" THEN "B" ELSE "A"

(* The blob save() stages in RAM: the checksum is computed while the crc   *)
(* field is still zero, and then put there.                                *)
Staged(ver, seq, p) ==
    [c \in Cells |-> IF c = MagicC THEN Magic
                     ELSE IF c = VersionC THEN ver
                     ELSE IF c = SeqC THEN seq
                     ELSE IF c = SizeC THEN PayloadLen
                     ELSE IF c = CrcC THEN 0
                     ELSE p[c - CrcC]]
BlobOf(ver, seq, p) == [Staged(ver, seq, p) EXCEPT ![CrcC] = crc32(Staged(ver, seq, p))]
Blob == BlobOf(Version, NextSeq(active_seq), ram)

-----------------------------------------------------------------------------
(* The static members before load(), and pages with anything in them: a    *)
(* firmware update neither erases nor writes them.                         *)
Init ==
    /\ flash \in [Pages -> Shipped]
    /\ sr = {}
    /\ wrp = {}
    /\ pc = "off"
    /\ ram = Zeros
    /\ active_addr = NoPage
    /\ active_seq = 0
    /\ written = 0
    /\ acked = Zeros

(* Power-up, which latches the option bytes, and Settings::load.           *)
Load ==
    /\ pc = "off"
    /\ pc' = "idle"
    /\ wrp' \in SUBSET Pages
    /\ ram' = Loaded(flash)
    /\ acked' = Loaded(flash)
    /\ active_addr' = Winner(flash)
    /\ active_seq' = IF Winner(flash) = NoPage THEN 0 ELSE flash[Winner(flash)][SeqC]
    /\ UNCHANGED <<flash, sr, written>>

(* A module writes through Settings::get<Slot>(). *)
Modify ==
    /\ pc = "idle"
    /\ ram' \in Stored
    /\ UNCHANGED <<flash, sr, wrp, pc, active_addr, active_seq, written, acked>>

BeginSave ==
    /\ pc = "idle"
    /\ pc' = "erase"
    /\ UNCHANGED <<flash, sr, wrp, ram, active_addr, active_seq, written, acked>>

(* platform::flash::erase_page(target).  The driver looks at PGERR only: a *)
(* page that is write-protected stays as it is and the call still returns  *)
(* true, and a PGERR left by an earlier save makes it return false after   *)
(* the page was erased.                                                    *)
erase_page ==
    /\ pc = "erase"
    /\ IF Target \in wrp
         THEN flash' = flash /\ sr' = sr \cup {"WRPRTERR"}
         ELSE flash' = [flash EXCEPT ![Target] = ErasedPage] /\ sr' = sr
    /\ pc' = IF "PGERR" \in sr' THEN "idle" ELSE "program"
    /\ written' = 0
    /\ UNCHANGED <<wrp, ram, active_addr, active_seq, acked>>

(* What an interrupted erase or an interrupted cell leaves behind: some of *)
(* the cells cleared; a cell that reads as anything, unless no bit of it   *)
(* had to change.                                                          *)
HalfErased(pg, S) == [c \in Cells |-> IF c \in S THEN Erased ELSE pg[c]]
TornCell(pg, c) ==
    IF pg[c] # Erased THEN {pg}
    ELSE {[pg EXCEPT ![c] = x] : x \in IF Blob[c] = Erased THEN {Erased} ELSE HalfWord}

(* One iteration of the loop of platform::flash::program.  The controller  *)
(* refuses a protected page and a half-word that is not erased; a worn one *)
(* may look not erased, also in the middle of a cell.  The flags are read  *)
(* after each half-word, and were not cleared before it.                   *)
ProgramCell ==
    LET c == written + 1
    IN  /\ pc = "program"
        /\ written < NCells
        /\ \/ /\ Target \in wrp
              /\ sr' = sr \cup {"WRPRTERR"}
              /\ flash' = flash
           \/ /\ Target \notin wrp
              /\ sr' = sr \cup {"PGERR"}
              /\ \E pg \in TornCell(flash[Target], c) : flash' = [flash EXCEPT ![Target] = pg]
           \/ /\ Target \notin wrp
              /\ flash[Target][c] = Erased
              /\ sr' = sr
              /\ flash' = [flash EXCEPT ![Target][c] = Blob[c]]
        /\ IF sr' = {}
             THEN written' = c /\ pc' = pc
             ELSE written' = 0 /\ pc' = "idle"       \* save() returns false
        /\ UNCHANGED <<wrp, ram, active_addr, active_seq, acked>>

\* Mutant: the RAM copy of the sequence number is not updated.
SaveOkStaleSeq ==
    /\ pc = "program"
    /\ written = NCells
    /\ active_addr' = Target
    /\ acked' = ram
    /\ pc' = "idle"
    /\ written' = 0
    /\ UNCHANGED <<flash, sr, wrp, ram, active_seq>>
\* Mutant: active_seq_ is wider than the number in the header.
SaveOkWideSeq ==
    /\ pc = "program"
    /\ written = NCells
    /\ active_addr' = Target
    /\ acked' = ram
    /\ active_seq' = active_seq + 1
    /\ pc' = "idle"
    /\ written' = 0
    /\ UNCHANGED <<flash, sr, wrp, ram>>
(* program() returned true: save() commits and returns true. *)
SaveOk ==
    /\ pc = "program"
    /\ written = NCells
    /\ active_addr' = Target
    /\ acked' = ram
    /\ active_seq' = NextSeq(active_seq)
    /\ pc' = "idle"
    /\ written' = 0
    /\ UNCHANGED <<flash, sr, wrp, ram>>

PowerLoss ==
    /\ pc # "off"
    /\ pc' = "off"
    /\ \/ flash' = flash
       \/ /\ pc = "erase" /\ Target \notin wrp
          /\ \E S \in CutErase :
                flash' = [flash EXCEPT ![Target] = HalfErased(@, S)]
       \/ /\ pc = "program" /\ Target \notin wrp /\ written < NCells
          /\ \E pg \in TornCell(flash[Target], written + 1) :
                flash' = [flash EXCEPT ![Target] = pg]
    /\ sr' = {}
    /\ wrp' = {}
    /\ ram' = Zeros
    /\ active_addr' = NoPage
    /\ active_seq' = 0
    /\ written' = 0
    /\ acked' = Zeros

Next == Load \/ Modify \/ BeginSave \/ erase_page \/ ProgramCell \/ SaveOk \/ PowerLoss

Spec == Init /\ [][Next]_vars

-----------------------------------------------------------------------------
(* Every variable keeps its type; in particular the sequence number stays  *)
(* a half-word and no save() writes past the blob.                         *)
TypeOK ==
    /\ flash \in [Pages -> [Cells -> HalfWord]]
    /\ sr \subseteq {"PGERR", "WRPRTERR"}
    /\ wrp \subseteq Pages
    /\ pc \in {"off", "idle", "erase", "program"}
    /\ ram \in Payload
    /\ active_addr \in Pages \cup {NoPage}
    /\ active_seq \in HalfWord
    /\ written \in 0 .. NCells
    /\ acked \in Payload

(* As long as the power stays on, the settings that load() returned or the *)
(* last successful save() wrote stay in the active page, whatever saves    *)
(* fail after it, under the number the next save() counts on from.         *)
ActiveHolds ==
    /\ active_addr # NoPage =>
          /\ flash[active_addr][MagicC] = Magic
          /\ flash[active_addr][VersionC] = Version
          /\ flash[active_addr][SeqC] = active_seq
          /\ flash[active_addr][SizeC] = PayloadLen
          /\ PayloadOf(flash[active_addr]) = acked
    /\ active_addr = NoPage =>
          active_seq = 0 /\ acked = IF pc = "off" THEN Zeros ELSE Defaults

(* Without an active page the only page that can be valid is the one the   *)
(* next save() erases.                                                     *)
NoForgottenPage ==
    pc # "off" /\ active_addr = NoPage =>
        \A p \in Pages : header_valid(flash[p]) => p = Target

(* While program() runs, the target page is exactly a prefix of the blob,  *)
(* unless the page is protected, which the first half-word will report.    *)
ProgramExact ==
    pc = "program" =>
        \/ Target \in wrp /\ written = 0 /\ sr # {}
        \/ /\ Target \notin wrp
           /\ sr = {} \/ written = 0
           /\ \A c \in Cells : flash[Target][c] = IF c <= written THEN Blob[c] ELSE Erased

(* The inductive invariant: the parts above and the reset values while off. *)
StoreInv ==
    /\ TypeOK
    /\ ActiveHolds
    /\ NoForgottenPage
    /\ ProgramExact
    /\ pc = "off" => sr = {} /\ active_addr = NoPage

(* settings.hpp:83-84: "the previously active page is left untouched".     *)
(* From one load() to the next power loss no step, the power loss in the   *)
(* middle of a save included, changes the page that was active before it.  *)
(* A load() may forget which page that was; see SavedIsFound.              *)
ActivePageUntouched ==
    [][active_addr # NoPage => flash'[active_addr] = flash[active_addr]]_vars

(* A page that save() has just completed is what the next load() picks,    *)
(* before an older valid one and also when the number has wrapped, if and  *)
(* only if its checksum happens to be zero: header_valid computes the sum  *)
(* over the stored checksum, save() over a zero in its place.              *)
FoundIffZeroCrc ==
    pc = "program" /\ written = NCells => (Winner(flash) = Target <=> Blob[CrcC] = 0)

(* settings.hpp:18: "then the new page becomes authoritative on next boot".  *)
SavedIsFound == pc = "program" /\ written = NCells => Winner(flash) = Target
=============================================================================
