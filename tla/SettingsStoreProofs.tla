------------------------- MODULE SettingsStoreProofs -------------------------
(***************************************************************************)
(* Proofs about SettingsStore for every sequence-number width, payload     *)
(* length, content of the pages before the first save() and set of ways    *)
(* in which an erase can be cut short.  Of the checksum they use only that *)
(* its own field, which it runs over, changes it (CrcAssumption).          *)
(***************************************************************************)
EXTENDS SettingsStore, TLAPS

-----------------------------------------------------------------------------
(* Cells and pages.                                                        *)

(* The layout of a blob: the header cells are distinct, the payload        *)
(* follows, and its last cell is not covered.                              *)
LEMMA Layout ==
    /\ Cells = 1 .. NCells /\ NCells \in Nat /\ NCells >= 7
    /\ {MagicC, VersionC, SeqC, SizeC, CrcC} \subseteq Cells
    /\ CrcC \in Covered /\ Covered \subseteq Cells
    /\ \A i \in 1 .. PayloadLen : /\ CrcC + i \in Cells /\ CrcC + i - CrcC = i
                                  /\ CrcC + i \notin {MagicC, VersionC, SeqC, SizeC, CrcC}
    /\ \A c \in Cells \ {MagicC, VersionC, SeqC, SizeC, CrcC} : c - CrcC \in 1 .. PayloadLen
    /\ SeqMod \in Nat /\ SeqMod >= 4
    /\ Erased \in HalfWord /\ 0 \in HalfWord
    /\ Magic \in HalfWord /\ Version \in HalfWord /\ PayloadLen \in HalfWord
BY StoreAssumption
   DEF Cells, NCells, MagicC, VersionC, SeqC, SizeC, CrcC, Covered, SeqMod, HalfWord, Erased

LEMMA ErasedPageOK == PageOK(ErasedPage)
BY Layout DEF PageOK, ErasedPage

LEMMA CrcType ==
    ASSUME NEW pg, PageOK(pg)
    PROVE  [c \in Covered |-> pg[c]] \in Body /\ crc32(pg) \in HalfWord
<1>1. [c \in Covered |-> pg[c]] \in Body
  BY Layout DEF PageOK, Body
<1> QED
  BY <1>1, StoreAssumption DEF crc32

(* What the cells of a blob are, before and after its checksum is filled in.  *)
LEMMA StagedCells ==
    ASSUME NEW ver \in HalfWord, NEW seq \in HalfWord, NEW p \in Payload
    PROVE  LET s == Staged(ver, seq, p)
           IN  /\ PageOK(s)
               /\ s[MagicC] = Magic /\ s[VersionC] = ver /\ s[SeqC] = seq
               /\ s[SizeC] = PayloadLen /\ s[CrcC] = 0
               /\ \A i \in 1 .. PayloadLen : s[CrcC + i] = p[i]
<1> DEFINE s == Staged(ver, seq, p)
<1>1. \A i \in 1 .. PayloadLen : p[i] \in HalfWord
  BY DEF Payload
<1>2. ASSUME NEW c \in Cells PROVE s[c] \in HalfWord
  BY <1>1, Layout DEF Staged
<1>3. PageOK(s)
  BY <1>2 DEF Staged, PageOK
<1>4. /\ s[MagicC] = Magic /\ s[VersionC] = ver /\ s[SeqC] = seq
      /\ s[SizeC] = PayloadLen /\ s[CrcC] = 0
  BY Layout DEF Staged, MagicC, VersionC, SeqC, SizeC, CrcC
<1>5. ASSUME NEW i \in 1 .. PayloadLen PROVE s[CrcC + i] = p[i]
  BY Layout DEF Staged
<1> QED
  BY <1>3, <1>4, <1>5

LEMMA BlobCells ==
    ASSUME NEW ver \in HalfWord, NEW seq \in HalfWord, NEW p \in Payload
    PROVE  LET b == BlobOf(ver, seq, p)
           IN  /\ PageOK(b)
               /\ b[MagicC] = Magic /\ b[VersionC] = ver /\ b[SeqC] = seq
               /\ b[SizeC] = PayloadLen
               /\ b[CrcC] = crc32(Staged(ver, seq, p))
               /\ \A c \in Cells : c # CrcC => b[c] = Staged(ver, seq, p)[c]
               /\ PayloadOf(b) = p
<1> DEFINE s == Staged(ver, seq, p)
           b == BlobOf(ver, seq, p)
<1>1. PageOK(s) /\ crc32(s) \in HalfWord
  BY StagedCells, CrcType
<1>2. /\ PageOK(b) /\ b[CrcC] = crc32(s)
      /\ \A c \in Cells : c # CrcC => b[c] = s[c]
  BY <1>1, Layout DEF BlobOf, PageOK
<1>3. b[MagicC] = Magic /\ b[VersionC] = ver /\ b[SeqC] = seq /\ b[SizeC] = PayloadLen
  BY <1>2, StagedCells, Layout DEF MagicC, VersionC, SeqC, SizeC, CrcC
<1>4. PayloadOf(b) = p
  <2>1. \A i \in 1 .. PayloadLen : b[CrcC + i] = p[i]
    BY <1>2, StagedCells, Layout
  <2>2. p = [i \in 1 .. PayloadLen |-> p[i]]
    BY DEF Payload
  <2> QED
    BY <2>1, <2>2 DEF PayloadOf
<1> QED
  BY <1>2, <1>3, <1>4

LEMMA FlashUpdate ==
    ASSUME NEW fl \in [Pages -> [Cells -> HalfWord]], NEW p \in Pages, NEW pg, PageOK(pg)
    PROVE  /\ [fl EXCEPT ![p] = pg] \in [Pages -> [Cells -> HalfWord]]
           /\ [fl EXCEPT ![p] = pg][p] = pg
           /\ \A q \in Pages : q # p => [fl EXCEPT ![p] = pg][q] = fl[q]
BY DEF PageOK

(* Pages that agree on every cell are equally valid, with one number and   *)
(* payload.                                                                *)
LEMMA SamePage ==
    ASSUME NEW pg, NEW qg, \A c \in Cells : pg[c] = qg[c]
    PROVE  /\ header_valid(pg) <=> header_valid(qg)
           /\ pg[SeqC] = qg[SeqC]
           /\ PayloadOf(pg) = PayloadOf(qg)
<1>1. crc32(pg) = crc32(qg)
  BY Layout DEF crc32
<1>2. PayloadOf(pg) = PayloadOf(qg)
  BY Layout DEF PayloadOf
<1> QED
  BY <1>1, <1>2, Layout DEF header_valid

-----------------------------------------------------------------------------
(* settings.cpp:46-49, 90, 103-106: the checksum runs over its own field,  *)
(* which holds zero in save() and the checksum in load().  Whatever the    *)
(* checksum function, a page that save() wrote as a whole passes           *)
(* header_valid only if its checksum is zero.                              *)
THEOREM SavedPageValid ==
    ASSUME NEW seq \in HalfWord, NEW p \in Payload
    PROVE  header_valid(BlobOf(Version, seq, p)) <=> BlobOf(Version, seq, p)[CrcC] = 0
<1> DEFINE s == Staged(Version, seq, p)
           b == BlobOf(Version, seq, p)
           f == [c \in Covered |-> s[c]]
           g == [c \in Covered |-> b[c]]
<1>0. Version \in HalfWord
  BY Layout
<1>1. header_valid(b) <=> Crc[f] = Crc[g]
  BY <1>0, BlobCells DEF header_valid, crc32
<1>2. f \in Body /\ f[CrcC] = 0 /\ 0 \in HalfWord /\ b[CrcC] \in HalfWord
  BY <1>0, StagedCells, BlobCells, CrcType, Layout
<1>3. f = [f EXCEPT ![CrcC] = 0]
  BY <1>2 DEF Body
<1>4. g = [f EXCEPT ![CrcC] = b[CrcC]]
  <2>1. ASSUME NEW c \in Covered PROVE b[c] = IF c = CrcC THEN b[CrcC] ELSE f[c]
    BY <1>0, BlobCells, Layout
  <2>2. f = [c \in Covered |-> f[c]]
    OBVIOUS
  <2> HIDE DEF f, b
  <2> QED
    BY <2>1, <2>2
<1>5. Crc[f] = Crc[g] <=> b[CrcC] = 0
  <2>1. ASSUME NEW x \in HalfWord, NEW y \in HalfWord,
               Crc[[f EXCEPT ![CrcC] = x]] = Crc[[f EXCEPT ![CrcC] = y]]
        PROVE  x = y
    BY <1>2, <2>1, CrcAssumption
  <2> QED
    BY <1>2, <1>3, <1>4, <2>1
<1> QED
  BY <1>1, <1>5

-----------------------------------------------------------------------------
(* Sequence numbers and the two pages.                                     *)

(* The number save() writes is a half-word, and the newer of the two in    *)
(* load()'s comparison, also when the counter wraps.                       *)
LEMMA NextIsNewer ==
    ASSUME NEW s \in HalfWord
    PROVE  /\ NextSeq(s) \in HalfWord
           /\ NotOlder(NextSeq(s), s)
           /\ ~NotOlder(s, NextSeq(s))
BY StoreAssumption DEF NextSeq, NotOlder, HalfWord, SeqMod

LEMMA TargetPage ==
    ASSUME TypeOK
    PROVE  /\ Target \in Pages /\ Target # NoPage
           /\ Target # active_addr
           /\ active_addr = NoPage => Target = "A"
           /\ active_addr # NoPage => \/ active_addr = "A" /\ Target = "B"
                                      \/ active_addr = "B" /\ Target = "A"
BY DEF TypeOK, Target, Pages, NoPage

LEMMA BlobFacts ==
    ASSUME TypeOK
    PROVE  /\ PageOK(Blob)
           /\ Blob[MagicC] = Magic /\ Blob[VersionC] = Version
           /\ Blob[SeqC] = NextSeq(active_seq) /\ Blob[SizeC] = PayloadLen
           /\ PayloadOf(Blob) = ram
           /\ header_valid(Blob) <=> Blob[CrcC] = 0
<1>1. NextSeq(active_seq) \in HalfWord /\ ram \in Payload /\ Version \in HalfWord
  BY NextIsNewer, Layout DEF TypeOK
<1> QED
  BY <1>1, BlobCells, SavedPageValid DEF Blob

(* What load() picks is valid; it picks a page whenever one is valid.      *)
LEMMA WinnerValid ==
    ASSUME NEW fl
    PROVE  /\ Winner(fl) \in Pages \cup {NoPage}
           /\ Winner(fl) # NoPage => header_valid(fl[Winner(fl)])
           /\ Winner(fl) = NoPage => \A p \in Pages : ~header_valid(fl[p])
BY DEF Winner, Pages, NoPage

LEMMA PageContents ==
    ASSUME NEW pg, PageOK(pg)
    PROVE  pg[SeqC] \in HalfWord /\ PayloadOf(pg) \in Payload
BY Layout DEF PageOK, PayloadOf, Payload

-----------------------------------------------------------------------------
(* The invariant.                                                          *)

LEMMA StoreInit == Init => StoreInv
<1> SUFFICES ASSUME Init PROVE StoreInv
  OBVIOUS
<1>1. flash \in [Pages -> [Cells -> HalfWord]]
  BY StoreAssumption DEF Init, PageOK
<1>2. Zeros \in Payload /\ 0 \in HalfWord /\ 0 \in 0 .. NCells
  BY Layout DEF Zeros, Payload
<1>3. TypeOK
  BY <1>1, <1>2 DEF Init, TypeOK
<1> QED
  BY <1>3 DEF Init, StoreInv, ActiveHolds, NoForgottenPage, ProgramExact

LEMMA LoadStep == StoreInv /\ Load => StoreInv'
<1> SUFFICES ASSUME StoreInv, Load PROVE StoreInv'
  OBVIOUS
<1> USE DEF Load
<1>0. TypeOK /\ flash' = flash /\ Defaults \in Payload /\ 0 \in HalfWord
  BY StoreAssumption, Layout DEF StoreInv
<1>1. active_addr' = Winner(flash) /\ active_addr' \in Pages \cup {NoPage} /\ NoPage \notin Pages
  BY WinnerValid DEF Pages, NoPage
<1>2. \A p \in Pages : PageOK(flash[p])
  BY <1>0 DEF TypeOK, PageOK
<1>3. ram' \in Payload /\ acked' \in Payload /\ active_seq' \in HalfWord
  BY <1>0, <1>1, <1>2, PageContents DEF Loaded
<1>4. TypeOK'
  BY <1>0, <1>1, <1>3 DEF TypeOK
<1>5. ActiveHolds'
  <2>1. CASE Winner(flash) = NoPage
    BY <2>1, <1>1 DEF ActiveHolds, Loaded
  <2>2. CASE Winner(flash) # NoPage
    <3>1. header_valid(flash[Winner(flash)])
      BY <2>2, WinnerValid
    <3> QED
      BY <2>2, <3>1, <1>0, <1>1 DEF ActiveHolds, Loaded, header_valid
  <2> QED
    BY <2>1, <2>2
<1>6. NoForgottenPage'
  BY <1>0, <1>1, WinnerValid DEF NoForgottenPage
<1> QED
  BY <1>4, <1>5, <1>6 DEF StoreInv, ProgramExact

(* A step with the power on that keeps the active page and replaces at     *)
(* most the other one keeps what is said about them.                       *)
LEMMA SpareStep ==
    ASSUME StoreInv, pc # "off", pc' # "off",
           active_addr' = active_addr, active_seq' = active_seq, acked' = acked,
           flash' = flash \/ \E pg : PageOK(pg) /\ flash' = [flash EXCEPT ![Target] = pg]
    PROVE  /\ flash' \in [Pages -> [Cells -> HalfWord]]
           /\ ActiveHolds' /\ NoForgottenPage'
<1>0. TypeOK /\ Target' = Target /\ flash \in [Pages -> [Cells -> HalfWord]]
  BY DEF StoreInv, TypeOK, Target
<1>1. /\ flash' \in [Pages -> [Cells -> HalfWord]]
      /\ \A q \in Pages : q # Target => flash'[q] = flash[q]
  BY <1>0, TargetPage, FlashUpdate
<1>2. active_addr # NoPage => flash'[active_addr] = flash[active_addr]
  BY <1>0, <1>1, TargetPage DEF TypeOK
<1>3. ActiveHolds'
  BY <1>2 DEF StoreInv, ActiveHolds
<1>4. NoForgottenPage'
  BY <1>0, <1>1 DEF StoreInv, NoForgottenPage
<1> QED
  BY <1>1, <1>3, <1>4

LEMMA EraseStep == StoreInv /\ erase_page => StoreInv'
<1> SUFFICES ASSUME StoreInv, erase_page PROVE StoreInv'
  OBVIOUS
<1>0. /\ TypeOK /\ pc # "off" /\ pc' # "off" /\ pc' \in {"idle", "program"}
      /\ written' = 0 /\ 0 \in 0 .. NCells /\ UNCHANGED <<wrp, ram, active_addr, active_seq, acked>>
      /\ Target' = Target
  BY Layout DEF StoreInv, erase_page, Target
<1>1. sr' \subseteq {"PGERR", "WRPRTERR"}
  BY <1>0 DEF TypeOK, erase_page
<1>2. flash' \in [Pages -> [Cells -> HalfWord]] /\ ActiveHolds' /\ NoForgottenPage'
  BY <1>0, SpareStep, ErasedPageOK DEF erase_page
<1>3. TypeOK'
  BY <1>0, <1>2, <1>1 DEF TypeOK
<1>4. ProgramExact'
  <2>1. CASE Target \in wrp
    BY <2>1, <1>0 DEF ProgramExact, erase_page
  <2>2. CASE Target \notin wrp
    <3>1. flash'[Target] = ErasedPage
      BY <2>2, <1>0, TargetPage DEF erase_page, TypeOK
    <3>2. \A c \in Cells : ~(c <= 0) /\ flash'[Target][c] = Erased
      BY <3>1, Layout DEF ErasedPage
    <3> QED
      BY <2>2, <3>2, <1>0 DEF ProgramExact
  <2> QED
    BY <2>1, <2>2
<1> QED
  BY <1>0, <1>2, <1>3, <1>4 DEF StoreInv

(* A cut-short erase and a torn cell leave pages.                          *)
LEMMA HalfErasedPage ==
    ASSUME NEW pg, PageOK(pg), NEW S PROVE PageOK(HalfErased(pg, S))
BY Layout DEF PageOK, HalfErased

LEMMA TornPage ==
    ASSUME NEW pg, PageOK(pg), NEW c \in Cells, NEW qg \in TornCell(pg, c)
    PROVE  PageOK(qg)
BY Layout DEF PageOK, TornCell

LEMMA ProgramStep == StoreInv /\ ProgramCell => StoreInv'
<1> SUFFICES ASSUME StoreInv, ProgramCell PROVE StoreInv'
  OBVIOUS
<1>0. /\ TypeOK /\ pc = "program" /\ pc # "off" /\ written < NCells /\ written \in Nat
      /\ pc' \in {"idle", "program"} /\ pc' # "off"
      /\ UNCHANGED <<wrp, ram, active_addr, active_seq, acked>>
      /\ Target' = Target /\ Blob' = Blob
      /\ IF sr' = {} THEN written' = written + 1 /\ pc' = pc ELSE written' = 0 /\ pc' = "idle"
  <2>1. TypeOK /\ pc = "program" /\ written < NCells /\ written \in Nat
    BY Layout DEF StoreInv, TypeOK, ProgramCell
  <2>2. /\ UNCHANGED <<wrp, ram, active_addr, active_seq, acked>>
        /\ IF sr' = {} THEN written' = written + 1 /\ pc' = pc ELSE written' = 0 /\ pc' = "idle"
    BY DEF ProgramCell
  <2> QED
    BY <2>1, <2>2 DEF Target, Blob
<1>1. sr' \subseteq {"PGERR", "WRPRTERR"}
  BY <1>0 DEF TypeOK, ProgramCell
<1>2. /\ written' \in 0 .. NCells /\ written + 1 \in Cells /\ Target \in Pages
      /\ PageOK(flash[Target]) /\ flash[Target] \in [Cells -> HalfWord]
  BY <1>0, TargetPage, Layout DEF TypeOK, PageOK
<1>3. Blob[written + 1] \in HalfWord
  BY <1>0, <1>2, BlobFacts DEF PageOK
<1>4. /\ sr' = {} => /\ Target \notin wrp /\ sr = {}
                     /\ flash' = [flash EXCEPT ![Target][written + 1] = Blob[written + 1]]
      /\ \/ flash' = flash
         \/ \E pg \in TornCell(flash[Target], written + 1) : flash' = [flash EXCEPT ![Target] = pg]
         \/ flash' = [flash EXCEPT ![Target][written + 1] = Blob[written + 1]]
  BY DEF ProgramCell
<1>5. flash' = flash \/ \E pg : PageOK(pg) /\ flash' = [flash EXCEPT ![Target] = pg]
  <2>1. PageOK([flash[Target] EXCEPT ![written + 1] = Blob[written + 1]])
    BY <1>2, <1>3 DEF PageOK
  <2>2. [flash EXCEPT ![Target][written + 1] = Blob[written + 1]] =
        [flash EXCEPT ![Target] = [flash[Target] EXCEPT ![written + 1] = Blob[written + 1]]]
    OBVIOUS
  <2> QED
    BY <2>1, <2>2, <1>2, <1>4, TornPage
<1>6. flash' \in [Pages -> [Cells -> HalfWord]] /\ ActiveHolds' /\ NoForgottenPage'
  BY <1>0, <1>5, SpareStep
<1>7. TypeOK'
  BY <1>0, <1>2, <1>6, <1>1 DEF TypeOK
<1>8. ProgramExact'
  <2>1. CASE sr' # {}
    BY <2>1, <1>0 DEF ProgramExact
  <2>2. CASE sr' = {}
    <3>1. /\ Target \notin wrp /\ sr = {} /\ written' = written + 1
          /\ flash' = [flash EXCEPT ![Target][written + 1] = Blob[written + 1]]
      BY <2>2, <1>0, <1>4
    <3>2. \A c \in Cells : flash[Target][c] = IF c <= written THEN Blob[c] ELSE Erased
      BY <3>1, <1>0 DEF StoreInv, ProgramExact
    <3>3. /\ flash'[Target][written + 1] = Blob[written + 1]
          /\ \A c \in Cells : c # written + 1 => flash'[Target][c] = flash[Target][c]
      BY <3>1, <1>0, <1>2 DEF TypeOK
    <3>4. ASSUME NEW c \in Cells
          PROVE  flash'[Target][c] = IF c <= written + 1 THEN Blob[c] ELSE Erased
      <4>1. c # written + 1 => (c <= written + 1 <=> c <= written)
        BY <1>0, Layout
      <4>2. written + 1 <= written + 1
        BY <1>0
      <4> QED
        BY <4>1, <4>2, <3>2, <3>3
    <3> QED
      BY <2>2, <3>1, <3>4, <1>0 DEF ProgramExact
  <2> QED
    BY <2>1, <2>2
<1> QED
  BY <1>0, <1>6, <1>7, <1>8 DEF StoreInv

(* What program() has completed is the blob.                               *)
LEMMA Complete ==
    ASSUME StoreInv, pc = "program", written = NCells
    PROVE  /\ \A c \in Cells : flash[Target][c] = Blob[c]
           /\ header_valid(flash[Target]) <=> Blob[CrcC] = 0
           /\ flash[Target][SeqC] = NextSeq(active_seq)
           /\ PayloadOf(flash[Target]) = ram
<1>1. NCells # 0 /\ \A c \in Cells : c <= NCells
  BY Layout
<1>2. \A c \in Cells : flash[Target][c] = Blob[c]
  BY <1>1 DEF StoreInv, ProgramExact
<1>3. TypeOK
  BY DEF StoreInv
<1> QED
  BY <1>2, <1>3, SamePage, BlobFacts

LEMMA SaveOkStep == StoreInv /\ SaveOk => StoreInv'
<1> SUFFICES ASSUME StoreInv, SaveOk PROVE StoreInv'
  OBVIOUS
<1>0. /\ TypeOK /\ pc = "program" /\ written = NCells /\ flash' = flash /\ pc' = "idle"
      /\ active_addr' = Target /\ active_seq' = NextSeq(active_seq) /\ written' = 0
      /\ acked' = ram /\ UNCHANGED <<sr, wrp, ram>> /\ Target \in Pages /\ Target # NoPage
  BY TargetPage DEF StoreInv, SaveOk
<1>1. TypeOK'
  BY <1>0, NextIsNewer, Layout DEF TypeOK
<1>2. ActiveHolds'
  BY <1>0, Complete, BlobFacts, Layout DEF ActiveHolds
<1> QED
  BY <1>0, <1>1, <1>2 DEF StoreInv, ProgramExact, NoForgottenPage

(* A power loss changes at most the page that is being saved.              *)
LEMMA PowerLossCases ==
    ASSUME StoreInv, PowerLoss
    PROVE  flash' = flash \/ \E pg : PageOK(pg) /\ flash' = [flash EXCEPT ![Target] = pg]
<1>0. PageOK(flash[Target]) /\ written \in Nat /\ (written < NCells => written + 1 \in Cells)
  BY TargetPage, Layout DEF StoreInv, TypeOK, PageOK
<1>1. ASSUME NEW S, flash' = [flash EXCEPT ![Target] = HalfErased(@, S)]
      PROVE  \E pg : PageOK(pg) /\ flash' = [flash EXCEPT ![Target] = pg]
  BY <1>0, <1>1, HalfErasedPage
<1>2. ASSUME written < NCells, NEW pg \in TornCell(flash[Target], written + 1),
             flash' = [flash EXCEPT ![Target] = pg]
      PROVE  \E qg : PageOK(qg) /\ flash' = [flash EXCEPT ![Target] = qg]
  BY <1>0, <1>2, TornPage
<1> QED
  BY <1>1, <1>2 DEF PowerLoss

LEMMA PowerLossStep == StoreInv /\ PowerLoss => StoreInv'
<1> SUFFICES ASSUME StoreInv, PowerLoss PROVE StoreInv'
  OBVIOUS
<1>0. /\ pc' = "off" /\ sr' = {} /\ wrp' = {} /\ ram' = Zeros /\ acked' = Zeros
      /\ active_addr' = NoPage /\ active_seq' = 0 /\ written' = 0 /\ TypeOK
  BY DEF PowerLoss, StoreInv
<1>1. flash' \in [Pages -> [Cells -> HalfWord]]
  BY <1>0, PowerLossCases, TargetPage, FlashUpdate DEF TypeOK
<1>2. Zeros \in Payload /\ 0 \in HalfWord /\ 0 \in 0 .. NCells
  BY Layout DEF Zeros, Payload
<1>3. TypeOK'
  BY <1>0, <1>1, <1>2 DEF TypeOK
<1> QED
  BY <1>0, <1>3 DEF StoreInv, ActiveHolds, NoForgottenPage, ProgramExact

LEMMA StoreNext == StoreInv /\ [Next]_vars => StoreInv'
<1> SUFFICES ASSUME StoreInv, [Next]_vars PROVE StoreInv'
  OBVIOUS
<1>1. CASE Load
  BY <1>1, LoadStep
<1>2. CASE erase_page
  BY <1>2, EraseStep
<1>3. CASE ProgramCell
  BY <1>3, ProgramStep
<1>4. CASE SaveOk
  BY <1>4, SaveOkStep
<1>5. CASE PowerLoss
  BY <1>5, PowerLossStep
<1>6. CASE Modify \/ BeginSave \/ UNCHANGED vars
  <2>1. /\ UNCHANGED <<flash, sr, active_addr, active_seq, written, acked, wrp>> /\ Target' = Target
        /\ pc' = "program" => pc = "program" /\ UNCHANGED <<ram, pc>>
        /\ pc' = "off" <=> pc = "off"
    BY <1>6 DEF Modify, BeginSave, vars, Target
  <2>2. TypeOK'
    BY <1>6, StoreAssumption DEF StoreInv, TypeOK, Modify, BeginSave, vars
  <2>3. ActiveHolds' /\ NoForgottenPage' /\ ProgramExact'
    BY <2>1 DEF StoreInv, ActiveHolds, NoForgottenPage, ProgramExact, Blob
  <2> QED
    BY <2>1, <2>2, <2>3 DEF StoreInv
<1> QED
  BY <1>1, <1>2, <1>3, <1>4, <1>5, <1>6 DEF Next

(* settings.cpp:83-114: as long as the power stays on, what load()         *)
(* returned or the last successful save() wrote is in the active page.     *)
THEOREM StoreCorrect == Spec => []StoreInv
BY StoreInit, StoreNext, PTL DEF Spec

(* Type correctness of the store's variables.                              *)
THEOREM TypeCorrect == Spec => []TypeOK
<1>1. StoreInv => TypeOK
  BY DEF StoreInv
<1> QED
  BY <1>1, StoreCorrect, PTL

LEMMA UntouchedStep ==
    ASSUME StoreInv, [Next]_vars, active_addr # NoPage
    PROVE  flash'[active_addr] = flash[active_addr]
<1>0. /\ TypeOK /\ flash \in [Pages -> [Cells -> HalfWord]]
      /\ active_addr \in Pages /\ Target # active_addr
  BY TargetPage DEF StoreInv, TypeOK
<1>1. \A pg : [flash EXCEPT ![Target] = pg][active_addr] = flash[active_addr]
  BY <1>0
<1>2. flash' = flash \/ \E pg : flash' = [flash EXCEPT ![Target] = pg]
  <2>1. CASE ProgramCell
    BY <2>1 DEF ProgramCell
  <2>2. CASE PowerLoss
    BY <2>2, PowerLossCases
  <2> QED
    BY <2>1, <2>2 DEF Next, vars, Load, Modify, BeginSave, erase_page, SaveOk
<1> QED
  BY <1>1, <1>2

(* settings.hpp:83-84: a save that fails, or that the power cuts short,    *)
(* leaves the previously active page untouched.                            *)
THEOREM ActiveUntouched == Spec => ActivePageUntouched
<1>1. StoreInv /\ [Next]_vars =>
         [active_addr # NoPage => flash'[active_addr] = flash[active_addr]]_vars
  BY UntouchedStep
<1> QED
  BY <1>1, StoreCorrect, PTL DEF Spec, ActivePageUntouched

(* Of a save() that succeeds, the next load() finds the page if and only   *)
(* if its checksum is zero; the wrap of the sequence number does not       *)
(* matter.                                                                 *)
THEOREM FoundOnlyByChance == Spec => []FoundIffZeroCrc
<1>1. ASSUME StoreInv, pc = "program", written = NCells
      PROVE  Winner(flash) = Target <=> Blob[CrcC] = 0
  <2>0. TypeOK /\ active_seq \in HalfWord
    BY <1>1 DEF StoreInv, TypeOK
  <2>1. /\ header_valid(flash[Target]) <=> Blob[CrcC] = 0
        /\ flash[Target][SeqC] = NextSeq(active_seq)
    BY <1>1, Complete
  <2>2. CASE ~header_valid(flash[Target])
    BY <2>0, <2>1, <2>2, WinnerValid, TargetPage
  <2>3. CASE header_valid(flash[Target]) /\ active_addr = NoPage
    <3>1. Target = "A" /\ ~header_valid(flash["B"])
      BY <1>1, <2>0, <2>3, TargetPage DEF StoreInv, NoForgottenPage, Pages
    <3> QED
      BY <2>1, <2>3, <3>1 DEF Winner
  <2>4. CASE header_valid(flash[Target]) /\ active_addr # NoPage
    <3>1. flash[active_addr][SeqC] = active_seq
      BY <1>1, <2>4 DEF StoreInv, ActiveHolds
    <3>2. Winner(flash) = Target
      BY <2>0, <2>1, <2>4, <3>1, TargetPage, NextIsNewer DEF Winner
    <3> QED
      BY <2>1, <2>4, <3>2
  <2> QED
    BY <2>2, <2>3, <2>4
<1>2. StoreInv => FoundIffZeroCrc
  BY <1>1 DEF FoundIffZeroCrc
<1> QED
  BY <1>2, StoreCorrect, PTL
=============================================================================
