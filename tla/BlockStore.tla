----------------------------- MODULE BlockStore -----------------------------
(***************************************************************************)
(* What the bootloader promises a DFU host, without cells, error flags,    *)
(* requests or buttons: one block at a time is taken in, written and       *)
(* judged.  A block that is judged "stored" is in its page as it was sent; *)
(* a write that fails, or that a reset or the power cuts short, leaves     *)
(* anything in that page; and no other page ever changes.                  *)
(***************************************************************************)
EXTENDS Naturals

CONSTANTS Pages, Writable,   \* the pages of the flash, those of the firmware
          Contents,          \* what a page can hold
          Unknown            \* a page that is being written

VARIABLES pages,
          block,             \* the last block: its page and what it is to hold
          verdict,           \* "none", "pending", "writing", "stored" or "failed"
          faulty             \* the flash controller has reported an error

vars == <<pages, block, verdict, faulty>>

Block == [page : Nat, holds : Contents]

Init == /\ pages \in [Pages -> Contents] /\ block \in Block
        /\ verdict = "none" /\ faulty = FALSE

Accept == /\ verdict # "writing"
          /\ verdict' = "pending" /\ block' \in Block
          /\ UNCHANGED <<pages, faulty>>

\* The host aborts, clears an error or ends the download.
Forget == /\ verdict # "writing"
          /\ verdict' = "none"
          /\ UNCHANGED <<pages, block, faulty>>

\* The block is for no page of the firmware, or the host sends a request that
\* the device cannot serve.
Refuse == /\ verdict # "writing"
          /\ verdict' = "failed"
          /\ UNCHANGED <<pages, block, faulty>>

Begin == /\ verdict = "pending" /\ block.page \in Writable
         /\ verdict' = "writing"
         /\ pages' = [pages EXCEPT ![block.page] = Unknown]
         /\ UNCHANGED <<block, faulty>>

FlashError == /\ verdict = "writing"
              /\ faulty' = TRUE
              /\ UNCHANGED <<pages, block, verdict>>

Store == /\ verdict = "writing" /\ ~faulty
         /\ verdict' = "stored"
         /\ pages' = [pages EXCEPT ![block.page] = block.holds]
         /\ UNCHANGED <<block, faulty>>

\* The page of a write that did not end well.
Spoilt == \E pg \in Contents : pages' = [pages EXCEPT ![block.page] = pg]

\* The controller is broken until the next reset.
Fail == /\ verdict = "writing"
        /\ verdict' = "failed" /\ faulty' = TRUE
        /\ Spoilt
        /\ UNCHANGED block

Reset == /\ verdict' = "none" /\ faulty' = FALSE /\ block' \in Block
         /\ IF verdict = "writing" THEN Spoilt ELSE pages' = pages

Next == \/ Accept \/ Forget \/ Refuse \/ Begin
        \/ FlashError \/ Store \/ Fail \/ Reset

Spec == Init /\ [][Next]_vars
=============================================================================
