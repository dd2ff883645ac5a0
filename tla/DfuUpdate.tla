------------------------------ MODULE DfuUpdate ------------------------------
(***************************************************************************)
(* A firmware update: the bootloader of module Bootloader, the host tool   *)
(* that scripts/flash_firmware.sh runs (dfu-util -a 0 -D, external), and   *)
(* the user who unplugs the mouse, presses its buttons and tries again.    *)
(*                                                                         *)
(* The tool sends GETSTATUS until the device is idle, then every block     *)
(* followed by GETSTATUS, then an empty DNLOAD, then GETSTATUS until the   *)
(* device is idle again.  It gives up on any error; the user reruns it, on *)
(* the same or another image.                                              *)
(***************************************************************************)
EXTENDS Bootloader

CONSTANTS Images,          \* each a function from block numbers to block contents
          MaxFaults        \* bound on the faults of a behaviour

ImageBlocks(img) == DOMAIN img
Len(data) == IF data = [c \in 1 .. 0 |-> Erased] THEN 0
             ELSE CHOOSE n \in CellIx : DOMAIN data = 1 .. n

\* firmware/link.ld: the last two pages are the settings', and rom ends before.
SettingsPages == {End - 2, End - 1}

ASSUME UpdateAssumption ==
    /\ MaxFaults \in Nat
    /\ End - 2 > Base
    /\ \A img \in Images :
          /\ \E n \in 1 .. End - 2 - Base : ImageBlocks(img) = 0 .. n - 1
          /\ \A k \in ImageBlocks(img) : \E n \in CellIx : img[k] \in [1 .. n -> Data]

VARIABLES hpc,             \* what the tool is doing
          himg, hblk,      \* the image it sends and the next block of it
          waiting,         \* a GETSTATUS is on its way
          faults

host == <<hpc, himg, hblk, waiting>>
allvars == <<vars, host, faults>>

UInit == Init /\ hpc = "idle" /\ himg \in Images /\ hblk = 0 /\ waiting = FALSE /\ faults = 0

-----------------------------------------------------------------------------
(* The tool.                                                               *)
Running == hpc \in {"query", "clear", "abort", "send", "poll", "manifest"}

Start ==
    /\ ~Running /\ mode = "dfu"
    /\ hpc' = "query" /\ himg' \in Images /\ hblk' = 0 /\ waiting' = FALSE
    /\ UNCHANGED <<vars, faults>>

SendGetStatus ==
    /\ hpc \in {"query", "poll", "manifest"} /\ ~waiting
    /\ GetStatusProgram \/ GetStatus
    /\ waiting' = TRUE
    /\ UNCHANGED <<hpc, himg, hblk, faults>>

\* What the tool does with the answer.
AfterQuery(r) == IF r.state = "ERROR" THEN "clear"
                 ELSE IF r.state = "DNLOAD_IDLE" THEN "abort"
                 ELSE IF r.status # "OK" THEN "clear" ELSE "send"
AfterPoll(r) == IF r.state \notin {"DNLOAD_IDLE", "ERROR"} THEN "poll"
                ELSE IF r.status # "OK" THEN "failed" ELSE "send"
AfterManifest(r) == IF r.state \in {"MANIFEST_SYNC", "MANIFEST"} THEN "manifest" ELSE "done"

ReadAnswer ==
    /\ waiting /\ reply # NoReply
    /\ hpc' = CASE hpc = "query"    -> AfterQuery(reply)
                [] hpc = "poll"     -> AfterPoll(reply)
                [] hpc = "manifest" -> AfterManifest(reply)
    /\ hblk' = IF hpc = "poll" /\ hpc' = "send" THEN hblk + 1 ELSE hblk
    /\ waiting' = FALSE
    /\ UNCHANGED <<vars, himg, faults>>

SendBlock ==
    /\ hpc = "send" /\ hblk \in ImageBlocks(himg)
    /\ Dnload(hblk, Len(himg[hblk]), himg[hblk])
    /\ hpc' = "poll"
    /\ UNCHANGED <<himg, hblk, waiting, faults>>

SendEnd ==
    /\ hpc = "send" /\ hblk \notin ImageBlocks(himg)
    /\ DnloadEnd
    /\ hpc' = "manifest"
    /\ UNCHANGED <<himg, hblk, waiting, faults>>

SendClear == hpc = "clear" /\ ClrStatus /\ hpc' = "query" /\ UNCHANGED <<himg, hblk, waiting, faults>>
SendAbort == hpc = "abort" /\ Abort /\ hpc' = "query" /\ UNCHANGED <<himg, hblk, waiting, faults>>

\* The device left the bus: the tool's handle to it is dead, also when the
\* bootloader enumerates again.
LoseDevice ==
    /\ Running /\ mode # "dfu"
    /\ hpc' = "failed" /\ waiting' = FALSE
    /\ UNCHANGED <<vars, himg, hblk, faults>>

Tool == \/ SendGetStatus \/ ReadAnswer \/ SendBlock \/ SendEnd
        \/ SendClear \/ SendAbort \/ LoseDevice

-----------------------------------------------------------------------------
(* The device.  The spin before the reset outlasts the transfer of the     *)
(* answer that announced it.                                               *)
DeviceStep == /\ Device
              /\ reset_pending => ~waiting
              /\ sr' = sr
              /\ UNCHANGED <<host, faults>>
BootStep(dpi) == ~Running /\ Boot(dpi) /\ UNCHANGED <<host, faults>>
Plug == PowerUp /\ UNCHANGED <<host, faults>>
Handoff == FirmwareReboot /\ UNCHANGED <<host, faults>>
Release == PollFwd(FALSE) /\ fwd_was_pressed /\ UNCHANGED <<host, faults>>

(* Faults: an error of the flash controller, a power loss at any point, a  *)
(* press of the FWD button, the tool being killed.                         *)
Fault ==
    /\ faults < MaxFaults
    /\ faults' = faults + 1
    /\ \/ Device /\ sr' # sr /\ UNCHANGED host
       \/ PowerLoss /\ UNCHANGED host
       \/ PollFwd(TRUE) /\ ~fwd_was_pressed /\ UNCHANGED host
       \/ Running /\ hpc' = "failed" /\ waiting' = FALSE /\ UNCHANGED <<vars, himg, hblk>>

(* The user unplugs the mouse after a failure, or while its firmware runs. *)
Unplug ==
    /\ hpc = "failed" \/ (~Running /\ mode = "firmware")
    /\ pc = "poll"
    /\ PowerLoss
    /\ hpc' = "idle"
    /\ UNCHANGED <<himg, hblk, waiting, faults>>

UNext == \/ Start \/ Tool \/ DeviceStep \/ (\E dpi \in BOOLEAN : BootStep(dpi))
         \/ Plug \/ Handoff \/ Release \/ Fault \/ Unplug

(* The processor runs; the tool runs; the user releases buttons, reruns    *)
(* the tool, and after repeated failures replugs the mouse with DPI held.  *)
UFairness == /\ WF_allvars(DeviceStep) /\ WF_allvars(Tool) /\ WF_allvars(Release)
             /\ WF_allvars(Start) /\ WF_allvars(Plug)
             /\ SF_allvars(Unplug) /\ SF_allvars(BootStep(TRUE))

USpec == UInit /\ [][UNext]_allvars /\ UFairness

-----------------------------------------------------------------------------
PendingIs(img, k) == dnload_block = k /\ dnload_len = Len(img[k]) /\ dnload_buf = img[k]

(* The tool and the device, two machines without a common clock, agree on  *)
(* where the download stands, whatever earlier runs left behind.  The tool *)
(* waits only where it has asked, and as long as the device stays on the   *)
(* bus, the answer is there or flash_program, which will give it, runs; an *)
(* answer that lies there tells the device's state.  While the tool asks   *)
(* for its block, that very block is the one in the device's buffer, and   *)
(* the device is nowhere but before, after or failed with it.  When the    *)
(* tool goes on to the next block or ends, nothing is being programmed,    *)
(* and no block is pending behind the end of the download.                 *)
ToolInStep ==
    /\ waiting => /\ hpc \in {"query", "poll", "manifest"}
                  /\ mode = "dfu" => reply # NoReply \/ pc # "poll"
    /\ reply # NoReply => /\ reply = [status |-> dfu_status, state |-> dfu_state]
                          /\ mode = "dfu" /\ pc = "poll"
    /\ hpc = "poll" /\ mode = "dfu" => /\ dfu_state \in {"DNLOAD_SYNC", "DNLOAD_IDLE", "ERROR"}
                                       /\ PendingIs(himg, hblk)
    /\ hpc \in {"send", "manifest", "done"} => pc = "poll"
    /\ hpc = "manifest" => dfu_state # "DNLOAD_SYNC"

PageHolds(p, data) ==
    \A c \in CellIx : flash[p][c] = IF c \in DOMAIN data THEN data[c] ELSE Erased
Installed(img, n) == \A k \in ImageBlocks(img) : k < n => PageHolds(Page(k), img[k])

(* When the tool reports success the whole image is in flash; and before,  *)
(* all the blocks that were acknowledged, whatever an earlier, interrupted *)
(* run on another image left in the device.                                *)
AcknowledgedBlocks == hpc \in {"send", "poll", "manifest"} => Installed(himg, hblk)
DoneIsInstalled == hpc = "done" => Installed(himg, End)

(* A firmware update leaves the two settings pages alone.                  *)
SettingsUntouched == [][\A p \in SettingsPages : flash'[p] = flash[p]]_allvars

(* An update interrupted a bounded number of times completes in the end:   *)
(* no interruption leaves a mouse that cannot be updated any more.         *)
UpdateCompletes == <>(hpc = "done")
=============================================================================
