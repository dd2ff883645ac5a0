# A TLA+ development for the G102 custom firmware

This directory specifies, model-checks and proves properties of the firmware
and bootloader for the Logitech G102 mouse (STM32F0, libopencm3). Paths such as
`firmware/src/app/main.cpp` are relative to the root of the repository.

Contents:

1. The system: components, state, interactions, what is hard
2. The modules and how they correspond to the code
3. The runs: what each one checks and shows, bounds, fairness
4. The proofs
5. Where the code and its documentation disagree
6. What is not modelled
7. Plan

## 1. The system

Two programs share one flash of 128 KiB. The **bootloader** (C, first pages of
flash) decides at every reset whether to run the firmware or to offer a USB DFU
interface. The **firmware** (C++) is one endless loop, `main()`, that polls
wheel, buttons and sensor and sends HID reports. Apart from two interrupt
handlers (SysTick, TIM6) nothing is preemptive: both programs poll USB from
their loop, so most of the concurrency is between the chip and its environment:
the host, the user's hands, the supply voltage.

The settings store is a finished library without a caller: `main()` does not
load or save settings yet. It is modelled as its interface offers it, `load()`
once after a reset and `save()` and `get<Slot>()` in any order after it.

### Inventory

| Component | Source | State it keeps | Operations | What makes it correct |
|---|---|---|---|---|
| Persistent settings | `firmware/src/services/settings.{hpp,cpp}` | two flash pages; `store_`, `active_addr_`, `active_seq_` | `load`, `save`, `get<Slot>` | a save leaves the active page alone whatever fails and whenever; a saved page is found by the next `load()`, also across the wrap of the sequence number (it is not: section 5) |
| Firmware flash driver | `firmware/src/platform/flash.{hpp,cpp}` | the controller's sticky error flags | `erase_page`, `program` | the caller learns of every error; nothing outside the settings pages is written |
| Boot decision | `bootloader/src/main.c` | magic word in reserved SRAM | `main`, `should_stay_in_bootloader`, `jump_to_firmware` | there is always a way into DFU |
| DFU class | `bootloader/src/usb_dfu.c` | `dfu_state`, `dfu_status`, one pending block, `reset_pending` | DNLOAD, GETSTATUS, CLRSTATUS, ABORT, DETACH, GETSTATE, the FWD button, the delayed reset | an acknowledged block is in flash; errors are reported; a download ends in a reset |
| Bootloader flash helpers | `bootloader/src/flash.c` | error flags | `flash_is_writable`, `flash_program` | the bootloader's own pages are never written, and only the pages of the block are |
| Update procedure | `scripts/flash_firmware.sh`, `firmware/link.ld` | the host tool | `dfu-util -D` | reported success means the image is in flash; an interrupted update can be repeated |
| Scroll-wheel decoder | `firmware/src/drivers/encoder_quad.hpp` | `last_`, `accum_`, `ticks_` | `init`, `poll`, `consume_ticks` | no tick is invented, doubled or swallowed under bounce, reversal, missed edges, saturation |
| Main loop | `firmware/src/app/main.cpp` | `last_buttons`, `dpi_was_pressed`, `dpi_pressed_since` | one iteration; `reboot_to_bootloader` | what the user does reaches the host once; the long press of DPI is neither early nor missed |
| USB HID service | `firmware/src/services/usb_hid.{hpp,cpp}` | `configured_`, the endpoint | `init`, `set_config_thunk`, `send_report` | a report is delivered once or known to be lost, also over a bus reset |
| Buttons | `firmware/src/drivers/buttons.hpp` | none | `hid_bitmap`, `dpi_pressed` | - |
| 1855 sensor driver | `firmware/src/drivers/sensor_1855.{hpp,cpp}` | `state_`, `state_started_ms_`; in the chip, the motion latch | `init_start`, `init_tick`, `read_motion` | the delays of the bring-up are kept; motion is read once, with its sign and in the right axis |
| Millisecond clock | `firmware/src/platform/systick.{hpp,cpp}` | `tick_ms` (32 bits) | `sys_tick_handler` | differences survive the wrap |
| SPI bus, GPIO | `firmware/src/platform/{spi,gpio}.hpp` | registers only | `frame`, pin helpers | - |
| RGB lighting | `firmware/src/drivers/lighting.{hpp,cpp}` | `duty_`, `base_`, `phase_`, TIM6 | `init`, `set`, `set_base`, `tick`, TIM6 handler | each bit of a duty is shown for its weight; the modulation never stalls; brightness does not jump |
| Bootloader LED | `bootloader/src/led_indicator.c` | `tick_ms`, SysTick | `led_indicator_tick`, `sys_tick_handler` | on-time equals duty; the crossfade does not jump |

### Interactions

- **Flash.** The bootloader writes the firmware region through DFU; the
  firmware writes the last two pages, the settings. `firmware/link.ld` keeps
  the image off those pages, but the bootloader accepts blocks for them.
- **Magic word.** `reboot_to_bootloader()` leaves `BOOT_MAGIC` in reserved
  SRAM, resets, and the bootloader consumes it. After power-up the word is
  arbitrary.
- **USB.** In DFU mode the host's control transfers call
  `dfu_control_request()`; flash is programmed inside GETSTATUS, while the host
  waits for the data stage. In HID mode one interrupt endpoint holds one packet
  until the host polls it.
- **Clock.** SysTick increments `tick_ms` under the main loop, which reads it
  once per iteration and passes that `now` to the sensor and to the DPI timer.
- **Sensor latch.** Reading the motion registers clears them.
- **Interrupts.** The TIM6 handler reads `duty_` while the loop rewrites it,
  the only data shared with an interrupt besides the millisecond counters.

### What is hard

Power loss in the middle of an erase or a half-word; error flags nobody
clears; a sequence number and a clock that wrap; a DFU host that is killed,
restarted on another image or sends requests out of order; a block left pending
by an earlier session; the reset that ends a download racing the last answer; a
loop that blocks for tens of milliseconds while wheel and buttons move; a
report refused by a busy endpoint after the loop has recorded it as sent; a
`now` that is old by the time it is stored; an interrupt that samples its data
bit by bit and a timer that overtakes its own handler. `PROJECT.json` lists each hazard at
its line with the properties that watch it.

## 2. The modules

| Module | Models | Composes |
|---|---|---|
| `SettingsStore` | `settings.cpp` over `flash.cpp` over the flash controller | - |
| `BlockStore` | what the bootloader promises a DFU host: a block is stored as a whole or judged a failure | - |
| `Bootloader` | `main.c`, `usb_dfu.c`, `flash.c` of the bootloader, under any host | implements `BlockStore` |
| `DfuUpdate` | the update procedure: dfu-util, user, faults | extends `Bootloader` |
| `QuadEncoder` | `encoder_quad.hpp` | - |
| `MotionBytes` | motion as bytes: `read_motion`, the byte order of a report | - |
| `MouseReports` | the report path of `main.cpp`, `usb_hid.cpp`, the host | extends `MotionBytes` |
| `FirmwareTimers` | `systick`, `init_tick`, the DPI long press | - |
| `Lighting` | `lighting.cpp`, TIM6 and the loop that calls it | - |
| `LedIndicator` | `led_indicator.c`, SysTick and the DFU loop | - |
| `IntegerLemmas` | facts on division and two's complement, for the proofs | - |

`MCx` instantiates `x` for TLC, `x.cfg` gives the constants, `xProofs` holds
the theorems; those about `Bootloader` stand in the first part of
`DfuUpdateProofs`. `PROJECT.json` maps each definition to its lines.

**SettingsStore.** A page is a row of cells: the fields of `struct Header` in
address order, then the payload, its last four bytes as a cell of their own. A
field of several half-words (magic, CRC, a slot) is one cell; while half
written it reads as anything. `Crc` is a constant, a function of the cells that
the code sums over (`Covered`), and all that is assumed of it is `CrcAssumption`:
like any CRC it tells two values of a field of its own width apart. What it
covers is translated from `settings.cpp:46-48` and `103-105`: one contiguous
range from `version` on, as long as the rest of the header without the CRC plus
the payload. The range therefore includes the CRC field, and the last four bytes
of the payload (`count`, `active` and `_pad` of `DpiSlot`) are outside it.
`save()` computes the sum while the field is zero (`Staged`) and then puts it
there (`BlobOf`); `header_valid()` computes it over the stored value. What
follows from that is `FoundIffZeroCrc` and section 5.

`erase_page` and `ProgramCell` keep the driver's error handling, including its
omission: only PGERR is tested after an erase, and no flag is ever cleared. The
option bytes may write-protect either page (`wrp`), and a worn cell may fail to
program at any time, half written or not at all. `PowerLoss` may strike inside
an erase, which clears some of the cells (`CutErase`), and inside a cell, which
leaves any value. `Init` allows any pages of a given set (`Shipped`), among
them erased ones and blobs of an older `kVersion`, since nothing but `save()`
erases these pages. The slots of the arena are cells of the payload; their byte
offsets are computed at compile time and not modelled. `program()`'s range check
and `erase_page()`'s cannot fail for the two callers.

**Bootloader.** Flash is counted in pages of 2 KiB, which is also DFU's
transfer size: block `b` is page `Base + b` and never spans two pages. Every
class request that changes state is an action, enabled in every state, because
the handler has no guard on the state; GETSTATE changes nothing. The handler
ignores the direction bit of a request (`usb_dfu.c:122`). libopencm3 stalls an
OUT stage longer than the control buffer, which has the size of `dnload_buf`, but
an IN request may announce any length: `DnloadTooLong` is the error branch of
`usb_dfu.c:131`, which only such a request takes; a shorter one is a `Dnload` of
whatever the control buffer holds, that is, of any data. `flash_program()` is
`ErasePage`, `ProgramCell` per cell and `ProgramDone` under a program counter:
it runs inside GETSTATUS, so nothing but a power loss comes between. All
variables but flash and the magic word are initialised by `RamReset` at each
reset. `PollFwd` is the FWD button's edge detector, `DelayedReset` the spin
followed by the reset.

`BlockStore` is the same device without cells, flags, requests and buttons: it
takes a block in, writes it, judges it (a block may also be refused unwritten:
for its page, or because an impossible request replaced it). `Bootloader`
implements it
(`ImplementsBlocks`) with the DFU state as the verdict, the block in
`dnload_buf`, padded with erased cells to a page, as the block, and the flash
as the pages, except that the page being written shows nothing
(`NotWritten`) until it is judged. The steps inside `flash_program()` are thus
invisible, and a write that ends well, ends badly or is cut short appears as one
step of the abstract device. Running the firmware is no verdict: the promise
says what the pages hold then.

**DfuUpdate** adds dfu-util as an external process: it queries the state,
clears or aborts what it finds, sends each block followed by GETSTATUS, then an
empty DNLOAD, then GETSTATUS until the device leaves the manifest states, and
gives up on any error. `Fault` is a flash error, a power loss anywhere, a press
of FWD, or the tool being killed. One assumption on timing is made: the spin
before the final reset (`usb_dfu.c`, `reset_pending`) outlasts the transfer of
the answer that announced it (`DeviceStep`); that is what the spin is for, and
its length in cycles is below this model.

**QuadEncoder.** The shaft is a position in edges of the Gray code, turning
freely between polls; `Turn` bounds how far it gets before the next `poll`.
`kStep` is the table as a pair of transition sets. `seen`, `sent`, `lost`,
`misses` are history variables. Observed while translating: a tick leaves a
remainder of exactly zero, since a poll adds at most one count, so the
subtracting loops of `poll()` run at most once.

**MotionBytes.** The burst packs two 12-bit counts into three bytes with a
shared nibble byte; `read_motion` takes them apart and extends the signs;
`Bytes` is what `send_report()` puts on the wire, `Word` how the host reads it.
`Byte` and `Nibble` are the moduli 2^8 and 2^4, any even numbers here. The chip
(`Burst`) and the host (`Word`) are external, so that encoding and decoding
come from different sides of the interface.

**MouseReports.** One iteration is `Sample` (wheel and buttons), `Motion` (the
burst, its decoding, the axis remap), `Send` (change detection, `send_report`,
`last_buttons`); user and host interleave between. USB events are handled in
`usb.poll()`: `set_config_thunk` and `BusReset` happen while the loop waits for
its configuration or at the top of an iteration. A bus reset disables the
endpoint and loses its packet; `configured_` stays set, and reports written
until the next SET_CONFIGURATION are lost when the endpoint is set up again.
`owedX`, `owedY` and `owedWheel` record what the user did and no report has
delivered or dropped yet; `stale` that the last report did not reach the host.
`Reconfigure` is a second SET_CONFIGURATION without a bus reset: the thunk sets
the endpoint up again under a packet in it, and the host, whose drivers bind
anew, knows nothing of the buttons. SET_CONFIGURATION 0 has the effect of
`BusReset`: the endpoint is disabled and no callback runs.

**FirmwareTimers.** `tick_ms` wraps at `Wrap`. `now` is read at the top of the
iteration; SysTick may fire between any two steps, at most `LoopMs` times per
iteration, `PassMs` with a pass of the sensor's frames. The ages (`settled`,
`rested`, `held`, `upAge`) measure true elapsed time for the properties and are
read by no action; each is counted as far as a property looks. `Latest` and
`BringupMs` add up the longest press that is not noticed and the longest
bring-up; TLC reaches both, so neither can be made smaller.

**Lighting.** One LED of `N` channels stands for the three. The loop computes
the duties in `tick` and writes them one by one (`WriteDuty`); the interrupt
may come between any two of these, in two steps: `IsrEnter` clears UIF,
advances the phase and writes the pins, `IsrExit` reprograms ARR and CNT. The
timer counts through both, so that it can run full again under its handler.
`shown`, `before` and `writes` describe the current cycle, `held` and `period`
the current phase; no action of the code reads them. The length of the first
period is open, because the prescaler is loaded by an update event only.

**LedIndicator.** A pass of the DFU loop is `usbd_poll`, `ReadTick`,
`ReadPhase`, `WritePins`; SysTick counts between any two, and `usbd_poll` may
enter a flash operation, in which the CPU stalls for any time and at most one
tick stays pending. `on` counts how long each LED was on in the current
millisecond.

## 3. The runs

| Run | Expect | States | Shows |
|---|---|---|---|
| `settings_store` | pass | 1 231 k | while the power stays on the active page holds the last settings; no step changes it; a saved page is found by `load()` iff its checksum is zero |
| `settings_found` | violation | | a completed save is not found by the next `load()` |
| `bootloader` | pass | 57 k | acknowledged blocks are in flash, no error is hidden, only the target page is written, programming answers, a finished download resets; implements `BlockStore` |
| `bootloader_result` | violation | | a stale error status accompanies a block that was programmed correctly |
| `bootloader_applied` | violation | | an empty DNLOAD drops a pending block and manifests |
| `dfu_update` | pass | 56 k | tool and device agree on the block and the answer, success means installed, acknowledged blocks stay, settings untouched, and the update completes in the end |
| `quad_encoder` | pass | 105 k | exact decoding, resynchronisation, saturation |
| `mouse_reports` | pass | 538 k | nothing is lost, doubled or turned the wrong way unless its report is dropped; buttons arrive |
| `mouse_reports_buttons` | violation | | a refused report can leave a button wrong at the host |
| `firmware_timers` | pass | 479 k | delays of the bring-up, long press neither early nor late, bring-up completes, and in time |
| `lighting` | pass | 886 k | a cycle shows a splice of two duties at worst, phases last their weight, brightness does not jump, the modulation goes on |
| `led_indicator` | pass | 414 k | an LED is on for its duty up to two passes, the crossfade is smooth, every LED gets its turn |

### Bounds

- *SettingsStore*: half-words of 2 bits, so that the sequence number wraps
  after four saves and every pair of distances occurs; two payload cells, the
  second of them the part that the checksum misses; two payloads to store. The
  checksum is the loop of `Settings::crc32` on a register of 2 bits: it is zero
  for one blob in four, so that both sides of `FoundIffZeroCrc` occur, torn pages
  that match by chance as well. An interrupted erase clears a prefix or a suffix
  of the page (any subset in the proof). Both pages, all error flags, both
  protections; no bound on the length of a behaviour.
- *Bootloader*: one page of bootloader, three of firmware, the last one
  protected, two cells a page (so a block may be shorter than its page), a
  vector-table word and another; blocks for the first page, the protected page
  and the page after the end. The middle page is there to be left alone. No
  bound on the length of a behaviour.
- *DfuUpdate*: a two-block image with a short second block and a one-block
  image, four faults. Two faults suffice to interrupt a download and then its
  repetition; four let each kind follow each other twice.
- *QuadEncoder*: the shaft within nine edges of its origin (four and a half
  ticks), saturation at two ticks, windows of up to four edges (a full period
  of the code: beyond it windows repeat), two missed windows, two lost ticks.
- *MouseReports*: two buttons, three inputs, one bus reset or new configuration: enough to fill the
  endpoint, have a report refused, undo what it said, and lose one to the
  reset. A byte of two bits and a nibble of one make 3-bit counts in 4-bit
  words; moves are by one and to both ends of the range. The proof holds for
  any width.
- *FirmwareTimers*: a 12 ms counter starting anywhere, so that every wait is
  cut by the wrap; settling 2, gap 3, hold 6, iterations of 1 ms and 2 ms with
  a pass. The constants keep the order of the real ones (100, 166, 3000 ms
  against a pass of some 20 ms); the assumption is that a wait plus an
  iteration is shorter than the counter's range.

- *Lighting*: two channels of 3 bits, so that a cycle has a first, a middle and
  a last phase; brightness up to 2; a clock that wraps after each breath,
  starting anywhere; a handler that ends up to two base ticks late, the length
  of phase 0, so that it can be overtaken; one colour besides black. The
  assumption on the clock, that a breath divides its range, holds for 2^32 and
  4096 ms.
- *LedIndicator*: a millisecond of 32 counts, passes of at most 2 of them, so
  that a pass may span two milliseconds and the duty goes up to 8; fades of
  4 ms; a clock of 20 ms, which wraps two thirds through the cycle of 12 ms as
  2^32 does. `DutyKept` assumes that a pass without flash operations is short
  against a millisecond; nothing in the code enforces that, it is what the
  comment at the top of `led_indicator.c` asks for.

### Fairness

- *Bootloader*: weak fairness of `Device` and `Boot`: a powered processor
  executes. No request and no button is fair.
- *DfuUpdate*: weak fairness of the processor, of the tool while it runs, of
  the user releasing FWD, rerunning the tool and plugging the mouse in; strong
  fairness of unplugging and of booting with DPI held. The last two say that a
  user who sees the update fail over and over will at some time follow the
  documented recovery (plug in with DPI pressed): without it a torn image whose
  vector table looks valid may be started for ever, and the claim would be
  false. Faults are bounded, not fair.
- *MouseReports*: weak fairness of the loop (`main()` never blocks once
  configured) and of the host's polling (an interrupt endpoint is polled at its
  interval); strong fairness of `set_config_thunk`: the host configures the
  mouse after each reset, and its request waits in the peripheral for the next
  `usb.poll()`, while the action is enabled only at these polls. The user is
  not fair; the sensor need not come up.
- *Lighting*: weak fairness of the timer and of its handler, which nothing
  masks. The loop is not fair: the modulation must go on without it.
- *LedIndicator*: weak fairness of SysTick, of its handler, and of the loop
  with the end of a flash operation. `EachLights` leaves out a device that
  starts flash operations for ever.
- *FirmwareTimers*: weak fairness of the clock and of the loop. The release of
  DPI is not fair: `reboot_to_bootloader()` may wait for ever.
- *SettingsStore*, *QuadEncoder* state no liveness: their operations run when
  called and terminate by the bounds of their loops.

Deadlock is checked in every run: some action is always enabled.

## 4. The proofs

All hold for every value of the constants that satisfies the module's
assumption (`StoreAssumption` and `CrcAssumption`, `BootAssumption`, `UpdateAssumption`,
`EncoderAssumption`, `ByteAssumption`, `ReportAssumption`, `TimerAssumption`,
`LightingAssumption`, `PowerAssumption`, `LedAssumption`): any page size, any number of pages,
any checksum, any image data and set of images, any protection, any number of faults, any
sequence-number width, any number of buttons, any width of a byte, any number of
phases and colours, any delays shorter than a turn of the counter.

| Module | Theorem | States |
|---|---|---|
| `SettingsStoreProofs` | `StoreCorrect` | `Spec => []StoreInv` |
| | `ActiveUntouched` | no step changes the page that was active before it |
| | `SavedPageValid` | a blob as `save()` writes it is valid iff its checksum is zero |
| | `FoundOnlyByChance` | `Spec => []FoundIffZeroCrc` |
| | `TypeCorrect` | types |
| `DfuUpdateProofs` | `BootCorrect` | `Spec => []BootInv` |
| | `IdleIsWritten` | dfuDNLOAD-IDLE means that the block is in flash |
| | `ErrorsReported` | no block is accepted after a controller error |
| | `OnlyTargetPage` | only the page of the block is written |
| | `BlocksAreAtomic` | `Spec => Promise!Spec`: the bootloader implements `BlockStore` under any host |
| | `UpdateIsAtomic` | ... and under the update tool, with faults |
| | `ToolAndDeviceAgree` | `USpec => []ToolInStep` |
| | `ManifestsApplied` | `AllBlocksApplied` under the update tool |
| | `BlocksStay`, `SuccessIsInstalled` | acknowledged blocks stay, success means installed |
| | `SettingsKept` | an update leaves the settings alone |
| `QuadEncoderProofs` | `TypeCorrect`, `DecodingExact`, `DecoderInStep`, `SaturationKeeps` | types and the decoder's three properties |
| `MouseReportsProofs` | `LoopCorrect` | `Spec => []LoopInv` |
| `LightingProofs` | `TypeCorrect` | types; every duty fits the phases |
| | `SplicedCorrect` | a cycle shows a splice of two duties at worst |
| | `PhaseLengthCorrect` | how long a phase lasts |
| | `NoJumpCorrect` | brightness moves with the clock |
| `FirmwareTimersProofs` | `TypeCorrect` | types |
| | `SupplySettles`, `GapBound` | the delays of the bring-up |
| | `ReadyInTime` | the sensor is ready within `BringupMs` |
| | `OnlyLongPresses`, `LongPressNoticed` | how long DPI is held when the mouse reboots |
| `LedIndicatorProofs` | `TypeCorrect` | types |
| | `SmoothFade` | from one millisecond to the next no duty jumps, unless the 32-bit count wraps |
| | `DutyBound` | an LED is on for its duty, up to two passes |

**Settings.** The heart is `SavedPageValid`. Both sums run over the same cells
and differ in one of them, the CRC cell: zero for `save()`, the stored sum for
`header_valid()`. By `CrcAssumption` they are equal only if that sum is zero.
The theorem asks nothing else of the checksum, so it holds for CRC-32 at its
real width.

`StoreInv` says what the store is good for none the less. `ActiveHolds`: the page
that `active_addr_` names carries the last settings that `load()` returned or
`save()` reported as written, under the number from which the next `save()` counts
on. It does not say that this page is valid, and it lasts until the power
goes. `ProgramExact` describes the target during `program()`: a prefix of the
blob, or protected with the flag that will refuse it still to be seen; with
`written = NCells` the target is the blob. `NoForgottenPage` is what
`FoundOnlyByChance` needs on top: `load()` also looks at the other page, and if
that one is valid it must be the active one, whose number is one less; then
`NotOlder` decides for the new page, also where the number wraps.

**Bootloader.** `IdleMeansWritten` needs `ProgramExact` (during programming the
page is a prefix of the block, or protected with the flag that will refuse it
still to be seen) and `Programming`/`SyncHasBlock` (programming only happens to
a writable page with a non-empty block pending). Its theorems use
`BootAssumption` only.

The refinement of `BlockStore` goes step by step (`RequestMapped`,
`WriteMapped`, `ResetMapped`): a request accepts, forgets or refuses a block, the
last step of `flash_program()` stores or fails, everything in between stutters or
raises the error. Where it could go wrong is `WriteEnds`: that the page shown
when the write is over is the block follows from `ProgramExact` and
`IdleMeansWritten`, and that no other page has changed meanwhile from
`WriteHidden`. A reset in the middle of a write leaves any content in its page
(`SpoiltMapped`). The update tool and the user change nothing that `BlockStore`
sees except through the device, so `UpdateIsAtomic` maps each of their steps to
a step of `Spec` or a stutter.

**Update.** `UInv` joins `BootInv` with what tool and device know of each other,
`ToolInStep`: while the tool waits for a block, `PendingIs` (the block in RAM is
the one it sent, until a reset), so that an answer dfuDNLOAD-IDLE, by
`IdleMeansWritten`, speaks of that block; that nothing is being programmed when
the tool is not waiting for it; that the last answer tells the device's state.
It adds that ERROR never comes with status OK, which is what keeps `AfterPoll`
from going on after an error, and that what was acknowledged is installed.
Everything the device does on its own is one of three things (`OwnEffect`): it
resets, goes on with the block, or changes nothing that the tool sees. The block
in RAM always comes from an image, so it lies before the settings.

**Encoder.** `EncoderInv` adds to the properties that `last_` is the phase of
the last poll; the step lemma splits the table by residues mod 4.

**Reports.** `LoopInv` is inductive: conservation of motion and wheel over all
places they can be in, `last_buttons` against endpoint and host.

It rests on three lemmas about the bytes: `BurstDecoded` (the counts come back
from the burst as the chip holds them), `MotionFits` (turning the frame does not
overflow) and `WordRead` (the host reads what was sent), which come from
`IntegerLemmas`: remainders are unique, and folding a remainder at half its
range gives the number back.

**Lighting.** `Spliced` needs `SpliceInv`: a channel not yet written in this
cycle still has its duty of the cycle's begin, and once written, the phases from
some point on show the new one. `PhaseLength` needs `PeriodInv`, which relates
the counter, ARR, the ticks since the phase began and the lateness of the
handler. `NoJump` needs `BrightInv` (`bright` is the wave at the last update)
and a lemma on the triangle: between two points of it brightness moves by at
most their distance, on the circle of the clock. `PowerAssumption` states what
is used of powers of two; TLC evaluates it.

**Timers.** The code compares time stamps of a counter that wraps; the
properties are about true elapsed times. `TimerInv` relates the two: the *age* of
a stamp is how far the counter has gone past it, `NowAge = lag` (`LagInv`), and as
long as a delay still matters, less than a turn of the counter has gone by, so
that a tick makes every age larger by one (`Ticking`) and the difference the code
computes is the difference of two ages (`Between`). `VccInv` and `GapInv` bound
the age of `state_started_ms` by the time since the event it stands for; `UpInv`
says that a press is not older than the last sample of a released pin, `HeldInv`
that it is noticed within an iteration. `Noticed` is the case that makes
`NoLateReboot` hard: the hold may end right after `now` was read, and one of the
two iterations that it then takes may replay a pass, but never both, since a
pass is followed by the gap or by `SetDpi`.

`BringInv` bounds the age of `init_start()` by the state of the driver, with one
conjunct for each (`WaitVccBy` to `SetDpiBy`). A bound holds for the begin of the
iteration, plus `lag`; when the next iteration reads the clock, the lag of the
last one becomes part of the bound (`BringRead`). A wait that goes on had not
lasted its delay at `now` (`BringWait`), so it is seen to be over an iteration
late at most; the gap begins with the `lag` of pass 1 already counted, hence the
two cases of `GapBy`.

**LED indicator.** `DutyBound` is about three clocks: the loop's passes, the
SysTick counter inside a millisecond and `tick_ms`. `LedInv` joins `PassInv`
(what the pass has read is what the counter showed at most a pass ago),
`TickInv` (when a tick is pending) and `OnInv`: the time an LED has been on in
this millisecond is its duty or all of the millisecond so far, up to two passes;
an LED that is still on, or still off, when it should not be was set by a pass
so old that the next one is due. A millisecond in which a flash operation stalled
the CPU (`disturbed`) is left out. `DutyStep` says that a millisecond moves a duty
by at most one step of the ramp, also at a hand-off, where outgoing and incoming
LED change roles; `SmoothFade` is that lemma along a behaviour. Where `tick_ms`
wraps in the middle of the cycle, the duties do jump, and `Smooth` says so.

**Only model-checked**: the liveness properties `ManifestResets`,
`ProgramAnswers`, `UpdateCompletes`, `ButtonsArrive`, `BringupCompletes`,
`Refreshes` and `EachLights`. Liveness under fairness, ENABLED and induction over
recursively defined data are outside what the prover handles; `ReadyInTime` is
the safety half of `BringupCompletes`. Every invariant and every action property
that a passing run checks is also proved, and so is the refinement. The
modules that are proved about use no RECURSIVE operator.

## 5. Where the code and its documentation disagree

Shown by a run, as a counterexample (`PROJECT.json`, findings):

- `settings_found`: `load()` rejects every page that `save()` completed, unless
  its checksum is zero, and takes the defaults: the range of the checksum
  (`settings.cpp:46-48`, `103-105`) includes the CRC field, which is zero when
  `save()` sums and the sum itself when `header_valid()` does.
  `settings.hpp:17-21` says that the new page becomes authoritative on the next
  boot and that a torn write is recovered from the previous page, `settings.cpp:97`
  that the sum is computed "over everything except the crc field itself",
  `settings.hpp:84` that it reaches to the end of the payload, whose last four
  bytes it misses. After such a boot no page is active, and the next `save()` erases
  page A even if it holds the last successful save; `ActivePageUntouched`
  therefore speaks of the time from one `load()` to the power loss. `main()`
  does not call `load()` or `save()` yet. Summing with the CRC field taken as
  zero, over four bytes more, on both sides would repair it.
- `bootloader_applied`: a zero-length DNLOAD is accepted in dfuDNLOAD-SYNC; the
  pending block is dropped, and the device manifests, although the comment at
  `usb_dfu.c:149` says that all blocks are applied. dfu-util never does this
  (`dfu_update` checks `AllBlocksApplied` too, and it holds).
- `bootloader_result`: only CLRSTATUS resets `dfu_status`; after ABORT or a new
  DNLOAD the old error is reported with a block that was programmed.
- `mouse_reports_buttons`: a refused report is not repeated, and
  `last_buttons` says it was sent; the host keeps the old state until the next
  change. `ButtonsArrive` and `HostInStep` say what does hold.

Read in the code while translating it, with no run of their own:

- `settings.hpp:22-24` says a firmware reflash erases the settings; the image
  ends before them (`link.ld:12`) and only the pages of its blocks are erased.
  `SettingsUntouched` is the statement of what the code does. The version check
  of `load()` is what tells an old schema from a new one.
- Motion. Reports have 6 bytes with dx and dy of 16 bits (`usb_hid.cpp:185-191`),
  and the counts of the sensor have 12 (`sensor_1855.cpp:120-123`); `LoopInv` is
  about these. `docs/G102_BOARD.md:254-261` describes a report of 4 bytes with
  dx and dy as int8; `docs/SENSOR_1855.md:175-177` says that the low byte alone
  is fine ("Clip, don't scale"), and `:290-299` shows the firmware reading only
  that byte; `README.md:27` lists 12-bit motion as not done. The comment at
  `sensor_1855.cpp:99-100` gives X the lower and Y the upper nibble of the
  shared byte; the code and the comment at lines 114-118 have it the other way
  round.
- `erase_page()` (`flash.cpp:28`) tests PGERR only: erasing a write-protected
  page raises WRPRTERR, the page stays as it was, and the function returns
  true, where `flash.hpp:18` says "false on any flash error". The model has it;
  the settings survive, since the first half-word fails then (`settings_store`).
- The gap of 166 ms between the sensor's passes is counted from the `now` read
  before pass 1 (`sensor_1855.cpp:73`); `GapAlmostKept` bounds the loss by the
  length of a pass.
- `lighting.cpp:15` says that the phases sum to 1023 base ticks. Phase 0 takes
  two ticks, since ARR may not be 0, and each phase also takes the time until
  its handler resets CNT: `PhaseLength` gives both bounds. Phase 0 is thus
  longer than its weight, so an odd duty is shown brighter than its number.
- `lighting.hpp:52-53` says that single-channel reads in the handler need no
  lock. No read is torn, but a cycle can mix two duties (`Spliced`): going from
  511 to 512, one cycle may show all ten bits, and on the way back none.
- `set()` stores 8-bit values into duties of 10 bits without scaling them:
  full scale is a quarter of the brightness that `tick()` reaches.
- A `now` read before a pass of the sensor's frames makes the lighting update
  late and the next one early, so that two updates can fall into one cycle.
- `led_indicator.c:4` says that each LED is on for about 500 ms; a hand-off
  takes `FADE_MS`, 800 ms, and two LEDs share it.
- The encoder emits two ticks per detent where `docs/G102_BOARD.md:224-230`
  says one; the DPI hold is 3000 ms where `main.cpp:5` and
  `docs/G102_BOARD.md:265` say about 0.5 s; the loop runs freely where
  `docs/SENSOR_1855.md:290` says that it is synchronised with the host's polls.

## 6. What is not modelled

- USB descriptors, string tables and the report descriptor that
  `control_request_thunk()` returns; the libopencm3 stack.
- USB suspend and resume: the firmware registers no callback for them.
- GPIO and SPI register access; the sensor's init frames as data (recorded from
  the stock firmware, nothing is computed from them).
- `remap_vectors_to_sram()` and the clock set-up: they run once, before any
  interrupt is enabled.
- The mapping of channels to pins and the two ports of the lighting, which the
  handler writes one after the other.
- `scripts/flash_bootloader.sh`, captures and tools: not part of the program.

## 7. Plan

Done: `SettingsStore`; `BlockStore` and `Bootloader` with its refinement;
`DfuUpdate`, `QuadEncoder`, `MouseReports` (with the
bytes of motion, bus resets and new configurations), `Lighting`,
`FirmwareTimers` and `LedIndicator`, all with proofs.

Next, in this order:

1. What an image that is only partly installed can do: which of the pages the
   boot decision looks at, as a theorem about `Boot` and `BlockStore` together.
2. An abstract specification of the report path (what the user did is
   delivered or dropped, in order), with `MouseReports` shown to implement it.
3. An abstract settings store (a save is all or nothing) and `SettingsStore`
   shown to implement it, once the range of the checksum in `settings.cpp` is
   mended; as the code stands it would be false.
4. An abstract shaft that `QuadEncoder` follows, with its bound on the lag.
