--------------------------- MODULE FirmwareTimers ---------------------------
(***************************************************************************)
(* What the firmware does by the clock: main()'s loop reads tick_ms once   *)
(* per iteration (firmware/src/app/main.cpp, platform/systick.hpp) and     *)
(* drives with it the sensor's bring-up (drivers/sensor_1855.cpp) and the  *)
(* long press of DPI that hands over to the bootloader.                    *)
(*                                                                         *)
(* SysTick interrupts the loop anywhere, so that now may be old when it is *)
(* used: by the time an iteration takes, which is longer when it replays   *)
(* a pass of the sensor's init frames.  The ages are true elapsed times,   *)
(* each counted as far as a property looks.                                *)
(***************************************************************************)
EXTENDS Integers

CONSTANTS Wrap,            \* 2^32, the modulus of tick_ms
          kVccSettleMs, kPassGapMs, DPI_HOLD_MS,
          LoopMs, PassMs    \* longest iteration without and with a pass

ASSUME TimerAssumption ==
    /\ {Wrap, kVccSettleMs, kPassGapMs, DPI_HOLD_MS, LoopMs, PassMs} \subseteq Nat
    /\ LoopMs <= PassMs
    /\ {kVccSettleMs, kPassGapMs, DPI_HOLD_MS} \subseteq 1 .. Wrap - PassMs - LoopMs - 1

\* The longest DPI can be down before the mouse reboots: the rest of the
\* iteration in which it is pressed, the hold, an iteration in which the
\* hold ends after now was read, and the one that notices.
Latest == LoopMs + DPI_HOLD_MS - 1 + PassMs + LoopMs

\* The longest bring-up: the wait for the supply and the gap, each seen to be
\* over an iteration late (the gap also by the pass before it), and the
\* iterations of pass 1, of pass 2 and of set_dpi().
SupplyBy == kVccSettleMs - 1 + 2 * LoopMs
GapBy == IF PassMs > kPassGapMs - 1 + LoopMs THEN PassMs ELSE kPassGapMs - 1 + LoopMs
BringupMs == SupplyBy + GapBy + LoopMs + PassMs + LoopMs

InitStates == {"WaitVcc", "Pass1", "WaitGap", "Pass2", "SetDpi", "Ready"}

VARIABLES tick_ms,
          pc,              \* "head", "sensor", "frames", "dpi"; "release", "reset"
          now,
          state, state_started_ms,                 \* of the sensor
          dpi, dpi_was_pressed, dpi_pressed_since, \* the pin and main()'s locals
          magic,
          lag,             \* age of now
          settled,         \* age of init_start()
          rested,          \* age of the last frame of pass 1
          held,            \* how long the pin is down, in the loop
          upAge            \* age of the last sample of a pin that was up

sensor == <<state, state_started_ms>>
press == <<dpi_was_pressed, dpi_pressed_since, magic>>
ages == <<settled, rested, held, upAge>>
vars == <<tick_ms, pc, now, sensor, dpi, press, lag, ages>>

\* Mutant: comparing points in time, which fails when the counter wraps.
DueAt(t, start, dt) == t >= (start + dt) % Wrap
Due(t, start, dt) == (t - start) % Wrap >= dt

-----------------------------------------------------------------------------
(* main() up to its loop: USB enumeration takes any time, init_start()     *)
(* reads the clock itself.                                                 *)
Init ==
    /\ tick_ms \in 0 .. Wrap - 1 /\ pc = "head" /\ now = tick_ms
    /\ state = "WaitVcc" /\ state_started_ms = tick_ms
    /\ dpi \in BOOLEAN
    /\ dpi_was_pressed = FALSE /\ dpi_pressed_since = 0 /\ magic = FALSE
    /\ lag = 0 /\ settled = 0 /\ rested = 0 /\ held = 0 /\ upAge = 0

\* The firmware is started again some time after the reset.
Restart ==
    /\ pc = "reset"
    /\ tick_ms' \in 0 .. Wrap - 1 /\ pc' = "head" /\ now' = tick_ms'
    /\ state' = "WaitVcc" /\ state_started_ms' = tick_ms'
    /\ dpi_was_pressed' = FALSE /\ dpi_pressed_since' = 0 /\ magic' = FALSE
    /\ lag' = 0 /\ settled' = 0 /\ rested' = 0 /\ held' = 0 /\ upAge' = 0
    /\ UNCHANGED dpi

-----------------------------------------------------------------------------
(* Time.  An iteration has an end: LoopMs and PassMs are what the work in  *)
(* it can take.  Nothing limits the wait for the release of DPI.           *)
Older(age, cap) == IF age < cap THEN age + 1 ELSE age

\* Mutant: the counter is wider than the arithmetic on it.
WideTick == tick_ms + 1
NextTick == (tick_ms + 1) % Wrap

sys_tick_handler ==
    /\ \/ pc \in {"head", "sensor", "dpi"} /\ lag < LoopMs
       \/ pc = "frames" /\ lag < PassMs
       \/ pc = "release"
    /\ tick_ms' = NextTick
    /\ lag' = IF pc = "release" THEN lag ELSE lag + 1
    /\ settled' = Older(settled, BringupMs + 1) /\ rested' = Older(rested, kPassGapMs)
    /\ held' = IF dpi THEN Older(held, Latest + 1) ELSE 0
    /\ upAge' = Older(upAge, DPI_HOLD_MS)
    /\ UNCHANGED <<pc, now, sensor, dpi, press>>

Finger ==
    /\ dpi' = ~dpi
    /\ held' = 0
    /\ UNCHANGED <<tick_ms, pc, now, sensor, press, lag, settled, rested, upAge>>

-----------------------------------------------------------------------------
ReadClock ==
    /\ pc = "head" /\ pc' = "sensor"
    /\ now' = tick_ms /\ lag' = 0
    /\ UNCHANGED <<tick_ms, sensor, dpi, press, ages>>

\* init_tick() in the states that only look at the clock or write registers.
Delay == [WaitVcc |-> kVccSettleMs, WaitGap |-> kPassGapMs]
\* Mutant: a wait that goes on at the last tick of its delay.
WaitedTooLong(s) == Due(now, state_started_ms, Delay[s] + 1)
Waited(s) == Due(now, state_started_ms, Delay[s])
\* Mutants: pass 2 follows pass 1 at once; the driver never becomes ready.
NoGap(s) == IF s = "WaitVcc" THEN Waited(s) ELSE s # "Ready"
NeverReady(s) == s \in DOMAIN Delay /\ Waited(s)
MayLeave(s) == IF s \in DOMAIN Delay THEN Waited(s) ELSE s = "SetDpi"
After == [WaitVcc |-> "Pass1", WaitGap |-> "Pass2", SetDpi |-> "Ready"]
init_tick ==
    /\ pc = "sensor" /\ state \notin {"Pass1", "Pass2"}
    /\ state' = IF MayLeave(state) THEN After[state] ELSE state
    /\ pc' = "dpi"
    /\ UNCHANGED <<state_started_ms, tick_ms, now, dpi, press, lag, ages>>

StartPass ==
    /\ pc = "sensor" /\ state \in {"Pass1", "Pass2"}
    /\ pc' = "frames"
    /\ UNCHANGED <<tick_ms, now, sensor, dpi, press, lag, ages>>

EndPass ==
    /\ pc = "frames" /\ pc' = "dpi"
    /\ IF state = "Pass1"
         THEN state' = "WaitGap" /\ state_started_ms' = now /\ rested' = 0
         ELSE state' = "SetDpi" /\ UNCHANGED <<state_started_ms, rested>>
    /\ UNCHANGED <<tick_ms, now, dpi, press, lag, settled, held, upAge>>

-----------------------------------------------------------------------------
(* The tail of the loop; reboot_to_bootloader() waits for the release.     *)
\* Mutants: dpi_pressed_since is set once and for all, or by every sample.
FirstPress == IF dpi /\ dpi_pressed_since = 0 THEN now ELSE dpi_pressed_since
LastSample == IF dpi THEN now ELSE dpi_pressed_since
PressedSince == IF dpi /\ ~dpi_was_pressed THEN now ELSE dpi_pressed_since
PollDpi ==
    /\ pc = "dpi"
    /\ dpi_pressed_since' = PressedSince
    /\ dpi_was_pressed' = dpi
    /\ IF dpi /\ Due(now, PressedSince, DPI_HOLD_MS)
         THEN pc' = "release" /\ magic' = TRUE
         ELSE pc' = "head" /\ UNCHANGED magic
    /\ upAge' = IF dpi THEN upAge ELSE 0
    /\ UNCHANGED <<tick_ms, now, sensor, dpi, lag, settled, rested, held>>

scb_reset_system ==
    /\ pc = "release" /\ ~dpi
    /\ pc' = "reset"
    /\ UNCHANGED <<tick_ms, now, sensor, dpi, press, lag, ages>>

Loop == ReadClock \/ init_tick \/ StartPass \/ EndPass \/ PollDpi

Next == sys_tick_handler \/ Finger \/ Loop \/ scb_reset_system \/ Restart

(* The clock ticks and the loop runs.                                      *)
Spec == Init /\ [][Next]_vars /\ WF_vars(sys_tick_handler) /\ WF_vars(Loop)

-----------------------------------------------------------------------------
TypeOK ==
    /\ {tick_ms, now, state_started_ms, dpi_pressed_since} \subseteq 0 .. Wrap - 1
    /\ pc \in {"head", "sensor", "frames", "dpi", "release", "reset"}
    /\ state \in InitStates
    /\ {dpi, dpi_was_pressed, magic} \subseteq BOOLEAN
    /\ lag \in 0 .. PassMs /\ settled \in 0 .. BringupMs + 1 /\ rested \in 0 .. kPassGapMs
    /\ held \in 0 .. Latest + 1 /\ upAge \in 0 .. DPI_HOLD_MS

(* sensor_1855.cpp:64-66: no SPI byte before the supply has settled,       *)
(* wherever the counter is when the firmware starts.                       *)
VccSettled == pc = "frames" => settled >= kVccSettleMs

(* sensor_1855.cpp:72-78: the gap runs from the now of the iteration that  *)
(* replayed pass 1, so it is short by at most the length of a pass.        *)
GapAlmostKept == pc = "frames" /\ state = "Pass2" => rested + PassMs >= kPassGapMs

(* main.cpp:115-118: the mouse reboots only when every sample of the last  *)
(* DPI_HOLD_MS saw the button down.                                        *)
NoEarlyReboot == pc = "release" => upAge >= DPI_HOLD_MS

(* ... and a button held that long is never missed, whatever else delays   *)
(* the loop, the replay of a pass in the worst place included.             *)
NoLateReboot == held > Latest => pc \in {"release", "reset"}

(* sensor_1855.cpp:55-86: one state per iteration, so the sensor is up     *)
(* within BringupMs of init_start(), however SysTick cuts the iterations.  *)
BringupInTime == pc \notin {"release", "reset"} /\ state # "Ready" => settled <= BringupMs

(* The sensor comes up, unless the user is sending the mouse to the        *)
(* bootloader.                                                             *)
BringupCompletes == <>(state = "Ready" \/ pc \in {"release", "reset"})
=============================================================================
