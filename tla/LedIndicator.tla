---------------------------- MODULE LedIndicator ----------------------------
(***************************************************************************)
(* The LED indicator of the bootloader (bootloader/src/led_indicator.c):   *)
(* each pass of the DFU loop compares the SysTick counter with a duty that *)
(* fades from LED to LED with the millisecond count.  Both are read while  *)
(* they move on: a pass may use the count of one millisecond with the      *)
(* phase of the next, and writes the pins later still.  usbd_poll() may    *)
(* erase and program flash: the CPU stalls, SysTick counts on and its      *)
(* interrupt is pending at most once.                                      *)
(***************************************************************************)
EXTENDS Integers

CONSTANTS SYSTICK_RELOAD, FADE_MS,
          Wrap,            \* 2^32, the modulus of tick_ms
          PassTime         \* counts from one pass to the next, without flash operations

MAX_DUTY == SYSTICK_RELOAD \div 4
LEDs == 0 .. 2

ASSUME LedAssumption ==
    /\ {SYSTICK_RELOAD, FADE_MS, Wrap, PassTime} \subseteq Nat \ {0}
    /\ MAX_DUTY > 0 /\ MAX_DUTY + 2 * PassTime < SYSTICK_RELOAD

VARIABLES tick_ms, val,    \* the millisecond count; the downcounter
          pending,         \* sys_tick_handler is due
          pc, now, phase,  \* the pass and its locals
          lit,             \* the LEDs that are on
          age,             \* counts since the pass began
          disturbed,       \* this millisecond is the first one or saw a flash operation
          on               \* counts each LED was on in an undisturbed millisecond

pass == <<pc, now, phase>>
vars == <<tick_ms, val, pending, pass, lit, age, disturbed, on>>

\* led_indicator_init(); the counter is 0 until it is enabled and reloads.
Init ==
    /\ tick_ms = 0 /\ val = SYSTICK_RELOAD - 1 /\ pending = FALSE
    /\ pc = "poll" /\ now = 0 /\ phase = 0
    /\ lit = {} /\ age = 0 /\ disturbed = TRUE /\ on = [i \in LEDs |-> 0]

-----------------------------------------------------------------------------
(* The crossfade.                                                          *)
fade_pos(ms) == ms % FADE_MS
outgoing(ms) == (ms \div FADE_MS) % 3
\* Mutant: the LEDs in the opposite order.
Preceding(ms) == (outgoing(ms) + 2) % 3
incoming(ms) == (outgoing(ms) + 1) % 3
duty_in(ms) == (MAX_DUTY * fade_pos(ms)) \div FADE_MS
Duty(ms, i) == CASE i = outgoing(ms) -> MAX_DUTY - duty_in(ms)
                 [] i = incoming(ms) -> duty_in(ms)
                 [] OTHER -> 0

-----------------------------------------------------------------------------
(* SysTick.  Its interrupt comes when the counter reaches 0.               *)
Stalled == pc = "flash"
OnAfter(i) == IF i \in lit /\ ~disturbed THEN on[i] + 1 ELSE on[i]

Count ==
    /\ Stalled \/ (~pending /\ age < PassTime)
    /\ val' = IF val = 0 THEN SYSTICK_RELOAD - 1 ELSE val - 1
    /\ pending' = (pending \/ val = 1)
    /\ age' = IF Stalled THEN age ELSE age + 1
    /\ on' = [i \in LEDs |-> IF val = 0 THEN 0 ELSE OnAfter(i)]
    /\ disturbed' = IF val = 0 THEN Stalled ELSE disturbed
    /\ UNCHANGED <<tick_ms, pass, lit>>

\* Mutant: a counter that stays at its maximum.
Saturating == IF tick_ms = Wrap - 1 THEN tick_ms ELSE tick_ms + 1
NextTick == (tick_ms + 1) % Wrap
sys_tick_handler ==
    /\ pending /\ ~Stalled
    /\ tick_ms' = NextTick /\ pending' = FALSE
    /\ UNCHANGED <<val, pass, lit, age, disturbed, on>>

-----------------------------------------------------------------------------
(* A pass of the DFU loop.                                                 *)
usbd_poll ==
    /\ pc = "poll" /\ pc' \in {"flash", "tick"}
    /\ disturbed' = (disturbed \/ pc' = "flash")
    /\ on' = IF disturbed' THEN [i \in LEDs |-> 0] ELSE on
    /\ UNCHANGED <<tick_ms, val, pending, now, phase, lit, age>>

FlashDone ==
    /\ Stalled /\ pc' = "tick"
    /\ UNCHANGED <<tick_ms, val, pending, now, phase, lit, age, disturbed, on>>

ReadTick ==
    /\ pc = "tick" /\ pc' = "phase"
    /\ now' = tick_ms
    /\ UNCHANGED <<tick_ms, val, pending, phase, lit, age, disturbed, on>>

\* Mutant: off by one.
FromOne(v) == SYSTICK_RELOAD - v
Upcounting(v) == SYSTICK_RELOAD - 1 - v
ReadPhase ==
    /\ pc = "phase" /\ pc' = "write"
    /\ phase' = Upcounting(val)
    /\ UNCHANGED <<tick_ms, val, pending, now, lit, age, disturbed, on>>

\* Mutant: the else branch is missing.
NeverCleared == lit \cup {i \in LEDs : phase < Duty(now, i)}
Pins == {i \in LEDs : phase < Duty(now, i)}
WritePins ==
    /\ pc = "write" /\ pc' = "poll"
    /\ lit' = Pins
    /\ now' = 0 /\ phase' = 0 /\ age' = 0
    /\ UNCHANGED <<tick_ms, val, pending, disturbed, on>>

Loop == usbd_poll \/ FlashDone \/ ReadTick \/ ReadPhase \/ WritePins
Next == Count \/ sys_tick_handler \/ Loop

(* SysTick counts, its interrupt is never masked, the DFU loop never ends, *)
(* and every flash operation does.                                         *)
Spec == Init /\ [][Next]_vars /\ WF_vars(Count) /\ WF_vars(sys_tick_handler) /\ WF_vars(Loop)

-----------------------------------------------------------------------------
TypeOK ==
    /\ tick_ms \in 0 .. Wrap - 1 /\ now \in 0 .. Wrap - 1
    /\ val \in 0 .. SYSTICK_RELOAD - 1 /\ phase \in 0 .. SYSTICK_RELOAD - 1
    /\ pc \in {"poll", "flash", "tick", "phase", "write"}
    /\ pending \in BOOLEAN /\ disturbed \in BOOLEAN
    /\ lit \in SUBSET LEDs /\ age \in 0 .. PassTime
    /\ on \in [LEDs -> 0 .. SYSTICK_RELOAD - 1]

(* led_indicator.c:29-31 "the outgoing LED ramps MAX_DUTY -> 0, the        *)
(* incoming one ramps 0 -> MAX_DUTY in lockstep": from one millisecond to  *)
(* the next no LED jumps, at a hand-off neither, but once when the 32-bit  *)
(* count wraps, at a point that is no hand-off.                            *)
Ramp == (MAX_DUTY + FADE_MS - 1) \div FADE_MS
Smooth ==
    [][tick_ms' = 0 \/ \A i \in LEDs : Duty(tick_ms', i) - Duty(tick_ms, i) \in (-Ramp) .. Ramp]_vars

(* led_indicator.c:5-9 "the PWM granularity is whatever the poll period    *)
(* happens to be": in every millisecond without a flash operation an LED   *)
(* is on for as long as its duty, give or take less than two passes,       *)
(* though a pass may combine the reads of two milliseconds.                *)
Slack == 2 * PassTime - 1
DutyKept ==
    [][val = 0 /\ val' # 0 /\ ~disturbed =>
         \A i \in LEDs : OnAfter(i) - Duty((tick_ms - 1) % Wrap, i) \in (-Slack) .. Slack]_vars

(* led_indicator.c:4: the LEDs take turns for ever.                        *)
EachLights == \A i \in LEDs : []<>(i \in lit) \/ []<>Stalled
=============================================================================
