----------------------------- MODULE QuadEncoder -----------------------------
(***************************************************************************)
(* The scroll-wheel decoder (firmware/src/drivers/encoder_quad.hpp): the   *)
(* shaft turns by itself, poll() samples it, consume_ticks() is called by  *)
(* whoever assembles a report.                                             *)
(*                                                                         *)
(* The shaft is counted in edges of the Gray code.  Contact bounce is the  *)
(* shaft going back and forth; a window between two polls in which it gets *)
(* two or more edges away is a miss.                                       *)
(***************************************************************************)
EXTENDS Integers

CONSTANTS MaxTicks,        \* 127: the limit of an int8_t wheel field
          Reach,           \* bound: how far the shaft gets from its origin
          MaxJump,         \* bound: edges between two polls
          MaxMisses,       \* bound: windows with two or more edges
          MaxLost          \* bound: ticks lost to saturation

ASSUME EncoderAssumption ==
    /\ MaxTicks \in Nat \ {0} /\ Reach \in Nat
    /\ MaxJump \in Nat \ {0} /\ MaxMisses \in Nat /\ MaxLost \in Nat

VARIABLES shaft, origin,         \* position now, and when init() ran
          last, accum, ticks,    \* last_, accum_, ticks_
          seen,                  \* position at the last poll
          sent, lost,            \* ticks consumed, ticks clamped away
          misses

wheel == <<last, accum, ticks>>
history == <<seen, sent, lost, misses>>
vars == <<shaft, origin, wheel, history>>

Abs(n) == IF n < 0 THEN -n ELSE n

\* ENC_A is bit 0, ENC_B bit 1.
phase(p) == CASE p % 4 = 0 -> 0 [] p % 4 = 1 -> 2 [] p % 4 = 2 -> 3 [] p % 4 = 3 -> 1

Forward == {<<0, 2>>, <<2, 3>>, <<3, 1>>, <<1, 0>>}
Backward == {<<2, 0>>, <<3, 2>>, <<1, 3>>, <<0, 1>>}
\* Mutant: one entry of the table has the wrong sign.
WrongEntry(old, new) == IF <<old, new>> \in Forward \ {<<3, 1>>} THEN 1
                        ELSE IF <<old, new>> \in Backward \cup {<<3, 1>>} THEN -1 ELSE 0
\* Mutant: two channels changing at once count as an edge.
GuessJumps(old, new) == IF <<old, new>> \in Forward THEN 1
                        ELSE IF old # new THEN -1 ELSE 0
kStep(old, new) == IF <<old, new>> \in Forward THEN 1
                   ELSE IF <<old, new>> \in Backward THEN -1 ELSE 0

\* Mutant: > and < in the loop conditions.
LateTick(a) == IF a > 2 THEN 1 ELSE IF a < -2 THEN -1 ELSE 0
\* The two while loops: one tick for every two counts.
Emitted(a) == IF a >= 0 THEN a \div 2 ELSE -((-a) \div 2)

\* Mutant: ticks_ wraps around.
Wrapped(n) == ((n + MaxTicks) % (2 * MaxTicks + 1)) - MaxTicks
Saturated(n) == IF n > MaxTicks THEN MaxTicks ELSE IF n < -MaxTicks THEN -MaxTicks ELSE n

-----------------------------------------------------------------------------
Init ==
    /\ shaft \in 0 .. 3 /\ origin = shaft /\ seen = shaft
    /\ last = phase(shaft) /\ accum = 0 /\ ticks = 0
    /\ sent = 0 /\ lost = 0 /\ misses = 0

Turn(d) ==
    /\ Abs(shaft + d - origin) <= Reach /\ Abs(lost) < MaxLost
    /\ \/ Abs(shaft + d - seen) <= 1
       \/ misses < MaxMisses /\ Abs(shaft + d - seen) <= MaxJump
    /\ shaft' = shaft + d
    /\ UNCHANGED <<origin, wheel, history>>

poll ==
    LET now == phase(shaft)
        a == accum + kStep(last, now)
    IN  /\ last' = now
        /\ ticks' = Saturated(ticks + Emitted(a))
        /\ accum' = a - 2 * Emitted(a)
        /\ seen' = shaft
        /\ lost' = lost + (ticks + Emitted(a) - ticks')
        /\ misses' = IF Abs(shaft - seen) >= 2 THEN misses + 1 ELSE misses
        /\ UNCHANGED <<shaft, origin, sent>>

consume_ticks ==
    /\ sent' = sent + ticks
    /\ ticks' = 0
    /\ UNCHANGED <<shaft, origin, last, accum, seen, lost, misses>>

Next == (\E d \in {-1, 1} : Turn(d)) \/ poll \/ consume_ticks

Spec == Init /\ [][Next]_vars

-----------------------------------------------------------------------------
TypeOK ==
    /\ shaft \in Int /\ origin \in Int /\ seen \in Int
    /\ last \in 0 .. 3 /\ accum \in -1 .. 1 /\ ticks \in -MaxTicks .. MaxTicks
    /\ sent \in Int /\ lost \in Int /\ misses \in Nat

Turned == seen - origin
Ticks == sent + ticks + lost

(* encoder_quad.hpp:51-56: as long as no window misses an edge, bounce and *)
(* reversals included, every two edges are one tick and the remainder is   *)
(* carried: no tick is invented, swallowed or doubled.                     *)
NoDrift == misses = 0 => Turned = 2 * Ticks + accum

(* encoder_quad.hpp:40-41: whatever was missed, the decoder falls back     *)
(* into step: at a detent it never holds half a tick, so an error is a     *)
(* whole number of ticks.                                                  *)
InStep == (Turned - accum) % 2 = 0

(* The inductive invariant: the phase remembered is that of the last poll. *)
EncoderInv == TypeOK /\ last = phase(seen) /\ NoDrift /\ InStep

(* encoder_quad.hpp:73-79: a tick is lost only when the counter is at its  *)
(* limit, one at a time, in the direction of the limit, and the pending    *)
(* ticks are kept.                                                         *)
OnlyOverflowIsLost ==
    [][lost' # lost => /\ Abs(ticks) = MaxTicks /\ ticks' = ticks
                       /\ Abs(lost' - lost) = 1 /\ (lost' > lost <=> ticks > 0)]_vars
=============================================================================
