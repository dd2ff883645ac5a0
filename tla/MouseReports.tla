---------------------------- MODULE MouseReports ----------------------------
(***************************************************************************)
(* The report path of the mouse: the main loop (firmware/src/app/main.cpp) *)
(* samples wheel, buttons and sensor one after the other and hands a       *)
(* report to the USB service (firmware/src/services/usb_hid.cpp), whose    *)
(* interrupt endpoint holds one packet until the host polls it.  The user  *)
(* moves things, the host polls or resets the bus, at any point.           *)
(*                                                                         *)
(* The wheel decoder is QuadEncoder; an iteration polls and drains it      *)
(* once, which yields at most one tick.                                    *)
(***************************************************************************)
EXTENDS MotionBytes

CONSTANTS Button,          \* the five buttons of the report
          Padding,         \* the bits of the first byte that are no button
          Empty,           \* an endpoint without a packet
          MaxInput,        \* bound: things the user does
          MaxReset         \* bound: times the host starts over

Report == [buttons : SUBSET Button, dx : Int \X Int, dy : Int \X Int, wheel : Int]

\* 0xFF, the initial last_buttons, is no bitmap of buttons.
AllBits == Button \cup {Padding}

ASSUME ReportAssumption == Padding \notin Button /\ Empty \notin Report /\ {MaxInput, MaxReset} \subseteq Nat

VARIABLES pc,              \* where main() is
          configured,
          online,          \* the endpoint was set up since the last bus reset
          ready,           \* sensor.ready()
          pins, turned,    \* buttons held, wheel not sampled yet
          lx, ly,          \* motion latched in the chip, in its frame
          buttons, wheel, dx, dy,       \* locals of the iteration
          last_buttons,
          ep,              \* the endpoint's packet
          hbuttons,        \* the buttons as the host knows them
          stale,           \* the last report did not reach the host
          owedX, owedY, owedWheel,      \* done by the user, neither delivered nor dropped
          inputs, resets

usb == <<configured, online>>
user == <<pins, turned, lx, ly, inputs>>
locals == <<buttons, wheel, dx, dy>>
owed == <<owedX, owedY, owedWheel>>
vars == <<pc, usb, ready, user, locals, last_buttons, ep, hbuttons, stale, owed, resets>>

Init ==
    /\ pc = "enumerate" /\ configured = FALSE /\ online = FALSE /\ ready = FALSE
    /\ pins \in SUBSET Button /\ turned = 0 /\ lx = 0 /\ ly = 0
    /\ buttons = {} /\ wheel = 0 /\ dx = 0 /\ dy = 0
    /\ last_buttons = AllBits
    /\ ep = Empty /\ hbuttons = {} /\ stale = FALSE
    /\ owedX = 0 /\ owedY = 0 /\ owedWheel = 0
    /\ inputs = 0 /\ resets = 0

-----------------------------------------------------------------------------
(* The user.                                                               *)
Input == inputs < MaxInput /\ inputs' = inputs + 1

Click(b) ==
    /\ Input
    /\ pins' = IF b \in pins THEN pins \ {b} ELSE pins \cup {b}
    /\ UNCHANGED <<turned, lx, ly, owed>>
    /\ UNCHANGED <<pc, usb, ready, locals, last_buttons, ep, hbuttons, stale, resets>>

\* The encoder counts from encoder.init() on; one tick per iteration.
Scroll(d) ==
    /\ Input
    /\ pc # "enumerate" /\ turned = 0
    /\ turned' = d /\ owedWheel' = owedWheel + d
    /\ UNCHANGED <<pins, lx, ly, owedX, owedY>>
    /\ UNCHANGED <<pc, usb, ready, locals, last_buttons, ep, hbuttons, stale, resets>>

\* The smallest moves, and those that reach the ends of 12 bits at once.
Moves == {-1, 1, -Half12, Half12 - 1}
\* The sensor latches motion once its init sequence has run.  The chip is
\* rotated: right is its Y, back its -X.
Move(right, back) ==
    /\ Input
    /\ ready
    /\ ly' = ly + right /\ lx' = lx - back
    /\ lx' \in Int12 /\ ly' \in Int12
    /\ owedX' = owedX + right /\ owedY' = owedY + back
    /\ UNCHANGED <<pins, turned, owedWheel>>
    /\ UNCHANGED <<pc, usb, ready, locals, last_buttons, ep, hbuttons, stale, resets>>

-----------------------------------------------------------------------------
(* USB.  The device handles bus events in usb.poll(), while it waits for   *)
(* its configuration and at the top of each iteration.                     *)
Polling == pc \in {"enumerate", "sample"}

\* A packet that leaves the endpoint, read by the host or thrown away.
Taken(r) == /\ owedX' = owedX - Word(r.dx) /\ owedY' = owedY - Word(r.dy)
            /\ owedWheel' = owedWheel - r.wheel
Discard == /\ ep' = Empty
           /\ IF ep = Empty THEN UNCHANGED owed ELSE Taken(ep)

\* usbd_ep_setup() starts the endpoint anew.
set_config_thunk ==
    /\ Polling /\ ~online
    /\ configured' = TRUE /\ online' = TRUE
    /\ pc' = "sample"
    /\ Discard
    /\ UNCHANGED <<ready, user, locals, last_buttons, hbuttons, stale, resets>>

\* The host forgets what it knew; configured_ stays set.
BusReset ==
    /\ Polling /\ online
    /\ resets < MaxReset /\ resets' = resets + 1
    /\ online' = FALSE /\ hbuttons' = {} /\ stale' = TRUE
    /\ Discard
    /\ UNCHANGED <<pc, configured, ready, user, locals, last_buttons>>

\* SET_CONFIGURATION without a bus reset: the thunk runs again.
Reconfigure ==
    /\ Polling /\ online
    /\ resets < MaxReset /\ resets' = resets + 1
    /\ configured' = TRUE
    /\ hbuttons' = {} /\ stale' = TRUE
    /\ Discard
    /\ UNCHANGED <<pc, online, ready, user, locals, last_buttons>>

HostPoll ==
    /\ online /\ ep # Empty
    /\ hbuttons' = ep.buttons
    /\ Discard
    /\ UNCHANGED <<pc, usb, ready, user, locals, last_buttons, stale, resets>>

\* A packet is refused while the last one is in place.
usbd_ep_write_packet(r) ==
    IF ep = Empty
      THEN ep' = r /\ stale' = ~online /\ UNCHANGED owed
      ELSE ep' = ep /\ stale' = TRUE /\ Taken(r)

send_report(b, x, y, w) ==
    IF configured
      THEN usbd_ep_write_packet([buttons |-> b, dx |-> Bytes(x), dy |-> Bytes(y), wheel |-> w])
      ELSE UNCHANGED <<ep, stale, owed>>

-----------------------------------------------------------------------------
(* The iteration.                                                          *)
SensorReady ==
    /\ pc = "sample" /\ ~ready
    /\ ready' = TRUE
    /\ UNCHANGED <<pc, usb, user, locals, last_buttons, ep, hbuttons, stale, owed, resets>>

\* encoder.poll(), hid_bitmap(), consume_ticks()
Sample ==
    /\ pc = "sample" /\ pc' = "motion"
    /\ buttons' = pins
    /\ wheel' = turned /\ turned' = 0
    /\ UNCHANGED <<pins, lx, ly, inputs, dx, dy>>
    /\ UNCHANGED <<usb, ready, last_buttons, ep, hbuttons, stale, owed, resets>>

\* The burst reads the latch and clears it.
Motion ==
    /\ pc = "motion" /\ pc' = "send"
    /\ LET s == IF ready THEN read_motion(Burst(lx, ly)) ELSE <<0, 0>>
       IN dx' = s[2] /\ dy' = 0 - s[1]
    /\ IF ready THEN lx' = 0 /\ ly' = 0 ELSE UNCHANGED <<lx, ly>>
    /\ UNCHANGED <<pins, turned, inputs, buttons, wheel>>
    /\ UNCHANGED <<usb, ready, last_buttons, ep, hbuttons, stale, owed, resets>>

\* Mutant: a release is no news.
OnlyPresses == ~(buttons \subseteq last_buttons) \/ wheel # 0 \/ dx # 0 \/ dy # 0
News == buttons # last_buttons \/ wheel # 0 \/ dx # 0 \/ dy # 0
Send ==
    /\ pc = "send" /\ pc' = "sample"
    /\ IF News THEN send_report(buttons, dx, dy, wheel) ELSE UNCHANGED <<ep, stale, owed>>
    /\ last_buttons' = IF News THEN buttons ELSE last_buttons
    /\ UNCHANGED <<usb, ready, user, locals, hbuttons, resets>>

User == \/ \E b \in Button : Click(b)
        \/ \E d \in {-1, 1} : Scroll(d)
        \/ \E d \in Moves : Move(d, 0) \/ Move(0, d)
Loop == Sample \/ Motion \/ Send

Next == User \/ Loop \/ SensorReady \/ set_config_thunk \/ BusReset \/ Reconfigure \/ HostPoll

(* main() never stops; the host keeps polling, and configures the mouse    *)
(* anew after each reset: its request waits for the next usb.poll().       *)
Spec == Init /\ [][Next]_vars /\ WF_vars(Loop) /\ SF_vars(set_config_thunk) /\ WF_vars(HostPoll)

-----------------------------------------------------------------------------
TypeOK ==
    /\ pc \in {"enumerate", "sample", "motion", "send"}
    /\ configured \in BOOLEAN /\ online \in BOOLEAN /\ ready \in BOOLEAN /\ stale \in BOOLEAN
    /\ pins \in SUBSET Button /\ buttons \in SUBSET Button /\ hbuttons \in SUBSET Button
    /\ last_buttons \in SUBSET AllBits
    /\ turned \in Int /\ wheel \in Int /\ lx \in Int12 /\ ly \in Int12 /\ dx \in Int16 /\ dy \in Int16
    /\ ep \in Report \cup {Empty}
    /\ owedX \in Int /\ owedY \in Int /\ owedWheel \in Int
    /\ inputs \in 0 .. MaxInput /\ resets \in 0 .. MaxReset

Sampled == pc \in {"motion", "send"}
InFlight == IF ep = Empty THEN [x |-> 0, y |-> 0, wheel |-> 0]
                          ELSE [x |-> Word(ep.dx), y |-> Word(ep.dy), wheel |-> ep.wheel]

(* main.cpp:100-113: every count of motion, in the direction the user      *)
(* moved, and every wheel tick is in exactly one place until a report      *)
(* with it leaves the endpoint or is dropped, whatever moves between the   *)
(* steps of an iteration: unread, in its locals, or in the endpoint.       *)
Accounted ==
    /\ owedX = ly + (IF pc = "send" THEN dx ELSE 0) + InFlight.x
    /\ owedY = ((IF pc = "send" THEN dy ELSE 0) + InFlight.y) - lx
    /\ owedWheel = turned + (IF Sampled THEN wheel ELSE 0) + InFlight.wheel

(* main.cpp:110-113: unless a report was refused or the host started over  *)
(* since the last one that got through, last_buttons is what the host      *)
(* knows or is about to learn.                                             *)
HostInStep ==
    ~stale /\ last_buttons # AllBits =>
        online /\ last_buttons = IF ep = Empty THEN hbuttons ELSE ep.buttons

LoopInv ==
    /\ TypeOK /\ Accounted /\ HostInStep
    /\ configured <=> pc # "enumerate"
    /\ online => configured
    /\ last_buttons = AllBits => ep = Empty

(* usb_hid.cpp:158, 192: when the user leaves the buttons alone, the host  *)
(* comes to know their state and keeps it, or the last report got lost:    *)
(* the next one to get through repairs everything.                         *)
ButtonsArrive == <>[](hbuttons = pins) \/ <>[]stale

(* usb_hid.hpp:24 "No-op until the host has SET_CONFIGURATION'd us": from  *)
(* then on a change of the buttons reaches the host.                       *)
ButtonsSettle == <>[](hbuttons = pins)
=============================================================================
