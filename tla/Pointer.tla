------------------------------ MODULE Pointer ------------------------------
(***************************************************************************)
(* What moves the pointer and turns the wheel for the pads                 *)
(* (src/src/input/gyro_mouse.inl, stick_mouse.inl, and the pump of         *)
(* mouse_device.inl): a gyro and two sticks per pad, each behind a gate,   *)
(* and one mailbox for all of them that the mouse's pump empties a byte at *)
(* a time.  One axis stands for the two.                                   *)
(*                                                                         *)
(* A report's motion is given in parts of a pixel, as the rate, the        *)
(* calibration, the curve and the settings make it.                        *)
(***************************************************************************)
EXTENDS Integers, FiniteSets

CONSTANTS PPad,
          Part,       \* parts of a pixel; of a tick of the wheel
          MaxMotion,  \* most of them in one report
          Byte,       \* 127: what one mouse report carries
          MaxReports  \* bound: reports that move something

ASSUME PointerAssumption == /\ Part \in Nat \ {0} /\ MaxMotion \in Nat
                            /\ Byte \in Nat \ {0} /\ MaxReports \in Nat
                            /\ IsFiniteSet(PPad)

Motion == -MaxMotion..MaxMotion
Source == {"gyro", "stick", "wheel"}
Gate   == [when : {"off", "while", "until"}, button : {"held", "released", "unread"}]

VARIABLES
    carry,          \* by pad and source, the part of a pixel not yet pushed
    since,          \* by pad and source, a report has set the clock
    frozen,         \* g_gyroHold, by pad: the trigger steadies the pointer
    steers,         \* by pad: its stick moves the settings window instead
    pending, has,   \* MouseMailbox
    wheelPending,   \* g_wheelPending
    motionOwed,           \* history: parts taken and neither sent nor let go of on purpose
    reports

pointVars == <<carry, since, frozen, steers, pending, has, wheelPending, motionOwed, reports>>
gateKeys  == <<frozen, steers>>

PointInit ==
    /\ carry = [p \in PPad |-> [s \in Source |-> 0]]
    /\ since = [p \in PPad |-> [s \in Source |-> FALSE]]
    /\ frozen = [p \in PPad |-> FALSE] /\ steers = frozen
    /\ pending = 0 /\ has = FALSE /\ wheelPending = 0
    /\ motionOwed = [pointer |-> 0, wheel |-> 0] /\ reports = 0

Pixels(x) == IF x < 0 THEN -((-x) \div Part) ELSE x \div Part      \* a cast to int
Clamp(x) == IF x > Byte THEN Byte ELSE IF x < -Byte THEN -Byte ELSE x

\* gate_open: what a report does not state opens neither kind.
Open(g) ==
    \/ g.when = "while" /\ g.button = "held"
    \/ g.when = "until" /\ g.button = "released"

Drop(p, s, which) ==
    /\ carry' = [carry EXCEPT ![p][s] = 0]
    /\ motionOwed' = [motionOwed EXCEPT ![which] = @ - carry[p][s]]

Reports == reports < MaxReports /\ reports' = reports + 1

\* What a motion makes with the part that was left, and the part that is left of it.
Sum(p, s, d) == carry[p][s] + d

Push(p, s, d) ==
    /\ carry' = [carry EXCEPT ![p][s] = Sum(p, s, d) - Part * Pixels(Sum(p, s, d))]
    /\ pending' = pending + Pixels(Sum(p, s, d)) /\ has' = (has \/ Pixels(Sum(p, s, d)) # 0)
    /\ motionOwed' = [motionOwed EXCEPT !.pointer = @ + d]
-----------------------------------------------------------------------------
\* GyroMouse::on_report: the clock runs with the gate shut, and a long gap counts nothing.
GyroReport(p, g, d, gap) ==
    /\ Reports /\ UNCHANGED <<gateKeys, wheelPending>>
    /\ IF g.when = "off" \/ ~Open(g) \/ frozen[p]
       THEN /\ Drop(p, "gyro", "pointer") /\ UNCHANGED <<pending, has>>
            /\ since' = [since EXCEPT ![p]["gyro"] = @ \/ g.when # "off"]
       ELSE /\ Push(p, "gyro", IF since[p]["gyro"] /\ ~gap THEN d ELSE 0)
            /\ since' = [since EXCEPT ![p]["gyro"] = TRUE]

\* stick_mouse::step: off forgets the clock, and the first report only sets it; at rest
\* and behind a shut gate the part that was left goes.
StickReport(p, on, g, d) ==
    /\ Reports /\ ~steers[p] /\ UNCHANGED <<gateKeys, wheelPending>>
    /\ since' = [since EXCEPT ![p]["stick"] = on]
    /\ IF on /\ ~since[p]["stick"] THEN UNCHANGED <<carry, pending, has, motionOwed>>
       ELSE IF ~on \/ ~Open(g) \/ d = 0
       THEN Drop(p, "stick", "pointer") /\ UNCHANGED <<pending, has>>
       ELSE Push(p, "stick", d)

\* scroll_step, the same for the wheel.
ScrollReport(p, on, g, d, natural) ==
    /\ Reports /\ ~steers[p] /\ UNCHANGED <<gateKeys, pending, has>>
    /\ since' = [since EXCEPT ![p]["wheel"] = on]
    /\ IF on /\ ~since[p]["wheel"] THEN UNCHANGED <<carry, wheelPending, motionOwed>>
       ELSE IF ~on \/ ~Open(g) \/ d = 0
       THEN Drop(p, "wheel", "wheel") /\ UNCHANGED wheelPending
       ELSE LET n == Pixels(Sum(p, "wheel", d)) IN
            /\ carry' = [carry EXCEPT ![p]["wheel"] = Sum(p, "wheel", d) - Part * n]
            /\ wheelPending' = wheelPending + (IF natural THEN -n ELSE n)
            /\ motionOwed' = [motionOwed EXCEPT !.wheel = @ + d - (IF natural THEN 2 * Part * n ELSE 0)]

DrainLosesFlag ==
    /\ has /\ pending' = pending - Clamp(pending) /\ has' = FALSE
    /\ motionOwed' = [motionOwed EXCEPT !.pointer = @ - Part * Clamp(pending)]
    /\ UNCHANGED <<carry, since, gateKeys, wheelPending, reports>>

\* MouseMailbox::drain: a byte of it goes, and what is over waits.
Drain ==
    /\ has /\ pending' = pending - Clamp(pending) /\ has' = (pending' # 0)
    /\ motionOwed' = [motionOwed EXCEPT !.pointer = @ - Part * Clamp(pending)]
    /\ UNCHANGED <<carry, since, gateKeys, wheelPending, reports>>

\* The pump takes all the ticks at once and sends a byte: those over it are gone.
Wheel ==
    /\ wheelPending # 0 /\ wheelPending' = 0
    /\ motionOwed' = [motionOwed EXCEPT !.wheel = @ - Part * wheelPending]
    /\ UNCHANGED <<carry, since, gateKeys, pending, has, reports>>

\* touch_mouse's put_back clears the mailbox for everybody.
Clear ==
    /\ has /\ pending' = 0 /\ has' = FALSE
    /\ motionOwed' = [motionOwed EXCEPT !.pointer = @ - Part * pending]
    /\ UNCHANGED <<carry, since, gateKeys, wheelPending, reports>>

\* forget_device of both: parts, clock and hold.
ForgetPointer(p) ==
    /\ carry[p] # [s \in Source |-> 0] \/ frozen[p]
    /\ carry' = [carry EXCEPT ![p] = [s \in Source |-> 0]]
    /\ since' = [since EXCEPT ![p] = [s \in Source |-> FALSE]]
    /\ frozen' = [frozen EXCEPT ![p] = FALSE]
    /\ motionOwed' = [pointer |-> motionOwed.pointer - carry[p]["gyro"] - carry[p]["stick"],
                wheel |-> motionOwed.wheel - carry[p]["wheel"]]
    /\ UNCHANGED <<steers, pending, has, wheelPending, reports>>

\* trigger_click freezes and frees, and the settings window takes the stick.
Holds(p) == /\ frozen' = [frozen EXCEPT ![p] = ~@]
            /\ UNCHANGED <<carry, since, steers, pending, has, wheelPending, motionOwed, reports>>
Steers(p) == /\ steers' = [steers EXCEPT ![p] = ~@]
             /\ UNCHANGED <<carry, since, frozen, pending, has, wheelPending, motionOwed, reports>>

PointNext ==
    \/ \E p \in PPad, g \in Gate, d \in Motion, b \in BOOLEAN :
          GyroReport(p, g, d, b) \/ StickReport(p, b, g, d)
    \/ \E p \in PPad, on, natural \in BOOLEAN, g \in Gate, d \in Motion :
          ScrollReport(p, on, g, d, natural)
    \/ Drain \/ Wheel \/ Clear
    \/ \E p \in PPad : ForgetPointer(p) \/ Holds(p) \/ Steers(p)

PointTypeOK ==
    /\ carry \in [PPad -> [Source -> (1 - Part)..(Part - 1)]]
    /\ since \in [PPad -> [Source -> BOOLEAN]]
    /\ {frozen, steers} \subseteq [PPad -> BOOLEAN]
    /\ pending \in Int /\ wheelPending \in Int /\ has \in BOOLEAN
    /\ motionOwed \in [pointer : Int, wheel : Int] /\ reports \in 0..MaxReports

AddUp(f) == LET Add[P \in SUBSET PPad] ==
                    IF P = {} THEN 0
                    ELSE LET p == CHOOSE q \in P : TRUE IN f[p] + Add[P \ {p}]
            IN  Add
Carried(s) == AddUp([p \in PPad |-> carry[p][s]])[PPad]

\* No motion is lost or made on its way: what was taken from every pad and is not yet sent
\* is in the mailbox or in the parts that wait, however the pump and the pads interleave.
MotionIsKept ==
    /\ motionOwed.pointer = Part * pending + Carried("gyro") + Carried("stick")
    /\ motionOwed.wheel = Part * wheelPending + Carried("wheel")

\* What was pushed is on its way: the mailbox does not say it is empty while it is not, and
\* it empties when the pads rest.
PointerSettles == <>[](pending = 0 /\ wheelPending = 0)
=============================================================================
