----------------------------- MODULE TouchMouse -----------------------------
(***************************************************************************)
(* The touchpad as a mouse (src/src/input/touch_mouse.inl): one finger     *)
(* points, one or two scroll, a tap clicks and a press with a finger on it *)
(* holds something until the pad is bare.                                  *)
(*                                                                         *)
(* A report goes from piece to piece, and each is the set of what it may   *)
(* leave: a distance or a clock is a choice where the code compares it,    *)
(* one for each comparison: a tap's slop and its 400 ms, the still units   *)
(* of a tap and of a press, a pixel's worth or a leap, the wait of a click *)
(* and of a check.  The settings are read anew by each report.  The        *)
(* pointer stands on one of a few spots.  What is pushed is in the mailbox *)
(* (`box`) until the mouse's pump takes it, and then on its way to Windows *)
(* (`moving`); a click that was asked for (`given`) goes with the pump     *)
(* too.  A tick of the wheel makes a touch no tap, as travel does.  What a *)
(* report only measures for the log is left out, and so is what the gyro   *)
(* and other pads put in the same mailbox.                                 *)
(***************************************************************************)
EXTENDS Naturals, FiniteSets

CONSTANTS TouchSetting,   \* settings of the section: [cursor, scroll, one, two, drag]
          MaxSpot         \* bound: the spots the pointer may stand on

Target == {"none", "left", "right", "wheel", "key", "pad", "osk"}
Mouse  == {"left", "right"}
Spot   == 0..MaxSpot
NoSpot == MaxSpot + 1

ASSUME TouchAssumption ==
    /\ TouchSetting \subseteq [cursor : BOOLEAN, scroll : BOOLEAN,
                               one : Target, two : Target, drag : Target]
    /\ MaxSpot \in Nat

VARIABLE touch      \* the pad's TouchState with the pointer, the mailbox and what is published

\* TouchState: a session is active while max > 0, and a press has hold of a target.
NoTouch ==
    [max |-> 0, now |-> 0, moved |-> FALSE, long |-> FALSE, home |-> NoSpot,
     movedCursor |-> FALSE, live |-> FALSE, pressStill |-> FALSE, tracking |-> FALSE,
     tail |-> FALSE, seen |-> {}, place |-> 0, check |-> FALSE,
     target |-> "none", click |-> {}, last |-> "none", lastAt |-> NoSpot]

\* The rest: where the pointer is and what will move it, the clicks asked for, what is held
\* for the pad, and two of history: the taps that wait for their click, and where the last
\* of them was to land, unless something was on its way that nobody can call back.
TouchInit ==
    touch = [f \in DOMAIN NoTouch \cup {"at", "box", "moving", "given", "drag", "key", "pad",
                                        "owing", "aim"} |->
                CASE f \in DOMAIN NoTouch -> NoTouch[f]
                  [] f \in {"at", "owing"} -> 0
                  [] f \in {"box", "moving"} -> FALSE
                  [] f = "given" -> {}
                  [] f = "aim" -> NoSpot
                  [] OTHER -> "none"]

\* put_back: what waits in the mailbox goes, and the pointer is placed.  A click the pump
\* still has is not of this tap any more.
PutBack(w, x) ==
    [w EXCEPT !.box = FALSE, !.at = x, !.place = x, !.check = TRUE,
              !.aim = IF w.given = {} THEN @ ELSE NoSpot]
PutBackAgain(w) == [w EXCEPT !.at = w.place]

FireBlind(w) ==
    [w EXCEPT !.owing = @ - 1, !.given = @ \cup w.click, !.click = {},
              !.aim = IF w.moving THEN NoSpot ELSE @]

\* fire_click: the pointer is put where it belongs once more, and the pump is asked.
FireClick(w) ==
    [w EXCEPT !.at = w.place, !.owing = @ - 1, !.given = @ \cup w.click, !.click = {},
              !.aim = IF w.moving THEN NoSpot ELSE @]

\* Keys, buttons of the pad and the on-screen keyboard wait while the pad drives the window.
ActsNow(t, mode) == t \in Mouse \cup {"wheel"} \/ (t # "none" /\ ~mode)

HoldBegin(w, t) ==
    [w EXCEPT !.target = t, !.drag = IF t \in Mouse THEN t ELSE @,
              !.key = IF t = "key" THEN t ELSE @, !.pad = IF t = "pad" THEN t ELSE @]

\* It lets go of what the press took, whatever the setting says by now.
DropHold(w) ==
    [w EXCEPT !.target = "none", !.drag = IF w.target \in Mouse THEN "none" ELSE @,
              !.key = IF w.target = "key" THEN "none" ELSE @,
              !.pad = IF w.target = "pad" THEN "none" ELSE @]

Forgets(w) == [f \in DOMAIN w |-> IF f \in DOMAIN NoTouch THEN NoTouch[f] ELSE w[f]]

\* All off, or the gate closed: nothing stays held, and a click that is owed is made.
Reset(w) ==
    LET v == DropHold(w)
    IN  Forgets(IF v.click # {} THEN FireClick(v) ELSE v)
-----------------------------------------------------------------------------
\* The put-back is looked at again until its time is up.
Checked(w, over) ==
    IF ~w.check THEN w ELSE IF over THEN [w EXCEPT !.check = FALSE] ELSE PutBackAgain(w)

\* A click that is owed is made when it is due, or as another finger lands.
Fires(w, fingers, due) ==
    IF w.click # {} /\ (due \/ (fingers > 0 /\ w.max = 0)) THEN FireClick(w) ELSE w

\* The check ends after the click is due.
Waits(w, fingers) ==
    {Fires(Checked(w, FALSE), fingers, due) : due \in BOOLEAN}
      \cup {Fires(Checked(w, TRUE), fingers, TRUE)}

\* remember: the pointer's recent path.
Remembers(w, c, fingers) ==
    IF c.cursor /\ fingers > 0 THEN [w EXCEPT !.seen = @ \cup {w.at}] ELSE w

\* A press puts the pointer back where it was a little before (put_back_for_press), and so
\* does a second finger (land_second): there, or where the first landed or the last stroke
\* left it, which are on the path too.  A press does not if the finger was fast.
GoesBack(w) == {w} \cup {PutBack(w, x) : x \in w.seen \ {w.at}}

\* The pad pressed with a finger on it: what it is set to is held until the pad is bare.
Drags(w, c, fingers, down, mode) ==
    IF c.drag = "none" \/ (w.target # "none" /\ fingers = 0) THEN {DropHold(w)}
    ELSE IF w.target = "none" /\ down /\ fingers > 0 /\ ActsNow(c.drag, mode)
         THEN {HoldBegin([v EXCEPT !.pressStill = c.cursor], c.drag) :
                  v \in (IF c.cursor THEN GoesBack(w) ELSE {w})}
         ELSE {w}
-----------------------------------------------------------------------------
Begins(w, c, fingers) ==
    [w EXCEPT !.max = fingers, !.now = fingers, !.moved = FALSE, !.long = FALSE,
              !.movedCursor = FALSE, !.live = FALSE, !.tail = FALSE,
              !.home = IF c.cursor /\ fingers = 1 THEN w.at ELSE NoSpot]

\* More fingers or fewer; or as many, and they may have gone beyond a tap's slop.
Goes(w, c, fingers) ==
    IF fingers = w.now THEN {w, [w EXCEPT !.moved = TRUE]}
    ELSE {[v EXCEPT !.max = IF fingers > @ THEN fingers ELSE @, !.now = fingers] :
             v \in (IF fingers = 2 /\ c.cursor THEN GoesBack(w) ELSE {w})}

\* 400 ms have gone by since the first finger came.
GrowsLong(w) == {w, [w EXCEPT !.long = TRUE]}

\* The click waits for the pointer, which is put where the tap is to land.
ClickWaits(w, t, x) ==
    [PutBack(w, x) EXCEPT !.click = @ \cup {t}, !.owing = @ + 1, !.aim = x,
                          !.last = t, !.lastAt = x]
ClickNow(w, c, t) ==
    [w EXCEPT !.given = @ \cup {t}, !.last = t, !.lastAt = IF c.cursor THEN w.at ELSE NoSpot]

\* A tap on a mouse button: on the last tap if it is near and soon, back where the finger
\* landed if its roll moved the pointer, or where the pointer is.
TapClicks(w, c, t) ==
    LET Again == (IF c.cursor /\ w.last = t /\ w.home # NoSpot THEN {w.lastAt} ELSE {}) \ {NoSpot}
    IN  {IF w.movedCursor \/ w.at # x THEN ClickWaits(w, t, x) ELSE ClickNow(w, c, t) : x \in Again}
          \cup {IF c.cursor /\ w.home # NoSpot /\ w.movedCursor /\ w.max < 2
                THEN ClickWaits(w, t, w.home) ELSE ClickNow(w, c, t)}

\* The last finger has lifted: a tap if it was short and within the slop.  A tap on anything
\* but a mouse button is a pulse of its own (HeldInput, PadGate).
Ends(w, c) ==
    LET t == IF w.max >= 2 THEN c.two ELSE c.one
        Taps == IF ~w.moved /\ ~w.long /\ t \in Mouse THEN TapClicks(w, c, t)
                ELSE {[w EXCEPT !.last = "none", !.lastAt = NoSpot]}
    IN  {[v EXCEPT !.max = 0, !.now = 0, !.moved = FALSE, !.home = NoSpot, !.pressStill = FALSE,
                   !.tail = FALSE, !.seen = {}] : v \in Taps}

Session(w, c, fingers) ==
    IF w.max = 0 THEN {IF fingers > 0 THEN Begins(w, c, fingers) ELSE w}
    ELSE UNION {IF fingers > 0 THEN Goes(v, c, fingers) ELSE Ends(v, c) : v \in GrowsLong(w)}

\* The pointer's motion is pushed: the pointer is this touch's again.
PushMotion(w) ==
    [w EXCEPT !.box = TRUE, !.movedCursor = TRUE, !.check = FALSE,
              !.aim = IF w.given = {} THEN @ ELSE NoSpot]

\* Still until the finger has clearly moved, while it may be a tap and after a press; then a
\* pixel's worth moves the pointer.
Follows(w, c) ==
    LET Live  == {w, [w EXCEPT !.live = TRUE]}
        Moved == Live \cup {[v EXCEPT !.pressStill = FALSE] : v \in Live}
        Still(v) == v.pressStill \/ ({c.one, c.two} # {"none"} /\ ~v.live /\ ~v.long)
    IN  Moved \cup {PushMotion(v) : v \in {m \in Moved : ~Still(m)}}

\* One finger points: not in its first report, and not after two until it rests or slides on
\* (if the other did not lift in mid-stroke), in a report that moves nothing yet.
Points(w, c, fingers) ==
    IF ~c.cursor \/ fingers # 1 THEN {[w EXCEPT !.tracking = FALSE, !.tail = FALSE]}
    ELSE IF ~w.tracking THEN {[w EXCEPT !.tracking = TRUE, !.tail = FALSE]}
    ELSE IF w.max >= 2 /\ ~w.tail THEN {w, [w EXCEPT !.tail = TRUE]}
    ELSE Follows(w, c)

\* What no later report reads is cleared: of a touch that has ended or is too long for a tap,
\* what it moved and from where; of a pointer that is not looked at again, its place.
Tidy(w) ==
    LET short == w.max > 0 /\ ~w.long
    IN  [w EXCEPT !.moved = @ /\ short, !.movedCursor = @ /\ short, !.live = @ /\ short,
                  !.home = IF short THEN @ ELSE NoSpot, !.long = @ /\ w.max > 0,
                  !.place = IF w.check \/ w.click # {} THEN @ ELSE 0]

AllOff(c) == ~c.cursor /\ ~c.scroll /\ c.one = "none" /\ c.two = "none" /\ c.drag = "none"

\* step: settings, fingers and press of the report, the gate and config mode.
ReportTouch(c, fingers, down, open, mode) ==
    IF AllOff(c) \/ ~open THEN touch' = Reset(touch)
    ELSE \E w \in Waits(touch, fingers) :
            \E x \in Drags(Remembers(w, c, fingers), c, fingers, down, mode) :
               \E y \in Session(x, c, fingers) :
                  \E z \in Points(y, c, fingers) : touch' = Tidy(z)

\* forget: stop of the device; a click that was owed is not made.
ForgetTouch ==
    touch' = [Forgets(DropHold(touch)) EXCEPT !.owing = 0, !.pad = "none",
                 !.aim = IF touch.click = {} THEN @ ELSE NoSpot]

\* The mouse's pump takes what is in the mailbox, and the clicks asked for once its last is
\* up.  Then the pointer moves.
PumpTakes == touch.box /\ touch' = [touch EXCEPT !.box = FALSE, !.moving = TRUE]

PumpMoves ==
    touch.moving /\ \E x \in Spot : touch' = [touch EXCEPT !.at = x, !.moving = FALSE]

PumpClicks ==
    /\ touch.given # {}
    /\ touch' = [touch EXCEPT !.given = {}, !.aim = IF touch.click = {} THEN NoSpot ELSE @]

\* A press matters where something is dragged, and config mode where it would have to wait.
TouchNext ==
    \/ \E c \in TouchSetting, fingers \in 1..2 :
          \E down \in {FALSE, c.drag # "none"} : \E mode \in {FALSE, down /\ c.drag \notin Mouse} :
             ReportTouch(c, fingers, down, TRUE, mode)
    \/ \E c \in TouchSetting, open \in BOOLEAN : ReportTouch(c, 0, FALSE, open, FALSE)
    \/ ForgetTouch \/ PumpTakes \/ PumpMoves \/ PumpClicks
-----------------------------------------------------------------------------
TouchTypeOK ==
    /\ touch.max \in 0..2 /\ touch.now \in 0..2 /\ touch.target \in Target
    /\ touch.click \subseteq Mouse /\ touch.given \subseteq Mouse /\ touch.seen \subseteq Spot
    /\ {touch.home, touch.lastAt, touch.aim} \subseteq Spot \cup {NoSpot}
    /\ touch.at \in Spot /\ touch.place \in Spot /\ {touch.box, touch.moving} \subseteq BOOLEAN
    /\ touch.drag \in Mouse \cup {"none"} /\ touch.key \in {"key", "none"}
    /\ touch.pad \in {"pad", "none"} /\ touch.owing \in Nat

\* What is held for the pad is what its press took and nothing else: a setting changed, a
\* gate closed or a device gone under the finger leaves nothing down.
PressIsLetGo ==
    /\ touch.drag = (IF touch.target \in Mouse THEN touch.target ELSE "none")
    /\ touch.key = (IF touch.target = "key" THEN "key" ELSE "none")
    /\ touch.pad = (IF touch.target = "pad" THEN "pad" ELSE "none")

\* Each tap whose click waits is one click of its own, asked for or still owed: no two in
\* one and none left behind, however soon the next finger lands.
TapsAreClicks == touch.owing = (IF touch.click = {} THEN 0 ELSE 1)

\* When the pump comes to give a click that waited, the pointer is where the tap was to land,
\* whatever was on its way when the finger lifted and whatever finger came next.  Left out
\* are a click asked for, by the next finger or when its time was up, with motion on its way
\* still, and one the pump was so late to give that the hand had moved the pointer since.
ClickLandsOnTap ==
    touch.given # {} /\ touch.click = {} /\ touch.aim # NoSpot => touch.at = touch.aim
=============================================================================
