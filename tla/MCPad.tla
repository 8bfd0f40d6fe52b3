------------------------------- MODULE MCPad -------------------------------
(* An instance for TLC of what a pad does on this computer beside playing:     *)
(* HeldInput, PadGate, TriggerClick, TouchMouse, Pointer and Overlay.  They     *)
(* meet in the slots HeldInput models and in nothing else, so `part` has one   *)
(* of them move and saves their product.                                       *)
EXTENDS HeldInput, PadGate, TriggerClick, TouchMouse, Pointer, Overlay, TLC

\* A side that is a mouse button behind a wall, one that is a key, and one that is nothing.
TriggerSettings ==
    {[bound |-> "none", steady |-> "off", shape |-> "none"],
     [bound |-> "mouse", steady |-> "before_press", shape |-> "wall"],
     [bound |-> "key", steady |-> "after_press", shape |-> "none"]}

\* A pad that points, taps, scrolls and drags, one whose press is a button of the pad, and
\* one that only scrolls; all of them may be in force during one touch.
TouchSettings ==
    {[cursor |-> TRUE, scroll |-> TRUE, one |-> "left", two |-> "none", drag |-> "left"],
     [cursor |-> FALSE, scroll |-> FALSE, one |-> "none", two |-> "none", drag |-> "pad"],
     [cursor |-> FALSE, scroll |-> TRUE, one |-> "none", two |-> "none", drag |-> "none"]}

AnyOf(S) == CHOOSE x \in S : TRUE

VARIABLE part

padAll == <<heldVars, gateVars, trigVars, touch, pointVars, overVars, part>>

\* A part that does not move starts in one way only.
PadInit ==
    /\ part \in {"held", "gate", "trigger", "touch", "pointer", "overlay"}
    /\ HeldInit /\ GateInit /\ TrigInit /\ TouchInit /\ PointInit /\ OverInit
    /\ bind = AnyOf(Binding) /\ ~steady
    /\ press = [p \in GPad |-> IF part = "gate" /\ p = AnyOf(GPad) THEN {"options"} ELSE {}]
    /\ gate.mode = front /\ editing = front
    /\ part # "gate" => ~front
    /\ part # "trigger" => \A s \in Side : setting[s] = AnyOf(Setting)

InHeld(A) == part = "held" /\ A
             /\ UNCHANGED <<gateVars, trigVars, touch, pointVars, overVars, part>>
InGate(A) == part = "gate" /\ A
             /\ UNCHANGED <<heldVars, trigVars, touch, pointVars, overVars, part>>
InTrigger(A) == part = "trigger" /\ A
                /\ UNCHANGED <<heldVars, gateVars, touch, pointVars, overVars, part>>
InTouch(A) == part = "touch" /\ A
              /\ UNCHANGED <<heldVars, gateVars, trigVars, pointVars, overVars, part>>
InPointer(A) == part = "pointer" /\ A
                /\ UNCHANGED <<heldVars, gateVars, trigVars, touch, overVars, part>>
InOverlay(A) == part = "overlay" /\ A
                /\ UNCHANGED <<heldVars, gateVars, trigVars, touch, pointVars, part>>

PadNext ==
    \/ InHeld(HeldNext) \/ InGate(GateNext) \/ InTrigger(TrigNext)
    \/ InTouch(TouchNext) \/ InPointer(PointNext) \/ InOverlay(OverNext)

\* The pumps run, a pad that is there goes on reporting, and time passes.
PadSpec ==
    /\ PadInit /\ [][PadNext]_padAll
    /\ WF_padAll(InHeld(MouseSteps)) /\ SF_padAll(InHeld(MouseReads(TRUE)))
    /\ WF_padAll(InHeld(KbdSteps)) /\ SF_padAll(InHeld(KbdPulse(TRUE)))
    /\ WF_padAll(InHeld(SetStateZero))
    /\ WF_padAll(InTrigger(ReportTrigger)) /\ \A s \in Side : WF_padAll(InTrigger(Ages(s)))
    /\ WF_padAll(InPointer(Drain)) /\ WF_padAll(InPointer(Wheel))

PadTypeOK ==
    HeldTypeOK /\ GateTypeOK /\ TrigTypeOK /\ TouchTypeOK /\ PointTypeOK /\ OverTypeOK

\* What the pads hold on the computer is held by a pad that is there and by something that
\* is down: a trigger, a press of the touchpad, a key.
NothingStaysDown == KeysAreHeld /\ NothingLeftBehind /\ PressIsLetGo

\* The state of each part is well-formed, and a keyboard that says it is up has a thread
\* that makes it so or says it is not.
PadHolds == PadTypeOK /\ KeyboardAnswers

\* What a pad does to the window is not the game's, and what is typed for a pad is its own: no
\* step of another pad, of the page or of the halo that all share makes it otherwise.
EachToItsOwn == GateKeepsGame /\ KeyStays

\* What the touchpad and the triggers do to the pointer is what the hand did: taps are clicks
\* and land where the finger tapped, motion is not lost, and a drag goes on until it ends.
HandHolds == [](TapsAreClicks /\ ClickLandsOnTap /\ MotionIsKept) /\ DragHolds

\* When the fingers rest, what the computer has been told comes to rest with them.
EverythingSettles ==
    HostCatchesUp /\ PointerIsFreed /\ PointerSettles
=============================================================================
