------------------------------ MODULE PadGate ------------------------------
(***************************************************************************)
(* The last hook on a pad's report: what the game gets of it, and what the *)
(* keyboard and the mouse (src/src/input/rebind.inl, pad_press.inl, osk.inl*)
(* and the part of main.cpp that opens the settings window).  In config    *)
(* mode, and while the settings window is in front, the buttons drive the  *)
(* window as keys and the game gets the pad at rest.                       *)
(*                                                                         *)
(* Four buttons stand for the pad's: Options, the chord's; Square, which   *)
(* opens the keyboard in a text field; Cross, one of kConfigModeKeys; and  *)
(* one that a binding may be set on.                                       *)
(*                                                                         *)
(* Each pad has a thread that brings its reports, one at a time, and the   *)
(* pages' requests have a loop of their own.  They share the mode, the mask*)
(* of what is swallowed and the hold without a lock, so a report is taken  *)
(* from one look at them to the next (`stage`).                            *)
(***************************************************************************)
EXTENDS Naturals, FiniteSets

CONSTANTS GPad, Binding, MaxGateOps     \* bound: changes of pads, windows and settings

Button == {"options", "square", "cross", "bound"}
AnyBinding == {"none", "turbo", "key", "left", "wheel", "osk", "pad"}

ASSUME BindingAssumption == Binding \subseteq AnyBinding

VARIABLES
    press, fingers,              \* by pad, what is down and whether two fingers touch
    taps,                        \* pad_press: Cross, "none", "held" or "tapped"
    lastOptions, passOptions,    \* ChordPad
    squareHeld, edgeHeld, gateEdgeHeld,     \* the static maps of what was down before
    gate,                        \* g_configMode and g_swallowUntilReleased
    gateHold, provisional,       \* g_gateHold; g_gateProvisionalUntil is set
    fromFile, lastFromFile,      \* the file's config_mode, and what was made of it
    front, editing,              \* ctm_ui_has_foreground; g_editingField
    shown, forPage,              \* the overlay keyboard, and whether it was opened for the page
    opening,                     \* ctm_chord_show_ui: "no", "waits", "sets"
    bind, steady,                \* the bound button's binding; a trigger is the gesture's
    game, kb, ms,                \* by pad, what goes out
    stage, rep, mask,            \* by pad: where its report is, what it holds, the mask it saw
    loop,                        \* where a request of the page is: "idle" or its next step
    owed,                        \* history: held back when the gate let go, and down since
    flying, gated,               \* history: of the report on its way, see below
    gateOps

padVars  == <<press, fingers, taps>>
edgeVars == <<lastOptions, passOptions, squareHeld, edgeHeld, gateEdgeHeld>>
modeVars == <<gate, gateHold, provisional, fromFile, lastFromFile, loop>>
uiVars   == <<front, editing, shown, forPage, opening, bind, steady>>
outVars  == <<game, kb, ms>>
wayVars  == <<stage, rep, mask, gated>>
owedVars == <<owed, flying>>
gateVars == <<padVars, edgeVars, modeVars, uiVars, outVars, wayVars, owedVars, gateOps>>

\* A report is nowhere, in a chord's call for the window, at the file's mode, storing it, at
\* the chord's time and its end, at the first look, the mask's load and store, the second
\* look, or on one of its two ways out.
Stage == {"idle", "opens", "file", "on", "off", "timer", "late", "over", "look", "load", "store",
       "again", "gate", "play"}

GateInit ==
    /\ press \in [GPad -> SUBSET Button] /\ fingers = [p \in GPad |-> FALSE]
    /\ taps = [p \in GPad |-> "none"]
    /\ lastOptions = [p \in GPad |-> FALSE] /\ passOptions = lastOptions
    /\ squareHeld = lastOptions /\ edgeHeld = lastOptions /\ gateEdgeHeld = lastOptions
    /\ front \in BOOLEAN /\ gate \in [mode : {FALSE, front}, swallow : {{}}]
    /\ gateHold = FALSE /\ provisional = FALSE /\ fromFile = FALSE /\ lastFromFile = FALSE
    /\ editing \in {FALSE, front} /\ shown = FALSE /\ forPage = FALSE /\ opening = "no"
    /\ bind \in Binding /\ steady \in BOOLEAN
    /\ game = [p \in GPad |-> {}] /\ kb = game /\ ms = [p \in GPad |-> FALSE]
    /\ stage = [p \in GPad |-> "idle"] /\ rep = game /\ mask = game /\ loop = "idle"
    /\ owed = game /\ flying = ms /\ gated = ms /\ gateOps = 0

\* All that is down and that the game does not have is held back from now on; a report that
\* has its mask already is on its way without.
Saw(p) == stage[p] \in {"store", "again", "gate", "play"}
Owes ==
    /\ owed' = [p \in GPad |-> press[p] \ game[p]]
    /\ flying' = [p \in GPad |-> flying[p] \/ Saw(p)]

\* set_config_mode leaves the mode: first the mask, if the mode was on.
Arms ==
    IF gate.mode THEN gate' = [gate EXCEPT !.swallow = Button] /\ Owes
                 ELSE UNCHANGED <<gate, owedVars>>

\* And then the exchange of the mode.  Leaving it lets go of every key the rebinder holds.
Turns(on) ==
    /\ gate' = [gate EXCEPT !.mode = on]
    /\ kb' = IF gate.mode /\ ~on THEN [p \in GPad |-> {}] ELSE kb
    /\ gated' = [p \in GPad |-> gated[p] /\ on]

AnyMouse == bind \in {"left", "wheel"} \/ steady

\* What is sent of Cross for a gesture on the touchpad: pad_press::pressed.
Pressed(p, late) == IF taps[p] = "held" \/ (taps[p] = "tapped" /\ ~late) THEN {"cross"} ELSE {}

\* toggle: a keyboard over the settings window is for a text field only.
Opens(asked) == asked /\ ~(front /\ ~editing)

Shows(asked) ==
    /\ shown' = (shown \/ Opens(asked))
    /\ forPage' = IF Opens(asked) /\ ~shown THEN front ELSE forPage
-----------------------------------------------------------------------------
\* The report is out, or given up.
IsOut(p) ==
    /\ stage' = [stage EXCEPT ![p] = "idle"] /\ rep' = [rep EXCEPT ![p] = {}]
    /\ mask' = [mask EXCEPT ![p] = {}] /\ gated' = [gated EXCEPT ![p] = FALSE]

LeftIsAll(p) == rep[p]

\* What the blanking of what is swallowed leaves of it.
Left(p) == rep[p] \ mask[p]

\* In config mode a bound button of the mouse holds it, and a steadied trigger lets it go.
GatedMouse(p, left) ==
    /\ ms' = IF AnyMouse THEN [ms EXCEPT ![p] = bind = "left" /\ "bound" \in left] ELSE ms
    /\ gateEdgeHeld' = IF bind \in {"osk", "wheel"}
                       THEN [gateEdgeHeld EXCEPT ![p] = "bound" \in left] ELSE gateEdgeHeld

\* apply, the branch of config mode: the report at rest, and its buttons as keys.
Gated(p, left) ==
    LET fresh == "square" \in left /\ ~squareHeld[p]
        edge  == "bound" \in left /\ ~gateEdgeHeld[p]
        keys  == (left \cap {"cross", "square"}) \ (IF editing THEN {"square"} ELSE {})
    IN  /\ game' = [game EXCEPT ![p] = IF passOptions[p] THEN left \cap {"options"} ELSE {}]
        /\ kb' = [kb EXCEPT ![p] = keys] /\ GatedMouse(p, left)
        /\ squareHeld' = [squareHeld EXCEPT ![p] = "square" \in left]
        /\ Shows((fresh /\ editing) \/ (edge /\ bind = "osk"))
        /\ UNCHANGED edgeHeld

\* The main loop: the bound button gives way to its binding.
Active(left, phase) == "bound" \in left /\ (bind = "turbo" => phase)
Passed(left, active) ==
    CASE bind = "none"  -> left
      [] bind = "turbo" -> IF active THEN left ELSE left \ {"bound"}
      [] bind = "pad"   -> (left \ {"bound"}) \cup (IF active THEN {"cross"} ELSE {})
      [] OTHER          -> left \ {"bound"}

\* And the end of it: what the pad, the keyboard and the mouse are given.
Played(p, left, phase, late) ==
    LET active == Active(left, phase)
    IN  /\ game' = [game EXCEPT ![p] = Passed(left, active) \cup Pressed(p, late)]
        /\ kb' = IF bind = "none" THEN kb
                 ELSE [kb EXCEPT ![p] = IF bind = "key" /\ active THEN {"key"} ELSE {}]
        /\ ms' = IF AnyMouse THEN [ms EXCEPT ![p] = bind = "left" /\ active] ELSE ms
        /\ edgeHeld' = IF bind \in {"osk", "wheel"} THEN [edgeHeld EXCEPT ![p] = active] ELSE edgeHeld
        /\ Shows(bind = "osk" /\ active /\ ~edgeHeld[p])
        /\ UNCHANGED <<squareHeld, gateEdgeHeld>>

\* A report comes, unless the overlay has the pad; the chord is two fingers and a fresh
\* Options, and its thread opens the window if no other does.
Arrives(p) ==
    LET shows == /\ fingers[p] /\ "options" \in press[p] /\ ~lastOptions[p] /\ ~gate.mode
        opens == shows /\ opening = "no"
    IN  /\ stage[p] = "idle" /\ ~shown
        /\ lastOptions' = [lastOptions EXCEPT ![p] = "options" \in press[p]]
        /\ passOptions' = [passOptions EXCEPT ![p] = shows \/ (@ /\ "options" \in press[p])]
        /\ opening' = (IF opens THEN "waits" ELSE opening)
        /\ provisional' = (provisional \/ shows) /\ gateHold' = (gateHold /\ ~shows)
        /\ stage' = [stage EXCEPT ![p] = IF opens THEN "opens" ELSE "file"]
        /\ rep' = [rep EXCEPT ![p] = press[p]]
        /\ gated' = [gated EXCEPT ![p] = gate.mode /\ front]
        /\ UNCHANGED <<padVars, squareHeld, edgeHeld, gateEdgeHeld, gate, fromFile, lastFromFile,
                       loop, front, editing, shown, forPage, bind, steady, outVars, mask, owedVars,
                       gateOps>>

\* The file's config_mode, on change only; the hold is looked at here, the mode turned next.
Files(p) ==
    LET changed == fromFile # lastFromFile
    IN  /\ stage[p] = "file" /\ lastFromFile' = fromFile
        /\ IF changed /\ ~fromFile THEN Arms ELSE UNCHANGED <<gate, owedVars>>
        /\ stage' = [stage EXCEPT ![p] = IF changed /\ ~fromFile THEN "off"
                                   ELSE IF changed /\ ~gateHold THEN "on" ELSE "timer"]
        /\ UNCHANGED <<padVars, edgeVars, gateHold, provisional, fromFile, loop, uiVars, outVars,
                       rep, mask, gated, gateOps>>

\* The 4 s of a chord no page answered: the time is taken, then the mode is let go of.
Expires(p) ==
    /\ stage[p] = "timer" /\ provisional /\ provisional' = FALSE
    /\ stage' = [stage EXCEPT ![p] = IF gate.mode THEN "late" ELSE "look"]
    /\ UNCHANGED <<padVars, edgeVars, gate, gateHold, fromFile, lastFromFile, loop, uiVars, outVars,
                   rep, mask, gated, owedVars, gateOps>>

LetsGo(p) ==
    /\ stage[p] = "late" /\ Arms /\ stage' = [stage EXCEPT ![p] = "over"]
    /\ UNCHANGED <<padVars, edgeVars, gateHold, provisional, fromFile, lastFromFile, loop, uiVars,
                   outVars, rep, mask, gated, gateOps>>

\* The exchange, for the file and for the time.
TurnsMode(p) ==
    /\ stage[p] \in {"on", "off", "over"} /\ Turns(stage[p] = "on")
    /\ stage' = [stage EXCEPT ![p] = IF @ = "over" THEN "look" ELSE "timer"]
    /\ UNCHANGED <<padVars, edgeVars, gateHold, provisional, fromFile, lastFromFile, loop, uiVars,
                   game, ms, rep, mask, owedVars, gateOps>>

\* Config mode behind another window: the report goes out as it came.
PassesBy(p) ==
    /\ stage[p] \in {"timer", "look"} /\ gate.mode /\ ~front
    /\ game' = [game EXCEPT ![p] = rep[p]] /\ IsOut(p)
    /\ owed' = [owed EXCEPT ![p] = @ \ rep[p]]
    /\ UNCHANGED <<padVars, edgeVars, modeVars, uiVars, kb, ms, flying, gateOps>>

Looks(p) ==
    /\ stage[p] \in {"timer", "look"} /\ ~(gate.mode /\ ~front) /\ stage' = [stage EXCEPT ![p] = "load"]
    /\ UNCHANGED <<padVars, edgeVars, modeVars, uiVars, outVars, rep, mask, gated, owedVars, gateOps>>

\* What is swallowed is blanked while it is down, and no longer swallowed once it is up.
\* The mask is a plain word that every pad's thread reads and writes.
Loads(p) ==
    /\ stage[p] = "load" /\ mask' = [mask EXCEPT ![p] = gate.swallow]
    /\ stage' = [stage EXCEPT ![p] = IF gate.swallow \subseteq rep[p] THEN "again" ELSE "store"]
    /\ UNCHANGED <<padVars, edgeVars, modeVars, uiVars, outVars, rep, gated, owedVars, gateOps>>

\* The word may be kept in a register from the load on, or loaded anew for each bit.
Stores(p) ==
    /\ stage[p] = "store" /\ stage' = [stage EXCEPT ![p] = "again"]
    /\ \E now \in {mask[p] \cap rep[p], gate.swallow \ (mask[p] \ rep[p])} :
          /\ gate' = [gate EXCEPT !.swallow = now]
          /\ owed' = [q \in GPad |-> owed[q] \cap now]
    /\ UNCHANGED <<padVars, edgeVars, gateHold, provisional, fromFile, lastFromFile, loop, uiVars,
                   outVars, rep, mask, gated, flying, gateOps>>

\* The second look at the mode, and the two ways out.
LooksAgain(p) ==
    /\ stage[p] = "again" /\ stage' = [stage EXCEPT ![p] = IF gate.mode THEN "gate" ELSE "play"]
    /\ UNCHANGED <<padVars, edgeVars, modeVars, uiVars, outVars, rep, mask, gated, owedVars, gateOps>>

\* A report that had its mask before the gate let go brings what is held all the same.
Brings(p) ==
    /\ IsOut(p) /\ flying' = [flying EXCEPT ![p] = FALSE]
    /\ owed' = IF flying[p] THEN [owed EXCEPT ![p] = @ \ rep[p]] ELSE owed
    /\ UNCHANGED <<press, fingers, lastOptions, passOptions, modeVars, front, editing, opening,
                   bind, steady, gateOps>>

Drives(p) == stage[p] = "gate" /\ Gated(p, Left(p)) /\ Brings(p) /\ UNCHANGED taps

Plays(p, phase, late) ==
    /\ stage[p] = "play" /\ Played(p, Left(p), phase, late) /\ Brings(p)
    /\ taps' = [taps EXCEPT ![p] = IF @ = "tapped" /\ late THEN "none" ELSE @]

\* handle_report of the overlay comes first: it has the pad while it is up.
OverlayTakes(p, typed) ==
    /\ stage[p] = "idle" /\ shown
    /\ game' = [game EXCEPT ![p] = {}] /\ kb' = [kb EXCEPT ![p] = typed]
    /\ UNCHANGED <<padVars, edgeVars, modeVars, uiVars, ms, wayVars, owedVars, gateOps>>
-----------------------------------------------------------------------------
Changes == gateOps < MaxGateOps /\ gateOps' = gateOps + 1

\* The person: a button, the two fingers, and a gesture's press, tap or release.
Moves(p, down, two, tap) ==
    /\ Changes
    /\ press' = [press EXCEPT ![p] = down] /\ fingers' = [fingers EXCEPT ![p] = two]
    /\ taps' = [taps EXCEPT ![p] = tap]
    /\ owed' = [owed EXCEPT ![p] = @ \cap down]
    /\ UNCHANGED <<edgeVars, modeVars, uiVars, outVars, wayVars, flying>>

PressesOrLifts(p) ==
    \E b \in Button : Moves(p, IF b \in press[p] THEN press[p] \ {b} ELSE press[p] \cup {b},
                           fingers[p], taps[p])
Touches(p) ==
    \/ Moves(p, press[p], ~fingers[p], taps[p])
    \/ \E tap \in {"none", "held", "tapped"} \ {taps[p]} : Moves(p, press[p], fingers[p], tap)

\* hide: the swallow, and the keys of every pad that typed.
Hides ==
    /\ shown' = FALSE /\ gate' = [gate EXCEPT !.swallow = Button] /\ Owes
    /\ kb' = [p \in GPad |-> {}]

OverlayHides ==
    /\ shown /\ Hides
    /\ UNCHANGED <<padVars, edgeVars, gateHold, provisional, fromFile, lastFromFile, loop,
                   front, editing, forPage, opening, bind, steady, game, ms, wayVars, gateOps>>

\* ui/focus and ui/closed, for a page that gains the focus or loses it.
PageFocus(on) ==
    /\ Changes /\ loop = "idle" /\ provisional' = (provisional /\ ~on)
    /\ IF on THEN UNCHANGED <<gate, owedVars>> ELSE Arms
    /\ loop' = (IF ~on THEN "off" ELSE IF gateHold THEN "idle" ELSE "on")
    /\ UNCHANGED <<padVars, edgeVars, gateHold, fromFile, lastFromFile, uiVars, outVars, wayVars>>

\* set_gate_hold from the page: release at once.
HoldOff(hold) ==
    /\ Changes /\ loop = "idle" /\ hold # gateHold /\ gateHold' = hold
    /\ IF hold THEN Arms /\ loop' = "free" ELSE UNCHANGED <<gate, loop, owedVars>>
    /\ UNCHANGED <<padVars, edgeVars, provisional, fromFile, lastFromFile, uiVars, outVars, wayVars>>

\* The request goes on: the exchange, and after a blur the field is left and the keyboard
\* opened for the page goes with it.
LoopTurns ==
    /\ loop \in {"on", "off", "free"} /\ Turns(loop = "on")
    /\ loop' = (IF loop = "off" THEN "blurs" ELSE "idle")
    /\ UNCHANGED <<padVars, edgeVars, gateHold, provisional, fromFile, lastFromFile, uiVars, game, ms,
                   stage, rep, mask, owedVars, gateOps>>

Blurs ==
    /\ loop = "blurs" /\ loop' = "idle" /\ editing' = FALSE
    /\ IF shown /\ forPage THEN Hides ELSE UNCHANGED <<shown, gate, kb, owedVars>>
    /\ UNCHANGED <<padVars, edgeVars, gateHold, provisional, fromFile, lastFromFile, front, forPage,
                   opening, bind, steady, game, ms, wayVars, gateOps>>

\* ctm_chord_show_ui from elsewhere; while one is opening it only retargets.
ShowUi ==
    /\ Changes /\ gateHold' = FALSE
    /\ opening' = IF opening = "no" THEN "waits" ELSE opening
    /\ UNCHANGED <<padVars, edgeVars, gate, provisional, fromFile, lastFromFile, loop,
                   front, editing, shown, forPage, bind, steady, outVars, wayVars, owedVars>>

\* It waits for the old window, looks at the hold, and turns the mode on: two steps, after
\* which a chord's report goes on.
Opened == stage' = [p \in GPad |-> IF stage[p] = "opens" THEN "file" ELSE stage[p]]

UiLooks ==
    /\ opening = "waits" /\ opening' = IF gateHold THEN "no" ELSE "sets"
    /\ IF gateHold THEN Opened ELSE UNCHANGED stage
    /\ UNCHANGED <<padVars, edgeVars, modeVars, front, editing, shown, forPage, bind, steady,
                   outVars, rep, mask, gated, owedVars, gateOps>>

UiSets ==
    /\ opening = "sets" /\ opening' = "no" /\ Turns(TRUE) /\ Opened
    /\ UNCHANGED <<padVars, edgeVars, gateHold, provisional, fromFile, lastFromFile, loop,
                   front, editing, shown, forPage, bind, steady, game, ms, rep, mask, owedVars,
                   gateOps>>

\* The window comes forward or goes back, a field is entered or left, a file is edited.
Elsewhere(f, e, file) ==
    /\ Changes /\ front' = f /\ editing' = e /\ fromFile' = file
    /\ gated' = [p \in GPad |-> gated[p] /\ f]
    /\ UNCHANGED <<padVars, edgeVars, gate, gateHold, provisional, lastFromFile, loop,
                   shown, forPage, opening, bind, steady, outVars, stage, rep, mask, owedVars>>

Rebinds(b, s) ==
    /\ Changes /\ <<b, s>> # <<bind, steady>> /\ bind' = b /\ steady' = s
    /\ UNCHANGED <<padVars, edgeVars, modeVars, front, editing, shown, forPage, opening, outVars,
                   wayVars, owedVars>>

\* rebind_forget_pad and the forgetting of its keys and buttons: the pad is gone, after the
\* thread of its reports.
ForgetPad(p) ==
    /\ Changes /\ stage[p] = "idle"
    /\ press' = [press EXCEPT ![p] = {}] /\ fingers' = [fingers EXCEPT ![p] = FALSE]
    /\ taps' = [taps EXCEPT ![p] = "none"] /\ owed' = [owed EXCEPT ![p] = {}]
    /\ lastOptions' = [lastOptions EXCEPT ![p] = FALSE]
    /\ passOptions' = [passOptions EXCEPT ![p] = FALSE]
    /\ game' = [game EXCEPT ![p] = {}] /\ kb' = [kb EXCEPT ![p] = {}]
    /\ ms' = [ms EXCEPT ![p] = FALSE]
    /\ UNCHANGED <<squareHeld, edgeHeld, gateEdgeHeld, modeVars, uiVars, wayVars, flying>>
-----------------------------------------------------------------------------
ReportSteps(p) ==
    \/ Arrives(p) \/ Files(p) \/ Expires(p) \/ LetsGo(p) \/ TurnsMode(p)
    \/ PassesBy(p) \/ Looks(p) \/ Loads(p) \/ Stores(p) \/ LooksAgain(p)
    \/ Drives(p) \/ \E phase, late \in BOOLEAN : Plays(p, phase, late)

GateNext ==
    \/ \E p \in GPad : ReportSteps(p) \/ ForgetPad(p) \/ PressesOrLifts(p) \/ Touches(p)
    \/ \E p \in GPad, typed \in {{}, {"osk"}} : OverlayTakes(p, typed)
    \/ OverlayHides \/ LoopTurns \/ Blurs \/ ShowUi \/ UiLooks \/ UiSets
    \/ \E on \in BOOLEAN : PageFocus(on) \/ HoldOff(on)
    \/ Elsewhere(~front, editing, fromFile) \/ Elsewhere(front, ~editing, fromFile)
    \/ Elsewhere(front, editing, ~fromFile) \/ \E b \in Binding, s \in BOOLEAN : Rebinds(b, s)

GateTypeOK ==
    /\ {press, game, rep, mask, owed} \subseteq [GPad -> SUBSET Button]
    /\ {fingers, lastOptions, passOptions, squareHeld, edgeHeld, gateEdgeHeld, ms, flying, gated}
         \subseteq [GPad -> BOOLEAN]
    /\ taps \in [GPad -> {"none", "held", "tapped"}] /\ stage \in [GPad -> Stage]
    /\ gate \in [mode : BOOLEAN, swallow : SUBSET Button]
    /\ {gateHold, provisional, fromFile, lastFromFile, front, editing, shown, forPage, steady}
         \subseteq BOOLEAN
    /\ opening \in {"no", "waits", "sets"} /\ loop \in {"idle", "on", "off", "free", "blurs"}
    /\ bind \in Binding /\ kb \in [GPad -> SUBSET {"cross", "square", "key", "osk"}]

\* A button that was down, and held back, when the gate or the overlay let go does not
\* reach the game until it has been let go of.  Cross, which a binding or a gesture may
\* press as well, is left out.  So is (in `owed`) what the code lets through: a bit of the
\* mask that the report of another pad, or one that is older, has cleared; a report that had
\* its mask when the gate let go; and one that goes by behind another window.
HeldStaysAway == \A p \in GPad : owed[p] \cap game[p] \subseteq {"cross"}

\* A report that comes in config mode with the window in front, and is through before either
\* ends, gives the game nothing but the Options of the chord itself, whatever the other pads,
\* the page, the file and the time of the chord do to the mode meanwhile.
GateKeepsGame ==
    [][\A p \in GPad : gated[p] /\ stage[p] # "idle" /\ stage'[p] = "idle" =>
         game'[p] \subseteq (IF passOptions[p] THEN {"options"} ELSE {})]_gateVars

\* "Nothing turns the gate on while it is held off": the look and the store are two steps.
HoldBeatsMode == gateHold /\ loop = "idle" => ~gate.mode

\* "Release everything on the way out": no key of the window is down once the mode is off and
\* every report through.  One on its way to its keys presses them after the release.
KeysGoWithMode ==
    ~gate.mode /\ (\A p \in GPad : stage[p] = "idle") =>
        \A p \in GPad : kb[p] \cap {"cross", "square"} = {}

=============================================================================
