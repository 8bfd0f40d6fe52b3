----------------------------- MODULE HeldInput -----------------------------
(***************************************************************************)
(* What the pads hold on the computer's one mouse and one keyboard         *)
(* (src/src/input/mouse_held.inl, mouse_device.inl, keyboard_device.inl,   *)
(* key_pulse.inl).  Every writer has a slot of its own by pad and level,   *)
(* replaces it whole, and the union is published; a pump thread for each   *)
(* device sends what is published to the host.                             *)
(*                                                                         *)
(* Modifiers are keys like the others.  A timer either has run out or has  *)
(* not when it is looked at.  How far the pointer moves or the wheel turns *)
(* is left out: only that it does.                                         *)
(***************************************************************************)
EXTENDS Naturals, Sequences, FiniteSets

CONSTANTS MaxPad,      \* pads, in the order of their map keys
          MouseButton,
          MaxUsage,    \* keys, in the order a slot lists them
          MaxKeys,     \* kMaxKeys: six, what a boot keyboard carries
          MaxWaiting,  \* key_pulse: kMaxWaiting
          MaxHeldOps   \* bound: calls of the writers

ASSUME HeldAssumption ==
    /\ MaxPad \in Nat /\ MaxUsage \in Nat /\ MaxKeys \in Nat
    /\ MaxWaiting \in Nat /\ MaxHeldOps \in Nat

HeldPad   == 1..MaxPad
HeldKey   == 1..MaxUsage
HeldLevel == {"rebind", "drag", "trigger"}      \* mouse_held: Level
Table     == 0..2                               \* g_perDevice, g_triggerHeld, g_touchHeld

VARIABLES
    here,                          \* by pad: "in", "going" (stop between two forgets), "gone"
    held, clicks, spun,            \* g_held; g_clickPending; wheel or mailbox not empty
    mouse, clickDown, lastSent, hostMouse,  \* its pump, and what the host was told
    wanted,                        \* what a pass has read and not yet sent
    tables, waiting, down, keys, dirty,  \* slots, g_pulses, g_keys, g_dirty
    kbd, hostKeys,                 \* its pump, and what the host was told
    letGo,                         \* release_all: "idle", or between its two halves
    heldOps

mouseVars == <<held, clicks, spun, mouse, clickDown, lastSent, hostMouse, wanted>>
slotVars  == <<tables, keys, dirty>>
pumpVars  == <<waiting, down, kbd, hostKeys>>
heldVars  == <<here, mouseVars, slotVars, pumpVars, letGo, heldOps>>

Combined(h) == UNION {h[p][l] : p \in HeldPad, l \in HeldLevel}

\* The first keys in the order of table, pad and slot, and the tapped one if it fits.
Merged(t, tap) ==
    LET all       == {a \in Table \X HeldPad \X HeldKey : a[3] \in t[a[1]][a[2]]}
        Before(a, b) == \/ a[1] < b[1]
                        \/ a[1] = b[1] /\ a[2] < b[2]
                        \/ a[1] = b[1] /\ a[2] = b[2] /\ a[3] < b[3]
        first(k)  == CHOOSE a \in all : a[3] = k /\ \A b \in all : b[3] = k => ~Before(b, a)
        down_     == {a[3] : a \in all}
        kept      == {k \in down_ :
                        Cardinality({j \in down_ : Before(first(j), first(k))}) < MaxKeys}
    IN  IF Cardinality(kept) < MaxKeys THEN kept \cup tap ELSE kept

HeldInit ==
    /\ here = [p \in HeldPad |-> "in"]
    /\ held = [p \in HeldPad |-> [l \in HeldLevel |-> {}]]
    /\ clicks = {} /\ spun = FALSE
    /\ mouse = "off" /\ clickDown = {} /\ lastSent = {} /\ hostMouse = {} /\ wanted = {}
    /\ tables = [t \in Table |-> [p \in HeldPad |-> {}]]
    /\ waiting = <<>> /\ down = {} /\ keys = {} /\ dirty = FALSE
    /\ kbd = "off" /\ hostKeys = {} /\ letGo = "idle" /\ heldOps = 0

Calls == heldOps < MaxHeldOps /\ heldOps' = heldOps + 1
-----------------------------------------------------------------------------
(* The writers: a live pad's input thread. *)

\* set_buttons_for, set_drag_for, set_trigger_buttons_for.
SetButtons(p, l, m) ==
    /\ Calls /\ here[p] = "in" /\ held' = [held EXCEPT ![p][l] = m]
    /\ UNCHANGED <<here, clicks, spun, mouse, clickDown, lastSent, hostMouse, wanted,
                   slotVars, pumpVars, letGo>>

\* add_click, and add_wheel or the pointer's mailbox.
AddClick(m) ==
    /\ Calls /\ clicks' = clicks \cup m
    /\ UNCHANGED <<here, held, spun, mouse, clickDown, lastSent, hostMouse, wanted,
                   slotVars, pumpVars, letGo>>

Spins ==
    /\ Calls /\ spun' = TRUE
    /\ UNCHANGED <<here, held, clicks, mouse, clickDown, lastSent, hostMouse, wanted,
                   slotVars, pumpVars, letGo>>

\* set_state_locked_from_devices, on the tables t and the tapped key.
Publish(t, tap) ==
    /\ tables' = t /\ keys' = Merged(t, tap)
    /\ dirty' = (dirty \/ keys' # keys)

\* set_state_for, set_trigger_keys_for, set_touch_keys_for.
SetKeys(t, p, ks) ==
    /\ Calls /\ here[p] = "in" /\ Publish([tables EXCEPT ![t][p] = ks], down)
    /\ UNCHANGED <<here, mouseVars, pumpVars, letGo>>

PulseKey(k) ==
    /\ Calls
    /\ waiting' = IF Len(waiting) < MaxWaiting THEN Append(waiting, k) ELSE waiting
    /\ UNCHANGED <<here, mouseVars, slotVars, down, kbd, hostKeys, letGo>>

\* stop of a device forgets its keys, then its buttons.
ForgetKeysTwoLevels(p) ==
    /\ here[p] = "in" /\ here' = [here EXCEPT ![p] = "going"]
    /\ Publish([tables EXCEPT ![0][p] = {}, ![2][p] = {}], down)
    /\ UNCHANGED <<mouseVars, pumpVars, letGo, heldOps>>

ForgetKeys(p) ==
    /\ here[p] = "in" /\ here' = [here EXCEPT ![p] = "going"]
    /\ Publish([t \in Table |-> [tables[t] EXCEPT ![p] = {}]], down)
    /\ UNCHANGED <<mouseVars, pumpVars, letGo, heldOps>>

ForgetButtons(p) ==
    /\ here[p] = "going" /\ here' = [here EXCEPT ![p] = "gone"]
    /\ held' = [held EXCEPT ![p] = [l \in HeldLevel |-> {}]]
    /\ UNCHANGED <<clicks, spun, mouse, clickDown, lastSent, hostMouse, wanted,
                   slotVars, pumpVars, letGo, heldOps>>

\* release_all: the rebinder's table under the lock, then set_state(0) under it again.
ReleaseAll ==
    /\ letGo = "idle" /\ Calls /\ letGo' = "cleared"
    /\ tables' = [tables EXCEPT ![0] = [p \in HeldPad |-> {}]]
    /\ UNCHANGED <<here, mouseVars, keys, dirty, pumpVars>>

SetStateZero ==
    /\ letGo = "cleared" /\ letGo' = "idle"
    /\ keys' = {} /\ dirty' = (dirty \/ keys # {})
    /\ UNCHANGED <<here, mouseVars, tables, pumpVars, heldOps>>
-----------------------------------------------------------------------------
(* The mouse's pump: pump_loop, ensure_started and stop. *)
MouseUnchanged == UNCHANGED <<here, held, slotVars, pumpVars, letGo, heldOps>>

MouseStarts ==
    /\ mouse = "off" /\ mouse' = "loop"
    /\ MouseUnchanged /\ UNCHANGED <<clicks, spun, clickDown, lastSent, hostMouse, wanted>>

\* A click that is down comes up, late, before the next is taken.
MouseReads(late) ==
    /\ mouse = "loop" /\ mouse' = (IF spun THEN "moves" ELSE "reads")
    /\ clickDown' = IF clickDown = {} THEN clicks ELSE IF late THEN {} ELSE clickDown
    /\ clicks' = IF clickDown = {} THEN {} ELSE clicks
    /\ wanted' = Combined(held) \cup clickDown' /\ spun' = FALSE
    /\ MouseUnchanged /\ UNCHANGED <<lastSent, hostMouse>>

MouseSends ==
    /\ mouse \in {"reads", "moves"} /\ mouse' = "loop"
    /\ IF mouse = "moves" \/ wanted # lastSent
       THEN hostMouse' = wanted /\ lastSent' = wanted
       ELSE UNCHANGED <<hostMouse, lastSent>>
    /\ MouseUnchanged /\ UNCHANGED <<clicks, spun, clickDown, wanted>>

\* stop clears the flag; the pump lets go of every button as it leaves.
MouseStops ==
    /\ mouse = "loop" /\ \A p \in HeldPad : here[p] = "gone"
    /\ mouse' = "ended" /\ hostMouse' = {}
    /\ MouseUnchanged /\ UNCHANGED <<clicks, spun, clickDown, lastSent, wanted>>
-----------------------------------------------------------------------------
(* The keyboard's. *)
KbdUnchanged == UNCHANGED <<here, mouseVars, letGo, heldOps>>

KbdStarts ==
    /\ kbd = "off" /\ kbd' = "step"
    /\ KbdUnchanged /\ UNCHANGED <<slotVars, waiting, down, hostKeys>>

\* Pulses::step: the key that is down comes up, or the next goes down.
KbdPulse(late) ==
    /\ kbd = "step" /\ KbdUnchanged /\ UNCHANGED <<slotVars, hostKeys>>
    /\ IF ~late \/ (down = {} /\ waiting = <<>>)
       THEN kbd' = "check" /\ UNCHANGED <<waiting, down>>
       ELSE /\ kbd' = "merge"
            /\ down' = IF down # {} THEN {} ELSE {Head(waiting)}
            /\ waiting' = IF down # {} THEN waiting ELSE Tail(waiting)

KbdMerge ==
    /\ kbd = "merge" /\ kbd' = "check" /\ Publish(tables, down)
    /\ KbdUnchanged /\ UNCHANGED <<waiting, down, hostKeys>>

\* g_dirty is exchanged before the state is read.
KbdChecks ==
    /\ kbd = "check" /\ kbd' = (IF dirty THEN "send" ELSE "step") /\ dirty' = FALSE
    /\ KbdUnchanged /\ UNCHANGED <<tables, keys, waiting, down, hostKeys>>

KbdSends ==
    /\ kbd = "send" /\ kbd' = "step" /\ hostKeys' = keys
    /\ KbdUnchanged /\ UNCHANGED <<slotVars, waiting, down>>

KbdStops ==
    /\ kbd = "step" /\ \A p \in HeldPad : here[p] = "gone"
    /\ kbd' = "ended" /\ waiting' = <<>> /\ down' = {}
    /\ KbdUnchanged /\ UNCHANGED <<slotVars, hostKeys>>
-----------------------------------------------------------------------------
MouseSteps == (\E late \in BOOLEAN : MouseReads(late)) \/ MouseSends
KbdSteps   == (\E late \in BOOLEAN : KbdPulse(late)) \/ KbdMerge \/ KbdChecks \/ KbdSends

HeldWriters ==
    \/ \E p \in HeldPad, l \in HeldLevel, m \in SUBSET MouseButton : SetButtons(p, l, m)
    \/ \E m \in SUBSET MouseButton \ {{}} : AddClick(m)
    \/ Spins
    \/ \E t \in Table, p \in HeldPad, ks \in SUBSET HeldKey : SetKeys(t, p, ks)
    \/ \E k \in HeldKey : PulseKey(k)
    \/ \E p \in HeldPad : ForgetKeys(p) \/ ForgetButtons(p)
    \/ ReleaseAll \/ SetStateZero

HeldNext ==
    \/ HeldWriters \/ MouseStarts \/ MouseSteps \/ MouseStops
    \/ KbdStarts \/ KbdSteps \/ KbdStops

-----------------------------------------------------------------------------
HeldTypeOK ==
    /\ here \in [HeldPad -> {"in", "going", "gone"}]
    /\ held \in [HeldPad -> [HeldLevel -> SUBSET MouseButton]]
    /\ {clicks, clickDown, lastSent, hostMouse, wanted} \subseteq SUBSET MouseButton
    /\ {spun, dirty} \subseteq BOOLEAN
    /\ mouse \in {"off", "loop", "reads", "moves", "ended"}
    /\ tables \in [Table -> [HeldPad -> SUBSET HeldKey]]
    /\ waiting \in Seq(HeldKey) /\ Len(waiting) <= MaxWaiting
    /\ {down, keys, hostKeys} \subseteq SUBSET HeldKey /\ Cardinality(keys) <= MaxKeys
    /\ kbd \in {"off", "step", "merge", "check", "send", "ended"}
    /\ letGo \in {"idle", "cleared"} /\ heldOps \in 0..MaxHeldOps

\* A key is down on the shared keyboard only while a live pad holds it or a tap has it
\* down (keyboard_device.inl: one table forgotten and it repeats for ever).
KeysAreHeld ==
    kbd \notin {"merge", "ended"} /\ letGo = "idle" =>
        keys \subseteq down \cup UNION {tables[t][p] : t \in Table, p \in {q \in HeldPad : here[q] = "in"}}

\* Once the writers are quiet the host is told exactly what is held, and nothing when the
\* mouse has gone: no report that mattered was the one not sent.
HostCatchesUp ==
    <>[](/\ mouse \in {"loop", "reads", "moves"} => hostMouse = Combined(held)
         /\ mouse = "ended" => hostMouse = {}
         /\ kbd \in {"step", "check"} => hostKeys = keys /\ down = {})
=============================================================================
