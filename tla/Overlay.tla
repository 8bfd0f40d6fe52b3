------------------------------ MODULE Overlay ------------------------------
(***************************************************************************)
(* The on-screen keyboard (src/src/app/overlay_window.inl): its window,    *)
(* made and taken down by a thread of its own, and what the pads and the   *)
(* mouse type on it.  One halo and one set of latches serve all the pads,  *)
(* and every pad has its edges, its key and its shoulders.                 *)
(*                                                                         *)
(* Of the keys two type, the others are latches, and one hides the         *)
(* keyboard.  Where a key lies, what it shows and where the window stands  *)
(* are left out.  A report is one step.                                    *)
(***************************************************************************)
EXTENDS Naturals, FiniteSets

CONSTANTS OPad,
          Latch,        \* modifiers that latch: some of "ctrl" and "shift"
          MaxShows,     \* bound: windows made
          MaxTyped      \* bound: what the person does

ASSUME OverlayAssumption ==
    /\ Latch \subseteq {"ctrl", "shift"} /\ "mouse" \notin OPad
    /\ MaxShows \in Nat /\ MaxTyped \in Nat

Windows == 1..MaxShows
Key    == {"a", "b"}
Halo   == Key \cup Latch \cup {"hide"}
Who    == OPad \cup {"mouse"}
Btn    == {"cross", "circle", "face", "l1"}
Typed  == [usage : Key \cup {"none", "face"}, mods : SUBSET {"ctrl", "shift"}]
Nothing == [usage |-> "none", mods |-> {}]

VARIABLES
    running, hwnd,           \* g_running; g_hwnd, 0 for none
    threads, posted,         \* thread_main of each show; windows with a WM_CLOSE waiting
    btn,                     \* by pad, what is down
    edges, armed, layers,    \* g_padPrev, g_closeArmedFor, g_layersHeldFor's L1
    shiftHeld, halo,         \* g_shiftHeld; g_row and g_col
    latch, latchUsed,        \* g_mods, g_latchUsed
    tapMod, tapFrames, sentLast,
    heldKey,                 \* heldKeyFor
    out,                     \* the rebinder's slot of the keyboard: what is typed for whom
    shows, typed             \* counts against the bounds

windowVars == <<running, hwnd, threads, posted, shows>>
padKeyVars == <<edges, armed, layers, heldKey>>
latchVars  == <<latch, latchUsed, tapMod, tapFrames, sentLast>>
overVars   == <<windowVars, btn, padKeyVars, shiftHeld, halo, latchVars, out, typed>>

Visible == running /\ hwnd # 0

OverInit ==
    /\ running = FALSE /\ hwnd = 0 /\ threads = [t \in Windows |-> "none"] /\ posted = {}
    /\ btn = [p \in OPad |-> {}] /\ edges = btn
    /\ armed = [p \in OPad |-> FALSE] /\ layers = armed /\ heldKey = [p \in OPad |-> "none"]
    /\ shiftHeld = FALSE /\ halo = "a" /\ latch = [m \in Latch |-> "off"] /\ latchUsed = FALSE
    /\ tapMod = "none" /\ tapFrames = 0 /\ sentLast = FALSE
    /\ out = [w \in Who |-> Nothing] /\ shows = 0 /\ typed = 0
-----------------------------------------------------------------------------
(* The window. *)

\* show: the press that opened it is not to type, on any pad, even when it is up already.
Show ==
    /\ armed' = [p \in OPad |-> FALSE]
    /\ IF running THEN UNCHANGED <<running, threads, shows>>
       ELSE /\ shows < MaxShows /\ shows' = shows + 1 /\ running' = TRUE
            /\ threads' = [threads EXCEPT ![shows'] = "made"]
    /\ UNCHANGED <<btn, hwnd, posted, edges, layers, heldKey, shiftHeld, halo, latchVars, out, typed>>

WindowFailsQuietly(t) ==
    /\ threads[t] = "made" /\ threads' = [threads EXCEPT ![t] = "ended"] /\ hwnd' = 0
    /\ UNCHANGED <<running, posted, shows, btn, padKeyVars, shiftHeld, halo, latchVars, out, typed>>

\* thread_main: CreateWindowEx, which may fail.
WindowFails(t) ==
    /\ threads[t] = "made" /\ threads' = [threads EXCEPT ![t] = "ended"]
    /\ hwnd' = 0 /\ running' = FALSE
    /\ UNCHANGED <<posted, shows, btn, padKeyVars, shiftHeld, halo, latchVars, out, typed>>

WindowComes(t) ==
    /\ threads[t] = "made" /\ threads' = [threads EXCEPT ![t] = "loops"] /\ hwnd' = t
    /\ UNCHANGED <<running, posted, shows, btn, padKeyVars, shiftHeld, halo, latchVars, out, typed>>

\* The loop: it looks at g_running between two messages; a close destroys the window.
ThreadLeaves(t) ==
    /\ threads[t] = "loops" /\ (~running \/ t \in posted)
    /\ threads' = [threads EXCEPT ![t] = "leaves"] /\ posted' = posted \ {t}
    /\ hwnd' = (IF t \in posted THEN 0 ELSE hwnd)
    /\ UNCHANGED <<running, shows, btn, padKeyVars, shiftHeld, halo, latchVars, out, typed>>

\* Its end: whatever window g_hwnd names by now is let go of, and g_running cleared.
ThreadEnds(t) ==
    /\ threads[t] = "leaves" /\ threads' = [threads EXCEPT ![t] = "ended"]
    /\ hwnd' = 0 /\ running' = FALSE
    /\ UNCHANGED <<posted, shows, btn, padKeyVars, shiftHeld, halo, latchVars, out, typed>>

Forgotten(ps) == [w \in Who |-> IF w \in ps THEN Nothing ELSE out[w]]

\* hide, when it is up: what every pad that has typed holds goes up with it.
HidesNow(lets) ==
    /\ running' = FALSE /\ out' = lets
    /\ posted' = IF hwnd # 0 THEN posted \cup {hwnd} ELSE posted
    /\ edges' = [p \in OPad |-> {}] /\ heldKey' = [p \in OPad |-> "none"]
    /\ layers' = [p \in OPad |-> FALSE] /\ shiftHeld' = FALSE
    /\ UNCHANGED <<hwnd, threads, shows>>

Hide == /\ running /\ typed < MaxTyped /\ typed' = typed + 1
        /\ HidesNow(Forgotten(OPad)) /\ UNCHANGED <<btn, armed, halo, latchVars>>
-----------------------------------------------------------------------------
(* What is typed. *)

\* A latch: on, and for Shift locked, and off.
NextLatch(m) ==
    CASE latch[m] = "off" -> "on"
      [] latch[m] = "on" /\ m = "shift" -> "locked"
      [] OTHER -> "off"

Latches == [on |-> latch, used |-> latchUsed, mod |-> tapMod, frames |-> tapFrames]

\* press_current on a latch; one let go of unused is a tap of the key itself.
PressLatch(m) ==
    LET n   == NextLatch(m)
        tap == n = "off" /\ latch[m] = "on" /\ ~latchUsed
    IN  [on     |-> [latch EXCEPT ![m] = n],
         used   |-> IF n # "off" THEN FALSE ELSE latchUsed,
         mod    |-> IF tap THEN m ELSE tapMod,
         frames |-> IF tap THEN 3 ELSE tapFrames]

LatchesBecome(l) ==
    latch' = l.on /\ latchUsed' = l.used /\ tapMod' = l.mod /\ tapFrames' = l.frames

\* The latches that serve one key go.
DropOn(l) == [m \in Latch |-> IF l[m] = "on" THEN "off" ELSE l[m]]
ModsOn(l) == {m \in Latch : l[m] # "off"}

FreshEdge(p, edge) == "cross" \in btn[p] /\ edge \notin edges[p]

HeldFollowsHalo(p) ==
    IF "cross" \notin btn[p] THEN "none" ELSE IF halo \in Key THEN halo ELSE heldKey[p]

\* The key a pad's Cross went down on stays its key until Cross is up.
Held(p) ==
    CASE "cross" \notin btn[p] -> "none"
      [] FreshEdge(p, "key") /\ halo \in Key -> halo
      [] OTHER -> heldKey[p]

\* The bits of edge: circle, the key's, and the latch's and the action's own.
EdgesNow(p) ==
    (IF "circle" \in btn[p] THEN {"circle"} ELSE {})
    \cup (IF "cross" \notin btn[p] THEN {}
          ELSE {"key"} \cup (edges[p] \cap {"latch"}) \cup (IF halo \in Latch THEN {"latch"} ELSE {}))

\* Circle, or Cross on the key for it.
Closes(p) == \/ "circle" \in btn[p] /\ "circle" \notin edges[p]
             \/ halo = "hide" /\ FreshEdge(p, "hide")

\* The end of a report: a tap of a latch goes first, then what is typed; the latches go
\* with the release that follows.
Types(p, l, usage, shift) ==
    IF l.frames > 0
    THEN /\ out' = [out EXCEPT ![p] = [usage |-> "none", mods |-> {l.mod}]]
         /\ LatchesBecome([l EXCEPT !.frames = @ - 1]) /\ UNCHANGED sentLast
    ELSE /\ out' = [out EXCEPT ![p] = IF usage = "none" THEN Nothing
                                      ELSE [usage |-> usage, mods |-> ModsOn(l.on) \cup shift]]
         /\ sentLast' = (usage # "none")
         /\ LatchesBecome(IF usage # "none" THEN [l EXCEPT !.used = TRUE]
                          ELSE IF sentLast THEN [l EXCEPT !.on = DropOn(@)] ELSE l)

\* handle_report of a pad that finds the keyboard up.
OverReport(p) ==
    LET now   == [layers EXCEPT ![p] = "l1" \in btn[p]]
        arm   == armed[p] \/ "face" \notin btn[p]
        shift == IF \E q \in OPad : now[q] THEN {"shift"} ELSE {}
    IN  /\ Visible /\ armed' = [armed EXCEPT ![p] = arm] /\ UNCHANGED <<btn, halo, typed>>
        /\ IF Closes(p) THEN HidesNow(Forgotten(OPad)) /\ UNCHANGED latchVars
           ELSE /\ edges' = [edges EXCEPT ![p] = EdgesNow(p)]
                /\ layers' = now /\ shiftHeld' = (shift # {})
                /\ heldKey' = [heldKey EXCEPT ![p] = Held(p)]
                /\ Types(p, IF halo \in Latch /\ FreshEdge(p, "latch") THEN PressLatch(halo) ELSE Latches,
                         IF "face" \in btn[p] /\ arm THEN "face" ELSE Held(p), shift)
                /\ UNCHANGED windowVars

\* forget_device: a pad that goes takes its edges, its shoulder and its keys along.
ForgetTyping(p) ==
    /\ typed < MaxTyped /\ typed' = typed + 1 /\ btn' = [btn EXCEPT ![p] = {}]
    /\ edges' = [edges EXCEPT ![p] = {}] /\ armed' = [armed EXCEPT ![p] = FALSE]
    /\ layers' = [layers EXCEPT ![p] = FALSE] /\ out' = [out EXCEPT ![p] = Nothing]
    /\ UNCHANGED <<windowVars, heldKey, shiftHeld, halo, latchVars>>

\* The mouse on the window: the halo goes to the key, which is down until the button is up.
MousePress(h) ==
    /\ Visible /\ typed < MaxTyped /\ typed' = typed + 1 /\ halo' = h
    /\ IF h \in Latch
       THEN LatchesBecome(PressLatch(h)) /\ UNCHANGED <<out, sentLast, windowVars, padKeyVars, shiftHeld>>
       ELSE /\ UNCHANGED <<latch, tapMod, tapFrames, sentLast>>
            /\ IF h = "hide"
               THEN HidesNow(Forgotten(OPad)) /\ UNCHANGED <<armed, latchUsed>>
               ELSE /\ latchUsed' = TRUE /\ UNCHANGED <<windowVars, padKeyVars, shiftHeld>>
                    /\ out' = [out EXCEPT !["mouse"] =
                          [usage |-> h, mods |-> ModsOn(latch) \cup (IF shiftHeld THEN {"shift"} ELSE {})]]
    /\ UNCHANGED btn

\* The button goes up over the window, whatever it went down on.
MouseRelease ==
    /\ out["mouse"] # Nothing \/ (Visible /\ latchUsed)
    /\ out' = [out EXCEPT !["mouse"] = Nothing]
    /\ latchUsed' = FALSE /\ latch' = (IF latchUsed THEN DropOn(latch) ELSE latch)
    /\ UNCHANGED <<windowVars, btn, padKeyVars, shiftHeld, halo, tapMod, tapFrames, sentLast, typed>>

\* The person: a button of a pad, and the halo moved by either pad.
Presses(p, b) ==
    /\ typed < MaxTyped /\ typed' = typed + 1
    /\ btn' = [btn EXCEPT ![p] = IF b \in @ THEN @ \ {b} ELSE @ \cup {b}]
    /\ UNCHANGED <<windowVars, padKeyVars, shiftHeld, halo, latchVars, out>>

MovesHalo(h) ==
    /\ Visible /\ typed < MaxTyped /\ typed' = typed + 1 /\ halo' = h /\ h # halo
    /\ UNCHANGED <<windowVars, btn, padKeyVars, shiftHeld, latchVars, out>>

OverNext ==
    \/ Show \/ Hide \/ MouseRelease
    \/ \E t \in Windows : WindowFails(t) \/ WindowComes(t) \/ ThreadLeaves(t) \/ ThreadEnds(t)
    \/ \E p \in OPad : OverReport(p) \/ ForgetTyping(p) \/ \E b \in Btn : Presses(p, b)
    \/ \E h \in Halo : MousePress(h) \/ MovesHalo(h)
-----------------------------------------------------------------------------
OverTypeOK ==
    /\ running \in BOOLEAN /\ hwnd \in 0..MaxShows /\ posted \subseteq Windows
    /\ threads \in [Windows -> {"none", "made", "loops", "leaves", "ended"}]
    /\ btn \in [OPad -> SUBSET Btn]
    /\ edges \in [OPad -> SUBSET {"circle", "key", "latch"}] /\ {armed, layers} \subseteq [OPad -> BOOLEAN]
    /\ {shiftHeld, latchUsed, sentLast} \subseteq BOOLEAN /\ halo \in Halo
    /\ latch \in [Latch -> {"off", "on", "locked"}] /\ tapMod \in Latch \cup {"none"}
    /\ tapFrames \in 0..3 /\ heldKey \in [OPad -> Key \cup {"none"}] /\ out \in [Who -> Typed]
    /\ shows \in 0..MaxShows /\ typed \in 0..MaxTyped

\* While it says it is up there is a thread that will make it so or say it is not: a window
\* that could not be made does not leave a keyboard that can never be opened again.
KeyboardAnswers == running => \E t \in Windows : threads[t] \in {"made", "loops", "leaves"}

\* The halo, which the pads share, never changes the key that is already down for a pad.
KeyStays ==
    [][\A p \in OPad : /\ out[p].usage \in Key /\ out'[p].usage \in Key
                       => out'[p].usage = out[p].usage \/ FreshEdge(p, "key")]_overVars

\* "A latch releases on the key it modified": it does not go while a pad still has its key
\* down, unless it is pressed again.
LatchServesItsKey ==
    [][\A m \in Latch : latch[m] = "on" /\ latch'[m] = "off" /\ halo' # m
                        => \A p \in OPad : heldKey'[p] = "none"]_overVars
=============================================================================
