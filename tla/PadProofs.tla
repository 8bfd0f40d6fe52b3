----------------------------- MODULE PadProofs -----------------------------
(***************************************************************************)
(* What holds, for every number of pads, keys and settings, of what a pad  *)
(* does on this computer: the on-screen keyboard, the triggers and the     *)
(* touchpad as a mouse, the gate, the pointer and what is held for them.   *)
(***************************************************************************)
EXTENDS MCPad, FiniteSetTheorems, WellFoundedInduction, TLAPS

(* Overlay: the keyboard answers, and a key that is down stays.            *)

\* A latch that is being tapped is one, and what is typed for a pad is its key.
OverInv ==
    /\ OverTypeOK /\ KeyboardAnswers
    /\ tapFrames > 0 => tapMod \in Latch
    /\ \A p \in OPad : out[p].usage \in Key => heldKey[p] = out[p].usage
----------------------------------------------------------------------------
LEMMA OverBegins == ASSUME OverInit PROVE OverInv
<1> USE OverlayAssumption DEF OverlayAssumption, OverInit
<1>1. OverTypeOK
  <2>1. /\ {armed, layers} \subseteq [OPad -> BOOLEAN] /\ running \in BOOLEAN
        /\ {shiftHeld, latchUsed, sentLast} \subseteq BOOLEAN
    BY Zenon
  <2>2. /\ hwnd \in 0..MaxShows /\ posted \subseteq Windows
        /\ threads \in [Windows -> {"none", "made", "loops", "leaves", "ended"}]
        /\ btn \in [OPad -> SUBSET Btn] /\ edges \in [OPad -> SUBSET {"circle", "key", "latch"}]
        /\ halo \in Halo /\ latch \in [Latch -> {"off", "on", "locked"}]
        /\ tapMod \in Latch \cup {"none"} /\ tapFrames \in 0..3
        /\ heldKey \in [OPad -> Key \cup {"none"}] /\ shows \in 0..MaxShows
        /\ typed \in 0..MaxTyped
    BY DEF Halo, Key
  <2>3. out \in [Who -> Typed]
    BY DEF Typed, Nothing
  <2> QED
    BY <2>1, <2>2, <2>3 DEF OverTypeOK
<1>2. KeyboardAnswers /\ tapFrames = 0 /\ \A p \in OPad : out[p].usage = "none"
  BY DEF KeyboardAnswers, Who, Nothing
<1> QED
  BY <1>1, <1>2 DEF OverInv, Key

\* The window and its threads: nothing that is typed changes.
LEMMA WindowSteps ==
  ASSUME OverInv, NEW t \in Windows,
         WindowFails(t) \/ WindowComes(t) \/ ThreadLeaves(t) \/ ThreadEnds(t)
  PROVE  OverInv'
<1> USE OverlayAssumption DEF OverlayAssumption, OverInv
<1>1. UNCHANGED <<btn, padKeyVars, shiftHeld, halo, latchVars, out, typed, shows>>
  BY DEF WindowFails, WindowComes, ThreadLeaves, ThreadEnds
<1>2. /\ hwnd' \in 0..MaxShows /\ posted' \subseteq Windows
      /\ threads' \in [Windows -> {"none", "made", "loops", "leaves", "ended"}]
  <2>1. hwnd' \in {0, t, hwnd} /\ posted' \in {posted, posted \ {t}}
    BY DEF WindowFails, WindowComes, ThreadLeaves, ThreadEnds
  <2>2. \E x \in {"loops", "leaves", "ended"} : threads' = [threads EXCEPT ![t] = x]
    BY DEF WindowFails, WindowComes, ThreadLeaves, ThreadEnds
  <2> QED
    BY <2>1, <2>2 DEF OverTypeOK, Windows
<1>3. running' \in BOOLEAN
  BY Zenon DEF WindowFails, WindowComes, ThreadLeaves, ThreadEnds, OverTypeOK
<1>4. OverTypeOK'
  <2> USE <1>1 DEF padKeyVars, latchVars, OverTypeOK
  <2>1. ({armed, layers} \subseteq [OPad -> BOOLEAN])'
    BY Zenon
  <2>2. ({shiftHeld, latchUsed, sentLast} \subseteq BOOLEAN)'
    BY Zenon
  <2> QED
    BY <1>2, <1>3, <2>1, <2>2 DEF Halo
<1>5. KeyboardAnswers'
  <2>1. CASE WindowFails(t) \/ ThreadEnds(t)
    BY <2>1 DEF WindowFails, ThreadEnds, KeyboardAnswers
  <2>2. CASE WindowComes(t) \/ ThreadLeaves(t)
    BY <2>2 DEF WindowComes, ThreadLeaves, KeyboardAnswers, OverTypeOK
  <2> QED
    BY <2>1, <2>2
<1> QED
  BY <1>1, <1>4, <1>5 DEF padKeyVars, latchVars

\* What a step of the latches makes of them is a state of the latches.
LatchState == [on : [Latch -> {"off", "on", "locked"}], used : BOOLEAN,
               mod : Latch \cup {"none"}, frames : 0..3]

GoodLatches(l) == l \in LatchState /\ (l.frames > 0 => l.mod \in Latch)

LEMMA LatchesAreGood == ASSUME OverInv PROVE GoodLatches(Latches)
<1>1. latchUsed \in BOOLEAN
  BY Zenon DEF OverInv, OverTypeOK
<1> QED
  BY <1>1 DEF OverInv, OverTypeOK, GoodLatches, LatchState, Latches

LEMMA PressedLatchIsGood == ASSUME OverInv, NEW m \in Latch PROVE GoodLatches(PressLatch(m))
<1> DEFINE n == NextLatch(m)
           u == IF n # "off" THEN FALSE ELSE latchUsed
           tap == n = "off" /\ latch[m] = "on" /\ ~latchUsed
           f == IF tap THEN 3 ELSE tapFrames
           d == IF tap THEN m ELSE tapMod
           o == [latch EXCEPT ![m] = n]
<1>1. u \in BOOLEAN
  BY Zenon DEF OverInv, OverTypeOK
<1>2. n \in {"off", "on", "locked"}
  BY DEF NextLatch
<1>3. o \in [Latch -> {"off", "on", "locked"}]
  BY <1>2 DEF OverInv, OverTypeOK
<1>4. f \in 0..3 /\ d \in Latch \cup {"none"} /\ (f > 0 => d \in Latch)
  BY DEF OverInv, OverTypeOK
<1>5. PressLatch(m) = [on |-> o, used |-> u, mod |-> d, frames |-> f]
  BY DEF PressLatch
<1> HIDE DEF n, u, tap, f, d, o
<1> QED
  BY <1>1, <1>3, <1>4, <1>5 DEF GoodLatches, LatchState

\* What is left of the latches is well-formed, and what a pad types is its key.
LEMMA TypesWell ==
  ASSUME OverInv, NEW p \in OPad, NEW l, GoodLatches(l),
         NEW usage \in Key \cup {"none", "face"}, NEW shift \in SUBSET {"shift"},
         Types(p, l, usage, shift)
  PROVE  /\ latch' \in [Latch -> {"off", "on", "locked"}] /\ latchUsed' \in BOOLEAN
         /\ tapMod' \in Latch \cup {"none"} /\ tapFrames' \in 0..3
         /\ (tapFrames' > 0 => tapMod' \in Latch)
         /\ sentLast' \in BOOLEAN /\ out' \in [Who -> Typed]
         /\ \A q \in OPad \ {p} : out'[q] = out[q]
         /\ out'[p].usage \in Key => out'[p].usage = usage
<1> USE OverlayAssumption DEF OverlayAssumption
<1>1. l.on \in [Latch -> {"off", "on", "locked"}] /\ l.mod \in Latch \cup {"none"}
      /\ l.frames \in 0..3
  BY DEF GoodLatches, LatchState
<1>2. l.used \in BOOLEAN /\ TRUE \in BOOLEAN
  BY Zenon DEF GoodLatches, LatchState
<1>3. p \in Who /\ out \in [Who -> Typed]
  BY DEF OverInv, OverTypeOK, Who
<1>4. sentLast \in BOOLEAN
  BY Zenon DEF OverInv, OverTypeOK
<1>5. CASE l.frames > 0
  <2>1. l.mod \in Latch
    BY <1>5 DEF GoodLatches
  <2>2. /\ latch' = l.on /\ tapMod' = l.mod /\ tapFrames' = l.frames - 1
        /\ out' = [out EXCEPT ![p] = [usage |-> "none", mods |-> {l.mod}]]
    BY <1>5 DEF Types, LatchesBecome, GoodLatches, LatchState
  <2>3. latchUsed' = l.used /\ sentLast' = sentLast
    BY <1>5 DEF Types, LatchesBecome, GoodLatches, LatchState
  <2>4. [usage |-> "none", mods |-> {l.mod}] \in Typed
    BY <2>1 DEF Typed
  <2>5. out' \in [Who -> Typed] /\ out'[p].usage = "none" /\ \A q \in OPad \ {p} : out'[q] = out[q]
    BY <1>3, <2>2, <2>4
  <2>6. latchUsed' \in BOOLEAN /\ sentLast' \in BOOLEAN
    BY <1>2, <1>4, <2>3, Zenon
  <2> QED
    BY <1>1, <1>5, <2>1, <2>2, <2>5, <2>6 DEF Key
<1>6. CASE ~(l.frames > 0)
  <2> DEFINE n == IF usage # "none" THEN [l EXCEPT !.used = TRUE]
                  ELSE IF sentLast THEN [l EXCEPT !.on = DropOn(@)] ELSE l
             x == IF usage = "none" THEN Nothing
                  ELSE [usage |-> usage, mods |-> ModsOn(l.on) \cup shift]
  <2>1. DropOn(l.on) \in [Latch -> {"off", "on", "locked"}]
    BY <1>1 DEF DropOn
  <2>2. n.on \in [Latch -> {"off", "on", "locked"}] /\ n.mod = l.mod /\ n.frames = l.frames
    BY <1>1, <2>1 DEF GoodLatches, LatchState
  <2>3. n.used \in {l.used, TRUE}
    BY DEF GoodLatches, LatchState
  <2>4. x \in Typed /\ (x.usage \in Key => x.usage = usage)
    BY DEF Typed, Nothing, ModsOn, Key
  <2>5. LatchesBecome(n) /\ out' = [out EXCEPT ![p] = x]
    BY <1>6 DEF Types
  <2>6. sentLast' = (usage # "none")
    BY <1>6 DEF Types
  <2> HIDE DEF n, x
  <2>7. /\ latch' \in [Latch -> {"off", "on", "locked"}] /\ tapMod' = l.mod
        /\ tapFrames' = l.frames
    BY <2>2, <2>5 DEF LatchesBecome
  <2>8. latchUsed' \in BOOLEAN
    <3>1. latchUsed' = n.used
      BY <2>5 DEF LatchesBecome
    <3> QED
      BY <1>2, <2>3, <3>1, Zenon
  <2>9. sentLast' \in BOOLEAN
    BY <2>6, Zenon
  <2>10. /\ out' \in [Who -> Typed] /\ \A q \in OPad \ {p} : out'[q] = out[q]
         /\ out'[p].usage \in Key => out'[p].usage = usage
    BY <1>3, <2>4, <2>5
  <2> QED
    BY <1>1, <1>6, <2>7, <2>8, <2>9, <2>10
<1> QED
  BY <1>5, <1>6

\* Hiding: what the pads hold goes up, and the keyboard does not say it is up.
LEMMA HidingKeeps ==
  ASSUME OverInv, HidesNow(Forgotten(OPad)), UNCHANGED <<btn, latch, tapMod, tapFrames, sentLast>>,
         latchUsed' \in BOOLEAN, armed' \in [OPad -> BOOLEAN], halo' \in Halo,
         typed' \in 0..MaxTyped
  PROVE  OverInv' /\ \A p \in OPad : out'[p].usage = "none"
<1> USE OverlayAssumption DEF OverlayAssumption
<1>1. running' = FALSE /\ shiftHeld' = FALSE /\ layers' = [p \in OPad |-> FALSE]
  BY DEF HidesNow
<1>2. running' \in BOOLEAN /\ shiftHeld' \in BOOLEAN /\ layers' \in [OPad -> BOOLEAN]
  BY <1>1, Zenon
<1>3. /\ posted' \subseteq Windows /\ hwnd' \in 0..MaxShows /\ shows' \in 0..MaxShows
      /\ threads' \in [Windows -> {"none", "made", "loops", "leaves", "ended"}]
      /\ edges' \in [OPad -> SUBSET {"circle", "key", "latch"}]
      /\ heldKey' \in [OPad -> Key \cup {"none"}]
  BY DEF HidesNow, OverInv, OverTypeOK, Windows
<1>4. out' \in [Who -> Typed] /\ \A p \in OPad : out'[p] = Nothing
  BY DEF HidesNow, Forgotten, OverInv, OverTypeOK, Who, Nothing, Typed
<1>5. ({armed, layers} \subseteq [OPad -> BOOLEAN])'
  BY <1>2, Zenon
<1>6. sentLast' \in BOOLEAN
  BY Zenon DEF OverInv, OverTypeOK
<1>7. ({shiftHeld, latchUsed, sentLast} \subseteq BOOLEAN)'
  BY <1>2, <1>6, Zenon
<1>8. /\ (btn \in [OPad -> SUBSET Btn] /\ latch \in [Latch -> {"off", "on", "locked"}])'
      /\ (tapMod \in Latch \cup {"none"} /\ tapFrames \in 0..3 /\ typed \in 0..MaxTyped)'
      /\ (tapFrames > 0 => tapMod \in Latch)'
  BY DEF OverInv, OverTypeOK
<1>9. OverTypeOK'
  BY <1>2, <1>3, <1>4, <1>5, <1>7, <1>8, Zenon DEF OverTypeOK
<1>10. KeyboardAnswers'
  BY <1>1 DEF KeyboardAnswers
<1>11. \A p \in OPad : out'[p].usage = "none"
  BY <1>4 DEF Nothing
<1> QED
  BY <1>8, <1>9, <1>10, <1>11 DEF OverInv, Key

\* A report that leaves the keyboard up.
LEMMA ReportTypes ==
  ASSUME OverInv, NEW p \in OPad, OverReport(p), ~Closes(p)
  PROVE  /\ OverInv'
         /\ \A q \in OPad : /\ out[q].usage \in Key /\ out'[q].usage \in Key
                            => out'[q].usage = out[q].usage \/ FreshEdge(q, "key")
<1> USE OverlayAssumption DEF OverlayAssumption
<1> DEFINE now == [layers EXCEPT ![p] = "l1" \in btn[p]]
           arm == armed[p] \/ "face" \notin btn[p]
           shift == IF \E q \in OPad : now[q] THEN {"shift"} ELSE {}
           l == IF halo \in Latch /\ FreshEdge(p, "latch") THEN PressLatch(halo) ELSE Latches
           usage == IF "face" \in btn[p] /\ arm THEN "face" ELSE Held(p)
<1>1. /\ edges' = [edges EXCEPT ![p] = EdgesNow(p)] /\ heldKey' = [heldKey EXCEPT ![p] = Held(p)]
      /\ Types(p, l, usage, shift) /\ UNCHANGED <<windowVars, btn, halo, typed>>
  BY DEF OverReport
<1>2. armed' = [armed EXCEPT ![p] = arm] /\ layers' = now /\ shiftHeld' = (shift # {})
  BY DEF OverReport
<1>3. Held(p) \in Key \cup {"none"} /\ EdgesNow(p) \in SUBSET {"circle", "key", "latch"}
  BY DEF Held, EdgesNow, OverInv, OverTypeOK
<1>4. shift \in SUBSET {"shift"} /\ usage \in Key \cup {"none", "face"}
  BY <1>3
<1>5. GoodLatches(l)
  BY LatchesAreGood, PressedLatchIsGood
<1>6. arm \in BOOLEAN /\ ("l1" \in btn[p]) \in BOOLEAN /\ (shift # {}) \in BOOLEAN
  <2> HIDE DEF now
  <2>1. \A x : (x # {}) \in BOOLEAN
    OBVIOUS
  <2>2. (shift # {}) \in BOOLEAN
    BY <2>1
  <2>3. arm \in BOOLEAN /\ ("l1" \in btn[p]) \in BOOLEAN
    OBVIOUS
  <2> QED
    BY <2>2, <2>3
<1>7. {armed, layers} \subseteq [OPad -> BOOLEAN]
  BY DEF OverInv, OverTypeOK
<1> DEFINE b == "l1" \in btn[p]
<1> HIDE DEF arm, b
<1>8. ({armed, layers} \subseteq [OPad -> BOOLEAN])'
  <2>1. b \in BOOLEAN
    BY <1>6 DEF b
  <2>2. armed \in [OPad -> BOOLEAN] /\ layers \in [OPad -> BOOLEAN]
    BY <1>7, Zenon
  <2>3. layers' = [layers EXCEPT ![p] = b]
    BY <1>2, Zenon DEF b
  <2>4. layers' \in [OPad -> BOOLEAN]
    BY <2>1, <2>2, <2>3
  <2>5. armed' \in [OPad -> BOOLEAN]
    BY <1>2, <1>6, <2>2
  <2> QED
    BY <2>4, <2>5, Zenon
<1>9. shiftHeld' \in BOOLEAN
  BY <1>2, <1>6, Zenon
<1> HIDE DEF now, shift, l, usage
<1>10. /\ latch' \in [Latch -> {"off", "on", "locked"}] /\ latchUsed' \in BOOLEAN
       /\ tapMod' \in Latch \cup {"none"} /\ tapFrames' \in 0..3
       /\ (tapFrames' > 0 => tapMod' \in Latch)
       /\ sentLast' \in BOOLEAN /\ out' \in [Who -> Typed]
       /\ \A q \in OPad \ {p} : out'[q] = out[q]
       /\ out'[p].usage \in Key => out'[p].usage = usage
  BY <1>1, <1>4, <1>5, TypesWell
<1>11. ({shiftHeld, latchUsed, sentLast} \subseteq BOOLEAN)'
  BY <1>9, <1>10, Zenon
<1>12. /\ (running \in BOOLEAN /\ hwnd \in 0..MaxShows /\ posted \subseteq Windows)'
       /\ (threads \in [Windows -> {"none", "made", "loops", "leaves", "ended"}])'
       /\ (btn \in [OPad -> SUBSET Btn] /\ halo \in Halo)'
       /\ (shows \in 0..MaxShows /\ typed \in 0..MaxTyped)'
  <2>1. running' \in BOOLEAN
    BY <1>1, Zenon DEF windowVars, OverInv, OverTypeOK
  <2> QED
    BY <1>1, <2>1 DEF windowVars, OverInv, OverTypeOK, Windows, Halo
<1>13. /\ (edges \in [OPad -> SUBSET {"circle", "key", "latch"}])'
       /\ (heldKey \in [OPad -> Key \cup {"none"}])'
  BY <1>1, <1>3 DEF OverInv, OverTypeOK
<1>14. OverTypeOK'
  BY <1>8, <1>10, <1>11, <1>12, <1>13, Zenon DEF OverTypeOK
<1>15. KeyboardAnswers'
  BY <1>1, Zenon DEF windowVars, OverInv, KeyboardAnswers
<1>16. usage \in Key => usage = Held(p)
  BY DEF usage, Key
<1>17. \A q \in OPad : out'[q].usage \in Key => heldKey'[q] = out'[q].usage
  <2> SUFFICES ASSUME NEW q \in OPad, out'[q].usage \in Key PROVE heldKey'[q] = out'[q].usage
    OBVIOUS
  <2>1. CASE q = p
    BY <1>1, <1>10, <1>16, <2>1 DEF OverInv, OverTypeOK
  <2>2. CASE q # p
    BY <1>1, <1>10, <2>2 DEF OverInv, OverTypeOK
  <2> QED
    BY <2>1, <2>2
<1>18. ASSUME NEW q \in OPad, out[q].usage \in Key, out'[q].usage \in Key
       PROVE  out'[q].usage = out[q].usage \/ FreshEdge(q, "key")
  <2>1. CASE q = p
    <3>1. out'[p].usage = Held(p) /\ heldKey[p] = out[p].usage /\ Held(p) # "none"
      BY <1>10, <1>16, <1>18, <2>1 DEF OverInv, Key
    <3> QED
      BY <2>1, <3>1 DEF Held
  <2>2. CASE q # p
    BY <1>10, <2>2
  <2> QED
    BY <2>1, <2>2
<1> QED
  BY <1>10, <1>14, <1>15, <1>17, <1>18 DEF OverInv

\* What a key of a pad is after a step that leaves the pads' keys and slots alone.
LEMMA OtherSteps ==
  ASSUME OverInv, \/ Show \/ MouseRelease \/ \E p \in OPad, b \in Btn : Presses(p, b)
                  \/ \E h \in Halo : MovesHalo(h)
  PROVE  OverInv' /\ \A p \in OPad : out'[p] = out[p]
<1> USE OverlayAssumption DEF OverlayAssumption
<1>1. ASSUME Show PROVE OverInv' /\ \A p \in OPad : out'[p] = out[p]
  <2> USE <1>1 DEF Show, OverInv, OverTypeOK, latchVars
  <2>1. armed' = [p \in OPad |-> FALSE] /\ layers' = layers
    OBVIOUS
  <2>2. ({armed, layers} \subseteq [OPad -> BOOLEAN])'
    <3>1. armed' \in [OPad -> BOOLEAN] /\ layers' \in [OPad -> BOOLEAN]
      BY <2>1, Zenon
    <3> QED
      BY <3>1, Zenon
  <2>3. ({shiftHeld, latchUsed, sentLast} \subseteq BOOLEAN)'
    BY Zenon
  <2>4. running' \in BOOLEAN
    BY Zenon
  <2>5. /\ shows' \in 0..MaxShows
        /\ threads' \in [Windows -> {"none", "made", "loops", "leaves", "ended"}]
    BY DEF Windows
  <2>6. OverTypeOK'
    BY <2>2, <2>3, <2>4, <2>5 DEF Halo
  <2>7. KeyboardAnswers'
    <3>1. CASE running
      BY <3>1 DEF KeyboardAnswers
    <3>2. CASE ~running
      <4>1. shows' \in Windows /\ threads'[shows'] = "made"
        BY <3>2 DEF Windows
      <4> QED
        BY <4>1 DEF KeyboardAnswers
    <3> QED
      BY <3>1, <3>2
  <2>8. UNCHANGED <<out, heldKey, tapFrames, tapMod>>
    OBVIOUS
  <2> QED
    BY <2>6, <2>7, <2>8
<1>2. ASSUME MouseRelease PROVE OverInv' /\ \A p \in OPad : out'[p] = out[p]
  <2> USE <1>2 DEF MouseRelease, OverInv, OverTypeOK
  <2>1. latchUsed' = FALSE /\ UNCHANGED <<shiftHeld, sentLast, running, armed, layers>>
    BY DEF windowVars, padKeyVars
  <2>2. ({shiftHeld, latchUsed, sentLast} \subseteq BOOLEAN)' /\ running' \in BOOLEAN
        /\ ({armed, layers} \subseteq [OPad -> BOOLEAN])'
    BY <2>1, Zenon
  <2>3. latch' \in [Latch -> {"off", "on", "locked"}]
    BY DEF DropOn
  <2>4. out' \in [Who -> Typed] /\ \A p \in OPad : out'[p] = out[p]
    BY DEF Who, Typed, Nothing
  <2>5. UNCHANGED <<hwnd, threads, posted, shows, btn, edges, heldKey, halo, tapMod, tapFrames, typed>>
    BY DEF windowVars, padKeyVars
  <2>6. OverTypeOK'
    BY <2>2, <2>3, <2>4, <2>5 DEF Halo
  <2>7. KeyboardAnswers'
    BY <2>1, <2>5, Zenon DEF KeyboardAnswers
  <2> QED
    BY <2>4, <2>5, <2>6, <2>7
<1>3. ASSUME NEW p \in OPad, NEW b \in Btn, Presses(p, b)
      PROVE  OverInv' /\ \A q \in OPad : out'[q] = out[q]
  <2>1. typed' \in 0..MaxTyped /\ btn' \in [OPad -> SUBSET Btn]
    BY <1>3 DEF Presses, OverInv, OverTypeOK
  <2>2. UNCHANGED <<windowVars, padKeyVars, shiftHeld, halo, latchVars, out>>
    BY <1>3 DEF Presses
  <2> QED
    BY <2>1, <2>2, Zenon DEF OverInv, OverTypeOK, KeyboardAnswers, windowVars, padKeyVars, latchVars
<1>4. ASSUME NEW h \in Halo, MovesHalo(h) PROVE OverInv' /\ \A q \in OPad : out'[q] = out[q]
  <2>1. typed' \in 0..MaxTyped /\ halo' \in Halo
    BY <1>4 DEF MovesHalo, OverInv, OverTypeOK
  <2>2. UNCHANGED <<windowVars, btn, padKeyVars, shiftHeld, latchVars, out>>
    BY <1>4 DEF MovesHalo
  <2> QED
    BY <2>1, <2>2, Zenon DEF OverInv, OverTypeOK, KeyboardAnswers, windowVars, padKeyVars, latchVars
<1> QED
  BY <1>1, <1>2, <1>3, <1>4

LEMMA ForgettingTypes ==
  ASSUME OverInv, NEW p \in OPad, ForgetTyping(p)
  PROVE  /\ OverInv'
         /\ \A q \in OPad : out'[q].usage \in Key => out'[q] = out[q]
<1> USE OverlayAssumption DEF OverlayAssumption
<1>1. /\ typed' \in 0..MaxTyped /\ btn' \in [OPad -> SUBSET Btn]
      /\ edges' \in [OPad -> SUBSET {"circle", "key", "latch"}]
      /\ out' = [out EXCEPT ![p] = Nothing]
  BY DEF ForgetTyping, OverInv, OverTypeOK
<1>2. armed' = [armed EXCEPT ![p] = FALSE] /\ layers' = [layers EXCEPT ![p] = FALSE]
  BY DEF ForgetTyping
<1>3. ({armed, layers} \subseteq [OPad -> BOOLEAN])'
  <2>1. armed \in [OPad -> BOOLEAN] /\ layers \in [OPad -> BOOLEAN]
    BY Zenon DEF OverInv, OverTypeOK
  <2>2. armed' \in [OPad -> BOOLEAN] /\ layers' \in [OPad -> BOOLEAN]
    BY <1>2, <2>1
  <2> QED
    BY <2>2, Zenon
<1>4. UNCHANGED <<windowVars, heldKey, shiftHeld, halo, latchVars>>
  BY DEF ForgetTyping
<1>5. out \in [Who -> Typed] /\ Nothing \in Typed /\ OPad \subseteq Who /\ Nothing.usage \notin Key
  BY DEF OverInv, OverTypeOK, Who, Typed, Nothing, Key
<1>6. out' \in [Who -> Typed] /\ \A q \in OPad : out'[q].usage \in Key => out'[q] = out[q]
  BY <1>1, <1>5
<1>7. OverTypeOK'
  BY <1>1, <1>3, <1>4, <1>6, Zenon DEF OverInv, OverTypeOK, windowVars, latchVars
<1>8. KeyboardAnswers' /\ UNCHANGED <<tapFrames, tapMod, heldKey>>
  BY <1>4, Zenon DEF OverInv, KeyboardAnswers, windowVars, latchVars
<1> QED
  BY <1>6, <1>7, <1>8 DEF OverInv

LEMMA MouseTypes ==
  ASSUME OverInv, NEW h \in Halo, MousePress(h)
  PROVE  /\ OverInv'
         /\ \A q \in OPad : out'[q].usage \in Key => out'[q] = out[q]
<1> USE OverlayAssumption DEF OverlayAssumption
<1>1. typed' \in 0..MaxTyped /\ halo' \in Halo /\ btn' = btn
  BY DEF MousePress, OverInv, OverTypeOK
<1>2. CASE h \in Latch
  <2>1. UNCHANGED <<out, sentLast, windowVars, padKeyVars, shiftHeld>>
        /\ LatchesBecome(PressLatch(h))
    BY <1>2 DEF MousePress
  <2>2. GoodLatches(PressLatch(h))
    BY <1>2, PressedLatchIsGood
  <2>3. /\ latch' \in [Latch -> {"off", "on", "locked"}] /\ tapMod' \in Latch \cup {"none"}
        /\ tapFrames' \in 0..3 /\ (tapFrames' > 0 => tapMod' \in Latch)
    BY <2>1, <2>2 DEF LatchesBecome, GoodLatches, LatchState
  <2>4. latchUsed' = PressLatch(h).used /\ PressLatch(h).used \in BOOLEAN
    BY <2>1, <2>2, Zenon DEF LatchesBecome, GoodLatches, LatchState
  <2>5. OverTypeOK'
    BY <1>1, <2>1, <2>3, <2>4, Zenon DEF OverInv, OverTypeOK, windowVars, padKeyVars
  <2>6. KeyboardAnswers' /\ UNCHANGED <<out, heldKey>>
    BY <2>1, Zenon DEF OverInv, KeyboardAnswers, windowVars, padKeyVars
  <2> QED
    BY <2>3, <2>5, <2>6 DEF OverInv
<1>3. CASE h = "hide"
  <2>1. h \notin Latch
    BY <1>3
  <2>2. HidesNow(Forgotten(OPad)) /\ UNCHANGED <<btn, latch, tapMod, tapFrames, sentLast, armed, latchUsed>>
    BY <1>3, <2>1 DEF MousePress
  <2>3. latchUsed' \in BOOLEAN /\ armed' \in [OPad -> BOOLEAN]
    BY <2>2, Zenon DEF OverInv, OverTypeOK
  <2>4. OverInv' /\ \A p \in OPad : out'[p].usage = "none"
    BY <1>1, <2>2, <2>3, HidingKeeps
  <2> QED
    BY <2>4 DEF Key
<1>4. CASE h \in Key
  <2>1. h \notin Latch /\ h # "hide"
    BY <1>4 DEF Key
  <2> DEFINE x == [usage |-> h, mods |-> ModsOn(latch) \cup (IF shiftHeld THEN {"shift"} ELSE {})]
  <2>2. /\ latchUsed' = TRUE /\ out' = [out EXCEPT !["mouse"] = x]
        /\ UNCHANGED <<windowVars, padKeyVars, shiftHeld, latch, tapMod, tapFrames, sentLast>>
    BY <2>1 DEF MousePress
  <2>3. latchUsed' \in BOOLEAN
    BY <2>2, Zenon
  <2>4. x \in Typed
    BY <1>4 DEF Typed, ModsOn
  <2> HIDE DEF x
  <2>5. out' \in [Who -> Typed] /\ \A q \in OPad : out'[q] = out[q]
    BY <2>2, <2>4 DEF OverInv, OverTypeOK, Who
  <2>6. OverTypeOK'
    BY <1>1, <2>2, <2>3, <2>5, Zenon DEF OverInv, OverTypeOK, windowVars, padKeyVars
  <2>7. KeyboardAnswers' /\ UNCHANGED <<heldKey, tapFrames, tapMod>>
    BY <2>2, Zenon DEF OverInv, KeyboardAnswers, windowVars, padKeyVars
  <2> QED
    BY <2>5, <2>6, <2>7 DEF OverInv
<1> QED
  BY <1>2, <1>3, <1>4 DEF Halo

\* A key that is down for a pad is changed by a press of that pad alone.
KeyKept == \A p \in OPad : /\ out[p].usage \in Key /\ out'[p].usage \in Key
                           => out'[p].usage = out[p].usage \/ FreshEdge(p, "key")

LEMMA OverSteps == ASSUME OverInv, [OverNext]_overVars PROVE OverInv' /\ KeyKept
<1>1. CASE UNCHANGED overVars
  BY <1>1, Zenon DEF overVars, windowVars, padKeyVars, latchVars, OverInv, OverTypeOK,
     KeyboardAnswers, KeyKept
<1>2. ASSUME NEW p \in OPad, OverReport(p) PROVE OverInv' /\ KeyKept
  <2>1. CASE Closes(p)
    <3>1. /\ HidesNow(Forgotten(OPad)) /\ UNCHANGED <<btn, halo, typed, latchVars>>
          /\ armed' = [armed EXCEPT ![p] = armed[p] \/ "face" \notin btn[p]]
      BY <1>2, <2>1 DEF OverReport
    <3>2. (armed[p] \/ "face" \notin btn[p]) \in BOOLEAN /\ armed \in [OPad -> BOOLEAN]
          /\ latchUsed' \in BOOLEAN
      BY <3>1, Zenon DEF OverInv, OverTypeOK, latchVars
    <3>3. armed' \in [OPad -> BOOLEAN]
      <4> DEFINE arm == armed[p] \/ "face" \notin btn[p]
      <4>1. arm \in BOOLEAN /\ armed' = [armed EXCEPT ![p] = arm]
        BY <3>1, <3>2
      <4> HIDE DEF arm
      <4> QED
        BY <3>2, <4>1
    <3>4. OverInv' /\ \A q \in OPad : out'[q].usage = "none"
      BY <3>1, <3>2, <3>3, HidingKeeps DEF OverInv, OverTypeOK, latchVars
    <3> QED
      BY <3>4 DEF KeyKept, Key
  <2>2. CASE ~Closes(p)
    BY <1>2, <2>2, ReportTypes DEF KeyKept
  <2> QED
    BY <2>1, <2>2
<1>3. ASSUME Hide PROVE OverInv' /\ KeyKept
  <2>1. HidesNow(Forgotten(OPad)) /\ UNCHANGED <<btn, armed, halo, latchVars>>
        /\ typed' \in 0..MaxTyped
    BY <1>3, OverlayAssumption DEF Hide, OverInv, OverTypeOK, OverlayAssumption
  <2>2. latchUsed' \in BOOLEAN /\ armed' \in [OPad -> BOOLEAN] /\ halo' \in Halo
    BY <2>1, Zenon DEF OverInv, OverTypeOK, latchVars
  <2>3. OverInv' /\ \A p \in OPad : out'[p].usage = "none"
    BY <2>1, <2>2, HidingKeeps DEF latchVars
  <2> QED
    BY <2>3 DEF KeyKept, Key
<1>4. ASSUME NEW t \in Windows, WindowFails(t) \/ WindowComes(t) \/ ThreadLeaves(t) \/ ThreadEnds(t)
      PROVE  OverInv' /\ KeyKept
  <2>1. out' = out
    BY <1>4 DEF WindowFails, WindowComes, ThreadLeaves, ThreadEnds
  <2> QED
    BY <1>4, <2>1, WindowSteps DEF KeyKept
<1>5. ASSUME NEW p \in OPad, ForgetTyping(p) PROVE OverInv' /\ KeyKept
  BY <1>5, ForgettingTypes DEF KeyKept
<1>6. ASSUME NEW h \in Halo, MousePress(h) PROVE OverInv' /\ KeyKept
  BY <1>6, MouseTypes DEF KeyKept
<1>7. ASSUME \/ Show \/ MouseRelease \/ \E p \in OPad, b \in Btn : Presses(p, b)
             \/ \E h \in Halo : MovesHalo(h)
      PROVE  OverInv' /\ KeyKept
  BY <1>7, OtherSteps DEF KeyKept
<1> QED
  BY <1>1, <1>2, <1>3, <1>4, <1>5, <1>6, <1>7 DEF OverNext
----------------------------------------------------------------------------
(* TriggerClick: nothing is left behind, and a drag goes on.               *)

\* A side that is pressed is engaged.
TrigInv ==
    /\ TrigTypeOK /\ NothingLeftBehind
    /\ \A s \in Side : st[s].down => st[s].engaged

SideState == [engaged : BOOLEAN, down : BOOLEAN, dragging : BOOLEAN,
              age : {"new", "double", "hold"}, ended : {"no", "fresh", "old"}]

LEMMA FreshIsState == Fresh \in SideState
  BY DEF Fresh, SideState

LEMMA TrigBegins == ASSUME TrigInit PROVE TrigInv
<1>1. ~heldKeys /\ ~known /\ ~gyroHold /\ {known, heldKeys, gyroHold} \subseteq BOOLEAN
  <2>1. known = FALSE /\ heldKeys = FALSE /\ gyroHold = FALSE
    BY Zenon DEF TrigInit
  <2> QED
    BY <2>1, Zenon
<1>2. pull \in [Side -> [travel : Travel, status : 0..2]]
  BY TriggerAssumption DEF TrigInit, TriggerAssumption
<1>3. setting \in [Side -> Setting] /\ trigButtons = {} /\ trigKeys = {}
  BY DEF TrigInit
<1>4. st = [s \in Side |-> Fresh]
  BY DEF TrigInit
<1>5. st \in [Side -> SideState] /\ \A s \in Side : ~st[s].down /\ ~st[s].dragging
  BY <1>4, FreshIsState DEF Fresh
<1>6. TrigTypeOK
  BY <1>1, <1>2, <1>3, <1>5, Zenon DEF TrigTypeOK, SideState
<1> QED
  BY <1>1, <1>3, <1>5, <1>6 DEF TrigInv, NothingLeftBehind

\* What a side becomes in a report.
LEMMA SideSteps ==
  ASSUME TrigInv, NEW s \in Side
  PROVE  /\ Step(s) \in SideState
         /\ Step(s).down => Step(s).engaged
         /\ Step(s).dragging => Step(s).down
         /\ Step(s).down => Takes(s)
         /\ (st[s].dragging /\ Takes(s) /\ pull[s].travel >= 1) => Step(s).down
<1>1. st[s] \in SideState
  BY DEF TrigInv, TrigTypeOK, SideState
<1>0. pull[s].travel \in Nat
  <2>1. pull \in [Side -> [travel : Travel, status : 0..2]]
    BY DEF TrigInv, TrigTypeOK
  <2>2. pull[s].travel \in Travel
    BY <2>1
  <2>3. Travel \subseteq Nat
    BY TriggerAssumption DEF TriggerAssumption
  <2> QED
    BY <2>2, <2>3
<1>2. (st[s].down => st[s].engaged) /\ (st[s].dragging => st[s].down)
  BY DEF TrigInv, NothingLeftBehind
<1>3. Step(s) \in SideState
  BY <1>1, FreshIsState DEF Step, SideState, Fresh
<1>4. Step(s).down => Step(s).engaged
  BY <1>1, <1>2 DEF Step, SideState, Fresh
<1>5. Step(s).dragging => Step(s).down
  BY <1>1, <1>2 DEF Step, SideState, Fresh
<1>6. Step(s).down => Takes(s)
  <2> SUFFICES ASSUME ~Takes(s) PROVE ~Step(s).down
    OBVIOUS
  <2>1. Step(s) = Fresh
    BY DEF Step
  <2> QED
    BY <2>1 DEF Fresh
<1>7. ASSUME st[s].dragging, Takes(s), pull[s].travel >= 1 PROVE Step(s).down
  <2>1. Engages(s) /\ st[s].down
    BY <1>0, <1>2, <1>7 DEF Engages
  <2> QED
    BY <1>1, <1>7, <2>1 DEF Step, SideState
<1> QED
  BY <1>3, <1>4, <1>5, <1>6, <1>7

\* What a step of the triggers may not do to a drag.
DragKept == \A s \in Side : /\ st[s].dragging /\ Takes(s) /\ pull[s].travel >= 1 /\ known'
                            => st'[s].down

LEMMA ReportedTrigger == ASSUME TrigInv, ReportTrigger PROVE TrigInv' /\ DragKept
<1>1. st' = [s \in Side |-> Step(s)] /\ UNCHANGED <<pull, setting>>
  BY DEF ReportTrigger
<1>2. st' \in [Side -> SideState]
  BY <1>1, SideSteps
<1>3. \A s \in Side : /\ st'[s].down => st'[s].engaged
                      /\ st'[s].dragging => st'[s].down
  BY <1>1, SideSteps
<1>4. DragKept
  BY <1>1, SideSteps DEF DragKept
<1>5. {known, heldKeys, gyroHold} \subseteq BOOLEAN /\ trigButtons \subseteq Side /\ trigKeys \subseteq Side
  BY DEF TrigInv, TrigTypeOK
<1>6. (trigKeys # {} => heldKeys) /\ (heldKeys => known) /\ (trigButtons # {} \/ gyroHold => known)
  BY DEF TrigInv, NothingLeftBehind
<1>7. CASE \E s \in Side : Takes(s)
  <2> DEFINE dn == {s \in Side : st'[s].down}
             ks == {s \in dn : setting[s].bound = "key"}
             fr == \E s \in Side : Freezes(s, st'[s])
             hk == ks # {}
  <2>1. /\ trigButtons' = dn \ ks /\ trigKeys' = IF ks # {} \/ heldKeys THEN ks ELSE trigKeys
        /\ known' = TRUE
    BY <1>7 DEF ReportTrigger
  <2>2. heldKeys' = hk
    BY <1>7 DEF ReportTrigger
  <2>3. gyroHold' = fr
    BY <1>7 DEF ReportTrigger
  <2>4. fr \in BOOLEAN /\ hk \in BOOLEAN
    BY Zenon
  <2> HIDE DEF fr
  <2>5. known' \in BOOLEAN /\ heldKeys' \in BOOLEAN /\ gyroHold' \in BOOLEAN
    BY <2>1, <2>2, <2>3, <2>4, Zenon
  <2>6. trigKeys' # {} => heldKeys'
    BY <1>6, <2>1, <2>2
  <2>7. trigButtons' \subseteq Side /\ trigKeys' \subseteq Side
    BY <1>5, <2>1
  <2>8. ({known, heldKeys, gyroHold} \subseteq BOOLEAN)'
    BY <2>5, Zenon
  <2>9. TrigTypeOK'
    BY <1>1, <1>2, <2>7, <2>8, Zenon DEF TrigInv, TrigTypeOK, SideState
  <2> QED
    BY <1>3, <1>4, <2>1, <2>6, <2>9 DEF TrigInv, NothingLeftBehind
<1>8. CASE ~\E s \in Side : Takes(s)
  <2>1. known' = FALSE /\ heldKeys' = FALSE
    BY <1>8, Zenon DEF ReportTrigger
  <2>2. CASE known
    <3>1. trigButtons' = {} /\ gyroHold' = FALSE /\ trigKeys' = IF heldKeys THEN {} ELSE trigKeys
      BY <1>8, <2>2, Zenon DEF ReportTrigger
    <3>2. trigKeys' = {}
      BY <1>6, <3>1
    <3>3. ({known, heldKeys, gyroHold} \subseteq BOOLEAN)'
      BY <2>1, <3>1, Zenon
    <3>4. TrigTypeOK'
      BY <1>1, <1>2, <3>1, <3>2, <3>3 DEF TrigInv, TrigTypeOK, SideState
    <3> QED
      BY <1>3, <1>4, <2>1, <3>1, <3>2, <3>4 DEF TrigInv, NothingLeftBehind
  <2>3. CASE ~known
    <3>1. UNCHANGED <<trigButtons, trigKeys, gyroHold>>
      BY <1>8, <2>3 DEF ReportTrigger
    <3>2. ({known, heldKeys, gyroHold} \subseteq BOOLEAN)'
      BY <1>5, <2>1, <3>1, Zenon
    <3>3. TrigTypeOK'
      BY <1>1, <1>2, <1>5, <3>1, <3>2, Zenon DEF TrigInv, TrigTypeOK, SideState
    <3>4. trigKeys' = {} /\ trigButtons' = {} /\ ~gyroHold'
      BY <1>6, <2>3, <3>1
    <3> QED
      BY <1>3, <1>4, <2>1, <3>3, <3>4 DEF TrigInv, NothingLeftBehind
  <2> QED
    BY <2>2, <2>3
<1> QED
  BY <1>7, <1>8

LEMMA ForgottenTrigger == ASSUME TrigInv, ForgetTrigger PROVE TrigInv' /\ DragKept
<1>1. known' = FALSE /\ heldKeys' = FALSE /\ gyroHold' = FALSE
  BY Zenon DEF ForgetTrigger
<1>2. ({known, heldKeys, gyroHold} \subseteq BOOLEAN)'
  BY <1>1, Zenon
<1>3. st' = [s \in Side |-> Fresh] /\ trigButtons' = {} /\ trigKeys' = {}
  BY DEF ForgetTrigger
<1>4. pull' \in [Side -> [travel : Travel, status : 0..2]] /\ setting' \in [Side -> Setting]
  BY TriggerAssumption DEF TriggerAssumption, ForgetTrigger, TrigInv, TrigTypeOK
<1>5. st' \in [Side -> SideState] /\ \A s \in Side : ~st'[s].down /\ ~st'[s].dragging
  BY <1>3, FreshIsState DEF Fresh
<1>6. TrigTypeOK'
  BY <1>2, <1>3, <1>4, <1>5, Zenon DEF TrigTypeOK, SideState
<1> QED
  BY <1>1, <1>3, <1>5, <1>6 DEF TrigInv, NothingLeftBehind, DragKept

\* The finger, the clock and the file publish nothing.
LEMMA TriggerMoves ==
  ASSUME TrigInv, \/ \E s \in Side, t \in Travel, v \in 0..2 : Pull(s, t, v)
                  \/ \E s \in Side : Ages(s) \/ \E c \in Setting : Sets(s, c)
  PROVE  TrigInv' /\ DragKept
<1>1. UNCHANGED <<known, heldKeys, gyroHold, trigButtons, trigKeys>>
  BY DEF Pull, Ages, Sets
<1>2. pull' \in [Side -> [travel : Travel, status : 0..2]]
  BY DEF Pull, Ages, Sets, TrigInv, TrigTypeOK
<1>3. setting' \in [Side -> Setting]
  BY DEF Pull, Ages, Sets, TrigInv, TrigTypeOK
<1> DEFINE Same == /\ st' \in [Side -> SideState]
                   /\ \A s \in Side : /\ st'[s].down = st[s].down /\ st'[s].engaged = st[s].engaged
                                      /\ st'[s].dragging = st[s].dragging
<1>4. Same
  <2>0. st \in [Side -> SideState]
    BY DEF TrigInv, TrigTypeOK, SideState
  <2>1. CASE st' = st
    BY <2>0, <2>1
  <2>2. ASSUME NEW s \in Side, NEW a \in {"double", "hold"}, st' = [st EXCEPT ![s].age = a]
        PROVE  Same
    BY <2>0, <2>2 DEF SideState
  <2>3. ASSUME NEW s \in Side, st' = [st EXCEPT ![s].ended = "old"]
        PROVE  Same
    BY <2>0, <2>3 DEF SideState
  <2> QED
    BY <2>1, <2>2, <2>3 DEF Pull, Ages, Sets
<1>5. ({known, heldKeys, gyroHold} \subseteq BOOLEAN)'
  BY <1>1, Zenon DEF TrigInv, TrigTypeOK
<1>6. (trigButtons \subseteq Side /\ trigKeys \subseteq Side)'
  BY <1>1 DEF TrigInv, TrigTypeOK
<1>7. TrigTypeOK'
  BY <1>2, <1>3, <1>4, <1>5, <1>6, Zenon DEF TrigTypeOK, SideState
<1>8. NothingLeftBehind' /\ \A s \in Side : st'[s].down => st'[s].engaged
  BY <1>1, <1>4 DEF TrigInv, NothingLeftBehind
<1>9. DragKept
  BY <1>4 DEF DragKept, TrigInv, NothingLeftBehind
<1> QED
  BY <1>7, <1>8, <1>9 DEF TrigInv

LEMMA TrigSteps == ASSUME TrigInv, [TrigNext]_trigVars PROVE TrigInv' /\ DragKept
<1>1. CASE UNCHANGED trigVars
  <2>1. TrigInv'
    BY <1>1, Zenon DEF trigVars, TrigInv, TrigTypeOK, NothingLeftBehind
  <2>2. st' = st
    BY <1>1 DEF trigVars
  <2> QED
    BY <2>1, <2>2 DEF DragKept, TrigInv, NothingLeftBehind
<1> QED
  BY <1>1, ReportedTrigger, ForgottenTrigger, TriggerMoves DEF TrigNext
----------------------------------------------------------------------------
(* TouchMouse: a press is let go of, a tap is a click, a click is in its place. *)

\* The pieces of a report pass on a whole of this shape.
Formed(w) ==
    DOMAIN w = {"max", "now", "moved", "long", "home", "movedCursor", "live", "pressStill",
                "tracking", "tail", "seen", "place", "check", "target", "click", "last", "lastAt",
                "at", "box", "moving", "given", "drag", "key", "pad", "owing", "aim"}

AnySpot == Spot \cup {NoSpot}

\* What a report only measures a touch by.
Measured(w) ==
    /\ w.max \in 0..2 /\ w.now \in 0..2 /\ w.seen \subseteq Spot
    /\ w.home \in AnySpot /\ w.lastAt \in AnySpot

TouchTyped(w) ==
    /\ w.target \in Target /\ w.click \subseteq Mouse /\ w.given \subseteq Mouse
    /\ w.at \in Spot /\ w.place \in Spot /\ w.aim \in AnySpot
    /\ w.box \in BOOLEAN /\ w.moving \in BOOLEAN /\ w.owing \in Nat
    /\ w.drag \in Mouse \cup {"none"} /\ w.key \in {"key", "none"} /\ w.pad \in {"pad", "none"}

\* What is held is what the press took.
HoldsPress(w) ==
    /\ w.drag = (IF w.target \in Mouse THEN w.target ELSE "none")
    /\ w.key = (IF w.target = "key" THEN "key" ELSE "none")
    /\ w.pad = (IF w.target = "pad" THEN "pad" ELSE "none")

OwesTap(w) == w.owing = IF w.click = {} THEN 0 ELSE 1

\* A click that waits has nothing in the mailbox, and is to land where the pointer is put;
\* once it is asked for, nothing moves the pointer from there.
AimsWell(w) ==
    /\ w.click # {} => ~w.box /\ (w.aim = w.place \/ w.aim = NoSpot)
    /\ w.click = {} /\ w.given = {} => w.aim = NoSpot
    /\ w.click = {} /\ w.given # {} /\ w.aim # NoSpot =>
          w.at = w.aim /\ ~w.box /\ ~w.moving /\ (w.check => w.place = w.aim)

Good(w) == Formed(w) /\ Measured(w) /\ TouchTyped(w) /\ HoldsPress(w) /\ OwesTap(w) /\ AimsWell(w)

\* No touch is under way while a click waits.
Rests(w) == w.click # {} => w.max = 0

TouchInv == Good(touch) /\ Rests(touch)

LEMMA Spots == /\ Spot \subseteq AnySpot /\ NoSpot \in AnySpot /\ 0 \in Spot
               /\ \A x \in AnySpot : x # NoSpot => x \in Spot
               /\ NoSpot \notin Spot
  BY TouchAssumption DEF TouchAssumption, AnySpot, Spot, NoSpot

LEMMA SettingIs ==
  ASSUME NEW c \in TouchSetting PROVE c.one \in Target /\ c.two \in Target /\ c.drag \in Target
  BY TouchAssumption DEF TouchAssumption

\* What a piece leaves that only measures the touch.
Calm(w, v) ==
    /\ Formed(v) /\ Measured(v)
    /\ v.target = w.target /\ v.click = w.click /\ v.given = w.given /\ v.at = w.at
    /\ v.place = w.place /\ v.check = w.check /\ v.box = w.box /\ v.moving = w.moving
    /\ v.owing = w.owing /\ v.aim = w.aim
    /\ v.drag = w.drag /\ v.key = w.key /\ v.pad = w.pad

LEMMA CalmStays == ASSUME NEW w, NEW v, Good(w), Calm(w, v) PROVE Good(v)
<1>1. TouchTyped(v)
  BY DEF Good, Calm, TouchTyped
<1>2. HoldsPress(v) /\ OwesTap(v)
  BY DEF Good, Calm, HoldsPress, OwesTap
<1>3. AimsWell(v)
  BY DEF Good, Calm, AimsWell
<1> QED
  BY <1>1, <1>2, <1>3 DEF Good, Calm

\* What is left with the same click and as many fingers.
Same(w, v) == v.click = w.click /\ v.max = w.max

LEMMA PutsBack ==
  ASSUME NEW w, Good(w), w.click = {}, NEW x \in Spot
  PROVE  Good(PutBack(w, x)) /\ Same(w, PutBack(w, x))
<1> DEFINE v == PutBack(w, x)
<1>1. /\ Formed(v) /\ Measured(v) /\ v.target = w.target /\ v.click = w.click
      /\ v.given = w.given /\ v.at = x /\ v.place = x /\ v.box = FALSE
      /\ v.moving = w.moving /\ v.owing = w.owing
      /\ v.aim = (IF w.given = {} THEN w.aim ELSE NoSpot)
      /\ v.drag = w.drag /\ v.key = w.key /\ v.pad = w.pad /\ v.max = w.max
  BY DEF Good, Formed, Measured, PutBack
<1> HIDE DEF v
<1>2. TouchTyped(v)
  BY <1>1, Spots DEF Good, TouchTyped
<1>3. HoldsPress(v) /\ OwesTap(v)
  BY <1>1 DEF Good, HoldsPress, OwesTap
<1>4. AimsWell(v)
  BY <1>1 DEF Good, AimsWell
<1>5. Good(v) /\ Same(w, v)
  BY <1>1, <1>2, <1>3, <1>4 DEF Good, Same
<1> QED
  BY <1>5 DEF v

LEMMA Checks ==
  ASSUME NEW w, Good(w), NEW over PROVE Good(Checked(w, over)) /\ Same(w, Checked(w, over))
<1>1. CASE ~w.check
  BY <1>1 DEF Checked, Same
<1>2. CASE w.check /\ over
  <2> DEFINE v == [w EXCEPT !.check = FALSE]
  <2>1. Formed(v) /\ Measured(v) /\ v.check = FALSE /\ Same(w, v)
        /\ v.target = w.target /\ v.click = w.click /\ v.given = w.given /\ v.at = w.at
        /\ v.place = w.place /\ v.box = w.box /\ v.moving = w.moving
        /\ v.owing = w.owing /\ v.aim = w.aim
        /\ v.drag = w.drag /\ v.key = w.key /\ v.pad = w.pad
    BY DEF Good, Formed, Measured, Same
  <2> HIDE DEF v
  <2>2. TouchTyped(v)
    BY <2>1 DEF Good, TouchTyped
  <2>3. HoldsPress(v) /\ OwesTap(v)
    BY <2>1 DEF Good, HoldsPress, OwesTap
  <2>4. AimsWell(v)
    BY <2>1 DEF Good, AimsWell
  <2>5. Good(v) /\ Same(w, v)
    BY <2>1, <2>2, <2>3, <2>4 DEF Good
  <2> QED
    BY <1>2, <2>5 DEF Checked, v
<1>3. CASE w.check /\ ~over
  <2> DEFINE v == PutBackAgain(w)
  <2>1. Formed(v) /\ Measured(v) /\ v.check = w.check /\ Same(w, v) /\ v.at = w.place
        /\ v.target = w.target /\ v.click = w.click /\ v.given = w.given
        /\ v.place = w.place /\ v.box = w.box /\ v.moving = w.moving
        /\ v.owing = w.owing /\ v.aim = w.aim
        /\ v.drag = w.drag /\ v.key = w.key /\ v.pad = w.pad
    BY DEF Good, Formed, Measured, Same, PutBackAgain
  <2> HIDE DEF v
  <2>2. TouchTyped(v)
    BY <2>1 DEF Good, TouchTyped
  <2>3. HoldsPress(v) /\ OwesTap(v)
    BY <2>1 DEF Good, HoldsPress, OwesTap
  <2>4. AimsWell(v)
    BY <1>3, <2>1 DEF Good, AimsWell
  <2>5. Good(v) /\ Same(w, v)
    BY <2>1, <2>2, <2>3, <2>4 DEF Good
  <2> QED
    BY <1>3, <2>5 DEF Checked, v
<1> QED
  BY <1>1, <1>2, <1>3

\* The click asked for: the pointer is where it was put, and if nothing is on its way it stays.
LEMMA Firing ==
  ASSUME NEW w, Good(w), w.click # {}
  PROVE  Good(FireClick(w)) /\ FireClick(w).click = {} /\ FireClick(w).max = w.max
<1> DEFINE v == FireClick(w)
<1>1. /\ Formed(v) /\ Measured(v) /\ v.check = w.check /\ v.max = w.max /\ v.at = w.place
      /\ v.target = w.target /\ v.click = {} /\ v.given = w.given \cup w.click
      /\ v.place = w.place /\ v.box = w.box /\ v.moving = w.moving
      /\ v.owing = w.owing - 1 /\ v.aim = (IF w.moving THEN NoSpot ELSE w.aim)
      /\ v.drag = w.drag /\ v.key = w.key /\ v.pad = w.pad
  BY DEF Good, Formed, Measured, FireClick
<1> HIDE DEF v
<1>2. w.owing = 1
  BY DEF Good, OwesTap
<1>3. TouchTyped(v)
  BY <1>1, <1>2, Spots DEF Good, TouchTyped
<1>4. HoldsPress(v) /\ OwesTap(v)
  BY <1>1, <1>2 DEF Good, HoldsPress, OwesTap
<1>5. AimsWell(v)
  BY <1>1 DEF Good, AimsWell
<1>6. Good(v) /\ v.click = {} /\ v.max = w.max
  BY <1>1, <1>3, <1>4, <1>5 DEF Good
<1> QED
  BY <1>6 DEF v

\* A click that waits goes before anything else is done with a finger.
Unowed(w, touching) == touching > 0 \/ w.max > 0 => w.click = {}

LEMMA Waiting ==
  ASSUME NEW w, Good(w), Rests(w), NEW touching \in 0..2, NEW v \in Waits(w, touching)
  PROVE  Good(v) /\ Unowed(v, touching)
<1>1. PICK over \in BOOLEAN, due \in BOOLEAN : v = Fires(Checked(w, over), touching, due)
  BY DEF Waits
<1> DEFINE u == Checked(w, over)
<1>2. Good(u) /\ Same(w, u)
  BY Checks
<1> HIDE DEF u
<1>3. v = Fires(u, touching, due)
  BY <1>1 DEF u
<1>4. u.max \in 0..2 /\ (u.click # {} => u.max = 0)
  BY <1>2 DEF Good, Measured, Rests, Same
<1>5. CASE u.click # {} /\ (due \/ (touching > 0 /\ u.max = 0))
  <2>1. v = FireClick(u)
    BY <1>3, <1>5 DEF Fires
  <2> QED
    BY <1>2, <1>5, <2>1, Firing DEF Unowed
<1>6. CASE ~(u.click # {} /\ (due \/ (touching > 0 /\ u.max = 0)))
  <2>1. v = u
    BY <1>3, <1>6 DEF Fires
  <2> QED
    BY <1>2, <1>4, <1>6, <2>1 DEF Unowed
<1> QED
  BY <1>5, <1>6

LEMMA Remembering ==
  ASSUME NEW w, Good(w), NEW c, NEW touching
  PROVE  Good(Remembers(w, c, touching)) /\ Same(w, Remembers(w, c, touching))
<1>1. CASE ~(c.cursor /\ touching > 0)
  BY <1>1 DEF Remembers, Same
<1>2. CASE c.cursor /\ touching > 0
  <2> DEFINE v == [w EXCEPT !.seen = @ \cup {w.at}]
  <2>1. Calm(w, v) /\ Same(w, v)
    BY DEF Good, Formed, Measured, TouchTyped, Calm, Same
  <2>2. Good(v)
    BY <2>1, CalmStays
  <2> QED
    BY <1>2, <2>1, <2>2 DEF Remembers
<1> QED
  BY <1>1, <1>2

LEMMA GoingBack ==
  ASSUME NEW w, Good(w), w.click = {}, NEW v \in GoesBack(w) PROVE Good(v) /\ Same(w, v)
  BY PutsBack DEF GoesBack, Same, Good, Measured

LEMMA HoldsBegin ==
  ASSUME NEW w, Good(w), w.target = "none", NEW t \in Target
  PROVE  Good(HoldBegin(w, t)) /\ Same(w, HoldBegin(w, t))
<1> DEFINE v == HoldBegin(w, t)
<1>1. w.drag = "none" /\ w.key = "none" /\ w.pad = "none"
  BY DEF Good, HoldsPress, Mouse
<1>2. /\ Formed(v) /\ Measured(v) /\ v.check = w.check /\ v.max = w.max /\ v.at = w.at
      /\ v.target = t /\ v.click = w.click /\ v.given = w.given
      /\ v.place = w.place /\ v.box = w.box /\ v.moving = w.moving
      /\ v.owing = w.owing /\ v.aim = w.aim
      /\ v.drag = (IF t \in Mouse THEN t ELSE w.drag)
      /\ v.key = (IF t = "key" THEN t ELSE w.key) /\ v.pad = (IF t = "pad" THEN t ELSE w.pad)
  BY DEF Good, Formed, Measured, HoldBegin
<1> HIDE DEF v
<1>3. HoldsPress(v) /\ OwesTap(v)
  BY <1>1, <1>2 DEF Good, HoldsPress, OwesTap
<1>4. TouchTyped(v)
  BY <1>1, <1>2 DEF Good, TouchTyped
<1>5. AimsWell(v)
  BY <1>2 DEF Good, AimsWell
<1>6. Good(v) /\ Same(w, v)
  BY <1>2, <1>3, <1>4, <1>5 DEF Good, Same
<1> QED
  BY <1>6 DEF v

LEMMA DroppingHold ==
  ASSUME NEW w, Good(w)
  PROVE  Good(DropHold(w)) /\ Same(w, DropHold(w)) /\ DropHold(w).target = "none"
<1> DEFINE v == DropHold(w)
<1>1. /\ Formed(v) /\ Measured(v) /\ v.check = w.check /\ v.max = w.max /\ v.at = w.at
      /\ v.target = "none" /\ v.click = w.click /\ v.given = w.given
      /\ v.place = w.place /\ v.box = w.box /\ v.moving = w.moving
      /\ v.owing = w.owing /\ v.aim = w.aim
      /\ v.drag = (IF w.target \in Mouse THEN "none" ELSE w.drag)
      /\ v.key = (IF w.target = "key" THEN "none" ELSE w.key)
      /\ v.pad = (IF w.target = "pad" THEN "none" ELSE w.pad)
  BY DEF Good, Formed, Measured, DropHold
<1> HIDE DEF v
<1>2. v.drag = "none" /\ v.key = "none" /\ v.pad = "none"
  BY <1>1 DEF Good, HoldsPress
<1>3. HoldsPress(v) /\ OwesTap(v)
  BY <1>1, <1>2 DEF Good, HoldsPress, OwesTap, Mouse
<1>4. TouchTyped(v)
  BY <1>1, <1>2 DEF Good, TouchTyped, Target
<1>5. AimsWell(v)
  BY <1>1 DEF Good, AimsWell
<1>6. Good(v) /\ Same(w, v) /\ v.target = "none"
  BY <1>1, <1>3, <1>4, <1>5 DEF Good, Same
<1> QED
  BY <1>6 DEF v

LEMMA Dragging ==
  ASSUME NEW w, Good(w), NEW c \in TouchSetting, NEW touching \in 0..2, NEW clicked, NEW mode,
         Unowed(w, touching), NEW v \in Drags(w, c, touching, clicked, mode)
  PROVE  Good(v) /\ Same(w, v)
<1>1. CASE c.drag = "none" \/ (w.target # "none" /\ touching = 0)
  BY <1>1, DroppingHold DEF Drags
<1>2. CASE ~(c.drag = "none" \/ (w.target # "none" /\ touching = 0))
           /\ ~(w.target = "none" /\ clicked /\ touching > 0 /\ ActsNow(c.drag, mode))
  BY <1>2 DEF Drags, Same
<1>3. CASE ~(c.drag = "none" \/ (w.target # "none" /\ touching = 0))
           /\ w.target = "none" /\ clicked /\ touching > 0 /\ ActsNow(c.drag, mode)
  <2>1. w.click = {}
    BY <1>3 DEF Unowed
  <2>2. PICK u \in (IF c.cursor THEN GoesBack(w) ELSE {w}) :
           v = HoldBegin([u EXCEPT !.pressStill = c.cursor], c.drag)
    BY <1>3 DEF Drags
  <2>3. u.target = "none"
    <3>1. u = w \/ \E x \in w.seen \ {w.at} : u = PutBack(w, x)
      BY <2>2 DEF GoesBack
    <3> QED
      BY <1>3, <3>1 DEF PutBack, Good, Formed
  <2>4. Good(u) /\ Same(w, u)
    BY <2>1, <2>2, GoingBack DEF Same
  <2> DEFINE s == [u EXCEPT !.pressStill = c.cursor]
  <2>5. Calm(u, s) /\ Same(u, s)
    BY <2>4 DEF Good, Formed, Measured, Calm, Same
  <2>6. Good(s) /\ Same(w, s) /\ s.target = "none"
    BY <2>3, <2>4, <2>5, CalmStays DEF Calm, Same
  <2> HIDE DEF s
  <2>7. v = HoldBegin(s, c.drag)
    BY <2>2 DEF s
  <2> QED
    BY <2>6, <2>7, HoldsBegin, SettingIs DEF Same
<1> QED
  BY <1>1, <1>2, <1>3

LEMMA Beginning ==
  ASSUME NEW w, Good(w), NEW c, NEW touching \in 1..2, w.click = {}
  PROVE  Good(Begins(w, c, touching)) /\ Begins(w, c, touching).click = {}
<1> DEFINE v == Begins(w, c, touching)
<1>1. v.home \in AnySpot
  BY Spots DEF Good, Formed, TouchTyped, Begins
<1>2. Calm(w, v)
  BY <1>1 DEF Good, Formed, Measured, Calm, Begins
<1> HIDE DEF v
<1>3. Good(v) /\ v.click = {}
  BY <1>2, CalmStays DEF Calm
<1> QED
  BY <1>3 DEF v

LEMMA Going ==
  ASSUME NEW w, Good(w), NEW c, NEW touching \in 1..2, w.click = {}, NEW v \in Goes(w, c, touching)
  PROVE  Good(v) /\ v.click = {}
<1>1. CASE touching = w.now
  <2>1. Calm(w, [w EXCEPT !.moved = TRUE])
    BY DEF Good, Formed, Measured, Calm
  <2>2. Good([w EXCEPT !.moved = TRUE]) /\ [w EXCEPT !.moved = TRUE].click = {}
    BY <2>1, CalmStays DEF Calm
  <2> QED
    BY <1>1, <2>2 DEF Goes
<1>2. CASE touching # w.now
  <2>1. PICK u \in GoesBack(w) :
           v = [u EXCEPT !.max = IF touching > @ THEN touching ELSE @, !.now = touching]
    BY <1>2 DEF Goes, GoesBack
  <2>2. Good(u) /\ Same(w, u)
    BY GoingBack
  <2>3. Calm(u, v)
    BY <2>1, <2>2 DEF Good, Formed, Measured, Calm
  <2> QED
    BY <2>2, <2>3, CalmStays DEF Calm, Same
<1> QED
  BY <1>1, <1>2

LEMMA Tapping ==
  ASSUME NEW w, Good(w), NEW c, NEW t \in Mouse, w.click = {}, NEW v \in TapClicks(w, c, t)
  PROVE  Good(v)
<1>1. ASSUME NEW x \in Spot PROVE Good(ClickWaits(w, t, x))
  <2> DEFINE u == PutBack(w, x)
             y == [u EXCEPT !.click = @ \cup {t}, !.owing = @ + 1, !.aim = x,
                            !.last = t, !.lastAt = x]
  <2>1. Good(u) /\ u.click = {} /\ u.place = x /\ u.box = FALSE
    <3>1. Good(u) /\ u.click = {}
      BY PutsBack DEF Same
    <3>2. u.place = x /\ u.box = FALSE
      BY DEF PutBack, Good, Formed
    <3> QED
      BY <3>1, <3>2
  <2> HIDE DEF u
  <2>2. u.owing = 0
    BY <2>1 DEF Good, OwesTap
  <2>3. /\ Formed(y) /\ y.check = u.check /\ y.max = u.max /\ y.at = u.at
        /\ y.now = u.now /\ y.seen = u.seen /\ y.home = u.home /\ y.lastAt = x
        /\ y.target = u.target /\ y.click = {t} /\ y.given = u.given
        /\ y.place = x /\ y.box = FALSE /\ y.moving = u.moving
        /\ y.owing = 1 /\ y.aim = x
        /\ y.drag = u.drag /\ y.key = u.key /\ y.pad = u.pad
    BY <2>1, <2>2 DEF Good, Formed
  <2> HIDE DEF y
  <2>4. Measured(y)
    BY <2>1, <2>3, Spots DEF Good, Measured
  <2>a. y.click \subseteq Mouse
    BY <2>3
  <2>b. y.owing \in Nat
    BY <2>3
  <2>c. y.aim \in AnySpot /\ y.at \in Spot /\ y.place \in Spot
    BY <2>1, <2>3, Spots DEF Good, TouchTyped
  <2>d. y.box \in BOOLEAN /\ y.moving \in BOOLEAN
    BY <2>1, <2>3 DEF Good, TouchTyped
  <2>5. TouchTyped(y)
    BY <2>1, <2>3, <2>a, <2>b, <2>c, <2>d DEF Good, TouchTyped
  <2>6. HoldsPress(y) /\ OwesTap(y)
    BY <2>1, <2>3 DEF Good, HoldsPress, OwesTap
  <2>7. AimsWell(y)
    BY <2>3 DEF AimsWell
  <2>8. Good(y)
    BY <2>3, <2>4, <2>5, <2>6, <2>7 DEF Good
  <2> QED
    BY <2>8 DEF ClickWaits, y, u
<1>2. Good(ClickNow(w, c, t))
  <2> DEFINE y == ClickNow(w, c, t)
  <2>1. /\ Formed(y) /\ y.check = w.check /\ y.max = w.max /\ y.at = w.at
        /\ y.now = w.now /\ y.seen = w.seen /\ y.home = w.home
        /\ y.lastAt = (IF c.cursor THEN w.at ELSE NoSpot)
        /\ y.target = w.target /\ y.click = {} /\ y.given = w.given \cup {t}
        /\ y.place = w.place /\ y.box = w.box /\ y.moving = w.moving
        /\ y.owing = w.owing /\ y.aim = w.aim
        /\ y.drag = w.drag /\ y.key = w.key /\ y.pad = w.pad
    BY DEF Good, Formed, ClickNow
  <2> HIDE DEF y
  <2>2. y.lastAt \in AnySpot
    BY <2>1, Spots DEF Good, TouchTyped
  <2>3. Measured(y) /\ TouchTyped(y)
    BY <2>1, <2>2 DEF Good, TouchTyped, Measured
  <2>4. HoldsPress(y) /\ OwesTap(y)
    BY <2>1 DEF Good, HoldsPress, OwesTap
  <2>5. AimsWell(y)
    BY <2>1 DEF Good, AimsWell
  <2>6. Good(y)
    BY <2>1, <2>3, <2>4, <2>5 DEF Good
  <2> QED
    BY <2>6 DEF y
<1>3. CASE c.cursor /\ w.home # NoSpot /\ w.movedCursor /\ w.max < 2 /\ v = ClickWaits(w, t, w.home)
  BY <1>1, <1>3, Spots DEF Good, Measured
<1>4. CASE v = ClickNow(w, c, t)
  BY <1>2, <1>4
<1>5. CASE w.lastAt # NoSpot /\ v = ClickWaits(w, t, w.lastAt)
  BY <1>1, <1>5, Spots DEF Good, Measured
<1> QED
  BY <1>3, <1>4, <1>5 DEF TapClicks

LEMMA Ending ==
  ASSUME NEW w, Good(w), NEW c, w.click = {}, NEW v \in Ends(w, c) PROVE Good(v) /\ v.max = 0
<1> DEFINE t == IF w.max >= 2 THEN c.two ELSE c.one
           u == [w EXCEPT !.last = "none", !.lastAt = NoSpot]
<1>1. PICK x : /\ x = u \/ (t \in Mouse /\ x \in TapClicks(w, c, t))
               /\ v = [x EXCEPT !.max = 0, !.now = 0, !.moved = FALSE, !.home = NoSpot,
                                !.pressStill = FALSE, !.tail = FALSE, !.seen = {}]
  BY DEF Ends
<1>2. Good(u)
  <2>1. Calm(w, u)
    BY Spots DEF Good, Formed, Measured, Calm
  <2> QED
    BY <2>1, CalmStays
<1>3. Good(x)
  BY <1>1, <1>2, Tapping
<1>4. Calm(x, v) /\ v.max = 0
  BY <1>1, <1>3, Spots DEF Good, Formed, Measured, Calm
<1> QED
  BY <1>3, <1>4, CalmStays

LEMMA SessionsMove ==
  ASSUME NEW w, Good(w), NEW c, NEW touching \in 0..2, Unowed(w, touching),
         NEW v \in Session(w, c, touching)
  PROVE  Good(v) /\ Rests(v) /\ (touching > 0 => v.click = {})
<1>0. w.max \in 0..2
  BY DEF Good, Measured
<1>1. CASE w.max = 0 /\ touching > 0
  <2>1. v = Begins(w, c, touching) /\ w.click = {} /\ touching \in 1..2
    BY <1>1 DEF Session, Unowed
  <2> QED
    BY <2>1, Beginning DEF Rests
<1>2. CASE w.max = 0 /\ touching = 0
  BY <1>2 DEF Session, Rests
<1>3. CASE w.max > 0
  <2>1. PICK u \in GrowsLong(w) : v \in IF touching > 0 THEN Goes(u, c, touching) ELSE Ends(u, c)
    BY <1>3 DEF Session
  <2>2. Good(u) /\ u.click = {}
    <3>1. w.click = {}
      BY <1>3 DEF Unowed
    <3>2. Calm(w, [w EXCEPT !.long = TRUE])
      BY DEF Good, Formed, Measured, Calm
    <3>3. Good([w EXCEPT !.long = TRUE]) /\ [w EXCEPT !.long = TRUE].click = {}
      BY <3>1, <3>2, CalmStays DEF Calm
    <3> QED
      BY <3>1, <3>3 DEF GrowsLong
  <2>3. CASE touching > 0
    <3>1. touching \in 1..2 /\ v \in Goes(u, c, touching)
      BY <2>1, <2>3
    <3> QED
      BY <2>2, <3>1, Going DEF Rests
  <2>4. CASE touching = 0
    <3>1. v \in Ends(u, c)
      BY <2>1, <2>4
    <3> QED
      BY <2>2, <2>4, <3>1, Ending DEF Rests
  <2> QED
    BY <2>3, <2>4
<1> QED
  BY <1>0, <1>1, <1>2, <1>3

LEMMA PushesWell ==
  ASSUME NEW w, Good(w), w.click = {} PROVE Good(PushMotion(w)) /\ PushMotion(w).click = {}
<1> DEFINE v == PushMotion(w)
<1>1. /\ Formed(v) /\ Measured(v) /\ v.check = FALSE /\ v.at = w.at
      /\ v.target = w.target /\ v.click = {} /\ v.given = w.given
      /\ v.place = w.place /\ v.box = TRUE /\ v.moving = w.moving
      /\ v.owing = w.owing /\ v.aim = (IF w.given = {} THEN w.aim ELSE NoSpot)
      /\ v.drag = w.drag /\ v.key = w.key /\ v.pad = w.pad
  BY DEF Good, Formed, Measured, PushMotion
<1> HIDE DEF v
<1>2. TouchTyped(v)
  BY <1>1, Spots DEF Good, TouchTyped
<1>3. HoldsPress(v) /\ OwesTap(v)
  BY <1>1 DEF Good, HoldsPress, OwesTap
<1>4. AimsWell(v)
  BY <1>1 DEF Good, AimsWell
<1>5. Good(v) /\ v.click = {}
  BY <1>1, <1>2, <1>3, <1>4 DEF Good
<1> QED
  BY <1>5 DEF v

LEMMA Following ==
  ASSUME NEW w, Good(w), w.click = {}, NEW c, NEW v \in Follows(w, c)
  PROVE  Good(v) /\ v.click = {}
<1> DEFINE l == [w EXCEPT !.live = TRUE]
<1>1. PICK m : /\ \/ m = w \/ m = l \/ m = [w EXCEPT !.pressStill = FALSE]
                  \/ m = [l EXCEPT !.pressStill = FALSE]
               /\ v = m \/ v = PushMotion(m)
  BY Zenon DEF Follows
<1>2. Calm(w, l)
  BY DEF Good, Formed, Measured, Calm
<1>3. Good(l)
  BY <1>2, CalmStays
<1> HIDE DEF l
<1>4. Calm(w, w) /\ Calm(w, [w EXCEPT !.pressStill = FALSE])
  BY DEF Good, Formed, Measured, Calm
<1>5. Calm(l, [l EXCEPT !.pressStill = FALSE])
  BY <1>3 DEF Good, Formed, Measured, Calm
<1>6. Good(m) /\ m.click = {}
  BY <1>1, <1>2, <1>3, <1>4, <1>5, CalmStays DEF Calm
<1> QED
  BY <1>1, <1>6, PushesWell

LEMMA Pointing ==
  ASSUME NEW w, Good(w), Rests(w), NEW c, NEW touching \in 0..2, touching > 0 => w.click = {},
         NEW v \in Points(w, c, touching)
  PROVE  Good(v) /\ Rests(v)
<1>1. ASSUME NEW a, NEW b, v = [w EXCEPT !.tracking = a, !.tail = b] PROVE Good(v) /\ Rests(v)
  <2>1. Calm(w, v) /\ v.max = w.max
    BY <1>1 DEF Good, Formed, Measured, Calm
  <2> QED
    BY <2>1, CalmStays DEF Calm, Rests
<1>2. ASSUME v = [w EXCEPT !.tail = TRUE] PROVE Good(v) /\ Rests(v)
  <2>1. Calm(w, v) /\ v.max = w.max
    BY <1>2 DEF Good, Formed, Measured, Calm
  <2> QED
    BY <2>1, CalmStays DEF Calm, Rests
<1>3. ASSUME touching = 1, v \in Follows(w, c) PROVE Good(v) /\ Rests(v)
  BY <1>3, Following DEF Rests
<1> QED
  BY <1>1, <1>2, <1>3 DEF Points

LEMMA Tidying == ASSUME NEW w, Good(w), Rests(w) PROVE Good(Tidy(w)) /\ Rests(Tidy(w))
<1> DEFINE v == Tidy(w)
           short == w.max > 0 /\ ~w.long
<1>1. /\ Formed(v) /\ v.check = w.check /\ v.at = w.at /\ v.max = w.max /\ v.now = w.now
      /\ v.seen = w.seen /\ v.lastAt = w.lastAt /\ v.home = (IF short THEN w.home ELSE NoSpot)
      /\ v.target = w.target /\ v.click = w.click /\ v.given = w.given
      /\ v.place = (IF w.check \/ w.click # {} THEN w.place ELSE 0)
      /\ v.box = w.box /\ v.moving = w.moving
      /\ v.owing = w.owing /\ v.aim = w.aim
      /\ v.drag = w.drag /\ v.key = w.key /\ v.pad = w.pad
  BY DEF Good, Formed, Tidy
<1> HIDE DEF v, short
<1>2. Measured(v)
  BY <1>1, Spots DEF Good, Measured
<1>3. TouchTyped(v)
  BY <1>1, Spots DEF Good, TouchTyped
<1>4. HoldsPress(v) /\ OwesTap(v)
  BY <1>1 DEF Good, HoldsPress, OwesTap
<1>5. AimsWell(v)
  BY <1>1 DEF Good, AimsWell
<1>6. Good(v) /\ Rests(v)
  BY <1>1, <1>2, <1>3, <1>4, <1>5 DEF Good, Rests
<1> QED
  BY <1>6 DEF v

\* All that TouchState keeps goes at once; of the rest nothing does.
LEMMA Forgetting ==
  ASSUME NEW w, Good(w), w.target = "none"
  PROVE  LET v == Forgets(w) IN
         /\ Formed(v) /\ Measured(v) /\ v.check = FALSE /\ v.at = w.at /\ v.max = 0
         /\ v.target = "none" /\ v.click = {} /\ v.given = w.given /\ v.place = 0
         /\ v.box = w.box /\ v.moving = w.moving /\ v.owing = w.owing /\ v.aim = w.aim
         /\ v.drag = "none" /\ v.key = "none" /\ v.pad = "none"
<1> DEFINE v == Forgets(w)
<1>1. w.drag = "none" /\ w.key = "none" /\ w.pad = "none"
  BY DEF Good, HoldsPress, Mouse
<1>2. DOMAIN NoTouch = {"max", "now", "moved", "long", "home", "movedCursor", "live",
                        "pressStill", "tracking", "tail", "seen", "place", "check", "target",
                        "click", "last", "lastAt"}
  BY DEF NoTouch
<1>3. DOMAIN v = DOMAIN w
  BY DEF Forgets
<1>4. \A f \in DOMAIN w : v[f] = IF f \in DOMAIN NoTouch THEN NoTouch[f] ELSE w[f]
  BY DEF Forgets
<1>5. /\ NoTouch.max = 0 /\ NoTouch.now = 0 /\ NoTouch.home = NoSpot /\ NoTouch.seen = {}
      /\ NoTouch.lastAt = NoSpot /\ NoTouch.check = FALSE /\ NoTouch.place = 0
      /\ NoTouch.target = "none" /\ NoTouch.click = {}
  BY DEF NoTouch
<1> HIDE DEF v
<1>6. /\ Formed(v) /\ v.check = FALSE /\ v.max = 0 /\ v.now = 0 /\ v.home = NoSpot
      /\ v.lastAt = NoSpot /\ v.seen = {} /\ v.target = "none" /\ v.click = {} /\ v.place = 0
  BY <1>2, <1>3, <1>4, <1>5 DEF Good, Formed
<1>7. /\ v.at = w.at /\ v.given = w.given /\ v.box = w.box /\ v.moving = w.moving
      /\ v.owing = w.owing /\ v.aim = w.aim /\ v.drag = w.drag /\ v.key = w.key /\ v.pad = w.pad
  BY <1>2, <1>4 DEF Good, Formed
<1>8. Measured(v)
  BY <1>6, Spots DEF Measured
<1> QED
  BY <1>1, <1>6, <1>7, <1>8 DEF v

\* Reset: nothing is owed, and nothing is held.
LEMMA Resets == ASSUME NEW w, Good(w) PROVE Good(Reset(w)) /\ Rests(Reset(w))
<1> DEFINE d == DropHold(w)
           u == IF d.click # {} THEN FireClick(d) ELSE d
           v == Forgets(u)
<1>1. Good(d) /\ d.target = "none"
  BY DroppingHold
<1> HIDE DEF d
<1>2. Good(u) /\ u.click = {} /\ u.target = "none"
  <2>1. CASE d.click = {}
    BY <1>1, <2>1
  <2>2. CASE d.click # {}
    <3>1. Good(FireClick(d)) /\ FireClick(d).click = {}
      BY <1>1, <2>2, Firing
    <3>2. FireClick(d).target = d.target
      BY <1>1 DEF FireClick, Good, Formed
    <3> QED
      BY <1>1, <2>2, <3>1, <3>2
  <2> QED
    BY <2>1, <2>2
<1> HIDE DEF u
<1>3. /\ Formed(v) /\ Measured(v) /\ v.check = FALSE /\ v.at = u.at /\ v.max = 0
      /\ v.target = "none" /\ v.click = {} /\ v.given = u.given /\ v.place = 0
      /\ v.box = u.box /\ v.moving = u.moving /\ v.owing = u.owing /\ v.aim = u.aim
      /\ v.drag = "none" /\ v.key = "none" /\ v.pad = "none"
  BY <1>2, Forgetting
<1> HIDE DEF v
<1>4. TouchTyped(v)
  BY <1>2, <1>3, Spots DEF Good, TouchTyped, Target
<1>5. HoldsPress(v) /\ OwesTap(v)
  BY <1>2, <1>3 DEF Good, HoldsPress, OwesTap, Mouse
<1>6. AimsWell(v)
  BY <1>2, <1>3 DEF Good, AimsWell
<1>7. Good(v) /\ Rests(v)
  BY <1>3, <1>4, <1>5, <1>6 DEF Good, Rests
<1> QED
  BY <1>7 DEF Reset, v, u, d

LEMMA TouchMeans ==
  ASSUME TouchInv PROVE TouchTypeOK /\ PressIsLetGo /\ TapsAreClicks /\ ClickLandsOnTap
<1>1. TouchTypeOK
  BY DEF TouchInv, Good, Measured, TouchTyped, TouchTypeOK, AnySpot
<1>2. PressIsLetGo /\ TapsAreClicks
  BY DEF TouchInv, Good, HoldsPress, OwesTap, PressIsLetGo, TapsAreClicks
<1>3. ClickLandsOnTap
  BY DEF TouchInv, Good, AimsWell, ClickLandsOnTap
<1> QED
  BY <1>1, <1>2, <1>3

LEMMA TouchBegins == ASSUME TouchInit PROVE TouchInv
<1>1. DOMAIN NoTouch = {"max", "now", "moved", "long", "home", "movedCursor", "live",
                        "pressStill", "tracking", "tail", "seen", "place", "check", "target",
                        "click", "last", "lastAt"}
  BY DEF NoTouch
<1>2. /\ NoTouch.max = 0 /\ NoTouch.now = 0 /\ NoTouch.home = NoSpot /\ NoTouch.seen = {}
      /\ NoTouch.lastAt = NoSpot /\ NoTouch.check = FALSE /\ NoTouch.place = 0
      /\ NoTouch.target = "none" /\ NoTouch.click = {}
  BY DEF NoTouch
<1>3. /\ Formed(touch) /\ touch.check = FALSE /\ touch.max = 0 /\ touch.now = 0
      /\ touch.home = NoSpot /\ touch.lastAt = NoSpot /\ touch.seen = {}
      /\ touch.target = "none" /\ touch.click = {} /\ touch.place = 0
  BY <1>1, <1>2 DEF TouchInit, Formed
<1>4. /\ touch.at = 0 /\ touch.owing = 0 /\ touch.box = FALSE /\ touch.moving = FALSE
      /\ touch.given = {} /\ touch.aim = NoSpot /\ touch.drag = "none" /\ touch.key = "none"
      /\ touch.pad = "none"
  BY <1>1 DEF TouchInit
<1>a. Measured(touch)
  BY <1>3, Spots DEF Measured
<1>b. touch.box \in BOOLEAN /\ touch.moving \in BOOLEAN
  BY <1>4
<1>5. TouchTyped(touch)
  BY <1>3, <1>4, <1>b, Spots DEF TouchTyped, Target
<1>6. HoldsPress(touch) /\ OwesTap(touch) /\ AimsWell(touch) /\ Rests(touch)
  BY <1>3, <1>4 DEF HoldsPress, OwesTap, AimsWell, Rests, Mouse
<1> QED
  BY <1>3, <1>a, <1>5, <1>6 DEF TouchInv, Good

LEMMA ReportedTouch ==
  ASSUME TouchInv, NEW c \in TouchSetting, NEW touching \in 0..2, NEW clicked, NEW open, NEW mode,
         ReportTouch(c, touching, clicked, open, mode)
  PROVE  TouchInv'
<1>1. CASE AllOff(c) \/ ~open
  <2>1. touch' = Reset(touch)
    BY <1>1 DEF ReportTouch
  <2>2. Good(Reset(touch)) /\ Rests(Reset(touch))
    BY Resets DEF TouchInv
  <2>3. Good(touch') /\ Rests(touch')
    BY <2>1, <2>2
  <2> QED
    BY <2>3 DEF TouchInv
<1>2. CASE ~(AllOff(c) \/ ~open)
  <2>1. PICK w \in Waits(touch, touching) :
           \E x \in Drags(Remembers(w, c, touching), c, touching, clicked, mode) :
              \E y \in Session(x, c, touching) :
                 \E z \in Points(y, c, touching) : touch' = Tidy(z)
    BY <1>2, Zenon DEF ReportTouch
  <2>2. PICK x \in Drags(Remembers(w, c, touching), c, touching, clicked, mode) :
           \E y \in Session(x, c, touching) :
              \E z \in Points(y, c, touching) : touch' = Tidy(z)
    BY <2>1
  <2>3. PICK y \in Session(x, c, touching) : \E z \in Points(y, c, touching) : touch' = Tidy(z)
    BY <2>2
  <2>4. PICK z \in Points(y, c, touching) : touch' = Tidy(z)
    BY <2>3
  <2>5. Good(w) /\ Unowed(w, touching)
    BY Waiting DEF TouchInv
  <2> DEFINE r == Remembers(w, c, touching)
  <2>6. Good(r) /\ Unowed(r, touching)
    BY <2>5, Remembering DEF Same, Unowed
  <2> HIDE DEF r
  <2>7. x \in Drags(r, c, touching, clicked, mode)
    BY <2>2 DEF r
  <2>8. Good(x) /\ Unowed(x, touching)
    BY <2>6, <2>7, Dragging DEF Same, Unowed
  <2>9. Good(y) /\ Rests(y) /\ (touching > 0 => y.click = {})
    BY <2>3, <2>8, SessionsMove
  <2>10. Good(z) /\ Rests(z)
    BY <2>4, <2>9, Pointing
  <2>11. Good(Tidy(z)) /\ Rests(Tidy(z))
    BY <2>10, Tidying
  <2>12. Good(touch') /\ Rests(touch')
    BY <2>4, <2>11
  <2> QED
    BY <2>12 DEF TouchInv
<1> QED
  BY <1>1, <1>2

LEMMA ForgottenTouch == ASSUME TouchInv, ForgetTouch PROVE TouchInv'
<1> DEFINE d == DropHold(touch)
           f == Forgets(d)
           v == touch'
<1>1. Good(d) /\ d.target = "none" /\ d.click = touch.click
  BY DroppingHold DEF TouchInv, Same
<1>2. v = [f EXCEPT !.owing = 0, !.pad = "none",
                    !.aim = IF touch.click = {} THEN @ ELSE NoSpot]
  BY DEF ForgetTouch
<1> HIDE DEF d
<1>3. /\ Formed(f) /\ Measured(f) /\ f.check = FALSE /\ f.at = d.at /\ f.max = 0
      /\ f.target = "none" /\ f.click = {} /\ f.given = d.given /\ f.place = 0
      /\ f.box = d.box /\ f.moving = d.moving /\ f.aim = d.aim
      /\ f.drag = "none" /\ f.key = "none" /\ f.pad = "none"
  BY <1>1, Forgetting
<1> HIDE DEF f, v
<1>4. /\ Formed(v) /\ Measured(v) /\ v.check = FALSE /\ v.at = f.at /\ v.max = 0
      /\ v.target = "none" /\ v.click = {} /\ v.given = f.given /\ v.place = 0
      /\ v.box = f.box /\ v.moving = f.moving /\ v.owing = 0
      /\ v.aim = (IF touch.click = {} THEN f.aim ELSE NoSpot)
      /\ v.drag = "none" /\ v.key = "none" /\ v.pad = "none"
  BY <1>2, <1>3 DEF Formed, Measured
<1>5. TouchTyped(v)
  BY <1>1, <1>3, <1>4, Spots DEF Good, TouchTyped, Target
<1>6. HoldsPress(v) /\ OwesTap(v) /\ Rests(v)
  BY <1>4 DEF HoldsPress, OwesTap, Rests, Mouse
<1>7. AimsWell(v)
  BY <1>1, <1>3, <1>4 DEF Good, AimsWell
<1>8. Good(v) /\ Rests(v)
  BY <1>4, <1>5, <1>6, <1>7 DEF Good
<1> QED
  BY <1>8 DEF TouchInv, v

\* What the pump does: it moves the pointer only if something was pushed since.
LEMMA PumpMovesTouch == ASSUME TouchInv, PumpTakes \/ PumpMoves \/ PumpClicks PROVE TouchInv'
<1> DEFINE v == touch'
<1>1. /\ Formed(v) /\ Measured(v) /\ v.check = touch.check /\ v.max = touch.max
      /\ v.target = touch.target /\ v.click = touch.click /\ v.place = touch.place
      /\ v.owing = touch.owing /\ v.drag = touch.drag /\ v.key = touch.key /\ v.pad = touch.pad
  BY DEF TouchInv, Good, Formed, Measured, PumpTakes, PumpMoves, PumpClicks
<1>2. HoldsPress(v) /\ OwesTap(v) /\ Rests(v)
  <2> HIDE DEF v
  <2> QED
    BY <1>1 DEF TouchInv, Good, HoldsPress, OwesTap, Rests
<1>3. CASE PumpTakes
  <2>1. v.at = touch.at /\ v.box = FALSE /\ v.moving = TRUE /\ v.given = touch.given
        /\ v.aim = touch.aim /\ touch.box
    BY <1>3 DEF TouchInv, Good, Formed, PumpTakes
  <2> HIDE DEF v
  <2>2. TouchTyped(v)
    BY <1>1, <2>1 DEF TouchInv, Good, TouchTyped
  <2>3. AimsWell(v)
    BY <1>1, <2>1 DEF TouchInv, Good, AimsWell
  <2> QED
    BY <1>1, <1>2, <2>2, <2>3 DEF Good, TouchInv, v
<1>4. CASE PumpMoves
  <2>1. v.at \in Spot /\ v.box = touch.box /\ v.moving = FALSE /\ v.given = touch.given
        /\ v.aim = touch.aim /\ touch.moving
    BY <1>4 DEF TouchInv, Good, Formed, PumpMoves
  <2> HIDE DEF v
  <2>2. TouchTyped(v)
    BY <1>1, <2>1 DEF TouchInv, Good, TouchTyped
  <2>3. AimsWell(v)
    BY <1>1, <2>1 DEF TouchInv, Good, AimsWell
  <2> QED
    BY <1>1, <1>2, <2>2, <2>3 DEF Good, TouchInv, v
<1>5. CASE PumpClicks
  <2>1. v.at = touch.at /\ v.box = touch.box /\ v.moving = touch.moving /\ v.given = {}
        /\ v.aim = (IF touch.click = {} THEN NoSpot ELSE touch.aim)
    BY <1>5 DEF TouchInv, Good, Formed, PumpClicks
  <2> HIDE DEF v
  <2>2. TouchTyped(v)
    BY <1>1, <2>1, Spots DEF TouchInv, Good, TouchTyped
  <2>3. AimsWell(v)
    BY <1>1, <2>1 DEF TouchInv, Good, AimsWell
  <2> QED
    BY <1>1, <1>2, <2>2, <2>3 DEF Good, TouchInv, v
<1> QED
  BY <1>3, <1>4, <1>5

LEMMA TouchSteps == ASSUME TouchInv, [TouchNext]_touch PROVE TouchInv'
<1>1. CASE UNCHANGED touch
  BY <1>1 DEF TouchInv
<1>2. ASSUME NEW c \in TouchSetting, NEW touching \in 1..2, NEW clicked \in BOOLEAN,
             NEW mode \in {FALSE, clicked}, ReportTouch(c, touching, clicked, TRUE, mode)
      PROVE  TouchInv'
  <2>1. touching \in 0..2
    OBVIOUS
  <2> QED
    BY <1>2, <2>1, ReportedTouch
<1>3. ASSUME NEW c \in TouchSetting, NEW open \in BOOLEAN, ReportTouch(c, 0, FALSE, open, FALSE)
      PROVE  TouchInv'
  <2>1. 0 \in 0..2
    OBVIOUS
  <2> QED
    BY <1>3, <2>1, ReportedTouch
<1> QED
  BY <1>1, <1>2, <1>3, ForgottenTouch, PumpMovesTouch DEF TouchNext
----------------------------------------------------------------------------
(* Pointer: what waits is less than a pixel.                               *)

LEMMA DividesDown ==
  ASSUME NEW c \in Nat \ {0}, NEW x \in Nat
  PROVE  x \div c \in Nat /\ x - c * (x \div c) \in 0..(c - 1)
<1>1. x \div c \in Int /\ x % c \in 0..(c - 1)
  OBVIOUS
<1>2. x = c * (x \div c) + (x % c)
  OBVIOUS
<1>3. x \div c \in Nat
  OBVIOUS
<1> QED
  BY <1>1, <1>2, <1>3

LEMMA PartsLeft ==
  ASSUME NEW x \in Int
  PROVE  /\ Pixels(x) \in Int /\ Part * Pixels(x) \in Int
         /\ x - Part * Pixels(x) \in (1 - Part)..(Part - 1)
<1>1. Part \in Nat \ {0}
  BY PointerAssumption DEF PointerAssumption
<1>2. CASE x < 0
  <2> DEFINE y == -x
             d == y \div Part
  <2>0. y \in Nat
    BY <1>2
  <2> HIDE DEF y
  <2>1. y \div Part \in Nat /\ y - Part * (y \div Part) \in 0..(Part - 1)
    BY <1>1, <2>0, DividesDown, Zenon
  <2>a. d \in Nat /\ y - Part * d \in 0..(Part - 1)
    BY <2>1
  <2>2. Pixels(x) = -d /\ y = -x
    BY <1>2 DEF Pixels, y
  <2> HIDE DEF d
  <2>3. Part * (-d) = -(Part * d) /\ Part * d \in Int
    BY <1>1, <2>a
  <2> QED
    BY <1>1, <2>a, <2>2, <2>3
<1>3. CASE ~(x < 0)
  <2> DEFINE d == x \div Part
  <2>0. x \in Nat
    BY <1>3
  <2>1. x \div Part \in Nat /\ x - Part * (x \div Part) \in 0..(Part - 1)
    BY <1>1, <2>0, DividesDown, Zenon
  <2>a. d \in Nat /\ x - Part * d \in 0..(Part - 1)
    BY <2>1
  <2>2. Pixels(x) = d
    BY <1>3 DEF Pixels
  <2> HIDE DEF d
  <2>3. Part * d \in Int
    BY <1>1, <2>a
  <2> QED
    BY <1>1, <2>a, <2>2, <2>3
<1> QED
  BY <1>2, <1>3

LEMMA ClampInt ==
  ASSUME NEW x \in Int PROVE Clamp(x) \in Int /\ Part * Clamp(x) \in Int
<1>1. Part \in Int /\ Byte \in Int
  BY PointerAssumption DEF PointerAssumption
<1>2. Clamp(x) \in Int
  BY <1>1 DEF Clamp
<1> HIDE DEF Clamp
<1> QED
  BY <1>1, <1>2

Carries == [PPad -> [Source -> (1 - Part)..(Part - 1)]]
Clocks == [PPad -> [Source -> BOOLEAN]]
Owings == [pointer : Int, wheel : Int]

LEMMA PartIsPositive == Part \in Nat \ {0} /\ 0 \in (1 - Part)..(Part - 1) /\ (1 - Part)..(Part - 1) \subseteq Int
  BY PointerAssumption DEF PointerAssumption

LEMMA PointBegins == ASSUME PointInit PROVE PointTypeOK
<1>1. /\ carry \in Carries /\ pending \in Int /\ wheelPending \in Int /\ motionOwed \in Owings
      /\ reports \in 0..MaxReports
  BY PartIsPositive, PointerAssumption DEF PointerAssumption, PointInit, Carries, Owings
<1>2. since \in Clocks /\ frozen \in [PPad -> BOOLEAN] /\ steers \in [PPad -> BOOLEAN]
  BY DEF PointInit, Clocks
<1>3. has \in BOOLEAN
  BY Zenon DEF PointInit
<1>4. {frozen, steers} \subseteq [PPad -> BOOLEAN]
  BY <1>2, Zenon
<1> QED
  BY <1>1, <1>2, <1>3, <1>4, Zenon DEF PointTypeOK, Carries, Clocks, Owings

\* What a push does for the types.
LEMMA Pushes ==
  ASSUME PointTypeOK, NEW p \in PPad, NEW s \in {"gyro", "stick"}, NEW d \in Int, Push(p, s, d)
  PROVE  carry' \in Carries /\ pending' \in Int /\ has' \in BOOLEAN /\ motionOwed' \in Owings
<1> DEFINE x == Sum(p, s, d)
<1>1. /\ carry \in Carries /\ pending \in Int /\ motionOwed \in Owings /\ s \in Source
  BY DEF PointTypeOK, Carries, Owings, Source
<1>2. x \in Int
  BY <1>1, PartIsPositive DEF Carries, Sum
<1>3. has' = (has \/ Pixels(x) # 0)
  BY DEF Push
<1>4. carry' = [carry EXCEPT ![p][s] = x - Part * Pixels(x)] /\ pending' = pending + Pixels(x)
      /\ motionOwed' = [motionOwed EXCEPT !.pointer = @ + d]
  BY DEF Push
<1> HIDE DEF x
<1> DEFINE n == Pixels(x)
           r == x - Part * Pixels(x)
<1>5. n \in Int /\ r \in (1 - Part)..(Part - 1)
  BY <1>2, PartsLeft
<1>6. carry' = [carry EXCEPT ![p][s] = r] /\ pending' = pending + n
  BY <1>4
<1> HIDE DEF n, r
<1>7. carry' \in Carries
  BY <1>1, <1>5, <1>6 DEF Carries
<1>8. pending' \in Int /\ motionOwed' \in Owings
  BY <1>1, <1>4, <1>5, <1>6 DEF Owings
<1>9. has' \in BOOLEAN
  BY <1>3, Zenon
<1> QED
  BY <1>7, <1>8, <1>9

LEMMA Drops ==
  ASSUME PointTypeOK, NEW p \in PPad, NEW s \in Source, NEW which \in {"pointer", "wheel"},
         Drop(p, s, which)
  PROVE  carry' \in Carries /\ motionOwed' \in Owings
<1>1. carry \in Carries /\ motionOwed \in Owings
  BY DEF PointTypeOK, Carries, Owings
<1>2. carry' \in Carries
  BY <1>1, PartIsPositive DEF Drop, Carries
<1>3. carry[p][s] \in Int
  BY <1>1, PartIsPositive DEF Carries
<1>4. motionOwed' \in Owings
  <2> DEFINE c == carry[p][s]
  <2>1. motionOwed' = [motionOwed EXCEPT ![which] = @ - c]
    BY DEF Drop
  <2> HIDE DEF c
  <2>2. c \in Int
    BY <1>3 DEF c
  <2>3. CASE which = "pointer"
    BY <1>1, <2>1, <2>2, <2>3 DEF Owings
  <2>4. CASE which = "wheel"
    BY <1>1, <2>1, <2>2, <2>4 DEF Owings
  <2> QED
    BY <2>3, <2>4
<1> QED
  BY <1>2, <1>4

LEMMA GyroReports ==
  ASSUME PointTypeOK, NEW p \in PPad, NEW g, NEW d \in Int, NEW gap, GyroReport(p, g, d, gap)
  PROVE  PointTypeOK'
<1>1. reports' \in 0..MaxReports /\ UNCHANGED <<frozen, steers, wheelPending>>
  BY PointerAssumption DEF PointerAssumption, GyroReport, Reports, PointTypeOK, gateKeys
<1>2. since \in Clocks /\ "gyro" \in Source
  BY DEF PointTypeOK, Clocks, Source
<1>3. CASE g.when = "off" \/ ~Open(g) \/ frozen[p]
  <2> DEFINE b == since[p]["gyro"] \/ g.when # "off"
  <2>1. Drop(p, "gyro", "pointer") /\ UNCHANGED <<pending, has>>
    BY <1>3 DEF GyroReport
  <2>2. since' = [since EXCEPT ![p]["gyro"] = b]
    BY <1>3 DEF GyroReport
  <2>3. b \in BOOLEAN
    BY Zenon
  <2> HIDE DEF b
  <2>4. since' \in Clocks
    BY <1>2, <2>2, <2>3 DEF Clocks
  <2>5. carry' \in Carries /\ motionOwed' \in Owings
    BY <1>2, <2>1, Drops
  <2> QED
    BY <1>1, <2>1, <2>4, <2>5, Zenon DEF PointTypeOK, Carries, Clocks, Owings
<1>4. CASE ~(g.when = "off" \/ ~Open(g) \/ frozen[p])
  <2> DEFINE x == IF since[p]["gyro"] /\ ~gap THEN d ELSE 0
  <2>1. Push(p, "gyro", x) /\ since' = [since EXCEPT ![p]["gyro"] = TRUE] /\ x \in Int
    BY <1>4 DEF GyroReport
  <2> HIDE DEF x
  <2>2. carry' \in Carries /\ pending' \in Int /\ has' \in BOOLEAN /\ motionOwed' \in Owings
    BY <2>1, Pushes
  <2>3. since' \in Clocks
    <3>1. TRUE \in BOOLEAN
      BY Zenon
    <3> QED
      BY <1>2, <2>1, <3>1 DEF Clocks
  <2> QED
    BY <1>1, <2>2, <2>3, Zenon DEF PointTypeOK, Carries, Clocks, Owings
<1> QED
  BY <1>3, <1>4

LEMMA StickReports ==
  ASSUME PointTypeOK, NEW p \in PPad, NEW on \in BOOLEAN, NEW g, NEW d \in Int,
         StickReport(p, on, g, d)
  PROVE  PointTypeOK'
<1>1. reports' \in 0..MaxReports /\ UNCHANGED <<frozen, steers, wheelPending>>
  BY PointerAssumption DEF PointerAssumption, StickReport, Reports, PointTypeOK, gateKeys
<1>2. since' \in Clocks
  <2>1. since \in Clocks /\ since' = [since EXCEPT ![p]["stick"] = on] /\ "stick" \in Source
    BY DEF StickReport, PointTypeOK, Clocks, Source
  <2> QED
    BY <2>1 DEF Clocks
<1>3. CASE on /\ ~since[p]["stick"]
  <2>1. UNCHANGED <<carry, pending, has, motionOwed>>
    BY <1>3 DEF StickReport
  <2> QED
    BY <1>1, <1>2, <2>1, Zenon DEF PointTypeOK, Clocks
<1>4. CASE ~(on /\ ~since[p]["stick"]) /\ (~on \/ ~Open(g) \/ d = 0)
  <2>1. Drop(p, "stick", "pointer") /\ UNCHANGED <<pending, has>> /\ "stick" \in Source
    BY <1>4 DEF StickReport, Source
  <2>2. carry' \in Carries /\ motionOwed' \in Owings
    BY <2>1, Drops
  <2> QED
    BY <1>1, <1>2, <2>1, <2>2, Zenon DEF PointTypeOK, Carries, Clocks, Owings
<1>5. CASE ~(on /\ ~since[p]["stick"]) /\ ~(~on \/ ~Open(g) \/ d = 0)
  <2>1. Push(p, "stick", d)
    BY <1>5 DEF StickReport
  <2>2. carry' \in Carries /\ pending' \in Int /\ has' \in BOOLEAN /\ motionOwed' \in Owings
    BY <2>1, Pushes
  <2> QED
    BY <1>1, <1>2, <2>2, Zenon DEF PointTypeOK, Carries, Clocks, Owings
<1> QED
  BY <1>3, <1>4, <1>5

LEMMA ScrollReports ==
  ASSUME PointTypeOK, NEW p \in PPad, NEW on \in BOOLEAN, NEW g, NEW d \in Int, NEW natural,
         ScrollReport(p, on, g, d, natural)
  PROVE  PointTypeOK'
<1>1. reports' \in 0..MaxReports /\ UNCHANGED <<frozen, steers, pending, has>>
  BY PointerAssumption DEF PointerAssumption, ScrollReport, Reports, PointTypeOK, gateKeys
<1>2. since' \in Clocks
  <2>1. since \in Clocks /\ since' = [since EXCEPT ![p]["wheel"] = on] /\ "wheel" \in Source
    BY DEF ScrollReport, PointTypeOK, Clocks, Source
  <2> QED
    BY <2>1 DEF Clocks
<1>3. CASE on /\ ~since[p]["wheel"]
  <2>1. UNCHANGED <<carry, wheelPending, motionOwed>>
    BY <1>3 DEF ScrollReport
  <2> QED
    BY <1>1, <1>2, <2>1, Zenon DEF PointTypeOK, Clocks
<1>4. CASE ~(on /\ ~since[p]["wheel"]) /\ (~on \/ ~Open(g) \/ d = 0)
  <2>1. Drop(p, "wheel", "wheel") /\ UNCHANGED wheelPending /\ "wheel" \in Source
    BY <1>4 DEF ScrollReport, Source
  <2>2. carry' \in Carries /\ motionOwed' \in Owings
    BY <2>1, Drops
  <2> QED
    BY <1>1, <1>2, <2>1, <2>2, Zenon DEF PointTypeOK, Carries, Clocks, Owings
<1>5. CASE ~(on /\ ~since[p]["wheel"]) /\ ~(~on \/ ~Open(g) \/ d = 0)
  <2> DEFINE x == Sum(p, "wheel", d)
             n == Pixels(x)
             r == x - Part * n
             k == IF natural THEN 2 * Part * n ELSE 0
  <2>1. /\ carry' = [carry EXCEPT ![p]["wheel"] = r]
        /\ wheelPending' = wheelPending + (IF natural THEN -n ELSE n)
        /\ motionOwed' = [motionOwed EXCEPT !.wheel = @ + d - k]
    BY <1>5 DEF ScrollReport
  <2>2. carry \in Carries /\ motionOwed \in Owings /\ "wheel" \in Source /\ wheelPending \in Int
    BY DEF PointTypeOK, Carries, Owings, Source
  <2>3. x \in Int
    BY <2>2, PartIsPositive DEF Carries, Sum
  <2> HIDE DEF x
  <2>4. n \in Int /\ Part * n \in Int /\ r \in (1 - Part)..(Part - 1)
    BY <2>3, PartsLeft
  <2> HIDE DEF n, r
  <2>5. k \in Int
    <3>1. 2 * Part * n = 2 * (Part * n)
      BY <2>4, PartIsPositive
    <3> QED
      BY <2>4, <3>1
  <2> HIDE DEF k
  <2>6. carry' \in Carries
    BY <2>1, <2>2, <2>4 DEF Carries
  <2>7. wheelPending' \in Int /\ motionOwed' \in Owings
    BY <2>1, <2>2, <2>4, <2>5 DEF Owings
  <2> QED
    BY <1>1, <1>2, <2>6, <2>7, Zenon DEF PointTypeOK, Carries, Clocks, Owings
<1> QED
  BY <1>3, <1>4, <1>5

LEMMA PumpsPointer == ASSUME PointTypeOK, Drain \/ Wheel \/ Clear PROVE PointTypeOK'
<1>1. UNCHANGED <<carry, since, frozen, steers, reports>>
  BY DEF Drain, Wheel, Clear, gateKeys
<1>2. pending \in Int /\ wheelPending \in Int /\ motionOwed \in Owings
  BY DEF PointTypeOK, Owings
<1>3. pending' \in Int /\ wheelPending' \in Int
  BY <1>2, ClampInt DEF Drain, Wheel, Clear
<1>4. has' \in BOOLEAN
  <2>1. CASE Drain
    BY <2>1, Zenon DEF Drain
  <2>2. CASE Wheel
    BY <2>2, Zenon DEF Wheel, PointTypeOK
  <2>3. CASE Clear
    BY <2>3, Zenon DEF Clear
  <2> QED
    BY <2>1, <2>2, <2>3
<1>5. motionOwed' \in Owings
  <2> DEFINE a == Part * Clamp(pending)
             b == Part * pending
             c == Part * wheelPending
  <2>1. a \in Int /\ b \in Int /\ c \in Int
    BY <1>2, ClampInt, PartIsPositive
  <2>2. \/ motionOwed' = [motionOwed EXCEPT !.pointer = @ - a]
        \/ motionOwed' = [motionOwed EXCEPT !.pointer = @ - b]
        \/ motionOwed' = [motionOwed EXCEPT !.wheel = @ - c]
    BY DEF Drain, Wheel, Clear
  <2> HIDE DEF a, b, c
  <2> QED
    BY <1>2, <2>1, <2>2 DEF Owings
<1> QED
  BY <1>1, <1>3, <1>4, <1>5, Zenon DEF PointTypeOK, Owings

LEMMA HoldsPointer ==
  ASSUME PointTypeOK, NEW p \in PPad, ForgetPointer(p) \/ Holds(p) \/ Steers(p)
  PROVE  PointTypeOK'
<1>1. frozen \in [PPad -> BOOLEAN] /\ steers \in [PPad -> BOOLEAN] /\ since \in Clocks
      /\ carry \in Carries /\ motionOwed \in Owings
  BY Zenon DEF PointTypeOK, Clocks, Carries, Owings
<1>2. UNCHANGED <<pending, has, wheelPending, reports>>
  BY DEF ForgetPointer, Holds, Steers
<1>3. carry' \in Carries
  BY <1>1, PartIsPositive DEF ForgetPointer, Holds, Steers, Carries
<1>4. motionOwed' \in Owings
  <2>1. \A s \in Source : carry[p][s] \in Int
    BY <1>1, PartIsPositive DEF Carries
  <2> QED
    BY <1>1, <2>1 DEF ForgetPointer, Holds, Steers, Owings, Source
<1>5. since' \in Clocks
  <2> DEFINE z == [s \in Source |-> FALSE]
  <2>1. z \in [Source -> BOOLEAN]
    BY Zenon
  <2>2. since' = since \/ since' = [since EXCEPT ![p] = z]
    BY DEF ForgetPointer, Holds, Steers
  <2> HIDE DEF z
  <2> QED
    BY <1>1, <2>1, <2>2 DEF Clocks
<1>6. frozen' \in [PPad -> BOOLEAN] /\ steers' \in [PPad -> BOOLEAN]
  <2> DEFINE a == ~frozen[p]
             b == ~steers[p]
  <2>1. a \in BOOLEAN /\ b \in BOOLEAN /\ FALSE \in BOOLEAN
    BY Zenon
  <2>2. /\ \/ frozen' = frozen \/ frozen' = [frozen EXCEPT ![p] = FALSE]
           \/ frozen' = [frozen EXCEPT ![p] = a]
        /\ steers' = steers \/ steers' = [steers EXCEPT ![p] = b]
    BY DEF ForgetPointer, Holds, Steers
  <2> HIDE DEF a, b
  <2> QED
    BY <1>1, <2>1, <2>2
<1>7. ({frozen, steers} \subseteq [PPad -> BOOLEAN])'
  BY <1>6, Zenon
<1> QED
  BY <1>2, <1>3, <1>4, <1>5, <1>7, Zenon DEF PointTypeOK, Clocks, Carries, Owings

LEMMA PointSteps == ASSUME PointTypeOK, [PointNext]_pointVars PROVE PointTypeOK'
<1>1. CASE UNCHANGED pointVars
  BY <1>1, Zenon DEF pointVars, PointTypeOK
<1>2. \A d \in Motion : d \in Int
  BY PointerAssumption DEF PointerAssumption, Motion
<1>3. ASSUME NEW p \in PPad, NEW g \in Gate, NEW d \in Motion, NEW b \in BOOLEAN,
             GyroReport(p, g, d, b) \/ StickReport(p, b, g, d)
      PROVE  PointTypeOK'
  BY <1>2, <1>3, GyroReports, StickReports
<1>4. ASSUME NEW p \in PPad, NEW on \in BOOLEAN, NEW natural \in BOOLEAN, NEW g \in Gate,
             NEW d \in Motion, ScrollReport(p, on, g, d, natural)
      PROVE  PointTypeOK'
  BY <1>2, <1>4, ScrollReports
<1> QED
  BY <1>1, <1>3, <1>4, PumpsPointer, HoldsPointer DEF PointNext
----------------------------------------------------------------------------
(* HeldInput: what the keyboard sends is held by a pad that is there.      *)

\* The least and the greatest of numbers.
LessThan == OpToRel(<, Nat)

LEMMA LessThanIs == \A x, y \in Nat : <<x, y>> \in LessThan <=> x < y
  BY DEF LessThan, OpToRel

LEMMA LessThanIsWellFounded == IsWellFoundedOn(LessThan, Nat)
  BY NatLessThanWellFounded DEF LessThan

LEMMA LeastOf ==
  ASSUME NEW S, S \subseteq Nat, S # {}
  PROVE  \E n \in S : \A m \in S : n <= m
<1>1. PICK n \in S : \A m \in S : <<m, n>> \notin LessThan
  BY LessThanIsWellFounded, WFMin
<1>2. ASSUME NEW m \in S PROVE n <= m
  <2>1. m \in Nat /\ n \in Nat
    OBVIOUS
  <2>2. ~(m < n)
    BY <1>1, <2>1, LessThanIs
  <2> QED
    BY <2>1, <2>2
<1> QED
  BY <1>2

LEMMA GreatestOf ==
  ASSUME NEW S, S \subseteq Nat, S # {}, NEW b \in Nat, \A n \in S : n <= b
  PROVE  \E n \in S : \A m \in S : m <= n
<1> DEFINE T == {b - n : n \in S}
<1>1. \A n \in S : n \in Nat /\ n <= b /\ b - n \in Nat
  OBVIOUS
<1>2. T \subseteq Nat /\ T # {}
  BY <1>1
<1>3. PICK t \in T : \A u \in T : t <= u
  <2> HIDE DEF T
  <2> QED
    BY <1>2, LeastOf
<1>4. PICK n \in S : t = b - n
  OBVIOUS
<1>5. ASSUME NEW m \in S PROVE m <= n
  <2>1. t <= b - m
    BY <1>3
  <2> QED
    BY <1>1, <1>4, <2>1
<1> QED
  BY <1>5

\* The order in which the tables, the pads and the slots are gone through.
Comes(a, b) == \/ a[1] < b[1]
               \/ a[1] = b[1] /\ a[2] < b[2]
               \/ a[1] = b[1] /\ a[2] = b[2] /\ a[3] < b[3]

Places == Table \X HeldPad \X HeldKey

LEMMA ComesInOrder ==
  /\ \A a, b \in Places : a = b \/ Comes(a, b) \/ Comes(b, a)
  /\ \A a, b, c \in Places : Comes(a, b) /\ Comes(b, c) => Comes(a, c)
  /\ \A a \in Places : ~Comes(a, a)
<1>1. Table \subseteq Nat /\ HeldPad \subseteq Nat /\ HeldKey \subseteq Nat
  BY HeldAssumption DEF HeldAssumption, Table, HeldPad, HeldKey
<1>2. \A a \in Places : a[1] \in Nat /\ a[2] \in Nat /\ a[3] \in Nat
  BY <1>1 DEF Places
<1>3. ASSUME NEW a \in Places, NEW b \in Places PROVE a = b \/ Comes(a, b) \/ Comes(b, a)
  <2>1. PICK i \in Table, p \in HeldPad, k \in HeldKey : a = <<i, p, k>>
    BY DEF Places
  <2>2. PICK j \in Table, q \in HeldPad, l \in HeldKey : b = <<j, q, l>>
    BY DEF Places
  <2>3. i \in Nat /\ p \in Nat /\ k \in Nat /\ j \in Nat /\ q \in Nat /\ l \in Nat
    BY <1>1
  <2> QED
    BY <2>1, <2>2, <2>3 DEF Comes
<1>4. ASSUME NEW a \in Places, NEW b \in Places, NEW c \in Places, Comes(a, b), Comes(b, c)
      PROVE  Comes(a, c)
  BY <1>2, <1>4 DEF Comes
<1>5. \A a \in Places : ~Comes(a, a)
  BY <1>2 DEF Comes
<1> QED
  BY <1>3, <1>4, <1>5

\* Where a key that is held is found first.
AllOf(t) == {a \in Places : a[3] \in t[a[1]][a[2]]}
DownOf(t) == {a[3] : a \in AllOf(t)}
IsFirst(t, k, a) == a[3] = k /\ \A b \in AllOf(t) : b[3] = k => ~Comes(b, a)
FirstOf(t, k) == CHOOSE a \in AllOf(t) : IsFirst(t, k, a)

LEMMA EveryKeyIsFound ==
  ASSUME NEW t, NEW k \in DownOf(t)
  PROVE  FirstOf(t, k) \in AllOf(t) /\ FirstOf(t, k)[3] = k
<1> DEFINE S == {a \in AllOf(t) : a[3] = k}
           T1 == {a[1] : a \in S}
<1>1. S # {} /\ AllOf(t) \subseteq Places
  BY DEF DownOf, AllOf
<1>2. \A a \in Places : a[1] \in Nat /\ a[2] \in Nat /\ a[3] \in Nat
  BY HeldAssumption DEF HeldAssumption, Places, Table, HeldPad, HeldKey
<1>3. PICK i \in T1 : \A j \in T1 : i <= j
  <2>1. T1 \subseteq Nat /\ T1 # {}
    BY <1>1, <1>2
  <2> HIDE DEF T1
  <2> QED
    BY <2>1, LeastOf
<1> DEFINE S1 == {a \in S : a[1] = i}
           T2 == {a[2] : a \in S1}
<1>4. PICK p \in T2 : \A q \in T2 : p <= q
  <2>1. T2 \subseteq Nat /\ T2 # {}
    BY <1>1, <1>2
  <2> HIDE DEF T2
  <2> QED
    BY <2>1, LeastOf
<1>5. PICK a \in S : a[1] = i /\ a[2] = p
  OBVIOUS
<1>6. ASSUME NEW b \in AllOf(t), b[3] = k, Comes(b, a) PROVE FALSE
  <2>1. b \in S /\ a[3] = k /\ b[1] \in Nat /\ b[2] \in Nat /\ a[1] \in Nat /\ a[2] \in Nat /\ k \in Nat
    BY <1>1, <1>2, <1>6
  <2>2. i <= b[1]
    BY <1>3, <2>1
  <2>3. CASE b[1] = i
    <3>1. b[2] \in T2
      BY <2>1, <2>3
    <3>2. p <= b[2]
      BY <1>4, <3>1
    <3> QED
      BY <1>5, <1>6, <2>1, <2>3, <3>2 DEF Comes
  <2>4. CASE b[1] # i
    BY <1>5, <1>6, <2>1, <2>2, <2>4 DEF Comes
  <2> QED
    BY <2>3, <2>4
<1>7. IsFirst(t, k, a) /\ a \in AllOf(t)
  BY <1>5, <1>6 DEF IsFirst
<1>8. FirstOf(t, k) \in AllOf(t) /\ IsFirst(t, k, FirstOf(t, k))
  BY <1>7 DEF FirstOf
<1> QED
  BY <1>8 DEF IsFirst

\* The keys a key comes after, and the ones that are sent.
AheadOf(t, k) == {j \in DownOf(t) : Comes(FirstOf(t, j), FirstOf(t, k))}
KeptOf(t) == {k \in DownOf(t) : Cardinality(AheadOf(t, k)) < MaxKeys}

LEMMA MergedIs ==
  ASSUME NEW t, NEW tap
  PROVE  Merged(t, tap) = IF Cardinality(KeptOf(t)) < MaxKeys THEN KeptOf(t) \cup tap ELSE KeptOf(t)
  BY DEF Merged, KeptOf, AheadOf, FirstOf, IsFirst, DownOf, AllOf, Comes, Places

\* What is sent is no more than a keyboard carries.
LEMMA KeptFits ==
  ASSUME NEW t
  PROVE  KeptOf(t) \subseteq HeldKey /\ IsFiniteSet(KeptOf(t)) /\ Cardinality(KeptOf(t)) <= MaxKeys
<1>1. DownOf(t) \subseteq HeldKey /\ AllOf(t) \subseteq Places
  BY DEF DownOf, AllOf, Places
<1>2. IsFiniteSet(HeldKey)
  BY HeldAssumption, FS_Interval DEF HeldAssumption, HeldKey
<1>3. KeptOf(t) \subseteq DownOf(t)
  BY DEF KeptOf
<1>4. IsFiniteSet(KeptOf(t)) /\ Cardinality(KeptOf(t)) \in Nat
  BY <1>1, <1>2, <1>3, FS_Subset, FS_CardinalityType
<1>5. CASE KeptOf(t) = {}
  BY <1>4, <1>5, FS_EmptySet, HeldAssumption DEF HeldAssumption
<1>6. CASE KeptOf(t) # {}
  <2> DEFINE Ahead(k) == Cardinality(AheadOf(t, k))
             Counts == {Ahead(k) : k \in KeptOf(t)}
  <2>1. \A k \in KeptOf(t) : /\ IsFiniteSet(AheadOf(t, k)) /\ Ahead(k) \in Nat
                             /\ Ahead(k) < MaxKeys
    <3> SUFFICES ASSUME NEW k \in KeptOf(t)
                 PROVE  /\ IsFiniteSet(AheadOf(t, k)) /\ Ahead(k) \in Nat
                        /\ Ahead(k) < MaxKeys
      OBVIOUS
    <3>1. AheadOf(t, k) \subseteq HeldKey
      BY <1>1 DEF AheadOf
    <3>2. Ahead(k) < MaxKeys
      BY DEF KeptOf
    <3>3. IsFiniteSet(AheadOf(t, k))
      BY <3>1, <1>2, FS_Subset
    <3>4. Ahead(k) \in Nat
      BY <3>3, FS_CardinalityType
    <3> QED
      BY <3>2, <3>3, <3>4
  <2>2. PICK k \in KeptOf(t) : \A j \in KeptOf(t) : Ahead(j) <= Ahead(k)
    <3>1. Counts \subseteq Nat /\ Counts # {} /\ \A n \in Counts : n <= MaxKeys
      <4> HIDE DEF Ahead
      <4> QED
        BY <1>6, <2>1, HeldAssumption DEF HeldAssumption
    <3>2. PICK n \in Counts : \A m \in Counts : m <= n
      <4> HIDE DEF Counts
      <4> QED
        BY <3>1, GreatestOf, HeldAssumption DEF HeldAssumption
    <3> HIDE DEF Ahead
    <3> QED
      BY <3>2
  <2>3. ASSUME NEW j \in KeptOf(t), j # k PROVE j \in AheadOf(t, k)
    <3> DEFINE a == FirstOf(t, j)
               b == FirstOf(t, k)
    <3>1. a \in Places /\ a[3] = j /\ b \in Places /\ b[3] = k
      BY <1>1, <1>3, EveryKeyIsFound
    <3>2. CASE Comes(a, b)
      BY <1>3, <3>2 DEF AheadOf
    <3>3. CASE ~Comes(a, b)
      <4>1. Comes(b, a)
        BY <2>3, <3>1, <3>3, ComesInOrder
      <4>2. AheadOf(t, k) \subseteq AheadOf(t, j) \ {k}
        <5> SUFFICES ASSUME NEW l \in AheadOf(t, k) PROVE l \in AheadOf(t, j) /\ l # k
          OBVIOUS
        <5>1. l \in DownOf(t) /\ Comes(FirstOf(t, l), b)
          BY DEF AheadOf
        <5>2. FirstOf(t, l) \in Places
          BY <5>1, <1>1, EveryKeyIsFound
        <5>3. Comes(FirstOf(t, l), a)
          BY <5>1, <5>2, <3>1, <4>1, ComesInOrder
        <5>4. l # k
          BY <5>1, <3>1, ComesInOrder
        <5> QED
          BY <5>1, <5>3, <5>4 DEF AheadOf
      <4>3. k \in AheadOf(t, j)
        BY <1>3, <4>1 DEF AheadOf
      <4>4. Ahead(k) < Ahead(j)
        <5>1. Ahead(k) <= Cardinality(AheadOf(t, j) \ {k})
          BY <2>1, <4>2, FS_Subset, FS_RemoveElement
        <5>2. Cardinality(AheadOf(t, j) \ {k}) = Ahead(j) - 1
          BY <2>1, <4>3, FS_RemoveElement
        <5> HIDE DEF Ahead
        <5> QED
          BY <2>1, <5>1, <5>2
      <4> HIDE DEF Ahead
      <4> QED
        BY <2>1, <2>2, <4>4
    <3> QED
      BY <3>2, <3>3
  <2>4. KeptOf(t) \ {k} \subseteq AheadOf(t, k)
    BY <2>3
  <2>5. Cardinality(KeptOf(t) \ {k}) <= Ahead(k)
    BY <2>1, <2>4, FS_Subset
  <2>6. Cardinality(KeptOf(t) \ {k}) = Cardinality(KeptOf(t)) - 1
    BY <1>4, FS_RemoveElement
  <2>7. Ahead(k) < MaxKeys /\ Ahead(k) \in Nat
    BY <2>1
  <2> HIDE DEF Ahead
  <2>8. Cardinality(KeptOf(t)) <= MaxKeys
    BY <1>4, <2>5, <2>6, <2>7, HeldAssumption DEF HeldAssumption
  <2> QED
    BY <1>1, <1>3, <1>4, <2>8
<1> QED
  BY <1>1, <1>3, <1>4, <1>5, <1>6

\* The six keys that are sent, the tap among them when there is room for it.
LEMMA MergedFits ==
  ASSUME NEW t, NEW tap, tap = {} \/ \E k \in HeldKey : tap = {k}
  PROVE  /\ Merged(t, tap) \in SUBSET HeldKey /\ Cardinality(Merged(t, tap)) <= MaxKeys
         /\ Merged(t, tap) \subseteq tap \cup DownOf(t)
<1> DEFINE kept == KeptOf(t)
<1>1. kept \subseteq HeldKey /\ IsFiniteSet(kept) /\ Cardinality(kept) <= MaxKeys
      /\ Cardinality(kept) \in Nat /\ kept \subseteq DownOf(t)
  BY KeptFits, FS_CardinalityType DEF KeptOf
<1>2. Merged(t, tap) = IF Cardinality(kept) < MaxKeys THEN kept \cup tap ELSE kept
  BY MergedIs
<1> HIDE DEF kept
<1>3. CASE tap = {}
  <2>1. Merged(t, tap) = kept
    BY <1>2, <1>3
  <2> QED
    BY <1>1, <2>1
<1>4. CASE \E k \in HeldKey : tap = {k}
  <2> PICK k \in HeldKey : tap = {k}
    BY <1>4
  <2>1. CASE Cardinality(kept) < MaxKeys
    <3>1. Cardinality(kept \cup {k}) <= Cardinality(kept) + 1
      <4>1. CASE k \in kept
        <5>1. Cardinality(kept \cup {k}) = Cardinality(kept)
          BY <1>1, <4>1, FS_AddElement
        <5> QED
          BY <1>1, <5>1
      <4>2. CASE k \notin kept
        <5>1. Cardinality(kept \cup {k}) = Cardinality(kept) + 1
          BY <1>1, <4>2, FS_AddElement
        <5> QED
          BY <1>1, <5>1
      <4> QED
        BY <4>1, <4>2
    <3>2. Cardinality(kept \cup {k}) <= MaxKeys
      <4>1. Cardinality(kept \cup {k}) \in Nat
        BY <1>1, FS_AddElement, FS_CardinalityType
      <4> QED
        BY <1>1, <2>1, <3>1, <4>1, HeldAssumption DEF HeldAssumption
    <3>3. Merged(t, tap) = kept \cup {k}
      BY <1>2, <2>1
    <3> QED
      BY <1>1, <3>2, <3>3
  <2>2. CASE ~(Cardinality(kept) < MaxKeys)
    <3>1. Merged(t, tap) = kept
      BY <1>2, <2>2
    <3> QED
      BY <1>1, <3>1
  <2> QED
    BY <2>1, <2>2
<1> QED
  BY <1>3, <1>4

\* Here and in the tables, a key is down because a pad that is there holds it.
HeldBy(h, t) == UNION {t[i][p] : i \in Table, p \in {q \in HeldPad : h[q] = "in"}}
AwayIsEmpty(h, t) == \A i \in Table, p \in HeldPad : h[p] # "in" => t[i][p] = {}

LEMMA DownIsHeld ==
  ASSUME NEW t \in [Table -> [HeldPad -> SUBSET HeldKey]], NEW h, AwayIsEmpty(h, t)
  PROVE  DownOf(t) \subseteq HeldBy(h, t)
<1> SUFFICES ASSUME NEW k \in DownOf(t) PROVE k \in HeldBy(h, t)
  OBVIOUS
<1>1. PICK a \in AllOf(t) : k = a[3]
  BY DEF DownOf
<1>2. a[1] \in Table /\ a[2] \in HeldPad /\ k \in t[a[1]][a[2]]
  BY <1>1 DEF AllOf, Places
<1>3. h[a[2]] = "in"
  BY <1>2 DEF AwayIsEmpty
<1> QED
  BY <1>2, <1>3 DEF HeldBy

\* No more than one key is tapped at a time.
OneAtMost(tap) == tap = {} \/ \E k \in HeldKey : tap = {k}

\* The keys as a writer publishes them.
LEMMA PublishHolds ==
  ASSUME NEW t \in [Table -> [HeldPad -> SUBSET HeldKey]], NEW h, AwayIsEmpty(h, t),
         NEW tap, OneAtMost(tap)
  PROVE  /\ Merged(t, tap) \in SUBSET HeldKey /\ Cardinality(Merged(t, tap)) <= MaxKeys
         /\ Merged(t, tap) \subseteq tap \cup HeldBy(h, t)
  BY MergedFits, DownIsHeld DEF OneAtMost

HeldTyped ==
    /\ here \in [HeldPad -> {"in", "going", "gone"}]
    /\ held \in [HeldPad -> [HeldLevel -> SUBSET MouseButton]]
    /\ {clicks, clickDown, lastSent, hostMouse, wanted} \subseteq SUBSET MouseButton
    /\ {spun, dirty} \subseteq BOOLEAN
    /\ mouse \in {"off", "loop", "reads", "moves", "ended"}

KeysTyped ==
    /\ tables \in [Table -> [HeldPad -> SUBSET HeldKey]]
    /\ waiting \in Seq(HeldKey) /\ Len(waiting) <= MaxWaiting
    /\ {down, keys, hostKeys} \subseteq SUBSET HeldKey /\ Cardinality(keys) <= MaxKeys
    /\ kbd \in {"off", "step", "merge", "check", "send", "ended"}
    /\ letGo \in {"idle", "cleared"} /\ heldOps \in 0..MaxHeldOps

\* A pad that has gone has no key in any table, and one key is tapped at a time.
KeysInv ==
    /\ KeysTyped /\ AwayIsEmpty(here, tables) /\ OneAtMost(down)
    /\ kbd \notin {"merge", "ended"} /\ letGo = "idle" => keys \subseteq down \cup HeldBy(here, tables)

HeldInv == HeldTyped /\ KeysInv

LEMMA HeldMeans == HeldInv => HeldTypeOK /\ KeysAreHeld
  BY DEF HeldInv, HeldTyped, KeysInv, KeysTyped, HeldTypeOK, KeysAreHeld, HeldBy

LEMMA HeldBegins == HeldInit => HeldInv
<1> SUFFICES ASSUME HeldInit PROVE HeldInv
  OBVIOUS
<1>1. HeldTyped
  <2>1. {spun, dirty} \subseteq BOOLEAN
    BY Zenon DEF HeldInit
  <2> QED
    BY <2>1 DEF HeldInit, HeldTyped
<1>2. KeysTyped
  BY HeldAssumption, FS_EmptySet DEF HeldAssumption, HeldInit, KeysTyped
<1>3. AwayIsEmpty(here, tables) /\ OneAtMost(down)
  BY DEF HeldInit, AwayIsEmpty, OneAtMost
<1>4. keys = {}
  BY DEF HeldInit
<1> QED
  BY <1>1, <1>2, <1>3, <1>4 DEF HeldInv, KeysInv

LEMMA HeldTypedSteps ==
  ASSUME HeldInv, [HeldNext]_heldVars
  PROVE  HeldTyped'
<1> USE DEF HeldInv, HeldTyped, mouseVars, slotVars, pumpVars
<1>1. HeldTyped
  OBVIOUS
<1>2. CASE UNCHANGED heldVars
  BY <1>1, <1>2, Zenon DEF heldVars
<1>3. ASSUME NEW p \in HeldPad, NEW l \in HeldLevel, NEW m \in SUBSET MouseButton, SetButtons(p, l, m)
      PROVE  HeldTyped'
  <2>1. UNCHANGED <<here, clicks, spun, mouse, clickDown, lastSent, hostMouse, wanted, dirty>>
    BY <1>3, Zenon DEF SetButtons
  <2>2. held' \in [HeldPad -> [HeldLevel -> SUBSET MouseButton]]
    BY <1>1, <1>3 DEF SetButtons
  <2> QED
    BY <1>1, <2>1, <2>2, Zenon
<1>4. ASSUME NEW m \in SUBSET MouseButton, AddClick(m) PROVE HeldTyped'
  <2>1. UNCHANGED <<here, held, spun, mouse, clickDown, lastSent, hostMouse, wanted, dirty>>
    BY <1>4, Zenon DEF AddClick
  <2>2. clicks' \in SUBSET MouseButton
    BY <1>1, <1>4 DEF AddClick
  <2> QED
    BY <1>1, <2>1, <2>2
<1>5. ASSUME Spins PROVE HeldTyped'
  <2>1. UNCHANGED <<here, held, clicks, mouse, clickDown, lastSent, hostMouse, wanted, dirty>>
    BY <1>5, Zenon DEF Spins
  <2>2. {spun, dirty}' \subseteq BOOLEAN
    BY <1>1, <1>5, <2>1, Zenon DEF Spins
  <2> QED
    BY <1>1, <2>1, <2>2, Zenon
<1>6. ASSUME UNCHANGED <<here, mouseVars>>, dirty' \in BOOLEAN PROVE HeldTyped'
  <2>1. UNCHANGED <<here, held, clicks, spun, mouse, clickDown, lastSent, hostMouse, wanted>>
    BY <1>6, Zenon
  <2>2. {spun, dirty}' \subseteq BOOLEAN
    BY <1>1, <1>6, <2>1, Zenon
  <2> QED
    BY <1>1, <2>1, <2>2, Zenon
<1>7. ASSUME NEW t, NEW tap, Publish(t, tap) PROVE dirty' \in BOOLEAN
  BY <1>7, Zenon DEF Publish
<1>8. ASSUME NEW t \in Table, NEW p \in HeldPad, NEW ks, SetKeys(t, p, ks) PROVE HeldTyped'
  BY <1>6, <1>7, <1>8, Zenon DEF SetKeys
<1>9. ASSUME NEW k, PulseKey(k) PROVE HeldTyped'
  BY <1>1, <1>6, <1>9, Zenon DEF PulseKey
<1>10. ASSUME NEW p \in HeldPad, ForgetKeys(p) PROVE HeldTyped'
  <2>1. here' \in [HeldPad -> {"in", "going", "gone"}]
    BY <1>1, <1>10 DEF ForgetKeys
  <2>2. dirty' \in BOOLEAN
    BY <1>7, <1>10, Zenon DEF ForgetKeys
  <2>3. UNCHANGED <<held, clicks, spun, mouse, clickDown, lastSent, hostMouse, wanted>>
    BY <1>10, Zenon DEF ForgetKeys
  <2>4. {spun, dirty}' \subseteq BOOLEAN
    BY <1>1, <2>2, <2>3, Zenon
  <2> QED
    BY <1>1, <2>1, <2>3, <2>4, Zenon
<1>11. ASSUME NEW p \in HeldPad, ForgetButtons(p) PROVE HeldTyped'
  <2>1. UNCHANGED <<clicks, spun, mouse, clickDown, lastSent, hostMouse, wanted, dirty>>
    BY <1>11, Zenon DEF ForgetButtons
  <2>2. here' \in [HeldPad -> {"in", "going", "gone"}]
    BY <1>1, <1>11 DEF ForgetButtons
  <2>3. held' \in [HeldPad -> [HeldLevel -> SUBSET MouseButton]]
    BY <1>1, <1>11 DEF ForgetButtons
  <2> QED
    BY <1>1, <2>1, <2>2, <2>3, Zenon
<1>12. CASE ReleaseAll
  BY <1>1, <1>6, <1>12, Zenon DEF ReleaseAll
<1>13. CASE SetStateZero
  <2>1. dirty' \in BOOLEAN
    BY <1>13, Zenon DEF SetStateZero
  <2> QED
    BY <1>6, <1>13, <2>1, Zenon DEF SetStateZero
<1>14. CASE MouseStarts \/ MouseStops
  <2>1. UNCHANGED <<here, held, clicks, spun, clickDown, lastSent, wanted, dirty>>
    BY <1>14, Zenon DEF MouseStarts, MouseStops, MouseUnchanged
  <2>2. hostMouse' \in {hostMouse, {}} /\ mouse' \in {"loop", "ended"}
    BY <1>14 DEF MouseStarts, MouseStops, MouseUnchanged
  <2>3. {clicks, clickDown, lastSent, hostMouse, wanted}' \subseteq SUBSET MouseButton
    BY <1>1, <2>1, <2>2
  <2>4. mouse' \in {"off", "loop", "reads", "moves", "ended"}
    BY <2>2
  <2> QED
    BY <1>1, <2>1, <2>3, <2>4, Zenon
<1>15. ASSUME NEW late \in BOOLEAN, MouseReads(late) PROVE HeldTyped'
  <2>1. UNCHANGED <<here, held, lastSent, hostMouse, dirty>> /\ spun' = FALSE
    BY <1>15, Zenon DEF MouseReads, MouseUnchanged
  <2>2. mouse' \in {"off", "loop", "reads", "moves", "ended"}
    BY <1>15 DEF MouseReads
  <2>3. clickDown' \in SUBSET MouseButton /\ clicks' \in SUBSET MouseButton
    BY <1>1, <1>15 DEF MouseReads
  <2>4. wanted' \in SUBSET MouseButton
    <3>1. Combined(held) \in SUBSET MouseButton
      BY <1>1 DEF Combined
    <3> QED
      BY <1>15, <2>3, <3>1 DEF MouseReads
  <2>5. {spun, dirty}' \subseteq BOOLEAN
    BY <1>1, <2>1, Zenon
  <2>6. {clicks, clickDown, lastSent, hostMouse, wanted}' \subseteq SUBSET MouseButton
    BY <1>1, <2>1, <2>3, <2>4
  <2> QED
    BY <1>1, <2>1, <2>2, <2>5, <2>6, Zenon
<1>16. CASE MouseSends
  <2>1. UNCHANGED <<here, held, clicks, spun, clickDown, wanted, dirty>> /\ mouse' = "loop"
    BY <1>16, Zenon DEF MouseSends, MouseUnchanged
  <2>2. hostMouse' \in {hostMouse, wanted} /\ lastSent' \in {lastSent, wanted}
    BY <1>16 DEF MouseSends
  <2>3. {clicks, clickDown, lastSent, hostMouse, wanted}' \subseteq SUBSET MouseButton
    BY <1>1, <2>1, <2>2
  <2>4. mouse' \in {"off", "loop", "reads", "moves", "ended"}
    BY <2>1
  <2> QED
    BY <1>1, <2>1, <2>3, <2>4, Zenon
<1>17. CASE KbdStarts \/ KbdStops \/ KbdSends \/ \E late \in BOOLEAN : KbdPulse(late)
  <2>1. UNCHANGED <<here, mouseVars, dirty>>
    BY <1>17, Zenon DEF KbdStarts, KbdStops, KbdSends, KbdPulse, KbdUnchanged
  <2> QED
    BY <1>1, <1>6, <2>1, Zenon
<1>18. CASE KbdMerge
  BY <1>6, <1>7, <1>18, Zenon DEF KbdMerge, KbdUnchanged
<1>19. CASE KbdChecks
  BY <1>6, <1>19, Zenon DEF KbdChecks, KbdUnchanged
<1> QED
  BY <1>2, <1>3, <1>4, <1>5, <1>8, <1>9, <1>10, <1>11, <1>12, <1>13, <1>14, <1>15, <1>16,
     <1>17, <1>18, <1>19, Zenon DEF HeldNext, HeldWriters, MouseSteps, KbdSteps

\* A step that tells the keyboard nothing new.
LEMMA KeysStay ==
  ASSUME KeysInv, UNCHANGED <<tables, down, keys, waiting, letGo>>, hostKeys' \in {hostKeys, keys},
         \A p \in HeldPad : here'[p] = "in" <=> here[p] = "in",
         heldOps' \in 0..MaxHeldOps,
         kbd' \in {"off", "step", "merge", "check", "send", "ended"},
         kbd \in {"merge", "ended"} => kbd' \in {"merge", "ended"}
  PROVE  KeysInv'
<1>1. KeysTyped'
  <2>1. {down, keys, hostKeys}' \subseteq SUBSET HeldKey
    BY DEF KeysInv, KeysTyped
  <2> QED
    BY <2>1 DEF KeysInv, KeysTyped
<1>2. AwayIsEmpty(here, tables)' /\ OneAtMost(down)'
  BY DEF KeysInv, AwayIsEmpty, OneAtMost
<1>3. HeldBy(here, tables)' = HeldBy(here, tables)
  BY DEF HeldBy
<1> QED
  BY <1>1, <1>2, <1>3 DEF KeysInv

\* A step that publishes the tables t.
LEMMA KeysPublished ==
  ASSUME KeysInv, NEW t \in [Table -> [HeldPad -> SUBSET HeldKey]], Publish(t, down),
         AwayIsEmpty(here', t), UNCHANGED <<down, waiting, hostKeys>>,
         letGo' = letGo, heldOps' \in 0..MaxHeldOps,
         kbd' \in {"off", "step", "merge", "check", "send", "ended"}
  PROVE  KeysInv'
<1>1. OneAtMost(down)
  BY DEF KeysInv
<1>2. tables' = t /\ keys' = Merged(t, down) /\ down' = down
  BY DEF Publish
<1>3. /\ keys' \in SUBSET HeldKey /\ Cardinality(keys') <= MaxKeys
      /\ keys' \subseteq down \cup HeldBy(here', t)
  BY <1>1, <1>2, PublishHolds
<1>4. KeysTyped'
  BY <1>2, <1>3 DEF KeysInv, KeysTyped
<1>5. AwayIsEmpty(here, tables)' /\ OneAtMost(down)'
  BY <1>1, <1>2 DEF AwayIsEmpty, OneAtMost
<1>6. (keys \subseteq down \cup HeldBy(here, tables))'
  BY <1>2, <1>3
<1> QED
  BY <1>4, <1>5, <1>6 DEF KeysInv

LEMMA KeysSteps ==
  ASSUME HeldInv, [HeldNext]_heldVars
  PROVE  KeysInv'
<1>1. KeysInv /\ here \in [HeldPad -> {"in", "going", "gone"}]
      /\ tables \in [Table -> [HeldPad -> SUBSET HeldKey]] /\ heldOps \in 0..MaxHeldOps
  BY DEF HeldInv, HeldTyped, KeysInv, KeysTyped
<1>2. Calls => heldOps' \in 0..MaxHeldOps
  BY <1>1, HeldAssumption DEF Calls, HeldAssumption
<1>3. kbd \in {"off", "step", "merge", "check", "send", "ended"}
  BY <1>1 DEF KeysInv, KeysTyped
<1>4. CASE UNCHANGED heldVars
  BY <1>1, <1>3, <1>4, KeysStay DEF heldVars, slotVars, pumpVars
<1>5. CASE \/ MouseStarts \/ MouseStops \/ MouseSends \/ Spins
           \/ \E late \in BOOLEAN : MouseReads(late)
           \/ \E m \in SUBSET MouseButton \ {{}} : AddClick(m)
           \/ \E p \in HeldPad, l \in HeldLevel, m \in SUBSET MouseButton : SetButtons(p, l, m)
  <2>1. UNCHANGED <<here, tables, down, keys, waiting, letGo, hostKeys, kbd>>
    BY <1>5, Zenon DEF MouseStarts, MouseStops, MouseSends, MouseReads, Spins, AddClick, SetButtons,
       MouseUnchanged, slotVars, pumpVars
  <2>2. Calls \/ heldOps' = heldOps
    BY <1>5, Zenon DEF MouseStarts, MouseStops, MouseSends, MouseReads, Spins, AddClick, SetButtons,
       MouseUnchanged
  <2> QED
    BY <1>1, <1>2, <1>3, <2>1, <2>2, KeysStay
<1>6. ASSUME NEW t \in Table, NEW p \in HeldPad, NEW ks \in SUBSET HeldKey, SetKeys(t, p, ks)
      PROVE  KeysInv'
  <2> DEFINE T == [tables EXCEPT ![t][p] = ks]
  <2>1. /\ Publish(T, down) /\ UNCHANGED <<here, waiting, down, kbd, hostKeys, letGo>> /\ Calls
        /\ here[p] = "in"
    BY <1>6, Zenon DEF SetKeys, pumpVars
  <2>2. T \in [Table -> [HeldPad -> SUBSET HeldKey]]
    BY <1>1
  <2>3. AwayIsEmpty(here', T)
    BY <1>1, <2>1 DEF AwayIsEmpty, KeysInv
  <2> HIDE DEF T
  <2> QED
    BY <1>1, <1>2, <1>3, <2>1, <2>2, <2>3, KeysPublished
<1>7. ASSUME NEW k \in HeldKey, PulseKey(k) PROVE KeysInv'
  <2>1. /\ UNCHANGED <<here, tables, keys, down, kbd, hostKeys, letGo>> /\ Calls
        /\ waiting' = IF Len(waiting) < MaxWaiting THEN Append(waiting, k) ELSE waiting
    BY <1>7, Zenon DEF PulseKey, slotVars
  <2>2. waiting' \in Seq(HeldKey) /\ Len(waiting') <= MaxWaiting
    <3>1. waiting \in Seq(HeldKey) /\ Len(waiting) <= MaxWaiting /\ MaxWaiting \in Nat
      BY <1>1, HeldAssumption DEF HeldAssumption, KeysInv, KeysTyped
    <3>2. CASE Len(waiting) < MaxWaiting
      <4>1. waiting' = Append(waiting, k)
        BY <2>1, <3>2
      <4> QED
        BY <3>1, <3>2, <4>1
    <3> QED
      BY <2>1, <3>1, <3>2
  <2> QED
    BY <1>1, <1>2, <2>1, <2>2 DEF KeysInv, KeysTyped, AwayIsEmpty, OneAtMost, HeldBy
<1>8. ASSUME NEW p \in HeldPad, ForgetKeys(p) PROVE KeysInv'
  <2> DEFINE T == [t \in Table |-> [tables[t] EXCEPT ![p] = {}]]
  <2>1. /\ Publish(T, down) /\ UNCHANGED <<waiting, down, kbd, hostKeys, letGo, heldOps>>
        /\ here' = [here EXCEPT ![p] = "going"]
    BY <1>8, Zenon DEF ForgetKeys, pumpVars
  <2>2. T \in [Table -> [HeldPad -> SUBSET HeldKey]]
    BY <1>1
  <2>3. AwayIsEmpty(here', T)
    BY <1>1, <2>1 DEF AwayIsEmpty, KeysInv
  <2> HIDE DEF T
  <2> QED
    BY <1>1, <1>3, <2>1, <2>2, <2>3, KeysPublished
<1>9. ASSUME NEW p \in HeldPad, ForgetButtons(p) PROVE KeysInv'
  <2>1. /\ UNCHANGED <<tables, keys, waiting, down, kbd, hostKeys, letGo, heldOps>>
        /\ here[p] = "going" /\ here' = [here EXCEPT ![p] = "gone"]
    BY <1>9, Zenon DEF ForgetButtons, pumpVars, slotVars
  <2>2. \A q \in HeldPad : here'[q] = "in" <=> here[q] = "in"
    BY <1>1, <2>1
  <2> QED
    BY <1>1, <1>3, <2>1, <2>2, KeysStay
<1>10. CASE ReleaseAll
  <2>1. /\ UNCHANGED <<here, keys, waiting, down, kbd, hostKeys>> /\ Calls /\ letGo' = "cleared"
        /\ tables' = [tables EXCEPT ![0] = [p \in HeldPad |-> {}]]
    BY <1>10, Zenon DEF ReleaseAll, pumpVars
  <2>2. tables' \in [Table -> [HeldPad -> SUBSET HeldKey]] /\ AwayIsEmpty(here, tables)'
    BY <1>1, <2>1 DEF AwayIsEmpty, KeysInv
  <2>3. KeysTyped' /\ OneAtMost(down)'
    BY <1>1, <1>2, <2>1, <2>2 DEF KeysInv, KeysTyped, OneAtMost
  <2> QED
    BY <2>1, <2>2, <2>3 DEF KeysInv
<1>11. CASE SetStateZero
  <2>1. /\ UNCHANGED <<here, tables, waiting, down, kbd, hostKeys, heldOps>>
        /\ letGo' = "idle" /\ keys' = {}
    BY <1>11, Zenon DEF SetStateZero, pumpVars
  <2>2. AwayIsEmpty(here, tables)' /\ OneAtMost(down)' /\ keys' \subseteq down' \cup HeldBy(here, tables)'
    BY <1>1, <2>1 DEF AwayIsEmpty, KeysInv, OneAtMost
  <2>3. KeysTyped'
    BY <1>1, <2>1, FS_EmptySet, HeldAssumption DEF KeysInv, KeysTyped, HeldAssumption
  <2> QED
    BY <2>2, <2>3 DEF KeysInv
<1>12. CASE KbdStarts \/ KbdChecks \/ KbdSends
  <2>1. /\ UNCHANGED <<here, tables, keys, waiting, down, letGo, heldOps>>
        /\ kbd \notin {"merge", "ended"} /\ kbd' \in {"step", "send"}
        /\ hostKeys' \in {hostKeys, keys}
    BY <1>12 DEF KbdStarts, KbdChecks, KbdSends, KbdUnchanged, slotVars
  <2> QED
    BY <1>1, <2>1, KeysStay
<1>13. ASSUME NEW late \in BOOLEAN, KbdPulse(late) PROVE KeysInv'
  <2>1. UNCHANGED <<here, tables, keys, letGo, heldOps, hostKeys>> /\ kbd = "step"
    BY <1>13, Zenon DEF KbdPulse, KbdUnchanged, slotVars
  <2>2. CASE kbd' = "check" /\ UNCHANGED <<waiting, down>>
    BY <1>1, <2>1, <2>2, KeysStay
  <2>3. CASE ~(~late \/ (down = {} /\ waiting = <<>>))
    <3>1. /\ kbd' = "merge" /\ down' = (IF down # {} THEN {} ELSE {Head(waiting)})
          /\ waiting' = (IF down # {} THEN waiting ELSE Tail(waiting))
          /\ ~(down = {} /\ waiting = <<>>)
      BY <1>13, <2>3 DEF KbdPulse
    <3>2. waiting \in Seq(HeldKey) /\ Len(waiting) <= MaxWaiting
      BY <1>1 DEF KeysInv, KeysTyped
    <3>3. /\ OneAtMost(down') /\ down' \in SUBSET HeldKey
          /\ waiting' \in Seq(HeldKey) /\ Len(waiting') <= MaxWaiting
      <4>1. CASE down # {}
        BY <3>1, <3>2, <4>1 DEF OneAtMost
      <4>2. CASE down = {}
        <5>1. waiting # <<>> /\ down' = {Head(waiting)} /\ waiting' = Tail(waiting)
          BY <3>1, <4>2
        <5>2. Head(waiting) \in HeldKey /\ Tail(waiting) \in Seq(HeldKey)
              /\ Len(Tail(waiting)) <= Len(waiting)
          BY <3>2, <5>1
        <5>3. Len(Tail(waiting)) \in Nat /\ Len(waiting) \in Nat /\ MaxWaiting \in Nat
          BY <3>2, <5>2, HeldAssumption DEF HeldAssumption
        <5> QED
          BY <3>2, <5>1, <5>2, <5>3 DEF OneAtMost
      <4> QED
        BY <4>1, <4>2
    <3>4. KeysTyped'
      BY <1>1, <2>1, <3>1, <3>3 DEF KeysInv, KeysTyped
    <3>5. AwayIsEmpty(here, tables)' /\ OneAtMost(down)'
      BY <1>1, <2>1, <3>3 DEF KeysInv, AwayIsEmpty
    <3> QED
      BY <3>1, <3>4, <3>5 DEF KeysInv
  <2> QED
    BY <1>13, <2>2, <2>3 DEF KbdPulse
<1>14. CASE KbdMerge
  <2>1. /\ Publish(tables, down) /\ UNCHANGED <<here, waiting, down, hostKeys, letGo, heldOps>>
        /\ kbd' = "check"
    BY <1>14, Zenon DEF KbdMerge, KbdUnchanged
  <2>2. AwayIsEmpty(here', tables)
    BY <1>1, <2>1 DEF KeysInv
  <2> QED
    BY <1>1, <2>1, <2>2, KeysPublished
<1>15. CASE KbdStops
  <2>1. /\ UNCHANGED <<here, tables, keys, hostKeys, letGo, heldOps>>
        /\ kbd' = "ended" /\ waiting' = <<>> /\ down' = {}
    BY <1>15, Zenon DEF KbdStops, KbdUnchanged, slotVars
  <2>2. AwayIsEmpty(here, tables)' /\ OneAtMost(down)'
    BY <1>1, <2>1 DEF KeysInv, AwayIsEmpty, OneAtMost
  <2>3. KeysTyped'
    BY <1>1, <2>1, HeldAssumption DEF KeysInv, KeysTyped, HeldAssumption
  <2> QED
    BY <2>1, <2>2, <2>3 DEF KeysInv
<1> QED
  BY <1>4, <1>5, <1>6, <1>7, <1>8, <1>9, <1>10, <1>11, <1>12, <1>13, <1>14, <1>15, Zenon
     DEF HeldNext, HeldWriters, MouseSteps, KbdSteps

LEMMA HeldSteps == ASSUME HeldInv, [HeldNext]_heldVars PROVE HeldInv'
  BY HeldTypedSteps, KeysSteps DEF HeldInv
----------------------------------------------------------------------------
(* PadGate: what the game gets of a pad whose buttons drive the window.    *)

GateKey == {"cross", "square", "key", "osk"}

PadsTyped ==
    /\ press \in [GPad -> SUBSET Button] /\ fingers \in [GPad -> BOOLEAN]
    /\ taps \in [GPad -> {"none", "held", "tapped"}]

EdgesTyped ==
    /\ lastOptions \in [GPad -> BOOLEAN] /\ passOptions \in [GPad -> BOOLEAN]
    /\ squareHeld \in [GPad -> BOOLEAN] /\ edgeHeld \in [GPad -> BOOLEAN]
    /\ gateEdgeHeld \in [GPad -> BOOLEAN]

OutsTyped ==
    /\ game \in [GPad -> SUBSET Button] /\ kb \in [GPad -> SUBSET GateKey]
    /\ ms \in [GPad -> BOOLEAN]

FlagsTyped ==
    /\ gateHold \in BOOLEAN /\ provisional \in BOOLEAN /\ fromFile \in BOOLEAN
    /\ lastFromFile \in BOOLEAN /\ loop \in {"idle", "on", "off", "free", "blurs"}

PageTyped ==
    /\ front \in BOOLEAN /\ editing \in BOOLEAN /\ shown \in BOOLEAN /\ forPage \in BOOLEAN
    /\ steady \in BOOLEAN /\ opening \in {"no", "waits", "sets"} /\ bind \in Binding

WayTyped ==
    /\ stage \in [GPad -> Stage] /\ rep \in [GPad -> SUBSET Button]
    /\ mask \in [GPad -> SUBSET Button] /\ gated \in [GPad -> BOOLEAN]

OwedTyped == owed \in [GPad -> SUBSET Button] /\ flying \in [GPad -> BOOLEAN]

AnyGate == [mode : BOOLEAN, swallow : SUBSET Button]

GateInv ==
    /\ PadsTyped /\ EdgesTyped /\ OutsTyped /\ FlagsTyped /\ PageTyped /\ WayTyped /\ OwedTyped
    /\ gate \in AnyGate

\* What is owed is in the mask, and not in a report that has seen it and is not one of those
\* on their way at the time.  What came in config mode stays there while the mode does.
MaskInv ==
    \A p \in GPad :
        /\ owed[p] \subseteq gate.swallow
        /\ owed[p] \cap game[p] \subseteq {"cross"}
        /\ Saw(p) /\ ~flying[p] => Left(p) \cap owed[p] = {}
        /\ gated[p] => gate.mode /\ front /\ stage[p] # "play"

\* A report that was in config mode all along gives the game the chord's Options at most.
GameKept ==
    \A p \in GPad : gated[p] /\ stage[p] # "idle" /\ stage'[p] = "idle" =>
        game'[p] \subseteq (IF passOptions[p] THEN {"options"} ELSE {})

LEMMA GateMeans == GateInv => GateTypeOK
<1> SUFFICES ASSUME GateInv PROVE GateTypeOK
  OBVIOUS
<1>1. {fingers, lastOptions, passOptions, squareHeld, edgeHeld, gateEdgeHeld, ms, flying, gated}
        \subseteq [GPad -> BOOLEAN]
  BY Zenon DEF GateInv, PadsTyped, EdgesTyped, OutsTyped, WayTyped, OwedTyped
<1>2. {gateHold, provisional, fromFile, lastFromFile, front, editing, shown, forPage, steady}
         \subseteq BOOLEAN
  BY Zenon DEF GateInv, FlagsTyped, PageTyped
<1>3. {press, game, rep, mask, owed} \subseteq [GPad -> SUBSET Button]
  BY Zenon DEF GateInv, PadsTyped, OutsTyped, WayTyped, OwedTyped
<1> QED
  BY <1>1, <1>2, <1>3, Zenon DEF GateInv, GateTypeOK, PadsTyped, OutsTyped, FlagsTyped, PageTyped,
     WayTyped, AnyGate, GateKey

LEMMA GateBegins == GateInit => GateInv /\ MaskInv
<1> SUFFICES ASSUME GateInit PROVE GateInv /\ MaskInv
  OBVIOUS
<1>1. PadsTyped
  BY DEF GateInit, PadsTyped
<1>2. \A f : f = [p \in GPad |-> FALSE] => f \in [GPad -> BOOLEAN]
  OBVIOUS
<1>3. \A f : f = [p \in GPad |-> {}] => f \in [GPad -> SUBSET Button] /\ f \in [GPad -> SUBSET GateKey]
  OBVIOUS
<1>4. EdgesTyped
  BY <1>2, Zenon DEF GateInit, EdgesTyped
<1>5. OutsTyped
  BY <1>2, <1>3, Zenon DEF GateInit, OutsTyped
<1>6. PageTyped
  <2>1. editing \in BOOLEAN /\ front \in BOOLEAN /\ steady \in BOOLEAN
    BY Zenon DEF GateInit
  <2> QED
    BY <2>1, Zenon DEF GateInit, PageTyped
<1>7. FlagsTyped
  <2>1. gateHold \in BOOLEAN /\ provisional \in BOOLEAN /\ fromFile \in BOOLEAN /\ lastFromFile \in BOOLEAN
    BY Zenon DEF GateInit
  <2>2. loop \in {"idle", "on", "off", "free", "blurs"}
    BY DEF GateInit
  <2> QED
    BY <2>1, <2>2 DEF FlagsTyped
<1>8. WayTyped /\ OwedTyped
  <2>1. stage \in [GPad -> Stage]
    BY DEF GateInit, Stage
  <2> QED
    BY <1>2, <1>3, <2>1, Zenon DEF GateInit, WayTyped, OwedTyped
<1>9. gate \in AnyGate
  <2>1. {FALSE, front} \subseteq BOOLEAN
    BY Zenon DEF GateInit
  <2>2. gate \in [mode : {FALSE, front}, swallow : {{}}]
    BY DEF GateInit
  <2> QED
    BY <2>1, <2>2 DEF AnyGate
<1>10. MaskInv
  <2>1. \A p \in GPad : owed[p] = {} /\ stage[p] = "idle" /\ gated[p] = FALSE
    BY DEF GateInit
  <2> QED
    BY <2>1 DEF MaskInv, Saw
<1> QED
  BY <1>1, <1>4, <1>5, <1>6, <1>7, <1>8, <1>9, <1>10 DEF GateInv

\* A flag of one pad.
LEMMA FlagAt ==
  ASSUME NEW f \in [GPad -> BOOLEAN], NEW p \in GPad, NEW b \in BOOLEAN
  PROVE  [f EXCEPT ![p] = b] \in [GPad -> BOOLEAN]
  OBVIOUS

\* A step that brings the game nothing, owes nothing new and has no report see its mask.
LEMMA QuietKeeps ==
  ASSUME MaskInv,
         \A q \in GPad :
            /\ owed'[q] \subseteq owed[q] /\ owed'[q] \subseteq gate'.swallow
            /\ game'[q] \subseteq game[q]
            /\ (Saw(q)' /\ ~flying'[q]) =>
                  /\ Saw(q) /\ ~flying[q]
                  /\ rep'[q] = rep[q] /\ mask'[q] = mask[q]
            /\ gated'[q] => gated[q] /\ gate'.mode /\ front' /\ stage'[q] # "play"
            /\ stage'[q] = "idle" => stage[q] = "idle"
  PROVE  MaskInv' /\ GameKept
<1>1. GameKept
  BY DEF GameKept
<1>2. MaskInv'
  <2> SUFFICES ASSUME NEW q \in GPad
               PROVE  /\ owed'[q] \subseteq gate'.swallow
                      /\ owed'[q] \cap game'[q] \subseteq {"cross"}
                      /\ Saw(q)' /\ ~flying'[q] => Left(q)' \cap owed'[q] = {}
                      /\ gated'[q] => gate'.mode /\ front' /\ stage'[q] # "play"
    BY DEF MaskInv
  <2>1. owed'[q] \cap game'[q] \subseteq {"cross"}
    BY DEF MaskInv
  <2>2. Saw(q)' /\ ~flying'[q] => Left(q)' \cap owed'[q] = {}
    BY DEF MaskInv, Left
  <2> QED
    BY <2>1, <2>2
<1> QED
  BY <1>1, <1>2

\* What a step leaves alone when no pad's report is through.
LEMMA CalmKeeps ==
  ASSUME GateInv, MaskInv, UNCHANGED <<owed, flying, game, rep, mask>>,
         gate'.swallow = gate.swallow,
         \A q \in GPad : /\ Saw(q)' => Saw(q)
                         /\ gated'[q] => gated[q] /\ gate'.mode /\ front' /\ stage'[q] # "play"
                         /\ stage'[q] = "idle" => stage[q] = "idle"
  PROVE  MaskInv' /\ GameKept
  BY QuietKeeps DEF MaskInv

\* The mask is armed: what is down and the game has not is owed from here on.
LEMMA OwesKeeps ==
  ASSUME GateInv, MaskInv, Owes, gate'.swallow = Button, gate'.mode = gate.mode,
         UNCHANGED <<game, rep, mask, gated, front>>,
         \A q \in GPad : /\ Saw(q)' => Saw(q)
                         /\ stage'[q] = "play" => stage[q] = "play"
                         /\ stage'[q] = "idle" => stage[q] = "idle"
  PROVE  MaskInv' /\ GameKept /\ OwedTyped'
<1>1. /\ owed' = [q \in GPad |-> press[q] \ game[q]]
      /\ flying' = [q \in GPad |-> flying[q] \/ Saw(q)]
  BY Zenon DEF Owes
<1>2. press \in [GPad -> SUBSET Button] /\ game \in [GPad -> SUBSET Button]
  BY DEF GateInv, PadsTyped, OutsTyped
<1>3. GameKept
  BY DEF GameKept
<1>4. OwedTyped'
  <2>1. \A q \in GPad : (flying[q] \/ Saw(q)) \in BOOLEAN
    BY Zenon
  <2>2. flying' \in [GPad -> BOOLEAN]
    BY <1>1, <2>1
  <2>3. owed' \in [GPad -> SUBSET Button]
    BY <1>1, <1>2
  <2> QED
    BY <2>2, <2>3 DEF OwedTyped
<1>5. \A q \in GPad : owed'[q] \subseteq gate'.swallow /\ owed'[q] \cap game'[q] = {}
  BY <1>1, <1>2
<1>6. \A q \in GPad : Saw(q) => flying'[q]
  BY <1>1, Zenon
<1>7. \A q \in GPad : gated'[q] => gate'.mode /\ front' /\ stage'[q] # "play"
  BY DEF MaskInv
<1> QED
  BY <1>3, <1>4, <1>5, <1>6, <1>7 DEF MaskInv

LEMMA ArmsIs ==
  ASSUME GateInv, Arms
  PROVE  /\ gate' \in AnyGate /\ gate'.mode = gate.mode
         /\ \/ Owes /\ gate'.swallow = Button
            \/ UNCHANGED <<gate, owed, flying>>
<1>1. CASE gate.mode
  <2>1. gate' = [gate EXCEPT !.swallow = Button] /\ Owes
    BY <1>1 DEF Arms
  <2> QED
    BY <2>1 DEF GateInv, AnyGate
<1>2. CASE ~gate.mode
  <2>1. UNCHANGED <<gate, owed, flying>>
    BY <1>2, Zenon DEF Arms, owedVars
  <2> QED
    BY <2>1 DEF GateInv
<1> QED
  BY <1>1, <1>2

\* A step that may arm the mask, and moves no report to its way out or home.
LEMMA ArmsKeeps ==
  ASSUME GateInv, MaskInv, Arms \/ UNCHANGED <<gate, owedVars>>,
         UNCHANGED <<game, rep, mask, gated, front>>,
         \A q \in GPad : /\ Saw(q)' => Saw(q)
                         /\ stage'[q] = "play" => stage[q] = "play"
                         /\ stage'[q] = "idle" => stage[q] = "idle"
  PROVE  MaskInv' /\ GameKept /\ OwedTyped' /\ gate' \in AnyGate
<1>1. CASE Arms /\ Owes /\ gate'.swallow = Button
  BY <1>1, ArmsIs, OwesKeeps
<1>2. CASE UNCHANGED <<gate, owed, flying>>
  <2>1. \A q \in GPad : gated'[q] => gated[q] /\ gate'.mode /\ front' /\ stage'[q] # "play"
    BY <1>2 DEF MaskInv
  <2>2. MaskInv' /\ GameKept
    BY <1>2, <2>1, CalmKeeps
  <2>3. OwedTyped' /\ gate' \in AnyGate
    BY <1>2, Zenon DEF GateInv, OwedTyped
  <2> QED
    BY <2>2, <2>3
<1>3. UNCHANGED <<gate, owedVars>> => UNCHANGED <<gate, owed, flying>>
  BY Zenon DEF owedVars
<1> QED
  BY <1>1, <1>2, <1>3, ArmsIs

\* The exchange of the mode.
LEMMA TurnsIs ==
  ASSUME GateInv, NEW on \in BOOLEAN, Turns(on)
  PROVE  /\ gate' \in AnyGate /\ gate'.mode = on /\ gate'.swallow = gate.swallow
         /\ kb' \in [GPad -> SUBSET GateKey] /\ gated' \in [GPad -> BOOLEAN]
         /\ \A q \in GPad : gated'[q] => gated[q] /\ on
<1>1. /\ gate' = [gate EXCEPT !.mode = on] /\ gated' = [q \in GPad |-> gated[q] /\ on]
      /\ kb' = kb \/ kb' = [q \in GPad |-> {}]
  BY Zenon DEF Turns
<1>2. \A q \in GPad : (gated[q] /\ on) \in BOOLEAN
  BY Zenon
<1>3. gated' \in [GPad -> BOOLEAN]
  BY <1>1, <1>2
<1>4. \A q \in GPad : gated'[q] = (gated[q] /\ on)
  BY <1>1
<1>5. \A q \in GPad : gated'[q] => gated[q] /\ on
  BY <1>4, Zenon
<1>6. gate' \in AnyGate /\ gate'.mode = on /\ gate'.swallow = gate.swallow
  BY <1>1 DEF GateInv, AnyGate
<1>7. kb' \in [GPad -> SUBSET GateKey]
  BY <1>1 DEF GateInv, OutsTyped
<1> QED
  BY <1>3, <1>5, <1>6, <1>7

\* A step that turns the mode and moves reports on, none to its way out and none home.
LEMMA TurnsKeeps ==
  ASSUME GateInv, MaskInv, NEW on \in BOOLEAN, Turns(on),
         UNCHANGED <<owed, flying, game, rep, mask, front>>,
         \A q \in GPad : /\ Saw(q)' => Saw(q)
                         /\ stage'[q] = "play" => stage[q] = "play"
                         /\ stage'[q] = "idle" => stage[q] = "idle"
  PROVE  MaskInv' /\ GameKept
<1>1. gate'.swallow = gate.swallow /\ \A q \in GPad : gated'[q] => gated[q] /\ gate'.mode
  BY TurnsIs
<1>2. \A q \in GPad : gated'[q] => gated[q] /\ gate'.mode /\ front' /\ stage'[q] # "play"
  BY <1>1 DEF MaskInv
<1> QED
  BY <1>1, <1>2, CalmKeeps

\* A group of variables that a step leaves alone stays well-formed.
LEMMA GroupsStay ==
  ASSUME GateInv
  PROVE  /\ (UNCHANGED padVars => PadsTyped') /\ (UNCHANGED edgeVars => EdgesTyped')
         /\ (UNCHANGED outVars => OutsTyped') /\ (UNCHANGED uiVars => PageTyped')
         /\ (UNCHANGED wayVars => WayTyped') /\ (UNCHANGED owedVars => OwedTyped')
<1>1. UNCHANGED padVars => PadsTyped'
  BY Zenon DEF GateInv, PadsTyped, padVars
<1>2. UNCHANGED edgeVars => EdgesTyped'
  BY Zenon DEF GateInv, EdgesTyped, edgeVars
<1>3. UNCHANGED outVars => OutsTyped'
  BY Zenon DEF GateInv, OutsTyped, outVars
<1>4. UNCHANGED uiVars => PageTyped'
  BY Zenon DEF GateInv, PageTyped, uiVars
<1>5. UNCHANGED wayVars => WayTyped'
  BY Zenon DEF GateInv, WayTyped, wayVars
<1>6. UNCHANGED owedVars => OwedTyped'
  BY Zenon DEF GateInv, OwedTyped, owedVars
<1> QED
  BY <1>1, <1>2, <1>3, <1>4, <1>5, <1>6

\* A report of one pad moves on.
LEMMA StageMoves ==
  ASSUME GateInv, NEW p \in GPad, NEW x \in Stage, stage' = [stage EXCEPT ![p] = x]
  PROVE  /\ stage' \in [GPad -> Stage] /\ stage'[p] = x
         /\ \A q \in GPad : q # p => stage'[q] = stage[q]
  BY DEF GateInv, WayTyped

LEMMA ArrivesKeeps ==
  ASSUME GateInv, MaskInv, NEW p \in GPad, Arrives(p)
  PROVE  GateInv' /\ MaskInv' /\ GameKept
<1> DEFINE chord == /\ fingers[p] /\ "options" \in press[p] /\ ~lastOptions[p] /\ ~gate.mode
           first == chord /\ opening = "no"
           last == "options" \in press[p]
           pass == chord \/ (passOptions[p] /\ last)
           both == gate.mode /\ front
           prov == provisional \/ chord
           hold == gateHold /\ ~chord
           x == IF first THEN "opens" ELSE "file"
<1>1. /\ lastOptions' = [lastOptions EXCEPT ![p] = last]
      /\ passOptions' = [passOptions EXCEPT ![p] = pass]
      /\ opening' \in {"waits", opening} /\ provisional' = prov /\ gateHold' = hold
      /\ stage' = [stage EXCEPT ![p] = x] /\ rep' = [rep EXCEPT ![p] = press[p]]
      /\ gated' = [gated EXCEPT ![p] = both]
  BY DEF Arrives
<1>2. /\ stage[p] = "idle"
      /\ UNCHANGED <<padVars, squareHeld, edgeHeld, gateEdgeHeld, gate, fromFile, lastFromFile,
                     loop, front, editing, shown, forPage, bind, steady, outVars, mask, owedVars>>
  BY Zenon DEF Arrives
<1>3. last \in BOOLEAN /\ pass \in BOOLEAN /\ both \in BOOLEAN /\ prov \in BOOLEAN /\ hold \in BOOLEAN
  <2>1. last \in BOOLEAN
    OBVIOUS
  <2>2. pass \in BOOLEAN
    BY Zenon
  <2>3. both \in BOOLEAN
    BY Zenon
  <2>4. prov \in BOOLEAN
    BY Zenon
  <2>5. hold \in BOOLEAN
    BY Zenon
  <2> QED
    BY <2>1, <2>2, <2>3, <2>4, <2>5, Zenon
<1>4. x \in {"opens", "file"} /\ x \in Stage
  BY DEF Stage
<1> HIDE DEF chord, first, last, pass, prov, hold, x
<1>5. EdgesTyped'
  <2>1. lastOptions' \in [GPad -> BOOLEAN] /\ passOptions' \in [GPad -> BOOLEAN]
    BY <1>1, <1>3, FlagAt DEF GateInv, EdgesTyped
  <2> QED
    BY <1>2, <2>1, Zenon DEF GateInv, EdgesTyped
<1>6. PageTyped'
  <2>1. opening' \in {"no", "waits", "sets"}
    BY <1>1 DEF GateInv, PageTyped
  <2> QED
    BY <1>2, <2>1, Zenon DEF GateInv, PageTyped
<1>7. FlagsTyped'
  BY <1>1, <1>2, <1>3, Zenon DEF GateInv, FlagsTyped
<1>8. WayTyped'
  <2>1. stage' \in [GPad -> Stage]
    BY <1>1, <1>4, StageMoves
  <2>2. gated' \in [GPad -> BOOLEAN]
    <3> HIDE DEF both
    <3> QED
      BY <1>1, <1>3, FlagAt DEF GateInv, WayTyped
  <2>3. rep' \in [GPad -> SUBSET Button]
    BY <1>1 DEF GateInv, WayTyped, PadsTyped
  <2> QED
    BY <1>2, <2>1, <2>2, <2>3, Zenon DEF GateInv, WayTyped
<1>9. GateInv'
  BY <1>2, <1>5, <1>6, <1>7, <1>8, GroupsStay, Zenon DEF GateInv
<1>10. UNCHANGED <<owed, flying, game, mask, gate, front>>
  BY <1>2, Zenon DEF owedVars, outVars
<1>11. \A q \in GPad : /\ q # p => stage'[q] = stage[q] /\ rep'[q] = rep[q] /\ gated'[q] = gated[q]
                       /\ q = p => stage'[q] \in {"opens", "file"} /\ gated'[q] = both
  BY <1>1, <1>4 DEF GateInv, WayTyped
<1>12. \A q \in GPad :
            /\ (Saw(q)' /\ ~flying'[q]) => Saw(q) /\ ~flying[q] /\ rep'[q] = rep[q] /\ mask'[q] = mask[q]
            /\ gated'[q] => gate'.mode /\ front' /\ stage'[q] # "play"
  BY <1>10, <1>11 DEF MaskInv, Saw
<1>13. \A q \in GPad : stage'[q] # "idle" \/ stage[q] = "idle"
  BY <1>11
<1>14. MaskInv'
  BY <1>10, <1>12 DEF MaskInv, Left
<1>15. GameKept
  BY <1>13 DEF GameKept
<1> QED
  BY <1>9, <1>14, <1>15

LEMMA FilesKeeps ==
  ASSUME GateInv, MaskInv, NEW p \in GPad, Files(p)
  PROVE  GateInv' /\ MaskInv' /\ GameKept
<1> DEFINE changed == fromFile # lastFromFile
           x == IF changed /\ ~fromFile THEN "off"
                ELSE IF changed /\ ~gateHold THEN "on" ELSE "timer"
<1>1. /\ stage[p] = "file" /\ lastFromFile' = fromFile /\ stage' = [stage EXCEPT ![p] = x]
      /\ Arms \/ UNCHANGED <<gate, owedVars>>
      /\ UNCHANGED <<padVars, edgeVars, gateHold, provisional, fromFile, loop, uiVars, outVars,
                     rep, mask, gated>>
  BY Zenon DEF Files
<1>2. x \in {"on", "off", "timer"} /\ x \in Stage
  BY DEF Stage
<1> HIDE DEF x, changed
<1>3. stage' \in [GPad -> Stage] /\ stage'[p] = x /\ \A q \in GPad : q # p => stage'[q] = stage[q]
  BY <1>1, <1>2, StageMoves
<1>4. UNCHANGED <<game, rep, mask, gated, front>>
  BY <1>1, Zenon DEF outVars, uiVars
<1>5. \A q \in GPad : /\ Saw(q)' => Saw(q)
                      /\ stage'[q] = "play" => stage[q] = "play"
                      /\ stage'[q] = "idle" => stage[q] = "idle"
  BY <1>2, <1>3 DEF Saw
<1>6. MaskInv' /\ GameKept /\ OwedTyped' /\ gate' \in AnyGate
  BY <1>1, <1>4, <1>5, ArmsKeeps
<1>7. FlagsTyped' /\ WayTyped'
  BY <1>1, <1>3, Zenon DEF GateInv, FlagsTyped, WayTyped
<1> QED
  BY <1>1, <1>6, <1>7, GroupsStay, Zenon DEF GateInv

\* The time of a chord that no page answered.
LEMMA TimerKeeps ==
  ASSUME GateInv, MaskInv, NEW p \in GPad, Expires(p) \/ LetsGo(p)
  PROVE  GateInv' /\ MaskInv' /\ GameKept
<1>1. PICK x \in {"late", "look", "over"} : stage' = [stage EXCEPT ![p] = x]
  BY DEF Expires, LetsGo
<1>2. /\ Arms \/ UNCHANGED <<gate, owedVars>>
      /\ UNCHANGED <<padVars, edgeVars, gateHold, fromFile, lastFromFile, loop, uiVars, outVars,
                     rep, mask, gated>>
      /\ provisional' = FALSE \/ provisional' = provisional
  BY Zenon DEF Expires, LetsGo
<1>3. x \in Stage
  BY DEF Stage
<1>4. stage' \in [GPad -> Stage] /\ stage'[p] = x /\ \A q \in GPad : q # p => stage'[q] = stage[q]
  BY <1>1, <1>3, StageMoves
<1>5. UNCHANGED <<game, rep, mask, gated, front>>
  BY <1>2, Zenon DEF outVars, uiVars
<1>6. \A q \in GPad : /\ Saw(q)' => Saw(q)
                      /\ stage'[q] = "play" => stage[q] = "play"
                      /\ stage'[q] = "idle" => stage[q] = "idle"
  BY <1>4 DEF Saw
<1>7. MaskInv' /\ GameKept /\ OwedTyped' /\ gate' \in AnyGate
  BY <1>2, <1>5, <1>6, ArmsKeeps
<1>8. FlagsTyped' /\ WayTyped'
  BY <1>2, <1>4, Zenon DEF GateInv, FlagsTyped, WayTyped
<1> QED
  BY <1>2, <1>7, <1>8, GroupsStay, Zenon DEF GateInv

LEMMA TurnsModeKeeps ==
  ASSUME GateInv, MaskInv, NEW p \in GPad, TurnsMode(p)
  PROVE  GateInv' /\ MaskInv' /\ GameKept
<1> DEFINE on == stage[p] = "on"
<1>1. /\ Turns(on)
      /\ UNCHANGED <<padVars, edgeVars, gateHold, provisional, fromFile, lastFromFile, loop, uiVars,
                     game, ms, rep, mask, owedVars>>
  BY Zenon DEF TurnsMode
<1>2. PICK x \in {"look", "timer"} : stage' = [stage EXCEPT ![p] = x]
  BY DEF TurnsMode
<1>3. x \in Stage
  BY DEF Stage
<1>4. stage' \in [GPad -> Stage] /\ stage'[p] = x /\ \A q \in GPad : q # p => stage'[q] = stage[q]
  BY <1>2, <1>3, StageMoves
<1>5. \A q \in GPad : /\ Saw(q)' => Saw(q)
                      /\ stage'[q] = "play" => stage[q] = "play"
                      /\ stage'[q] = "idle" => stage[q] = "idle"
  BY <1>4 DEF Saw
<1>6. on \in BOOLEAN
  OBVIOUS
<1>7. UNCHANGED <<owed, flying, game, rep, mask, front>>
  BY <1>1, Zenon DEF owedVars, uiVars
<1> HIDE DEF on
<1>8. MaskInv' /\ GameKept
  BY <1>1, <1>5, <1>6, <1>7, TurnsKeeps
<1>9. gate' \in AnyGate /\ kb' \in [GPad -> SUBSET GateKey] /\ gated' \in [GPad -> BOOLEAN]
  BY <1>1, <1>6, TurnsIs
<1>10. FlagsTyped' /\ WayTyped' /\ OutsTyped'
  BY <1>1, <1>4, <1>9, Zenon DEF GateInv, FlagsTyped, WayTyped, OutsTyped
<1> QED
  BY <1>1, <1>8, <1>9, <1>10, GroupsStay, Zenon DEF GateInv

LEMMA PassesByKeeps ==
  ASSUME GateInv, MaskInv, NEW p \in GPad, PassesBy(p)
  PROVE  GateInv' /\ MaskInv' /\ GameKept
<1>1. /\ ~front /\ game' = [game EXCEPT ![p] = rep[p]] /\ IsOut(p)
      /\ owed' = [owed EXCEPT ![p] = @ \ rep[p]]
      /\ UNCHANGED <<padVars, edgeVars, modeVars, uiVars, kb, ms, flying>>
  BY Zenon DEF PassesBy
<1>2. /\ game \in [GPad -> SUBSET Button] /\ owed \in [GPad -> SUBSET Button]
      /\ rep \in [GPad -> SUBSET Button] /\ mask \in [GPad -> SUBSET Button]
      /\ stage \in [GPad -> Stage] /\ gated \in [GPad -> BOOLEAN]
  BY DEF GateInv, OutsTyped, OwedTyped, WayTyped
<1>3. WayTyped'
  BY <1>1, <1>2 DEF IsOut, WayTyped, Stage
<1>4. game' \in [GPad -> SUBSET Button] /\ owed' \in [GPad -> SUBSET Button]
  BY <1>1, <1>2
<1>5. OutsTyped' /\ OwedTyped' /\ FlagsTyped' /\ gate' = gate /\ front' = front
  BY <1>1, <1>4, Zenon DEF GateInv, OutsTyped, OwedTyped, FlagsTyped, modeVars, uiVars
<1>6. GateInv'
  BY <1>1, <1>3, <1>5, GroupsStay, Zenon DEF GateInv
<1>7. \A q \in GPad : ~gated[q]
  BY <1>1 DEF MaskInv
<1>8. GameKept
  BY <1>7 DEF GameKept
<1>9. stage'[p] = "idle" /\ ~gated'[p]
  BY <1>1, <1>2 DEF IsOut
<1>10. \A q \in GPad : q # p =>
          /\ stage'[q] = stage[q] /\ rep'[q] = rep[q] /\ mask'[q] = mask[q] /\ gated'[q] = gated[q]
          /\ game'[q] = game[q] /\ owed'[q] = owed[q] /\ flying'[q] = flying[q]
  BY <1>1, <1>2 DEF IsOut
<1>11. owed'[p] \subseteq owed[p] /\ owed'[p] \cap game'[p] = {}
  BY <1>1, <1>2
<1>12. ASSUME NEW q \in GPad, q = p
       PROVE  /\ owed'[q] \subseteq gate'.swallow /\ owed'[q] \cap game'[q] \subseteq {"cross"}
              /\ ~Saw(q)' /\ ~gated'[q]
  BY <1>5, <1>9, <1>11, <1>12 DEF MaskInv, Saw
<1>13. ASSUME NEW q \in GPad, q # p
       PROVE  /\ owed'[q] \subseteq gate'.swallow /\ owed'[q] \cap game'[q] \subseteq {"cross"}
              /\ Saw(q)' /\ ~flying'[q] => Left(q)' \cap owed'[q] = {}
              /\ ~gated'[q]
  BY <1>5, <1>7, <1>10, <1>13 DEF MaskInv, Saw, Left
<1> QED
  BY <1>6, <1>8, <1>12, <1>13 DEF MaskInv

\* The looks at the mode and the mask.
LEMMA LooksKeeps ==
  ASSUME GateInv, MaskInv, NEW p \in GPad, Looks(p) \/ LooksAgain(p)
  PROVE  GateInv' /\ MaskInv' /\ GameKept
<1>1. UNCHANGED <<padVars, edgeVars, modeVars, uiVars, outVars, rep, mask, gated, owedVars>>
  BY Zenon DEF Looks, LooksAgain
<1>2. PICK x \in {"load", "gate", "play"} : /\ stage' = [stage EXCEPT ![p] = x]
                                            /\ x # "load" => stage[p] = "again"
                                            /\ x = "play" => ~gate.mode
  BY DEF Looks, LooksAgain
<1>3. x \in Stage
  BY DEF Stage
<1>4. stage' \in [GPad -> Stage] /\ stage'[p] = x /\ \A q \in GPad : q # p => stage'[q] = stage[q]
  BY <1>2, <1>3, StageMoves
<1>5. UNCHANGED <<owed, flying, game, rep, mask, gate, gated, front>>
  BY <1>1, Zenon DEF owedVars, outVars, modeVars, uiVars
<1>6. \A q \in GPad : /\ Saw(q)' => Saw(q)
                      /\ gated'[q] => gated[q] /\ gate'.mode /\ front' /\ stage'[q] # "play"
                      /\ stage'[q] = "idle" => stage[q] = "idle"
  BY <1>2, <1>4, <1>5 DEF Saw, MaskInv
<1>7. MaskInv' /\ GameKept
  BY <1>5, <1>6, CalmKeeps
<1>8. FlagsTyped' /\ WayTyped' /\ gate' \in AnyGate
  BY <1>1, <1>4, Zenon DEF GateInv, FlagsTyped, WayTyped, modeVars
<1> QED
  BY <1>1, <1>7, <1>8, GroupsStay, Zenon DEF GateInv

LEMMA LoadsKeeps ==
  ASSUME GateInv, MaskInv, NEW p \in GPad, Loads(p)
  PROVE  GateInv' /\ MaskInv' /\ GameKept
<1>1. /\ mask' = [mask EXCEPT ![p] = gate.swallow]
      /\ UNCHANGED <<padVars, edgeVars, modeVars, uiVars, outVars, rep, gated, owedVars>>
  BY Zenon DEF Loads
<1>2. PICK x \in {"again", "store"} : stage' = [stage EXCEPT ![p] = x]
  BY DEF Loads
<1>3. x \in Stage
  BY DEF Stage
<1>4. stage' \in [GPad -> Stage] /\ stage'[p] = x /\ \A q \in GPad : q # p => stage'[q] = stage[q]
  BY <1>2, <1>3, StageMoves
<1>5. UNCHANGED <<owed, flying, game, rep, gate, gated, front>>
  BY <1>1, Zenon DEF owedVars, outVars, modeVars, uiVars
<1>6. mask' \in [GPad -> SUBSET Button] /\ mask'[p] = gate.swallow
      /\ \A q \in GPad : q # p => mask'[q] = mask[q]
  BY <1>1 DEF GateInv, WayTyped, AnyGate
<1>7. MaskInv'
  <2>1. Left(p)' \cap owed'[p] = {}
    BY <1>5, <1>6 DEF MaskInv, Left
  <2>2. \A q \in GPad : q # p => Left(q)' = Left(q) /\ (Saw(q)' => Saw(q))
    BY <1>4, <1>5, <1>6 DEF Left, Saw
  <2>3. \A q \in GPad : stage'[q] = "play" => stage[q] = "play"
    BY <1>4
  <2> QED
    BY <1>5, <2>1, <2>2, <2>3 DEF MaskInv
<1>8. GameKept
  BY <1>4 DEF GameKept
<1>9. FlagsTyped' /\ WayTyped' /\ gate' \in AnyGate
  BY <1>1, <1>4, <1>6, Zenon DEF GateInv, FlagsTyped, WayTyped, modeVars
<1> QED
  BY <1>1, <1>7, <1>8, <1>9, GroupsStay, Zenon DEF GateInv

\* A store takes bits out of the mask, for all pads: those are owed no more.
LEMMA StoresKeeps ==
  ASSUME GateInv, MaskInv, NEW p \in GPad, Stores(p)
  PROVE  GateInv' /\ MaskInv' /\ GameKept
<1>1. /\ stage[p] = "store" /\ stage' = [stage EXCEPT ![p] = "again"]
      /\ UNCHANGED <<padVars, edgeVars, gateHold, provisional, fromFile, lastFromFile, loop, uiVars,
                     outVars, rep, mask, gated, flying>>
  BY Zenon DEF Stores
<1>2. PICK now \in SUBSET Button : /\ gate' = [gate EXCEPT !.swallow = now]
                                   /\ owed' = [q \in GPad |-> owed[q] \cap now]
  BY DEF Stores, GateInv, WayTyped, AnyGate
<1>3. /\ gate' \in AnyGate /\ gate'.mode = gate.mode /\ gate'.swallow = now
      /\ owed' \in [GPad -> SUBSET Button]
  BY <1>2 DEF GateInv, AnyGate, OwedTyped
<1>4. "again" \in Stage
  BY DEF Stage
<1>5. stage' \in [GPad -> Stage] /\ stage'[p] = "again"
      /\ \A q \in GPad : q # p => stage'[q] = stage[q]
  BY <1>1, <1>4, StageMoves
<1>6. UNCHANGED <<flying, game, rep, mask, gated, front>>
  BY <1>1, Zenon DEF outVars, uiVars
<1>7. \A q \in GPad : owed'[q] \subseteq owed[q] /\ owed'[q] \subseteq now
  BY <1>2
<1>8. MaskInv' /\ GameKept
  <2>1. \A q \in GPad : /\ Saw(q)' => Saw(q)
                        /\ stage'[q] = "play" => stage[q] = "play"
                        /\ stage'[q] = "idle" => stage[q] = "idle"
    BY <1>1, <1>5 DEF Saw
  <2>2. \A q \in GPad : gated'[q] => gated[q] /\ gate'.mode /\ front' /\ stage'[q] # "play"
    BY <1>3, <1>6, <2>1 DEF MaskInv
  <2> QED
    BY <1>3, <1>6, <1>7, <2>1, <2>2, QuietKeeps
<1>9. FlagsTyped' /\ WayTyped' /\ OwedTyped'
  BY <1>1, <1>3, <1>5, Zenon DEF GateInv, FlagsTyped, WayTyped, OwedTyped
<1> QED
  BY <1>1, <1>3, <1>8, <1>9, GroupsStay, Zenon DEF GateInv

\* What the overlay's toggle does.
LEMMA ShowsIs ==
  ASSUME GateInv, NEW asked, Shows(asked)
  PROVE  shown' \in BOOLEAN /\ forPage' \in BOOLEAN
<1>1. shown' \in BOOLEAN
  BY Zenon DEF Shows
<1>2. forPage' = front \/ forPage' = forPage
  BY Zenon DEF Shows
<1> QED
  BY <1>1, <1>2, Zenon DEF GateInv, PageTyped

\* A report in config mode: the game gets nothing of it but the chord's Options.
LEMMA GatedIs ==
  ASSUME GateInv, NEW p \in GPad, NEW left \in SUBSET Button, Gated(p, left)
  PROVE  /\ kb' \in [GPad -> SUBSET GateKey] /\ ms' \in [GPad -> BOOLEAN]
         /\ squareHeld' \in [GPad -> BOOLEAN] /\ edgeHeld' \in [GPad -> BOOLEAN]
         /\ gateEdgeHeld' \in [GPad -> BOOLEAN] /\ shown' \in BOOLEAN /\ forPage' \in BOOLEAN
         /\ game' = [game EXCEPT ![p] = IF passOptions[p] THEN left \cap {"options"} ELSE {}]
<1> DEFINE square == "square" \in left
           bound == "bound" \in left
           button == bind = "left" /\ "bound" \in left
<1>1. square \in BOOLEAN /\ bound \in BOOLEAN /\ button \in BOOLEAN
  <2>1. square \in BOOLEAN
    OBVIOUS
  <2>2. bound \in BOOLEAN
    OBVIOUS
  <2>3. button \in BOOLEAN
    BY Zenon
  <2> QED
    BY <2>1, <2>2, <2>3, Zenon
<1>2. /\ squareHeld' = [squareHeld EXCEPT ![p] = square] /\ edgeHeld' = edgeHeld
      /\ ms' = [ms EXCEPT ![p] = button] \/ ms' = ms
      /\ gateEdgeHeld' = [gateEdgeHeld EXCEPT ![p] = bound] \/ gateEdgeHeld' = gateEdgeHeld
  BY Zenon DEF Gated, GatedMouse
<1> HIDE DEF square, bound, button
<1>3. /\ squareHeld' \in [GPad -> BOOLEAN] /\ edgeHeld' \in [GPad -> BOOLEAN]
      /\ gateEdgeHeld' \in [GPad -> BOOLEAN] /\ ms' \in [GPad -> BOOLEAN]
  BY <1>1, <1>2, FlagAt DEF GateInv, EdgesTyped, OutsTyped
<1>4. shown' \in BOOLEAN /\ forPage' \in BOOLEAN
  BY ShowsIs, Zenon DEF Gated
<1>5. game' = [game EXCEPT ![p] = IF passOptions[p] THEN left \cap {"options"} ELSE {}]
  BY DEF Gated
<1>6. kb' \in [GPad -> SUBSET GateKey]
  <2>1. PICK keysNow \in SUBSET {"cross", "square"} : kb' = [kb EXCEPT ![p] = keysNow]
    BY DEF Gated
  <2> QED
    BY <2>1 DEF GateKey, GateInv, OutsTyped
<1> QED
  BY <1>3, <1>4, <1>5, <1>6

\* And one that is played: a control is the report's or a binding's Cross.
LEMMA PlayedIs ==
  ASSUME GateInv, NEW p \in GPad, NEW left \in SUBSET Button, NEW phase, NEW late,
         Played(p, left, phase, late)
  PROVE  /\ kb' \in [GPad -> SUBSET GateKey] /\ ms' \in [GPad -> BOOLEAN]
         /\ squareHeld' \in [GPad -> BOOLEAN] /\ edgeHeld' \in [GPad -> BOOLEAN]
         /\ gateEdgeHeld' \in [GPad -> BOOLEAN] /\ shown' \in BOOLEAN /\ forPage' \in BOOLEAN
         /\ \E given \in SUBSET Button : /\ given \subseteq left \cup {"cross"}
                                         /\ game' = [game EXCEPT ![p] = given]
<1> DEFINE active == Active(left, phase)
           button == bind = "left" /\ active
           given == Passed(left, active) \cup Pressed(p, late)
<1>1. active \in BOOLEAN /\ button \in BOOLEAN
  BY Zenon DEF Active
<1>2. /\ squareHeld' = squareHeld /\ gateEdgeHeld' = gateEdgeHeld
      /\ ms' = [ms EXCEPT ![p] = button] \/ ms' = ms
      /\ edgeHeld' = [edgeHeld EXCEPT ![p] = active] \/ edgeHeld' = edgeHeld
      /\ game' = [game EXCEPT ![p] = given]
  BY Zenon DEF Played
<1>3. kb' = kb \/ kb' = [kb EXCEPT ![p] = {}] \/ kb' = [kb EXCEPT ![p] = {"key"}]
  BY DEF Played
<1>4. shown' \in BOOLEAN /\ forPage' \in BOOLEAN
  BY ShowsIs, Zenon DEF Played
<1>5. given \subseteq left \cup {"cross"}
  BY DEF Passed, Pressed
<1> HIDE DEF button, active, given
<1>6. /\ squareHeld' \in [GPad -> BOOLEAN] /\ edgeHeld' \in [GPad -> BOOLEAN]
      /\ gateEdgeHeld' \in [GPad -> BOOLEAN] /\ ms' \in [GPad -> BOOLEAN]
  BY <1>1, <1>2, FlagAt DEF GateInv, EdgesTyped, OutsTyped
<1>7. given \in SUBSET Button
  BY <1>5 DEF Button
<1>8. kb' \in [GPad -> SUBSET GateKey]
  BY <1>3 DEF GateKey, GateInv, OutsTyped
<1> QED
  BY <1>2, <1>4, <1>5, <1>6, <1>7, <1>8

\* A report that is out by one of its two ways gives the game what the mask left of it.
LEMMA BringsKeeps ==
  ASSUME GateInv, MaskInv, NEW p \in GPad, NEW given \in SUBSET Button, stage[p] \in {"gate", "play"},
         given \subseteq Left(p) \cup {"cross"}, game' = [game EXCEPT ![p] = given], Brings(p)
  PROVE  MaskInv' /\ WayTyped' /\ OwedTyped' /\ game' \in [GPad -> SUBSET Button]
<1>1. /\ IsOut(p) /\ flying' = [flying EXCEPT ![p] = FALSE]
      /\ owed' = IF flying[p] THEN [owed EXCEPT ![p] = @ \ rep[p]] ELSE owed
      /\ UNCHANGED <<modeVars, front>>
  BY Zenon DEF Brings
<1>2. /\ game \in [GPad -> SUBSET Button] /\ owed \in [GPad -> SUBSET Button]
      /\ rep \in [GPad -> SUBSET Button] /\ mask \in [GPad -> SUBSET Button]
      /\ stage \in [GPad -> Stage] /\ gated \in [GPad -> BOOLEAN] /\ flying \in [GPad -> BOOLEAN]
  BY DEF GateInv, OutsTyped, OwedTyped, WayTyped
<1>3. WayTyped'
  BY <1>1, <1>2 DEF IsOut, WayTyped, Stage
<1>4. owed' \in [GPad -> SUBSET Button] /\ game' \in [GPad -> SUBSET Button]
  BY <1>1, <1>2
<1>5. OwedTyped'
  <2>1. flying' \in [GPad -> BOOLEAN]
    BY <1>1, <1>2
  <2> QED
    BY <1>4, <2>1 DEF OwedTyped
<1>6. gate' = gate /\ front' = front
  BY <1>1, Zenon DEF modeVars
<1>7. stage'[p] = "idle" /\ ~gated'[p]
  BY <1>1, <1>2 DEF IsOut
<1>8. \A q \in GPad : q # p =>
          /\ stage'[q] = stage[q] /\ rep'[q] = rep[q] /\ mask'[q] = mask[q] /\ gated'[q] = gated[q]
          /\ game'[q] = game[q] /\ owed'[q] = owed[q] /\ flying'[q] = flying[q]
  BY <1>1, <1>2 DEF IsOut
<1>9. owed'[p] \subseteq owed[p] /\ game'[p] = given
  BY <1>1, <1>2
<1>10. owed'[p] \cap given \subseteq {"cross"}
  <2>1. CASE flying[p]
    <3>1. owed'[p] = owed[p] \ rep[p]
      BY <1>1, <1>2, <2>1
    <3> QED
      BY <3>1 DEF Left
  <2>2. CASE ~flying[p]
    <3>1. owed' = owed /\ Saw(p)
      BY <1>1, <2>2 DEF Saw
    <3> QED
      BY <2>2, <3>1 DEF MaskInv
  <2> QED
    BY <2>1, <2>2
<1>11. ASSUME NEW q \in GPad, q = p
       PROVE  /\ owed'[q] \subseteq gate'.swallow /\ owed'[q] \cap game'[q] \subseteq {"cross"}
              /\ ~Saw(q)' /\ ~gated'[q]
  BY <1>6, <1>7, <1>9, <1>10, <1>11 DEF MaskInv, Saw
<1>12. ASSUME NEW q \in GPad, q # p
       PROVE  /\ owed'[q] \subseteq gate'.swallow /\ owed'[q] \cap game'[q] \subseteq {"cross"}
              /\ Saw(q)' /\ ~flying'[q] => Left(q)' \cap owed'[q] = {}
              /\ gated'[q] => gate'.mode /\ front' /\ stage'[q] # "play"
  BY <1>6, <1>8, <1>12 DEF MaskInv, Saw, Left
<1>13. MaskInv'
  BY <1>11, <1>12 DEF MaskInv
<1> QED
  BY <1>3, <1>4, <1>5, <1>13

LEMMA OutKeeps ==
  ASSUME GateInv, MaskInv, NEW p \in GPad,
         Drives(p) \/ \E phase, late \in BOOLEAN : Plays(p, phase, late)
  PROVE  GateInv' /\ MaskInv' /\ GameKept
<1> DEFINE left == Left(p)
<1>1. left \in SUBSET Button
  BY DEF GateInv, WayTyped, Left
<1>2. /\ Brings(p) /\ stage[p] \in {"gate", "play"}
      /\ \/ stage[p] = "gate" /\ Gated(p, left) /\ UNCHANGED taps
         \/ /\ stage[p] = "play"
            /\ \E phase, late \in BOOLEAN :
                  /\ Played(p, left, phase, late)
                  /\ taps' = [taps EXCEPT ![p] = IF @ = "tapped" /\ late THEN "none" ELSE @]
  BY DEF Drives, Plays
<1> HIDE DEF left
<1>3. /\ kb' \in [GPad -> SUBSET GateKey] /\ ms' \in [GPad -> BOOLEAN]
      /\ squareHeld' \in [GPad -> BOOLEAN] /\ edgeHeld' \in [GPad -> BOOLEAN]
      /\ gateEdgeHeld' \in [GPad -> BOOLEAN] /\ shown' \in BOOLEAN /\ forPage' \in BOOLEAN
  BY <1>1, <1>2, GatedIs, PlayedIs, Zenon
<1>4. /\ \E given \in SUBSET Button : /\ given \subseteq left \cup {"cross"}
                                      /\ game' = [game EXCEPT ![p] = given]
      /\ stage[p] = "play" \/ game' = [game EXCEPT ![p] = IF passOptions[p] THEN left \cap {"options"} ELSE {}]
  <2>1. CASE stage[p] = "gate" /\ Gated(p, left)
    <3> DEFINE given == IF passOptions[p] THEN left \cap {"options"} ELSE {}
    <3>1. given \in SUBSET Button /\ given \subseteq left \cup {"cross"}
      BY <1>1
    <3>2. game' = [game EXCEPT ![p] = given]
      BY <1>1, <2>1, GatedIs, Zenon
    <3> HIDE DEF given
    <3>3. \E g \in SUBSET Button : g \subseteq left \cup {"cross"} /\ game' = [game EXCEPT ![p] = g]
      BY <3>1, <3>2
    <3> QED
      BY <3>2, <3>3 DEF given
  <2>2. CASE stage[p] = "play" /\ \E phase, late \in BOOLEAN : Played(p, left, phase, late)
    BY <1>1, <2>2, PlayedIs, Zenon
  <2> QED
    BY <1>2, <2>1, <2>2, Zenon
<1>5. MaskInv' /\ WayTyped' /\ OwedTyped' /\ game' \in [GPad -> SUBSET Button]
  BY <1>2, <1>4, BringsKeeps DEF left
<1>6. /\ IsOut(p)
      /\ UNCHANGED <<press, fingers, lastOptions, passOptions, modeVars, front, editing, opening,
                     bind, steady>>
  BY <1>2, Zenon DEF Brings
<1>7. taps' \in [GPad -> {"none", "held", "tapped"}]
  <2>1. taps' = taps \/ taps' = [taps EXCEPT ![p] = "none"] \/ taps' = [taps EXCEPT ![p] = taps[p]]
    BY <1>2
  <2> QED
    BY <2>1 DEF GateInv, PadsTyped
<1>8. PadsTyped' /\ EdgesTyped' /\ OutsTyped' /\ FlagsTyped' /\ PageTyped' /\ gate' \in AnyGate
  BY <1>3, <1>5, <1>6, <1>7, Zenon DEF GateInv, PadsTyped, EdgesTyped, OutsTyped, FlagsTyped,
     PageTyped, modeVars
<1>9. GateInv'
  BY <1>5, <1>8 DEF GateInv
<1>10. GameKept
  <2>1. \A q \in GPad : q # p => stage'[q] = stage[q]
    BY <1>6 DEF IsOut, GateInv, WayTyped
  <2>2. ASSUME gated[p] PROVE game'[p] \subseteq (IF passOptions[p] THEN {"options"} ELSE {})
    <3>1. game' = [game EXCEPT ![p] = IF passOptions[p] THEN left \cap {"options"} ELSE {}]
      BY <1>4, <2>2 DEF MaskInv
    <3> QED
      BY <3>1 DEF GateInv, OutsTyped
  <2> QED
    BY <2>1, <2>2 DEF GameKept
<1> QED
  BY <1>5, <1>9, <1>10

\* The person, the overlay's typing and a pad that goes bring the game nothing.
PersonMoves ==
    \E p \in GPad, d \in SUBSET Button, two \in BOOLEAN, tap \in {"none", "held", "tapped"} :
        Moves(p, d, two, tap)

LEMMA MovesKeeps ==
  ASSUME GateInv, MaskInv, PersonMoves
  PROVE  GateInv' /\ MaskInv' /\ GameKept
<1> PICK p \in GPad, d \in SUBSET Button, two \in BOOLEAN, tap \in {"none", "held", "tapped"} :
        Moves(p, d, two, tap)
  BY DEF PersonMoves
<1>1. /\ press' = [press EXCEPT ![p] = d] /\ fingers' = [fingers EXCEPT ![p] = two]
      /\ taps' = [taps EXCEPT ![p] = tap] /\ owed' = [owed EXCEPT ![p] = @ \cap d]
      /\ UNCHANGED <<edgeVars, modeVars, uiVars, outVars, wayVars, flying>>
  BY Zenon DEF Moves
<1>2. PadsTyped'
  <2>1. fingers' \in [GPad -> BOOLEAN]
    BY <1>1, FlagAt DEF GateInv, PadsTyped
  <2>2. press' \in [GPad -> SUBSET Button] /\ taps' \in [GPad -> {"none", "held", "tapped"}]
    BY <1>1 DEF GateInv, PadsTyped
  <2> QED
    BY <2>1, <2>2 DEF PadsTyped
<1>3. OwedTyped' /\ FlagsTyped' /\ gate' \in AnyGate
  <2>1. owed' \in [GPad -> SUBSET Button]
    BY <1>1 DEF GateInv, OwedTyped
  <2> QED
    BY <1>1, <2>1, Zenon DEF GateInv, OwedTyped, FlagsTyped, modeVars
<1>4. GateInv'
  BY <1>1, <1>2, <1>3, GroupsStay, Zenon DEF GateInv
<1>5. UNCHANGED <<flying, game, rep, mask, stage, gate, gated, front>>
  BY <1>1, Zenon DEF outVars, wayVars, modeVars, uiVars
<1>6. \A q \in GPad : owed'[q] \subseteq owed[q]
  BY <1>1 DEF GateInv, OwedTyped
<1> QED
  BY <1>4, <1>5, <1>6, QuietKeeps DEF MaskInv, Saw

LEMMA PadQuiet ==
  ASSUME GateInv, MaskInv, NEW p \in GPad,
         ForgetPad(p) \/ \E sent \in {{}, {"osk"}} : OverlayTakes(p, sent)
  PROVE  GateInv' /\ MaskInv' /\ GameKept
<1>1. ASSUME ForgetPad(p) PROVE PadsTyped' /\ EdgesTyped' /\ OutsTyped' /\ OwedTyped'
  <2>1. /\ press' = [press EXCEPT ![p] = {}] /\ fingers' = [fingers EXCEPT ![p] = FALSE]
        /\ taps' = [taps EXCEPT ![p] = "none"] /\ owed' = [owed EXCEPT ![p] = {}]
        /\ lastOptions' = [lastOptions EXCEPT ![p] = FALSE]
        /\ passOptions' = [passOptions EXCEPT ![p] = FALSE]
        /\ game' = [game EXCEPT ![p] = {}] /\ kb' = [kb EXCEPT ![p] = {}]
        /\ ms' = [ms EXCEPT ![p] = FALSE]
        /\ UNCHANGED <<squareHeld, edgeHeld, gateEdgeHeld, flying>>
    BY <1>1, Zenon DEF ForgetPad
  <2>2. PadsTyped'
    BY <2>1 DEF GateInv, PadsTyped
  <2>3. lastOptions' \in [GPad -> BOOLEAN] /\ passOptions' \in [GPad -> BOOLEAN] /\ ms' \in [GPad -> BOOLEAN]
    BY <2>1 DEF GateInv, EdgesTyped, OutsTyped
  <2>4. /\ game' \in [GPad -> SUBSET Button] /\ kb' \in [GPad -> SUBSET GateKey]
        /\ owed' \in [GPad -> SUBSET Button]
    BY <2>1 DEF GateInv, OutsTyped, OwedTyped
  <2> QED
    BY <2>1, <2>2, <2>3, <2>4, Zenon DEF GateInv, EdgesTyped, OutsTyped, OwedTyped
<1>2. ASSUME NEW sent \in {{}, {"osk"}}, OverlayTakes(p, sent)
      PROVE  PadsTyped' /\ EdgesTyped' /\ OutsTyped' /\ OwedTyped'
  <2>1. /\ game' = [game EXCEPT ![p] = {}] /\ kb' = [kb EXCEPT ![p] = sent]
        /\ UNCHANGED <<padVars, edgeVars, ms, owedVars>>
    BY <1>2, Zenon DEF OverlayTakes
  <2>2. game' \in [GPad -> SUBSET Button] /\ kb' \in [GPad -> SUBSET GateKey]
    BY <2>1 DEF GateInv, OutsTyped, GateKey
  <2>3. OutsTyped'
    BY <2>1, <2>2, Zenon DEF GateInv, OutsTyped
  <2> QED
    BY <2>1, <2>3, GroupsStay, Zenon
<1>3. /\ UNCHANGED <<modeVars, uiVars, wayVars, flying>>
      /\ game' = [game EXCEPT ![p] = {}] /\ (owed' = owed \/ owed' = [owed EXCEPT ![p] = {}])
  BY Zenon DEF ForgetPad, OverlayTakes, owedVars
<1>4. GateInv'
  BY <1>1, <1>2, <1>3, GroupsStay, Zenon DEF GateInv, FlagsTyped, modeVars
<1>5. \A q \in GPad : owed'[q] \subseteq owed[q] /\ game'[q] \subseteq game[q]
  BY <1>3 DEF GateInv, OwedTyped, OutsTyped
<1>6. UNCHANGED <<flying, rep, mask, stage, gate, gated, front>>
  BY <1>3, Zenon DEF wayVars, modeVars, uiVars
<1> QED
  BY <1>4, <1>5, <1>6, QuietKeeps DEF MaskInv, Saw

\* The overlay goes: all that is down is swallowed from here on.
LEMMA HidesKeeps ==
  ASSUME GateInv, MaskInv, OverlayHides \/ Blurs
  PROVE  GateInv' /\ MaskInv' /\ GameKept
<1>1. /\ UNCHANGED <<padVars, edgeVars, gateHold, provisional, fromFile, lastFromFile, front, forPage,
                     opening, bind, steady, game, ms, wayVars>>
      /\ (loop' = loop \/ loop' = "idle") /\ (editing' = editing \/ editing' = FALSE)
      /\ Hides \/ UNCHANGED <<shown, gate, kb, owedVars>>
  BY Zenon DEF OverlayHides, Blurs
<1>2. UNCHANGED <<game, rep, mask, gated, front, stage>>
  BY <1>1, Zenon DEF wayVars
<1>3. FlagsTyped' /\ WayTyped' /\ PadsTyped' /\ EdgesTyped'
  <2>1. loop' \in {"idle", "on", "off", "free", "blurs"}
    BY <1>1 DEF GateInv, FlagsTyped
  <2> QED
    BY <1>1, <2>1, GroupsStay, Zenon DEF GateInv, FlagsTyped
<1>4. editing' \in BOOLEAN
  BY <1>1, Zenon DEF GateInv, PageTyped
<1>5. CASE Hides
  <2>1. /\ shown' = FALSE /\ gate' = [gate EXCEPT !.swallow = Button] /\ Owes
        /\ kb' = [q \in GPad |-> {}]
    BY <1>5, Zenon DEF Hides
  <2>2. gate' \in AnyGate /\ gate'.swallow = Button /\ gate'.mode = gate.mode
    BY <2>1 DEF GateInv, AnyGate
  <2>3. kb' \in [GPad -> SUBSET GateKey]
    BY <2>1
  <2>4. MaskInv' /\ GameKept /\ OwedTyped'
    BY <1>2, <2>1, <2>2, OwesKeeps DEF Saw
  <2>5. OutsTyped' /\ PageTyped'
    BY <1>1, <1>4, <2>1, <2>3, Zenon DEF GateInv, OutsTyped, PageTyped
  <2> QED
    BY <1>3, <2>2, <2>4, <2>5 DEF GateInv
<1>6. CASE UNCHANGED <<shown, gate, kb, owedVars>>
  <2>1. UNCHANGED <<owed, flying, gate>>
    BY <1>6, Zenon DEF owedVars
  <2>2. MaskInv' /\ GameKept
    BY <1>2, <2>1, CalmKeeps DEF Saw, MaskInv
  <2>3. OwedTyped' /\ OutsTyped' /\ PageTyped'
    BY <1>1, <1>4, <1>6, GroupsStay, Zenon DEF GateInv, OutsTyped, PageTyped
  <2> QED
    BY <1>3, <2>1, <2>2, <2>3 DEF GateInv
<1> QED
  BY <1>1, <1>5, <1>6

\* The page's requests: the mask is armed, and then the mode turned.
LEMMA PageKeeps ==
  ASSUME GateInv, MaskInv, \E on \in BOOLEAN : PageFocus(on) \/ HoldOff(on)
  PROVE  GateInv' /\ MaskInv' /\ GameKept
<1> PICK on \in BOOLEAN : PageFocus(on) \/ HoldOff(on)
  OBVIOUS
<1>1. /\ Arms \/ UNCHANGED <<gate, owedVars>>
      /\ UNCHANGED <<padVars, edgeVars, fromFile, lastFromFile, uiVars, outVars, wayVars>>
      /\ (gateHold' = on \/ gateHold' = gateHold)
      /\ (provisional' = provisional \/ provisional' = (provisional /\ ~on))
  BY Zenon DEF PageFocus, HoldOff
<1>2. loop' \in {"idle", "on", "off", "free"}
  BY DEF PageFocus, HoldOff
<1>3. UNCHANGED <<game, rep, mask, gated, front, stage>>
  BY <1>1, Zenon DEF outVars, wayVars, uiVars
<1>4. MaskInv' /\ GameKept /\ OwedTyped' /\ gate' \in AnyGate
  BY <1>1, <1>3, ArmsKeeps DEF Saw
<1>5. FlagsTyped'
  <2>1. gateHold' \in BOOLEAN
    BY <1>1, Zenon DEF GateInv, FlagsTyped
  <2>2. provisional' \in BOOLEAN
    BY <1>1, Zenon DEF GateInv, FlagsTyped
  <2>3. loop' \in {"idle", "on", "off", "free", "blurs"}
    BY <1>2
  <2> QED
    BY <1>1, <2>1, <2>2, <2>3, Zenon DEF GateInv, FlagsTyped
<1> QED
  BY <1>1, <1>4, <1>5, GroupsStay, Zenon DEF GateInv

LEMMA LoopTurnsKeeps ==
  ASSUME GateInv, MaskInv, LoopTurns
  PROVE  GateInv' /\ MaskInv' /\ GameKept
<1> DEFINE on == loop = "on"
<1>1. /\ Turns(on)
      /\ UNCHANGED <<padVars, edgeVars, gateHold, provisional, fromFile, lastFromFile, uiVars, game, ms,
                     stage, rep, mask, owedVars>>
  BY Zenon DEF LoopTurns
<1>2. loop' \in {"idle", "on", "off", "free", "blurs"}
  BY DEF LoopTurns
<1>3. on \in BOOLEAN
  OBVIOUS
<1>4. UNCHANGED <<owed, flying, game, rep, mask, front, stage>>
  BY <1>1, Zenon DEF owedVars, uiVars
<1> HIDE DEF on
<1>5. MaskInv' /\ GameKept
  BY <1>1, <1>3, <1>4, TurnsKeeps DEF Saw
<1>6. gate' \in AnyGate /\ kb' \in [GPad -> SUBSET GateKey] /\ gated' \in [GPad -> BOOLEAN]
  BY <1>1, <1>3, TurnsIs
<1>7. FlagsTyped' /\ WayTyped' /\ OutsTyped'
  BY <1>1, <1>2, <1>6, Zenon DEF GateInv, FlagsTyped, WayTyped, OutsTyped
<1> QED
  BY <1>1, <1>5, <1>6, <1>7, GroupsStay, Zenon DEF GateInv

\* A chord's reports go on when the window's thread is through.
LEMMA OpenedIs ==
  ASSUME GateInv, Opened
  PROVE  /\ stage' \in [GPad -> Stage]
         /\ \A q \in GPad : /\ Saw(q)' => Saw(q)
                            /\ stage'[q] = "play" => stage[q] = "play"
                            /\ stage'[q] = "idle" => stage[q] = "idle"
<1>1. \A q \in GPad : stage'[q] = IF stage[q] = "opens" THEN "file" ELSE stage[q]
  BY DEF Opened
<1>2. stage' \in [GPad -> Stage]
  BY DEF Opened, GateInv, WayTyped, Stage
<1> QED
  BY <1>1, <1>2 DEF Saw

LEMMA UiSetsKeeps ==
  ASSUME GateInv, MaskInv, UiSets
  PROVE  GateInv' /\ MaskInv' /\ GameKept
<1>1. /\ Turns(TRUE) /\ Opened /\ opening' = "no"
      /\ UNCHANGED <<padVars, edgeVars, gateHold, provisional, fromFile, lastFromFile, loop,
                     front, editing, shown, forPage, bind, steady, game, ms, rep, mask, owedVars>>
  BY Zenon DEF UiSets
<1>2. UNCHANGED <<owed, flying, game, rep, mask, front>>
  BY <1>1, Zenon DEF owedVars
<1>3. MaskInv' /\ GameKept
  BY <1>1, <1>2, OpenedIs, TurnsKeeps
<1>4. gate' \in AnyGate /\ kb' \in [GPad -> SUBSET GateKey] /\ gated' \in [GPad -> BOOLEAN]
  BY <1>1, TurnsIs
<1>5. opening' \in {"no", "waits", "sets"}
  BY <1>1
<1>6. stage' \in [GPad -> Stage]
  BY <1>1, OpenedIs
<1>7. FlagsTyped' /\ WayTyped' /\ OutsTyped' /\ PageTyped'
  BY <1>1, <1>4, <1>5, <1>6, Zenon DEF GateInv, FlagsTyped, WayTyped, OutsTyped, PageTyped
<1> QED
  BY <1>1, <1>3, <1>4, <1>7, GroupsStay, Zenon DEF GateInv

\* The window opens, comes forward or goes back, and the settings change: the gate stays.
Around ==
    \/ ShowUi \/ UiLooks
    \/ \E f, e, file \in BOOLEAN : Elsewhere(f, e, file)
    \/ \E b \in Binding, s \in BOOLEAN : Rebinds(b, s)

LEMMA AroundKeeps ==
  ASSUME GateInv, MaskInv, Around
  PROVE  GateInv' /\ MaskInv' /\ GameKept
<1>1. UNCHANGED <<padVars, edgeVars, gate, provisional, lastFromFile, loop, shown, forPage, outVars,
                  rep, mask, owedVars>>
  BY Zenon DEF Around, ShowUi, UiLooks, Elsewhere, Rebinds, modeVars, uiVars, wayVars
<1>2. gateHold' \in BOOLEAN /\ fromFile' \in BOOLEAN /\ front' \in BOOLEAN /\ editing' \in BOOLEAN
      /\ steady' \in BOOLEAN
  BY Zenon DEF Around, ShowUi, UiLooks, Elsewhere, Rebinds, modeVars, uiVars, GateInv, FlagsTyped,
     PageTyped
<1>3. opening' \in {"no", "waits", "sets"} /\ bind' \in Binding
  BY DEF Around, ShowUi, UiLooks, Elsewhere, Rebinds, modeVars, uiVars, GateInv, PageTyped
<1>4. stage' = stage \/ Opened
  BY Zenon DEF Around, ShowUi, UiLooks, Elsewhere, Rebinds, wayVars
<1>5. /\ stage' \in [GPad -> Stage]
      /\ \A q \in GPad : /\ Saw(q)' => Saw(q)
                         /\ stage'[q] = "play" => stage[q] = "play"
                         /\ stage'[q] = "idle" => stage[q] = "idle"
  BY <1>4, OpenedIs DEF Saw, GateInv, WayTyped
<1>6. \/ gated' = gated /\ front' = front
      \/ gated' = [q \in GPad |-> gated[q] /\ front']
  <2>1. ASSUME NEW f \in BOOLEAN, NEW e \in BOOLEAN, NEW file \in BOOLEAN, Elsewhere(f, e, file)
        PROVE  gated' = [q \in GPad |-> gated[q] /\ front']
    <3>1. front' = f /\ gated' = [q \in GPad |-> gated[q] /\ f]
      BY <2>1, Zenon DEF Elsewhere
    <3> QED
      BY <3>1
  <2>2. ASSUME ShowUi \/ UiLooks \/ \E b \in Binding, s \in BOOLEAN : Rebinds(b, s)
        PROVE  gated' = gated /\ front' = front
    BY <2>2, Zenon DEF ShowUi, UiLooks, Rebinds, wayVars
  <2> QED
    BY <2>1, <2>2, Zenon DEF Around
<1>7. gated' \in [GPad -> BOOLEAN] /\ \A q \in GPad : gated'[q] => gated[q] /\ front'
  <2>1. CASE gated' = gated /\ front' = front
    BY <2>1 DEF GateInv, WayTyped, MaskInv
  <2>2. CASE gated' = [q \in GPad |-> gated[q] /\ front']
    <3>1. \A q \in GPad : (gated[q] /\ front') \in BOOLEAN
      BY Zenon
    <3>2. gated' \in [GPad -> BOOLEAN]
      BY <2>2, <3>1
    <3>3. \A q \in GPad : gated'[q] = (gated[q] /\ front')
      BY <2>2
    <3> QED
      BY <3>2, <3>3, Zenon
  <2> QED
    BY <1>6, <2>1, <2>2
<1>8. UNCHANGED <<owed, flying, game, gate>>
  BY <1>1, Zenon DEF owedVars, outVars
<1>9. MaskInv' /\ GameKept
  BY <1>1, <1>5, <1>7, <1>8, CalmKeeps DEF MaskInv
<1>10. FlagsTyped' /\ WayTyped' /\ PageTyped'
  BY <1>1, <1>2, <1>3, <1>5, <1>7, Zenon DEF GateInv, FlagsTyped, WayTyped, PageTyped
<1> QED
  BY <1>1, <1>8, <1>9, <1>10, GroupsStay, Zenon DEF GateInv

\* What the person and the windows do, in one step each.
LEMMA GateActions ==
  ASSUME GateInv
  PROVE  /\ \A p \in GPad : PressesOrLifts(p) \/ Touches(p) => PersonMoves
         /\ Elsewhere(~front, editing, fromFile) => Around
         /\ Elsewhere(front, ~editing, fromFile) => Around
         /\ Elsewhere(front, editing, ~fromFile) => Around
<1>1. ASSUME NEW p \in GPad, PressesOrLifts(p) \/ Touches(p) PROVE PersonMoves
  <2>1. press[p] \in SUBSET Button /\ taps[p] \in {"none", "held", "tapped"}
    BY DEF GateInv, PadsTyped
  <2>2. fingers[p] \in BOOLEAN /\ (~fingers[p]) \in BOOLEAN
    BY Zenon DEF GateInv, PadsTyped
  <2>3. ASSUME NEW b \in Button,
               Moves(p, IF b \in press[p] THEN press[p] \ {b} ELSE press[p] \cup {b},
                     fingers[p], taps[p])
        PROVE  PersonMoves
    <3> DEFINE d == IF b \in press[p] THEN press[p] \ {b} ELSE press[p] \cup {b}
    <3>1. d \in SUBSET Button
      BY <2>1
    <3> HIDE DEF d
    <3> QED
      BY <2>1, <2>2, <2>3, <3>1, Zenon DEF PersonMoves
  <2>4. ASSUME Moves(p, press[p], ~fingers[p], taps[p]) PROVE PersonMoves
    BY <2>1, <2>2, <2>4, Zenon DEF PersonMoves
  <2>5. ASSUME NEW tap \in {"none", "held", "tapped"}, Moves(p, press[p], fingers[p], tap)
        PROVE  PersonMoves
    BY <2>1, <2>2, <2>5, Zenon DEF PersonMoves
  <2> QED
    BY <1>1, <2>3, <2>4, <2>5 DEF PressesOrLifts, Touches
<1>2. /\ front \in BOOLEAN /\ editing \in BOOLEAN /\ fromFile \in BOOLEAN
      /\ (~front) \in BOOLEAN /\ (~editing) \in BOOLEAN /\ (~fromFile) \in BOOLEAN
  BY Zenon DEF GateInv, FlagsTyped, PageTyped
<1> QED
  BY <1>1, <1>2, Zenon DEF Around

LEMMA ReportKeeps ==
  ASSUME GateInv, MaskInv, NEW p \in GPad, ReportSteps(p)
  PROVE  GateInv' /\ MaskInv' /\ GameKept
<1>1. CASE Arrives(p) \/ Files(p) \/ Expires(p) \/ LetsGo(p) \/ TurnsMode(p)
  BY <1>1, ArrivesKeeps, FilesKeeps, TimerKeeps, TurnsModeKeeps
<1>2. CASE PassesBy(p) \/ Looks(p) \/ Loads(p) \/ Stores(p) \/ LooksAgain(p)
  BY <1>2, PassesByKeeps, LooksKeeps, LoadsKeeps, StoresKeeps
<1>3. CASE Drives(p) \/ \E phase, late \in BOOLEAN : Plays(p, phase, late)
  BY <1>3, OutKeeps
<1> QED
  BY <1>1, <1>2, <1>3, Zenon DEF ReportSteps

LEMMA GateSteps ==
  ASSUME GateInv, MaskInv, [GateNext]_gateVars
  PROVE  GateInv' /\ MaskInv' /\ GameKept
<1>1. CASE UNCHANGED gateVars
  <2>1. UNCHANGED <<padVars, edgeVars, modeVars, uiVars, outVars, wayVars, owedVars>>
    BY <1>1, Zenon DEF gateVars
  <2>2. UNCHANGED <<owed, flying, game, rep, mask, gate, gated, front, stage>>
    BY <2>1, Zenon DEF owedVars, outVars, wayVars, modeVars, uiVars
  <2>3. MaskInv' /\ GameKept
    BY <2>2, CalmKeeps DEF Saw, MaskInv
  <2>4. FlagsTyped' /\ gate' \in AnyGate
    BY <2>1, Zenon DEF GateInv, FlagsTyped, modeVars
  <2> QED
    BY <2>1, <2>3, <2>4, GroupsStay, Zenon DEF GateInv
<1>2. CASE \E p \in GPad : ReportSteps(p)
  BY <1>2, ReportKeeps
<1>3. CASE \E p \in GPad : ForgetPad(p) \/ \E sent \in {{}, {"osk"}} : OverlayTakes(p, sent)
  BY <1>3, PadQuiet, Zenon
<1>4. CASE PersonMoves
  BY <1>4, MovesKeeps
<1>5. CASE OverlayHides \/ Blurs
  BY <1>5, HidesKeeps
<1>6. CASE LoopTurns \/ UiSets
  BY <1>6, LoopTurnsKeeps, UiSetsKeeps
<1>7. CASE \E on \in BOOLEAN : PageFocus(on) \/ HoldOff(on)
  BY <1>7, PageKeeps, Zenon
<1>8. CASE Around
  BY <1>8, AroundKeeps
<1> QED
  BY <1>1, <1>2, <1>3, <1>4, <1>5, <1>6, <1>7, <1>8, GateActions, Zenon DEF GateNext, Around
----------------------------------------------------------------------------
(* The pad: its parts share no state, so what each keeps the whole keeps.  *)

PadInv ==
    HeldInv /\ GateInv /\ MaskInv /\ TrigInv /\ TouchInv /\ PointTypeOK /\ OverInv

LEMMA PadBegins == PadInit => PadInv
  BY HeldBegins, GateBegins, TrigBegins, TouchBegins, PointBegins, OverBegins
     DEF PadInit, PadInv

\* A step of the pad is one of each part's or leaves it alone.
LEMMA PadMoves ==
  ASSUME [PadNext]_padAll
  PROVE  /\ [HeldNext]_heldVars /\ [GateNext]_gateVars /\ [TrigNext]_trigVars
         /\ [TouchNext]_touch /\ [PointNext]_pointVars /\ [OverNext]_overVars
<1>1. CASE UNCHANGED padAll
  <2>1. UNCHANGED <<heldVars, gateVars, trigVars, touch, pointVars, overVars>>
    BY <1>1, Zenon DEF padAll
  <2> QED
    BY <2>1, Zenon
<1>2. CASE PadNext
  BY <1>2, Zenon DEF PadNext, InHeld, InGate, InTrigger, InTouch, InPointer, InOverlay
<1> QED
  BY <1>1, <1>2

LEMMA PadSteps ==
  ASSUME PadInv, [PadNext]_padAll
  PROVE  PadInv' /\ KeyKept /\ DragKept /\ GameKept
<1>1. /\ [HeldNext]_heldVars /\ [GateNext]_gateVars /\ [TrigNext]_trigVars
      /\ [TouchNext]_touch /\ [PointNext]_pointVars /\ [OverNext]_overVars
  BY PadMoves
<1>2. HeldInv'
  BY <1>1, HeldSteps DEF PadInv
<1>3. GateInv' /\ MaskInv' /\ GameKept
  BY <1>1, GateSteps DEF PadInv
<1>4. TrigInv' /\ DragKept
  BY <1>1, TrigSteps DEF PadInv
<1>5. TouchInv'
  BY <1>1, TouchSteps DEF PadInv
<1>6. PointTypeOK'
  BY <1>1, PointSteps DEF PadInv
<1>7. OverInv' /\ KeyKept
  BY <1>1, OverSteps DEF PadInv
<1> QED
  BY <1>2, <1>3, <1>4, <1>5, <1>6, <1>7 DEF PadInv

\* The inductive invariant of the pad's run.
THEOREM PadInvariant == PadSpec => []PadInv
<1>1. PadInit => PadInv
  BY PadBegins
<1>2. PadInv /\ [PadNext]_padAll => PadInv'
  BY PadSteps
<1> QED
  BY <1>1, <1>2, PTL DEF PadSpec

\* The state of every part is well-formed, and a keyboard that says it is up has a thread
\* that makes it so or says it is not (PadHolds), for every number of pads and settings.
THEOREM PadsHold == PadSpec => []PadHolds
<1>1. PadInv => PadHolds
  BY HeldMeans, GateMeans, TouchMeans DEF PadInv, PadHolds, PadTypeOK, TrigInv, OverInv
<1> QED
  BY <1>1, PadInvariant, PTL

\* A key, a trigger's key or a press of the touchpad is down on the computer only while a pad
\* that is there holds it: every way a pad goes lets go of all of it (NothingStaysDown).
THEOREM NothingStays == PadSpec => []NothingStaysDown
<1>1. PadInv => NothingStaysDown
  BY HeldMeans, TouchMeans DEF PadInv, NothingStaysDown, TrigInv
<1> QED
  BY <1>1, PadInvariant, PTL

\* The halo, which the pads share, never changes the key that is down for a pad (KeyStays).
THEOREM KeysStayDown == PadSpec => KeyStays
<1>1. PadInv /\ [PadNext]_padAll => [KeyKept]_overVars
  BY PadSteps
<1> QED
  BY <1>1, PadInvariant, PTL DEF PadSpec, KeyStays, KeyKept

\* A drag of a trigger goes on until the trigger is home, wherever the finger goes (DragHolds).
THEOREM DragsHold == PadSpec => DragHolds
<1>1. PadInv /\ [PadNext]_padAll => [DragKept]_trigVars
  BY PadSteps
<1> QED
  BY <1>1, PadInvariant, PTL DEF PadSpec, DragHolds, DragKept

\* Each tap on a mouse button is one click, and when the pump gives one that waited the pointer
\* is where the tap was to land, for every order of reports, settings and pump: nothing pushed
\* before the tap or after it has moved the pointer from there (TapsAreClicks, ClickLandsOnTap).
THEOREM TapsLand == PadSpec => []TapsAreClicks /\ []ClickLandsOnTap
<1>1. PadInv => TapsAreClicks /\ ClickLandsOnTap
  BY TouchMeans DEF PadInv
<1> QED
  BY <1>1, PadInvariant, PTL

\* A report that comes in config mode with the window in front, and is through before either
\* ends, leaves the game nothing but the chord's Options, whatever the other pads, the page
\* and the file do between its looks at the mode (GateKeepsGame).
THEOREM GateKeeps == PadSpec => GateKeepsGame
<1>1. PadInv /\ [PadNext]_padAll => [GameKept]_gateVars
  BY PadSteps
<1> QED
  BY <1>1, PadInvariant, PTL DEF PadSpec, GateKeepsGame, GameKept

\* What was down and held back when the gate or the overlay let go stays out of the game until
\* it is let go of, for any number of pads whose reports come step by step (HeldStaysAway).
THEOREM GateStaysShut == PadSpec => []HeldStaysAway
<1>1. PadInv => HeldStaysAway
  BY DEF PadInv, MaskInv, HeldStaysAway
<1> QED
  BY <1>1, PadInvariant, PTL

\* In config mode the game gets nothing of a pad, and the key that is down for a pad is its
\* own, whatever the other pads, the page and the halo do (EachToItsOwn).
THEOREM KeptApart == PadSpec => EachToItsOwn
  BY GateKeeps, KeysStayDown, PTL DEF EachToItsOwn
----------------------------------------------------------------------------
(* Pointer: what the pads have left adds up to what was not sent.          *)

\* Numbers are counted up from zero.
LEMMA CountsUp ==
  ASSUME NEW S \in SUBSET Nat, 0 \in S, \A n \in Nat : n \in S => n + 1 \in S
  PROVE  S = Nat
<1> SUFFICES ASSUME Nat \ S # {} PROVE FALSE
  OBVIOUS
<1> DEFINE T == Nat \ S
<1>1. PICK n \in T : \A m \in T : n <= m
  <2>1. T \subseteq Nat /\ T # {}
    OBVIOUS
  <2> HIDE DEF T
  <2> QED
    BY <2>1, LeastOf
<1>2. n - 1 \in Nat /\ (n - 1) + 1 = n
  OBVIOUS
<1>3. n - 1 \in S
  BY <1>1, <1>2
<1> QED
  BY <1>2, <1>3

\* The sum over some of the pads, as a function that says what it is of each.
Picked(P) == CHOOSE q \in P : TRUE
AddsUp(f, A, P) == A[P] = IF P = {} THEN 0 ELSE f[Picked(P)] + A[P \ {Picked(P)}]

LEMMA PickedIsIn ==
  ASSUME NEW P \in SUBSET PPad, P # {}
  PROVE  /\ Picked(P) \in P /\ P \ {Picked(P)} \in SUBSET PPad
         /\ IsFiniteSet(P) /\ Cardinality(P) \in Nat
         /\ Cardinality(P \ {Picked(P)}) = Cardinality(P) - 1
<1>1. Picked(P) \in P
  BY DEF Picked
<1>2. IsFiniteSet(P)
  BY FS_Subset, PointerAssumption DEF PointerAssumption
<1> QED
  BY <1>1, <1>2, FS_RemoveElement, FS_CardinalityType

LEMMA NoPads ==
  /\ \A P \in SUBSET PPad : IsFiniteSet(P) /\ Cardinality(P) \in Nat
  /\ \A P \in SUBSET PPad : Cardinality(P) <= 0 => P = {}
<1>1. \A P \in SUBSET PPad : IsFiniteSet(P)
  BY FS_Subset, PointerAssumption DEF PointerAssumption
<1> QED
  BY <1>1, FS_EmptySet, FS_CardinalityType

\* There is such a function.
LEMMA SumIs ==
  ASSUME NEW f \in [PPad -> Int]
  PROVE  \E A \in [SUBSET PPad -> Int] : \A P \in SUBSET PPad : AddsUp(f, A, P)
<1> DEFINE Upto(n) == \E A \in [SUBSET PPad -> Int] :
                        \A P \in SUBSET PPad : Cardinality(P) <= n => AddsUp(f, A, P)
           S == {n \in Nat : Upto(n)}
<1>1. Upto(0)
  <2> DEFINE A == [P \in SUBSET PPad |-> 0]
  <2>1. A \in [SUBSET PPad -> Int]
    OBVIOUS
  <2>2. \A P \in SUBSET PPad : Cardinality(P) <= 0 => AddsUp(f, A, P)
    BY NoPads DEF AddsUp
  <2> QED
    BY <2>1, <2>2
<1>2. ASSUME NEW n \in Nat, Upto(n) PROVE Upto(n + 1)
  <2> PICK A \in [SUBSET PPad -> Int] :
        \A P \in SUBSET PPad : Cardinality(P) <= n => AddsUp(f, A, P)
    BY <1>2
  <2> DEFINE NextSum(P) == IF P = {} THEN 0 ELSE f[Picked(P)] + A[P \ {Picked(P)}]
             B == [P \in SUBSET PPad |-> IF Cardinality(P) <= n THEN A[P] ELSE NextSum(P)]
  <2>1. \A P \in SUBSET PPad : NextSum(P) \in Int
    BY PickedIsIn
  <2>2. B \in [SUBSET PPad -> Int]
    <3> HIDE DEF NextSum
    <3> QED
      BY <2>1
  <2>3. ASSUME NEW P \in SUBSET PPad, Cardinality(P) <= n + 1 PROVE AddsUp(f, B, P)
    <3>1. CASE P = {}
      <4>1. Cardinality(P) <= n
        BY <3>1, FS_EmptySet
      <4>2. B[P] = A[P] /\ AddsUp(f, A, P)
        BY <4>1
      <4> QED
        BY <3>1, <4>2 DEF AddsUp
    <3>2. CASE P # {}
      <4> DEFINE R == P \ {Picked(P)}
      <4>1. R \in SUBSET PPad /\ Cardinality(R) <= n
        BY <2>3, <3>2, PickedIsIn
      <4>2. B[R] = A[R]
        BY <4>1
      <4>3. B[P] = f[Picked(P)] + A[R]
        <5>1. CASE Cardinality(P) <= n
          BY <3>2, <5>1 DEF AddsUp
        <5>2. CASE ~(Cardinality(P) <= n)
          BY <3>2, <5>2
        <5> QED
          BY <5>1, <5>2
      <4> HIDE DEF B
      <4> QED
        BY <3>2, <4>2, <4>3 DEF AddsUp
    <3> QED
      BY <3>1, <3>2
  <2> HIDE DEF B
  <2> QED
    BY <2>2, <2>3
<1>3. S = Nat
  <2> HIDE DEF Upto
  <2>1. 0 \in S
    BY <1>1
  <2>2. \A n \in Nat : n \in S => n + 1 \in S
    BY <1>2
  <2> HIDE DEF S
  <2>3. S \in SUBSET Nat
    BY DEF S
  <2> QED
    BY <2>1, <2>2, <2>3, CountsUp
<1>4. Upto(Cardinality(PPad))
  <2>1. Cardinality(PPad) \in Nat
    BY NoPads
  <2> HIDE DEF Upto
  <2> QED
    BY <1>3, <2>1
<1>5. \A P \in SUBSET PPad : Cardinality(P) <= Cardinality(PPad)
  BY FS_Subset, PointerAssumption DEF PointerAssumption
<1> QED
  BY <1>4, <1>5

LEMMA AddUpIs ==
  ASSUME NEW f \in [PPad -> Int]
  PROVE  \A P \in SUBSET PPad : AddsUp(f, AddUp(f), P)
<1> DEFINE Body(A) == [P \in SUBSET PPad |-> IF P = {} THEN 0 ELSE f[Picked(P)] + A[P \ {Picked(P)}]]
<1>1. AddUp(f) = CHOOSE A : A = Body(A)
  BY DEF AddUp, Picked
<1>2. \E A : A = Body(A)
  <2>1. PICK A \in [SUBSET PPad -> Int] : \A P \in SUBSET PPad : AddsUp(f, A, P)
    BY SumIs
  <2>2. A = Body(A)
    BY <2>1 DEF AddsUp
  <2> QED
    BY <2>2
<1>3. AddUp(f) = Body(AddUp(f))
  <2> HIDE DEF Body
  <2> QED
    BY <1>1, <1>2
<1> QED
  BY <1>3 DEF AddsUp

\* The sum is a number; with nothing left anywhere it is nothing, and when one pad's part
\* changes it changes by as much.
LEMMA SumIsInt ==
  ASSUME NEW f \in [PPad -> Int]
  PROVE  \A P \in SUBSET PPad : AddUp(f)[P] \in Int
<1> DEFINE A == AddUp(f)
           S == {n \in Nat : \A P \in SUBSET PPad : Cardinality(P) <= n => A[P] \in Int}
<1>1. \A P \in SUBSET PPad : AddsUp(f, A, P)
  BY AddUpIs
<1> HIDE DEF A
<1>2. 0 \in S
  BY <1>1, NoPads DEF AddsUp
<1>3. ASSUME NEW n \in Nat, n \in S PROVE n + 1 \in S
  <2> SUFFICES ASSUME NEW P \in SUBSET PPad, Cardinality(P) <= n + 1 PROVE A[P] \in Int
    OBVIOUS
  <2>1. CASE P = {}
    BY <1>1, <2>1 DEF AddsUp
  <2>2. CASE P # {}
    <3> DEFINE R == P \ {Picked(P)}
    <3>1. R \in SUBSET PPad /\ Cardinality(R) <= n
      BY <2>2, PickedIsIn
    <3>2. A[R] \in Int /\ A[P] = f[Picked(P)] + A[R] /\ f[Picked(P)] \in Int
      BY <1>1, <1>3, <2>2, <3>1, PickedIsIn DEF AddsUp
    <3> QED
      BY <3>2
  <2> QED
    BY <2>1, <2>2
<1>4. S = Nat
  <2> HIDE DEF S
  <2>1. S \in SUBSET Nat
    BY DEF S
  <2> QED
    BY <1>2, <1>3, <2>1, CountsUp
<1> SUFFICES ASSUME NEW P \in SUBSET PPad PROVE A[P] \in Int
  BY DEF A
<1>5. Cardinality(P) \in S
  BY <1>4, NoPads
<1> QED
  BY <1>5, NoPads

LEMMA SumMoves ==
  ASSUME NEW f \in [PPad -> Int], NEW g \in [PPad -> Int], NEW p \in PPad,
         \A q \in PPad \ {p} : g[q] = f[q]
  PROVE  \A P \in SUBSET PPad :
            AddUp(g)[P] = AddUp(f)[P] + (IF p \in P THEN g[p] - f[p] ELSE 0)
<1> DEFINE A == AddUp(f)
           B == AddUp(g)
           Moved(P) == B[P] = A[P] + (IF p \in P THEN g[p] - f[p] ELSE 0)
           S == {n \in Nat : \A P \in SUBSET PPad : Cardinality(P) <= n => Moved(P)}
<1>1. \A P \in SUBSET PPad : AddsUp(f, A, P) /\ AddsUp(g, B, P) /\ A[P] \in Int /\ B[P] \in Int
  BY AddUpIs, SumIsInt
<1> HIDE DEF A, B
<1>2. 0 \in S
  <2>1. A[{}] = 0 /\ B[{}] = 0
    BY <1>1 DEF AddsUp
  <2>2. Moved({})
    BY <2>1
  <2> QED
    BY <2>2, NoPads
<1>3. ASSUME NEW n \in Nat, n \in S PROVE n + 1 \in S
  <2> SUFFICES ASSUME NEW P \in SUBSET PPad, Cardinality(P) <= n + 1 PROVE Moved(P)
    OBVIOUS
  <2>1. CASE P = {}
    BY <1>1, <2>1 DEF AddsUp
  <2>2. CASE P # {}
    <3> DEFINE x == Picked(P)
               R == P \ {x}
    <3>1. x \in P /\ x \in PPad /\ R \in SUBSET PPad /\ Cardinality(R) <= n
      BY <2>2, PickedIsIn
    <3>2. Moved(R)
      BY <1>3, <3>1
    <3>3. A[P] = f[x] + A[R] /\ B[P] = g[x] + B[R]
      BY <1>1, <2>2 DEF AddsUp
    <3>4. A[R] \in Int /\ B[R] \in Int /\ f[x] \in Int /\ g[x] \in Int /\ f[p] \in Int /\ g[p] \in Int
      BY <1>1, <3>1
    <3>5. x \notin R /\ (p \in P <=> p \in R \/ p = x) /\ (x # p => g[x] = f[x])
      BY <3>1
    <3> HIDE DEF R, x
    <3> QED
      BY <3>2, <3>3, <3>4, <3>5
  <2> QED
    BY <2>1, <2>2
<1>4. S = Nat
  <2> HIDE DEF S
  <2>1. S \in SUBSET Nat
    BY DEF S
  <2> QED
    BY <1>2, <1>3, <2>1, CountsUp
<1> SUFFICES ASSUME NEW P \in SUBSET PPad PROVE Moved(P)
  BY DEF A, B
<1>5. Cardinality(P) \in S
  BY <1>4, NoPads
<1> QED
  BY <1>5, NoPads

LEMMA SumOfNothing ==
  ASSUME NEW f \in [PPad -> Int], \A p \in PPad : f[p] = 0
  PROVE  \A P \in SUBSET PPad : AddUp(f)[P] = 0
<1> DEFINE A == AddUp(f)
           S == {n \in Nat : \A P \in SUBSET PPad : Cardinality(P) <= n => A[P] = 0}
<1>1. \A P \in SUBSET PPad : AddsUp(f, A, P)
  BY AddUpIs
<1> HIDE DEF A
<1>2. 0 \in S
  BY <1>1, NoPads DEF AddsUp
<1>3. ASSUME NEW n \in Nat, n \in S PROVE n + 1 \in S
  <2> SUFFICES ASSUME NEW P \in SUBSET PPad, Cardinality(P) <= n + 1 PROVE A[P] = 0
    OBVIOUS
  <2>1. CASE P = {}
    BY <1>1, <2>1 DEF AddsUp
  <2>2. CASE P # {}
    <3> DEFINE R == P \ {Picked(P)}
    <3>1. R \in SUBSET PPad /\ Cardinality(R) <= n
      BY <2>2, PickedIsIn
    <3>2. A[R] = 0 /\ A[P] = f[Picked(P)] + A[R] /\ f[Picked(P)] = 0
      BY <1>1, <1>3, <2>2, <3>1, PickedIsIn DEF AddsUp
    <3> QED
      BY <3>2
  <2> QED
    BY <2>1, <2>2
<1>4. S = Nat
  <2> HIDE DEF S
  <2>1. S \in SUBSET Nat
    BY DEF S
  <2> QED
    BY <1>2, <1>3, <2>1, CountsUp
<1> SUFFICES ASSUME NEW P \in SUBSET PPad PROVE A[P] = 0
  BY DEF A
<1>5. Cardinality(P) \in S
  BY <1>4, NoPads
<1> QED
  BY <1>5, NoPads

\* What the pads have left of one kind, when one pad's changes and when none is left.
LEMMA CarriedMoves ==
  ASSUME carry \in Carries, carry' \in Carries, NEW p \in PPad, NEW s \in Source,
         \A q \in PPad \ {p} : carry'[q][s] = carry[q][s]
  PROVE  Carried(s) \in Int /\ Carried(s)' = Carried(s) + (carry'[p][s] - carry[p][s])
<1> DEFINE f == [q \in PPad |-> carry[q][s]]
           g == [q \in PPad |-> carry'[q][s]]
<1>1. f \in [PPad -> Int] /\ g \in [PPad -> Int] /\ f[p] = carry[p][s] /\ g[p] = carry'[p][s]
  BY PartIsPositive DEF Carries
<1>2. \A q \in PPad \ {p} : g[q] = f[q]
  OBVIOUS
<1>3. Carried(s) = AddUp(f)[PPad] /\ Carried(s)' = AddUp(g)[PPad]
  BY DEF Carried, AddUp
<1> HIDE DEF f, g
<1>4. AddUp(g)[PPad] = AddUp(f)[PPad] + (g[p] - f[p]) /\ AddUp(f)[PPad] \in Int
  BY <1>1, <1>2, SumMoves, SumIsInt
<1> QED
  BY <1>1, <1>3, <1>4

LEMMA CarriedStays ==
  ASSUME carry' = carry, NEW s
  PROVE  Carried(s)' = Carried(s)
  BY DEF Carried, AddUp

LEMMA NothingCarried == PointInit => MotionIsKept
<1> SUFFICES ASSUME PointInit PROVE MotionIsKept
  OBVIOUS
<1>1. \A s \in Source : Carried(s) = 0
  <2> SUFFICES ASSUME NEW s \in Source PROVE Carried(s) = 0
    OBVIOUS
  <2> DEFINE f == [q \in PPad |-> carry[q][s]]
  <2>1. f \in [PPad -> Int] /\ \A q \in PPad : f[q] = 0
    BY DEF PointInit
  <2> HIDE DEF f
  <2>2. AddUp(f)[PPad] = 0
    BY <2>1, SumOfNothing
  <2> QED
    BY <2>2 DEF Carried, f
<1> QED
  BY <1>1, PartIsPositive DEF PointInit, MotionIsKept, Source

\* What the mailbox and the wheel gain, in parts, and what one pad has left.
Gained(a, b) == Part * a - Part * b
PointerLeft(c, p) == c[p]["gyro"] + c[p]["stick"]

\* A step balances at a pad: what it takes is in the mailbox or left of it.
BalancesAt(p) ==
    /\ \A q \in PPad \ {p}, s \in Source : carry'[q][s] = carry[q][s]
    /\ motionOwed'.pointer = motionOwed.pointer + Gained(pending', pending)
                             + (PointerLeft(carry', p) - PointerLeft(carry, p))
    /\ motionOwed'.wheel = motionOwed.wheel + Gained(wheelPending', wheelPending)
                             + (carry'[p]["wheel"] - carry[p]["wheel"])

LEMMA Distributes ==
  /\ \A a, b \in Int : /\ Part * (a + b) = Part * a + Part * b /\ Part * (a - b) = Part * a - Part * b
                       /\ Part * a \in Int /\ 2 * Part * a = 2 * (Part * a)
                       /\ Part * (-a) = -(Part * a)
  /\ Part * 0 = 0
  BY PartIsPositive

LEMMA GainedIs ==
  ASSUME NEW a \in Int, NEW b \in Int
  PROVE  /\ Gained(a + b, a) = Part * b /\ Gained(a - b, a) = -(Part * b) /\ Gained(a, a) = 0
         /\ Gained(b, a) \in Int /\ Gained(b, a) = Part * b - Part * a
<1>1. /\ Part * (a + b) = Part * a + Part * b /\ Part * (a - b) = Part * a - Part * b
      /\ Part * a \in Int /\ Part * b \in Int
  BY Distributes
<1> QED
  BY <1>1 DEF Gained

LEMMA CarriesAre ==
  ASSUME PointTypeOK
  PROVE  /\ carry \in Carries /\ pending \in Int /\ wheelPending \in Int /\ motionOwed \in Owings
         /\ \A p \in PPad, s \in Source : carry[p][s] \in Int
  BY PartIsPositive DEF PointTypeOK, Carries, Owings

LEMMA BalanceKeeps ==
  ASSUME PointTypeOK, PointTypeOK', MotionIsKept, NEW p \in PPad, BalancesAt(p)
  PROVE  MotionIsKept'
<1>1. /\ carry \in Carries /\ pending \in Int /\ wheelPending \in Int
      /\ motionOwed.pointer \in Int /\ motionOwed.wheel \in Int
      /\ \A s \in Source : carry[p][s] \in Int
  BY CarriesAre DEF Owings
<1>2. /\ carry' \in Carries /\ pending' \in Int /\ wheelPending' \in Int
      /\ \A s \in Source : carry'[p][s] \in Int
  BY PartIsPositive DEF PointTypeOK, Carries
<1>3. \A s \in Source : Carried(s) \in Int /\ Carried(s)' = Carried(s) + (carry'[p][s] - carry[p][s])
  BY <1>1, <1>2, CarriedMoves DEF BalancesAt
<1> DEFINE G == Gained(pending', pending)
           W == Gained(wheelPending', wheelPending)
<1>4. /\ G \in Int /\ G = Part * pending' - Part * pending
      /\ W \in Int /\ W = Part * wheelPending' - Part * wheelPending
  BY <1>1, <1>2, GainedIs
<1>5. /\ Part * pending \in Int /\ Part * pending' \in Int
      /\ Part * wheelPending \in Int /\ Part * wheelPending' \in Int
  BY <1>1, <1>2, Distributes
<1>6. /\ motionOwed'.pointer = motionOwed.pointer + G + (PointerLeft(carry', p) - PointerLeft(carry, p))
      /\ motionOwed'.wheel = motionOwed.wheel + W + (carry'[p]["wheel"] - carry[p]["wheel"])
  BY DEF BalancesAt
<1> DEFINE a == Part * pending
           b == Part * pending'
           c == Part * wheelPending
           d == Part * wheelPending'
<1>7. /\ motionOwed.pointer = a + Carried("gyro") + Carried("stick")
      /\ motionOwed.wheel = c + Carried("wheel")
  BY DEF MotionIsKept
<1> HIDE DEF a, b, c, d, G, W
<1>8. /\ a \in Int /\ b \in Int /\ c \in Int /\ d \in Int /\ G = b - a /\ W = d - c
  BY <1>4, <1>5 DEF a, b, c, d
<1>9. /\ motionOwed'.pointer = b + Carried("gyro")' + Carried("stick")'
      /\ motionOwed'.wheel = d + Carried("wheel")'
  <2>1. "gyro" \in Source /\ "stick" \in Source /\ "wheel" \in Source
    BY DEF Source
  <2> QED
    BY <1>1, <1>2, <1>3, <1>6, <1>7, <1>8, <2>1 DEF PointerLeft
<1> QED
  BY <1>9 DEF MotionIsKept, b, d

\* And a step of the pump, that moves no pad's part.
LEMMA PumpKeeps ==
  ASSUME PointTypeOK, PointTypeOK', MotionIsKept, carry' = carry,
         motionOwed'.pointer = motionOwed.pointer + Gained(pending', pending),
         motionOwed'.wheel = motionOwed.wheel + Gained(wheelPending', wheelPending)
  PROVE  MotionIsKept'
<1>1. /\ pending \in Int /\ wheelPending \in Int /\ carry \in Carries
      /\ motionOwed.pointer \in Int /\ motionOwed.wheel \in Int
  BY CarriesAre DEF Owings
<1>2. pending' \in Int /\ wheelPending' \in Int
  BY DEF PointTypeOK
<1>3. \A s \in Source : Carried(s)' = Carried(s) /\ Carried(s) \in Int
  <2> SUFFICES ASSUME NEW s \in Source PROVE Carried(s)' = Carried(s) /\ Carried(s) \in Int
    OBVIOUS
  <2> DEFINE f == [q \in PPad |-> carry[q][s]]
  <2>1. f \in [PPad -> Int]
    BY CarriesAre
  <2> HIDE DEF f
  <2>2. AddUp(f)[PPad] \in Int
    BY <2>1, SumIsInt
  <2> QED
    BY <2>2, CarriedStays DEF Carried, f
<1> DEFINE a == Part * pending
           b == Part * pending'
           c == Part * wheelPending
           d == Part * wheelPending'
<1>4. /\ a \in Int /\ b \in Int /\ c \in Int /\ d \in Int
      /\ Gained(pending', pending) = b - a /\ Gained(wheelPending', wheelPending) = d - c
  BY <1>1, <1>2, Distributes, GainedIs
<1>5. /\ motionOwed.pointer = a + Carried("gyro") + Carried("stick")
      /\ motionOwed.wheel = c + Carried("wheel")
  BY DEF MotionIsKept
<1> HIDE DEF a, b, c, d
<1>6. /\ motionOwed'.pointer = b + Carried("gyro")' + Carried("stick")'
      /\ motionOwed'.wheel = d + Carried("wheel")'
  <2>1. "gyro" \in Source /\ "stick" \in Source /\ "wheel" \in Source
    BY DEF Source
  <2> QED
    BY <1>1, <1>3, <1>4, <1>5, <2>1
<1> QED
  BY <1>6 DEF MotionIsKept, b, d

LEMMA PushBalances ==
  ASSUME PointTypeOK, NEW p \in PPad, NEW s \in {"gyro", "stick"}, NEW d \in Int, Push(p, s, d),
         wheelPending' = wheelPending
  PROVE  BalancesAt(p)
<1> DEFINE x == Sum(p, s, d)
           n == Pixels(x)
           m == Part * n
<1>1. /\ carry \in Carries /\ pending \in Int /\ motionOwed \in Owings /\ wheelPending \in Int
      /\ \A q \in PPad, i \in Source : carry[q][i] \in Int
      /\ "gyro" \in Source /\ "stick" \in Source /\ "wheel" \in Source
  BY CarriesAre DEF Source
<1>2. x = carry[p][s] + d /\ x \in Int
  BY <1>1 DEF Sum
<1>3. n \in Int /\ m \in Int
  <2> HIDE DEF x
  <2> QED
    BY <1>2, PartsLeft
<1>4. /\ carry' = [carry EXCEPT ![p][s] = x - m] /\ pending' = pending + n
      /\ motionOwed' = [motionOwed EXCEPT !.pointer = @ + d]
  BY DEF Push
<1> HIDE DEF x, m
<1>5. Gained(pending', pending) = m /\ Gained(wheelPending', wheelPending) = 0
  <2> HIDE DEF n
  <2> QED
    BY <1>1, <1>3, <1>4, GainedIs DEF m
<1>6. /\ \A q \in PPad \ {p}, i \in Source : carry'[q][i] = carry[q][i]
      /\ \A i \in Source : carry'[p][i] = IF i = s THEN x - m ELSE carry[p][i]
  BY <1>1, <1>4 DEF Carries
<1>7. motionOwed'.pointer = motionOwed.pointer + d /\ motionOwed'.wheel = motionOwed.wheel
      /\ motionOwed.pointer \in Int /\ motionOwed.wheel \in Int
  BY <1>1, <1>4 DEF Owings
<1>8. PointerLeft(carry', p) - PointerLeft(carry, p) = d - m
  BY <1>1, <1>2, <1>3, <1>6 DEF PointerLeft
<1>9. carry'[p]["wheel"] = carry[p]["wheel"] /\ carry[p]["wheel"] \in Int
  BY <1>1, <1>6
<1> QED
  BY <1>3, <1>5, <1>6, <1>7, <1>8, <1>9 DEF BalancesAt

LEMMA DropBalances ==
  ASSUME PointTypeOK, NEW p \in PPad, NEW s \in Source,
         NEW which, which = IF s = "wheel" THEN "wheel" ELSE "pointer", Drop(p, s, which),
         pending' = pending, wheelPending' = wheelPending
  PROVE  BalancesAt(p)
<1>1. /\ carry \in Carries /\ pending \in Int /\ motionOwed \in Owings /\ wheelPending \in Int
      /\ \A q \in PPad, i \in Source : carry[q][i] \in Int
      /\ "gyro" \in Source /\ "stick" \in Source /\ "wheel" \in Source
  BY CarriesAre DEF Source
<1> DEFINE c == carry[p][s]
<1>2. /\ carry' = [carry EXCEPT ![p][s] = 0] /\ motionOwed' = [motionOwed EXCEPT ![which] = @ - c]
      /\ c \in Int
  BY <1>1 DEF Drop
<1>3. Gained(pending', pending) = 0 /\ Gained(wheelPending', wheelPending) = 0
  BY <1>1, GainedIs
<1>4. /\ \A q \in PPad \ {p}, i \in Source : carry'[q][i] = carry[q][i]
      /\ \A i \in Source : carry'[p][i] = IF i = s THEN 0 ELSE carry[p][i]
  BY <1>1, <1>2 DEF Carries
<1>5. /\ motionOwed.pointer \in Int /\ motionOwed.wheel \in Int
      /\ motionOwed'.pointer = IF which = "pointer" THEN motionOwed.pointer - c ELSE motionOwed.pointer
      /\ motionOwed'.wheel = IF which = "wheel" THEN motionOwed.wheel - c ELSE motionOwed.wheel
  <2> HIDE DEF c
  <2> QED
    BY <1>1, <1>2 DEF Owings
<1>6. CASE s = "wheel"
  <2>1. PointerLeft(carry', p) = PointerLeft(carry, p) /\ PointerLeft(carry, p) \in Int
    BY <1>1, <1>4, <1>6 DEF PointerLeft
  <2>2. carry'[p]["wheel"] = 0 /\ c = carry[p]["wheel"] /\ carry[p]["wheel"] \in Int
    BY <1>1, <1>4, <1>6
  <2> QED
    BY <1>3, <1>4, <1>5, <1>6, <2>1, <2>2 DEF BalancesAt
<1>7. CASE s # "wheel"
  <2>1. PointerLeft(carry', p) - PointerLeft(carry, p) = -c
    BY <1>1, <1>4, <1>7 DEF PointerLeft, Source
  <2>2. carry'[p]["wheel"] = carry[p]["wheel"] /\ carry[p]["wheel"] \in Int
    BY <1>1, <1>4, <1>7
  <2> QED
    BY <1>2, <1>3, <1>4, <1>5, <1>7, <2>1, <2>2 DEF BalancesAt
<1> QED
  BY <1>6, <1>7

\* A report that moves nothing balances.
LEMMA StillBalances ==
  ASSUME PointTypeOK, UNCHANGED <<carry, pending, wheelPending, motionOwed>>, NEW p \in PPad
  PROVE  BalancesAt(p)
<1>1. /\ pending \in Int /\ motionOwed.pointer \in Int /\ motionOwed.wheel \in Int
      /\ wheelPending \in Int
      /\ \A s \in Source : carry[p][s] \in Int
      /\ "gyro" \in Source /\ "stick" \in Source /\ "wheel" \in Source
  BY CarriesAre DEF Source, Owings
<1>2. Gained(pending', pending) = 0 /\ Gained(wheelPending', wheelPending) = 0
  BY <1>1, GainedIs
<1>3. PointerLeft(carry', p) - PointerLeft(carry, p) = 0 /\ carry'[p]["wheel"] - carry[p]["wheel"] = 0
  BY <1>1 DEF PointerLeft
<1> QED
  BY <1>1, <1>2, <1>3 DEF BalancesAt

\* Turning the wheel: what a natural one turns the other way is taken from the motion twice.
LEMMA WheelBalances ==
  ASSUME PointTypeOK, NEW p \in PPad, NEW d \in Int, NEW natural,
         NEW n, n = Pixels(Sum(p, "wheel", d)), pending' = pending,
         carry' = [carry EXCEPT ![p]["wheel"] = Sum(p, "wheel", d) - Part * n],
         wheelPending' = wheelPending + (IF natural THEN -n ELSE n),
         motionOwed' = [motionOwed EXCEPT !.wheel = @ + d - (IF natural THEN 2 * Part * n ELSE 0)]
  PROVE  BalancesAt(p)
<1> DEFINE x == Sum(p, "wheel", d)
           m == Part * n
           k == IF natural THEN 2 * Part * n ELSE 0
           t == IF natural THEN -n ELSE n
<1>1. /\ carry \in Carries /\ pending \in Int /\ motionOwed \in Owings /\ wheelPending \in Int
      /\ \A q \in PPad, i \in Source : carry[q][i] \in Int
      /\ "gyro" \in Source /\ "stick" \in Source /\ "wheel" \in Source
  BY CarriesAre DEF Source
<1>2. x = carry[p]["wheel"] + d /\ x \in Int
  BY <1>1 DEF Sum
<1>3. n \in Int /\ m \in Int
  BY <1>2, PartsLeft
<1>4. /\ carry' = [carry EXCEPT ![p]["wheel"] = x - m] /\ wheelPending' = wheelPending + t
      /\ motionOwed' = [motionOwed EXCEPT !.wheel = @ + d - k]
  OBVIOUS
<1>5. /\ t \in Int /\ k \in Int /\ Part * t = m - k
  <2>1. /\ 2 * Part * n = 2 * m /\ Part * (-n) = -m
    BY <1>3, Distributes
  <2> HIDE DEF m
  <2>2. CASE natural
    BY <1>3, <2>1, <2>2
  <2>3. CASE ~natural
    <3>1. k = 0 /\ t = n
      BY <2>3
    <3> QED
      BY <1>3, <3>1 DEF m
  <2> QED
    BY <2>2, <2>3
<1> HIDE DEF x, m, k, t
<1>6. Gained(wheelPending', wheelPending) = m - k /\ Gained(pending', pending) = 0
  <2>1. Gained(wheelPending + t, wheelPending) = Part * t /\ Gained(pending, pending) = 0
    BY <1>1, <1>5, GainedIs
  <2>2. wheelPending' = wheelPending + t /\ pending' = pending
    BY <1>4
  <2> QED
    BY <1>5, <2>1, <2>2
<1>7. /\ \A q \in PPad \ {p}, i \in Source : carry'[q][i] = carry[q][i]
      /\ \A i \in Source : carry'[p][i] = IF i = "wheel" THEN x - m ELSE carry[p][i]
  BY <1>1, <1>4 DEF Carries
<1>8. /\ motionOwed'.pointer = motionOwed.pointer /\ motionOwed'.wheel = motionOwed.wheel + d - k
      /\ motionOwed.pointer \in Int /\ motionOwed.wheel \in Int
  BY <1>1, <1>4 DEF Owings
<1>9. PointerLeft(carry', p) = PointerLeft(carry, p) /\ PointerLeft(carry, p) \in Int
  BY <1>1, <1>7 DEF PointerLeft
<1>10. carry'[p]["wheel"] - carry[p]["wheel"] = d - m
  BY <1>1, <1>2, <1>3, <1>7
<1> QED
  BY <1>3, <1>5, <1>6, <1>7, <1>8, <1>9, <1>10 DEF BalancesAt

LEMMA ForgetBalances ==
  ASSUME PointTypeOK, NEW p \in PPad, ForgetPointer(p)
  PROVE  BalancesAt(p)
<1>1. /\ carry \in Carries /\ pending \in Int /\ motionOwed \in Owings /\ wheelPending \in Int
      /\ \A q \in PPad, i \in Source : carry[q][i] \in Int
      /\ "gyro" \in Source /\ "stick" \in Source /\ "wheel" \in Source
  BY CarriesAre DEF Source
<1>2. /\ carry' = [carry EXCEPT ![p] = [s \in Source |-> 0]]
      /\ motionOwed' = [pointer |-> motionOwed.pointer - carry[p]["gyro"] - carry[p]["stick"],
                        wheel |-> motionOwed.wheel - carry[p]["wheel"]]
      /\ UNCHANGED <<pending, wheelPending>>
  BY DEF ForgetPointer
<1>3. Gained(pending', pending) = 0 /\ Gained(wheelPending', wheelPending) = 0
  BY <1>1, <1>2, GainedIs
<1>4. /\ \A q \in PPad \ {p}, i \in Source : carry'[q][i] = carry[q][i]
      /\ \A i \in Source : carry'[p][i] = 0
  BY <1>1, <1>2 DEF Carries
<1>5. /\ motionOwed.pointer \in Int /\ motionOwed.wheel \in Int
      /\ motionOwed'.pointer = motionOwed.pointer - carry[p]["gyro"] - carry[p]["stick"]
      /\ motionOwed'.wheel = motionOwed.wheel - carry[p]["wheel"]
  BY <1>1, <1>2 DEF Owings
<1> QED
  BY <1>1, <1>3, <1>4, <1>5 DEF BalancesAt, PointerLeft

\* No step of the pads and of the pump loses or makes motion.
LEMMA MotionSteps ==
  ASSUME PointTypeOK, MotionIsKept, [PointNext]_pointVars
  PROVE  MotionIsKept'
<1>1. PointTypeOK'
  BY PointSteps
<1>2. ASSUME NEW p \in PPad, BalancesAt(p) PROVE MotionIsKept'
  BY <1>1, <1>2, BalanceKeeps
<1>3. /\ pending \in Int /\ wheelPending \in Int /\ motionOwed \in Owings
      /\ motionOwed.pointer \in Int /\ motionOwed.wheel \in Int
  BY CarriesAre DEF Owings
<1>4. CASE UNCHANGED <<carry, pending, wheelPending, motionOwed>>
  <2>1. Gained(pending', pending) = 0 /\ Gained(wheelPending', wheelPending) = 0
    BY <1>3, <1>4, GainedIs
  <2> QED
    BY <1>1, <1>3, <1>4, <2>1, PumpKeeps
<1>5. \A d \in Motion : d \in Int
  BY PointerAssumption DEF PointerAssumption, Motion
<1>6. ASSUME NEW p \in PPad, NEW g, NEW d \in Motion, NEW gap, GyroReport(p, g, d, gap)
      PROVE  MotionIsKept'
  <2>1. CASE g.when = "off" \/ ~Open(g) \/ frozen[p]
    <3>1. Drop(p, "gyro", "pointer") /\ pending' = pending /\ wheelPending' = wheelPending
      BY <1>6, <2>1 DEF GyroReport
    <3> QED
      BY <1>2, <3>1, DropBalances DEF Source
  <2>2. CASE ~(g.when = "off" \/ ~Open(g) \/ frozen[p])
    <3> DEFINE x == IF since[p]["gyro"] /\ ~gap THEN d ELSE 0
    <3>1. Push(p, "gyro", x) /\ x \in Int /\ wheelPending' = wheelPending
      BY <1>5, <1>6, <2>2 DEF GyroReport
    <3> HIDE DEF x
    <3> QED
      BY <1>2, <3>1, PushBalances
  <2> QED
    BY <2>1, <2>2
<1>7. ASSUME NEW p \in PPad, NEW on \in BOOLEAN, NEW g, NEW d \in Motion, StickReport(p, on, g, d)
      PROVE  MotionIsKept'
  <2>1. CASE on /\ ~since[p]["stick"]
    <3>1. UNCHANGED <<carry, pending, wheelPending, motionOwed>>
      BY <1>7, <2>1 DEF StickReport
    <3> QED
      BY <1>4, <3>1
  <2>2. CASE ~(on /\ ~since[p]["stick"]) /\ (~on \/ ~Open(g) \/ d = 0)
    <3>1. Drop(p, "stick", "pointer") /\ pending' = pending /\ wheelPending' = wheelPending
      BY <1>7, <2>2 DEF StickReport
    <3> QED
      BY <1>2, <3>1, DropBalances DEF Source
  <2>3. CASE ~(on /\ ~since[p]["stick"]) /\ ~(~on \/ ~Open(g) \/ d = 0)
    <3>1. Push(p, "stick", d) /\ wheelPending' = wheelPending
      BY <1>7, <2>3 DEF StickReport
    <3> QED
      BY <1>2, <1>5, <3>1, PushBalances
  <2> QED
    BY <2>1, <2>2, <2>3
<1>8. ASSUME NEW p \in PPad, NEW on \in BOOLEAN, NEW g, NEW d \in Motion, NEW natural,
             ScrollReport(p, on, g, d, natural)
      PROVE  MotionIsKept'
  <2>1. CASE on /\ ~since[p]["wheel"]
    <3>1. UNCHANGED <<carry, pending, wheelPending, motionOwed>>
      BY <1>8, <2>1 DEF ScrollReport
    <3> QED
      BY <1>4, <3>1
  <2>2. CASE ~(on /\ ~since[p]["wheel"]) /\ (~on \/ ~Open(g) \/ d = 0)
    <3>1. Drop(p, "wheel", "wheel") /\ pending' = pending /\ wheelPending' = wheelPending
      BY <1>8, <2>2 DEF ScrollReport
    <3> QED
      BY <1>2, <3>1, DropBalances DEF Source
  <2>3. CASE ~(on /\ ~since[p]["wheel"]) /\ ~(~on \/ ~Open(g) \/ d = 0)
    <3> DEFINE n == Pixels(Sum(p, "wheel", d))
    <3>1. /\ carry' = [carry EXCEPT ![p]["wheel"] = Sum(p, "wheel", d) - Part * n]
          /\ wheelPending' = wheelPending + (IF natural THEN -n ELSE n)
          /\ motionOwed' = [motionOwed EXCEPT !.wheel = @ + d - (IF natural THEN 2 * Part * n ELSE 0)]
          /\ pending' = pending
      BY <1>8, <2>3 DEF ScrollReport
    <3> HIDE DEF n
    <3>2. n = Pixels(Sum(p, "wheel", d))
      BY DEF n
    <3> QED
      BY <1>2, <1>5, <3>1, <3>2, WheelBalances
  <2> QED
    BY <2>1, <2>2, <2>3
<1>9. CASE Drain
  <2> DEFINE b == Clamp(pending)
  <2>1. /\ pending' = pending - b /\ UNCHANGED <<carry, wheelPending>>
        /\ motionOwed' = [motionOwed EXCEPT !.pointer = @ - Part * b]
    BY <1>9 DEF Drain
  <2>2. b \in Int /\ Part * b \in Int
    BY <1>3, ClampInt
  <2> DEFINE m == Part * b
  <2>3. motionOwed' = [motionOwed EXCEPT !.pointer = @ - m]
    BY <2>1
  <2> HIDE DEF b, m
  <2>4. Gained(pending', pending) = -m /\ Gained(wheelPending', wheelPending) = 0 /\ m \in Int
    BY <1>3, <2>1, <2>2, GainedIs DEF m
  <2>5. motionOwed'.pointer = motionOwed.pointer - m /\ motionOwed'.wheel = motionOwed.wheel
    BY <1>3, <2>3 DEF Owings
  <2> QED
    BY <1>1, <1>3, <2>1, <2>4, <2>5, PumpKeeps
<1>10. CASE Clear
  <2> DEFINE m == Part * pending
  <2>1. /\ pending' = 0 /\ UNCHANGED <<carry, wheelPending>>
        /\ motionOwed' = [motionOwed EXCEPT !.pointer = @ - m]
    BY <1>10 DEF Clear
  <2> HIDE DEF m
  <2>2. Gained(pending', pending) = -m /\ Gained(wheelPending', wheelPending) = 0 /\ m \in Int
    BY <1>3, <2>1, GainedIs, Distributes DEF m
  <2>3. motionOwed'.pointer = motionOwed.pointer - m /\ motionOwed'.wheel = motionOwed.wheel
    BY <1>3, <2>1 DEF Owings
  <2> QED
    BY <1>1, <1>3, <2>1, <2>2, <2>3, PumpKeeps
<1>11. CASE Wheel
  <2> DEFINE m == Part * wheelPending
  <2>1. /\ wheelPending' = 0 /\ UNCHANGED <<carry, pending>>
        /\ motionOwed' = [motionOwed EXCEPT !.wheel = @ - m]
    BY <1>11 DEF Wheel
  <2> HIDE DEF m
  <2>2. Gained(wheelPending', wheelPending) = -m /\ Gained(pending', pending) = 0 /\ m \in Int
    BY <1>3, <2>1, GainedIs, Distributes DEF m
  <2>3. motionOwed'.wheel = motionOwed.wheel - m /\ motionOwed'.pointer = motionOwed.pointer
    BY <1>3, <2>1 DEF Owings
  <2> QED
    BY <1>1, <1>3, <2>1, <2>2, <2>3, PumpKeeps
<1>12. ASSUME NEW p \in PPad, ForgetPointer(p) PROVE MotionIsKept'
  BY <1>2, <1>12, ForgetBalances
<1>13. ASSUME NEW p \in PPad, Holds(p) \/ Steers(p) PROVE MotionIsKept'
  <2>1. UNCHANGED <<carry, pending, wheelPending, motionOwed>>
    BY <1>13, Zenon DEF Holds, Steers
  <2> QED
    BY <1>4, <2>1
<1>14. CASE UNCHANGED pointVars
  <2>1. UNCHANGED <<carry, pending, wheelPending, motionOwed>>
    BY <1>14, Zenon DEF pointVars
  <2> QED
    BY <1>4, <2>1
<1> QED
  BY <1>6, <1>7, <1>8, <1>9, <1>10, <1>11, <1>12, <1>13, <1>14, Zenon DEF PointNext

\* Motion taken from any number of pads is sent, or in the mailbox, or a part that waits: the
\* pump and the pads, however they interleave, lose none and make none (MotionIsKept).
THEOREM MotionHolds == PadSpec => []MotionIsKept
<1>1. PadInit => MotionIsKept
  BY NothingCarried DEF PadInit
<1>2. PadInv /\ MotionIsKept /\ [PadNext]_padAll => MotionIsKept'
  BY PadMoves, MotionSteps DEF PadInv
<1> QED
  BY <1>1, <1>2, PadInvariant, PTL DEF PadSpec

\* What the hand does to the pointer is what the computer gets of it (HandHolds).
THEOREM HandsHold == PadSpec => HandHolds
  BY TapsLand, MotionHolds, DragsHold, PTL DEF HandHolds
============================================================================
