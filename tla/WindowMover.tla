---------------------------- MODULE WindowMover -----------------------------
(***************************************************************************)
(* Options moves the settings window (src/src/app/window_move.inl, and     *)
(* handle_report in src/src/app/config_move.inl): a tap snaps it, a hold   *)
(* steers it with the stick or the mouse and swallows the report, and      *)
(* Create resizes it.  Every pad has a mover and an edge of its own, and   *)
(* all of them are dropped by a report that finds the page not in front.   *)
(*                                                                         *)
(* Where the window goes is WindowMemory's; how far a report steers it is  *)
(* left out.                                                               *)
(***************************************************************************)
EXTENDS Naturals

CONSTANTS MPad,
          MaxHands    \* bound: what people do

ASSUME MoverAssumption == MaxHands \in Nat

MBtn == {"options", "create"}

VARIABLES
    front,            \* ctm_rebind_config_mode_effective
    hand,             \* by pad, the buttons held
    held, moved,      \* by pad, its Mover
    edgeWas,          \* by pad, g_r3Down
    snaps, resizes,   \* what the last report did
    own, steered,     \* history: by pad, its last report showed Options; it has steered
                      \* since Options went down or the page came back
    lastOwn, lastSteered,       \* history: these two before the last report, of its pad
    hands

moverVars == <<front, hand, held, moved, edgeWas, snaps, resizes, own, steered,
               lastOwn, lastSteered, hands>>

None == [p \in MPad |-> FALSE]

MoverInit ==
    /\ front = FALSE /\ hand = [p \in MPad |-> {}] /\ held = None /\ moved = None /\ edgeWas = None
    /\ snaps = FALSE /\ resizes = FALSE
    /\ own = None /\ steered = None /\ lastOwn = FALSE /\ lastSteered = FALSE /\ hands = 0

Hands == hands < MaxHands /\ hands' = hands + 1

PersonHolds(p, b) ==
    /\ Hands /\ hand' = [hand EXCEPT ![p] = IF b \in @ THEN @ \ {b} ELSE @ \cup {b}]
    /\ UNCHANGED <<front, held, moved, edgeWas, snaps, resizes, own, steered,
                   lastOwn, lastSteered>>

FrontTurns ==
    /\ Hands /\ front' = ~front
    /\ UNCHANGED <<hand, held, moved, edgeWas, snaps, resizes, own, steered,
                   lastOwn, lastSteered>>

Sees(p) == /\ own' = [own EXCEPT ![p] = "options" \in hand[p]]
           /\ lastOwn' = own[p] /\ lastSteered' = steered[p]

\* Movers::for_key.
OfPad(p)  == [q \in MPad |-> q = p]

\* abandon_all; the edge of this pad alone.
Abandons(p) ==
    /\ ~front /\ held' = None /\ moved' = None /\ edgeWas' = [edgeWas EXCEPT ![p] = FALSE]
    /\ snaps' = FALSE /\ resizes' = FALSE
    /\ Sees(p) /\ steered' = None /\ UNCHANGED <<front, hand, hands>>

\* Mover::step.  The report that begins a hold steers nothing.
Steps(p, steers) ==
    /\ front /\ Sees(p)
    /\ LET down == "options" \in hand[p]
           does == down /\ held[p] /\ steers
       IN  /\ held'  = [q \in MPad |-> IF OfPad(p)[q] THEN down ELSE held[q]]
           /\ moved' = [q \in MPad |-> IF OfPad(p)[q] /\ down THEN held[p] /\ (moved[p] \/ steers)
                                       ELSE moved[q]]
           /\ snaps' = (held[p] /\ ~down /\ ~moved[p])
           /\ steered' = [steered EXCEPT ![p] = down /\ (@ \/ does)]
    /\ resizes' = ("create" \in hand[p] /\ ~edgeWas[p])
    /\ edgeWas' = [edgeWas EXCEPT ![p] = "create" \in hand[p]]
    /\ UNCHANGED <<front, hand, hands>>

MoverNext ==
    \/ \E p \in MPad : \/ Abandons(p)
                       \/ \E steers \in BOOLEAN : Steps(p, steers)
                       \/ \E b \in MBtn : PersonHolds(p, b)
    \/ FrontTurns
-----------------------------------------------------------------------------
MoverTypeOK == front \in BOOLEAN /\ hands \in 0..MaxHands /\ \A p \in MPad : hand[p] \subseteq MBtn

\* A snap is a pad's own: its last report showed Options, this one shows it let go, and it has
\* not steered since the hold began or the page came back (window_move.inl: two pads snapped the
\* window on every report of the one not held).
SnapsAreOwn == snaps => lastOwn /\ ~lastSteered
=============================================================================
