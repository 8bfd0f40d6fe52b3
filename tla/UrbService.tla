----------------------------- MODULE UrbService -----------------------------
(***************************************************************************)
(* What one USB/IP import promises the host, whatever threads serve it: a  *)
(* URB that was read is answered at most once, the URBs of one stream in   *)
(* the order they came, and none is forgotten while the connection stands. *)
(* urb_loop in src/src/usbip/server.inl is the code; UrbSession models its *)
(* threads and implements this module.                                     *)
(*                                                                         *)
(* A URB is its place in the order in which the host submitted it, so the  *)
(* oldest of a set of URBs is the least.                                   *)
(***************************************************************************)
EXTENDS Naturals

CONSTANTS Stream,   \* one per thread that answers URBs
          MaxUrb    \* bound: URBs submitted over one connection

Urb == 1..MaxUrb

VARIABLES read,      \* URBs submitted so far
          pending,   \* by stream, those waiting for their answer
          answered,  \* those that have been answered
          open       \* the connection stands

vars == <<read, pending, answered, open>>

TypeOK == /\ read \in 0..MaxUrb
          /\ pending \in [Stream -> SUBSET Urb]
          /\ answered \subseteq Urb
          /\ open \in BOOLEAN

Init == /\ read = 0
        /\ pending = [s \in Stream |-> {}]
        /\ answered = {}
        /\ open = TRUE

\* The host submits the next URB and some stream takes it.
Submit(s) ==
    /\ read < MaxUrb
    /\ read' = read + 1
    /\ pending' = [pending EXCEPT ![s] = @ \cup {read + 1}]
    /\ UNCHANGED <<answered, open>>

\* A stream answers its oldest URB.
Answer(s) ==
    \E u \in pending[s] :
        /\ \A v \in pending[s] : u <= v
        /\ pending' = [pending EXCEPT ![s] = @ \ {u}]
        /\ answered' = answered \cup {u}
        /\ UNCHANGED <<read, open>>

Close ==
    /\ open' = FALSE
    /\ UNCHANGED <<read, pending, answered>>

\* Only a broken connection loses URBs.
Forget(s) ==
    /\ ~open
    /\ \E S \in SUBSET pending[s] : pending' = [pending EXCEPT ![s] = S]
    /\ UNCHANGED <<read, answered, open>>

Next == Close \/ \E s \in Stream : Submit(s) \/ Answer(s) \/ Forget(s)

Spec == Init /\ [][Next]_vars
----------------------------------------------------------------------------
\* Every URB read over a standing connection is in exactly one place.
NoneLost ==
    open => \A u \in 1..read :
        \/ u \in answered /\ \A s \in Stream : u \notin pending[s]
        \/ u \notin answered /\ \E s \in Stream : u \in pending[s]
=============================================================================
