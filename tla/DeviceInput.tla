---------------------------- MODULE DeviceInput ----------------------------
(***************************************************************************)
(* The reports a virtual device holds for its host: enqueue_input_report   *)
(* and handle_interrupt_in of src/src/usbip/device.inl, each one critical  *)
(* section of inputMutex_.  The pad's own reports come from the bridge's   *)
(* input worker, the map's (a handshake) from the URB threads that serve   *)
(* the host's requests; the host polls each endpoint on a thread of its    *)
(* own (UrbSession).                                                       *)
(*                                                                         *)
(* A report is its sequence number.  The deque is filled in the order of   *)
(* the numbers, so it is the set of them.  Reports the map does not        *)
(* translate, and the microphone's, never get here.  An operator no action *)
(* uses is a plausible mistake in the one below it.                        *)
(***************************************************************************)
EXTENDS Naturals, FiniteSets

CONSTANTS Endpoint,
          Cap,          \* pendingInputReports_ is trimmed above this (64)
          MaxReport     \* bound: reports queued in the device's life

ASSUME InputAssumption == Cap \in Nat \ {0} /\ MaxReport \in Nat /\ Endpoint # {}

Report == 1..MaxReport

VARIABLES
    sequence,   \* inputSequence_
    to,         \* by report, its endpoint
    priority,   \* the reports the map built
    pending,    \* pendingInputReports_
    latest,     \* latestInput_, 0 before the first (hasInput_)
    delivered,  \* by endpoint, deliveredSequence
    served      \* history: by endpoint, the reports the host was given

vars == <<sequence, to, priority, pending, latest, delivered, served>>

TypeOK ==
    /\ sequence \in 0..MaxReport
    /\ to \in [Report -> Endpoint]
    /\ priority \subseteq 1..sequence
    /\ pending \subseteq 1..sequence
    /\ latest \in 0..sequence
    /\ delivered \in [Endpoint -> 0..sequence]
    /\ served \in [Endpoint -> SUBSET (1..sequence)]

Init ==
    /\ sequence = 0
    /\ to \in [Report -> Endpoint]    \* which endpoint each will be for
    /\ priority = {} /\ pending = {}
    /\ latest = 0
    /\ delivered = [e \in Endpoint |-> 0]
    /\ served = [e \in Endpoint |-> {}]

Least(S) == CHOOSE n \in S : \A m \in S : n <= m

TrimmedBlindly(q, p) == IF Cardinality(q) > Cap THEN q \ {Least(q)} ELSE q
\* "THE CAP DROPS THE OLDEST INPUT, NEVER A MAP PACKET."  The queue q, of which
\* p are the map's, is over the cap by one at most unless all of it is p.
Trimmed(q, p) ==
    IF Cardinality(q) > Cap /\ q \ p # {} THEN q \ {Least(q \ p)} ELSE q

\* on_physical_input, at its end.
PadReports ==
    /\ sequence < MaxReport
    /\ sequence' = sequence + 1
    /\ latest' = sequence + 1
    /\ pending' = Trimmed(pending \cup {sequence + 1}, priority)
    /\ UNCHANGED <<to, priority, delivered, served>>

\* queue_virtual_input_reports, for each report: it does not become the latest.
MapReports ==
    /\ sequence < MaxReport
    /\ sequence' = sequence + 1
    /\ priority' = priority \cup {sequence + 1}
    /\ pending' = Trimmed(pending \cup {sequence + 1}, priority')
    /\ UNCHANGED <<to, latest, delivered, served>>

\* What the endpoint's poll still finds in the queue.
Matching(e) == {n \in pending : to[n] = e /\ n > delivered[e]}

InOrder(e) == Least(Matching(e))
\* pendingForEndpoint: the map's packets first, then the pad's in order.
First(e) == IF Matching(e) \cap priority # {}
            THEN Least(Matching(e) \cap priority)
            ELSE Least(Matching(e))

\* handle_interrupt_in, answered from the queue.
ServeQueued(e) ==
    /\ Matching(e) # {}
    /\ pending' = pending \ {First(e)}
    /\ delivered' = [delivered EXCEPT ![e] = First(e)]
    /\ served' = [served EXCEPT ![e] = @ \cup {First(e)}]
    /\ UNCHANGED <<sequence, to, priority, latest>>

LatestDue(e) == latest # 0 /\ to[latest] = e /\ sequence > delivered[e]

\* The latest input counts as everything queued so far.
LatestMark == sequence

\* handle_interrupt_in, answered with the latest input.
ServeLatest(e) ==
    /\ Matching(e) = {} /\ LatestDue(e)
    /\ delivered' = [delivered EXCEPT ![e] = LatestMark]
    /\ served' = [served EXCEPT ![e] = @ \cup {latest}]
    /\ UNCHANGED <<sequence, to, priority, pending, latest>>

Serve(e) == ServeQueued(e) \/ ServeLatest(e)

\* Nothing is due and the bound is reached: every poll waits.
Quiet == /\ sequence = MaxReport
         /\ \A e \in Endpoint : Matching(e) = {} /\ ~LatestDue(e)
         /\ UNCHANGED vars

Next == PadReports \/ MapReports \/ (\E e \in Endpoint : Serve(e)) \/ Quiet

Spec == Init /\ [][Next]_vars

\* A host that has claimed the device keeps polling its interrupt endpoints;
\* UrbSession's fairness is what makes a poll reach this code.
FairSpec == Spec /\ \A e \in Endpoint : WF_vars(Serve(e))
----------------------------------------------------------------------------
(* Properties.                                                             *)

\* A handshake packet is never dropped by the cap and never overtaken past
\* delivery: until the host has it, it is in the queue and a poll finds it.
MapPacketsKept ==
    \A n \in priority :
        n \in served[to[n]] \/ (n \in pending /\ n > delivered[to[n]])

\* What the host has been given of an endpoint was meant for that endpoint, and
\* lies behind the mark below which no later poll looks: with MapPacketsKept,
\* no handshake packet is sent twice.
NeverBehindMark ==
    \A e \in Endpoint : \A n \in served[e] : n <= delivered[e] /\ to[n] = e

\* A device announces itself before it sends input: while a handshake packet
\* is waiting for an endpoint, no poll of it is answered with the pad's input.
AnnounceBeforeInput ==
    [][\A e \in Endpoint :
        served'[e] # served[e] /\ Matching(e) \cap priority # {}
            => served'[e] \ served[e] \subseteq priority]_vars

\* The queue is over its cap only when all of it is the map's.
CapHolds == Cardinality(pending) <= Cap \/ pending \subseteq priority

\* The queue gives up the pad's input when it must, and the handshake's never.
PacketsHold == MapPacketsKept /\ CapHolds

\* Every handshake packet reaches a host that keeps polling, however much the
\* pad reports.
MapPacketsArrive ==
    \A n \in Report : n \in priority ~> n \in served[to[n]]

\* "THE MAP'S PACKETS FIRST, then the pad's own input in order": what is queued
\* behind a map packet is still to be delivered after it.
PadInputFollows == \A n \in pending : n > delivered[to[n]]
=============================================================================
