----------------------------- MODULE HostProofs -----------------------------
(***************************************************************************)
(* What holds of what a host asks of a device.  Of one import's URB loop,  *)
(* for any endpoints, any number of URBs and any room in the pacer: no URB *)
(* is dropped while the connection stands, and the threads together give   *)
(* the host what UrbService says.  Of endpoint 0, for any imports and any  *)
(* pages: a host is given the page it named.  Last, of both beside the     *)
(* rings of MicRingProofs, with which they share nothing.                  *)
(***************************************************************************)
EXTENDS MCHost, MicRingProofs, WellFoundedInduction, TLAPS

\* Where a thread has a URB in hand.
InHand == {"pace", "poll", "pollDoze", "pollSleep", "send"}
\* Where a thread has seen close_session's exchange behind it.
Behind == {"wakeInput", "wakeWorkers", "wakeAck", "notify", "joinWorkers", "stopPacer",
           "joinPacer", "joinAck", "returned"}

HandsFit == \A t \in Thread : hand[t] # NoUrb <=> pc[t] \in InHand

\* No URB is anywhere before it is read.
Numbered ==
    /\ \A w \in Worker : \A u \in queue[w] : u <= read
    /\ \A t \in Thread : hand[t] # NoUrb => hand[t] <= read
    /\ \A u \in answered : u <= read

\* A URB is in one place.
Apart ==
    /\ \A v, w \in Worker : v # w => queue[v] \cap queue[w] = {}
    /\ \A s, t \in Thread : s # t /\ hand[s] # NoUrb => hand[s] # hand[t]
    /\ \A w \in Worker, t \in Thread : hand[t] \notin queue[w]
    /\ \A w \in Worker : queue[w] \cap answered = {}
    /\ \A t \in Thread : hand[t] \notin answered

\* What a worker has in hand is older than what waits for it.
Ordered == \A w \in Worker : hand[w] # NoUrb => \A u \in queue[w] : hand[w] < u

\* A session is closed with its socket, and the pacer stops after it.
Shut ==
    /\ ~active => sock = "shut"
    /\ ~pacing => ~active
    /\ \A t \in Thread : pc[t] \in Behind => ~active

\* A URB that was read is somewhere.
Kept ==
    sock = "open" => \A u \in 1..read :
        u \in answered \/ (\E w \in Worker : u \in queue[w]) \/ (\E t \in Thread : hand[t] = u)

IInv == TypeOK /\ HandsFit /\ Numbered /\ Apart /\ Ordered /\ Shut /\ Kept

Sizes == MaxUrb \in Nat /\ NoUrb \notin Urb /\ Endpoint \cap {Loop, Ack, Pacer} = {}

LEMMA SizesHold == Sizes
  BY SessionAssumption DEF SessionAssumption, Sizes, Urb

LEMMA LoopIsNoWorker == Loop \in Thread /\ Loop \notin Worker /\ Ack \in Worker /\ Pacer \in Worker
  BY SizesHold DEF Sizes, Thread, Worker, Loop, Ack, Pacer
----------------------------------------------------------------------------
(* The places of the threads.                                              *)

PcFits(p) == /\ p \in [Thread -> LoopPc \cup WorkerPc \cup ClosePc]
             /\ p[Loop] \in LoopPc \cup ClosePc
             /\ \A w \in Worker : p[w] \in WorkerPc \cup ClosePc

\* A place that says as much of the URB in hand, and of the close, as another.
AsBefore(p, t) == /\ p[t] \in InHand <=> pc[t] \in InHand
                  /\ p[t] \in Behind => pc[t] \in Behind \/ ~active
FitsAsBefore(p) == PcFits(p) /\ \A t \in Thread : AsBefore(p, t)

\* A notify takes nobody's URB.
LEMMA WakesFit ==
  ASSUME TypeOK, NEW T
  PROVE  PcFits(Wakes(T)) /\ \A t \in Thread : AsBefore(Wakes(T), t)
<1> DEFINE p == Wakes(T)
<1>1. ASSUME NEW t \in Thread
      PROVE  \/ p[t] = pc[t] \/ (pc[t] = "asleep" /\ p[t] = "check")
             \/ (pc[t] = "pollSleep" /\ p[t] = "poll")
  BY DEF Wakes
<1>2. p \in [Thread -> LoopPc \cup WorkerPc \cup ClosePc]
  <2>1. p = [t \in Thread |-> p[t]]
    BY DEF Wakes
  <2>2. ASSUME NEW t \in Thread PROVE p[t] \in LoopPc \cup WorkerPc \cup ClosePc
    BY <1>1 DEF TypeOK, WorkerPc
  <2> QED
    BY <2>1, <2>2
<1>3. p[Loop] \in LoopPc \cup ClosePc
  <2>1. pc[Loop] \notin {"asleep", "pollSleep"}
    BY DEF TypeOK, LoopPc, ClosePc
  <2> QED
    BY <1>1, <2>1, LoopIsNoWorker DEF TypeOK
<1>4. ASSUME NEW w \in Worker PROVE p[w] \in WorkerPc \cup ClosePc
  <2>1. w \in Thread
    BY DEF Thread
  <2> QED
    BY <1>1, <2>1 DEF TypeOK, WorkerPc
<1>5. ASSUME NEW t \in Thread PROVE AsBefore(p, t)
  BY <1>1 DEF AsBefore, InHand, Behind
<1> QED
  BY <1>2, <1>3, <1>4, <1>5 DEF PcFits

\* One thread goes somewhere after it.
LEMMA ExceptFits ==
  ASSUME NEW p, FitsAsBefore(p), NEW t \in Thread, NEW to,
         t = Loop => to \in LoopPc \cup ClosePc, t # Loop => to \in WorkerPc \cup ClosePc,
         to \in InHand <=> pc[t] \in InHand, to \in Behind => pc[t] \in Behind \/ ~active
  PROVE  FitsAsBefore([p EXCEPT ![t] = to])
<1> DEFINE q == [p EXCEPT ![t] = to]
<1>1. PcFits(q) /\ q[t] = to /\ \A s \in Thread : s # t => q[s] = p[s]
  BY LoopIsNoWorker DEF FitsAsBefore, PcFits, Thread
<1>2. ASSUME NEW s \in Thread PROVE AsBefore(q, s)
  BY <1>1 DEF FitsAsBefore, AsBefore
<1> QED
  BY <1>1, <1>2 DEF FitsAsBefore

LEMMA SameFits == ASSUME TypeOK PROVE FitsAsBefore(pc)
  BY DEF TypeOK, FitsAsBefore, PcFits, AsBefore

\* A change that leaves every URB where it is, takes no thread to or from a URB, and closes
\* what it closes in order, keeps IInv.
LEMMA ClosesKeep ==
  ASSUME IInv, UNCHANGED urbVars, PcFits(pc'),
         \A t \in Thread : pc'[t] \in InHand <=> pc[t] \in InHand,
         active' \in BOOLEAN, serving' \in BOOLEAN, pacing' \in BOOLEAN,
         sock' \in {"open", "gone", "shut"}, sock' = "open" => sock = "open",
         fresh' \in SUBSET Endpoint, missed' \in BOOLEAN, Shut'
  PROVE  IInv'
<1>1. TypeOK'
  BY DEF IInv, TypeOK, PcFits, urbVars
<1>2. HandsFit'
  BY DEF IInv, HandsFit, urbVars
<1>3. Numbered' /\ Apart' /\ Ordered'
  BY DEF IInv, Numbered, Apart, Ordered, urbVars
<1>4. Kept'
  BY DEF IInv, Kept, urbVars
<1> QED
  BY <1>1, <1>2, <1>3, <1>4 DEF IInv

\* So does a change of places alone.
LEMMA MovesKeep ==
  ASSUME IInv, UNCHANGED <<urbVars, flagVars, sock>>, FitsAsBefore(pc'),
         fresh' \in SUBSET Endpoint, missed' \in BOOLEAN
  PROVE  IInv'
<1>1. \A t \in Thread : AsBefore(pc', t)
  BY DEF FitsAsBefore
<1>2. Shut'
  BY <1>1 DEF IInv, Shut, AsBefore, flagVars
<1>3. \A t \in Thread : pc'[t] \in InHand <=> pc[t] \in InHand
  BY <1>1 DEF AsBefore
<1> QED
  BY <1>2, <1>3, ClosesKeep DEF IInv, TypeOK, FitsAsBefore, flagVars

\* A step of one thread between two places of the same kind.
LEMMA GoesKeeps ==
  ASSUME IInv, NEW t \in Thread, NEW to, Goes(t, to), UNCHANGED <<urbVars, flagVars, sock, missed>>,
         fresh' \in SUBSET Endpoint,
         t = Loop => to \in LoopPc \cup ClosePc, t # Loop => to \in WorkerPc \cup ClosePc,
         to \in InHand <=> pc[t] \in InHand, to \in Behind => pc[t] \in Behind \/ ~active
  PROVE  IInv'
<1>1. FitsAsBefore(pc')
  BY ExceptFits, SameFits DEF Goes, IInv
<1> QED
  BY <1>1, MovesKeep DEF IInv, TypeOK

\* A notify between two places of the same kind.
LEMMA NotifiesFits ==
  ASSUME IInv, NEW T, NEW t \in Thread, NEW to, Notifies(T, t, to),
         t = Loop => to \in LoopPc \cup ClosePc, t # Loop => to \in WorkerPc \cup ClosePc,
         to \in InHand <=> pc[t] \in InHand, to \in Behind => pc[t] \in Behind \/ ~active
  PROVE  FitsAsBefore(pc') /\ missed' \in BOOLEAN
<1>1. FitsAsBefore(Wakes(T))
  BY WakesFit DEF FitsAsBefore, IInv
<1>2. FitsAsBefore(pc')
  BY <1>1, ExceptFits DEF Notifies
<1>3. missed' \in BOOLEAN
  BY DEF Notifies, IInv, TypeOK
<1> QED
  BY <1>2, <1>3
----------------------------------------------------------------------------
(* The steps that leave every URB where it is.                             *)

\* Notifies, as a step.
LEMMA NotifiesKeeps ==
  ASSUME IInv, NEW T, NEW t \in Thread, NEW to, Notifies(T, t, to),
         UNCHANGED <<urbVars, flagVars, sock, fresh>>,
         t = Loop => to \in LoopPc \cup ClosePc, t # Loop => to \in WorkerPc \cup ClosePc,
         to \in InHand <=> pc[t] \in InHand, to \in Behind => pc[t] \in Behind \/ ~active
  PROVE  IInv'
<1>1. FitsAsBefore(pc') /\ missed' \in BOOLEAN
  BY NotifiesFits
<1> QED
  BY <1>1, MovesKeep DEF IInv, TypeOK

LEMMA WorkerMovesKeep ==
  ASSUME IInv, NEW w \in Worker,
         WorkerHead(w) \/ WorkerDozes(w) \/ WorkerSleeps(w) \/ WorkerLeaves(w)
  PROVE  IInv'
<1> DEFINE to == pc'[w]
<1>1. w \in Thread /\ w # Loop /\ pc \in [Thread -> LoopPc \cup WorkerPc \cup ClosePc]
  BY LoopIsNoWorker DEF Thread, IInv, TypeOK
<1>2. Goes(w, to) /\ pc[w] \in {"head", "check", "doze"} /\ to \in {"done", "check", "doze", "asleep"}
  BY <1>1 DEF WorkerHead, WorkerDozes, WorkerSleeps, WorkerLeaves, Goes
<1>3. UNCHANGED <<urbVars, flagVars, sock, fresh, missed>>
  BY DEF WorkerHead, WorkerDozes, WorkerSleeps, WorkerLeaves
<1>4. /\ to \in WorkerPc \cup ClosePc /\ (to \in InHand <=> pc[w] \in InHand)
      /\ to \notin Behind
  BY <1>2 DEF WorkerPc, InHand, Behind
<1> HIDE DEF to
<1> QED
  BY <1>1, <1>2, <1>3, <1>4, GoesKeeps DEF IInv, TypeOK

LEMMA InputStepKeeps ==
  ASSUME IInv, NEW e \in Endpoint, InputStep(e)
  PROVE  IInv'
<1> DEFINE to == pc'[e]
<1>1. e \in Thread /\ e # Loop /\ pc \in [Thread -> LoopPc \cup WorkerPc \cup ClosePc]
  BY LoopIsNoWorker DEF Thread, Worker, IInv, TypeOK
<1>2. Goes(e, to) /\ pc[e] \in {"poll", "pollDoze"} /\ to \in {"send", "pollDoze", "pollSleep"}
  BY <1>1 DEF InputStep, InputReady, InputDozes, InputSleeps, Goes
<1>3. UNCHANGED <<urbVars, flagVars, sock, missed>> /\ fresh' \in SUBSET Endpoint
  BY DEF InputStep, InputReady, InputDozes, InputSleeps, IInv, TypeOK
<1>4. /\ to \in WorkerPc \cup ClosePc /\ (to \in InHand <=> pc[e] \in InHand)
      /\ to \notin Behind
  BY <1>2 DEF WorkerPc, ClosePc, InHand, Behind
<1> HIDE DEF to
<1> QED
  BY <1>1, <1>2, <1>3, <1>4, GoesKeeps

LEMMA InputArrivesKeeps ==
  ASSUME IInv, NEW e \in Endpoint, InputArrives(e)
  PROVE  IInv'
<1>1. FitsAsBefore(pc')
  BY WakesFit DEF InputArrives, InputNotify, FitsAsBefore, IInv
<1> QED
  BY <1>1, MovesKeep DEF InputArrives, IInv, TypeOK

\* The loop's own way out, but for the pacer's.
LEMMA LoopMovesKeep ==
  ASSUME IInv, LoopEnds \/ LoopNotifies \/ LoopJoinsWorkers \/ LoopJoinsAck
  PROVE  IInv'
<1>1. Loop \in Thread
  BY LoopIsNoWorker
<1>2. CASE LoopEnds
  BY <1>1, <1>2, GoesKeeps DEF LoopEnds, ClosePc, InHand, Behind, IInv, TypeOK
<1>3. CASE LoopNotifies
  BY <1>1, <1>3, NotifiesKeeps DEF LoopNotifies, LoopPc, InHand, Behind
<1>4. CASE LoopJoinsWorkers
  <2>1. UNCHANGED <<urbVars, flagVars, sock, fresh, missed>>
    BY <1>4 DEF LoopJoinsWorkers, LoopJoins, urbVars
  <2> QED
    BY <1>1, <1>4, <2>1, GoesKeeps DEF LoopJoinsWorkers, LoopJoins, LoopPc, InHand, Behind, IInv, TypeOK
<1>5. CASE LoopJoinsAck
  <2>1. UNCHANGED <<urbVars, flagVars, sock, fresh, missed>>
    BY <1>5 DEF LoopJoinsAck, LoopJoins, urbVars
  <2> QED
    BY <1>1, <1>5, <2>1, GoesKeeps DEF LoopJoinsAck, LoopJoins, LoopPc, InHand, Behind, IInv, TypeOK
<1> QED
  BY <1>2, <1>3, <1>4, <1>5

LEMMA StopsPacerKeeps ==
  ASSUME IInv, LoopStopsPacer
  PROVE  IInv'
<1>1. FitsAsBefore(pc') /\ missed' \in BOOLEAN
  BY LoopIsNoWorker, NotifiesFits DEF LoopStopsPacer, LoopPc, InHand, Behind
<1>2. ~active
  BY LoopIsNoWorker DEF LoopStopsPacer, IInv, Shut, Behind
<1>3. Shut'
  BY <1>2 DEF LoopStopsPacer, IInv, Shut
<1> QED
  BY <1>1, <1>3, ClosesKeep DEF LoopStopsPacer, FitsAsBefore, AsBefore, IInv, TypeOK

LEMMA CloseWakesKeep ==
  ASSUME IInv, NEW t \in Thread, CloseWakesInput(t) \/ CloseWakesWorkers(t) \/ CloseWakesAck(t)
  PROVE  IInv'
<1>1. CASE CloseWakesInput(t)
  BY <1>1, NotifiesKeeps DEF CloseWakesInput, ClosePc, InHand, Behind
<1>2. CASE CloseWakesWorkers(t)
  BY <1>2, NotifiesKeeps DEF CloseWakesWorkers, ClosePc, InHand, Behind
<1>3. CASE CloseWakesAck(t)
  <2>1. /\ t = Loop => AfterClose(t) \in LoopPc \cup ClosePc
        /\ t # Loop => AfterClose(t) \in WorkerPc \cup ClosePc
        /\ AfterClose(t) \notin InHand
    BY DEF AfterClose, LoopPc, WorkerPc, InHand
  <2> QED
    BY <1>3, <2>1, NotifiesKeeps DEF CloseWakesAck, InHand, Behind
<1> QED
  BY <1>1, <1>2, <1>3

LEMMA CloseSessionKeeps ==
  ASSUME IInv, NEW t \in Thread, CloseSession(t)
  PROVE  IInv'
<1> DEFINE to == IF active THEN "wakeInput" ELSE AfterClose(t)
<1>1. /\ t = Loop => to \in LoopPc \cup ClosePc
      /\ t # Loop => to \in WorkerPc \cup ClosePc
      /\ to \notin InHand /\ pc[t] \notin InHand
  BY DEF CloseSession, AfterClose, LoopPc, WorkerPc, ClosePc, InHand
<1>2. pc' = [pc EXCEPT ![t] = to]
  BY DEF CloseSession, Goes
<1> HIDE DEF to
<1>3. pc \in [Thread -> LoopPc \cup WorkerPc \cup ClosePc]
  BY DEF IInv, TypeOK
<1>4. PcFits(pc')
  BY <1>1, <1>2, <1>3, LoopIsNoWorker DEF PcFits, IInv, TypeOK, Thread
<1>5. \A s \in Thread : pc'[s] \in InHand <=> pc[s] \in InHand
  BY <1>1, <1>2, <1>3
<1>6. /\ active' = FALSE /\ sock' \in {sock, "shut"} /\ sock' = "shut"
      /\ UNCHANGED <<urbVars, serving, pacing, fresh, missed>>
  BY DEF CloseSession, IInv, Shut
<1>7. Shut'
  BY <1>6 DEF Shut
<1> QED
  BY <1>4, <1>5, <1>6, <1>7, ClosesKeep DEF IInv, TypeOK

LEMMA OutsideKeeps ==
  ASSUME IInv, HostLeaves \/ Unplugged \/ ServerStops \/ Returned
  PROVE  IInv'
<1>1. PcFits(pc') /\ pc' = pc /\ UNCHANGED urbVars
  BY DEF HostLeaves, Unplugged, ServerStops, Returned, vars, urbVars, PcFits, IInv, TypeOK
<1>2. /\ active' = active /\ pacing' = pacing /\ serving' \in BOOLEAN
      /\ UNCHANGED <<fresh, missed>>
      /\ sock' \in {"open", "gone", "shut"} /\ (sock' = "open" => sock = "open")
      /\ (sock = "shut" => sock' = "shut")
  BY DEF HostLeaves, Unplugged, ServerStops, Returned, vars, flagVars, IInv, TypeOK
<1>3. Shut'
  BY <1>1, <1>2 DEF IInv, Shut
<1> QED
  BY <1>1, <1>2, <1>3, ClosesKeep DEF IInv, TypeOK
----------------------------------------------------------------------------
(* The steps that move a URB.                                              *)

\* What is in a thread's hands, read so far and free to be read next.
LEMMA WhereUrbsAre ==
  ASSUME IInv
  PROVE  /\ read \in Nat /\ MaxUrb \in Nat /\ NoUrb \notin Urb
         /\ \A t \in Thread : hand[t] = NoUrb \/ hand[t] \in 1..read
         /\ \A w \in Worker : queue[w] \subseteq 1..read
         /\ answered \subseteq 1..read
         /\ read < MaxUrb => /\ read + 1 \in Urb /\ read + 1 # NoUrb
                             /\ \A t \in Thread : hand[t] # read + 1
                             /\ \A w \in Worker : read + 1 \notin queue[w]
                             /\ read + 1 \notin answered
<1>1. read \in Nat /\ MaxUrb \in Nat /\ NoUrb \notin Urb
  BY SizesHold DEF Sizes, IInv, TypeOK
<1>2. ASSUME NEW t \in Thread PROVE hand[t] = NoUrb \/ hand[t] \in 1..read
  BY <1>1 DEF IInv, TypeOK, Numbered, Urb
<1>3. ASSUME NEW w \in Worker PROVE queue[w] \subseteq 1..read
  BY <1>1 DEF IInv, TypeOK, Numbered, Urb
<1>4. answered \subseteq 1..read
  BY <1>1 DEF IInv, TypeOK, Numbered, Urb
<1>5. read < MaxUrb => read + 1 \in Urb /\ read + 1 # NoUrb /\ read + 1 \notin 1..read
  BY <1>1 DEF Urb
<1> QED
  BY <1>1, <1>2, <1>3, <1>4, <1>5

\* The conjuncts of IInv that are about where URBs are.
Placed == Numbered /\ Apart /\ Ordered

\* Losing URBs disturbs none of them.
LEMMA LosesPlaced ==
  ASSUME IInv, UNCHANGED <<read, answered>>,
         \A w \in Worker : queue'[w] \subseteq queue[w],
         \A t \in Thread : hand'[t] \in {hand[t], NoUrb}
  PROVE  Placed'
<1>1. \A w \in Worker : NoUrb \notin queue[w]
  BY SizesHold DEF Sizes, IInv, TypeOK
<1>2. NoUrb \notin answered
  BY SizesHold DEF Sizes, IInv, TypeOK
<1>3. Worker \subseteq Thread
  BY DEF Thread
<1>4. Numbered'
  BY DEF IInv, Numbered
<1>5. Apart'
  BY <1>1, <1>2, <1>3 DEF IInv, Apart
<1>6. Ordered'
  BY <1>3 DEF IInv, Ordered
<1> QED
  BY <1>4, <1>5, <1>6 DEF Placed

\* A thread goes somewhere with or without a URB.
LEMMA ExceptPlaced ==
  ASSUME IInv, NEW t \in Thread, NEW to, Goes(t, to), UNCHANGED <<flagVars, sock, fresh, missed>>,
         t = Loop => to \in LoopPc \cup ClosePc, t # Loop => to \in WorkerPc \cup ClosePc,
         to \in Behind => pc[t] \in Behind \/ ~active,
         NEW u \in Urb \cup {NoUrb}, hand' = [hand EXCEPT ![t] = u],
         u # NoUrb <=> to \in InHand,
         read' \in 0..MaxUrb, queue' \in [Worker -> SUBSET Urb], answered' \subseteq Urb,
         Placed', Kept'
  PROVE  IInv'
<1>1. pc' = [pc EXCEPT ![t] = to] /\ pc \in [Thread -> LoopPc \cup WorkerPc \cup ClosePc]
  BY DEF Goes, IInv, TypeOK
<1>2. PcFits(pc')
  BY <1>1, LoopIsNoWorker DEF PcFits, IInv, TypeOK, Thread
<1>3. hand' \in [Thread -> Urb \cup {NoUrb}]
  BY DEF IInv, TypeOK
<1>4. TypeOK'
  BY <1>2, <1>3 DEF PcFits, IInv, TypeOK, flagVars
<1>5. HandsFit'
  BY <1>1 DEF IInv, TypeOK, HandsFit
<1>6. Shut'
  BY <1>1 DEF IInv, Shut, flagVars
<1> QED
  BY <1>4, <1>5, <1>6 DEF IInv, Placed

LEMMA LoopServesKeeps == ASSUME IInv, LoopServes PROVE IInv'
<1> DEFINE u == read + 1
<1>1. u \in Urb /\ u # NoUrb /\ read \in Nat /\ Loop \in Thread /\ Loop \notin Worker
      /\ Worker \subseteq Thread
  BY WhereUrbsAre, LoopIsNoWorker DEF LoopServes, Reads, Thread
<1>2. hand[Loop] = NoUrb
  BY <1>1 DEF LoopServes, Reads, IInv, HandsFit, InHand
<1>3. /\ hand' = [hand EXCEPT ![Loop] = u] /\ read' = u /\ UNCHANGED <<queue, answered, sock>>
      /\ hand \in [Thread -> Urb \cup {NoUrb}]
  BY DEF LoopServes, IInv, TypeOK
<1>4. /\ \A t \in Thread : hand[t] = NoUrb \/ hand[t] \in 1..read
      /\ \A w \in Worker : queue[w] \subseteq 1..read
      /\ answered \subseteq 1..read
  BY WhereUrbsAre
<1>5. Numbered'
  <2>1. \A t \in Thread : hand'[t] # NoUrb => hand'[t] <= u
    BY <1>1, <1>3, <1>4
  <2>2. \A w \in Worker : \A v \in queue'[w] : v <= u
    BY <1>1, <1>3, <1>4
  <2>3. \A v \in answered' : v <= u
    BY <1>1, <1>3, <1>4
  <2> QED
    BY <1>3, <2>1, <2>2, <2>3 DEF Numbered
<1>6. Apart'
  <2>1. /\ \A t \in Thread : hand[t] # u
        /\ \A w \in Worker : u \notin queue[w]
        /\ u \notin answered
    BY WhereUrbsAre DEF LoopServes, Reads
  <2> QED
    BY <1>1, <1>3, <2>1 DEF IInv, Apart
<1>7. Ordered'
  BY <1>1, <1>3 DEF IInv, Ordered
<1>8. Kept'
  <2> SUFFICES ASSUME sock = "open", NEW v \in 1..u
               PROVE  v \in answered \/ (\E w \in Worker : v \in queue[w]) \/ \E t \in Thread : hand'[t] = v
    BY <1>3 DEF Kept
  <2>1. CASE v = u
    BY <1>1, <1>3, <2>1
  <2>2. CASE v # u
    <3>1. v \in 1..read
      BY <1>1, <2>2
    <3>2. v # NoUrb
      BY <3>1, WhereUrbsAre DEF LoopServes, Reads, Urb
    <3>3. \A t \in Thread : hand[t] = v => hand'[t] = v
      BY <1>2, <1>3, <3>2
    <3> QED
      BY <3>1, <3>3 DEF IInv, Kept
  <2> QED
    BY <2>1, <2>2
<1>9. u \in 0..MaxUrb
  BY <1>1 DEF Urb
<1> QED
  BY <1>1, <1>3, <1>5, <1>6, <1>7, <1>8, <1>9, ExceptPlaced
  DEF LoopServes, ClosePc, InHand, Behind, IInv, TypeOK, Placed

LEMMA HandsKeeps == ASSUME IInv, NEW w \in Worker, Reads, Hands(w) PROVE IInv'
<1> DEFINE u == read + 1
<1>1. u \in Urb /\ u # NoUrb /\ read \in Nat /\ w \in Thread /\ w # Loop /\ Worker \subseteq Thread
  BY WhereUrbsAre, LoopIsNoWorker DEF Reads, Thread
<1>2. /\ queue' = [queue EXCEPT ![w] = @ \cup {u}] /\ read' = u
      /\ UNCHANGED <<hand, answered, flagVars, sock, fresh, missed>>
      /\ queue \in [Worker -> SUBSET Urb]
  BY DEF Hands, IInv, TypeOK
<1>3. /\ \A t \in Thread : hand[t] = NoUrb \/ hand[t] \in 1..read
      /\ \A v \in Worker : queue[v] \subseteq 1..read
      /\ answered \subseteq 1..read
  BY WhereUrbsAre
<1>4. /\ \A t \in Thread : hand[t] # u
      /\ \A v \in Worker : u \notin queue[v]
      /\ u \notin answered
  BY WhereUrbsAre DEF Reads
<1>5. FitsAsBefore(pc')
  <2>1. CASE pc[w] = "none"
    BY <1>1, <2>1, ExceptFits, SameFits DEF Hands, WorkerPc, InHand, Behind, IInv
  <2>2. CASE pc[w] # "none"
    BY <2>2, WakesFit DEF Hands, FitsAsBefore, IInv
  <2> QED
    BY <2>1, <2>2
<1>6. Numbered'
  BY <1>1, <1>2, <1>3 DEF Numbered
<1>7. Apart'
  BY <1>1, <1>2, <1>4 DEF IInv, Apart
<1>8. Ordered'
  BY <1>1, <1>2, <1>3 DEF IInv, Ordered
<1>9. Kept'
  <2>1. \A v \in 1..u : v = u \/ v \in 1..read
    BY <1>1
  <2>2. u \in queue'[w] /\ \A v \in Worker : queue[v] \subseteq queue'[v]
    BY <1>2
  <2> QED
    BY <1>1, <1>2, <2>1, <2>2 DEF IInv, Kept
<1>10. TypeOK'
  BY <1>1, <1>2, <1>5 DEF FitsAsBefore, PcFits, IInv, TypeOK, Urb, flagVars
<1>11. HandsFit'
  BY <1>2, <1>5 DEF FitsAsBefore, AsBefore, IInv, HandsFit
<1>12. Shut'
  BY <1>2, <1>5 DEF FitsAsBefore, AsBefore, IInv, Shut, flagVars
<1> QED
  BY <1>6, <1>7, <1>8, <1>9, <1>10, <1>11, <1>12 DEF IInv

\* front() of a worker's deque is in it, and nothing there is older.
Older == OpToRel(<, Nat)

LEMMA OldestIs ==
  ASSUME IInv, NEW w \in Worker, queue[w] # {}
  PROVE  Oldest(w) \in queue[w] /\ \A v \in queue[w] : Oldest(w) <= v
<1>1. queue[w] \subseteq Nat
  BY WhereUrbsAre
<1>2. \A x, y \in Nat : <<x, y>> \in Older <=> x < y
  BY DEF Older, OpToRel
<1>3. IsWellFoundedOn(Older, Nat)
  BY NatLessThanWellFounded DEF Older
<1>4. PICK n \in queue[w] : \A v \in queue[w] : <<v, n>> \notin Older
  BY <1>1, <1>3, WFMin
<1>5. ASSUME NEW v \in queue[w] PROVE n <= v
  <2>1. v \in Nat /\ n \in Nat
    BY <1>1
  <2>2. ~(v < n)
    BY <1>2, <1>4, <2>1
  <2> QED
    BY <2>1, <2>2
<1> QED
  BY <1>5 DEF Oldest

LEMMA TakesKeeps == ASSUME IInv, NEW w \in Worker, WorkerTakes(w) PROVE IInv'
<1> DEFINE u  == Oldest(w)
           to == IF w \in Endpoint THEN "poll" ELSE "pace"
<1>1. u \in queue[w] /\ \A v \in queue[w] : u <= v
  BY OldestIs DEF WorkerTakes
<1> HIDE DEF u
<1>2. /\ w \in Thread /\ w # Loop /\ Worker \subseteq Thread
      /\ u \in Urb /\ u # NoUrb /\ read \in Nat /\ \A v \in Worker : queue[v] \subseteq Nat
  BY <1>1, WhereUrbsAre, LoopIsNoWorker DEF Thread, IInv, TypeOK
<1>3. /\ hand' = [hand EXCEPT ![w] = u] /\ queue' = [queue EXCEPT ![w] = queue[w] \ {u}]
      /\ UNCHANGED <<read, answered, flagVars, sock, fresh, missed>> /\ Goes(w, to)
      /\ queue \in [Worker -> SUBSET Urb] /\ hand \in [Thread -> Urb \cup {NoUrb}]
  BY DEF WorkerTakes, Popped, u, IInv, TypeOK
<1>4. hand[w] = NoUrb
  BY <1>2 DEF WorkerTakes, IInv, HandsFit, InHand
<1>5. Numbered'
  BY <1>1, <1>2, <1>3 DEF IInv, Numbered
<1>6. Apart'
  BY <1>1, <1>2, <1>3 DEF IInv, Apart
<1>7. Ordered'
  BY <1>1, <1>2, <1>3 DEF IInv, Ordered
<1>8. Kept'
  <2> SUFFICES ASSUME sock = "open", NEW v \in 1..read
               PROVE  v \in answered \/ (\E x \in Worker : v \in queue'[x]) \/ \E t \in Thread : hand'[t] = v
    BY <1>3 DEF Kept
  <2>1. CASE v = u
    BY <1>2, <1>3, <2>1
  <2>2. CASE v # u
    <3>1. v # NoUrb
      BY SizesHold DEF Sizes, IInv, TypeOK, Urb
    <3>2. \A t \in Thread : hand[t] = v => hand'[t] = v
      BY <1>3, <1>4, <3>1
    <3>3. \A x \in Worker : v \in queue[x] => v \in queue'[x]
      BY <1>3, <2>2
    <3> QED
      BY <3>2, <3>3 DEF IInv, Kept
  <2> QED
    BY <2>1, <2>2
<1>9. to \in WorkerPc /\ to \in InHand /\ to \notin Behind
  BY DEF WorkerPc, InHand, Behind
<1>10. queue' \in [Worker -> SUBSET Urb]
  BY <1>3
<1> HIDE DEF to
<1> QED
  BY <1>2, <1>3, <1>5, <1>6, <1>7, <1>8, <1>9, <1>10, ExceptPlaced DEF IInv, TypeOK, Placed

LEMMA PacedKeeps == ASSUME IInv, NEW w \in Worker, WorkerPaced(w) PROVE IInv'
<1>1. w \in Thread /\ w # Loop
  BY LoopIsNoWorker DEF Thread
<1>2. CASE w = Pacer /\ Stopped(w)
  <2>1. /\ hand' = [hand EXCEPT ![w] = NoUrb] /\ Goes(w, "done")
        /\ UNCHANGED <<read, queue, answered, flagVars, sock, fresh, missed>>
        /\ hand \in [Thread -> Urb \cup {NoUrb}]
    BY <1>2 DEF WorkerPaced, IInv, TypeOK
  <2>2. sock = "shut"
    BY <1>2 DEF Stopped, IInv, Shut
  <2>3. Kept'
    BY <2>1, <2>2 DEF Kept
  <2>4. Placed'
    BY <2>1, LosesPlaced
  <2>5. "done" \in WorkerPc /\ "done" \notin InHand /\ "done" \notin Behind
    BY DEF WorkerPc, InHand, Behind
  <2> QED
    BY <1>1, <2>1, <2>3, <2>4, <2>5, ExceptPlaced DEF IInv, TypeOK
<1>3. CASE ~(w = Pacer /\ Stopped(w))
  <2>1. Goes(w, "send") /\ UNCHANGED <<urbVars, flagVars, sock, fresh, missed>> /\ pc[w] = "pace"
    BY <1>3 DEF WorkerPaced, urbVars
  <2> QED
    BY <1>1, <2>1, GoesKeeps DEF ClosePc, InHand, Behind, IInv, TypeOK
<1> QED
  BY <1>2, <1>3

LEMMA SendsKeeps == ASSUME IInv, NEW t \in Thread, Sends(t) PROVE IInv'
<1> DEFINE u  == hand[t]
           to == IF t = Loop THEN "read" ELSE "head"
<1>1. u # NoUrb
  BY DEF Sends, IInv, HandsFit, InHand
<1>2. u \in Urb /\ u <= read /\ read \in Nat /\ Worker \subseteq Thread
  BY <1>1, WhereUrbsAre DEF IInv, TypeOK, Numbered, Thread
<1>3. /\ hand' = [hand EXCEPT ![t] = NoUrb] /\ answered' = answered \cup {u} /\ Goes(t, to)
      /\ UNCHANGED <<read, queue, flagVars, sock, fresh, missed>>
      /\ queue \in [Worker -> SUBSET Urb] /\ hand \in [Thread -> Urb \cup {NoUrb}]
  BY DEF Sends, IInv, TypeOK
<1>4. NoUrb \notin Urb
  BY SizesHold DEF Sizes
<1>5. Numbered'
  BY <1>2, <1>3 DEF IInv, Numbered
<1>6. Apart'
  <2>1. \A w \in Worker : u \notin queue[w]
    BY DEF IInv, Apart
  <2>2. \A s \in Thread : s # t => hand[s] # u
    BY <1>1 DEF IInv, Apart
  <2>3. NoUrb \notin answered /\ \A w \in Worker : NoUrb \notin queue[w]
    BY <1>4 DEF IInv, TypeOK
  <2>4. /\ \A w \in Worker : queue[w] \cap answered' = {}
        /\ \A s \in Thread : hand'[s] \notin answered'
    BY <1>1, <1>3, <2>1, <2>2, <2>3 DEF IInv, Apart
  <2>5. /\ \A v, w \in Worker : v # w => queue'[v] \cap queue'[w] = {}
        /\ \A r, s \in Thread : r # s /\ hand'[r] # NoUrb => hand'[r] # hand'[s]
        /\ \A w \in Worker, s \in Thread : hand'[s] \notin queue'[w]
    BY <1>3, <2>3 DEF IInv, Apart
  <2> QED
    BY <1>3, <2>4, <2>5 DEF Apart
<1>7. Ordered'
  BY <1>2, <1>3 DEF IInv, Ordered
<1>8. Kept'
  <2>1. \A v : \A s \in Thread : hand[s] = v => v \in answered' \/ hand'[s] = v
    BY <1>3
  <2> QED
    BY <1>3, <2>1 DEF IInv, Kept
<1>9. /\ t = Loop => to \in LoopPc
      /\ t # Loop => to \in WorkerPc
      /\ to \notin InHand /\ to \notin Behind
  BY DEF LoopPc, WorkerPc, InHand, Behind
<1>10. answered' \subseteq Urb
  BY <1>2, <1>3 DEF IInv, TypeOK
<1> HIDE DEF u, to
<1> QED
  BY <1>3, <1>5, <1>6, <1>7, <1>8, <1>9, <1>10, ExceptPlaced DEF IInv, TypeOK, Placed

LEMMA SendFailsKeeps == ASSUME IInv, NEW t \in Thread, SendFails(t) PROVE IInv'
<1>1. /\ hand' = [hand EXCEPT ![t] = NoUrb] /\ Goes(t, "close") /\ sock # "open"
      /\ UNCHANGED <<read, queue, answered, flagVars, sock, fresh, missed>>
      /\ hand \in [Thread -> Urb \cup {NoUrb}]
  BY DEF SendFails, IInv, TypeOK
<1>2. Kept'
  BY <1>1 DEF Kept
<1>3. Placed'
  BY <1>1, LosesPlaced
<1>4. "close" \in ClosePc /\ "close" \notin InHand /\ "close" \notin Behind
  BY DEF ClosePc, InHand, Behind
<1> QED
  BY <1>1, <1>2, <1>3, <1>4, ExceptPlaced DEF IInv, TypeOK

LEMMA JoinsPacerKeeps == ASSUME IInv, LoopJoinsPacer PROVE IInv'
<1>1. /\ queue' = [queue EXCEPT ![Pacer] = {}] /\ Goes(Loop, "joinAck") /\ pc[Loop] = "joinPacer"
      /\ UNCHANGED <<hand, read, answered, flagVars, sock, fresh, missed>>
      /\ queue \in [Worker -> SUBSET Urb] /\ hand \in [Thread -> Urb \cup {NoUrb}]
  BY DEF LoopJoinsPacer, LoopJoins, IInv, TypeOK
<1>2. ~active /\ sock = "shut" /\ Loop \in Thread
  BY <1>1, LoopIsNoWorker DEF IInv, Shut, Behind
<1>3. Placed'
  BY <1>1, LosesPlaced
<1>4. Kept'
  BY <1>1, <1>2 DEF Kept
<1>5. hand[Loop] = NoUrb /\ hand' = [hand EXCEPT ![Loop] = NoUrb]
  BY <1>1, <1>2 DEF IInv, HandsFit, InHand
<1>6. "joinAck" \in LoopPc /\ "joinAck" \notin InHand
  BY DEF LoopPc, InHand
<1>7. queue' \in [Worker -> SUBSET Urb]
  BY <1>1
<1> QED
  BY <1>1, <1>2, <1>3, <1>4, <1>5, <1>6, <1>7, ExceptPlaced DEF IInv, TypeOK
----------------------------------------------------------------------------
(* The invariant.                                                          *)

LEMMA InitHolds == ASSUME Init PROVE IInv
<1>1. Loop \notin Endpoint /\ MaxUrb \in Nat /\ NoUrb \notin Urb
  BY SizesHold DEF Sizes
<1>2. TypeOK
  <2>1. read \in 0..MaxUrb
    BY <1>1 DEF Init
  <2>2. pc \in [Thread -> LoopPc \cup WorkerPc \cup ClosePc]
    BY DEF Init, LoopPc, WorkerPc
  <2>3. pc[Loop] \in LoopPc \cup ClosePc /\ \A w \in Worker : pc[w] \in WorkerPc \cup ClosePc
    BY LoopIsNoWorker DEF Init, LoopPc, WorkerPc, Thread
  <2> QED
    BY <2>1, <2>2, <2>3 DEF Init, TypeOK
<1>3. HandsFit
  BY DEF Init, HandsFit, InHand
<1>4. Numbered /\ Apart /\ Ordered
  BY DEF Init, Numbered, Apart, Ordered, Thread
<1>5. Shut
  BY DEF Init, Shut, Behind
<1>6. Kept
  BY DEF Init, Kept
<1> QED
  BY <1>2, <1>3, <1>4, <1>5, <1>6 DEF IInv

LEMMA StepHolds == ASSUME IInv, Next PROVE IInv'
<1>1. CASE LoopReads
  BY <1>1, LoopServesKeeps, HandsKeeps, LoopIsNoWorker
  DEF LoopReads, LoopHandsIsoOut, LoopHandsIsoIn, LoopHandsInput, Worker
<1>2. CASE LoopStep
  BY <1>2, LoopMovesKeep, StopsPacerKeeps, JoinsPacerKeeps DEF LoopStep
<1>3. ASSUME NEW t \in Thread, CloseStep(t) PROVE IInv'
  BY <1>3, SendsKeeps, SendFailsKeeps, CloseSessionKeeps, CloseWakesKeep DEF CloseStep
<1>4. ASSUME NEW w \in Worker, WorkerStep(w) PROVE IInv'
  BY <1>4, WorkerMovesKeep, TakesKeeps, PacedKeeps DEF WorkerStep
<1>5. ASSUME NEW e \in Endpoint, InputStep(e) \/ InputArrives(e) PROVE IInv'
  BY <1>5, InputStepKeeps, InputArrivesKeeps
<1>6. CASE HostLeaves \/ Unplugged \/ ServerStops \/ Returned
  BY <1>6, OutsideKeeps
<1> QED
  BY <1>1, <1>2, <1>3, <1>4, <1>5, <1>6 DEF Next

LEMMA Inductive == IInv /\ [Next]_vars => IInv'
<1>1. ASSUME IInv, UNCHANGED vars PROVE IInv'
  BY <1>1 DEF vars, IInv, TypeOK, HandsFit, Numbered, Apart, Ordered, Shut, Kept
<1> QED
  BY <1>1, StepHolds

\* What urb_loop and its threads keep: types, and where URBs and threads are.
THEOREM Invariant == Spec => []IInv
<1>1. Init => IInv
  BY InitHolds
<1> QED
  BY <1>1, Inductive, PTL DEF Spec

\* The session's state is what TypeOK says, for any endpoints and bounds.
THEOREM TypeCorrect == Spec => []TypeOK
<1>1. IInv => TypeOK
  BY DEF IInv
<1> QED
  BY <1>1, Invariant, PTL

\* "Never drop a URB": while the connection stands every URB urb_loop has read is answered or
\* in one place of the queues and the threads' hands, for any number of endpoints.
THEOREM UrbsKept == Spec => []NeverDropsUrb
<1>1. ASSUME IInv PROVE NeverDropsUrb
  <2> SUFFICES ASSUME sock = "open", NEW u \in 1..read
               PROVE  \/ u \in answered /\ u \notin Queues /\ \A t \in Thread : hand[t] # u
                      \/ /\ u \notin answered
                         /\ \/ u \notin Queues /\ \E t \in Thread : hand[t] = u
                            \/ u \in Queues /\ \A t \in Thread : hand[t] # u
    BY DEF NeverDropsUrb
  <2>1. u \in Queues <=> \E w \in Worker : u \in queue[w]
    BY DEF Queues
  <2>2. u \in answered \/ u \in Queues \/ \E t \in Thread : hand[t] = u
    BY <1>1, <2>1 DEF IInv, Kept
  <2>3. u \in answered => u \notin Queues /\ \A t \in Thread : hand[t] # u
    BY <1>1, <2>1 DEF IInv, Apart
  <2>4. u \in Queues => \A t \in Thread : hand[t] # u
    BY <1>1, <2>1 DEF IInv, Apart
  <2> QED
    BY <2>2, <2>3, <2>4
<1> QED
  BY <1>1, Invariant, PTL
----------------------------------------------------------------------------
(* The loop's way out.                                                     *)

\* Where the loop has joined the endpoints' workers.
Joining == {"stopPacer", "joinPacer", "joinAck", "returned"}

JoinedSoFar ==
    /\ pc[Loop] \in Joining => Joined(Endpoint)
    /\ pc[Loop] \in {"joinAck", "returned"} => Joined({Pacer})
    /\ pc[Loop] = "returned" => Joined({Ack})

\* A worker that is done stays so, and no worker is started once the loop has stopped reading.
LEMMA Settled ==
  ASSUME IInv, Next, ~LoopReads, NEW w \in Worker, pc[w] \in {"none", "done"}
  PROVE  pc'[w] = pc[w]
<1> USE DEF Goes
<1>0. pc \in [Thread -> LoopPc \cup WorkerPc \cup ClosePc] /\ w \in Thread /\ w # Loop
  BY LoopIsNoWorker DEF IInv, TypeOK, Thread
<1>1. CASE LoopStep
  BY <1>0, <1>1 DEF LoopStep, LoopEnds, LoopNotifies, LoopJoinsWorkers, LoopStopsPacer,
     LoopJoinsPacer, LoopJoinsAck, LoopJoins, Notifies, Wakes
<1>2. ASSUME NEW t \in Thread, CloseStep(t) PROVE pc'[w] = pc[w]
  <2>1. CASE Sends(t) \/ SendFails(t) \/ CloseSession(t)
    BY <1>0, <2>1 DEF Sends, SendFails, CloseSession
  <2>2. CASE CloseWakesInput(t) \/ CloseWakesWorkers(t) \/ CloseWakesAck(t)
    BY <1>0, <2>2 DEF CloseWakesInput, CloseWakesWorkers, CloseWakesAck, Notifies, Wakes
  <2> QED
    BY <1>2, <2>1, <2>2 DEF CloseStep
<1>3. ASSUME NEW v \in Worker, WorkerStep(v) PROVE pc'[w] = pc[w]
  BY <1>0, <1>3 DEF WorkerStep, WorkerHead, WorkerDozes, WorkerSleeps, WorkerLeaves, WorkerTakes,
     WorkerPaced
<1>4. ASSUME NEW e \in Endpoint, InputStep(e) \/ InputArrives(e) PROVE pc'[w] = pc[w]
  BY <1>0, <1>4 DEF InputStep, InputReady, InputDozes, InputSleeps, InputArrives, InputNotify, Wakes
<1>5. CASE HostLeaves \/ Unplugged \/ ServerStops \/ Returned
  BY <1>5 DEF HostLeaves, Unplugged, ServerStops, Returned, vars
<1> QED
  BY <1>1, <1>2, <1>3, <1>4, <1>5 DEF Next

\* Only the loop moves the loop.
LEMMA LoopMoves ==
  ASSUME IInv, Next
  PROVE  LoopStep \/ pc'[Loop] = pc[Loop] \/ pc'[Loop] \notin Joining
<1> USE DEF Goes
<1>0. /\ pc \in [Thread -> LoopPc \cup WorkerPc \cup ClosePc] /\ pc[Loop] \in LoopPc \cup ClosePc
      /\ Loop \in Thread /\ Worker \subseteq Thread /\ Loop \notin Worker /\ Endpoint \subseteq Worker
  BY LoopIsNoWorker DEF IInv, TypeOK, Thread, Worker
<1>1. CASE LoopReads
  <2>1. CASE LoopServes
    BY <1>0, <2>1 DEF LoopServes, Joining
  <2>2. ASSUME NEW w \in Worker, Hands(w) PROVE pc'[Loop] = pc[Loop]
    BY <1>0, <2>2 DEF Hands, Wakes
  <2> QED
    BY <1>0, <1>1, <2>1, <2>2, LoopIsNoWorker
    DEF LoopReads, LoopHandsIsoOut, LoopHandsIsoIn, LoopHandsInput
<1>2. ASSUME NEW t \in Thread, CloseStep(t) PROVE pc'[Loop] = pc[Loop] \/ pc'[Loop] \notin Joining
  <2>1. CASE Sends(t) \/ SendFails(t) \/ CloseSession(t)
    BY <1>0, <2>1 DEF Sends, SendFails, CloseSession, AfterClose, Joining
  <2>2. CASE CloseWakesInput(t) \/ CloseWakesWorkers(t) \/ CloseWakesAck(t)
    BY <1>0, <2>2 DEF CloseWakesInput, CloseWakesWorkers, CloseWakesAck, Notifies, Wakes,
       AfterClose, Joining, LoopPc, ClosePc
  <2> QED
    BY <1>2, <2>1, <2>2 DEF CloseStep
<1>3. ASSUME NEW w \in Worker, WorkerStep(w) PROVE pc'[Loop] = pc[Loop]
  BY <1>0, <1>3 DEF WorkerStep, WorkerHead, WorkerDozes, WorkerSleeps, WorkerLeaves, WorkerTakes,
     WorkerPaced
<1>4. ASSUME NEW e \in Endpoint, InputStep(e) \/ InputArrives(e) PROVE pc'[Loop] = pc[Loop]
  <2>1. CASE InputStep(e)
    BY <1>0, <2>1 DEF InputStep, InputReady, InputDozes, InputSleeps
  <2>2. CASE InputArrives(e)
    BY <1>0, <2>2 DEF InputArrives, InputNotify, Wakes
  <2> QED
    BY <1>4, <2>1, <2>2
<1>5. CASE HostLeaves \/ Unplugged \/ ServerStops \/ Returned
  BY <1>5 DEF HostLeaves, Unplugged, ServerStops, Returned, vars
<1> QED
  BY <1>1, <1>2, <1>3, <1>4, <1>5 DEF Next

LEMMA JoinStep == ASSUME IInv, JoinedSoFar, Next PROVE JoinedSoFar'
<1>0. /\ pc \in [Thread -> LoopPc \cup WorkerPc \cup ClosePc] /\ Loop \in Thread
      /\ Endpoint \subseteq Worker /\ Ack \in Worker /\ Pacer \in Worker
  BY LoopIsNoWorker DEF IInv, TypeOK, Worker
<1>1. ASSUME ~LoopReads, NEW T, T \subseteq Worker, Joined(T) PROVE Joined(T)'
  BY <1>1, Settled DEF Joined
<1>2. CASE pc'[Loop] \notin Joining
  BY <1>2 DEF JoinedSoFar, Joining
<1>3. CASE LoopStep
  <2>1. CASE LoopEnds \/ LoopNotifies
    <3>1. pc'[Loop] \in {"close", "joinWorkers"}
      BY <1>0, <2>1, WakesFit DEF LoopEnds, LoopNotifies, Goes, Notifies, PcFits, IInv
    <3> QED
      BY <1>2, <3>1 DEF Joining
  <2>2. pc[Loop] # "read" => ~LoopReads
    BY DEF LoopReads, LoopServes, LoopHandsIsoOut, LoopHandsIsoIn, LoopHandsInput, Reads
  <2>3. CASE LoopJoinsWorkers
    <3>1. pc[Loop] = "joinWorkers" /\ Joined(Endpoint) /\ pc'[Loop] = "stopPacer"
      BY <1>0, <2>3 DEF LoopJoinsWorkers, LoopJoins, Goes
    <3> QED
      BY <1>0, <1>1, <2>2, <3>1 DEF JoinedSoFar
  <2>4. CASE LoopStopsPacer
    <3>1. pc[Loop] = "stopPacer" /\ pc'[Loop] = "joinPacer"
      BY <1>0, <2>4, WakesFit DEF LoopStopsPacer, Notifies, PcFits, IInv
    <3>2. Joined(Endpoint)
      BY <3>1 DEF JoinedSoFar, Joining
    <3> QED
      BY <1>0, <1>1, <2>2, <3>1, <3>2 DEF JoinedSoFar
  <2>5. CASE LoopJoinsPacer
    <3>1. pc[Loop] = "joinPacer" /\ Joined({Pacer}) /\ pc'[Loop] = "joinAck"
      BY <1>0, <2>5 DEF LoopJoinsPacer, LoopJoins, Goes
    <3>2. Joined(Endpoint)
      BY <3>1 DEF JoinedSoFar, Joining
    <3> QED
      BY <1>0, <1>1, <2>2, <3>1, <3>2 DEF JoinedSoFar
  <2>6. CASE LoopJoinsAck
    <3>1. pc[Loop] = "joinAck" /\ Joined({Ack}) /\ pc'[Loop] = "returned"
      BY <1>0, <2>6 DEF LoopJoinsAck, LoopJoins, Goes
    <3>2. Joined(Endpoint) /\ Joined({Pacer})
      BY <3>1 DEF JoinedSoFar, Joining
    <3> QED
      BY <1>0, <1>1, <2>2, <3>1, <3>2 DEF JoinedSoFar
  <2> QED
    BY <1>3, <2>1, <2>3, <2>4, <2>5, <2>6 DEF LoopStep
<1>4. CASE pc'[Loop] = pc[Loop] /\ pc[Loop] \in Joining
  <2>1. ~LoopReads
    BY <1>4 DEF LoopReads, LoopServes, LoopHandsIsoOut, LoopHandsIsoIn, LoopHandsInput, Reads, Joining
  <2> QED
    BY <1>0, <1>1, <1>4, <2>1 DEF JoinedSoFar
<1> QED
  BY <1>2, <1>3, <1>4, LoopMoves
----------------------------------------------------------------------------
(* The threads give the host what UrbService says.                         *)

Waiting == [t \in Thread |-> Pending(t)]

\* One stream's URBs change.
LEMMA WaitingIs ==
  ASSUME NEW t \in Thread, NEW S, Pending(t)' = S,
         \A s \in Thread : s # t => Pending(s)' = Pending(s)
  PROVE  Waiting' = [Waiting EXCEPT ![t] = S]
BY DEF Waiting

LEMMA WaitingSame ==
  ASSUME \A s \in Thread : Pending(s)' = Pending(s)
  PROVE  Waiting' = Waiting
BY DEF Waiting

Promise == [Service!Next]_Service!vars

\* Who moves no URB at most closes the connection.
LEMMA QuietServes ==
  ASSUME IInv, UNCHANGED urbVars, sock' = "open" => sock = "open"
  PROVE  Promise
<1>1. UNCHANGED <<read, answered>> /\ Waiting' = Waiting
  BY WaitingSame DEF urbVars, Pending
<1>2. CASE (sock = "open") = (sock' = "open")
  BY <1>1, <1>2 DEF Promise, Service!vars, Waiting
<1>3. CASE (sock' = "open") = FALSE
  BY <1>1, <1>3 DEF Promise, Service!Next, Service!Close, Waiting
<1> QED
  BY <1>2, <1>3

LEMMA SubmitServes ==
  ASSUME IInv, NEW t \in Thread, Reads, read' = read + 1, UNCHANGED <<answered, sock>>,
         Pending(t)' = Pending(t) \cup {read + 1},
         \A s \in Thread : s # t => Pending(s)' = Pending(s)
  PROVE  Promise
<1>1. Waiting' = [Waiting EXCEPT ![t] = Waiting[t] \cup {read + 1}]
  <2>1. Waiting[t] = Pending(t)
    BY DEF Waiting
  <2> QED
    BY <2>1, WaitingIs
<1>2. Service!Submit(t)
  BY <1>1 DEF Service!Submit, Waiting, Reads
<1> QED
  BY <1>2 DEF Promise, Service!Next

LEMMA ForgetServes ==
  ASSUME IInv, NEW t \in Thread, sock # "open", UNCHANGED <<read, answered, sock>>,
         Pending(t)' \subseteq Pending(t),
         \A s \in Thread : s # t => Pending(s)' = Pending(s)
  PROVE  Promise
<1>1. Waiting' = [Waiting EXCEPT ![t] = Pending(t)'] /\ Waiting[t] = Pending(t)
  BY WaitingIs DEF Waiting
<1>2. Service!Forget(t)
  BY <1>1 DEF Service!Forget, Waiting
<1> QED
  BY <1>2 DEF Promise, Service!Next

\* A URB's answer takes it from the hands of a thread, and that was its stream's oldest.
LEMMA AnswerServes == ASSUME IInv, NEW t \in Thread, Sends(t) PROVE Promise
<1> DEFINE u == hand[t]
<1>1. u # NoUrb /\ u \in Urb
  BY DEF Sends, IInv, HandsFit, InHand, TypeOK
<1>2. /\ hand' = [hand EXCEPT ![t] = NoUrb] /\ answered' = answered \cup {u}
      /\ UNCHANGED <<read, queue, sock>> /\ hand \in [Thread -> Urb \cup {NoUrb}]
      /\ queue \in [Worker -> SUBSET Urb]
  BY DEF Sends, IInv, TypeOK
<1>3. u \in Pending(t) /\ \A v \in Pending(t) : u <= v
  <2>1. u \in Pending(t)
    BY <1>1 DEF Pending
  <2>2. ASSUME NEW v \in Pending(t) PROVE u <= v
    <3>1. CASE v = u
      BY <1>1, <3>1 DEF Urb
    <3>2. CASE v # u
      <4>1. t # Loop /\ t \in Worker /\ v \in queue[t]
        BY <3>2 DEF Pending, Thread
      <4>2. u < v /\ v \in Urb
        BY <1>1, <1>2, <4>1 DEF IInv, Ordered
      <4> QED
        BY <1>1, <4>2 DEF Urb
    <3> QED
      BY <3>1, <3>2
  <2> QED
    BY <2>1, <2>2
<1>4. Pending(t)' = Pending(t) \ {u}
  <2>1. CASE t = Loop
    BY <1>2, <2>1 DEF Pending
  <2>2. CASE t # Loop
    <3>1. t \in Worker /\ u \notin queue[t]
      BY <2>2 DEF Thread, IInv, Apart
    <3> QED
      BY <1>2, <2>2, <3>1 DEF Pending
  <2> QED
    BY <2>1, <2>2
<1>5. \A s \in Thread : s # t => Pending(s)' = Pending(s)
  BY <1>2 DEF Pending
<1> HIDE DEF u
<1>6. Waiting' = [Waiting EXCEPT ![t] = Waiting[t] \ {u}] /\ Waiting[t] = Pending(t)
  BY <1>4, <1>5, WaitingIs DEF Waiting
<1>7. Service!Answer(t)
  BY <1>2, <1>3, <1>6 DEF Service!Answer, Waiting
<1> QED
  BY <1>7 DEF Promise, Service!Next

LEMMA ReadsServe == ASSUME IInv, LoopReads PROVE Promise
<1>1. CASE LoopServes
  <2>1. hand[Loop] = NoUrb /\ Loop \in Thread /\ read + 1 # NoUrb
    BY <1>1, WhereUrbsAre, LoopIsNoWorker DEF LoopServes, Reads, IInv, HandsFit, InHand
  <2>2. /\ hand' = [hand EXCEPT ![Loop] = read + 1] /\ UNCHANGED queue
        /\ hand \in [Thread -> Urb \cup {NoUrb}]
    BY <1>1 DEF LoopServes, IInv, TypeOK
  <2>3. /\ Pending(Loop)' = Pending(Loop) \cup {read + 1}
        /\ \A s \in Thread : s # Loop => Pending(s)' = Pending(s)
    BY <2>1, <2>2 DEF Pending
  <2> QED
    BY <1>1, <2>1, <2>3, SubmitServes DEF LoopServes
<1>2. ASSUME NEW w \in Worker, Reads, Hands(w) PROVE Promise
  <2>1. w \in Thread /\ w # Loop
    BY LoopIsNoWorker DEF Thread
  <2>2. /\ queue' = [queue EXCEPT ![w] = @ \cup {read + 1}] /\ UNCHANGED hand
        /\ queue \in [Worker -> SUBSET Urb]
    BY <1>2 DEF Hands, IInv, TypeOK
  <2>3. Pending(w)' = Pending(w) \cup {read + 1}
    BY <2>1, <2>2 DEF Pending
  <2>4. \A s \in Thread : s # w => Pending(s)' = Pending(s)
    BY <2>2 DEF Pending, Thread
  <2> QED
    BY <1>2, <2>1, <2>3, <2>4, SubmitServes DEF Hands
<1> QED
  BY <1>1, <1>2, LoopIsNoWorker DEF LoopReads, LoopHandsIsoOut, LoopHandsIsoIn, LoopHandsInput, Worker

LEMMA WorkerServes == ASSUME IInv, NEW w \in Worker, WorkerStep(w) PROVE Promise
<1>0. w \in Thread /\ w # Loop
  BY LoopIsNoWorker DEF Thread
<1>1. CASE WorkerHead(w) \/ WorkerDozes(w) \/ WorkerSleeps(w) \/ WorkerLeaves(w)
  BY <1>1, QuietServes DEF WorkerHead, WorkerDozes, WorkerSleeps, WorkerLeaves
<1>2. CASE WorkerTakes(w)
  <2> DEFINE u == Oldest(w)
  <2>1. u \in queue[w] /\ hand[w] = NoUrb /\ u # NoUrb
    <3>1. u \in queue[w] /\ hand[w] = NoUrb
      BY <1>0, <1>2, OldestIs DEF WorkerTakes, IInv, HandsFit, InHand
    <3> QED
      BY <3>1, SizesHold DEF Sizes, IInv, TypeOK
  <2>2. /\ hand' = [hand EXCEPT ![w] = u] /\ queue' = [queue EXCEPT ![w] = queue[w] \ {u}]
        /\ UNCHANGED <<read, answered, sock>>
        /\ queue \in [Worker -> SUBSET Urb] /\ hand \in [Thread -> Urb \cup {NoUrb}]
    BY <1>2 DEF WorkerTakes, Popped, IInv, TypeOK
  <2> HIDE DEF u
  <2>3. Pending(w)' = Pending(w)
    BY <1>0, <2>1, <2>2 DEF Pending
  <2>4. \A s \in Thread : s # w => Pending(s)' = Pending(s)
    BY <2>2 DEF Pending, Thread
  <2>5. Waiting' = Waiting
    BY <2>3, <2>4, WaitingSame
  <2> QED
    BY <2>2, <2>5 DEF Promise, Service!vars, Waiting
<1>3. CASE WorkerPaced(w)
  <2>1. CASE w = Pacer /\ Stopped(w)
    <3>1. sock # "open"
      BY <2>1 DEF Stopped, IInv, Shut
    <3>2. /\ hand' = [hand EXCEPT ![w] = NoUrb] /\ UNCHANGED <<read, queue, answered, sock>>
          /\ hand \in [Thread -> Urb \cup {NoUrb}]
      BY <1>3, <2>1 DEF WorkerPaced, IInv, TypeOK
    <3>3. Pending(w)' \subseteq Pending(w) /\ \A s \in Thread : s # w => Pending(s)' = Pending(s)
      BY <1>0, <3>2 DEF Pending
    <3> QED
      BY <1>0, <3>1, <3>2, <3>3, ForgetServes
  <2>2. CASE ~(w = Pacer /\ Stopped(w))
    BY <1>3, <2>2, QuietServes DEF WorkerPaced, urbVars
  <2> QED
    BY <2>1, <2>2
<1> QED
  BY <1>1, <1>2, <1>3 DEF WorkerStep

LEMMA CloseServes == ASSUME IInv, NEW t \in Thread, CloseStep(t) PROVE Promise
<1>1. CASE Sends(t)
  BY <1>1, AnswerServes
<1>2. CASE SendFails(t)
  <2>1. /\ hand' = [hand EXCEPT ![t] = NoUrb] /\ UNCHANGED <<read, queue, answered, sock>>
        /\ sock # "open" /\ hand \in [Thread -> Urb \cup {NoUrb}]
    BY <1>2 DEF SendFails, IInv, TypeOK
  <2>2. Pending(t)' \subseteq Pending(t) /\ \A s \in Thread : s # t => Pending(s)' = Pending(s)
    BY <2>1 DEF Pending
  <2> QED
    BY <2>1, <2>2, ForgetServes
<1>3. CASE CloseSession(t)
  BY <1>3, QuietServes DEF CloseSession
<1>4. CASE CloseWakesInput(t) \/ CloseWakesWorkers(t) \/ CloseWakesAck(t)
  BY <1>4, QuietServes DEF CloseWakesInput, CloseWakesWorkers, CloseWakesAck
<1> QED
  BY <1>1, <1>2, <1>3, <1>4 DEF CloseStep

LEMMA LoopStepServes == ASSUME IInv, LoopStep PROVE Promise
<1>1. CASE LoopJoinsPacer
  <2>1. /\ queue' = [queue EXCEPT ![Pacer] = {}] /\ pc[Loop] = "joinPacer"
        /\ UNCHANGED <<hand, read, answered, sock>> /\ queue \in [Worker -> SUBSET Urb]
    BY <1>1 DEF LoopJoinsPacer, LoopJoins, IInv, TypeOK
  <2>2. sock # "open" /\ Pacer \in Thread /\ Pacer # Loop
    BY <2>1, LoopIsNoWorker DEF IInv, Shut, Behind, Thread
  <2>3. Pending(Pacer)' \subseteq Pending(Pacer)
        /\ \A s \in Thread : s # Pacer => Pending(s)' = Pending(s)
    BY <2>1, <2>2, LoopIsNoWorker DEF Pending, Thread
  <2> QED
    BY <2>1, <2>2, <2>3, ForgetServes
<1>2. CASE LoopEnds \/ LoopNotifies \/ LoopJoinsWorkers \/ LoopStopsPacer \/ LoopJoinsAck
  BY <1>2, QuietServes
  DEF LoopEnds, LoopNotifies, LoopJoinsWorkers, LoopStopsPacer, LoopJoinsAck, LoopJoins, urbVars
<1> QED
  BY <1>1, <1>2 DEF LoopStep

LEMMA StepServes == ASSUME IInv, Next PROVE Promise
<1>1. ASSUME NEW e \in Endpoint, InputStep(e) \/ InputArrives(e) PROVE Promise
  BY <1>1, QuietServes DEF InputStep, InputReady, InputDozes, InputSleeps, InputArrives
<1>2. CASE HostLeaves \/ Unplugged \/ ServerStops \/ Returned
  BY <1>2, QuietServes DEF HostLeaves, Unplugged, ServerStops, Returned, vars, urbVars
<1> QED
  BY <1>1, <1>2, ReadsServe, LoopStepServes, CloseServes, WorkerServes DEF Next

\* urb_loop and its threads implement UrbService: each URB is answered at most once, each
\* stream's in the order submitted, and none is lost while the connection stands.
THEOREM ServesHost == Spec => Serves
<1>1. Init => Service!Init
  <2>1. ASSUME Init PROVE Waiting = [t \in Thread |-> {}]
    BY <2>1 DEF Init, Waiting, Pending, Thread
  <2> QED
    BY <2>1 DEF Init, Service!Init, Waiting
<1>2. IInv /\ [Next]_vars => [Service!Next]_Service!vars
  <2>1. ASSUME IInv, UNCHANGED vars PROVE Promise
    BY <2>1, QuietServes DEF vars, urbVars
  <2> QED
    BY <2>1, StepServes DEF Promise
<1> QED
  BY <1>1, <1>2, Invariant, PTL DEF Spec, Serves, Service!Spec

\* No worker, acknowledger or pacer is left when urb_loop returns, and none holds a URB: they
\* work on its stack.
THEOREM ThreadsJoined == Spec => []NoThreadOutlivesLoop
<1>1. Init => JoinedSoFar
  BY LoopIsNoWorker DEF Init, JoinedSoFar, Joining
<1>2. IInv /\ JoinedSoFar /\ [Next]_vars => JoinedSoFar'
  <2>1. ASSUME JoinedSoFar, UNCHANGED vars PROVE JoinedSoFar'
    BY <2>1 DEF vars, JoinedSoFar, Joined
  <2> QED
    BY <2>1, JoinStep
<1>3. ASSUME IInv, JoinedSoFar PROVE NoThreadOutlivesLoop
  <2> SUFFICES ASSUME pc[Loop] = "returned", NEW t \in Thread
               PROVE  hand[t] = NoUrb /\ pc[t] \in {"returned", "done", "none"}
    BY DEF NoThreadOutlivesLoop
  <2>1. pc[t] \in {"returned", "done", "none"}
    BY <1>3 DEF JoinedSoFar, Joining, Joined, Thread, Worker
  <2> QED
    BY <1>3, <2>1 DEF IInv, HandsFit, InHand
<1> QED
  BY <1>1, <1>2, <1>3, Invariant, PTL DEF Spec
----------------------------------------------------------------------------
(* Endpoint 0.                                                             *)

\* What a report is given with when its page was p.
Rightly(r, p) == IF r = "paged" THEN p ELSE "plain"

\* A GET under way was begun at the page that is named still.
NamesStand ==
    \A h \in Importer : gpc[h] # "idle" =>
        meant[h] = PageRuleFor(report[h]) /\ key[h] = meant[h]

\* What is remembered is remembered of its own page, and of no page there is nothing.
CacheIsOwn ==
    \A r \in PipeReport, p \in Page \cup {None} :
        featureCache[<<r, p>>] \in {None, Rightly(r, p)}

\* The pad answers a plain report with that report.
PlainIsPlain ==
    \A h \in Importer : gpc[h] = "respond" /\ report[h] = "plain" => physical[h] = "plain"

\* Only what another import's SET did not cross.
PipeInv ==
    /\ PipeTypeOK /\ PagesAreOwn
    /\ ~crossed => NamesStand /\ CacheIsOwn /\ PlainIsPlain

LEMMA PagesHold == StaticPage \subseteq Page /\ None \notin Page /\ MaxSets \in Nat
  BY PipeAssumption, NoneIsNoPage

LEMMA RuleIsPage ==
  ASSUME NEW r
  PROVE  /\ PageRuleFor(r) \in Page \cup {None}
         /\ PageRuleFor(r) # None => r = "paged"
  BY DEF PageRuleFor, PageRule

LEMMA PipeBegins == ASSUME PipeInit PROVE PipeInv
<1>1. PipeTypeOK
  <2>1. None \in Answer /\ None \in Page \cup {None} /\ "plain" \in PipeReport /\ 0 \in 0..MaxSets
    BY PagesHold DEF Answer, PipeReport
  <2>2. featureCache \in [PipeReport \X (Page \cup {None}) -> Answer]
    BY <2>1 DEF PipeInit
  <2> QED
    BY <2>1, <2>2 DEF PipeInit, PipeTypeOK
<1>2. \A h \in Importer : gpc[h] = "idle"
  BY DEF PipeInit
<1>3. CacheIsOwn
  BY DEF PipeInit, CacheIsOwn
<1> QED
  BY <1>1, <1>2, <1>3 DEF PipeInv, PagesAreOwn, NamesStand, PlainIsPlain

\* A control and the pad's forgetting touch none of it.
LEMMA ControlKeeps ==
  ASSUME PipeInv, PadForgets \/ \E h \in Importer, c \in Control, v \in Level : SetsControl(h, c, v)
  PROVE  PipeInv'
<1>1. UNCHANGED <<lastSet, featureCache, gpc, getVars, sets, crossed>>
  BY DEF PadForgets, SetsControl
<1>2. PipeTypeOK'
  BY <1>1 DEF PipeInv, PipeTypeOK, PadForgets, SetsControl, getVars
<1> QED
  BY <1>1, <1>2 DEF PipeInv, PagesAreOwn, NamesStand, CacheIsOwn, PlainIsPlain, PageRuleFor,
                    PageRule, getVars

\* A SET either comes between GETs or is marked as having crossed one.
LEMMA SetKeeps ==
  ASSUME PipeInv, NEW h \in Importer, NEW s \in Page \cup {"ack", "other"}, SetsFeature(h, s)
  PROVE  PipeInv'
<1>1. UNCHANGED <<featureCache, padPage, levels, gpc, getVars>> /\ gpc[h] = "idle"
  BY DEF SetsFeature
<1>2. PipeTypeOK'
  BY <1>1, PagesHold DEF PipeInv, PipeTypeOK, SetsFeature, getVars
<1>3. ~crossed' => ~crossed /\ \A g \in Importer : gpc[g] = "idle"
  BY <1>1 DEF SetsFeature
<1>4. ~crossed' => NamesStand' /\ CacheIsOwn' /\ PlainIsPlain'
  BY <1>1, <1>3 DEF PipeInv, NamesStand, CacheIsOwn, PlainIsPlain, getVars
<1>5. PagesAreOwn'
  BY <1>1, <1>3 DEF PipeInv, PagesAreOwn, getVars
<1> QED
  BY <1>2, <1>4, <1>5 DEF PipeInv

\* The step of one import's GET: its own place moves and the others' stay.
GetKeeps(h) ==
    /\ PipeTypeOK' /\ UNCHANGED <<lastSet, crossed>>
    /\ \A g \in Importer \ {h} :
          UNCHANGED <<gpc[g], report[g], key[g], physical[g], given[g], meant[g]>>
    /\ ~crossed => CacheIsOwn'
    /\ ~crossed /\ gpc'[h] # "idle" => meant'[h] = PageRuleFor(report'[h]) /\ key'[h] = meant'[h]
    /\ ~crossed /\ gpc'[h] = "respond" /\ report'[h] = "plain" => physical'[h] = "plain"
    /\ ~crossed /\ gpc'[h] = "done" =>
          given'[h] = "stall" \/ given'[h] = Rightly(report'[h], meant'[h])

LEMMA GetKeepsInv == ASSUME PipeInv, NEW h \in Importer, GetKeeps(h) PROVE PipeInv'
<1>1. \A r : PageRuleFor(r)' = PageRuleFor(r)
  BY DEF GetKeeps, PageRuleFor, PageRule
<1>2. ~crossed => NamesStand' /\ CacheIsOwn' /\ PlainIsPlain'
  BY <1>1 DEF GetKeeps, PipeInv, NamesStand, PlainIsPlain, PageRuleFor, PageRule
<1>3. PagesAreOwn'
  BY DEF GetKeeps, PipeInv, PagesAreOwn, Rightly
<1> QED
  BY <1>2, <1>3 DEF GetKeeps, PipeInv

LEMMA BeginsKeeps ==
  ASSUME PipeInv, NEW h \in Importer, NEW r \in PipeReport, GetBegins(h, r)
  PROVE  GetKeeps(h)
<1>1. PipeTypeOK'
  BY RuleIsPage DEF PipeInv, PipeTypeOK, GetBegins, AtStep, CacheSelector
<1>2. /\ gpc'[h] = "lookup" /\ report'[h] = r
      /\ key'[h] = PageRuleFor(r) /\ meant'[h] = PageRuleFor(r)
      /\ UNCHANGED <<lastSet, crossed, featureCache, physical, given>>
      /\ \A g \in Importer \ {h} : UNCHANGED <<gpc[g], report[g], key[g], meant[g]>>
  BY DEF PipeInv, PipeTypeOK, GetBegins, AtStep, CacheSelector
<1> QED
  BY <1>1, <1>2 DEF GetKeeps, PipeInv, CacheIsOwn

LEMMA LooksUpKeeps == ASSUME PipeInv, NEW h \in Importer, GetLooksUp(h) PROVE GetKeeps(h)
<1>1. report[h] \in PipeReport /\ key[h] \in Page \cup {None}
  BY DEF PipeInv, PipeTypeOK
<1>2. UNCHANGED <<lastSet, crossed, featureCache, padPage, levels, report, key, picked, physical,
                  meant, sets>>
  BY DEF GetLooksUp
<1>3. ~crossed => meant[h] = PageRuleFor(report[h]) /\ key[h] = meant[h]
  BY DEF GetLooksUp, PipeInv, NamesStand
<1>4. CASE featureCache[KeyOf(h)] # None
  <2>1. gpc' = [gpc EXCEPT ![h] = "done"] /\ given' = [given EXCEPT ![h] = featureCache[KeyOf(h)]]
    BY <1>4 DEF GetLooksUp, Gives, AtStep
  <2>2. featureCache[KeyOf(h)] \in Answer
    BY <1>1 DEF PipeInv, PipeTypeOK, KeyOf
  <2>3. PipeTypeOK'
    BY <1>2, <2>1, <2>2 DEF PipeInv, PipeTypeOK
  <2>4. ~crossed => featureCache[KeyOf(h)] = Rightly(report[h], key[h])
    BY <1>1, <1>4 DEF PipeInv, CacheIsOwn, KeyOf
  <2>5. gpc'[h] = "done" /\ given'[h] = featureCache[KeyOf(h)]
    BY <2>1 DEF PipeInv, PipeTypeOK
  <2> QED
    BY <1>2, <1>3, <2>1, <2>3, <2>4, <2>5 DEF GetKeeps, PipeInv, CacheIsOwn, PageRuleFor, PageRule
<1>5. CASE featureCache[KeyOf(h)] = None
  <2>1. gpc' = [gpc EXCEPT ![h] = "static"] /\ given' = given
    BY <1>5 DEF GetLooksUp, AtStep
  <2>2. PipeTypeOK' /\ gpc'[h] = "static"
    BY <1>2, <2>1 DEF PipeInv, PipeTypeOK
  <2> QED
    BY <1>2, <1>3, <2>1, <2>2 DEF GetKeeps, PipeInv, CacheIsOwn, PageRuleFor, PageRule
<1> QED
  BY <1>4, <1>5

\* What is given and kept under the GET's key, if it is what the key says.
LEMMA KeptAnswer ==
  ASSUME PipeInv, NEW h \in Importer, NEW a \in Answer, gpc[h] # "idle",
         featureCache' = [featureCache EXCEPT ![KeyOf(h)] = a], Gives(h, a),
         UNCHANGED <<lastSet, padPage, levels, report, key, picked, physical, meant, sets, crossed>>,
         ~crossed => a = Rightly(report[h], key[h])
  PROVE  GetKeeps(h)
<1>1. report[h] \in PipeReport /\ key[h] \in Page \cup {None}
  BY DEF PipeInv, PipeTypeOK
<1>2. gpc' = [gpc EXCEPT ![h] = "done"] /\ given' = [given EXCEPT ![h] = a]
  BY DEF Gives, AtStep
<1>3. PipeTypeOK'
  BY <1>1, <1>2 DEF PipeInv, PipeTypeOK, KeyOf
<1>4. gpc'[h] = "done" /\ given'[h] = a
  BY <1>2 DEF PipeInv, PipeTypeOK
<1>5. ~crossed => meant[h] = PageRuleFor(report[h]) /\ key[h] = meant[h]
  BY DEF PipeInv, NamesStand
<1>6. ~crossed => CacheIsOwn'
  <2> SUFFICES ASSUME ~crossed, NEW r \in PipeReport, NEW p \in Page \cup {None}
               PROVE  featureCache'[<<r, p>>] \in {None, Rightly(r, p)}
    BY DEF CacheIsOwn
  <2>1. CASE <<r, p>> = KeyOf(h)
    <3>1. r = report[h] /\ p = key[h]
      BY <2>1 DEF KeyOf
    <3>2. featureCache'[<<r, p>>] = a
      BY <2>1 DEF PipeInv, PipeTypeOK
    <3> QED
      BY <3>1, <3>2
  <2>2. CASE <<r, p>> # KeyOf(h)
    BY <2>2 DEF PipeInv, PipeTypeOK, CacheIsOwn
  <2> QED
    BY <2>1, <2>2
<1> QED
  BY <1>2, <1>3, <1>4, <1>5, <1>6 DEF GetKeeps, PageRuleFor, PageRule

\* A GET that goes on or stalls, remembering nothing.
LEMMA GoesOn ==
  ASSUME PipeInv, NEW h \in Importer, NEW to \in {"build", "select", "read", "done"},
         to = "done" => given' = [given EXCEPT ![h] = "stall"],
         to # "done" => given' = given,
         gpc[h] # "idle", gpc' = [gpc EXCEPT ![h] = to], PipeTypeOK',
         UNCHANGED <<lastSet, featureCache, report, key, physical, meant, crossed>>
  PROVE  GetKeeps(h)
<1>1. gpc'[h] = to /\ (to = "done" => given'[h] = "stall")
  BY DEF PipeInv, PipeTypeOK
<1>2. ~crossed => meant[h] = PageRuleFor(report[h]) /\ key[h] = meant[h]
  BY DEF PipeInv, NamesStand
<1>3. \A g \in Importer \ {h} : gpc'[g] = gpc[g] /\ given'[g] = given[g]
  BY DEF PipeInv, PipeTypeOK
<1>4. ~crossed => CacheIsOwn'
  BY DEF PipeInv, CacheIsOwn
<1> QED
  BY <1>1, <1>2, <1>3, <1>4 DEF GetKeeps, PageRuleFor, PageRule

LEMMA StaticKeeps == ASSUME PipeInv, NEW h \in Importer, GetStatic(h) PROVE GetKeeps(h)
<1>1. CASE StaticGiven(report[h])
  <2>1. PageRuleFor(report[h]) \in Page /\ report[h] = "paged"
    BY <1>1, RuleIsPage, PagesHold DEF StaticGiven
  <2>2. ~crossed => PageRuleFor(report[h]) = Rightly(report[h], key[h])
    BY <2>1 DEF GetStatic, PipeInv, NamesStand, Rightly
  <2> QED
    BY <1>1, <2>1, <2>2, KeptAnswer DEF GetStatic, Answer
<1>2. CASE ~StaticGiven(report[h])
  <2>1. gpc' = [gpc EXCEPT ![h] = "build"] /\ UNCHANGED <<featureCache, given>>
    BY <1>2 DEF GetStatic, AtStep
  <2>2. PipeTypeOK'
    BY <2>1 DEF GetStatic, PipeInv, PipeTypeOK
  <2> QED
    BY <2>1, <2>2, GoesOn DEF GetStatic
<1> QED
  BY <1>1, <1>2

LEMMA BuildsKeeps == ASSUME PipeInv, NEW h \in Importer, GetBuilds(h) PROVE GetKeeps(h)
<1>1. CASE FirstAction(report[h]) = "none"
  <2>1. gpc' = [gpc EXCEPT ![h] = "done"] /\ given' = [given EXCEPT ![h] = "stall"]
    BY <1>1 DEF GetBuilds, Gives, AtStep
  <2>2. PipeTypeOK'
    BY <2>1, RuleIsPage DEF GetBuilds, PipeInv, PipeTypeOK, Answer
  <2> QED
    BY <1>1, <2>1, <2>2, GoesOn DEF GetBuilds
<1>2. CASE FirstAction(report[h]) # "none"
  <2>1. FirstAction(report[h]) \in {"select", "read"}
    BY <1>2 DEF FirstAction
  <2>2. gpc' = [gpc EXCEPT ![h] = FirstAction(report[h])] /\ UNCHANGED given
    BY <1>2 DEF GetBuilds, AtStep
  <2>3. PipeTypeOK'
    BY <2>1, <2>2, RuleIsPage DEF GetBuilds, PipeInv, PipeTypeOK
  <2> QED
    BY <2>1, <2>2, <2>3, GoesOn DEF GetBuilds
<1> QED
  BY <1>1, <1>2

LEMMA SelectsKeeps == ASSUME PipeInv, NEW h \in Importer, GetSelects(h) PROVE GetKeeps(h)
<1>1. PipeTypeOK'
  BY DEF GetSelects, AtStep, getVars, PipeInv, PipeTypeOK
<1> QED
  BY <1>1, GoesOn DEF GetSelects, AtStep, getVars

LEMMA ReadsKeeps == ASSUME PipeInv, NEW h \in Importer, GetReads(h) PROVE GetKeeps(h)
<1>1. CASE Gives(h, "stall") /\ UNCHANGED physical
  <2>1. gpc' = [gpc EXCEPT ![h] = "done"] /\ given' = [given EXCEPT ![h] = "stall"]
    BY <1>1 DEF Gives, AtStep
  <2>2. PipeTypeOK'
    BY <1>1, <2>1 DEF GetReads, PipeInv, PipeTypeOK, Answer
  <2> QED
    BY <1>1, <2>1, <2>2, GoesOn DEF GetReads
<1>2. ASSUME NEW a \in PadAnswers(report[h]), physical' = [physical EXCEPT ![h] = a],
             AtStep(h, "respond"), UNCHANGED given
      PROVE  GetKeeps(h)
  <2>1. gpc' = [gpc EXCEPT ![h] = "respond"] /\ a \in Answer
        /\ (report[h] # "paged" => a = "plain")
    BY <1>2 DEF AtStep, PadAnswers, PipeInv, PipeTypeOK, Answer
  <2>2. PipeTypeOK'
    BY <1>2, <2>1 DEF GetReads, PipeInv, PipeTypeOK
  <2>3. gpc'[h] = "respond" /\ physical'[h] = a
    BY <1>2, <2>1 DEF PipeInv, PipeTypeOK
  <2>4. \A g \in Importer \ {h} : gpc'[g] = gpc[g] /\ physical'[g] = physical[g]
    BY <1>2, <2>1 DEF PipeInv, PipeTypeOK
  <2>5. ~crossed => meant[h] = PageRuleFor(report[h]) /\ key[h] = meant[h]
    BY DEF PipeInv, NamesStand, GetReads
  <2> QED
    BY <1>2, <2>1, <2>2, <2>3, <2>4, <2>5
    DEF GetReads, GetKeeps, PageRuleFor, PageRule, PipeInv, CacheIsOwn
<1> QED
  BY <1>1, <1>2 DEF GetReads

LEMMA RespondsKeeps == ASSUME PipeInv, NEW h \in Importer, GetResponds(h) PROVE GetKeeps(h)
<1>1. CASE Accepts(report[h], physical[h])
  <2>1. physical[h] \in Answer /\ report[h] \in PipeReport
    BY DEF PipeInv, PipeTypeOK
  <2>2. ~crossed => physical[h] = Rightly(report[h], key[h])
    <3>1. ~crossed => /\ key[h] = PageRuleFor(report[h])
                      /\ report[h] = "plain" => physical[h] = "plain"
      BY DEF GetResponds, PipeInv, NamesStand, PlainIsPlain
    <3>2. report[h] = "paged" => physical[h] = PageRuleFor(report[h])
      BY <1>1 DEF Accepts, Gated
    <3> QED
      BY <2>1, <3>1, <3>2 DEF Rightly, PipeReport
  <2> QED
    BY <1>1, <2>1, <2>2, KeptAnswer DEF GetResponds
<1>2. CASE ~Accepts(report[h], physical[h])
  <2>1. /\ gpc' = [gpc EXCEPT ![h] = "done"] /\ given' = [given EXCEPT ![h] = "stall"]
        /\ Gives(h, "stall") /\ UNCHANGED featureCache
    BY <1>2 DEF GetResponds, Gives, AtStep
  <2>2. PipeTypeOK'
    BY <2>1 DEF GetResponds, PipeInv, PipeTypeOK, Answer
  <2> QED
    BY <2>1, <2>2, GoesOn DEF GetResponds
<1> QED
  BY <1>1, <1>2

LEMMA EndsKeeps == ASSUME PipeInv, NEW h \in Importer, GetEnds(h) PROVE GetKeeps(h)
<1>1. PipeTypeOK'
  BY DEF GetEnds, AtStep, PipeInv, PipeTypeOK, PipeReport, Answer
<1>2. gpc'[h] = "idle" /\ UNCHANGED <<lastSet, crossed, featureCache>>
  BY DEF GetEnds, AtStep, PipeInv, PipeTypeOK
<1>3. \A g \in Importer \ {h} :
          UNCHANGED <<gpc[g], report[g], key[g], physical[g], given[g], meant[g]>>
  BY DEF GetEnds, AtStep, PipeInv, PipeTypeOK
<1> QED
  BY <1>1, <1>2, <1>3 DEF GetKeeps, PipeInv, CacheIsOwn

LEMMA PipeInductive == PipeInv /\ [PipeNext]_pipeVars => PipeInv'
<1>1. ASSUME PipeInv, UNCHANGED pipeVars PROVE PipeInv'
  BY <1>1 DEF pipeVars, getVars, PipeInv, PipeTypeOK, PagesAreOwn, NamesStand, CacheIsOwn,
              PlainIsPlain, PageRuleFor, PageRule
<1>2. ASSUME PipeInv, PipeNext PROVE PipeInv'
  <2>1. ASSUME NEW h \in Importer, (\E s \in Page \cup {"ack"} : SetsFeature(h, s)) \/ SetsOnPad(h)
        PROVE  PipeInv'
    BY <1>2, <2>1, SetKeeps DEF SetsOnPad
  <2>2. ASSUME NEW h \in Importer, Gets(h) \/ \E r \in PipeReport : GetBegins(h, r)
        PROVE  PipeInv'
    BY <1>2, <2>2, BeginsKeeps, LooksUpKeeps, StaticKeeps, BuildsKeeps, SelectsKeeps, ReadsKeeps,
       RespondsKeeps, EndsKeeps, GetKeepsInv DEF Gets
  <2> QED
    BY <1>2, <2>1, <2>2, ControlKeeps DEF PipeNext
<1> QED
  BY <1>1, <1>2

\* A GET_REPORT is given the page its host named or refused, whatever was cached before and
\* whatever page the pad had selected or forgot, as long as no import's SET_REPORT has come
\* in during another import's GET_REPORT; from the first that has, nothing is said.
THEOREM PagesOwn == PipeInit /\ [][PipeNext]_pipeVars => []PipeInv
<1>1. PipeInit => PipeInv
  BY PipeBegins
<1> QED
  BY <1>1, PipeInductive, PTL
----------------------------------------------------------------------------
(* The host: its connections, endpoint 0 and the microphones.              *)

LEMMA HostSteps ==
  [HostNext]_hostVars => [Next]_vars /\ [PipeNext]_pipeVars /\ [RingNext]_ringVars
<1>1. ASSUME InUrbs(Next) PROVE Next /\ UNCHANGED <<pipeVars, ringVars>>
  BY <1>1 DEF InUrbs
<1>2. ASSUME InPipe(PipeNext) PROVE PipeNext /\ UNCHANGED <<vars, ringVars>>
  BY <1>2 DEF InPipe
<1>3. ASSUME InMic(RingNext) PROVE RingNext /\ UNCHANGED <<vars, pipeVars>>
  BY <1>3 DEF InMic
<1>4. ASSUME UNCHANGED hostVars PROVE UNCHANGED <<vars, pipeVars, ringVars>>
  BY <1>4 DEF hostVars
<1> QED
  BY <1>1, <1>2, <1>3, <1>4 DEF HostNext

\* What a host asks of a device (HostSpec) is a connection, endpoint 0 and the microphone's ring,
\* each as its module specifies it: what is proved of one holds beside the others.
THEOREM HostIsAll == HostSpec => Spec /\ RingSpec /\ PipeInit /\ [][PipeNext]_pipeVars
<1>1. HostInit => Init /\ PipeInit /\ RingInit
  BY DEF HostInit
<1>2. [HostNext]_hostVars => [Next]_vars
  BY HostSteps
<1>3. [HostNext]_hostVars => [PipeNext]_pipeVars
  BY HostSteps
<1>4. [HostNext]_hostVars => [RingNext]_ringVars
  BY HostSteps
<1> QED
  BY <1>1, <1>2, <1>3, <1>4, PTL DEF HostSpec, Spec, RingSpec

\* urb_loop, handle_control and the rings keep their state well-formed, no thread outlives the
\* loop whose stack it works on, and a host is given the page it named, for any endpoints, imports,
\* pages, rings and numbers of URBs.
THEOREM HostsHold == HostSpec => []HostHolds
<1>1. PipeInv => PipeTypeOK /\ PagesAreOwn
  BY DEF PipeInv
<1>2. TypeOK /\ RingTypeOK /\ NoThreadOutlivesLoop /\ PipeTypeOK /\ PagesAreOwn => HostHolds
  BY DEF HostHolds
<1> QED
  BY <1>1, <1>2, HostIsAll, TypeCorrect, RingTyped, ThreadsJoined, PagesOwn, PTL
=============================================================================
