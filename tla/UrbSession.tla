----------------------------- MODULE UrbSession -----------------------------
(***************************************************************************)
(* One USB/IP import: urb_loop of src/src/usbip/server.inl with the threads *)
(* it starts, the pacer of audio/iso_in_pacing.inl and the input wait of   *)
(* handle_interrupt_in in usbip/device.inl.                                *)
(*                                                                         *)
(* The loop thread reads URBs and answers most of them itself.  Interrupt  *)
(* IN goes to a worker per endpoint, isochronous OUT to isoOutAckWorker,   *)
(* isochronous IN to the pacer.  A deque holds URBs in the order in which  *)
(* the loop read them, so it is the set of their numbers and its front the *)
(* least.                                                                  *)
(*                                                                         *)
(* A condition variable's wait is three places: "check" evaluates the      *)
(* predicate under the mutex, "doze" has found it false and still holds    *)
(* the mutex, "asleep" has let it go.  A notify reaches only the sleepers; *)
(* one made without the mutex can therefore fall on a dozing thread and be *)
(* lost.  poll, pollDoze and pollSleep are the same for the device's       *)
(* inputCv_.                                                               *)
(*                                                                         *)
(* CMD_UNLINK is answered at once and cancels nothing, which is no step of *)
(* this module.  What a URB carries and how long its answer is held are    *)
(* left out; DeviceInput models which report an interrupt IN gets.  An     *)
(* operator no action uses is a plausible mistake in the one below it.     *)
(***************************************************************************)
EXTENDS Naturals, FiniteSets

CONSTANTS Endpoint,    \* interrupt IN endpoints
          MaxUrb,      \* bound: URBs the host submits
          MaxPaced,    \* IsoInPacer::kMaxQueued
          NoUrb,
          Happens      \* what an instance lets the outside do, of Event

Loop  == "loop"
Ack   == "ack"      \* isoOutAckWorker
Pacer == "pacer"    \* IsoInPacer::loop

\* The host leaves; the device is removed or detached; the host sends a
\* command that is not a URB; the server stops.
Event == {"gone", "unplug", "garbage", "stop"}

ASSUME SessionAssumption ==
    /\ MaxUrb \in Nat /\ MaxPaced \in Nat
    /\ NoUrb \notin 1..MaxUrb
    /\ Endpoint \cap {Loop, Ack, Pacer} = {}
    /\ Happens \subseteq Event

Urb    == 1..MaxUrb
Worker == Endpoint \cup {Ack, Pacer}
Thread == Worker \cup {Loop}

VARIABLES
    read,      \* URBs read so far
    queue,     \* by worker, the URBs handed to it
    hand,      \* by thread, the URB it is serving
    answered,  \* URBs a RET_SUBMIT has been sent for
    pc,
    active,    \* sessionActive
    serving,   \* the server's running_ and not g_stop
    pacing,    \* IsoInPacer::running_
    sock,      \* "open", "gone" (the host has left) or "shut" (SD_BOTH)
    fresh,     \* endpoints with a report not yet delivered
    missed     \* history, read by no action: a notify found a thread dozing

vars == <<read, queue, hand, answered, pc, active, serving, pacing, sock, fresh,
          missed>>
urbVars  == <<read, queue, hand, answered>>
flagVars == <<active, serving, pacing>>

LoopPc   == {"read", "notify", "joinWorkers", "stopPacer", "joinPacer", "joinAck",
             "returned"}
WorkerPc == {"none", "head", "check", "doze", "asleep", "pace", "done",
             "poll", "pollDoze", "pollSleep"}
ClosePc  == {"send", "close", "wakeInput", "wakeWorkers", "wakeAck"}

TypeOK ==
    /\ read \in 0..MaxUrb
    /\ queue \in [Worker -> SUBSET Urb]
    /\ hand \in [Thread -> Urb \cup {NoUrb}]
    /\ answered \subseteq Urb
    /\ pc \in [Thread -> LoopPc \cup WorkerPc \cup ClosePc]
    /\ pc[Loop] \in LoopPc \cup ClosePc
    /\ \A w \in Worker : pc[w] \in WorkerPc \cup ClosePc
    /\ active \in BOOLEAN /\ serving \in BOOLEAN /\ pacing \in BOOLEAN
    /\ sock \in {"open", "gone", "shut"}
    /\ fresh \subseteq Endpoint
    /\ missed \in BOOLEAN

Init ==
    /\ read = 0
    /\ queue = [w \in Worker |-> {}]
    /\ hand = [t \in Thread |-> NoUrb]
    /\ answered = {}
    /\ pc = [t \in Thread |-> IF t = Loop THEN "read"
                              ELSE IF t \in Endpoint THEN "none" ELSE "head"]
    /\ active = TRUE /\ serving = TRUE /\ pacing = TRUE
    /\ sock = "open"
    /\ fresh = {} /\ missed = FALSE

Goes(t, place) == pc' = [pc EXCEPT ![t] = place]

\* notify_all on the condition variable the threads of T wait at.
Wakes(T) == [t \in Thread |->
                IF t \in T /\ pc[t] = "asleep" THEN "check"
                ELSE IF t \in T /\ pc[t] = "pollSleep" THEN "poll"
                ELSE pc[t]]

\* notify_all from thread t, which then goes to `to`.
Notifies(T, t, to) ==
    /\ pc' = [Wakes(T) EXCEPT ![t] = to]
    /\ missed' = (missed \/ \E w \in T : pc[w] \in {"doze", "pollDoze"})

----------------------------------------------------------------------------
(* The loop thread, reading.                                               *)

Reads == pc[Loop] = "read" /\ sock = "open" /\ active /\ serving /\ read < MaxUrb

\* Control, OUT, and whatever failed: served here and answered here.
LoopServes ==
    /\ Reads
    /\ read' = read + 1
    /\ hand' = [hand EXCEPT ![Loop] = read + 1]
    /\ Goes(Loop, "send")
    /\ UNCHANGED <<queue, answered, flagVars, sock, fresh, missed>>

\* The worker's queue under its mutex, then its condition variable; an
\* endpoint's worker is started for its first URB.
Hands(w) ==
    /\ pc[w] # "doze"
    /\ read' = read + 1
    /\ queue' = [queue EXCEPT ![w] = @ \cup {read + 1}]
    /\ pc' = IF pc[w] = "none" THEN [pc EXCEPT ![w] = "head"] ELSE Wakes({w})
    /\ UNCHANGED <<hand, answered, flagVars, sock, fresh, missed>>

LoopHandsInput(e) == Reads /\ Hands(e)

LoopHandsIsoOut == Reads /\ Hands(Ack)

\* IsoInPacer::submit takes it unless it is stopped or full; refused, the URB
\* is answered by LoopServes.
PacerTakes == pacing /\ Cardinality(queue[Pacer]) < MaxPaced

LoopHandsIsoIn == Reads /\ PacerTakes /\ Hands(Pacer)

\* recv fails, the command is unknown, or the loop's condition is over.
LoopEnds ==
    /\ pc[Loop] = "read"
    /\ sock # "open" \/ ~active \/ ~serving \/ "garbage" \in Happens
    /\ Goes(Loop, "close")
    /\ UNCHANGED <<urbVars, flagVars, sock, fresh, missed>>

----------------------------------------------------------------------------
(* The workers.                                                            *)

\* What ends a worker's loop and its wait.
Stopped(w) == IF w = Pacer THEN ~pacing ELSE ~active \/ ~serving

WorkerHead(w) ==
    /\ pc[w] = "head"
    /\ Goes(w, IF Stopped(w) THEN "done" ELSE "check")
    /\ UNCHANGED <<urbVars, flagVars, sock, fresh, missed>>

\* The wait's predicate is false: block.
WorkerDozes(w) ==
    /\ pc[w] = "check" /\ queue[w] = {} /\ ~Stopped(w)
    /\ Goes(w, "doze")
    /\ UNCHANGED <<urbVars, flagVars, sock, fresh, missed>>

WorkerSleeps(w) ==
    /\ pc[w] = "doze"
    /\ Goes(w, "asleep")
    /\ UNCHANGED <<urbVars, flagVars, sock, fresh, missed>>

\* An endpoint's worker leaves only when its queue is empty, the others as
\* soon as they are stopped.
Leaves(w) == Stopped(w) /\ (w \in Endpoint => queue[w] = {})

WorkerLeaves(w) ==
    /\ pc[w] = "check" /\ Leaves(w)
    /\ Goes(w, "done")
    /\ UNCHANGED <<urbVars, flagVars, sock, fresh, missed>>

Youngest(w) == CHOOSE u \in queue[w] : \A v \in queue[w] : v <= u
\* front()
Oldest(w) == CHOOSE u \in queue[w] : \A v \in queue[w] : u <= v

Peeked(w) == queue[w]
\* pop_front()
Popped(w) == queue[w] \ {Oldest(w)}

WorkerTakes(w) ==
    /\ pc[w] = "check" /\ queue[w] # {} /\ ~Leaves(w)
    /\ hand' = [hand EXCEPT ![w] = Oldest(w)]
    /\ queue' = [queue EXCEPT ![w] = Popped(w)]
    /\ Goes(w, IF w \in Endpoint THEN "poll" ELSE "pace")
    /\ UNCHANGED <<read, answered, flagVars, sock, fresh, missed>>

\* sleep_until: the audio's duration has passed.  The pacer looks at its flag
\* again before it sends.
WorkerPaced(w) ==
    /\ pc[w] = "pace"
    /\ IF w = Pacer /\ Stopped(w)
       THEN Goes(w, "done") /\ hand' = [hand EXCEPT ![w] = NoUrb]
       ELSE Goes(w, "send") /\ UNCHANGED hand
    /\ UNCHANGED <<read, queue, answered, flagVars, sock, fresh, missed>>

\* Nobody holds inputMutex_ across the start of a wait.
InputFree == \A e \in Endpoint : pc[e] # "pollDoze"

\* handle_interrupt_in: a report, or a stall once the session is closed.
InputReady(e) ==
    /\ pc[e] = "poll" /\ InputFree
    /\ e \in fresh \/ ~active
    /\ fresh' = fresh \ {e}
    /\ Goes(e, "send")
    /\ UNCHANGED <<urbVars, flagVars, sock, missed>>

InputDozes(e) ==
    /\ pc[e] = "poll" /\ InputFree
    /\ e \notin fresh /\ active
    /\ Goes(e, "pollDoze")
    /\ UNCHANGED <<urbVars, flagVars, sock, fresh, missed>>

InputSleeps(e) ==
    /\ pc[e] = "pollDoze"
    /\ Goes(e, "pollSleep")
    /\ UNCHANGED <<urbVars, flagVars, sock, fresh, missed>>

WorkerStep(w) ==
    \/ WorkerHead(w) \/ WorkerDozes(w) \/ WorkerSleeps(w)
    \/ WorkerLeaves(w) \/ WorkerTakes(w) \/ WorkerPaced(w)

InputStep(e) == InputReady(e) \/ InputDozes(e) \/ InputSleeps(e)

----------------------------------------------------------------------------
(* Sending an answer, and close_session, on whichever thread it is.        *)

\* send_submit succeeds.  A host that has left may still be sent to.
Sends(t) ==
    /\ pc[t] = "send" /\ sock # "shut"
    /\ answered' = answered \cup {hand[t]}
    /\ hand' = [hand EXCEPT ![t] = NoUrb]
    /\ Goes(t, IF t = Loop THEN "read" ELSE "head")
    /\ UNCHANGED <<read, queue, flagVars, sock, fresh, missed>>

SendFails(t) ==
    /\ pc[t] = "send" /\ sock # "open"
    /\ hand' = [hand EXCEPT ![t] = NoUrb]
    /\ Goes(t, "close")
    /\ UNCHANGED <<read, queue, answered, flagVars, sock, fresh, missed>>

AfterClose(t) == IF t = Loop THEN "notify" ELSE "done"

\* sessionActive.exchange(false) and shutdown(client, SD_BOTH); nothing the
\* second time.
CloseSession(t) ==
    /\ pc[t] = "close"
    /\ active' = FALSE
    /\ IF active THEN sock' = "shut" /\ Goes(t, "wakeInput")
                 ELSE UNCHANGED sock /\ Goes(t, AfterClose(t))
    /\ UNCHANGED <<urbVars, serving, pacing, fresh, missed>>

\* The endpoints' workers at the device's condition variable, and at their own.
AtInputCv == {e \in Endpoint : pc[e] \in {"pollDoze", "pollSleep"}}

NobodyAtTheirCv == {}
AtTheirCv == {e \in Endpoint : pc[e] \in {"doze", "asleep"}}

\* wake_input_waiters
CloseWakesInput(t) ==
    /\ pc[t] = "wakeInput"
    /\ Notifies(AtInputCv, t, "wakeWorkers")
    /\ UNCHANGED <<urbVars, flagVars, sock, fresh>>

CloseWakesWorkers(t) ==
    /\ pc[t] = "wakeWorkers"
    /\ Notifies(AtTheirCv, t, "wakeAck")
    /\ UNCHANGED <<urbVars, flagVars, sock, fresh>>

CloseWakesAck(t) ==
    /\ pc[t] = "wakeAck"
    /\ Notifies({Ack}, t, AfterClose(t))
    /\ UNCHANGED <<urbVars, flagVars, sock, fresh>>

CloseStep(t) == \/ Sends(t) \/ SendFails(t) \/ CloseSession(t)
                \/ CloseWakesInput(t) \/ CloseWakesWorkers(t) \/ CloseWakesAck(t)

----------------------------------------------------------------------------
(* The loop thread, after its loop: notify the workers once more, join     *)
(* them, stop and join the pacer, join the ack worker.                     *)

LoopNotifies ==
    /\ pc[Loop] = "notify"
    /\ Notifies(AtTheirCv, Loop, "joinWorkers")
    /\ UNCHANGED <<urbVars, flagVars, sock, fresh>>

\* join() returns for each thread that was started.
Joined(T) == \A t \in T : pc[t] \in {"none", "done"}

LoopJoins(here, T, next) ==
    /\ pc[Loop] = here /\ Joined(T)
    /\ Goes(Loop, next)
    /\ UNCHANGED <<hand, read, answered, flagVars, sock, fresh, missed>>

LoopJoinsWorkers == LoopJoins("joinWorkers", Endpoint, "stopPacer") /\ UNCHANGED queue

\* IsoInPacer::stop
LoopStopsPacer ==
    /\ pc[Loop] = "stopPacer"
    /\ pacing' = FALSE
    /\ Notifies({Pacer}, Loop, "joinPacer")
    /\ UNCHANGED <<urbVars, active, serving, sock, fresh>>

LoopJoinsPacer ==
    /\ LoopJoins("joinPacer", {Pacer}, "joinAck")
    /\ queue' = [queue EXCEPT ![Pacer] = {}]

LoopJoinsAck == LoopJoins("joinAck", {Ack}, "returned") /\ UNCHANGED queue

LoopStep == \/ LoopEnds \/ LoopNotifies \/ LoopJoinsWorkers
            \/ LoopStopsPacer \/ LoopJoinsPacer \/ LoopJoinsAck

LoopReads == \/ LoopServes \/ LoopHandsIsoOut \/ LoopHandsIsoIn
             \/ \E e \in Endpoint : LoopHandsInput(e)

----------------------------------------------------------------------------
(* The outside.                                                            *)

SilentNotify(e) == pc
\* enqueue_input_report ends in notify_all: every endpoint's worker waits at
\* the one condition variable and looks for itself.
InputNotify(e) == Wakes({d \in Endpoint : pc[d] = "pollSleep"})

InputArrives(e) ==
    /\ InputFree /\ e \notin fresh
    /\ fresh' = fresh \cup {e}
    /\ pc' = InputNotify(e)
    /\ UNCHANGED <<urbVars, flagVars, sock, missed>>

\* The host closes the connection.
HostLeaves ==
    /\ "gone" \in Happens /\ sock = "open" /\ sock' = "gone"
    /\ UNCHANGED <<urbVars, pc, flagVars, fresh, missed>>

\* remove_device or detach_device: shutdown_active_clients.
Unplugged ==
    /\ "unplug" \in Happens /\ sock # "shut" /\ sock' = "shut"
    /\ UNCHANGED <<urbVars, pc, flagVars, fresh, missed>>

ServerStops ==
    /\ "stop" \in Happens /\ serving /\ serving' = FALSE
    /\ UNCHANGED <<urbVars, pc, active, pacing, sock, fresh, missed>>

\* urb_loop has returned.
Returned == pc[Loop] = "returned" /\ UNCHANGED vars

Next ==
    \/ LoopReads \/ LoopStep
    \/ \E t \in Thread : CloseStep(t)
    \/ \E w \in Worker : WorkerStep(w)
    \/ \E e \in Endpoint : InputStep(e) \/ InputArrives(e)
    \/ HostLeaves \/ Unplugged \/ ServerStops \/ Returned

Spec == Init /\ [][Next]_vars

\* Threads run and audio time passes; hosts and pads promise nothing.
Fairness ==
    /\ WF_vars(LoopStep)
    /\ \A t \in Thread : WF_vars(CloseStep(t))
    /\ \A w \in Worker : WF_vars(WorkerStep(w))
    /\ \A e \in Endpoint : WF_vars(InputStep(e))
FairSpec == Spec /\ Fairness
----------------------------------------------------------------------------
(* Properties.                                                             *)

Queues == UNION {queue[w] : w \in Worker}

\* "Never drop a URB": over a standing connection every URB the loop has read
\* is answered, or in one queue, or in one thread's hands, and in no two.
NeverDropsUrb ==
    sock = "open" => \A u \in 1..read :
        \/ u \in answered /\ u \notin Queues /\ \A t \in Thread : hand[t] # u
        \/ /\ u \notin answered
           /\ \/ u \notin Queues /\ \E t \in Thread : hand[t] = u
              \/ u \in Queues /\ \A t \in Thread : hand[t] # u

\* Whatever its threads do, the session gives the host what UrbService says:
\* each URB answered at most once and each stream's in the order submitted.
Pending(t) == (IF t = Loop THEN {} ELSE queue[t]) \cup ({hand[t]} \ {NoUrb})
Service == INSTANCE UrbService WITH
    Stream <- Thread, open <- (sock = "open"),
    pending <- [t \in Thread |-> Pending(t)]
Serves == Service!Spec

\* The threads work on the loop's stack: none is left when urb_loop returns,
\* and no URB is in anyone's hands.
NoThreadOutlivesLoop ==
    pc[Loop] = "returned" =>
        \A t \in Thread : hand[t] = NoUrb /\ pc[t] \in {"returned", "done", "none"}

\* A session that is closed comes to its end, whoever closed it, unless some
\* notify fell between a thread's look at its predicate and its sleep.
ClosedSessionEnds == ~active ~> (pc[Loop] = "returned" \/ missed)

\* A report reaches the host although every other endpoint is idle: each
\* worker blocks "only on its OWN endpoint".
InputReachesHost ==
    \A e \in Endpoint :
        e \in fresh /\ pc[e] \in {"poll", "pollDoze", "pollSleep"}
            ~> e \notin fresh

\* "Called once if a send fails, so the session can be torn down."
PacerFailureEndsSession == pc[Pacer] = "close" ~> pc[Loop] = "returned"
=============================================================================
