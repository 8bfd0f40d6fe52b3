----------------------------- MODULE InputQueue -----------------------------
(***************************************************************************)
(* The queue between a bridge's reader and its input worker                *)
(* (enqueue_input_report, input_worker_loop and stop of                    *)
(* src/src/backend/bridge.inl).  The reader is here for the reports it     *)
(* queues and for its end; BridgeLink has its connection.  A report is its *)
(* number, so the deque is a set and its front the least.                  *)
(*                                                                         *)
(* The wait on inputCv_ is three places, as in UrbSession: "check" looks   *)
(* at the predicate, "doze" has found it false and still holds             *)
(* inputMutex_, "asleep" has let it go.  Only a sleeper is woken.  An      *)
(* operator no action uses is a plausible mistake in the one below it.     *)
(***************************************************************************)
EXTENDS Naturals, FiniteSets

CONSTANTS InputCap,   \* kInputQueueCapacity (16)
          MaxInput    \* bound: reports received

ASSUME QueueAssumption == InputCap \in Nat \ {0} /\ MaxInput \in Nat

VARIABLES
    received,   \* reports received so far
    inputs,     \* inputQueue_
    rpc, wpc, spc,   \* where the reader, the input worker and stop() are
    hand,       \* the report the worker has taken
    reached,      \* the last report the device was given
    on,         \* running_
    gstop,      \* g_stop
    missed      \* history: stop's notify fell on a dozing worker

inputVars == <<received, inputs, rpc, wpc, spc, hand, reached, on, gstop, missed>>

InputTypeOK ==
    /\ received \in 0..MaxInput /\ inputs \subseteq 1..received
    /\ Cardinality(inputs) <= InputCap
    /\ rpc \in {"reading", "notify", "done"}
    /\ wpc \in {"top", "check", "doze", "asleep", "call", "done"}
    /\ spc \in {"none", "joinReader", "notify", "joinWorker", "returned"}
    /\ hand \in 0..received /\ reached \in 0..received
    /\ {on, gstop, missed} \subseteq BOOLEAN

InputInit ==
    /\ received = 0 /\ inputs = {} /\ hand = 0 /\ reached = 0
    /\ rpc = "reading" /\ wpc = "top" /\ spc = "none"
    /\ on = TRUE /\ gstop = FALSE /\ missed = FALSE

Front == CHOOSE n \in inputs : \A m \in inputs : n <= m

Refusing(n) == IF Cardinality(inputs) >= InputCap THEN inputs ELSE inputs \cup {n}
\* A full queue drops its oldest report.
Queued(n) == (IF Cardinality(inputs) >= InputCap THEN inputs \ {Front} ELSE inputs) \cup {n}

ReaderQueues ==
    /\ rpc = "reading" /\ received < MaxInput
    /\ wpc # "doze"    \* inputMutex_
    /\ received' = received + 1 /\ inputs' = Queued(received + 1)
    /\ rpc' = "notify"
    /\ UNCHANGED <<wpc, spc, hand, reached, on, gstop, missed>>

Woken == IF wpc = "asleep" THEN "check" ELSE wpc

ReaderNotifies ==
    /\ rpc = "notify" /\ rpc' = "reading"
    /\ wpc' = Woken
    /\ UNCHANGED <<received, inputs, spc, hand, reached, on, gstop, missed>>

\* It sees a stop, its TV is gone for good, or the idle rule has it end.
ReaderEnds ==
    /\ rpc = "reading" /\ rpc' = "done"
    /\ UNCHANGED <<received, inputs, wpc, spc, hand, reached, on, gstop, missed>>

WorkerTop ==
    /\ wpc = "top" /\ wpc' = (IF on /\ ~gstop THEN "check" ELSE "done")
    /\ UNCHANGED <<received, inputs, rpc, spc, hand, reached, on, gstop, missed>>

\* The predicate of the wait.
Awaited == inputs # {} \/ ~on \/ gstop

WorkerTakes ==
    /\ wpc = "check" /\ inputs # {}
    /\ wpc' = "call" /\ hand' = Front /\ inputs' = inputs \ {Front}
    /\ UNCHANGED <<received, rpc, spc, reached, on, gstop, missed>>

WorkerEnds ==
    /\ wpc = "check" /\ Awaited /\ inputs = {} /\ wpc' = "done"
    /\ UNCHANGED <<received, inputs, rpc, spc, hand, reached, on, gstop, missed>>

WorkerDozes ==
    /\ wpc = "check" /\ ~Awaited /\ wpc' = "doze"
    /\ UNCHANGED <<received, inputs, rpc, spc, hand, reached, on, gstop, missed>>

WorkerSleeps ==
    /\ wpc = "doze" /\ wpc' = "asleep"
    /\ UNCHANGED <<received, inputs, rpc, spc, hand, reached, on, gstop, missed>>

\* callback_: on_physical_input of the device.
WorkerGives ==
    /\ wpc = "call" /\ wpc' = "top" /\ reached' = hand
    /\ UNCHANGED <<received, inputs, rpc, spc, hand, on, gstop, missed>>

WorkerStep ==
    WorkerTop \/ WorkerTakes \/ WorkerEnds \/ WorkerDozes \/ WorkerSleeps \/ WorkerGives

\* stop: the flag and the sockets, the reader's join, the notify, the worker's join.
StopBegins ==
    /\ spc = "none" /\ spc' = "joinReader" /\ on' = FALSE
    /\ UNCHANGED <<received, inputs, rpc, wpc, hand, reached, gstop, missed>>

StopJoinsReader ==
    /\ spc = "joinReader" /\ rpc = "done" /\ spc' = "notify"
    /\ UNCHANGED <<received, inputs, rpc, wpc, hand, reached, on, gstop, missed>>

StopNotifies ==
    /\ spc = "notify" /\ spc' = "joinWorker"
    /\ wpc' = Woken /\ missed' = (wpc = "doze")
    /\ UNCHANGED <<received, inputs, rpc, hand, reached, on, gstop>>

StopReturns ==
    /\ spc = "joinWorker" /\ wpc = "done" /\ spc' = "returned"
    /\ UNCHANGED <<received, inputs, rpc, wpc, hand, reached, on, gstop, missed>>

StopStep == StopJoinsReader \/ StopNotifies \/ StopReturns

InputQuits ==
    /\ ~gstop /\ gstop' = TRUE
    /\ UNCHANGED <<received, inputs, rpc, wpc, spc, hand, reached, on, missed>>

InputRests == (spc = "returned" \/ missed) /\ UNCHANGED inputVars

InputNext == \/ ReaderQueues \/ ReaderNotifies \/ ReaderEnds
             \/ WorkerStep \/ StopBegins \/ StopStep \/ InputQuits \/ InputRests

InputSpec == InputInit /\ [][InputNext]_inputVars

\* The threads run, and a reader whose sockets are shut sees it.
InputFairSpec ==
    /\ InputSpec
    /\ WF_inputVars(WorkerStep) /\ WF_inputVars(StopStep)
    /\ WF_inputVars(ReaderNotifies) /\ WF_inputVars(~on /\ ReaderEnds)
----------------------------------------------------------------------------
(* Properties.                                                             *)

\* However far behind the worker is, the newest report reaches the device (or a
\* newer one does): the release of a button is not the report that is dropped.
NewestInputArrives ==
    \A n \in 1..MaxInput : received = n ~> reached >= n \/ ~on \/ gstop

\* A stop of the backend comes back, unless its notify fell between the worker's
\* look at the flag and its sleep.
InputStopEnds == spc # "none" ~> spc = "returned" \/ missed

\* ... which it can: stop takes no mutex to notify.
InputStopReturns == spc # "none" ~> spc = "returned"
=============================================================================
