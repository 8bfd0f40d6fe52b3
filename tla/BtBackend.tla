----------------------------- MODULE BtBackend -----------------------------
(***************************************************************************)
(* LocalBtBackend (backend/bt.inl): a controller on this computer's own    *)
(* Bluetooth.  A reader has one overlapped read pending at a time, a       *)
(* writer sends the paced reports at their clock, callers write and ask    *)
(* for features under the same io mutex, and stop cancels, joins and       *)
(* closes.                                                                 *)
(***************************************************************************)
EXTENDS Naturals, Sequences, SequencesExt

CONSTANTS MaxQueued,   \* kMaxQueuedPacedReports
          Features,    \* the action lists a caller runs: sequences of [get, best]
          MaxPaced,    \* bound: paced reports
          MaxReads,    \* bound: reports the controller sends
          MaxCalls     \* bound: features and unpaced writes

ASSUME BtAssumption == MaxQueued \in Nat \ {0} /\ {MaxPaced, MaxReads, MaxCalls} \subseteq Nat

VARIABLES alive,    \* running_
          handle,     \* "none", "open" or "closed"
          stop,       \* "new", "up", "flagged", "cancelled", "notified", "joined", "closed"
          reader,     \* "off", "test", "issue", "reading" or "done"
          writer,     \* "off", "check", "holds", "asleep", "took", "write" or "done"
          queue,      \* pacedQueue_
          paced, reads,
          inHand,     \* the report the writer took
          wrote,      \* history: the paced reports the controller was sent
          io,         \* who has ioMutex_: "free", "writer" or "caller"
          acts,       \* the caller's actions still to run
          acted,      \* history: how many of them have run
          answer,     \* lastGetResponse: the action it answers, or 0
          missed,     \* history: the threads that stop's cancel or notify came too soon for
          ended,      \* what execute_feature_actions returned: "none", "true" or "false"
          requests

btVars == <<alive, handle, stop, reader, writer, queue, paced, reads, inHand, wrote, io,
            acts, acted, answer, ended, requests, missed>>
lifeVars == <<alive, handle, stop, missed>>
pacedVars == <<writer, queue, paced, inHand, wrote>>
askVars == <<acts, acted, answer, ended, requests>>

BtInit ==
    /\ alive = FALSE /\ handle = "none" /\ stop = "new"
    /\ reader = "off" /\ writer = "off" /\ queue = <<>>
    /\ paced = 0 /\ reads = 0 /\ inHand = 0 /\ wrote = <<>>
    /\ io = "free" /\ acts = <<>> /\ acted = 0 /\ answer = 0 /\ ended = "none" /\ requests = 0
    /\ missed = {}

\* start: the index, the path and the open may fail before anything is kept.
BtStart ==
    /\ stop = "new" /\ stop' = "up" /\ handle' = "open" /\ alive' = TRUE
    /\ reader' = "test" /\ writer' = "check"
    /\ UNCHANGED <<queue, paced, reads, inHand, wrote, io, askVars, missed>>

----------------------------------------------------------------------------
(* reader_loop and read_hid_report.                                         *)

ReadRest == UNCHANGED <<lifeVars, pacedVars, io, askVars>>

\* The loop's condition.
ReadTests ==
    /\ reader = "test" /\ reader' = IF alive THEN "issue" ELSE "done"
    /\ UNCHANGED reads /\ ReadRest

\* The read is left pending without a time limit.
ReadIssues == reader = "issue" /\ reader' = "reading" /\ UNCHANGED reads /\ ReadRest

\* A report completes the read and goes to the callback.
ReadCompletes ==
    /\ reader = "reading" /\ reads < MaxReads
    /\ reads' = reads + 1 /\ reader' = "test"
    /\ ReadRest

\* The controller is gone: the loop ends and the session stays.
ReadBreaks ==
    /\ reader = "reading" /\ reader' = "done" /\ UNCHANGED reads /\ ReadRest

----------------------------------------------------------------------------
(* send_output_report and paced_writer_loop.                                *)

\* The oldest makes room.
Queued(q) == Append(IF Len(q) >= MaxQueued THEN Tail(q) ELSE q, paced + 1)

SendPaced ==
    /\ stop # "new" /\ paced < MaxPaced /\ writer # "holds"
    /\ paced' = paced + 1 /\ queue' = Queued(queue)
    /\ writer' = IF writer = "asleep" THEN "check" ELSE writer
    /\ UNCHANGED <<lifeVars, reader, reads, inHand, wrote, io, askVars>>

\* The predicate of the wait.
Waits == queue = <<>> /\ alive

\* pacedMutex_ is held from the test to the sleep, and a notify in between is lost.
WriterChecks ==
    /\ writer = "check"
    /\ writer' = IF Waits THEN "holds" ELSE IF alive THEN "took" ELSE "done"
    /\ IF ~Waits /\ alive THEN inHand' = Head(queue) /\ queue' = Tail(queue)
                           ELSE UNCHANGED <<inHand, queue>>
    /\ UNCHANGED <<lifeVars, reader, reads, paced, wrote, io, askVars>>

WriterSleeps == /\ writer = "holds" /\ writer' = "asleep"
                /\ UNCHANGED <<lifeVars, reader, reads, queue, paced, inHand, wrote, io, askVars>>

WriterLocks ==
    /\ writer = "took" /\ io = "free" /\ io' = "writer" /\ writer' = "write"
    /\ UNCHANGED <<lifeVars, reader, reads, queue, paced, inHand, wrote, askVars>>

\* write_hid_report: done, refused, or not done within its second; then the loop's condition.
WriterWrites ==
    /\ writer = "write" /\ io' = "free" /\ inHand' = 0
    /\ writer' = IF alive THEN "check" ELSE "done"
    /\ \/ handle = "open" /\ wrote' = Append(wrote, inHand)
       \/ UNCHANGED wrote
    /\ UNCHANGED <<lifeVars, reader, reads, queue, paced, askVars>>

----------------------------------------------------------------------------
(* execute_feature_actions, under the io mutex from first to last; a report   *)
(* written at once is a list of one.                                          *)

AskRest == UNCHANGED <<lifeVars, pacedVars, reader, reads>>

AskBegins ==
    /\ stop # "new" /\ io = "free" /\ acts = <<>> /\ requests < MaxCalls
    /\ \E f \in Features : acts' = f
    /\ io' = "caller" /\ requests' = requests + 1
    /\ answer' = 0 /\ acted' = 0 /\ ended' = "none"
    /\ AskRest

\* One action: it succeeds, or fails and ends the list unless it is a best effort.
AskActs ==
    /\ io = "caller" /\ acts # <<>>
    /\ acted' = acted + 1
    /\ \/ /\ handle = "open" /\ acts' = Tail(acts)
          /\ answer' = IF Head(acts).get THEN acted + 1 ELSE answer
          /\ UNCHANGED <<io, ended>>
       \/ /\ Head(acts).best /\ acts' = Tail(acts) /\ UNCHANGED <<answer, io, ended>>
       \/ /\ ~Head(acts).best /\ acts' = <<>> /\ io' = "free" /\ ended' = "false"
          /\ UNCHANGED answer
    /\ UNCHANGED requests /\ AskRest

AskEnds ==
    /\ io = "caller" /\ acts = <<>> /\ io' = "free" /\ ended' = "true"
    /\ UNCHANGED <<acts, acted, answer, requests>> /\ AskRest

----------------------------------------------------------------------------
(* stop: the flag, the cancel, the notify without the mutex, the joins, the close.*)

StopRest == UNCHANGED <<queue, paced, reads, inHand, wrote, io, askVars>>

StopFlags == /\ stop = "up" /\ stop' = "flagged" /\ alive' = FALSE
             /\ UNCHANGED <<handle, reader, writer, missed>> /\ StopRest

\* CancelIoEx takes what is pending at this moment; a cancelled read is no failure, and
\* the loop looks again.
StopCancels ==
    /\ stop = "flagged" /\ stop' = "cancelled"
    /\ reader' = IF reader = "reading" THEN "test" ELSE reader
    /\ missed' = IF reader = "issue" THEN {"reader"} ELSE {}
    /\ UNCHANGED <<alive, handle, writer>> /\ StopRest

StopNotifies ==
    /\ stop = "cancelled" /\ stop' = "notified"
    /\ writer' = IF writer = "asleep" THEN "check" ELSE writer
    /\ missed' = IF writer = "holds" THEN missed \cup {"writer"} ELSE missed
    /\ UNCHANGED <<alive, handle, reader>> /\ StopRest

\* Both threads are joined before the handle is closed.
StopJoins == reader = "done" /\ writer = "done"

StopCloses ==
    /\ stop = "notified" /\ StopJoins
    /\ stop' = "closed" /\ handle' = "closed"
    /\ UNCHANGED <<alive, reader, writer, missed>> /\ StopRest

ReaderRuns == ReadTests \/ ReadIssues
WriterRuns == WriterChecks \/ WriterSleeps \/ WriterLocks \/ WriterWrites
AskRuns    == AskActs \/ AskEnds
StopRuns   == StopCancels \/ StopNotifies \/ StopCloses

BtNext == \/ BtStart \/ ReaderRuns \/ ReadCompletes \/ ReadBreaks
          \/ SendPaced \/ WriterRuns \/ AskBegins \/ AskRuns
          \/ StopFlags \/ StopRuns

BtTypeOK ==
    /\ alive \in BOOLEAN /\ handle \in {"none", "open", "closed"}
    /\ stop \in {"new", "up", "flagged", "cancelled", "notified", "closed"}
    /\ reader \in {"off", "test", "issue", "reading", "done"}
    /\ writer \in {"off", "check", "holds", "asleep", "took", "write", "done"}
    /\ paced \in 0..MaxPaced /\ reads \in 0..MaxReads /\ requests \in 0..MaxCalls
    /\ Len(queue) <= MaxQueued /\ inHand \in 0..paced
    /\ io \in {"free", "writer", "caller"} /\ ended \in {"none", "true", "false"}
    /\ missed \subseteq {"reader", "writer"}

----------------------------------------------------------------------------

\* A burst of audio costs its oldest reports and no others: what is sent, in hand and
\* queued is in the order it came, and the newest is among them while the writer runs.
\* Neither thread outlives the handle it uses.
PacedIsNewest ==
    LET line == wrote \o (IF inHand = 0 THEN <<>> ELSE <<inHand>>) \o queue IN
    /\ \A i, j \in DOMAIN line : i < j => line[i] < line[j]
    /\ queue # <<>> => Last(queue) = paced
    /\ handle = "closed" => reader = "done" /\ writer = "done"

\* A stop returns, unless its cancel came before the reader's last read and the controller
\* says nothing more, or its notify came before the writer's last sleep.
BtStopEnds ==
    stop = "flagged" ~> \/ stop = "closed"
                        \/ "reader" \in missed /\ reader = "reading"
                        \/ "writer" \in missed /\ writer = "asleep"

\* The writer keeps the newest reports in their order, and both threads end.
BtServes == []PacedIsNewest /\ BtStopEnds
=============================================================================
