--------------------------- MODULE AgentSessions ---------------------------
(***************************************************************************)
(* The bridge sessions of the agent: src/src/app/agent.inl, the sweep in   *)
(* agent_session_sweep.inl and the thread lifecycle of the TCP backend in  *)
(* backend/bridge.inl.                                                     *)
(*                                                                         *)
(* Threads: the agent loop (run_agent), one worker per session             *)
(* (bridge_session_worker), one reader and one input worker per started    *)
(* backend (reader_loop, input_worker_loop).  stop_bridge_session runs on  *)
(* whichever thread calls it: the agent loop, or a worker that retires an  *)
(* older session of the same controller; spc and tgt are that call's frame *)
(* on each thread.                                                         *)
(*                                                                         *)
(* A session is its ordinal.  Ordinals grow and are never reused, and      *)
(* g_agent_sessions is only appended to and erased from, so the list is    *)
(* the set listed in the order of its members.  reaps and todo are sets:   *)
(* the order in which one batch of busids is stopped is left open.         *)
(*                                                                         *)
(* A pad is what same_controller::matches compares (serial and TV node);   *)
(* a TV that sends no node, and nicknames (module Nicknames), are left     *)
(* out.  A backend is what its threads and sockets are: members of made,   *)
(* listening, connected, running, threaded (reader_ is joinable), and iw,  *)
(* where its input worker is.  What the input worker hands on is in        *)
(* InputQueue; here it is for stop(), which has to join it.  While it is   *)
(* "up" it works, waits or is about to look at running_, which nobody asks *)
(* until a stop() waits for it; "asleep" it has not heard that stop().     *)
(*                                                                         *)
(* An operator no action uses is a plausible mistake in the one below it:  *)
(* the properties are tried against it (PROJECT.json, mutants).            *)
(***************************************************************************)
EXTENDS Naturals

CONSTANTS BusId,        \* busids a TV may name in BRIDGE_START
          Port,         \* bridge ports a TV may name
          Pad,          \* physical controllers
          PadsOf,       \* the controllers whose TV may connect to a session
          NoBus, NoPort, NoPad, Free,
          Happens,      \* what an instance lets the outside do, of Event
          MaxSession    \* bound: sessions started in one run of the agent

\* A TV is lost; a file, port or profile fails; the config file changes; the
\* person quits.  Commands and connections always come.
Event == {"loss", "fault", "config", "quit"}

ASSUME ConstAssumption ==
    /\ Happens \subseteq Event
    /\ MaxSession \in Nat \ {0}
    /\ Free \notin 0..MaxSession
    /\ NoBus \notin BusId /\ NoPort \notin Port /\ NoPad \notin Pad
    /\ PadsOf \in [1..MaxSession -> SUBSET (Pad \cup {NoPad})]

Session == 1..MaxSession
Agent   == 0                     \* the agent loop's thread, and "no session"
Thread  == 0..MaxSession

VARIABLES
    born,       \* the last ordinal handed out
    listed,     \* g_agent_sessions
    freed,      \* sessions whose object has been destroyed
    bus, port,  \* the session's busId and port
    pad,        \* the serial its backend reports now
    mine,       \* the worker's copy of it, read after add_device
    pub,        \* physicalSerial, published to the other workers
    stopping, ready,
    wpc,        \* where the session's worker is
    rd,         \* where the backend's reader thread is
    iw,         \* where its input worker thread is
    made,       \* sessions whose backend pointer is set
    listening, connected, running, threaded,
    smx,        \* who holds the session's mutex across a blocking step
    gmx,        \* who holds g_agent_sessions_mutex across a blocking step
    exports,    \* the USB/IP server's devices_, by busid
    reaps,      \* g_agent_reap_requests
    apc, req,   \* where the agent loop is, and the BRIDGE_START it serves
    targets,    \* backends the config sweep still holds a pointer to
    dirty,      \* ctm_config_watcher::change_pending
    quit,       \* g_stop
    todo, spc, tgt,   \* per thread: busids to stop, and the stop under way
    aborted     \* std::terminate has run

agentVars   == <<apc, req, targets, dirty, quit>>
stopVars    == <<todo, spc, tgt>>
backendVars == <<made, listening, connected, running, threaded, rd, iw>>
identVars   == <<born, bus, port>>
lockVars    == <<smx, gmx>>
vars == <<born, listed, freed, bus, port, pad, mine, pub, stopping, ready, wpc, rd,
          iw, made, listening, connected, running, threaded, smx, gmx, exports,
          reaps, apc, req, targets, dirty, quit, todo, spc, tgt, aborted>>

WorkerPc == {"unborn", "load", "bind", "accept", "start", "attach", "export",
             "lock", "scan", "retire", "link", "fetch", "unwind",
             "unwindJoin", "unwindInput", "done"}
AgentPc  == {"top", "drain", "snapshot", "push", "select", "start", "evict",
             "shutdown", "exited"}
StopPc   == {"idle", "unexport", "backend", "joinThreads", "joinInput",
             "joinWorker"}
ReaderPc == {"none", "reading", "grace", "firing", "gone"}
InputPc  == {"none", "up", "asleep", "gone", "joined"}

TypeOK ==
    /\ born \in 0..MaxSession
    /\ listed \subseteq Session /\ freed \subseteq Session
    /\ bus \in [Session -> BusId \cup {NoBus}]
    /\ port \in [Session -> Port \cup {NoPort}]
    /\ pad \in [Session -> Pad \cup {NoPad}]
    /\ mine \in [Session -> Pad \cup {NoPad}]
    /\ pub \in [Session -> Pad \cup {NoPad}]
    /\ stopping \subseteq Session /\ ready \subseteq Session
    /\ wpc \in [Session -> WorkerPc]
    /\ rd \in [Session -> ReaderPc]
    /\ iw \in [Session -> InputPc]
    /\ made \subseteq Session /\ listening \subseteq Session
    /\ connected \subseteq Session /\ running \subseteq Session
    /\ threaded \subseteq Session
    /\ smx \in [Session -> Thread \cup {Free}]
    /\ gmx \in Thread \cup {Free}
    /\ exports \in [BusId -> Thread]
    /\ reaps \subseteq BusId
    /\ apc \in AgentPc
    /\ req \in [bus : BusId \cup {NoBus}, port : Port \cup {NoPort}]
    /\ targets \subseteq Session
    /\ dirty \in BOOLEAN /\ quit \in BOOLEAN /\ aborted \in BOOLEAN
    /\ todo \in [Thread -> SUBSET BusId]
    /\ spc \in [Thread -> StopPc]
    /\ tgt \in [Thread -> Thread]
    /\ \A t \in Thread : spc[t] # "idle" => tgt[t] \in Session

Init ==
    /\ born = 0 /\ listed = {} /\ freed = {}
    /\ bus = [s \in Session |-> NoBus]
    /\ port = [s \in Session |-> NoPort]
    /\ pad = [s \in Session |-> NoPad]
    /\ mine = [s \in Session |-> NoPad]
    /\ pub = [s \in Session |-> NoPad]
    /\ stopping = {} /\ ready = {}
    /\ wpc = [s \in Session |-> "unborn"]
    /\ rd = [s \in Session |-> "none"]
    /\ iw = [s \in Session |-> "none"]
    /\ made = {} /\ listening = {} /\ connected = {} /\ running = {}
    /\ threaded = {}
    /\ smx = [s \in Session |-> Free] /\ gmx = Free
    /\ exports = [b \in BusId |-> Agent]
    /\ reaps = {}
    /\ apc = "top" /\ req = [bus |-> NoBus, port |-> NoPort]
    /\ targets = {} /\ dirty = FALSE /\ quit = FALSE
    /\ todo = [t \in Thread |-> {}]
    /\ spc = [t \in Thread |-> "idle"]
    /\ tgt = [t \in Thread |-> Agent]
    /\ aborted = FALSE

----------------------------------------------------------------------------
(* stop_bridge_session, on the thread t that called it.                    *)

\* Every busid this thread was asked to stop has been dealt with.
StopsDone(t) == todo[t] = {} /\ spc[t] = "idle"

\* std::move out of the list and erase.
Erased(s) == listed \ {s}

\* Its first part: find the busid in the list and move the session out of it.
\* No such busid: the call returns false.
StopTake(t) ==
    /\ spc[t] = "idle" /\ gmx = Free
    /\ \E b \in todo[t] :
         /\ todo' = [todo EXCEPT ![t] = @ \ {b}]
         /\ \/ /\ \A s \in listed : bus[s] # b
               /\ UNCHANGED <<listed, spc, tgt>>
            \/ \E s \in listed :
                 /\ bus[s] = b
                 /\ listed' = Erased(s)
                 /\ spc' = [spc EXCEPT ![t] = "unexport"]
                 /\ tgt' = [tgt EXCEPT ![t] = s]
    /\ UNCHANGED <<identVars, freed, pad, mine, pub, stopping, ready, wpc,
                   backendVars, lockVars, exports, reaps, agentVars, aborted>>

\* stopping.store(true), then the busid leaves the USB/IP server.
StopUnexport(t) ==
    /\ spc[t] = "unexport"
    /\ stopping' = stopping \cup {tgt[t]}
    /\ exports' = [exports EXCEPT ![bus[tgt[t]]] = Agent]
    /\ spc' = [spc EXCEPT ![t] = "backend"]
    /\ UNCHANGED <<identVars, listed, freed, pad, mine, pub, ready, wpc, backendVars,
                   lockVars, reaps, agentVars, todo, tgt, aborted>>

\* Under the session's mutex: BridgeBackend::stop() clears running_ and closes
\* both sockets; the mutex is held until the backend's threads are joined.
StopBackend(t) ==
    LET s == tgt[t] IN
    /\ spc[t] = "backend" /\ smx[s] = Free
    /\ \/ /\ s \in made
          /\ smx' = [smx EXCEPT ![s] = t]
          /\ running' = running \ {s}
          /\ connected' = connected \ {s}
          /\ listening' = listening \ {s}
          /\ spc' = [spc EXCEPT ![t] = "joinThreads"]
       \/ /\ s \notin made
          /\ spc' = [spc EXCEPT ![t] = "joinWorker"]
          /\ UNCHANGED <<smx, running, connected, listening>>
    /\ UNCHANGED <<identVars, listed, freed, pad, mine, pub, stopping, ready, wpc,
                   made, threaded, rd, iw, gmx, exports, reaps, agentVars, todo,
                   tgt, aborted>>

\* Both the stop and the worker's own error path are joining the same thread of
\* the backend: the second join() of one std::thread may throw and end the process.
JoinedTwice(s) ==
    \E t \in Thread :
        /\ tgt[t] = s
        /\ \/ spc[t] = "joinThreads" /\ wpc[s] = "unwindJoin" /\ s \in threaded
           \/ spc[t] = "joinInput" /\ wpc[s] = "unwindInput" /\ iw[s] = "gone"

\* inputCv_.notify_all, without inputMutex_: an input worker that has looked at
\* running_ but does not sleep yet misses it.
InputNotified(s) ==
    \/ iw[s] \in {"up", "asleep"} /\ \E q \in {"up", "asleep"} : iw' = [iw EXCEPT ![s] = q]
    \/ iw[s] \notin {"up", "asleep"} /\ iw' = iw

\* inputWorker_ is joined if start() has created it, ...
InputJoins(s) ==
    /\ iw[s] \in {"none", "gone", "joined"}
    /\ iw' = [iw EXCEPT ![s] = IF @ = "gone" THEN "joined" ELSE @]

\* ... and reader_ before it, after which the input worker is notified.
StopJoinThreads(t) ==
    LET s == tgt[t] IN
    /\ spc[t] = "joinThreads"
    /\ s \in threaded => rd[s] = "gone"
    /\ threaded' = threaded \ {s}
    /\ InputNotified(s)
    /\ spc' = [spc EXCEPT ![t] = "joinInput"]
    /\ aborted' \in {FALSE, JoinedTwice(s)}
    /\ UNCHANGED <<identVars, listed, freed, pad, mine, pub, stopping, ready, wpc,
                   made, listening, connected, running, rd, lockVars, exports,
                   reaps, agentVars, todo, tgt>>

StopJoinInput(t) ==
    LET s == tgt[t] IN
    /\ spc[t] = "joinInput"
    /\ InputJoins(s)
    /\ smx' = [smx EXCEPT ![s] = Free]
    /\ spc' = [spc EXCEPT ![t] = "joinWorker"]
    /\ aborted' \in {FALSE, JoinedTwice(s)}
    /\ UNCHANGED <<identVars, listed, freed, pad, mine, pub, stopping, ready, wpc,
                   made, listening, connected, running, threaded, rd, gmx,
                   exports, reaps, agentVars, todo, tgt>>

\* worker.join() returns.
WorkerJoined(s) == wpc[s] = "done"

\* worker.join(), and the session object goes.  A backend destroyed while its
\* thread members are joinable ends the process (std::terminate).
StopJoinWorker(t) ==
    LET s == tgt[t] IN
    /\ spc[t] = "joinWorker" /\ WorkerJoined(s)
    /\ freed' = freed \cup {s}
    /\ aborted' = (aborted \/ s \in threaded \/ iw[s] \notin {"none", "joined"})
    /\ spc' = [spc EXCEPT ![t] = "idle"]
    /\ tgt' = [tgt EXCEPT ![t] = Agent]
    /\ UNCHANGED <<identVars, listed, pad, mine, pub, stopping, ready, wpc,
                   backendVars, lockVars, exports, reaps, agentVars, todo>>

StopStep(t) == \/ StopTake(t) \/ StopUnexport(t) \/ StopBackend(t)
               \/ StopJoinThreads(t) \/ StopJoinInput(t) \/ StopJoinWorker(t)

----------------------------------------------------------------------------
(* The agent loop, run_agent.                                              *)

Buses(S) == {bus[s] : s \in S}

NoBuses == {}
Ordinals == listed
\* The busids stop_all_bridge_sessions collects.
AllBuses == Buses(listed)

\* The loop's head: leave through stop_all_bridge_sessions when g_stop is set,
\* else swap the reap requests out and stop each.
AgentTop ==
    /\ apc = "top" /\ StopsDone(Agent) /\ gmx = Free
    /\ \/ /\ quit
          /\ todo' = [todo EXCEPT ![Agent] = AllBuses]
          /\ apc' = "shutdown"
          /\ UNCHANGED reaps
       \/ /\ ~quit
          /\ todo' = [todo EXCEPT ![Agent] = reaps]
          /\ reaps' = {}
          /\ apc' = "drain"
    /\ UNCHANGED <<identVars, listed, freed, pad, mine, pub, stopping, ready, wpc,
                   backendVars, lockVars, exports, req, targets, dirty, quit,
                   spc, tgt, aborted>>

\* The drain is over (sweep_bridge_sessions only logs):
\* apply_pending_config_to_sessions takes the list's mutex if a change is due.
AgentApply ==
    /\ apc = "drain" /\ StopsDone(Agent)
    /\ \/ /\ dirty /\ gmx = Free
          /\ dirty' = FALSE /\ gmx' = Agent /\ apc' = "snapshot"
       \/ /\ ~dirty
          /\ apc' = "select"
          /\ UNCHANGED <<dirty, gmx>>
    /\ UNCHANGED <<identVars, listed, freed, pad, mine, pub, stopping, ready, wpc,
                   backendVars, smx, exports, reaps, req, targets, quit,
                   stopVars, aborted>>

\* It copies the backend pointers of the ready sessions, each under that
\* session's mutex, and lets the list go.
AgentSnapshot ==
    LET live == {s \in listed : s \in made /\ s \in ready /\ s \notin stopping}
    IN
    /\ apc = "snapshot"
    /\ \A s \in live : smx[s] = Free
    /\ targets' = live
    /\ gmx' = Free /\ apc' = "push"
    /\ UNCHANGED <<identVars, listed, freed, pad, mine, pub, stopping, ready, wpc,
                   backendVars, smx, exports, reaps, req, dirty, quit,
                   stopVars, aborted>>

\* The sweep has gone through every backend it copied.
SweepDone == targets = {}

\* The settings are sent to one backend after the other through the pointers.
AgentPush ==
    /\ apc = "push"
    /\ \/ \E s \in targets : targets' = targets \ {s} /\ UNCHANGED apc
       \/ SweepDone /\ apc' = "select" /\ UNCHANGED targets
    /\ UNCHANGED <<identVars, listed, freed, pad, mine, pub, stopping, ready, wpc,
                   backendVars, lockVars, exports, reaps, req, dirty, quit,
                   stopVars, aborted>>

\* select() times out, or serves a request that touches no session.
AgentIdle ==
    /\ apc = "select"
    /\ apc' = "top"
    /\ UNCHANGED <<identVars, listed, freed, pad, mine, pub, stopping, ready, wpc,
                   backendVars, lockVars, exports, reaps, req, targets, dirty,
                   quit, stopVars, aborted>>

\* BRIDGE_STOP b, or RESTART (every session).
AgentStopCommand ==
    /\ apc = "select" /\ gmx = Free
    /\ \E B \in {{b} : b \in BusId} \cup {AllBuses} :
         todo' = [todo EXCEPT ![Agent] = B]
    /\ apc' = "top"
    /\ UNCHANGED <<identVars, listed, freed, pad, mine, pub, stopping, ready, wpc,
                   backendVars, lockVars, exports, reaps, req, targets, dirty,
                   quit, spc, tgt, aborted>>

\* BRIDGE_START b p begins by draining the reap requests.
AgentStartCommand ==
    /\ apc = "select" /\ born < MaxSession
    /\ \E b \in BusId, p \in Port : req' = [bus |-> b, port |-> p]
    /\ todo' = [todo EXCEPT ![Agent] = reaps]
    /\ reaps' = {}
    /\ apc' = "start"
    /\ UNCHANGED <<identVars, listed, freed, pad, mine, pub, stopping, ready, wpc,
                   backendVars, lockVars, exports, targets, dirty, quit, spc,
                   tgt, aborted>>

NoneOn(p) == {}
\* The first session in the list that holds port p.
StaleOn(p) == {s \in listed : port[s] = p /\ \A u \in listed : port[u] = p => s <= u}

\* A listed busid is a duplicate; else the first session on that port goes.
AgentDedupe ==
    /\ apc = "start" /\ StopsDone(Agent) /\ gmx = Free
    /\ \/ /\ req.bus \in Buses(listed)
          /\ apc' = "top"
          /\ UNCHANGED todo
       \/ /\ req.bus \notin Buses(listed)
          /\ todo' = [todo EXCEPT ![Agent] = Buses(StaleOn(req.port))]
          /\ apc' = "evict"
    /\ UNCHANGED <<identVars, listed, freed, pad, mine, pub, stopping, ready, wpc,
                   backendVars, lockVars, exports, reaps, req, targets, dirty,
                   quit, spc, tgt, aborted>>

\* With the stale session stopped: check the busid again, create the session
\* with the next ordinal and start its worker.
AgentCreate ==
    LET s == born + 1 IN
    /\ apc = "evict" /\ StopsDone(Agent) /\ gmx = Free
    /\ apc' = "top"
    /\ \/ /\ req.bus \in Buses(listed)
          /\ UNCHANGED <<born, listed, bus, port, wpc>>
       \/ /\ req.bus \notin Buses(listed) /\ s \in Session
          /\ born' = s
          /\ listed' = listed \cup {s}
          /\ bus' = [bus EXCEPT ![s] = req.bus]
          /\ port' = [port EXCEPT ![s] = req.port]
          /\ wpc' = [wpc EXCEPT ![s] = "load"]
    /\ UNCHANGED <<freed, pad, mine, pub, stopping, ready, backendVars, lockVars,
                   exports, reaps, req, targets, dirty, quit, stopVars,
                   aborted>>

\* run_agent returns once stop_all has: the server and its exports go.
AgentExit ==
    /\ apc = "shutdown" /\ StopsDone(Agent)
    /\ apc' = "exited"
    /\ exports' = [b \in BusId |-> Agent]
    /\ UNCHANGED <<identVars, listed, freed, pad, mine, pub, stopping, ready, wpc,
                   backendVars, lockVars, reaps, req, targets, dirty, quit,
                   stopVars, aborted>>

AgentStep == \/ AgentTop \/ AgentApply \/ AgentSnapshot \/ AgentPush
             \/ AgentIdle \/ AgentDedupe \/ AgentCreate \/ AgentExit

AgentCommand == AgentStopCommand \/ AgentStartCommand

----------------------------------------------------------------------------
(* bridge_session_worker, the worker of session s.                         *)

\* A map or profile that does not load ends the worker.  Else, under the
\* session's mutex: return if stopping, or store the backend.
WorkerMake(s) ==
    /\ wpc[s] = "load" /\ smx[s] = Free
    /\ \/ /\ s \in stopping \/ "fault" \in Happens
          /\ wpc' = [wpc EXCEPT ![s] = "done"]
          /\ UNCHANGED made
       \/ /\ s \notin stopping
          /\ made' = made \cup {s}
          /\ wpc' = [wpc EXCEPT ![s] = "bind"]
    /\ UNCHANGED <<identVars, listed, freed, pad, mine, pub, stopping, ready,
                   listening, connected, running, threaded, rd, iw, lockVars,
                   exports, reaps, agentVars, stopVars, aborted>>

\* An error is noted in the session, under its mutex, before the worker ends.
\* BridgeBackend::start opens its listener (or fails), without the mutex.
WorkerBind(s) ==
    /\ wpc[s] = "bind"
    /\ \/ /\ listening' = listening \cup {s}
          /\ wpc' = [wpc EXCEPT ![s] = "accept"]
       \/ /\ "fault" \in Happens /\ smx[s] = Free
          /\ wpc' = [wpc EXCEPT ![s] = "done"]
          /\ UNCHANGED listening
    /\ UNCHANGED <<identVars, listed, freed, pad, mine, pub, stopping, ready, made,
                   connected, running, threaded, rd, iw, lockVars, exports, reaps,
                   agentVars, stopVars, aborted>>

\* accept_client(initial): the TV connects and says HELLO with its serial.
WorkerAccept(s) ==
    /\ wpc[s] = "accept" /\ s \in listening
    /\ connected' = connected \cup {s}
    /\ \E p \in PadsOf[s] : pad' = [pad EXCEPT ![s] = p]
    /\ wpc' = [wpc EXCEPT ![s] = "start"]
    /\ UNCHANGED <<identVars, listed, freed, mine, pub, stopping, ready, made,
                   listening, running, threaded, rd, iw, lockVars, exports, reaps,
                   agentVars, stopVars, aborted>>

\* The wait runs out, the handshake fails, or stop() has closed the listener.
WorkerAcceptFails(s) ==
    /\ wpc[s] = "accept" /\ smx[s] = Free
    /\ wpc' = [wpc EXCEPT ![s] = "done"]
    /\ UNCHANGED <<identVars, listed, freed, pad, mine, pub, stopping, ready,
                   backendVars, lockVars, exports, reaps, agentVars, stopVars,
                   aborted>>

\* The end of start(): running_ is set and both threads are created, whether
\* or not stop() has run in the meantime.  After a quit the input worker ends
\* at its first look.
WorkerStart(s) ==
    /\ wpc[s] = "start"
    /\ running' = running \cup {s}
    /\ threaded' = threaded \cup {s}
    /\ rd' = [rd EXCEPT ![s] = "reading"]
    /\ iw' = [iw EXCEPT ![s] = IF quit THEN "gone" ELSE "up"]
    /\ wpc' = [wpc EXCEPT ![s] = "attach"]
    /\ UNCHANGED <<identVars, listed, freed, pad, mine, pub, stopping, ready, made,
                   listening, connected, lockVars, exports, reaps, agentVars,
                   stopVars, aborted>>

\* The profile is settled and attach_backend called; a failure stops the
\* backend from this thread.
WorkerAttach(s) ==
    /\ wpc[s] = "attach"
    /\ \/ wpc' = [wpc EXCEPT ![s] = "export"]
       \/ /\ "fault" \in Happens /\ smx[s] = Free
          /\ wpc' = [wpc EXCEPT ![s] = "unwind"]
    /\ UNCHANGED <<identVars, listed, freed, pad, mine, pub, stopping, ready,
                   backendVars, lockVars, exports, reaps, agentVars, stopVars,
                   aborted>>

\* backendPtr->stop() on the worker's own error path, without the mutex.
WorkerUnwind(s) ==
    /\ wpc[s] = "unwind"
    /\ running' = running \ {s}
    /\ connected' = connected \ {s}
    /\ listening' = listening \ {s}
    /\ wpc' = [wpc EXCEPT ![s] = "unwindJoin"]
    /\ UNCHANGED <<identVars, listed, freed, pad, mine, pub, stopping, ready, made,
                   threaded, rd, iw, lockVars, exports, reaps, agentVars, stopVars,
                   aborted>>

WorkerUnwindJoin(s) ==
    /\ wpc[s] = "unwindJoin"
    /\ s \in threaded => rd[s] = "gone"
    /\ threaded' = threaded \ {s}
    /\ InputNotified(s)
    /\ wpc' = [wpc EXCEPT ![s] = "unwindInput"]
    /\ aborted' \in {FALSE, JoinedTwice(s)}
    /\ UNCHANGED <<identVars, listed, freed, pad, mine, pub, stopping, ready, made,
                   listening, connected, running, rd, lockVars, exports,
                   reaps, agentVars, stopVars>>

WorkerUnwindInput(s) ==
    /\ wpc[s] = "unwindInput"
    /\ InputJoins(s)
    /\ wpc' = [wpc EXCEPT ![s] = "done"]
    /\ aborted' \in {FALSE, JoinedTwice(s)}
    /\ UNCHANGED <<identVars, listed, freed, pad, mine, pub, stopping, ready, made,
                   listening, connected, running, threaded, rd, lockVars,
                   exports, reaps, agentVars, stopVars>>

\* CtmUsbipServer::add_device; stopping is not looked at.  A pad without a
\* serial then skips the search for an older session of the same controller.
WorkerExport(s) ==
    /\ wpc[s] = "export"
    /\ exports' = [exports EXCEPT ![bus[s]] = s]
    /\ mine' = [mine EXCEPT ![s] = pad[s]]
    /\ wpc' = [wpc EXCEPT ![s] = IF pad[s] = NoPad THEN "link" ELSE "lock"]
    /\ UNCHANGED <<identVars, listed, freed, pad, pub, stopping, ready,
                   backendVars, lockVars, reaps, agentVars, stopVars, aborted>>

\* The search takes the list's mutex, and under it each session's in turn.
WorkerLock(s) ==
    /\ wpc[s] = "lock" /\ gmx = Free
    /\ gmx' = s
    /\ wpc' = [wpc EXCEPT ![s] = "scan"]
    /\ UNCHANGED <<identVars, listed, freed, pad, mine, pub, stopping, ready,
                   backendVars, smx, exports, reaps, agentVars, stopVars,
                   aborted>>

Others(s) == {o \in listed : bus[o] # bus[s]}

OlderByLiveSerial(s) == {o \in Others(s) : pad[o] = mine[s]}
\* Sessions that have published this pad's serial are to be retired.
Older(s) == {o \in Others(s) : pub[o] = mine[s]}

StillLocked == gmx
\* The list's mutex is let go before the older sessions are stopped.
Unlocked == Free

WorkerScan(s) ==
    /\ wpc[s] = "scan"
    /\ \A o \in Others(s) : smx[o] = Free
    /\ todo' = [todo EXCEPT ![s] = Buses(Older(s))]
    /\ gmx' = Unlocked
    /\ wpc' = [wpc EXCEPT ![s] = "retire"]
    /\ UNCHANGED <<identVars, listed, freed, pad, mine, pub, stopping, ready,
                   backendVars, smx, exports, reaps, agentVars, spc, tgt,
                   aborted>>

\* stop_bridge_session has returned for each of them (StopStep(s)).
WorkerRetired(s) ==
    /\ wpc[s] = "retire" /\ StopsDone(s)
    /\ wpc' = [wpc EXCEPT ![s] = "link"]
    /\ UNCHANGED <<identVars, listed, freed, pad, mine, pub, stopping, ready,
                   backendVars, lockVars, exports, reaps, agentVars, stopVars,
                   aborted>>

\* Under the session's mutex: publish the serial, link the config, and keep
\* the mutex over the gyro calibration's round trip to the TV.
WorkerLink(s) ==
    /\ wpc[s] = "link" /\ smx[s] = Free
    /\ smx' = [smx EXCEPT ![s] = s]
    /\ pub' = [pub EXCEPT ![s] = pad[s]]
    /\ wpc' = [wpc EXCEPT ![s] = "fetch"]
    /\ UNCHANGED <<identVars, listed, freed, pad, mine, stopping, ready, backendVars,
                   gmx, exports, reaps, agentVars, stopVars, aborted>>

\* The reply arrives or its timeout passes; ready is set, the first settings
\* are sent and the local usbip client is told to attach.
WorkerReady(s) ==
    /\ wpc[s] = "fetch"
    /\ smx' = [smx EXCEPT ![s] = Free]
    /\ ready' = ready \cup {s}
    /\ wpc' = [wpc EXCEPT ![s] = "done"]
    /\ UNCHANGED <<identVars, listed, freed, pad, mine, pub, stopping,
                   backendVars, gmx, exports, reaps, agentVars, stopVars,
                   aborted>>

WorkerStep(s) ==
    \/ WorkerMake(s) \/ WorkerBind(s) \/ WorkerAcceptFails(s)
    \/ WorkerStart(s) \/ WorkerAttach(s) \/ WorkerUnwind(s)
    \/ WorkerUnwindJoin(s) \/ WorkerUnwindInput(s)
    \/ WorkerExport(s) \/ WorkerLock(s) \/ WorkerScan(s) \/ WorkerRetired(s)
    \/ WorkerLink(s) \/ WorkerReady(s)

----------------------------------------------------------------------------
(* reader_loop, the reader thread of session s's backend.                  *)

\* recv fails: the TV dropped the connection, or stop() closed the socket.
ReaderLost(s) ==
    /\ rd[s] = "reading" /\ ("loss" \in Happens \/ s \notin connected)
    /\ connected' = connected \ {s}
    /\ rd' = [rd EXCEPT ![s] = "grace"]
    /\ UNCHANGED <<identVars, listed, freed, pad, mine, pub, stopping, ready, wpc,
                   made, listening, running, threaded, iw, lockVars, exports,
                   reaps, agentVars, stopVars, aborted>>

\* accept_client(false): a TV connects within the grace, maybe with another
\* controller; without a serial in its HELLO the earlier one stands.
ReaderReconnect(s) ==
    /\ rd[s] = "grace" /\ s \in listening /\ s \in running /\ ~quit
    /\ connected' = connected \cup {s}
    /\ \E p \in (PadsOf[s] \ {NoPad}) \cup {pad[s]} :
         pad' = [pad EXCEPT ![s] = p]
    /\ rd' = [rd EXCEPT ![s] = "reading"]
    /\ UNCHANGED <<identVars, listed, freed, mine, pub, stopping, ready, wpc, made,
                   listening, running, threaded, iw, lockVars, exports, reaps,
                   agentVars, stopVars, aborted>>

\* The grace runs out, or the listener or running_ is gone.
ReaderGivesUp(s) ==
    /\ rd[s] = "grace"
    /\ rd' = [rd EXCEPT ![s] = "firing"]
    /\ UNCHANGED <<identVars, listed, freed, pad, mine, pub, stopping, ready, wpc,
                   made, listening, connected, running, threaded, iw, lockVars,
                   exports, reaps, agentVars, stopVars, aborted>>

\* The idle rule: a pad that has been silent too long counts as gone.
ReaderIdles(s) ==
    /\ rd[s] = "reading" /\ s \in running /\ ~quit /\ "loss" \in Happens
    /\ connected' = connected \ {s}
    /\ rd' = [rd EXCEPT ![s] = "firing"]
    /\ UNCHANGED <<identVars, listed, freed, pad, mine, pub, stopping, ready, wpc,
                   made, listening, running, threaded, iw, lockVars, exports,
                   reaps, agentVars, stopVars, aborted>>

ReapLost(s) == {}
\* The request the closed callback makes, unless stopped.
ReapFor(s) == IF s \in running /\ ~quit THEN {bus[s]} ELSE {}

\* fire_closed_callback: ask the agent loop for a reap.
ReaderFires(s) ==
    /\ rd[s] = "firing"
    /\ reaps' = reaps \cup ReapFor(s)
    /\ rd' = [rd EXCEPT ![s] = "gone"]
    /\ UNCHANGED <<identVars, listed, freed, pad, mine, pub, stopping, ready, wpc,
                   made, listening, connected, running, threaded, iw, lockVars,
                   exports, agentVars, stopVars, aborted>>

\* The loop's head sees running_ cleared or g_stop set.
ReaderQuits(s) ==
    /\ rd[s] = "reading" /\ (s \notin running \/ quit)
    /\ rd' = [rd EXCEPT ![s] = "gone"]
    /\ UNCHANGED <<identVars, listed, freed, pad, mine, pub, stopping, ready, wpc,
                   made, listening, connected, running, threaded, iw, lockVars,
                   exports, reaps, agentVars, stopVars, aborted>>

ReaderStep(s) == \/ ReaderGivesUp(s) \/ ReaderFires(s) \/ ReaderQuits(s)
                 \/ ReaderLost(s) \/ ReaderReconnect(s) \/ ReaderIdles(s)

\* What a reader does whatever its TV does: recv returns on a closed socket,
\* the wait for a reconnect ends, and the callback is called.
ReaderProgress(s) ==
    \/ ReaderGivesUp(s) \/ ReaderFires(s)
    \/ s \notin connected /\ (ReaderQuits(s) \/ ReaderLost(s))

----------------------------------------------------------------------------
(* input_worker_loop, the input worker of session s's backend.  It may be  *)
(* in the callback, which takes the list's mutex (ctm_ordinal_for_device): *)
(* that it gets on needs the mutex free.                                   *)

StillOn(s) == s \in running /\ ~quit

\* A stop() waits for it in join().
Awaited(s) ==
    \/ wpc[s] = "unwindInput"
    \/ \E t \in Thread : spc[t] = "joinInput" /\ tgt[t] = s

\* The loop's head or the predicate of its wait, with no report queued: it leaves
\* the loop, ...
InputEnds(s) ==
    /\ iw[s] = "up" /\ Awaited(s) /\ ~StillOn(s)
    /\ iw' = [iw EXCEPT ![s] = "gone"]
    /\ UNCHANGED <<identVars, listed, freed, pad, mine, pub, stopping, ready, wpc,
                   made, listening, connected, running, threaded, rd, lockVars,
                   exports, reaps, agentVars, stopVars, aborted>>

\* ... or waits, for start() has set running_ since.
InputSleeps(s) ==
    /\ iw[s] = "up" /\ Awaited(s) /\ StillOn(s)
    /\ iw' = [iw EXCEPT ![s] = "asleep"]
    /\ UNCHANGED <<identVars, listed, freed, pad, mine, pub, stopping, ready, wpc,
                   made, listening, connected, running, threaded, rd, lockVars,
                   exports, reaps, agentVars, stopVars, aborted>>

\* The reader has queued a report.
InputWakes(s) ==
    /\ iw[s] = "asleep" /\ rd[s] = "reading"
    /\ iw' = [iw EXCEPT ![s] = "up"]
    /\ UNCHANGED <<identVars, listed, freed, pad, mine, pub, stopping, ready, wpc,
                   made, listening, connected, running, threaded, rd, lockVars,
                   exports, reaps, agentVars, stopVars, aborted>>

InputStep(s) == InputEnds(s) \/ InputSleeps(s) \/ InputWakes(s)

\* What it does whatever its TV sends.
InputProgress(s) == gmx = Free /\ (InputEnds(s) \/ InputSleeps(s))

----------------------------------------------------------------------------
(* The watcher sees a config file change; the person quits the agent.      *)

ConfigChanges ==
    /\ "config" \in Happens /\ ~dirty /\ dirty' = TRUE
    /\ UNCHANGED <<identVars, listed, freed, pad, mine, pub, stopping, ready, wpc,
                   backendVars, lockVars, exports, reaps, apc, req, targets,
                   quit, stopVars, aborted>>

QuitRequested ==
    /\ "quit" \in Happens /\ ~quit /\ quit' = TRUE
    /\ UNCHANGED <<identVars, listed, freed, pad, mine, pub, stopping, ready, wpc,
                   backendVars, lockVars, exports, reaps, apc, req, targets,
                   dirty, stopVars, aborted>>

\* stop() has notified an input worker that sleeps all the same: the notify fell
\* between its look at running_ and its sleep, or start() has set running_ again
\* after stop() cleared it.  Nobody else will wake it.
NeverWoken == \E s \in Session : iw[s] = "asleep" /\ Awaited(s)

\* run_agent has returned, the process is gone, or everyone may be waiting for a
\* stop that waits for such a worker: nothing more needs to happen.
Ended == (aborted \/ apc = "exited" \/ NeverWoken) /\ UNCHANGED vars

Next ==
    \/ /\ ~aborted /\ apc # "exited"
       /\ \/ AgentStep \/ AgentCommand \/ ConfigChanges \/ QuitRequested
          \/ \E t \in Thread : StopStep(t)
          \/ \E s \in Session : WorkerStep(s) \/ WorkerAccept(s) \/ ReaderStep(s)
                                \/ InputStep(s)
    \/ Ended

Spec == Init /\ [][Next]_vars

\* Threads run: the loop's, each worker's, reader's, input worker's, and the timeouts
\* that bound every wait (accept 30 s, grace 15 s, select 1 s).  TVs, people
\* and files promise nothing.
Fairness ==
    /\ WF_vars(~aborted /\ AgentStep)
    /\ \A t \in Thread : WF_vars(~aborted /\ StopStep(t))
    /\ \A s \in Session : /\ WF_vars(~aborted /\ WorkerStep(s))
                          /\ WF_vars(~aborted /\ ReaderProgress(s))
                          /\ WF_vars(~aborted /\ InputProgress(s))
FairSpec == Spec /\ Fairness
----------------------------------------------------------------------------
(* Properties.                                                             *)

\* At most one listed session holds a bridge port, and at most one a busid:
\* what start_bridge_session's stale check is for.
OneSessionPerPort ==
    \A s, u \in listed : s # u => port[s] # port[u] /\ bus[s] # bus[u]

\* Whatever the interleaving, no session is torn down by two threads at once:
\* two stop_bridge_session calls never move the same session out of the list.
StopIsExclusive ==
    \A t, u \in Thread :
        spc[t] # "idle" /\ spc[u] # "idle" /\ tgt[t] = tgt[u] => t = u

\* No session has two owners: not of its port or busid, and not of its teardown.
SessionsApart == OneSessionPerPort /\ StopIsExclusive

\* A worker that retires another session joins that session's worker.  The
\* joins never close a circle: a worker under retirement by another worker is
\* a younger session, or has finished retiring sessions itself.
RetirementAscends ==
    \A t \in Session :
        spc[t] # "idle" =>
            \/ t < tgt[t]
            \/ spc[tgt[t]] = "idle" /\ todo[tgt[t]] = {}

\* The session object outlives its worker, which works through a raw pointer.
WorkerNeverOutlivesSession ==
    \A s \in freed : wpc[s] = "done" /\ s \notin listed

\* When run_agent returns, every session it ever started has been torn down
\* and its worker joined, those a worker was retiring at that moment too.
NothingOutlivesAgent ==
    apc = "exited" => freed = 1..born

\* The config sweep uses backend pointers it copied under the list's mutex
\* after letting the mutex go: none may be freed before it is done with it.
SweepTargetsAlive == targets \cap freed = {}

\* A busid in the reap queue is there for the session that lost its TV, never
\* for a later session that took the same busid.
ReapFindsItsSession ==
    \A b \in reaps : \A s \in listed : bus[s] = b => rd[s] = "gone"

\* Two listeners on one port steal each other's connections.
OneListenerPerPort ==
    \A s, u \in listening : s # u => port[s] # port[u]

\* A busid is exported only for a session that still exists.
NoStaleExport == \A b \in BusId : exports[b] \notin freed

\* A teardown never destroys a backend that still has threads to join.
NeverTerminates == ~aborted

\* Two bridges to one physical controller: once both are ready, one of them
\* is being retired.
OneSessionPerPad ==
    \A s, u \in listed \cap ready :
        s # u /\ pub[s] = pub[u] /\ pub[s] # NoPad => pad[s] # pad[u]

\* Only an older session is retired in favour of a newer one.
RetiresOnlyOlder ==
    \A t \in Session : spc[t] # "idle" => tgt[t] < t

\* A session whose worker has returned holds no listener unless its backend's
\* reader is there to serve it: accept_client's bounded waits are for that.
NoParkedListener ==
    \A s \in listening : wpc[s] = "done" => s \in threaded

\* A TV has connected to a session after the stop under way closed its sockets:
\* that stop waits for the TV to leave.
Reconnected ==
    \E t \in Thread :
        spc[t] \in {"joinThreads", "joinInput", "joinWorker"} /\ tgt[t] \in connected

\* The two ways a join of stop() may last for ever.
JoinHangs == Reconnected \/ NeverWoken

\* Every stop_bridge_session call returns.
StopFinishes ==
    \A t \in Thread : spc[t] # "idle" ~> (spc[t] = "idle" \/ aborted)

\* ... or at least unless a TV has connected behind its back.
StopFinishesUnlessReconnected ==
    \A t \in Thread :
        spc[t] # "idle" ~> (spc[t] = "idle" \/ aborted \/ Reconnected)

\* The joins of one stop may wait for another stop, for a round trip to the TV,
\* for a reader's callback or for an input worker that waits for the list's mutex,
\* but never for each other: every call returns, unless a TV has connected behind
\* its back or its input worker is never woken.
StopFinishesUnlessJoinHangs ==
    \A t \in Thread :
        spc[t] # "idle" ~> (spc[t] = "idle" \/ aborted \/ JoinHangs)

\* A session whose TV is lost for good leaves the list: its reader's request
\* is not lost between the reader, the queue and the loop.
LostSessionsReaped ==
    \A s \in Session :
        rd[s] = "gone" /\ s \in listed ~> (s \notin listed \/ aborted \/ JoinHangs)

\* Once asked to stop, the agent's loop returns, whatever its workers do, unless
\* it waits in a join that hangs.
QuitReturns == quit ~> (apc = "exited" \/ aborted \/ JoinHangs)
=============================================================================
