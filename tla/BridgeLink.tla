----------------------------- MODULE BridgeLink -----------------------------
(***************************************************************************)
(* The link of a bridge backend to its TV (src/src/backend/bridge.inl)     *)
(* once start() has succeeded: the reader with its reconnects, send_message*)
(* under sendMutex_, the feature requests of remote_feature and            *)
(* remote_interface_feature, and the host config that is sent at every     *)
(* handshake and pushed again with a session's own settings, by its worker *)
(* (app/agent.inl) and by the config sweep (app/agent_session_sweep.inl).  *)
(*                                                                         *)
(* A connection is its number; clientSocket_ is that number, or 0 for      *)
(* INVALID_SOCKET.  The number of a closed socket is not used again, though*)
(* Windows may do so.  A wait on featureCv_ ends at its timeout at the     *)
(* latest, so a missed notify only delays it and notifies are left out. An *)
(* operator no action uses is a plausible mistake in the one below it.     *)
(***************************************************************************)
EXTENDS Naturals, FiniteSets

CONSTANTS Caller,       \* threads that execute feature actions
          Reader,       \* the reader's thread
          Worker, Sweep,   \* the threads that push settings
          NoThread,
          Interface,    \* interface numbers of a composite device
          NoInterface,  \* a request for the pad as a whole
          Ids,          \* 2^24: request numbers an interface request can carry
          Unset,        \* kLatencyUnset and kAudioUnset
          Zero,         \* the all-zero triple of a config nobody filled in
          Shared,       \* audio_latency_ms of the shared section, or Unset
          MaxCall,      \* bound: feature requests
          MaxConn,      \* bound: connections
          MaxChange     \* bound: settings the session is given, one after another

Pusher == {Worker, Sweep}
Thread == Caller \cup Pusher \cup {Reader}

ASSUME LinkAssumption ==
    /\ {Reader, Worker, Sweep} \cap Caller = {}
    /\ Worker # Sweep /\ Reader \notin Pusher /\ NoThread \notin Thread
    /\ Interface \subseteq Nat /\ NoInterface \notin Interface
    /\ Ids \in Nat \ {0} /\ MaxCall \in Nat /\ MaxConn \in Nat \ {0}
    /\ MaxChange \in Nat \ {0} /\ MaxCall < Ids
    /\ Unset # Zero /\ {Unset, Zero} \cap (1..MaxChange) = {}
    /\ Shared # Zero

Call == 1..MaxCall
Conn == 1..MaxConn
Latency == (1..MaxChange) \cup {Unset, Shared}
Audio   == (1..MaxChange) \cup {Unset, Zero}
Config  == [latency : Latency, audio : Audio]

VARIABLES
    sock,      \* clientSocket_
    conns,     \* connections accepted so far
    peer,      \* whether the TV still holds the latest one
    rd,        \* where the reader is
    running,   \* running_
    quit,      \* g_stop
    sender,    \* who holds sendMutex_
    via,       \* by thread, the socket its send_message loaded
    calls,     \* nextRequestId_
    cpc,       \* by caller, where it is in remote_feature
    call,      \* by caller, its request's number
    kind,      \* by caller, the interface it asks
    fmx,       \* who holds featureMutex_
    asked,     \* requests the TV has and has not answered
    replies,   \* featureReplies_
    given,     \* history: the last call that succeeded, and the call whose reply it had
    last,      \* lastHostConfig_
    tv,        \* the settings the TV holds
    wanted,    \* the session's own settings, as configured
    changes,
    todo,      \* pushers with a push to do
    ppc,       \* by pusher, where it is
    want,      \* by pusher, the settings it read
    msg,       \* by pusher, the config it is about to send
    disturbed  \* history: since the last push began alone, another one began
               \* beside it or the TV came back

connVars == <<sock, conns, peer, rd, running, quit>>
sendVars == <<sender, via>>
callVars == <<calls, cpc, call, kind, fmx, asked, replies, given>>
pushVars == <<wanted, changes, todo, ppc, want, msg>>
confVars == <<last, tv, disturbed>>
vars     == <<connVars, sendVars, callVars, pushVars, confVars>>

NumberOf(k, n) == IF k = NoInterface THEN n ELSE (k * Ids) + (n % Ids)
\* requestId; the interface, if there is one, is in the high byte.
IdOf(c) == NumberOf(kind[c], call[c])

TypeOK ==
    /\ conns \in Conn /\ sock \in {0, conns}
    /\ rd \in {"recv", "accept", "hello", "config", "keep", "done"}
    /\ {peer, running, quit, disturbed} \subseteq BOOLEAN
    /\ sender \in Thread \cup {NoThread} /\ via \in [Thread -> 0..conns]
    /\ calls \in 0..MaxCall /\ call \in [Caller -> 0..calls]
    /\ cpc \in [Caller -> {"idle", "send", "wait", "woken", "astray"}]
    /\ kind \in [Caller -> Interface \cup {NoInterface}]
    /\ fmx \in Caller \cup {NoThread}
    /\ asked \subseteq [id : Nat, call : Call]
    /\ replies \subseteq [id : Nat, call : Call]
    /\ given \in [of : 0..MaxCall, with : 0..MaxCall]
    /\ {last, tv, wanted} \subseteq Config
    /\ changes \in 1..MaxChange /\ todo \subseteq Pusher
    /\ ppc \in [Pusher -> {"idle", "latency", "sendLatency", "keepLatency",
                           "audio", "sendAudio", "keepAudio"}]
    /\ want \in [Pusher -> Config] /\ msg \in [Pusher -> Config]

\* accept_client's host config: the session's own settings are not known here,
\* and the audio triple is not filled in.
Handshake == [latency |-> Shared, audio |-> Zero]

\* The TV keeps what it has where a config says nothing.
Applied(m) == [latency |-> IF m.latency = Unset THEN tv.latency ELSE m.latency,
               audio |-> IF m.audio \in {Unset, Zero} THEN tv.audio ELSE m.audio]

Init ==
    /\ sock = 1 /\ conns = 1 /\ peer = TRUE
    /\ rd = "recv" /\ running = TRUE /\ quit = FALSE
    /\ sender = NoThread /\ via = [t \in Thread |-> 0]
    /\ calls = 0 /\ cpc = [c \in Caller |-> "idle"] /\ call = [c \in Caller |-> 0]
    /\ kind = [c \in Caller |-> NoInterface]
    /\ fmx = NoThread /\ asked = {} /\ replies = {}
    /\ given = [of |-> 0, with |-> 0]
    /\ last = Handshake /\ tv = [latency |-> Shared, audio |-> Unset]
    /\ wanted \in [latency : {Unset, 1}, audio : {Unset, 1}]
    /\ changes = 1 /\ todo = {Worker}
    /\ ppc = [p \in Pusher |-> "idle"]
    /\ want = [p \in Pusher |-> wanted] /\ msg = [p \in Pusher |-> last]
    /\ disturbed = FALSE
----------------------------------------------------------------------------
(* The connection and the reader.                                          *)

CloseSocket == sock' = 0

\* The TV drops the connection, or its network does.
TvLeaves ==
    /\ peer /\ peer' = FALSE
    /\ UNCHANGED <<sock, conns, rd, running, quit, sendVars, callVars, pushVars, confVars>>

\* recv_message fails: the socket is gone, or the TV is.
ReaderLost ==
    /\ rd = "recv" /\ (sock = 0 \/ ~peer)
    /\ CloseSocket /\ rd' = "accept"
    /\ UNCHANGED <<conns, peer, running, quit, sendVars, callVars, pushVars, confVars>>

\* accept_client: the TV is back within the grace.
ReaderAccepts ==
    /\ rd = "accept" /\ running /\ ~quit /\ conns < MaxConn
    /\ conns' = conns + 1 /\ sock' = conns + 1 /\ peer' = TRUE
    /\ rd' = "hello" /\ disturbed' = TRUE
    /\ UNCHANGED <<running, quit, sendVars, callVars, pushVars, last, tv>>

\* The grace is over, or a stop is seen; then nothing is read again.
ReaderLeaves ==
    /\ rd \in {"recv", "accept"} /\ rd' = "done"
    /\ rd = "recv" => ~running \/ quit
    /\ UNCHANGED <<sock, conns, peer, running, quit, sendVars, callVars, pushVars, confVars>>

HelloComes ==
    /\ rd = "hello" /\ sock # 0 /\ peer /\ rd' = "config"
    /\ UNCHANGED <<sock, conns, peer, running, quit, sendVars, callVars, pushVars, confVars>>

\* No hello, or a bad one.
HelloFails ==
    /\ rd = "hello" /\ CloseSocket /\ rd' = "accept"
    /\ UNCHANGED <<conns, peer, running, quit, sendVars, callVars, pushVars, confVars>>

ReaderKeeps ==
    /\ rd = "keep" /\ last' = Handshake /\ rd' = "recv"
    /\ UNCHANGED <<sock, conns, peer, running, quit, sendVars, callVars, pushVars, tv, disturbed>>

\* stop(), by another thread: the socket is shut as it stands.
Stops ==
    /\ running /\ running' = FALSE /\ CloseSocket
    /\ UNCHANGED <<conns, peer, rd, quit, sendVars, callVars, pushVars, confVars>>

Quits ==
    /\ ~quit /\ quit' = TRUE
    /\ UNCHANGED <<sock, conns, peer, rd, running, sendVars, callVars, pushVars, confVars>>
----------------------------------------------------------------------------
(* send_message, by any thread: sendMutex_ is taken and the socket loaded, *)
(* then the bytes are sent on what was loaded.                             *)

Sending(t) == sender = t

MayLoad(t) == \/ t = Reader /\ rd = "config"
              \/ t \in Caller /\ cpc[t] = "send"
              \/ t \in Pusher /\ ppc[t] \in {"sendLatency", "sendAudio"}

SendLoads(t) ==
    /\ sender = NoThread /\ MayLoad(t)
    /\ sender' = t /\ via' = [via EXCEPT ![t] = sock]
    /\ UNCHANGED <<connVars, callVars, pushVars, confVars>>

\* The bytes reach the TV.
Arrives(t)  == via[t] # 0 /\ via[t] = sock /\ peer
\* The TV is gone, but the bytes fit the buffer.
Vanishes(t) == via[t] # 0 /\ via[t] = sock /\ ~peer
\* send_all fails, and whatever socket there is now is closed.
Breaks(t)   == ~Arrives(t) /\ sock' = (IF via[t] = 0 THEN sock ELSE 0)

SendEnds == sender' = NoThread /\ via' = [t \in Thread |-> 0]

ReaderSends ==
    /\ Sending(Reader) /\ SendEnds
    /\ \/ Arrives(Reader) /\ tv' = Applied(Handshake) /\ rd' = "keep" /\ UNCHANGED sock
       \/ Vanishes(Reader) /\ rd' = "keep" /\ UNCHANGED <<sock, tv>>
       \/ Breaks(Reader) /\ rd' = "accept" /\ UNCHANGED tv
    /\ UNCHANGED <<conns, peer, running, quit, callVars, pushVars, last, disturbed>>
----------------------------------------------------------------------------
(* Feature requests.                                                       *)

SameNumber == calls
FreshNumber == calls + 1

Ask(c, k) ==
    /\ cpc[c] = "idle" /\ calls < MaxCall
    /\ calls' = calls + 1
    /\ call' = [call EXCEPT ![c] = FreshNumber]
    /\ kind' = [kind EXCEPT ![c] = k]
    /\ cpc' = [cpc EXCEPT ![c] = "send"]
    /\ UNCHANGED <<fmx, asked, replies, given, connVars, sendVars, pushVars, confVars>>

\* The caller returns, and its locals are gone.
Forgets(c) ==
    /\ cpc' = [cpc EXCEPT ![c] = "idle"]
    /\ call' = [call EXCEPT ![c] = 0] /\ kind' = [kind EXCEPT ![c] = NoInterface]

CallSends(c) ==
    /\ Sending(c) /\ SendEnds
    /\ \/ /\ Arrives(c) /\ asked' = asked \cup {[id |-> IdOf(c), call |-> call[c]]}
          /\ cpc' = [cpc EXCEPT ![c] = "wait"] /\ UNCHANGED <<sock, call, kind>>
       \/ /\ Vanishes(c) /\ cpc' = [cpc EXCEPT ![c] = "wait"]
          /\ UNCHANGED <<sock, asked, call, kind>>
       \/ Breaks(c) /\ Forgets(c) /\ UNCHANGED asked
    /\ UNCHANGED <<conns, peer, rd, running, quit, calls, fmx, replies, given,
                   pushVars, confVars>>

\* The TV answers a request when it likes, if it does, and reader_loop keeps
\* the answer for whoever may be waiting.
TvAnswers(r) ==
    /\ r \in asked /\ rd = "recv" /\ sock # 0 /\ peer
    /\ fmx = NoThread
    /\ asked' = asked \ {r}
    /\ replies' = {x \in replies : x.id # r.id} \cup {r}
    /\ UNCHANGED <<calls, cpc, call, kind, fmx, given, connVars, sendVars, pushVars, confVars>>

AnyReply(c) == replies
\* featureReplies_.find.
ReplyTo(c) == {x \in replies : x.id = IdOf(c)}
LinkDown == quit \/ sock = 0

\* The predicate of the wait.
Signaled(c) == ReplyTo(c) # {} \/ LinkDown

\* ... having erased what has its id.
Returns(c) ==
    /\ Forgets(c)
    /\ fmx' = NoThread
    /\ replies' = replies \ ReplyTo(c)
    /\ UNCHANGED <<calls, asked, connVars, sendVars, pushVars, confVars>>

CallWakes(c) ==
    /\ cpc[c] = "wait" /\ fmx = NoThread /\ Signaled(c)
    /\ cpc' = [cpc EXCEPT ![c] = "woken"] /\ fmx' = c
    /\ UNCHANGED <<calls, call, kind, asked, replies, given, connVars, sendVars,
                   pushVars, confVars>>

Never(c) == FALSE
TimedOut(c) == ~Signaled(c)

CallTimesOut(c) ==
    /\ cpc[c] = "wait" /\ fmx = NoThread /\ TimedOut(c)
    /\ Returns(c) /\ UNCHANGED given

\* remote_feature looks at the link again; remote_interface_feature does not.
Refused(c) == kind[c] = NoInterface /\ LinkDown

CallRefused(c) ==
    /\ cpc[c] = "woken"
    /\ Refused(c) \/ (kind[c] # NoInterface /\ ReplyTo(c) = {})
    /\ Returns(c) /\ UNCHANGED given

CallAnswered(c) ==
    /\ cpc[c] = "woken" /\ ~Refused(c)
    /\ \E r \in ReplyTo(c) : given' = [of |-> call[c], with |-> r.call]
    /\ Returns(c)

\* The link is up again and there is no reply: remote_feature reads through the
\* end of the map.  What follows is undefined; here the thread goes no further.
CallAstray(c) ==
    /\ cpc[c] = "woken" /\ kind[c] = NoInterface
    /\ ~LinkDown /\ ReplyTo(c) = {}
    /\ cpc' = [cpc EXCEPT ![c] = "astray"] /\ fmx' = NoThread
    /\ UNCHANGED <<calls, call, kind, asked, replies, given, connVars, sendVars,
                   pushVars, confVars>>

CallStep(c) == \/ CallSends(c) \/ CallWakes(c) \/ CallTimesOut(c)
               \/ CallRefused(c) \/ CallAnswered(c) \/ CallAstray(c)
----------------------------------------------------------------------------
(* The settings.                                                           *)

SettingsChange ==
    /\ changes < MaxChange /\ changes' = changes + 1
    /\ wanted' \in [latency : {Unset, changes + 1}, audio : {Unset, changes + 1}]
    /\ todo' = todo \cup {Sweep}
    /\ UNCHANGED <<ppc, want, msg, connVars, sendVars, callVars, confVars>>

AtWork(p) == ppc[p] # "idle"

PushBegins(p) ==
    /\ p \in todo /\ ~AtWork(p)
    /\ todo' = todo \ {p}
    /\ want' = [want EXCEPT ![p] = wanted]
    /\ ppc' = [ppc EXCEPT ![p] = "latency"]
    /\ disturbed' = (rd # "recv" \/ \E q \in Pusher : AtWork(q))
    /\ UNCHANGED <<wanted, changes, msg, last, tv, connVars, sendVars, callVars>>

\* send_audio_latency and send_audio_settings: a copy of lastHostConfig_ with the
\* one thing changed; what the file does not name is not sent.
PushCopies(p, at, field, send, past) ==
    /\ ppc[p] = at
    /\ IF want[p][field] = Unset
       THEN ppc' = [ppc EXCEPT ![p] = past] /\ UNCHANGED msg
       ELSE /\ ppc' = [ppc EXCEPT ![p] = send]
            /\ msg' = [msg EXCEPT ![p] = [last EXCEPT ![field] = want[p][field]]]
    /\ UNCHANGED <<wanted, changes, todo, want, confVars, connVars, sendVars, callVars>>

PushSends(p, at, keep, past) ==
    /\ Sending(p) /\ ppc[p] = at /\ SendEnds
    /\ \/ /\ Arrives(p) /\ tv' = Applied(msg[p])
          /\ ppc' = [ppc EXCEPT ![p] = keep] /\ UNCHANGED sock
       \/ Vanishes(p) /\ ppc' = [ppc EXCEPT ![p] = keep] /\ UNCHANGED <<sock, tv>>
       \/ Breaks(p) /\ ppc' = [ppc EXCEPT ![p] = past] /\ UNCHANGED tv
    /\ UNCHANGED <<conns, peer, rd, running, quit, wanted, changes, todo, want, msg,
                   last, disturbed, callVars>>

Forgotten(p) == last
\* What is remembered for the next copy.
Remembered(p) == msg[p]

PushKeeps(p, at, past) ==
    /\ ppc[p] = at /\ ppc' = [ppc EXCEPT ![p] = past]
    /\ last' = Remembered(p)
    /\ UNCHANGED <<wanted, changes, todo, want, msg, tv, disturbed, connVars, sendVars, callVars>>

PushStep(p) ==
    \/ PushBegins(p)
    \/ PushCopies(p, "latency", "latency", "sendLatency", "audio")
    \/ PushSends(p, "sendLatency", "keepLatency", "audio")
    \/ PushKeeps(p, "keepLatency", "audio")
    \/ PushCopies(p, "audio", "audio", "sendAudio", "idle")
    \/ PushSends(p, "sendAudio", "keepAudio", "idle")
    \/ PushKeeps(p, "keepAudio", "idle")
----------------------------------------------------------------------------
\* Nothing obliges anybody to do more.
AtRest ==
    /\ \A c \in Caller : cpc[c] \in {"idle", "astray"}
    /\ \A p \in Pusher : ~AtWork(p)
    /\ rd \in {"recv", "done"} /\ UNCHANGED vars

LinkStep == \/ TvLeaves \/ ReaderLost \/ ReaderAccepts \/ ReaderLeaves
            \/ HelloComes \/ HelloFails \/ ReaderSends \/ ReaderKeeps
            \/ Stops \/ Quits

FeatureStep == \/ \E c \in Caller : \/ \E k \in Interface \cup {NoInterface} : Ask(c, k)
                                   \/ CallStep(c)
               \/ \E r \in asked : TvAnswers(r)

SettingsStep == SettingsChange \/ \E p \in Pusher : PushStep(p)

Next == \/ LinkStep \/ FeatureStep \/ SettingsStep
        \/ \E t \in Thread : SendLoads(t)
        \/ AtRest

Spec == Init /\ [][Next]_vars

\* Every thread that has begun a send or a wait is scheduled, sendMutex_ is given
\* to whoever waits for it, and a timed wait times out.
FairSpec ==
    /\ Spec
    /\ \A c \in Caller : WF_vars(CallStep(c)) /\ SF_vars(SendLoads(c))
    /\ \A p \in Pusher : WF_vars(PushStep(p))
    /\ WF_vars(ReaderSends)
----------------------------------------------------------------------------
(* Properties.                                                             *)

\* Whatever timed out, was lost or came late, on this connection or an earlier
\* one, a feature request that succeeds was given the reply to itself.
ReplyIsOwn == given.of = given.with

\* A caller whose reply has come returns with it, unless the link went down or
\* the listener is quitting: the timeout loses to a reply that was in time.
AnswersAreTaken ==
    [][\A c \in Caller :
        cpc[c] \in {"wait", "woken"} /\ cpc'[c] = "idle" /\ ReplyTo(c) # {}
            => given' = [of |-> call[c], with |-> call[c]] \/ LinkDown]_vars

\* The host's control transfer waits for this: a feature request comes back,
\* whether the TV answers, is silent, goes or comes again.  (It may go astray:
\* see CallAstray.)
CallsReturn ==
    \A c \in Caller : cpc[c] # "idle" ~> cpc[c] \in {"idle", "astray"}

\* Every request comes back, and with its reply when that has come in time.
CallsAnswered == AnswersAreTaken /\ CallsReturn

\* When nothing is under way the TV holds the settings the session is configured
\* with, unless two pushes overlapped or the TV came back after the push.
Settled == /\ todo = {} /\ (\A p \in Pusher : ~AtWork(p))
           /\ rd = "recv" /\ sock # 0 /\ peer

Holds(field) == wanted[field] # Unset => tv[field] = wanted[field]

SettingsHeld == Settled /\ ~disturbed => Holds("latency") /\ Holds("audio")

\* A controller's own latency is not put back to the shared section's.
OwnLatencyHeld == Settled => Holds("latency")

\* "this side must never send one by accident": an all-zero audio triple.
NeverSendsZero == last.audio # Zero

\* remote_feature finds the reply it goes on to read.
NeverAstray == \A c \in Caller : cpc[c] # "astray"

\* A reply nobody waits for any more is not kept.
NoReplyLeaks == \A x \in replies : \E c \in Caller : call[c] = x.call /\ cpc[c] # "idle"
============================================================================
