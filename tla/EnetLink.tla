------------------------------ MODULE EnetLink ------------------------------
(***************************************************************************)
(* EnetBridgeBackend (backend/bridge_enet.inl): the same protocol as the   *)
(* TCP backend over ENet.  One service thread owns the host: it accepts,   *)
(* shakes hands, sends what the other threads have queued, takes the       *)
(* host's events one by one, and unplugs the device when the link is lost  *)
(* and plugs it in again when a TV is back.  Callers of remote_feature     *)
(* wait for their answer beside it, and a worker hands the reports on.     *)
(*                                                                         *)
(* ENet itself delivers what is sent, in order, until a disconnect.        *)
(***************************************************************************)
EXTENDS Naturals, Sequences

CONSTANTS MaxLinks,      \* bound: times a TV connects
          MaxAsks,       \* bound: feature requests
          MaxInputs,     \* bound: reports the TV sends
          InputCapacity  \* kInputQueueCapacity

ASSUME EnetAssumption == {MaxLinks, MaxAsks, MaxInputs} \subseteq Nat /\ InputCapacity \in Nat \ {0}

VARIABLES tvSide,         \* the TV: "away", "up", or "hello" when it has said so
          links,      \* times it has connected
          heard,      \* the requests it has got and not answered
          events,     \* what the host has for the service thread
          connected, hasPeer, handshake,
          service,    \* the service thread's next step
          first,      \* accept_client(initial)
          plugged,    \* the export is there
          inQ, outQ,
          waiter,       \* remote_feature: the id it waits for, 0 when there is none
          asks,       \* nextRequestId_
          answers,    \* featureReplies_
          result,     \* history: the answers that were taken, by request
          inputs,     \* reports sent by the TV
          inputQ, handed

enetVars == <<tvSide, links, heard, events, connected, hasPeer, handshake, service, first, plugged,
              inQ, outQ, waiter, asks, answers, result, inputs, inputQ, handed>>
tvVars   == <<tvSide, links, heard, inputs>>
waitVars == <<waiter, asks, answers, result>>
takenVars == <<inputQ, handed>>

EnetInit ==
    /\ tvSide = "away" /\ links = 0 /\ heard = {} /\ inputs = 0 /\ events = <<>>
    /\ connected = FALSE /\ hasPeer = FALSE /\ handshake = FALSE
    /\ service = "accept" /\ first = TRUE /\ plugged = FALSE
    /\ inQ = <<>> /\ outQ = <<>>
    /\ waiter = 0 /\ asks = 0 /\ answers = {} /\ result = <<>>
    /\ inputQ = <<>> /\ handed = <<>>

----------------------------------------------------------------------------
(* The TV.                                                                  *)

Sends(kind, n) == events' = Append(events, [kind |-> kind, n |-> n])
TvRest == UNCHANGED <<connected, hasPeer, handshake, service, first, plugged, inQ, outQ, waitVars, takenVars>>

TvConnects == /\ tvSide = "away" /\ links < MaxLinks /\ links' = links + 1 /\ tvSide' = "up"
              /\ Sends("connect", 0) /\ UNCHANGED <<heard, inputs>> /\ TvRest
TvSaysHello == /\ tvSide = "up" /\ tvSide' = "hello" /\ Sends("hello", 0)
               /\ UNCHANGED <<links, heard, inputs>> /\ TvRest
TvReports == /\ tvSide = "hello" /\ inputs < MaxInputs /\ inputs' = inputs + 1
             /\ Sends("input", inputs + 1) /\ UNCHANGED <<tvSide, links, heard>> /\ TvRest
TvReplies == /\ tvSide = "hello"
             /\ \E n \in heard : heard' = heard \ {n} /\ Sends("answer", n)
             /\ UNCHANGED <<tvSide, links, inputs>> /\ TvRest
TvGoes == /\ tvSide # "away" /\ tvSide' = "away" /\ heard' = {}
           /\ Sends("disconnect", 0) /\ UNCHANGED <<links, inputs>> /\ TvRest

----------------------------------------------------------------------------
(* The service thread.                                                      *)

Serves == UNCHANGED <<tvVars, waitVars, takenVars, outQ>>

\* handle_service_event and ingest_packet.
TakesEvent ==
    /\ events # <<>> /\ events' = Tail(events)
    /\ LET e == Head(events) IN
         CASE e.kind = "connect"    -> connected' = TRUE /\ hasPeer' = TRUE /\ UNCHANGED inQ
           [] e.kind = "disconnect" -> connected' = FALSE /\ hasPeer' = FALSE /\ UNCHANGED inQ
           [] OTHER -> inQ' = Append(inQ, e) /\ UNCHANGED <<connected, hasPeer>>

\* accept_client: everything of the last link is put away but what waits to be sent.
Accepts ==
    /\ service = "accept" /\ service' = "listen"
    /\ connected' = FALSE /\ hasPeer' = FALSE /\ handshake' = FALSE /\ inQ' = <<>>
    /\ UNCHANGED <<events, first, plugged>> /\ Serves

Listens ==
    /\ service = "listen" /\ TakesEvent
    /\ service' = IF connected' THEN "hello" ELSE "listen"
    /\ UNCHANGED <<handshake, first, plugged>> /\ Serves

\* wait_for_message: the host is served while it waits.
WaitsForHello ==
    /\ service = "hello" /\ inQ = <<>> /\ TakesEvent
    /\ UNCHANGED <<handshake, service, first, plugged>> /\ Serves

\* reset_peer.
ResetPeer == connected' = FALSE /\ hasPeer' = FALSE /\ handshake' = FALSE

\* Five seconds without a message, or one that is no hello.  The first time start fails and
\* its session ends; enet_peer_reset has the TV connect again.
EnetHelloFails ==
    /\ service = "hello" /\ IF inQ = <<>> THEN events = <<>> /\ tvSide # "up" ELSE Head(inQ).kind # "hello"
    /\ ResetPeer /\ service' = IF first THEN "failed" ELSE "accept"
    /\ tvSide' = "away" /\ heard' = {} /\ events' = <<>>
    /\ UNCHANGED <<links, inputs, first, plugged, inQ, outQ, waitVars, takenVars>>

\* The answer to a hello is the host's configuration; the link is lost under it if there is
\* no peer.
Configures ==
    /\ service = "hello" /\ inQ # <<>> /\ Head(inQ).kind = "hello" /\ inQ' = Tail(inQ)
    /\ IF hasPeer THEN handshake' = TRUE /\ service' = "plug" /\ UNCHANGED <<connected, hasPeer>>
               ELSE ResetPeer /\ service' = IF first THEN "failed" ELSE "accept"
    /\ UNCHANGED <<events, first, plugged>> /\ Serves

\* The reconnect callback, or the agent after start: the device is exported.
Plugs ==
    /\ service = "plug" /\ service' = "flush" /\ plugged' = TRUE /\ first' = FALSE
    /\ UNCHANGED <<events, connected, hasPeer, handshake, inQ>> /\ Serves

\* flush_outgoing.
Flush ==
    /\ service = "flush" /\ service' = "events" /\ outQ' = <<>>
    /\ heard' = IF hasPeer /\ tvSide = "hello" THEN heard \cup {outQ[i] : i \in DOMAIN outQ} ELSE heard
    /\ UNCHANGED <<tvSide, links, inputs, events, connected, hasPeer, handshake, first, plugged, inQ,
                   waitVars, takenVars>>

\* The loop that does not look whether the link it serves is still there.
ServesOn == /\ service = "events" /\ TakesEvent
            /\ UNCHANGED <<service, handshake, first, plugged>> /\ Serves
\* service_loop: the events are taken until one of them ends the link.
ServesEvents ==
    /\ service = "events" /\ TakesEvent
    /\ service' = IF connected /\ ~connected' THEN "lost" ELSE "events"
    /\ UNCHANGED <<handshake, first, plugged>> /\ Serves

\* on_link_lost.
LinkLost ==
    /\ service = "lost" /\ service' = "accept" /\ connected' = FALSE /\ plugged' = FALSE
    /\ UNCHANGED <<events, hasPeer, handshake, first, inQ>> /\ Serves

\* enqueue_input_report.
Enqueued(n) == Append(IF Len(inputQ) >= InputCapacity THEN Tail(inputQ) ELSE inputQ, n)

\* The messages that came with the events.
Drains ==
    /\ service = "events" /\ events = <<>>
    /\ IF inQ = <<>> THEN service' = "flush" /\ UNCHANGED <<inQ, inputQ, answers>>
       ELSE /\ inQ' = Tail(inQ) /\ service' = service
            /\ inputQ' = IF Head(inQ).kind = "input" THEN Enqueued(Head(inQ).n) ELSE inputQ
            /\ answers' = IF Head(inQ).kind = "answer" THEN answers \cup {Head(inQ).n} ELSE answers
    /\ UNCHANGED <<tvVars, events, connected, hasPeer, handshake, first, plugged, outQ, waiter, asks,
                   result, handed>>

Service == \/ Accepts \/ Listens \/ WaitsForHello \/ EnetHelloFails \/ Configures \/ Plugs
           \/ Flush \/ ServesEvents \/ LinkLost \/ Drains

----------------------------------------------------------------------------
(* The other threads.                                                       *)

OthersRest == UNCHANGED <<tvVars, events, connected, hasPeer, handshake, service, first, plugged, inQ>>

\* remote_feature and send_message: refused when there is no link.
Asks ==
    /\ waiter = 0 /\ asks < MaxAsks /\ connected /\ plugged
    /\ asks' = asks + 1 /\ waiter' = asks + 1 /\ outQ' = Append(outQ, asks + 1)
    /\ UNCHANGED <<answers, result, takenVars>> /\ OthersRest

TakesOwnAnswer == waiter \in answers /\ result' = Append(result, <<waiter, waiter>>) /\ answers' = answers \ {waiter}
\* The answer is there; or the link is not, or the time is over.  The second look at the link
\* is one step with the first here; BridgeLink has them apart.
AskReturns ==
    /\ waiter # 0 /\ waiter' = 0
    /\ \/ connected /\ TakesOwnAnswer
       \/ answers' = answers \ {waiter} /\ UNCHANGED result
    /\ UNCHANGED <<asks, outQ, takenVars>> /\ OthersRest

\* input_worker_loop.
HandsOn ==
    /\ inputQ # <<>> /\ inputQ' = Tail(inputQ) /\ handed' = Append(handed, Head(inputQ))
    /\ UNCHANGED <<waitVars, outQ>> /\ OthersRest

EnetNext ==
    \/ TvConnects \/ TvSaysHello \/ TvReports \/ TvReplies \/ TvGoes
    \/ Service \/ Asks \/ AskReturns \/ HandsOn

EnetTypeOK ==
    /\ tvSide \in {"away", "up", "hello"} /\ links \in 0..MaxLinks
    /\ connected \in BOOLEAN /\ hasPeer \in BOOLEAN /\ handshake \in BOOLEAN /\ plugged \in BOOLEAN
    /\ service \in {"accept", "listen", "hello", "plug", "flush", "events", "lost", "failed"}
    /\ heard \subseteq 1..asks /\ answers \subseteq 1..asks
    /\ Len(inputQ) <= InputCapacity

\* The device is there only while there is a link to serve it, an answer goes to the request
\* it answers whichever link it came by, and reports are handed on in the order they came.
LinkPlugs ==
    /\ plugged => handshake /\ service \in {"flush", "events", "lost"}
    /\ \A i \in DOMAIN result : result[i][1] = result[i][2]
    /\ \A i, j \in DOMAIN handed : i < j => handed[i] < handed[j]

\* A TV that stays has its device, and a TV that has gone does not leave one behind.
PlugsSettle == <>[](service = "failed" \/ (plugged <=> tvSide = "hello"))

\* The device comes and goes with its TV.
EnetServes == []LinkPlugs /\ PlugsSettle
=============================================================================
