------------------------------ MODULE RestConn ------------------------------
(***************************************************************************)
(* One connection to the control API, read inline on the agent's loop      *)
(* (app/rest.inl, rest_handle_client and what it calls).  The peer sends   *)
(* its request in any pieces, stalls or goes away; every recv gives up     *)
(* after the socket's timeout.                                             *)
(*                                                                         *)
(* A body is its tokens: "str" stands for a key or any scalar value,       *)
(* "open" and "close" for the braces.  A size is one of those the limits   *)
(* tell apart.                                                             *)
(***************************************************************************)
EXTENDS Naturals, Sequences

CONSTANTS Body,      \* the bodies a peer may send
          MaxBody    \* kMaxBody, in tokens

Token == {"open", "close", "str", "colon", "comma"}

ASSUME RestAssumption == Body \subseteq Seq(Token) /\ MaxBody \in Nat

RestRequest == [path : {"sessions", "session", "restart", "unknown"},
         method : {"OPTIONS", "GET", "POST", "DELETE"}, auth : BOOLEAN,
         line : {"good", "malformed", "escape"}, length : {"is", "long", "huge", "junk"}]

VARIABLES head,      \* what the request's head says
          body,      \* what follows it
          size,      \* bytes of the head still to come, in pieces; 0: "\r\n\r\n" is there
          got,       \* tokens of the body that were received
          over,      \* the head has reached kMaxHead
          rest,      \* "listen", "head", "body" or "closed"
          gone,      \* the peer sends no more
          status,    \* what was answered, each time
          did        \* what the route did: nothing, or an operation and the body it parsed

restVars == <<head, body, size, got, over, rest, gone, status, did>>

RestInit ==
    /\ head \in {h \in RestRequest :
                    \/ h.line = "good" /\ h.length = "is"
                    \/ h.auth /\ (h.line = "good" \/ h.length = "is")}
    /\ body \in Body
    /\ size \in 1..2 /\ got = 0 /\ over \in BOOLEAN
    /\ rest = "listen" /\ gone = FALSE /\ status = <<>> /\ did = "nothing"

----------------------------------------------------------------------------

\* rest_parse_flat_json: where the loop over the members is after one token more, and after
\* the first i of a body.
After(at, token) ==
    CASE at = "start" /\ token = "open"             -> "first"
      [] at = "first" /\ token = "close"            -> "end"
      [] at \in {"first", "key"} /\ token = "str"   -> "colon"
      [] at = "colon" /\ token = "colon"            -> "value"
      [] at = "value" /\ token = "str"              -> "more"
      [] at = "more" /\ token = "comma"             -> "key"
      [] at = "more" /\ token = "close"             -> "end"
      [] OTHER                                      -> "error"
JsonStates(b) ==
    LET f[i \in 0..Len(b)] == IF i = 0 THEN "start" ELSE After(f[i - 1], b[i]) IN f
JsonState(b) == JsonStates(b)[Len(b)]
Parses(b) == b = <<>> \/ JsonState(b) = "end"

\* content-length, as strtoul reads it, in tokens.
Wanted == CASE head.length = "is"   -> Len(body)
            [] head.length = "long" -> Len(body) + 1
            [] OTHER                -> MaxBody + 1

Answers(n) == status' = Append(status, n) /\ rest' = "closed"

\* The agent's loop takes a connection, and nothing else until it is done with it.
TakesClient == /\ rest = "listen" /\ rest' = "head"
               /\ UNCHANGED <<head, body, size, got, over, gone, status, did>>

\* rest_handle_client, the loop that reads the head; a piece may hold the start of the body.
ReceiveHead ==
    /\ rest = "head" /\ ~gone /\ ~over
    /\ size' = size - 1
    /\ got' \in IF size = 1 THEN 0..Len(body) ELSE {0}
    /\ rest' = IF size = 1 THEN "body" ELSE "head"
    /\ UNCHANGED <<head, body, over, gone, status, did>>

\* A peer that goes, or sends nothing for the timeout.
HeadFails ==
    /\ rest = "head" /\ (over \/ gone)
    /\ Answers(IF over THEN 413 ELSE 408)
    /\ UNCHANGED <<head, body, size, got, over, gone, did>>

\* rest_parse_head and the checks of content-length and transfer-encoding.
HeadRefused ==
    \/ head.line # "good"
    \/ head.length = "junk"
    \/ Wanted > MaxBody

RefuseHead ==
    /\ rest = "body" /\ HeadRefused
    /\ Answers(IF head.line # "good" \/ head.length = "junk" THEN 400 ELSE 413)
    /\ UNCHANGED <<head, body, size, got, over, gone, did>>

ReceiveBody ==
    /\ rest = "body" /\ ~HeadRefused /\ got < Wanted
    /\ \/ /\ ~gone /\ got < Len(body) /\ got' \in got + 1..Len(body)
          /\ UNCHANGED <<status, rest>>
       \/ /\ gone \/ got = Len(body)
          /\ Answers(408) /\ UNCHANGED got
    /\ UNCHANGED <<head, body, size, over, gone, did>>

\* The body is all there, and cut to its length.
Complete == rest = "body" /\ ~HeadRefused /\ got >= Wanted

Told == SubSeq(body, 1, IF got < Wanted THEN got ELSE Wanted)

\* rest_route: preflight first, the token next, then the paths.
Allowed == head.method # "OPTIONS" /\ head.auth /\ head.path # "unknown"

\* rest_handle_sessions_post wants a body; rest_handle_restart takes none as "soft".
Operation ==
    CASE head.path = "sessions" /\ head.method = "POST" /\ Parses(Told) /\ Told # <<>> -> "start"
      [] head.path = "session" /\ head.method = "DELETE"               -> "stop"
      [] head.path = "restart" /\ head.method = "POST" /\ Parses(Told) -> "restart"
      [] OTHER                                                         -> "nothing"

StatusOf(allowed) ==
    IF head.method = "OPTIONS" THEN {204}
    ELSE IF ~allowed /\ ~head.auth THEN {401}
    ELSE CASE head.path = "unknown"  -> {404}
           [] head.path = "sessions" -> IF head.method = "GET" THEN {200}
                                        ELSE IF head.method # "POST" THEN {405}
                                        ELSE IF Operation = "start" THEN {202, 400, 500} ELSE {400}
           [] head.path = "session"  -> IF head.method = "POST" THEN {405} ELSE {200, 404}
           [] OTHER                  -> IF head.method # "POST" THEN {405}
                                        ELSE IF Operation = "restart" THEN {200, 202, 409} ELSE {400}

Route ==
    /\ Complete
    /\ did' = IF Allowed THEN Operation ELSE "nothing"
    /\ \E n \in StatusOf(Allowed) : Answers(n)
    /\ UNCHANGED <<head, body, size, got, over, gone>>

PeerGoes == /\ ~gone /\ gone' = TRUE /\ rest \in {"head", "body"}
            /\ UNCHANGED <<head, body, size, got, over, rest, status, did>>

RestSteps == ReceiveHead \/ HeadFails \/ RefuseHead \/ ReceiveBody \/ Route
RestNext  == TakesClient \/ RestSteps \/ PeerGoes

RestTypeOK ==
    /\ head \in RestRequest /\ size \in 0..2 /\ got \in 0..Len(body)
    /\ rest \in {"listen", "head", "body", "closed"}
    /\ Len(status) <= 1

----------------------------------------------------------------------------

\* The grammar the API takes: nothing, or one object whose members are scalars.
IsFlat(b) ==
    \/ b \in {<<>>, <<"open", "close">>}
    \/ \E n \in 1..Len(b) :
         /\ Len(b) = 4 * n + 1 /\ b[1] = "open" /\ b[Len(b)] = "close"
         /\ \A i \in 1..n : /\ b[4 * i - 2] = "str" /\ b[4 * i - 1] = "colon" /\ b[4 * i] = "str"
                            /\ i < n => b[4 * i + 1] = "comma"

\* A request changes something only when it may, all of it has come, it was cut at no
\* other place than its length says, and its body is an object.
ActsOnWhole ==
    did # "nothing" =>
      /\ head.auth /\ head.line = "good" /\ head.length = "is" /\ ~HeadRefused
      /\ Told = body
      /\ did \in {"start", "restart"} => IsFlat(body)

\* The agent's loop gets back from every connection, having answered it once.
LoopReturns == rest = "head" ~> rest = "closed" /\ Len(status) = 1

\* A connection is answered, and changes nothing unless it was understood.
RestServes == []ActsOnWhole /\ LoopReturns
=============================================================================
