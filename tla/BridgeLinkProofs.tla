-------------------------- MODULE BridgeLinkProofs --------------------------
(***************************************************************************)
(* What holds of a bridge's link for any number of callers, connections,   *)
(* interfaces and settings.  A feature request that succeeds has its own   *)
(* reply: a number is given to one request only, and two requests' ids     *)
(* differ because the number is below 2^24 and the interface stands above  *)
(* it.  One whose reply has come in time returns with it.  And the TV holds*)
(* the settings a session is configured with, for which the places of the  *)
(* reader, the callers and the pushes are needed first (the types).  Last, *)
(* what a session sends its pad's way as a whole: the link beside the sound*)
(* of AudioOutProofs, with which it shares nothing.                        *)
(***************************************************************************)
EXTENDS MCBridgeLink, AudioOutProofs, TLAPS

Numbers == /\ Ids \in Nat \ {0} /\ MaxCall \in Nat /\ MaxCall < Ids
           /\ Interface \subseteq Nat /\ NoInterface \notin Interface

LEMMA NumbersHold == Numbers
  BY LinkAssumption DEF LinkAssumption, Numbers
----------------------------------------------------------------------------
(* The ids.                                                                *)

\* The number is what is left of an id below 2^24.
LEMMA PlacesApart ==
  ASSUME NEW d \in Nat \ {0}, NEW k \in Nat, NEW j \in Nat,
         NEW m \in 0..(d - 1), NEW n \in 0..(d - 1), k * d + m = j * d + n
  PROVE  m = n
<1>1. (k - j) * d = n - m
  OBVIOUS
<1>2. CASE k > j
  <2>1. (k - j) * d >= d
    BY <1>2
  <2> QED
    BY <1>1, <2>1
<1>3. CASE k < j
  <2>1. (j - k) * d >= d
    BY <1>3
  <2> QED
    BY <1>1, <2>1
<1>4. CASE k = j
  BY <1>4
<1> QED
  BY <1>2, <1>3, <1>4

LEMMA SmallRemainder ==
  ASSUME NEW d \in Nat \ {0}, NEW n \in 0..(d - 1)
  PROVE  n % d = n
  OBVIOUS

\* Two requests never have one id, whatever they ask.
LEMMA IdsApart ==
  ASSUME NEW k \in Interface \cup {NoInterface}, NEW j \in Interface \cup {NoInterface},
         NEW m \in 0..MaxCall, NEW n \in 0..MaxCall, NumberOf(k, m) = NumberOf(j, n)
  PROVE  m = n
<1>1. /\ Ids \in Nat \ {0} /\ m \in 0..(Ids - 1) /\ n \in 0..(Ids - 1)
      /\ k \in Nat \/ k = NoInterface
      /\ j \in Nat \/ j = NoInterface
  BY NumbersHold DEF Numbers
<1>2. m % Ids = m /\ n % Ids = n
  BY <1>1, SmallRemainder
<1>3. ASSUME NEW p \in Interface \cup {NoInterface}, NEW q \in 0..MaxCall, q % Ids = q
      PROVE  \E z \in Nat : NumberOf(p, q) = z * Ids + q
  <2>1. CASE p = NoInterface
    <3>1. NumberOf(p, q) = 0 * Ids + q
      BY <1>1, <2>1 DEF NumberOf
    <3> QED
      BY <3>1
  <2>2. CASE p # NoInterface
    <3>1. p \in Nat /\ NumberOf(p, q) = p * Ids + q
      BY <1>3, <2>2, NumbersHold DEF NumberOf, Numbers
    <3> QED
      BY <3>1
  <2> QED
    BY <2>1, <2>2
<1>4. PICK x \in Nat : NumberOf(k, m) = x * Ids + m
  BY <1>2, <1>3
<1>5. PICK y \in Nat : NumberOf(j, n) = y * Ids + n
  BY <1>2, <1>3
<1>6. x * Ids + m = y * Ids + n
  BY <1>4, <1>5
<1> QED
  BY <1>1, <1>6, PlacesApart
----------------------------------------------------------------------------
(* The inductive invariant.                                                *)

Kind == Interface \cup {NoInterface}

CallsTyped == /\ calls \in 0..MaxCall
              /\ call \in [Caller -> 0..calls]
              /\ kind \in [Caller -> Kind]

\* A request, or a reply to it, carries the id its number was given.
Genuine(x) == x.call \in 0..calls /\ \E k \in Kind : x.id = NumberOf(k, x.call)

AllGenuine == \A x \in asked \cup replies : Genuine(x)

IInv == CallsTyped /\ AllGenuine /\ ReplyIsOwn

LEMMA InitHolds == ASSUME Init PROVE IInv
  BY NumbersHold DEF Numbers, Init, IInv, CallsTyped, AllGenuine, ReplyIsOwn, Kind
----------------------------------------------------------------------------
(* One step.                                                               *)

LEMMA CalmStep == ASSUME IInv, UNCHANGED callVars PROVE IInv'
  BY DEF IInv, CallsTyped, AllGenuine, Genuine, ReplyIsOwn, callVars

LEMMA LinkIsCalm == ASSUME LinkStep PROVE UNCHANGED callVars
<1>1. CASE TvLeaves \/ ReaderLost \/ ReaderAccepts \/ ReaderLeaves \/ HelloComes
  BY <1>1 DEF TvLeaves, ReaderLost, ReaderAccepts, ReaderLeaves, HelloComes
<1>2. CASE HelloFails \/ ReaderSends \/ ReaderKeeps \/ Stops \/ Quits
  BY <1>2 DEF HelloFails, ReaderSends, ReaderKeeps, Stops, Quits
<1> QED
  BY <1>1, <1>2 DEF LinkStep

LEMMA SettingsAreCalm == ASSUME SettingsStep PROVE UNCHANGED callVars
<1>1. CASE SettingsChange
  BY <1>1 DEF SettingsChange
<1>2. ASSUME NEW p \in Pusher, PushStep(p) PROVE UNCHANGED callVars
  BY <1>2 DEF PushStep, PushBegins, PushCopies, PushSends, PushKeeps
<1> QED
  BY <1>1, <1>2 DEF SettingsStep

\* A new request takes the next number.
LEMMA AskStep == ASSUME IInv, NEW c \in Caller, NEW k \in Kind, Ask(c, k) PROVE IInv'
<1> USE NumbersHold DEF Numbers
<1>1. calls \in Nat /\ calls' = calls + 1 /\ calls' \in 0..MaxCall
  BY DEF IInv, CallsTyped, Ask, FreshNumber
<1>2. CallsTyped'
  BY <1>1 DEF IInv, CallsTyped, Ask, FreshNumber
<1>3. ASSUME NEW x, Genuine(x) PROVE Genuine(x)'
  BY <1>1, <1>3 DEF Genuine
<1>4. AllGenuine'
  BY <1>3 DEF IInv, AllGenuine, Ask
<1> QED
  BY <1>2, <1>4 DEF IInv, ReplyIsOwn, Ask

\* Coming back forgets the request, and drops its reply.
LEMMA ForgetStep ==
  ASSUME CallsTyped, NEW c \in Caller, Forgets(c), UNCHANGED calls
  PROVE  CallsTyped'
<1>1. calls \in Nat
  BY NumbersHold DEF Numbers, CallsTyped
<1> QED
  BY <1>1 DEF CallsTyped, Forgets, Kind

LEMMA SendStep == ASSUME IInv, NEW c \in Caller, CallSends(c) PROVE IInv'
<1>1. calls' = calls /\ replies' = replies /\ given' = given
  BY DEF CallSends
<1>2. CASE Forgets(c) /\ UNCHANGED asked
  BY <1>1, <1>2, ForgetStep DEF IInv, AllGenuine, Genuine, ReplyIsOwn
<1>3. CASE UNCHANGED <<asked, call, kind>>
  BY <1>1, <1>3 DEF IInv, CallsTyped, AllGenuine, Genuine, ReplyIsOwn
<1>4. CASE asked' = asked \cup {[id |-> IdOf(c), call |-> call[c]]} /\ UNCHANGED <<call, kind>>
  <2>1. Genuine([id |-> IdOf(c), call |-> call[c]])
    BY DEF IInv, CallsTyped, Genuine, IdOf
  <2>2. AllGenuine'
    BY <1>1, <1>4, <2>1 DEF IInv, AllGenuine, Genuine
  <2> QED
    BY <1>1, <1>4, <2>2 DEF IInv, CallsTyped, ReplyIsOwn
<1> QED
  BY <1>2, <1>3, <1>4 DEF CallSends

LEMMA ReturnStep ==
  ASSUME IInv, NEW c \in Caller, Returns(c)
  PROVE  CallsTyped' /\ AllGenuine'
<1>1. CallsTyped'
  BY ForgetStep DEF IInv, Returns
<1>2. AllGenuine'
  BY DEF IInv, Returns, AllGenuine, Genuine
<1> QED
  BY <1>1, <1>2

\* The reply that carries a caller's id is the caller's.
LEMMA AnswerStep == ASSUME IInv, NEW c \in Caller, CallAnswered(c) PROVE IInv'
<1>1. PICK r \in ReplyTo(c) : given' = [of |-> call[c], with |-> r.call]
  BY DEF CallAnswered
<1>2. Genuine(r) /\ r.id = NumberOf(kind[c], call[c])
  BY <1>1 DEF ReplyTo, IdOf, IInv, AllGenuine
<1>3. PICK k \in Kind : r.id = NumberOf(k, r.call)
  BY <1>2 DEF Genuine
<1>4. /\ kind[c] \in Kind /\ call[c] \in 0..MaxCall /\ r.call \in 0..MaxCall
  BY <1>2, NumbersHold DEF Numbers, Genuine, IInv, CallsTyped
<1>5. r.call = call[c]
  BY <1>2, <1>3, <1>4, IdsApart DEF Kind
<1>6. ReplyIsOwn'
  BY <1>1, <1>5 DEF ReplyIsOwn
<1> QED
  BY <1>6, ReturnStep DEF IInv, CallAnswered

LEMMA CallerStep == ASSUME IInv, NEW c \in Caller, CallStep(c) PROVE IInv'
<1>1. CASE CallTimesOut(c) \/ CallRefused(c)
  BY <1>1, ReturnStep DEF CallTimesOut, CallRefused, IInv, ReplyIsOwn
<1>2. CASE CallWakes(c) \/ CallAstray(c)
  BY <1>2 DEF CallWakes, CallAstray, IInv, CallsTyped, AllGenuine, Genuine, ReplyIsOwn
<1> QED
  BY <1>1, <1>2, SendStep, AnswerStep DEF CallStep

\* The TV answers what it was asked.
LEMMA TvStep == ASSUME IInv, NEW r \in asked, TvAnswers(r) PROVE IInv'
  BY DEF TvAnswers, IInv, CallsTyped, AllGenuine, Genuine, ReplyIsOwn

LEMMA Inductive == IInv /\ [Next]_vars => IInv'
<1> SUFFICES ASSUME IInv, [Next]_vars PROVE IInv'
  OBVIOUS
<1>1. CASE LinkStep \/ SettingsStep
  BY <1>1, CalmStep, LinkIsCalm, SettingsAreCalm
<1>2. CASE FeatureStep
  BY <1>2, AskStep, CallerStep, TvStep DEF FeatureStep, Kind
<1>3. ASSUME NEW t \in Thread, SendLoads(t) PROVE IInv'
  BY <1>3, CalmStep DEF SendLoads
<1>4. CASE AtRest \/ UNCHANGED vars
  BY <1>4, CalmStep DEF AtRest, vars
<1> QED
  BY <1>1, <1>2, <1>3, <1>4 DEF Next
----------------------------------------------------------------------------
\* Numbers, ids and replies stay as the argument above has them.
THEOREM Invariant == Spec => []IInv
<1>1. Init => IInv
  BY InitHolds
<1> QED
  BY <1>1, Inductive, PTL DEF Spec

\* featureReplies_ is a map by id that outlives timeouts and connections; still
\* no request is given another's reply.
THEOREM RepliesAreOwn == Spec => []ReplyIsOwn
<1>1. IInv => ReplyIsOwn
  BY DEF IInv
<1> QED
  BY <1>1, Invariant, PTL
----------------------------------------------------------------------------
(* The types, in parts that the steps change together.                     *)

\* Settings a session can have of its own.
Named == (1..MaxChange) \cup {Unset}
Own == [latency : Named, audio : Named]

ConnTyped == /\ conns \in Conn /\ sock \in {0, conns}
             /\ rd \in {"recv", "accept", "hello", "config", "keep", "done"}
             /\ peer \in BOOLEAN /\ running \in BOOLEAN /\ quit \in BOOLEAN
SendTyped == sender \in Thread \cup {NoThread} /\ via \in [Thread -> 0..conns]
AskTyped  == /\ calls \in 0..MaxCall /\ call \in [Caller -> 0..calls]
             /\ cpc \in [Caller -> {"idle", "send", "wait", "woken", "astray"}]
             /\ kind \in [Caller -> Kind]
             /\ fmx \in Caller \cup {NoThread}
             /\ asked \subseteq [id : Nat, call : Call] /\ replies \subseteq [id : Nat, call : Call]
             /\ given \in [of : 0..MaxCall, with : 0..MaxCall]
PushTyped == /\ wanted \in Own /\ changes \in 1..MaxChange /\ todo \subseteq Pusher
             /\ ppc \in [Pusher -> {"idle", "latency", "sendLatency", "keepLatency",
                                    "audio", "sendAudio", "keepAudio"}]
             /\ want \in [Pusher -> Own] /\ msg \in [Pusher -> Config]
ConfTyped == last \in Config /\ tv \in Config /\ disturbed \in BOOLEAN

\* Who holds sendMutex_ is at a send.
SendersSend ==
    /\ sender = Reader => rd = "config"
    /\ \A c \in Caller : sender = c => cpc[c] = "send"
    /\ \A p \in Pusher : sender = p => ppc[p] \in {"sendLatency", "sendAudio"}

\* A request that is under way has a number.
Called == \A c \in Caller : cpc[c] # "idle" => call[c] # 0

Typed == ConnTyped /\ SendTyped /\ AskTyped /\ PushTyped /\ ConfTyped /\ SendersSend /\ Called

Settings == /\ MaxChange \in Nat \ {0} /\ MaxConn \in Nat \ {0}
            /\ {Unset, Zero} \cap (1..MaxChange) = {} /\ Unset # Zero /\ Shared # Zero
            /\ Reader \notin Caller /\ Reader \notin Pusher /\ Caller \cap Pusher = {}
            /\ NoThread \notin Thread

LEMMA SettingsAre == Settings
  BY LinkAssumption DEF LinkAssumption, Settings, Pusher

LEMMA OwnIsConfig == Own \subseteq Config
  BY DEF Own, Named, Config, Latency, Audio

LEMMA TypedIsTypeOK == ASSUME Typed PROVE TypeOK
<1>1. wanted \in Config /\ want \in [Pusher -> Config]
  BY OwnIsConfig DEF Typed, PushTyped
<1> QED
  BY <1>1 DEF Typed, ConnTyped, SendTyped, AskTyped, PushTyped, ConfTyped, TypeOK, Kind

LEMMA InitTyped == ASSUME Init PROVE Typed
<1> USE SettingsAre, NumbersHold DEF Settings, Numbers
<1>1. ConnTyped /\ SendTyped
  <2>1. conns \in Conn /\ 0 \in 0..conns
    BY DEF Init, Conn
  <2>2. ConnTyped
    BY <2>1 DEF Init, ConnTyped
  <2>3. SendTyped
    BY <2>1 DEF Init, SendTyped
  <2> QED
    BY <2>2, <2>3
<1>2. AskTyped /\ Called
  BY DEF Init, AskTyped, Called, Kind
<1>3. Handshake \in Config /\ tv \in Config
  BY DEF Init, Handshake, Config, Latency, Audio
<1>4. wanted \in Own
  BY DEF Init, Own, Named
<1>5. PushTyped /\ ConfTyped
  <2>1. 1 \in 1..MaxChange /\ todo \subseteq Pusher
    BY DEF Init, Pusher
  <2>2. want \in [Pusher -> Own] /\ msg \in [Pusher -> Config]
    BY <1>3, <1>4 DEF Init
  <2>3. PushTyped
    BY <1>4, <2>1, <2>2 DEF Init, PushTyped
  <2> QED
    BY <1>3, <2>3 DEF Init, ConfTyped
<1>6. SendersSend
  BY DEF Init, SendersSend, Thread
<1> QED
  BY <1>1, <1>2, <1>5, <1>6 DEF Typed

\* A config applied by the TV, and one that a push makes of the last.
LEMMA ConfigsFit ==
  ASSUME Typed
  PROVE  /\ Handshake \in Config
         /\ \A m \in Config : Applied(m) \in Config
         /\ \A p \in Pusher : /\ [last EXCEPT !["latency"] = want[p]["latency"]] \in Config
                              /\ [last EXCEPT !["audio"] = want[p]["audio"]] \in Config
<1>1. Handshake \in Config
  BY DEF Handshake, Config, Latency, Audio
<1>2. ASSUME NEW m \in Config PROVE Applied(m) \in Config
  BY DEF Applied, Config, Typed, ConfTyped
<1>3. ASSUME NEW p \in Pusher
      PROVE  /\ [last EXCEPT !["latency"] = want[p]["latency"]] \in Config
             /\ [last EXCEPT !["audio"] = want[p]["audio"]] \in Config
  BY DEF Typed, ConfTyped, PushTyped, Config, Own, Named, Latency, Audio
<1> QED
  BY <1>1, <1>2, <1>3

LEMMA LinkTyped == ASSUME Typed, LinkStep PROVE Typed'
<1> USE SettingsAre DEF Settings
<1>1. conns' \in Nat /\ conns \in Nat /\ conns <= conns' /\ ConnTyped'
  <2>1. conns \in 1..MaxConn
    BY DEF Typed, ConnTyped, Conn
  <2>2. CASE ReaderAccepts
    BY <2>1, <2>2 DEF ReaderAccepts, Typed, ConnTyped, Conn
  <2>3. CASE ~ReaderAccepts
    <3>1. conns' = conns /\ sock' \in {0, sock}
      BY <2>3 DEF LinkStep, TvLeaves, ReaderLost, ReaderLeaves, HelloComes, HelloFails, ReaderSends,
         ReaderKeeps, Stops, Quits, CloseSocket, Breaks
    <3>2. /\ rd' \in {rd, "recv", "accept", "config", "keep", "done"}
          /\ peer' \in {peer, FALSE} /\ running' \in {running, FALSE} /\ quit' \in {quit, TRUE}
      BY <2>3 DEF LinkStep, TvLeaves, ReaderLost, ReaderLeaves, HelloComes, HelloFails, ReaderSends,
         ReaderKeeps, Stops, Quits
    <3>3. rd' \in {"recv", "accept", "hello", "config", "keep", "done"}
      BY <3>2 DEF Typed, ConnTyped
    <3>4. peer' \in BOOLEAN /\ running' \in BOOLEAN /\ quit' \in BOOLEAN
      BY <3>2 DEF Typed, ConnTyped
    <3>5. conns' \in Conn /\ sock' \in {0, conns'}
      BY <2>1, <3>1 DEF Typed, ConnTyped
    <3>6. ConnTyped'
      BY <3>3, <3>4, <3>5 DEF ConnTyped, Conn
    <3> QED
      BY <2>1, <3>1, <3>6
  <2> QED
    BY <2>2, <2>3
<1>2. \/ UNCHANGED sendVars
      \/ sender' = NoThread /\ via' = [t \in Thread |-> 0]
  BY DEF LinkStep, TvLeaves, ReaderLost, ReaderAccepts, ReaderLeaves, HelloComes, HelloFails,
     ReaderSends, SendEnds, ReaderKeeps, Stops, Quits
<1>3. SendTyped'
  <2>1. 0..conns \subseteq 0..conns' /\ 0 \in 0..conns'
    BY <1>1
  <2> QED
    BY <1>2, <2>1 DEF Typed, SendTyped, sendVars
<1>4. UNCHANGED <<callVars, pushVars>>
  BY LinkIsCalm DEF LinkStep, TvLeaves, ReaderLost, ReaderAccepts, ReaderLeaves, HelloComes,
     HelloFails, ReaderSends, ReaderKeeps, Stops, Quits
<1>5. AskTyped' /\ PushTyped' /\ Called'
  BY <1>4 DEF Typed, AskTyped, PushTyped, Called, callVars, pushVars
<1>6. ConfTyped'
  <2>1. UNCHANGED confVars \/ (last' \in {last, Handshake} /\ tv' \in {tv, Applied(Handshake)}
                               /\ disturbed' \in {disturbed, TRUE})
    BY DEF LinkStep, TvLeaves, ReaderLost, ReaderAccepts, ReaderLeaves, HelloComes, HelloFails,
       ReaderSends, ReaderKeeps, Stops, Quits, confVars
  <2> QED
    BY <2>1, ConfigsFit DEF Typed, ConfTyped, confVars
<1>7. SendersSend'
  <2>1. sender' = Reader => rd' = "config"
    BY <1>2 DEF LinkStep, TvLeaves, ReaderLost, ReaderAccepts, ReaderLeaves, HelloComes,
       HelloFails, ReaderSends, SendEnds, ReaderKeeps, Stops, Quits, sendVars, Typed, SendersSend,
       Thread
  <2> QED
    BY <1>2, <1>4, <2>1 DEF Typed, SendersSend, sendVars, callVars, pushVars, Thread
<1> QED
  BY <1>1, <1>3, <1>5, <1>6, <1>7 DEF Typed

\* sendMutex_ is taken by a thread that has something to send.
LEMMA LoadTyped == ASSUME Typed, NEW t \in Thread, SendLoads(t) PROVE Typed'
<1> USE SettingsAre DEF Settings
<1>1. UNCHANGED <<connVars, callVars, pushVars, confVars>>
      /\ sender' = t /\ via' = [via EXCEPT ![t] = sock]
  BY DEF SendLoads
<1>2. ConnTyped' /\ AskTyped' /\ PushTyped' /\ ConfTyped' /\ Called'
  BY <1>1 DEF Typed, ConnTyped, AskTyped, PushTyped, ConfTyped, Called, connVars, callVars, pushVars,
     confVars
<1>3. SendTyped'
  <2>1. sock \in 0..conns
    BY DEF Typed, ConnTyped, Conn
  <2> QED
    BY <1>1, <2>1 DEF Typed, SendTyped, connVars
<1>4. SendersSend'
  BY <1>1 DEF SendLoads, MayLoad, SendersSend, connVars, callVars, pushVars, Thread
<1> QED
  BY <1>2, <1>3, <1>4 DEF Typed

\* sendMutex_ is given back.
LEMMA EndsTyped ==
  ASSUME Typed, SendEnds, UNCHANGED conns
  PROVE  SendTyped' /\ SendersSend'
<1> USE SettingsAre DEF Settings
<1>1. 0 \in 0..conns
  BY DEF Typed, ConnTyped, Conn
<1>2. SendTyped'
  BY <1>1 DEF SendEnds, SendTyped
<1>3. SendersSend'
  BY DEF SendEnds, SendersSend, Thread
<1> QED
  BY <1>2, <1>3

LEMMA AskIsTyped == ASSUME Typed, NEW c \in Caller, NEW k \in Kind, Ask(c, k) PROVE Typed'
<1> USE SettingsAre, NumbersHold DEF Settings, Numbers
<1>1. /\ calls' = calls + 1 /\ calls \in Nat /\ calls + 1 \in 0..MaxCall /\ calls + 1 # 0
      /\ 0..calls \subseteq 0..(calls + 1) /\ calls + 1 \in 0..(calls + 1)
  BY DEF Ask, FreshNumber, Typed, AskTyped
<1>2. /\ call' = [call EXCEPT ![c] = calls + 1] /\ kind' = [kind EXCEPT ![c] = k]
      /\ cpc' = [cpc EXCEPT ![c] = "send"] /\ UNCHANGED <<fmx, asked, replies, given>>
  BY DEF Ask, FreshNumber
<1>3. AskTyped'
  BY <1>1, <1>2 DEF Typed, AskTyped, Kind, Call
<1>4. Called'
  BY <1>1, <1>2 DEF Typed, Called, AskTyped
<1>5. UNCHANGED <<connVars, sendVars, pushVars, confVars>>
  BY DEF Ask
<1>6. ConnTyped' /\ SendTyped' /\ PushTyped' /\ ConfTyped'
  BY <1>5 DEF Typed, ConnTyped, SendTyped, PushTyped, ConfTyped, connVars, sendVars, pushVars,
     confVars
<1>7. SendersSend'
  BY <1>2, <1>5 DEF Typed, SendersSend, AskTyped, Ask, connVars, sendVars, pushVars
<1> QED
  BY <1>3, <1>4, <1>6, <1>7 DEF Typed

\* A request's id is a number.
LEMMA IdIsNat ==
  ASSUME Typed, NEW c \in Caller, cpc[c] # "idle"
  PROVE  [id |-> IdOf(c), call |-> call[c]] \in [id : Nat, call : Call]
<1> USE NumbersHold DEF Numbers
<1>1. call[c] \in 1..calls /\ calls \in 0..MaxCall /\ kind[c] \in Kind
  BY DEF Typed, AskTyped, Called
<1>2. call[c] \in Nat /\ call[c] \in Call
  BY <1>1 DEF Call
<1>3. IdOf(c) \in Nat
  <2>1. CASE kind[c] = NoInterface
    BY <1>2, <2>1 DEF IdOf, NumberOf
  <2>2. CASE kind[c] # NoInterface
    <3>1. kind[c] \in Nat /\ call[c] % Ids \in Nat
      <4>1. kind[c] \in Nat
        BY <1>1, <2>2 DEF Kind
      <4>2. call[c] \in 0..(Ids - 1)
        BY <1>1, <1>2
      <4>3. call[c] % Ids = call[c]
        BY <4>2, SmallRemainder
      <4> QED
        BY <1>2, <4>1, <4>3
    <3>2. kind[c] * Ids \in Nat
      BY <3>1
    <3> QED
      BY <2>2, <3>1, <3>2 DEF IdOf, NumberOf
  <2> QED
    BY <2>1, <2>2
<1> QED
  BY <1>2, <1>3

\* A caller's step: what it may do to its own request.
LEMMA CallerTyped ==
  ASSUME Typed, NEW c \in Caller, CallStep(c)
  PROVE  Typed'
<1> USE SettingsAre, NumbersHold DEF Settings, Numbers
<1>1. /\ UNCHANGED <<conns, peer, rd, running, quit, calls, pushVars, confVars>>
      /\ sock' \in {0, sock}
  BY DEF CallStep, CallSends, CallWakes, CallTimesOut, CallRefused, CallAnswered, CallAstray,
     Returns, Breaks, connVars
<1>2. ConnTyped' /\ PushTyped' /\ ConfTyped'
  BY <1>1 DEF Typed, ConnTyped, PushTyped, ConfTyped, pushVars, confVars, Conn
<1>3. /\ \/ Forgets(c)
         \/ /\ UNCHANGED <<call, kind>> /\ cpc[c] \in {"send", "wait", "woken"}
            /\ \E to \in {"wait", "woken", "astray"} : cpc' = [cpc EXCEPT ![c] = to]
      /\ fmx' \in {fmx, c, NoThread}
  <2>1. CASE CallSends(c)
    BY <2>1 DEF CallSends, Sending, Typed, SendersSend
  <2>2. CASE ~CallSends(c)
    BY <2>2 DEF CallStep, CallWakes, CallTimesOut, CallRefused, CallAnswered, CallAstray, Returns
  <2> QED
    BY <2>1, <2>2
<1>4. /\ asked' \subseteq asked \cup {[id |-> IdOf(c), call |-> call[c]]}
      /\ replies' \subseteq replies
      /\ asked' # asked => cpc[c] # "idle"
  <2>1. CASE CallSends(c)
    BY <2>1 DEF CallSends, Sending, Typed, SendersSend
  <2>2. CASE ~CallSends(c)
    BY <2>2 DEF CallStep, CallWakes, CallTimesOut, CallRefused, CallAnswered, CallAstray, Returns
  <2> QED
    BY <2>1, <2>2
<1>5. asked' \subseteq [id : Nat, call : Call] /\ replies' \subseteq [id : Nat, call : Call]
  <2>1. asked' # asked => [id |-> IdOf(c), call |-> call[c]] \in [id : Nat, call : Call]
    BY <1>4, IdIsNat
  <2>2. asked \subseteq [id : Nat, call : Call] /\ replies \subseteq [id : Nat, call : Call]
    BY DEF Typed, AskTyped
  <2> DEFINE x == [id |-> IdOf(c), call |-> call[c]]
             S == [id : Nat, call : Call]
  <2> HIDE DEF x, S
  <2>3. asked' \subseteq asked \cup {x} /\ (asked' # asked => x \in S)
        /\ asked \subseteq S /\ replies \subseteq S /\ replies' \subseteq replies
    BY <1>4, <2>1, <2>2 DEF x, S
  <2>4. asked' \subseteq S /\ replies' \subseteq S
    BY <2>3
  <2> QED
    BY <2>4 DEF S
<1>6. given' \in [of : 0..MaxCall, with : 0..MaxCall]
  <2>1. CASE CallAnswered(c)
    <3>1. PICK r \in replies : given' = [of |-> call[c], with |-> r.call]
      BY <2>1 DEF CallAnswered, ReplyTo
    <3>2. r.call \in 0..MaxCall /\ call[c] \in 0..MaxCall
      BY DEF Typed, AskTyped, Call
    <3> QED
      BY <3>1, <3>2
  <2>2. CASE given' = given
    BY <2>2 DEF Typed, AskTyped
  <2> QED
    BY <2>1, <2>2 DEF CallStep, CallSends, CallWakes, CallTimesOut, CallRefused, CallAstray
<1>7. AskTyped'
  <2>1. calls \in Nat /\ 0 \in 0..calls
    BY DEF Typed, AskTyped
  <2>2. call' \in [Caller -> 0..calls] /\ kind' \in [Caller -> Kind]
        /\ cpc' \in [Caller -> {"idle", "send", "wait", "woken", "astray"}]
    BY <1>3, <2>1 DEF Typed, AskTyped, Forgets, Kind
  <2> QED
    BY <1>1, <1>3, <1>5, <1>6, <2>2 DEF Typed, AskTyped, Kind, Call
<1>8. Called'
  BY <1>3 DEF Typed, Called, AskTyped, Forgets
<1>9. SendTyped' /\ SendersSend'
  <2>1. CASE SendEnds
    BY <1>1, <2>1, EndsTyped
  <2>2. CASE ~SendEnds
    <3>1. UNCHANGED sendVars /\ cpc[c] # "send"
      BY <2>2 DEF CallStep, CallSends, CallWakes, CallTimesOut, CallRefused, CallAnswered,
         CallAstray, Returns
    <3>2. \A d \in Caller : d # c => cpc'[d] = cpc[d]
      BY <1>3 DEF Forgets, Typed, AskTyped
    <3> QED
      BY <1>1, <3>1, <3>2 DEF Typed, SendTyped, SendersSend, sendVars, pushVars
  <2> QED
    BY <2>1, <2>2
<1> QED
  BY <1>2, <1>7, <1>8, <1>9 DEF Typed

LEMMA TvTyped == ASSUME Typed, NEW r \in asked, TvAnswers(r) PROVE Typed'
<1>1. /\ UNCHANGED <<calls, cpc, call, kind, fmx, given, connVars, sendVars, pushVars, confVars>>
      /\ asked' \subseteq asked /\ replies' \subseteq replies \cup asked
  BY DEF TvAnswers
<1>2. AskTyped'
  BY <1>1 DEF Typed, AskTyped, Kind, Call
<1> QED
  BY <1>1, <1>2 DEF Typed, ConnTyped, SendTyped, PushTyped, ConfTyped, SendersSend, Called, connVars,
     sendVars, pushVars, confVars

LEMMA ChangeTyped == ASSUME Typed, SettingsChange PROVE Typed'
<1> USE SettingsAre DEF Settings
<1>1. changes' \in 1..MaxChange /\ changes' = changes + 1
  BY DEF SettingsChange, Typed, PushTyped
<1>2. wanted' \in Own
  BY <1>1 DEF SettingsChange, Own, Named
<1>3. todo' \subseteq Pusher
  BY DEF SettingsChange, Typed, PushTyped, Pusher
<1>4. UNCHANGED <<ppc, want, msg, connVars, sendVars, callVars, confVars>>
  BY DEF SettingsChange
<1>5. PushTyped'
  BY <1>1, <1>2, <1>3, <1>4 DEF Typed, PushTyped
<1> QED
  BY <1>4, <1>5 DEF Typed, ConnTyped, SendTyped, AskTyped, ConfTyped, SendersSend, Called, connVars,
     sendVars, callVars, confVars

\* A pusher's steps leave the requests alone, and the reader.
LEMMA PushCalm ==
  ASSUME NEW p \in Pusher, PushStep(p)
  PROVE  UNCHANGED <<conns, peer, rd, running, quit, callVars, wanted, changes>>
  BY DEF PushStep, PushBegins, PushCopies, PushSends, PushKeeps, connVars, pushVars

LEMMA PusherTyped == ASSUME Typed, NEW p \in Pusher, PushStep(p) PROVE Typed'
<1> USE SettingsAre DEF Settings
<1>1. UNCHANGED <<conns, peer, rd, running, quit, callVars, wanted, changes>>
  BY PushCalm
<1>2. sock' \in {0, sock}
  BY DEF PushStep, PushBegins, PushCopies, PushSends, PushKeeps, Breaks, connVars
<1>3. ConnTyped' /\ AskTyped' /\ Called'
  BY <1>1, <1>2 DEF Typed, ConnTyped, AskTyped, Called, callVars, Conn
<1>4. /\ \E to \in {"idle", "latency", "sendLatency", "keepLatency", "audio", "sendAudio", "keepAudio"} :
            ppc' = [ppc EXCEPT ![p] = to]
      /\ todo' \subseteq todo /\ want' \in {want, [want EXCEPT ![p] = wanted]}
  BY DEF PushStep, PushBegins, PushCopies, PushSends, PushKeeps, pushVars
<1>5. msg' \in [Pusher -> Config]
  <2>1. \/ msg' = msg
        \/ msg' = [msg EXCEPT ![p] = [last EXCEPT !["latency"] = want[p]["latency"]]]
        \/ msg' = [msg EXCEPT ![p] = [last EXCEPT !["audio"] = want[p]["audio"]]]
    BY DEF PushStep, PushBegins, PushCopies, PushSends, PushKeeps, pushVars
  <2>2. ASSUME NEW m \in Config, msg' = [msg EXCEPT ![p] = m] PROVE msg' \in [Pusher -> Config]
    BY <2>2 DEF Typed, PushTyped
  <2>3. msg \in [Pusher -> Config]
    BY DEF Typed, PushTyped
  <2> QED
    BY <2>1, <2>2, <2>3, ConfigsFit
<1>6. PushTyped'
  BY <1>1, <1>4, <1>5 DEF Typed, PushTyped
<1>7. last' \in Config /\ tv' \in Config /\ disturbed' \in BOOLEAN
  <2>1. msg[p] \in Config /\ last \in Config /\ tv \in Config /\ disturbed \in BOOLEAN
    BY DEF Typed, PushTyped, ConfTyped
  <2>2. last' \in {last, msg[p]} /\ tv' \in {tv, Applied(msg[p])}
    BY DEF PushStep, PushBegins, PushCopies, PushSends, PushKeeps, Remembered, confVars
  <2>3. disturbed' \in BOOLEAN
    BY <2>1 DEF PushStep, PushBegins, PushCopies, PushSends, PushKeeps, confVars
  <2> QED
    BY <2>1, <2>2, <2>3, ConfigsFit
<1>8. SendTyped' /\ SendersSend'
  <2>1. CASE SendEnds
    BY <1>1, <2>1, EndsTyped
  <2>2. CASE ~SendEnds
    <3>1. UNCHANGED sendVars /\ ppc[p] \notin {"sendLatency", "sendAudio"}
      BY <2>2 DEF PushStep, PushBegins, PushCopies, PushSends, PushKeeps, AtWork
    <3>2. \A q \in Pusher : q # p => ppc'[q] = ppc[q]
      BY <1>4 DEF Typed, PushTyped
    <3> QED
      BY <1>1, <3>1, <3>2 DEF Typed, SendTyped, SendersSend, sendVars, callVars
  <2> QED
    BY <2>1, <2>2
<1> QED
  BY <1>3, <1>6, <1>7, <1>8 DEF Typed, ConfTyped

LEMMA TypedStep == ASSUME Typed, Next PROVE Typed'
<1>1. CASE LinkStep
  BY <1>1, LinkTyped
<1>2. CASE FeatureStep
  BY <1>2, AskIsTyped, CallerTyped, TvTyped DEF FeatureStep, Kind
<1>3. CASE SettingsStep
  BY <1>3, ChangeTyped, PusherTyped DEF SettingsStep
<1>4. ASSUME NEW t \in Thread, SendLoads(t) PROVE Typed'
  BY <1>4, LoadTyped
<1>5. CASE AtRest
  BY <1>5 DEF AtRest, vars, connVars, sendVars, callVars, pushVars, confVars, Typed, ConnTyped,
     SendTyped, AskTyped, PushTyped, ConfTyped, SendersSend, Called
<1> QED
  BY <1>1, <1>2, <1>3, <1>4, <1>5 DEF Next

LEMMA TypedInductive == Typed /\ [Next]_vars => Typed'
<1>1. ASSUME Typed, UNCHANGED vars PROVE Typed'
  BY <1>1 DEF vars, connVars, sendVars, callVars, pushVars, confVars, Typed, ConnTyped, SendTyped,
     AskTyped, PushTyped, ConfTyped, SendersSend, Called
<1> QED
  BY <1>1, TypedStep

\* Every reachable state of the link is well typed, and senders are at their sends.
THEOREM TypedAlways == Spec => []Typed
<1>1. Init => Typed
  BY InitTyped
<1> QED
  BY <1>1, TypedInductive, PTL DEF Spec

\* The link's state, its requests and its pushes are what TypeOK says, for any callers,
\* interfaces and connections.
THEOREM TypeCorrect == Spec => []TypeOK
<1>1. Typed => TypeOK
  BY TypedIsTypeOK
<1> QED
  BY <1>1, TypedAlways, PTL
----------------------------------------------------------------------------
(* Answers that came are taken.                                            *)

TakenStep ==
    \A c \in Caller :
        cpc[c] \in {"wait", "woken"} /\ cpc'[c] = "idle" /\ ReplyTo(c) # {}
            => given' = [of |-> call[c], with |-> call[c]] \/ LinkDown

LEMMA CallerTakes ==
  ASSUME Typed, IInv, NEW c \in Caller, NEW d \in Caller, CallStep(d),
         cpc[c] \in {"wait", "woken"}, cpc'[c] = "idle", ReplyTo(c) # {}
  PROVE  given' = [of |-> call[c], with |-> call[c]] \/ LinkDown
<1>1. c = d
  <2>1. \E to \in {"idle", "wait", "woken", "astray"} : cpc' = [cpc EXCEPT ![d] = to]
    BY DEF CallStep, CallSends, CallWakes, CallTimesOut, CallRefused, CallAnswered, CallAstray,
       Returns, Forgets
  <2> QED
    BY <2>1 DEF Typed, AskTyped
<1>2. ~CallSends(c) /\ ~CallTimesOut(c)
  BY DEF CallSends, Sending, CallTimesOut, TimedOut, Signaled, Typed, SendersSend
<1>3. ~CallWakes(c) /\ ~CallAstray(c)
  BY DEF CallWakes, CallAstray, Typed, AskTyped
<1>4. CASE CallRefused(c)
  BY <1>4 DEF CallRefused, Refused
<1>5. CASE CallAnswered(c)
  <2>1. given'.of = call[c]
    BY <1>5 DEF CallAnswered
  <2>2. \E n : given' = [of |-> call[c], with |-> n]
    BY <1>5 DEF CallAnswered
  <2>3. ReplyIsOwn'
    BY <1>5, AnswerStep DEF IInv
  <2> QED
    BY <2>1, <2>2, <2>3 DEF ReplyIsOwn
<1> QED
  BY <1>1, <1>2, <1>3, <1>4, <1>5 DEF CallStep

LEMMA AlwaysTakes == ASSUME Typed, IInv, Next PROVE TakenStep
<1> SUFFICES ASSUME NEW c \in Caller, cpc[c] \in {"wait", "woken"}, cpc'[c] = "idle", ReplyTo(c) # {}
             PROVE  given' = [of |-> call[c], with |-> call[c]] \/ LinkDown
  BY DEF TakenStep
<1>1. cpc' # cpc
  OBVIOUS
<1>2. ~LinkStep /\ ~SettingsStep
  BY <1>1, LinkIsCalm, SettingsAreCalm DEF callVars
<1>3. ~AtRest /\ \A t \in Thread : ~SendLoads(t)
  BY <1>1 DEF AtRest, vars, callVars, SendLoads
<1>4. \A r \in asked : ~TvAnswers(r)
  BY <1>1 DEF TvAnswers
<1>5. \A d \in Caller, k \in Kind : ~Ask(d, k)
  BY DEF Ask, Typed, AskTyped
<1>6. PICK d \in Caller : CallStep(d)
  BY <1>2, <1>3, <1>4, <1>5 DEF Next, FeatureStep, Kind
<1> QED
  BY <1>6, CallerTakes

\* remote_feature's timeout loses to a reply that came in time: a caller whose reply has come
\* returns with it, unless the link is down or the listener quits.
THEOREM AnswersTaken == Spec => AnswersAreTaken
<1>1. Typed /\ IInv /\ [Next]_vars => [TakenStep]_vars
  BY AlwaysTakes
<1>2. AnswersAreTaken <=> [][TakenStep]_vars
  BY DEF AnswersAreTaken, TakenStep
<1> QED
  BY <1>1, <1>2, TypedAlways, Invariant, PTL DEF Spec
----------------------------------------------------------------------------
(* The settings.  A push that began alone stays alone until `disturbed`    *)
(* says otherwise, and while its sends reach the TV what it has pushed is  *)
(* what the TV holds; once one does not, the link is down until the TV     *)
(* comes back, which is a disturbance.                                     *)

\* The TV holds what the push read of a field, and the next copy will say so.
Done(p, field) ==
    want[p][field] # Unset => tv[field] = want[p][field] /\ last[field] = want[p][field]

\* How far a push is, if all it sent has arrived.
Progress(p) ==
    /\ ppc[p] = "sendLatency" => /\ want[p].latency # Unset
                                 /\ msg[p].latency = want[p].latency
    /\ ppc[p] = "keepLatency" => /\ msg[p].latency = want[p].latency
                                 /\ tv.latency = want[p].latency
    /\ ppc[p] \in {"audio", "sendAudio"} => Done(p, "latency")
    /\ ppc[p] = "sendAudio" => /\ want[p].audio # Unset
                               /\ msg[p] = [last EXCEPT !.audio = want[p].audio]
    /\ ppc[p] = "keepAudio" => /\ want[p].latency # Unset => tv.latency = want[p].latency
                               /\ tv.audio = want[p].audio

Alive == sock # 0 /\ peer
Resting == todo = {} /\ \A p \in Pusher : ~AtWork(p)

\* What holds since the last push began alone, if no other did and the TV did not come back.
Alone   == \A p, q \in Pusher : AtWork(p) /\ AtWork(q) => p = q
Current == \A p \in Pusher : AtWork(p) /\ Sweep \notin todo => want[p] = wanted
Loaded  == \A p \in Pusher : sender = p /\ sock # 0 => via[p] = sock
Pushed  == Alive => \A p \in Pusher : Progress(p)
Rests   == Alive /\ Resting => Holds("latency") /\ Holds("audio")
Undisturbed ==
    rd \in {"recv", "accept", "done"} /\ Alone /\ Current /\ Loaded /\ Pushed /\ Rests

Quietly == ~disturbed => Undisturbed

LEMMA InitQuietly == ASSUME Init PROVE Quietly
<1>1. rd = "recv" /\ (\A p \in Pusher : ~AtWork(p)) /\ sender = NoThread /\ todo # {}
      /\ \A p \in Pusher : ppc[p] = "idle"
  BY DEF Init, AtWork
<1>2. NoThread \notin Pusher
  BY SettingsAre DEF Settings, Thread
<1> QED
  BY <1>1, <1>2 DEF Quietly, Undisturbed, Alone, Current, Loaded, Pushed, Progress, Rests, Resting

\* Who changes no setting and no push, and at most breaks the link, disturbs nothing.
LEMMA CalmQuietly ==
  ASSUME Typed, Quietly, UNCHANGED <<pushVars, confVars>>,
         rd \in {"recv", "accept", "done"} => rd' \in {"recv", "accept", "done"},
         sock' \in {0, sock}, peer' => peer,
         \A p \in Pusher : sender' = p => sender = p /\ via'[p] = via[p]
  PROVE  Quietly'
<1> SUFFICES ASSUME ~disturbed PROVE Undisturbed'
  BY DEF Quietly, confVars
<1>1. Undisturbed
  BY DEF Quietly
<1>2. Alive' => Alive /\ sock' = sock
  BY DEF Alive
<1>3. Alone' /\ Current'
  BY <1>1 DEF Undisturbed, Alone, Current, AtWork, pushVars
<1>4. Loaded'
  BY <1>1 DEF Undisturbed, Loaded
<1>5. Pushed'
  BY <1>1, <1>2 DEF Undisturbed, Pushed, Progress, Done, pushVars, confVars
<1>6. Rests'
  BY <1>1, <1>2 DEF Undisturbed, Rests, Resting, AtWork, Holds, pushVars, confVars
<1> QED
  BY <1>1, <1>3, <1>4, <1>5, <1>6 DEF Undisturbed

LEMMA LinkQuietly == ASSUME Typed, Quietly, LinkStep PROVE Quietly'
<1>1. CASE ReaderAccepts
  BY <1>1 DEF ReaderAccepts, Quietly
<1>2. CASE HelloComes \/ HelloFails \/ ReaderSends \/ ReaderKeeps
  <2>1. disturbed
    BY <1>2 DEF HelloComes, HelloFails, ReaderSends, Sending, ReaderKeeps, Quietly, Undisturbed, Typed,
       SendersSend
  <2>2. disturbed' = disturbed
    BY <1>2 DEF HelloComes, HelloFails, ReaderSends, ReaderKeeps, confVars
  <2> QED
    BY <2>1, <2>2 DEF Quietly
<1>3. CASE TvLeaves \/ ReaderLost \/ ReaderLeaves \/ Stops \/ Quits
  <2>1. UNCHANGED <<sendVars, pushVars, confVars>> /\ sock' \in {0, sock} /\ (peer' => peer)
    BY <1>3 DEF TvLeaves, ReaderLost, ReaderLeaves, Stops, Quits, CloseSocket
  <2>2. rd' \in {rd, "accept", "done"}
    BY <1>3 DEF TvLeaves, ReaderLost, ReaderLeaves, Stops, Quits
  <2>3. rd \in {"recv", "accept", "done"} => rd' \in {"recv", "accept", "done"}
    BY <2>2
  <2>4. \A p \in Pusher : sender' = p => sender = p /\ via'[p] = via[p]
    BY <2>1 DEF sendVars
  <2> QED
    BY <2>1, <2>3, <2>4, CalmQuietly
<1> QED
  BY <1>1, <1>2, <1>3 DEF LinkStep

LEMMA FeatureQuietly == ASSUME Typed, Quietly, FeatureStep PROVE Quietly'
<1>1. ASSUME UNCHANGED <<pushVars, confVars, rd, peer>>, sock' \in {0, sock},
             UNCHANGED sendVars \/ SendEnds
      PROVE  Quietly'
  <2>1. NoThread \notin Pusher
    BY SettingsAre DEF Settings, Thread
  <2>2. \A p \in Pusher : sender' = p => sender = p /\ via'[p] = via[p]
    BY <1>1, <2>1 DEF SendEnds, sendVars
  <2> QED
    BY <1>1, <2>2, CalmQuietly
<1>2. ASSUME NEW c \in Caller, NEW k \in Kind, Ask(c, k) PROVE Quietly'
  BY <1>1, <1>2 DEF Ask, connVars
<1>3. ASSUME NEW c \in Caller, CallStep(c) PROVE Quietly'
  <2>1. CASE CallSends(c)
    BY <1>1, <2>1 DEF CallSends, Breaks
  <2>2. CASE ~CallSends(c)
    BY <1>1, <1>3, <2>2 DEF CallStep, CallWakes, CallTimesOut, CallRefused, CallAnswered, CallAstray,
       Returns, connVars
  <2> QED
    BY <2>1, <2>2
<1>4. ASSUME NEW r \in asked, TvAnswers(r) PROVE Quietly'
  BY <1>1, <1>4 DEF TvAnswers, connVars
<1> QED
  BY <1>2, <1>3, <1>4 DEF FeatureStep, Kind

LEMMA LoadQuietly == ASSUME Typed, Quietly, NEW t \in Thread, SendLoads(t) PROVE Quietly'
<1> SUFFICES ASSUME ~disturbed PROVE Undisturbed'
  BY DEF Quietly, SendLoads, confVars
<1>1. Undisturbed
  BY DEF Quietly
<1>2. /\ UNCHANGED <<connVars, pushVars, confVars>>
      /\ sender' = t /\ via' = [via EXCEPT ![t] = sock] /\ via \in [Thread -> 0..conns]
  BY DEF SendLoads, Typed, SendTyped
<1>3. Loaded'
  BY <1>2 DEF Loaded, connVars, Thread
<1>4. Alone' /\ Current' /\ Pushed' /\ Rests'
  BY <1>1, <1>2 DEF Undisturbed, Alone, Current, Pushed, Progress, Done, Rests, Resting, AtWork, Holds,
     Alive, connVars, pushVars, confVars
<1> QED
  BY <1>1, <1>2, <1>3, <1>4 DEF Undisturbed, connVars

\* Once the settings change there is a push to do.
LEMMA ChangeQuietly == ASSUME Typed, Quietly, SettingsChange PROVE Quietly'
<1> SUFFICES ASSUME ~disturbed PROVE Undisturbed'
  BY DEF Quietly, SettingsChange, confVars
<1>1. Undisturbed
  BY DEF Quietly
<1>2. Sweep \in todo' /\ UNCHANGED <<ppc, want, msg, connVars, sendVars, confVars>>
  BY DEF SettingsChange
<1>3. Current' /\ Rests'
  BY <1>2 DEF Current, Rests, Resting
<1>4. Alone' /\ Loaded' /\ Pushed'
  BY <1>1, <1>2 DEF Undisturbed, Alone, Loaded, Pushed, Progress, Done, AtWork, Alive, connVars,
     sendVars, confVars
<1> QED
  BY <1>1, <1>2, <1>3, <1>4 DEF Undisturbed, connVars

\* A push that begins alone begins with nothing done.
LEMMA BeginsQuietly == ASSUME Typed, Quietly, NEW p \in Pusher, PushBegins(p) PROVE Quietly'
<1> SUFFICES ASSUME ~disturbed' PROVE Undisturbed'
  BY DEF Quietly
<1>1. rd = "recv" /\ \A q \in Pusher : ~AtWork(q)
  BY DEF PushBegins
<1>2. /\ ppc' = [ppc EXCEPT ![p] = "latency"] /\ want' = [want EXCEPT ![p] = wanted]
      /\ UNCHANGED <<wanted, msg, last, tv, connVars, sendVars>>
      /\ ppc[p] = "idle"
  BY DEF PushBegins, AtWork
<1>3. \A q \in Pusher : ppc'[q] = IF q = p THEN "latency" ELSE "idle"
  BY <1>1, <1>2 DEF AtWork, Typed, PushTyped
<1>4. want'[p] = wanted
  BY <1>2 DEF Typed, PushTyped
<1>5. Alone' /\ Current' /\ Rests'
  BY <1>2, <1>3, <1>4 DEF Alone, Current, Rests, Resting, AtWork
<1>6. Loaded'
  BY <1>1, <1>2 DEF Loaded, AtWork, Typed, SendersSend, sendVars
<1>7. Pushed'
  BY <1>3 DEF Pushed, Progress
<1> QED
  BY <1>1, <1>2, <1>5, <1>6, <1>7 DEF Undisturbed, connVars

\* What a push at work must show of its step.
LEMMA WorksQuietly ==
  ASSUME Typed, Undisturbed, NEW p \in Pusher, AtWork(p),
         UNCHANGED <<wanted, todo, want, rd>>,
         NEW to, ppc' = [ppc EXCEPT ![p] = to], Loaded',
         Alive' => Progress(p)',
         Alive' /\ to = "idle" => /\ want[p].latency # Unset => tv'.latency = want[p].latency
                                  /\ want[p].audio # Unset => tv'.audio = want[p].audio
  PROVE  Undisturbed'
<1>1. /\ \A q \in Pusher : q # p => ppc[q] = "idle" /\ ppc'[q] = "idle"
      /\ ppc'[p] = to
  BY DEF Undisturbed, Alone, AtWork, Typed, PushTyped
<1>2. Alone'
  BY <1>1 DEF Alone, AtWork
<1>3. Current'
  BY <1>1 DEF Undisturbed, Current, AtWork
<1>4. Pushed'
  <2>1. ASSUME NEW q \in Pusher, q # p PROVE Progress(q)'
    BY <1>1, <2>1 DEF Progress
  <2> QED
    BY <2>1 DEF Pushed
<1>5. Rests'
  <2> SUFFICES ASSUME Alive', Resting' PROVE (Holds("latency") /\ Holds("audio"))'
    BY DEF Rests
  <2>1. to = "idle" /\ Sweep \notin todo
    BY <1>1 DEF Resting, AtWork
  <2>2. want[p] = wanted
    BY <2>1 DEF Undisturbed, Current
  <2> QED
    BY <2>1, <2>2 DEF Holds
<1> QED
  BY <1>2, <1>3, <1>4, <1>5 DEF Undisturbed

LEMMA CopiesLatency ==
  ASSUME Typed, Undisturbed, NEW p \in Pusher,
         PushCopies(p, "latency", "latency", "sendLatency", "audio")
  PROVE  Undisturbed'
<1>1. /\ AtWork(p) /\ UNCHANGED <<wanted, todo, want, rd, last, tv, sock, peer, sender, via>>
      /\ ppc \in [Pusher -> {"idle", "latency", "sendLatency", "keepLatency", "audio", "sendAudio",
                            "keepAudio"}]
      /\ msg \in [Pusher -> Config] /\ last \in Config
  BY DEF PushCopies, AtWork, connVars, sendVars, confVars, Typed, PushTyped, ConfTyped
<1>2. Loaded'
  BY <1>1 DEF Undisturbed, Loaded
<1>3. CASE want[p].latency = Unset
  <2>1. ppc' = [ppc EXCEPT ![p] = "audio"]
    BY <1>3 DEF PushCopies
  <2>2. Progress(p)'
    BY <1>1, <1>3, <2>1 DEF Progress, Done
  <2> QED
    BY <1>1, <1>2, <2>1, <2>2, WorksQuietly
<1>4. CASE want[p].latency # Unset
  <2>1. /\ ppc' = [ppc EXCEPT ![p] = "sendLatency"]
        /\ msg' = [msg EXCEPT ![p] = [last EXCEPT !.latency = want[p].latency]]
    BY <1>4 DEF PushCopies
  <2>2. msg'[p].latency = want[p].latency
    BY <1>1, <2>1 DEF Config
  <2>3. Progress(p)'
    BY <1>1, <1>4, <2>1, <2>2 DEF Progress
  <2> QED
    BY <1>1, <1>2, <2>1, <2>3, WorksQuietly
<1> QED
  BY <1>3, <1>4

LEMMA CopiesAudio ==
  ASSUME Typed, Undisturbed, NEW p \in Pusher,
         PushCopies(p, "audio", "audio", "sendAudio", "idle")
  PROVE  Undisturbed'
<1>1. /\ AtWork(p) /\ UNCHANGED <<wanted, todo, want, rd, last, tv, sock, peer, sender, via>>
      /\ ppc \in [Pusher -> {"idle", "latency", "sendLatency", "keepLatency", "audio", "sendAudio",
                            "keepAudio"}]
      /\ msg \in [Pusher -> Config]
  BY DEF PushCopies, AtWork, connVars, sendVars, confVars, Typed, PushTyped
<1>2. Loaded'
  BY <1>1 DEF Undisturbed, Loaded
<1>3. Alive' => Done(p, "latency")
  BY <1>1 DEF PushCopies, Undisturbed, Pushed, Progress, Alive
<1>4. CASE want[p].audio = Unset
  <2>1. ppc' = [ppc EXCEPT ![p] = "idle"]
    BY <1>4 DEF PushCopies
  <2>2. Progress(p)'
    BY <1>1, <2>1 DEF Progress
  <2> QED
    BY <1>1, <1>2, <1>3, <1>4, <2>1, <2>2, WorksQuietly DEF Done
<1>5. CASE want[p].audio # Unset
  <2>1. /\ ppc' = [ppc EXCEPT ![p] = "sendAudio"]
        /\ msg' = [msg EXCEPT ![p] = [last EXCEPT !.audio = want[p].audio]]
    BY <1>5 DEF PushCopies
  <2>2. msg'[p] = [last EXCEPT !.audio = want[p].audio]
    BY <1>1, <2>1
  <2>3. Alive' => Progress(p)'
    BY <1>1, <1>3, <1>5, <2>1, <2>2 DEF Progress, Done
  <2> QED
    BY <1>1, <1>2, <2>1, <2>3, WorksQuietly
<1> QED
  BY <1>4, <1>5

\* While the link is up a push's send reaches the TV.
LEMMA SendsArrive ==
  ASSUME Typed, Undisturbed, NEW p \in Pusher, NEW at, NEW keep, NEW past,
         PushSends(p, at, keep, past)
  PROVE  /\ Alive' => Alive /\ tv' = Applied(msg[p]) /\ ppc' = [ppc EXCEPT ![p] = keep]
         /\ \E to \in {keep, past} : ppc' = [ppc EXCEPT ![p] = to]
         /\ Loaded'
<1>1. Alive' => Alive
  BY DEF PushSends, Breaks, Alive
<1>2. ASSUME Alive PROVE Arrives(p)
  BY <1>2 DEF PushSends, Sending, Arrives, Alive, Undisturbed, Loaded
<1>3. Alive' => tv' = Applied(msg[p]) /\ ppc' = [ppc EXCEPT ![p] = keep]
  BY <1>1, <1>2 DEF PushSends, Breaks, Vanishes, Alive
<1>4. NoThread \notin Pusher
  BY SettingsAre DEF Settings, Thread
<1>5. Loaded'
  BY <1>4 DEF PushSends, SendEnds, Loaded
<1> QED
  BY <1>1, <1>3, <1>5 DEF PushSends

\* What a config says the TV holds.
LEMMA AppliedSays ==
  ASSUME NEW m
  PROVE  /\ m.latency # Unset => Applied(m).latency = m.latency
         /\ m.audio \notin {Unset, Zero} => Applied(m).audio = m.audio
  BY DEF Applied

LEMMA SendsLatency ==
  ASSUME Typed, Undisturbed, NEW p \in Pusher, PushSends(p, "sendLatency", "keepLatency", "audio")
  PROVE  Undisturbed'
<1>1. /\ AtWork(p) /\ UNCHANGED <<wanted, todo, want, rd, msg, last>>
      /\ ppc \in [Pusher -> {"idle", "latency", "sendLatency", "keepLatency", "audio", "sendAudio",
                            "keepAudio"}]
  BY DEF PushSends, AtWork, Typed, PushTyped
<1>2. /\ Alive' => Alive /\ tv' = Applied(msg[p]) /\ ppc' = [ppc EXCEPT ![p] = "keepLatency"]
      /\ Loaded'
  BY SendsArrive
<1>3. PICK to \in {"keepLatency", "audio"} : ppc' = [ppc EXCEPT ![p] = to]
  BY SendsArrive
<1>4. Alive' => Progress(p)'
  <2> SUFFICES ASSUME Alive' PROVE Progress(p)'
    OBVIOUS
  <2>1. want[p].latency # Unset /\ msg[p].latency = want[p].latency
    BY <1>2 DEF PushSends, Undisturbed, Pushed, Progress
  <2>2. tv'.latency = want[p].latency
    BY <1>2, <2>1, AppliedSays
  <2>3. ppc'[p] = "keepLatency"
    BY <1>1, <1>2
  <2> QED
    BY <1>1, <2>1, <2>2, <2>3 DEF Progress
<1> QED
  BY <1>1, <1>2, <1>3, <1>4, WorksQuietly

LEMMA SendsAudio ==
  ASSUME Typed, Undisturbed, NEW p \in Pusher, PushSends(p, "sendAudio", "keepAudio", "idle")
  PROVE  Undisturbed'
<1>1. /\ AtWork(p) /\ UNCHANGED <<wanted, todo, want, rd, msg, last>>
      /\ ppc \in [Pusher -> {"idle", "latency", "sendLatency", "keepLatency", "audio", "sendAudio",
                            "keepAudio"}]
      /\ last \in Config /\ want[p] \in Own
  BY DEF PushSends, AtWork, Typed, PushTyped, ConfTyped
<1>2. /\ Alive' => Alive /\ tv' = Applied(msg[p]) /\ ppc' = [ppc EXCEPT ![p] = "keepAudio"]
      /\ Loaded'
  BY SendsArrive
<1>3. PICK to \in {"keepAudio", "idle"} : ppc' = [ppc EXCEPT ![p] = to]
  BY SendsArrive
<1>4. Alive' => Progress(p)' /\ ppc'[p] = "keepAudio"
  <2> SUFFICES ASSUME Alive' PROVE Progress(p)' /\ ppc'[p] = "keepAudio"
    OBVIOUS
  <2>1. /\ want[p].audio # Unset /\ msg[p] = [last EXCEPT !.audio = want[p].audio]
        /\ Done(p, "latency")
    BY <1>2 DEF PushSends, Undisturbed, Pushed, Progress
  <2>2. /\ msg[p].audio = want[p].audio /\ msg[p].latency = last.latency
    BY <1>1, <2>1 DEF Config
  <2>3. want[p].audio \notin {Unset, Zero}
    BY <1>1, <2>1, SettingsAre DEF Settings, Own, Named
  <2>4. tv'.audio = want[p].audio
    BY <1>2, <2>2, <2>3, AppliedSays
  <2>5. want[p].latency # Unset => tv'.latency = want[p].latency
    BY <1>2, <2>1, <2>2, AppliedSays DEF Done
  <2>6. ppc'[p] = "keepAudio"
    BY <1>1, <1>2
  <2> QED
    BY <1>1, <2>4, <2>5, <2>6 DEF Progress
<1>5. Alive' => to # "idle"
  BY <1>1, <1>3, <1>4
<1> QED
  BY <1>1, <1>2, <1>3, <1>4, <1>5, WorksQuietly

LEMMA KeepsQuietly ==
  ASSUME Typed, Undisturbed, NEW p \in Pusher,
         PushKeeps(p, "keepLatency", "audio") \/ PushKeeps(p, "keepAudio", "idle")
  PROVE  Undisturbed'
<1>1. /\ AtWork(p) /\ UNCHANGED <<wanted, todo, want, rd, tv, sock, peer, sender, via>>
      /\ last' = msg[p]
      /\ ppc \in [Pusher -> {"idle", "latency", "sendLatency", "keepLatency", "audio", "sendAudio",
                            "keepAudio"}]
  BY DEF PushKeeps, Remembered, AtWork, connVars, sendVars, Typed, PushTyped
<1>2. Loaded'
  BY <1>1 DEF Undisturbed, Loaded
<1>3. Alive' => Progress(p)
  BY <1>1 DEF Undisturbed, Pushed, Alive
<1>4. CASE PushKeeps(p, "keepLatency", "audio")
  <2>1. ppc[p] = "keepLatency" /\ ppc' = [ppc EXCEPT ![p] = "audio"]
    BY <1>4 DEF PushKeeps
  <2>2. Alive' => Progress(p)'
    BY <1>1, <1>3, <2>1 DEF Progress, Done
  <2> QED
    BY <1>1, <1>2, <2>1, <2>2, WorksQuietly
<1>5. CASE PushKeeps(p, "keepAudio", "idle")
  <2>1. ppc[p] = "keepAudio" /\ ppc' = [ppc EXCEPT ![p] = "idle"]
    BY <1>5 DEF PushKeeps
  <2>2. Progress(p)'
    BY <1>1, <2>1 DEF Progress
  <2>3. Alive' => /\ want[p].latency # Unset => tv'.latency = want[p].latency
                  /\ want[p].audio # Unset => tv'.audio = want[p].audio
    BY <1>1, <1>3, <2>1 DEF Progress
  <2> QED
    BY <1>1, <1>2, <2>1, <2>2, <2>3, WorksQuietly
<1> QED
  BY <1>4, <1>5

LEMMA PushQuietly == ASSUME Typed, Quietly, NEW p \in Pusher, PushStep(p) PROVE Quietly'
<1>1. CASE PushBegins(p)
  BY <1>1, BeginsQuietly
<1>2. CASE ~PushBegins(p)
  <2>1. disturbed' = disturbed
    BY <1>2 DEF PushStep, PushCopies, PushSends, PushKeeps, confVars
  <2>2. Undisturbed => Undisturbed'
    BY <1>2, CopiesLatency, CopiesAudio, SendsLatency, SendsAudio, KeepsQuietly DEF PushStep
  <2> QED
    BY <2>1, <2>2 DEF Quietly
<1> QED
  BY <1>1, <1>2

LEMMA QuietlyInductive == Typed /\ Quietly /\ [Next]_vars => Quietly'
<1>1. ASSUME Typed, Quietly, UNCHANGED vars PROVE Quietly'
  BY <1>1, CalmQuietly DEF vars, connVars, sendVars
<1>2. ASSUME Typed, Quietly, Next PROVE Quietly'
  <2>1. CASE AtRest
    BY <1>1, <1>2, <2>1 DEF AtRest
  <2> QED
    BY <1>2, <2>1, LinkQuietly, FeatureQuietly, ChangeQuietly, PushQuietly, LoadQuietly
    DEF Next, SettingsStep
<1> QED
  BY <1>1, <1>2

\* When nothing is under way the TV holds the settings the session is configured with, unless
\* two pushes overlapped or the TV came back, for any callers, connections and changes.
THEOREM SettingsKept == Spec => []SettingsHeld
<1>1. Init => Quietly
  BY InitQuietly
<1>2. Quietly => SettingsHeld
  BY DEF Quietly, Undisturbed, Rests, Resting, Alive, SettingsHeld, Settled
<1> QED
  BY <1>1, <1>2, TypedAlways, QuietlyInductive, PTL DEF Spec
----------------------------------------------------------------------------
(* The session: the link and the sound beside each other.                  *)

\* A step of the session is a step of the link or leaves it alone, and the same of the sound.
LEMMA SessionSteps == [MCNext]_mcVars => [Next]_vars /\ [AudioNext]_audioVars
<1>1. ASSUME OnLink(LinkNext) PROVE Next /\ UNCHANGED audioVars
  BY <1>1 DEF OnLink, LinkNext, Next
<1>2. ASSUME InSound(AudioNext) PROVE AudioNext /\ UNCHANGED vars
  BY <1>2 DEF InSound
<1>3. ASSUME UNCHANGED mcVars PROVE UNCHANGED vars /\ UNCHANGED audioVars
  BY <1>3 DEF mcVars
<1> QED
  BY <1>1, <1>2, <1>3 DEF MCNext

\* A session (MCSpec) is a link as BridgeLink specifies it and the sound as AudioOut does: what
\* is proved of either holds of the two beside each other.
THEOREM SessionIsBoth == MCSpec => Spec /\ AudioSpec
<1>1. MCInit => Init /\ AudioInit
  BY DEF MCInit
<1>2. [MCNext]_mcVars => [Next]_vars
  BY SessionSteps
<1>3. [MCNext]_mcVars => [AudioNext]_audioVars
  BY SessionSteps
<1> QED
  BY <1>1, <1>2, <1>3, PTL DEF MCSpec, Spec, AudioSpec

\* The link with its callers and pushes, and the reservoir with its builder, are in a state
\* that send_message, remote_feature, the pushes and audio_builder_loop can leave them in.
THEOREM SessionsHold == MCSpec => []SessionHolds
<1>1. TypeOK /\ AudioTypeOK => SessionHolds
  BY DEF SessionHolds
<1> QED
  BY <1>1, SessionIsBoth, TypeCorrect, SoundTyped, PTL

\* While the session goes on, replies are their callers' own, settled settings are the TV's, the
\* sound keeps its channels in bounded bursts and the builder ends before its backend.
THEOREM SessionKeepsAll ==
  MCSpec => [](ReplyIsOwn /\ SettingsHeld /\ SoundHolds /\ BackendOutlivesBuilder)
<1> QED
  BY SessionIsBoth, RepliesAreOwn, SettingsKept, SoundKept, BuilderEndsFirst, PTL
============================================================================
