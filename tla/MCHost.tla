------------------------------- MODULE MCHost -------------------------------
(* An instance for TLC of what a host asks of a device: its connection         *)
(* (UrbSession), endpoint 0 (ControlPipe) and the microphone it hears          *)
(* (MicRing).  The three share no state and no lock, so `part` has one of them *)
(* move and saves their product.                                               *)
EXTENDS UrbSession, ControlPipe, MicRing, TLC

VARIABLE part

hostVars == <<vars, pipeVars, ringVars, part>>

HostInit == /\ Init /\ PipeInit /\ RingInit
            /\ part \in {"urbs", "pipe", "mic"}
            /\ part # "pipe" => levels = [c \in Control |-> CHOOSE v \in Level : TRUE]

InUrbs(A) == part = "urbs" /\ A /\ UNCHANGED <<pipeVars, ringVars, part>>
InPipe(A) == part = "pipe" /\ A /\ UNCHANGED <<vars, ringVars, part>>
InMic(A)  == part = "mic" /\ A /\ UNCHANGED <<vars, pipeVars, part>>

HostNext == InUrbs(Next) \/ InPipe(PipeNext) \/ InMic(RingNext)

HostSpec == HostInit /\ [][HostNext]_hostVars

\* The state of each is well-formed, urb_loop outlives its threads, and a host
\* is given the page it named.
HostHolds == /\ TypeOK /\ PipeTypeOK /\ RingTypeOK
             /\ NoThreadOutlivesLoop /\ PagesAreOwn
============================================================================
