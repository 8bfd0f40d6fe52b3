---------------------------- MODULE MCBridgeLink ----------------------------
(* An instance for TLC of what a session sends its pad's way: the features and *)
(* the settings of BridgeLink, which share the link and sendMutex_ but no      *)
(* state of their own, and the sound of AudioOut, which shares no state and no *)
(* lock with these.  `busy` says which of the three a behaviour has, and saves *)
(* their product.                                                              *)
EXTENDS BridgeLink, AudioOut, TLC

VARIABLE busy

mcVars == <<vars, audioVars, busy>>

MCInit == /\ Init /\ AudioInit
          /\ busy \in {"features", "settings", "sound"}
          /\ busy # "settings" => wanted = [latency |-> Unset, audio |-> Unset]

OnLink(A)  == A /\ UNCHANGED <<audioVars, busy>>
InSound(A) == busy = "sound" /\ A /\ UNCHANGED <<vars, busy>>

LinkNext ==
    /\ busy \in {"features", "settings"}
    /\ \/ LinkStep \/ AtRest \/ (\E t \in Thread : SendLoads(t))
       \/ busy = "features" /\ FeatureStep
       \/ busy = "settings" /\ SettingsStep

MCNext == OnLink(LinkNext) \/ InSound(AudioNext)

\* Every thread that has begun a send or a wait is scheduled.  The builder's thread is
\* scheduled and time goes on; so do the stop and the destructors behind it, once begun.
\* Nothing obliges a host to play, a session to be stopped or a listener to quit.
MCSpec ==
    /\ MCInit /\ [][MCNext]_mcVars
    /\ \A c \in Caller : WF_mcVars(OnLink(CallStep(c))) /\ SF_mcVars(OnLink(SendLoads(c)))
    /\ \A p \in Pusher : WF_mcVars(busy = "settings" /\ OnLink(PushStep(p)))
    /\ WF_mcVars(OnLink(ReaderSends))
    /\ WF_mcVars(InSound(BuilderStep)) /\ WF_mcVars(InSound(Tick))

\* The settings alone.
SettingsSpec == MCInit /\ busy = "settings" /\ [][MCNext]_mcVars

\* The state of each is well-formed.
SessionHolds == TypeOK /\ AudioTypeOK

\* The sound goes on as AudioOut says: a whole chunk that has come is played without a
\* new warm-up, and the builder ends once it is told to.
SoundServes == WholeChunksPlay /\ BuilderEnds
=============================================================================
