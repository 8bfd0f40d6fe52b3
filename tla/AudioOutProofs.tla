--------------------------- MODULE AudioOutProofs ---------------------------
(***************************************************************************)
(* What holds of the audio to the pad for every size of the reservoir, of  *)
(* its chunks and of the builder's clock: the samples keep their channels, *)
(* a burst is bounded, and the builder does not outlive its backend.       *)
(***************************************************************************)
EXTENDS AudioOut, TLAPS

Sizes == /\ Channels \in Nat \ {0} /\ ChunkFrames \in Nat \ {0}
         /\ PlayFrames \subseteq Nat \ {0}
         /\ MaxFrames \in Nat /\ WarmupFrames \in Nat
         /\ Pace \in Nat \ {0} /\ Late \in Nat /\ Longest \in Nat

LEMMA SizesHold == Sizes
  BY AudioAssumption DEF AudioAssumption, Sizes
----------------------------------------------------------------------------
(* The inductive invariant.                                                *)

\* The reservoir holds whole frames and starts on one.
WholeFramesHeld == front = 0 /\ \E k \in Nat : held = k * Channels

\* The builder is ahead of real time by what it may catch up on and no more;
\* between a send and the pacing after it, by one chunk more.
Ahead == Greater(0, due + Late)

ClockInv ==
    /\ bpc \notin {"sleep", "done"} => due <= 0
    /\ credit <= IF bpc = "pace" THEN Ahead + Pace ELSE Ahead

\* A stop that has passed the device leaves no builder, unless the attach came
\* after it.
StopInv ==
    /\ ~attached => bpc = "none"
    /\ stage = "live" => building \/ BuilderGone
    /\ stage \in {"stopped", "freed", "joinAgain", "gone"} => BuilderGone \/ overtaken

SoundInv == AudioTypeOK /\ WholeFramesHeld /\ ClockInv /\ StopInv
----------------------------------------------------------------------------
(* Frames.                                                                 *)

\* A whole number of frames ends on a frame.
LEMMA WholeFrames ==
  ASSUME NEW c \in Nat \ {0}, NEW k \in Nat
  PROVE  (k * c) % c = 0
  OBVIOUS

\* What a push drops of a reservoir of whole frames is whole frames, and no more
\* than it holds.
DropOf(c, k, f, m) == Lesser(k * c, Greater(0, k * c + f * c - m * c))

LEMMA DropsFrames ==
  ASSUME NEW c \in Nat \ {0}, NEW k \in Nat, NEW f \in Nat, NEW m \in Nat
  PROVE  \E d \in 0..k : DropOf(c, k, f, m) = d * c
<1> DEFINE drop == DropOf(c, k, f, m)
<1>1. k * c + f * c - m * c = (k + f - m) * c
  OBVIOUS
<1>2. CASE k + f - m <= 0
  <2>1. (k + f - m) * c <= 0
    BY <1>2
  <2>2. k * c \in Nat
    OBVIOUS
  <2>3. drop = 0 * c
    BY <1>1, <2>1, <2>2 DEF DropOf, Lesser, Greater
  <2> QED
    BY <2>3
<1>3. CASE k + f - m \in 1..k
  <2>1. (k + f - m) * c > 0 /\ (k + f - m) * c <= k * c
    BY <1>3
  <2>2. drop = (k + f - m) * c
    BY <1>1, <2>1 DEF DropOf, Lesser, Greater
  <2> QED
    BY <1>3, <2>2
<1>4. CASE k + f - m > k
  <2>1. (k + f - m) * c > k * c /\ k * c \in Nat
    BY <1>4
  <2>2. drop = k * c
    BY <1>1, <2>1 DEF DropOf, Lesser, Greater
  <2> QED
    BY <2>2
<1> QED
  BY <1>2, <1>3, <1>4

\* A chunk taken of whole frames leaves whole frames.
LEMMA TakesFrames ==
  ASSUME NEW c \in Nat \ {0}, NEW k \in Nat, NEW n \in Nat, k * c >= n * c
  PROVE  k - n \in Nat /\ k * c - n * c = (k - n) * c
<1>1. k >= n
  <2>1. SUFFICES ASSUME k < n PROVE FALSE
    OBVIOUS
  <2>2. (n - k) * c > 0
    BY <2>1
  <2> QED
    BY <2>2
<1> QED
  BY <1>1

\* The host's push keeps the frames whole.
LEMMA PushKeepsFrames ==
  ASSUME SoundInv, NEW n \in PlayFrames, HostPlays(n)
  PROVE  WholeFramesHeld' /\ held' \in Nat
<1> DEFINE drop == Lesser(held, Greater(0, held + n * Channels - MaxSamples))
<1>1. PICK k \in Nat : held = k * Channels
  BY DEF SoundInv, WholeFramesHeld
<1>2. Channels \in Nat \ {0} /\ MaxFrames \in Nat /\ n \in Nat
  BY SizesHold DEF Sizes
<1>3. PICK d \in 0..k : DropOf(Channels, k, n, MaxFrames) = d * Channels
  BY <1>2, DropsFrames
<1>4. drop = d * Channels
  BY <1>1, <1>3 DEF DropOf, MaxSamples
<1>5. held' = (k - d + n) * Channels /\ k - d + n \in Nat
  BY <1>1, <1>2, <1>4 DEF HostPlays
<1>6. front' = (d * Channels) % Channels
  <2>1. front' = (0 + drop) % Channels
    BY DEF HostPlays, Leave, SoundInv, WholeFramesHeld
  <2>2. 0 + d * Channels = d * Channels
    BY <1>2
  <2> QED
    BY <1>4, <2>1, <2>2
<1>7. front' = 0
  BY <1>2, <1>6, WholeFrames
<1>8. (k - d + n) * Channels \in Nat
  BY <1>2, <1>5
<1> QED
  BY <1>5, <1>7, <1>8 DEF WholeFramesHeld

\* And so does a chunk that is pulled.
LEMMA PullKeepsFrames ==
  ASSUME SoundInv, PullReady
  PROVE  WholeFramesHeld' /\ held' \in Nat
<1> USE SizesHold DEF Sizes
<1>1. PICK k \in Nat : held = k * Channels
  BY DEF SoundInv, WholeFramesHeld
<1>2. held >= ChunkFrames * Channels
  BY DEF PullReady, Ready, ChunkSamples
<1>3. k - ChunkFrames \in Nat /\ held' = (k - ChunkFrames) * Channels
  BY <1>1, <1>2, TakesFrames DEF PullReady, ChunkSamples
<1>4. front' = (ChunkFrames * Channels) % Channels
  <2>1. ChunkFrames * Channels \in Nat
    OBVIOUS
  <2> QED
    BY <2>1 DEF PullReady, Leave, ChunkSamples, SoundInv, WholeFramesHeld
<1>5. front' = 0
  BY <1>4, WholeFrames
<1>6. (k - ChunkFrames) * Channels \in Nat
  BY <1>3
<1> QED
  BY <1>3, <1>5, <1>6 DEF WholeFramesHeld
----------------------------------------------------------------------------
(* One step.                                                               *)

LEMMA SoundInit == ASSUME AudioInit PROVE SoundInv
<1> USE SizesHold DEF Sizes
<1>1. AudioTypeOK
  <2>1. warmed \in BOOLEAN
    BY DEF AudioInit
  <2>2. held \in Nat /\ front \in 0..(Channels - 1) /\ due \in (-Longest)..Pace
    BY DEF AudioInit
  <2> QED
    BY <2>1, <2>2 DEF AudioInit, AudioTypeOK
<1>2. WholeFramesHeld
  <2>1. held = 0 * Channels
    BY DEF AudioInit
  <2> QED
    BY <2>1 DEF AudioInit, WholeFramesHeld
<1>3. ClockInv
  BY DEF AudioInit, ClockInv, Ahead, Greater
<1>4. StopInv
  BY DEF AudioInit, StopInv, BuilderGone
<1> QED
  BY <1>1, <1>2, <1>3, <1>4 DEF SoundInv

\* The types.
LEMMA TypeStep == ASSUME SoundInv, AudioNext PROVE AudioTypeOK'
<1> USE SizesHold DEF Sizes, AudioTypeOK, Builder
<1>0. AudioTypeOK /\ front = 0
  BY DEF SoundInv, WholeFramesHeld
<1>1. ASSUME NEW n \in PlayFrames, HostPlays(n) PROVE AudioTypeOK'
  <2>1. held' \in Nat /\ front' = 0
    BY <1>1, PushKeepsFrames DEF WholeFramesHeld
  <2>2. warmed' \in BOOLEAN
    BY <1>1 DEF HostPlays
  <2> QED
    BY <1>0, <1>1, <2>1, <2>2 DEF HostPlays, paceVars, lifeVars
<1>2. CASE PullReady
  <2>1. held' \in Nat /\ front' = 0
    BY <1>2, PullKeepsFrames DEF WholeFramesHeld
  <2> QED
    BY <1>0, <1>2, <2>1 DEF PullReady, paceVars, lifeVars
<1>3. CASE BuilderTop \/ PullStops \/ BuilderBuilds
  BY <1>0, <1>3 DEF BuilderTop, PullStops, BuilderBuilds, streamVars, paceVars, lifeVars
<1>4. CASE PullTimesOut
  BY <1>0, <1>4 DEF PullTimesOut, WarmthKept, paceVars, lifeVars
<1>5. CASE BuilderSends
  BY <1>0, <1>5 DEF BuilderSends, streamVars, lifeVars
<1>6. CASE BuilderPaces
  <2>1. due <= 0
    BY <1>6 DEF SoundInv, ClockInv, BuilderPaces
  <2>2. due' \in (-Longest)..Pace
    BY <1>0, <1>6, <2>1 DEF BuilderPaces, Rebased
  <2> QED
    BY <1>0, <1>6, <2>2 DEF BuilderPaces, streamVars, lifeVars
<1>7. CASE BuilderWakes
  BY <1>0, <1>7 DEF BuilderWakes, streamVars, paceVars, lifeVars
<1>8. CASE Tick
  <2>1. due' \in (-Longest)..Pace /\ credit' \in Nat
    BY <1>0, <1>8 DEF Tick, Greater
  <2> QED
    BY <1>0, <1>8, <2>1 DEF Tick, streamVars, lifeVars
<1>9. CASE Attach \/ AttachNever
  BY <1>0, <1>9 DEF Attach, AttachNever, streamVars, paceVars
<1>10. ASSUME NEW from, NEW join \in {"join", "joinAgain"}, NEW past \in {"stopped", "gone"},
              StopFlags(from, join, past) \/ StopJoins(from, past)
       PROVE  AudioTypeOK'
  BY <1>0, <1>10 DEF StopFlags, StopJoins, streamVars, paceVars
<1>11. CASE BackendFreed \/ ListenerQuits
  BY <1>0, <1>11 DEF BackendFreed, ListenerQuits, streamVars, paceVars
<1> QED
  BY <1>1, <1>2, <1>3, <1>4, <1>5, <1>6, <1>7, <1>8, <1>9, <1>10, <1>11
  DEF AudioNext, BuilderStep, SessionStep

\* The reservoir.
LEMMA FramesStep == ASSUME SoundInv, AudioNext PROVE WholeFramesHeld'
<1>1. ASSUME NEW n \in PlayFrames, HostPlays(n) PROVE WholeFramesHeld'
  BY <1>1, PushKeepsFrames
<1>2. CASE PullReady
  BY <1>2, PullKeepsFrames
<1>3. CASE UNCHANGED <<held, front>>
  BY <1>3 DEF SoundInv, WholeFramesHeld
<1>4. CASE BuilderStep /\ ~PullReady
  BY <1>3, <1>4 DEF BuilderStep, BuilderTop, PullStops, PullTimesOut, BuilderBuilds,
                    BuilderSends, BuilderPaces, BuilderWakes, streamVars
<1>5. CASE SessionStep \/ Tick \/ ListenerQuits
  BY <1>3, <1>5 DEF SessionStep, Attach, AttachNever, StopFlags, StopJoins, BackendFreed,
                    Tick, ListenerQuits, streamVars
<1> QED
  BY <1>1, <1>2, <1>4, <1>5 DEF AudioNext

\* The clock: only a send adds to the credit, and the pacing after it puts the
\* clock as far ahead.
LEMMA ClockStep == ASSUME SoundInv, AudioNext PROVE ClockInv'
<1> USE SizesHold DEF Sizes
<1>0. /\ due \in (-Longest)..Pace /\ credit \in Nat /\ ClockInv
  BY DEF SoundInv, AudioTypeOK
<1>1. CASE BuilderSends
  BY <1>0, <1>1 DEF BuilderSends, Builder, ClockInv, Ahead, Greater
<1>2. CASE BuilderPaces
  <2>1. due <= 0 /\ credit <= Ahead + Pace
    BY <1>0, <1>2 DEF BuilderPaces, Builder, ClockInv
  <2>2. credit' = credit /\ due' = Rebased + Pace /\ bpc' = IF due' > 0 THEN "sleep" ELSE "top"
    BY <1>2 DEF BuilderPaces, Builder
  <2>3. Ahead + Pace <= Greater(0, due' + Late)
    BY <1>0, <2>1, <2>2 DEF Rebased, Ahead, Greater
  <2>4. due' \in Int
    BY <1>0, <2>2 DEF Rebased
  <2>5. Ahead' = Greater(0, due' + Late)
    BY DEF Ahead, Greater
  <2>6. credit' <= Ahead'
    BY <1>0, <2>1, <2>2, <2>3, <2>4, <2>5 DEF Ahead, Greater
  <2> QED
    BY <2>2, <2>4, <2>6 DEF ClockInv
<1>3. CASE BuilderWakes
  BY <1>0, <1>3 DEF BuilderWakes, Builder, paceVars, ClockInv, Ahead, Greater
<1>4. CASE Tick
  BY <1>0, <1>4 DEF Tick, ClockInv, Ahead, Greater
<1>5. CASE UNCHANGED paceVars /\ (bpc' = bpc \/ (bpc \notin {"pace", "sleep", "done"} /\ bpc' # "pace"))
  BY <1>0, <1>5 DEF paceVars, ClockInv, Ahead, Greater
<1>6. CASE BuilderTop \/ PullReady \/ PullStops \/ PullTimesOut \/ BuilderBuilds
  BY <1>5, <1>6 DEF BuilderTop, PullReady, PullStops, PullTimesOut, BuilderBuilds, Builder, paceVars
<1>7. CASE Attach
  BY <1>5, <1>7 DEF Attach, SoundInv, StopInv, paceVars
<1>8. ASSUME NEW n \in PlayFrames, HostPlays(n) PROVE ClockInv'
  BY <1>5, <1>8 DEF HostPlays, paceVars
<1>9. CASE (SessionStep /\ ~Attach) \/ ListenerQuits
  BY <1>5, <1>9 DEF SessionStep, AttachNever, StopFlags, StopJoins, BackendFreed, ListenerQuits, paceVars
<1> QED
  BY <1>1, <1>2, <1>3, <1>4, <1>6, <1>7, <1>8, <1>9 DEF AudioNext, BuilderStep

\* The stop and the attach.
LEMMA StopStep == ASSUME SoundInv, AudioNext PROVE StopInv'
<1>0. StopInv /\ AudioTypeOK
  BY DEF SoundInv
<1>1. CASE BuilderStep
  <2>1. UNCHANGED lifeVars /\ ~BuilderGone
    BY <1>1 DEF BuilderStep, BuilderTop, PullReady, PullStops, PullTimesOut, BuilderBuilds,
                BuilderSends, BuilderPaces, BuilderWakes, Builder, BuilderGone
  <2> QED
    BY <1>0, <2>1 DEF StopInv, BuilderGone, lifeVars
<1>2. CASE Tick \/ ListenerQuits \/ \E n \in PlayFrames : HostPlays(n)
  BY <1>0, <1>2 DEF Tick, ListenerQuits, HostPlays, StopInv, BuilderGone, lifeVars
<1>3. CASE Attach
  BY <1>0, <1>3 DEF Attach, StopInv, BuilderGone, AudioTypeOK
<1>4. CASE AttachNever
  BY <1>0, <1>4 DEF AttachNever, StopInv, BuilderGone
<1>5. CASE StopFlags("live", "join", "stopped") \/ StopFlags("freed", "joinAgain", "gone")
  BY <1>0, <1>5 DEF StopFlags, StopInv, BuilderGone
<1>6. CASE StopJoins("join", "stopped") \/ StopJoins("joinAgain", "gone")
  BY <1>0, <1>6 DEF StopJoins, Joins, StopInv, BuilderGone
<1>7. CASE BackendFreed
  BY <1>0, <1>7 DEF BackendFreed, StopInv, BuilderGone
<1> QED
  BY <1>1, <1>2, <1>3, <1>4, <1>5, <1>6, <1>7 DEF AudioNext, SessionStep

LEMMA SoundInductive == SoundInv /\ [AudioNext]_audioVars => SoundInv'
<1>1. ASSUME SoundInv, AudioNext PROVE SoundInv'
  BY <1>1, TypeStep, FramesStep, ClockStep, StopStep DEF SoundInv
<1>2. ASSUME SoundInv, UNCHANGED audioVars PROVE SoundInv'
  BY <1>2 DEF audioVars, streamVars, paceVars, lifeVars, SoundInv, AudioTypeOK, WholeFramesHeld,
              ClockInv, Ahead, Greater, StopInv, BuilderGone
<1> QED
  BY <1>1, <1>2
----------------------------------------------------------------------------
(* The theorems.                                                           *)

\* What the reservoir, the builder and the stop keep, with what they need of each other.
THEOREM SoundInvariant == AudioSpec => []SoundInv
<1>1. AudioInit => SoundInv
  BY SoundInit
<1> QED
  BY <1>1, SoundInductive, PTL DEF AudioSpec

\* Every variable keeps its type: the clock of the builder stays within the
\* bound behind and a chunk ahead.
THEOREM SoundTyped == AudioSpec => []AudioTypeOK
<1>1. SoundInv => AudioTypeOK
  BY DEF SoundInv
<1> QED
  BY <1>1, SoundInvariant, PTL

\* push and pull of CtmPcmReservoir keep the channels apart, whatever the
\* sizes and however often the reservoir overflows.
THEOREM ChannelsKept == AudioSpec => []ChannelsKeepTheirPlace
<1>1. SoundInv => ChannelsKeepTheirPlace
  BY DEF SoundInv, WholeFramesHeld, ChannelsKeepTheirPlace
<1> QED
  BY <1>1, SoundInvariant, PTL

\* audio_builder_loop's clock bounds what it sends ahead of real time, for
\* every pace and every limit.
THEOREM BurstsBounded == AudioSpec => []BurstBounded
<1>1. ASSUME SoundInv PROVE BurstBounded
  <2>1. /\ due \in Int /\ due <= Pace /\ credit \in Nat
        /\ bpc = "pace" => due <= 0
        /\ credit <= IF bpc = "pace" THEN Ahead + Pace ELSE Ahead
    BY <1>1, SizesHold DEF SoundInv, AudioTypeOK, ClockInv, Sizes
  <2> QED
    BY <2>1, SizesHold DEF Sizes, Ahead, Greater, BurstBounded
<1> QED
  BY <1>1, SoundInvariant, PTL

\* stop_bridge_session joins the builder before it frees the backend the builder
\* sends through, unless the stop came before the attach.
THEOREM BuilderEndsFirst == AudioSpec => []BackendOutlivesBuilder
<1>1. SoundInv => BackendOutlivesBuilder
  BY DEF SoundInv, StopInv, BackendOutlivesBuilder
<1> QED
  BY <1>1, SoundInvariant, PTL

\* Sound on its way to the pad keeps its channels, and comes in bursts of a bounded length
\* (the reservoir and audio_builder_loop).
THEOREM SoundKept == AudioSpec => []SoundHolds
<1>1. (ChannelsKeepTheirPlace /\ BurstBounded) => SoundHolds
  BY DEF SoundHolds
<1>2. QED
  BY ChannelsKept, BurstsBounded, <1>1, PTL
=============================================================================
