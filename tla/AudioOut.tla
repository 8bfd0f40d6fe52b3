------------------------------ MODULE AudioOut ------------------------------
(***************************************************************************)
(* The host's audio on its way to the pad: CtmPcmReservoir                 *)
(* (src/src/audio/reservoir.inl), the builder thread that empties it       *)
(* (audio_builder_loop of usbip/device.inl), and the session that starts   *)
(* the thread and frees the backend it sends through (app/agent.inl).      *)
(*                                                                         *)
(* Samples leave the reservoir at its front only, so it is a count and the *)
(* channel the front sample belongs to.  The builder's clock is kept as    *)
(* the time to nextBuild; a wait ends by data, by a stop or by its         *)
(* timeout, whenever the scheduler lets it.  A timed wait makes up for a   *)
(* notify it missed, so notifies are not modelled.  An operator no action  *)
(* uses is a plausible mistake in the one below it.                        *)
(***************************************************************************)
EXTENDS Integers

CONSTANTS Channels, MaxFrames, WarmupFrames,   \* CtmPcmReservoir::configure
          ChunkFrames,   \* audioFrameSamples_
          PlayFrames,    \* frames one ISO OUT request may carry, resampled
          KeepAlive,     \* underrun_silence of the map
          Pace,          \* audio_builder_pace_ms, of a map that sets one
          Late,          \* 50 ms: a builder later than this starts its clock anew
          Longest        \* bound: how far behind its clock the builder may be

ASSUME AudioAssumption ==
    /\ Channels \in Nat \ {0} /\ ChunkFrames \in Nat \ {0}
    /\ PlayFrames \subseteq Nat \ {0}
    /\ MaxFrames \in Nat /\ WarmupFrames \in 0..MaxFrames
    /\ ChunkFrames <= MaxFrames
    /\ KeepAlive \in BOOLEAN
    /\ Pace \in Nat \ {0} /\ Late \in Nat /\ Longest \in Nat /\ Late < Longest

FramesOnly    == MaxFrames
MaxSamples    == MaxFrames * Channels
WarmupSamples == WarmupFrames * Channels
ChunkSamples  == ChunkFrames * Channels

VARIABLES
    held,       \* samples.size()
    front,      \* the channel of samples.front()
    warmed,
    stopAsked,  \* stopRequested
    building,   \* audioThreadRunning_
    bpc,        \* where the builder thread is
    taken,      \* what this round of the loop took: "none", "audio" or "silence"
    started,    \* streamStarted
    due,        \* nextBuild less the time now
    attached,   \* whether the session's worker is past attach_backend
    stage,      \* how far stop_bridge_session, then the destructors, have got
    quitting,   \* g_stop
    credit,     \* history: time's worth of chunks sent and not yet run off
    overtaken   \* history: the stop passed the device before it was attached

streamVars == <<held, front, warmed>>
paceVars   == <<due, credit>>
lifeVars   == <<stopAsked, building, attached, stage, quitting, overtaken>>
audioVars  == <<streamVars, paceVars, lifeVars, bpc, taken, started>>

AudioTypeOK ==
    /\ held \in Nat /\ front \in 0..(Channels - 1)
    /\ bpc \in {"none", "top", "wait", "build", "send", "pace", "sleep", "done"}
    /\ taken \in {"none", "audio", "silence"}
    /\ due \in (-Longest)..Pace /\ credit \in Nat
    /\ stage \in {"live", "join", "stopped", "freed", "joinAgain", "gone"}
    /\ {warmed, stopAsked, building, started, attached, quitting, overtaken} \subseteq BOOLEAN

AudioInit ==
    /\ held = 0 /\ front = 0
    /\ warmed = (WarmupSamples = 0)
    /\ stopAsked = FALSE /\ building = FALSE
    /\ bpc = "none" /\ taken = "none" /\ started = FALSE
    /\ due = -Longest /\ credit = 0
    /\ attached = FALSE /\ stage = "live" /\ quitting = FALSE /\ overtaken = FALSE

Lesser(m, n) == IF m < n THEN m ELSE n
Greater(m, n) == IF m < n THEN n ELSE m
----------------------------------------------------------------------------
(* The reservoir and the URB loop that fills it.                           *)

Leave(n) == front' = (front + n) % Channels

\* process_iso_output: push drops the oldest samples to make room.
HostPlays(frames) ==
    LET count == frames * Channels
        drop  == Lesser(held, Greater(0, held + count - MaxSamples))
    IN
    /\ bpc # "none" /\ stage # "gone"    \* the device is exported after the attach
    /\ held' = held - drop + count
    /\ Leave(drop)
    /\ warmed' = (warmed \/ held' >= WarmupSamples)
    /\ UNCHANGED <<paceVars, lifeVars, bpc, taken, started>>
----------------------------------------------------------------------------
(* The builder.                                                            *)

Builder(from, to) == bpc = from /\ bpc' = to

BuilderTop ==
    /\ Builder("top", IF building /\ ~quitting THEN "wait" ELSE "done")
    /\ taken' = "none"
    /\ UNCHANGED <<streamVars, paceVars, lifeVars, started>>

Ready == warmed /\ held >= ChunkSamples

\* pull_timed returns 1.
PullReady ==
    /\ Builder("wait", "build")
    /\ Ready \/ (stopAsked /\ held >= ChunkSamples)
    /\ held' = held - ChunkSamples /\ Leave(ChunkSamples)
    /\ taken' = "audio" /\ started' = TRUE
    /\ UNCHANGED <<warmed, paceVars, lifeVars>>

\* pull_timed returns -1.
PullStops ==
    /\ stopAsked /\ held < ChunkSamples
    /\ Builder("wait", "done")
    /\ UNCHANGED <<streamVars, paceVars, lifeVars, taken, started>>

NeverTimesOut == FALSE
\* What the wait's predicate and its timeout come to: pull_timed returns 0.
TimesOut == ~stopAsked /\ ~Ready

WarmthKept == warmed

PullTimesOut ==
    /\ TimesOut
    /\ IF KeepAlive /\ started
       THEN Builder("wait", "build") /\ taken' = "silence"
       ELSE Builder("wait", "top") /\ UNCHANGED taken
    /\ warmed' = WarmthKept
    /\ UNCHANGED <<held, front, paceVars, lifeVars, started>>

\* build_stream_output_report; a chunk it fails on is neither sent nor paced.
BuilderBuilds ==
    /\ Builder("build", "send") \/ Builder("build", "top")
    /\ UNCHANGED <<streamVars, paceVars, lifeVars, taken, started>>

\* send_output_report, and the HID output repeated after it; a failure is only
\* counted.
BuilderSends ==
    /\ Builder("send", "pace")
    /\ credit' = credit + Pace
    /\ UNCHANGED <<streamVars, due, lifeVars, taken, started>>

Rebased == IF due < -Late THEN 0 ELSE due

BuilderPaces ==
    /\ due' = Rebased + Pace
    /\ Builder("pace", IF due' > 0 THEN "sleep" ELSE "top")
    /\ UNCHANGED <<streamVars, credit, lifeVars, taken, started>>

BuilderWakes ==
    /\ due <= 0 /\ Builder("sleep", "top")
    /\ UNCHANGED <<streamVars, paceVars, lifeVars, taken, started>>

BuilderStep ==
    \/ BuilderTop \/ PullReady \/ PullStops \/ PullTimesOut \/ BuilderBuilds
    \/ BuilderSends \/ BuilderPaces \/ BuilderWakes

Tick ==
    /\ due' = Greater(due - 1, -Longest)
    /\ credit' = Greater(credit - 1, 0)
    /\ UNCHANGED <<streamVars, lifeVars, bpc, taken, started>>
----------------------------------------------------------------------------
(* The session.                                                            *)

\* attach_backend, which ends in start_audio_stream.
Attach ==
    /\ ~attached /\ attached' = TRUE
    /\ building' = TRUE /\ bpc' = "top"
    /\ overtaken' = (stage # "live")
    /\ UNCHANGED <<streamVars, paceVars, stopAsked, stage, quitting, taken, started>>

\* The worker returns before attach_backend.
AttachNever ==
    /\ ~attached /\ attached' = TRUE
    /\ UNCHANGED <<streamVars, paceVars, stopAsked, building, stage, quitting,
                   overtaken, bpc, taken, started>>

\* stop_audio_stream up to its join: from device->stop(), later from ~CtmUsbipDevice.
StopFlags(from, join, past) ==
    /\ stage = from
    /\ stage' = IF building THEN join ELSE past
    /\ stopAsked' = (stopAsked \/ building)
    /\ building' = FALSE
    /\ UNCHANGED <<streamVars, paceVars, attached, quitting, overtaken, bpc, taken,
                   started>>

BuilderGone == bpc \in {"none", "done"}
Detaches == TRUE
Joins    == BuilderGone

StopJoins(from, past) ==
    /\ stage = from /\ Joins
    /\ stage' = past
    /\ UNCHANGED <<streamVars, paceVars, stopAsked, building, attached, quitting,
                   overtaken, bpc, taken, started>>

\* The worker is joined and the session freed: first its backend ...
BackendFreed ==
    /\ stage = "stopped" /\ attached
    /\ stage' = "freed"
    /\ UNCHANGED <<streamVars, paceVars, stopAsked, building, attached, quitting,
                   overtaken, bpc, taken, started>>

\* ... then, once no import holds it either, its device.
SessionStep ==
    \/ Attach \/ AttachNever
    \/ StopFlags("live", "join", "stopped") \/ StopJoins("join", "stopped")
    \/ BackendFreed
    \/ StopFlags("freed", "joinAgain", "gone") \/ StopJoins("joinAgain", "gone")

ListenerQuits ==
    /\ ~quitting /\ quitting' = TRUE
    /\ UNCHANGED <<streamVars, paceVars, stopAsked, building, attached, stage,
                   overtaken, bpc, taken, started>>

AudioNext ==
    \/ \E n \in PlayFrames : HostPlays(n)
    \/ BuilderStep \/ Tick \/ SessionStep \/ ListenerQuits

AudioSpec == AudioInit /\ [][AudioNext]_audioVars
----------------------------------------------------------------------------
(* Properties.                                                             *)

\* The four channels (speaker, then haptics) are interleaved: the reservoir
\* starts on a frame whatever has been dropped from it, or every later sample
\* would play on another channel.
ChannelsKeepTheirPlace == front = 0

\* However long the builder was held up, and however full the reservoir is, it
\* never sends more than the 50 ms it may catch up on, and a chunk, ahead of
\* real time.
BurstBounded == credit <= Late + Pace

\* Whatever is dropped and however late the builder is, what it sends is in place and in
\* time.
SoundHolds == ChannelsKeepTheirPlace /\ BurstBounded

\* The builder's thread has ended when its backend is freed, unless the stop had
\* passed the device before the worker attached it.
BackendOutlivesBuilder ==
    stage \in {"freed", "joinAgain", "gone"} /\ ~overtaken => BuilderGone

\* "burst restarts must be instant": once a stream has played, a whole chunk in
\* the reservoir is taken, warm-up or not; before, once it has warmed up.
WholeChunksPlay ==
    (started \/ warmed) /\ held >= ChunkSamples /\ building
        ~> taken = "audio" \/ ~building \/ quitting

\* "NEVER PARK IN A BLOCKING PULL": told to stop, by either flag, the builder
\* thread ends, though no audio ever comes.
BuilderEnds == attached /\ (quitting \/ ~building) ~> BuilderGone
=============================================================================
