----------------------------- MODULE MapStream -----------------------------
(***************************************************************************)
(* What a Bluetooth map sends the pad (src/src/map/runtime.cpp), and the   *)
(* two threads that send it (src/src/usbip/device.inl).  A host's output   *)
(* report is translated, remembered and sent; every chunk of sound is built*)
(* into one report by the map's list of stream operations, which also holds*)
(* the host's last effects, and after each the builder sends the last      *)
(* translated report once more.                                            *)
(*                                                                         *)
(* mapMutex_ is held for a translation and for a whole build, and neither  *)
(* is held while a report is sent: a report may be overtaken by a newer one*)
(* of the other thread.  An operation that fails ends a build where it is. *)
(* A host's report is its number, and bytes that only restate the map's    *)
(* constants are left out.  An operator no action uses is a plausible      *)
(* mistake in the one below it.                                            *)
(***************************************************************************)
EXTENDS Naturals, Sequences

CONSTANTS MaxOutputs,  \* bound: output reports of the host
          MaxLost,     \* bound: reports the pad does not get
          Wrap,        \* the sequence numbers go round, at 16, 256 and 65536
          Programs     \* streamOps_ of each map

\* The operations of the maps, by the buffer or the byte they fill; "payload" is
\* opus_payload or sbc_payload, and "frame_counter" the number a report without a
\* header or a timing block has.
StreamOp == {"speaker_pcm", "payload", "audio_block", "haptic_pcm", "haptic_s8",
             "haptic_block", "state_block", "timing_block", "auto_route", "header",
             "frame_counter", "append", "sign"}
Failing  == {"speaker_pcm", "payload", "haptic_pcm", "haptic_s8"}
Numbering == {"timing_block", "header", "frame_counter"}

ASSUME StreamAssumption ==
    /\ MaxOutputs \in Nat /\ MaxLost \in Nat /\ Wrap \in Nat \ {0}
    /\ Programs \subseteq Seq(StreamOp)

OpsOf(p) == {p[i] : i \in 1..Len(p)}

\* Every map encodes the sound and signs its report, one with a haptic block fills it,
\* and none does anything that may fail once it has begun to spend a number.
ASSUME ProgramAssumption ==
    \A p \in Programs :
       /\ {"speaker_pcm", "payload", "audio_block", "sign"} \subseteq OpsOf(p)
       /\ "haptic_block" \in OpsOf(p) => {"haptic_pcm", "haptic_s8"} \subseteq OpsOf(p)
       /\ \A i, j \in 1..Len(p) :
             p[i] \in Failing /\ p[j] \in Numbering \cup {"sign"} => i < j

Output == 0..MaxOutputs
Chunk  == 0..2       \* chunks of sound, told apart for as long as any is kept
NoReport == [chunk |-> 0, haptic |-> 0, state |-> 0, seq |-> 0, time |-> 0,
             frame |-> 0]

VARIABLES
    program,    \* streamOps_, of the map of this pad
    asked,      \* output reports the host has sent
    effects,    \* outputEffectsPayload_
    remembered, \* lastControllerOutput_
    playing,    \* history: the effects the pad was last told
    lost,       \* history: reports the pad did not get
    hostAt,     \* where the host's thread is: "idle", "kept", "sends"
    builderAt,  \* where the builder is: "waits", "built", "copies", "repeats"
    chunk,      \* the chunk the builder took
    audioOf, hapticOf, stateOf, timeOf,  \* what the blocks were filled from
    reportSequence, audioSequence,
    frameCounter, \* audioFrameCounter_, in reports
    signed,     \* history: reports built to the end
    route,      \* autoRouteValue_
    jack,       \* history: whether the pad last reported a plug in its jack
    built,      \* the report it built
    copied      \* controllerOutput

blockVars  == <<chunk, audioOf, hapticOf, stateOf, timeOf>>
seqVars    == <<reportSequence, audioSequence, frameCounter, signed>>
hostVars   == <<asked, effects, remembered, hostAt>>
jackVars   == <<program, route, jack>>
streamVars == <<jackVars, hostVars, playing, lost, builderAt, blockVars, seqVars, built, copied>>

StreamTypeOK ==
    /\ asked \in Output /\ effects \in 0..asked /\ remembered \in 0..effects
    /\ playing \in 0..asked /\ lost \in 0..MaxLost
    /\ hostAt \in {"idle", "kept", "sends"}
    /\ builderAt \in {"waits", "built", "copies", "repeats"}
    /\ {chunk, audioOf, hapticOf} \subseteq Chunk /\ stateOf \in Output
    /\ {reportSequence, audioSequence, frameCounter, signed, timeOf} \subseteq 0..(Wrap - 1)
    /\ built \in [chunk : Chunk, haptic : Chunk, state : Output,
                  seq : 0..(Wrap - 1), time : 0..(Wrap - 1), frame : 0..(Wrap - 1)]
    /\ program \in Programs
    /\ route \in BOOLEAN /\ jack \in BOOLEAN
    /\ copied \in Output

StreamInit ==
    /\ asked = 0 /\ effects = 0 /\ remembered = 0 /\ playing = 0 /\ lost = 0
    /\ hostAt = "idle" /\ builderAt = "waits"
    /\ chunk = 0 /\ audioOf = 0 /\ hapticOf = 0 /\ stateOf = 0 /\ timeOf = 0
    /\ reportSequence = 0 /\ audioSequence = 0 /\ frameCounter = 0 /\ signed = 0
    /\ program \in Programs
    /\ built = NoReport /\ copied = 0
    /\ route = FALSE /\ jack = FALSE

Ops == OpsOf(program)

\* A report with the effects e goes out: it may be lost on the way.
Sent(e) == \/ playing' = e /\ UNCHANGED lost
           \/ lost < MaxLost /\ lost' = lost + 1 /\ UNCHANGED playing

----------------------------------------------------------------------------
(* The host's output reports: process_hid_output_event.                    *)

\* A report the map does not translate is acknowledged and changes nothing.
HostTranslates ==
    /\ hostAt = "idle" /\ asked < MaxOutputs
    /\ asked' = asked + 1 /\ effects' = asked + 1
    /\ hostAt' = "kept"
    /\ UNCHANGED <<jackVars, remembered, playing, lost, builderAt, blockVars, seqVars, built, copied>>

\* lastControllerOutput_ is set before the report is sent.
Keeps(e) == e

HostKeeps ==
    /\ hostAt = "kept"
    /\ remembered' = Keeps(effects)
    /\ hostAt' = "sends"
    /\ UNCHANGED <<jackVars, asked, effects, playing, lost, builderAt, blockVars, seqVars, built,
                   copied>>

\* A report that cannot be sent is acknowledged to the host all the same.
HostSends ==
    /\ hostAt = "sends"
    /\ hostAt' = "idle"
    /\ Sent(effects)
    /\ UNCHANGED <<jackVars, asked, effects, remembered, builderAt, blockVars, seqVars, built, copied>>

----------------------------------------------------------------------------
(* The pad's own reports: translate_controller_input.                      *)

\* The jack is read before the report's operations run, one of which may fail, and only
\* where the map names the jack's bit: the one whose reports are routed by it.
RouteOf(plugged, translated) == IF "auto_route" \in Ops THEN plugged ELSE route

PadTells(plugged, translated) ==
    /\ jack' = plugged
    /\ route' = RouteOf(plugged, translated)
    /\ UNCHANGED <<program, hostVars, playing, lost, builderAt, blockVars, seqVars, built, copied>>

----------------------------------------------------------------------------
(* The builder: execute_stream_ops, and audio_builder_loop round it.       *)

PassesOver(op) == {op}
\* What a failing operation leaves undone: itself and all after it.
Skipped(op) == {program[i] : i \in {j \in 1..Len(program) :
                    \E n \in 1..j : program[n] = op}}

\* The operations of one build, none of them or one of them failing.
Fate == {"none"} \cup (Failing \cap Ops)
Ran(fate) == Ops \ (IF fate = "none" THEN {} ELSE Skipped(fate))

Next1(n) == (n + 1) % Wrap
\* What a block is filled from on the way: channels of the chunk, encoded; or
\* averaged down and made signed bytes.
AudioSources  == {"speaker_pcm", "payload"}
HapticSources == {"haptic_pcm", "haptic_s8"}
Sources == [op \in StreamOp |-> CASE op = "audio_block" -> AudioSources
                                   [] op = "haptic_block" -> HapticSources
                                   [] OTHER -> {}]
\* A block keeps what an earlier build put in it.
Fills(ran, op, old, new) == IF Sources[op] \cup {op} \subseteq ran THEN new ELSE old
\* Only a signed report leaves, of the blocks as they are.
Signs(ran) == "sign" \in ran
Appends(audio, haptic, state, time) ==
    [chunk |-> audio, haptic |-> haptic, state |-> state, seq |-> reportSequence,
     time |-> time, frame |-> frameCounter]

\* The chunk taken is a new one.
BuilderBuilds(fate) ==
    /\ builderAt = "waits"
    /\ LET c == (chunk + 1) % 3
           ran == Ran(fate) IN
       /\ chunk' = c
       /\ audioOf' = Fills(ran, "audio_block", audioOf, c)
       /\ hapticOf' = Fills(ran, "haptic_block", hapticOf, c)
       /\ stateOf' = Fills(ran, "state_block", stateOf, effects)
       /\ timeOf' = Fills(ran, "timing_block", timeOf, audioSequence)
       /\ audioSequence' = Fills(ran, "timing_block", audioSequence, Next1(audioSequence))
       /\ reportSequence' = Fills(ran, "header", reportSequence, Next1(reportSequence))
       /\ frameCounter' = Fills(ran, "frame_counter", frameCounter, Next1(frameCounter))
       /\ IF Signs(ran)
          THEN /\ built' = Appends(audioOf', hapticOf', stateOf', timeOf')
               /\ builderAt' = "built" /\ signed' = Next1(signed)
          ELSE UNCHANGED <<built, builderAt, signed>>
    /\ UNCHANGED <<jackVars, hostVars, playing, lost, copied>>

\* send_output_report, paced; the copy of lastControllerOutput_ follows.  A report
\* without a state block says nothing of the effects.
BuilderSends ==
    /\ builderAt = "built"
    /\ builderAt' = "copies"
    /\ Sent(IF "state_block" \in Ops THEN built.state ELSE playing)
    /\ UNCHANGED <<jackVars, hostVars, blockVars, seqVars, built, copied>>

BuilderCopies ==
    /\ builderAt = "copies"
    /\ copied' = remembered
    /\ builderAt' = IF remembered = 0 THEN "waits" ELSE "repeats"
    /\ UNCHANGED <<jackVars, hostVars, playing, lost, blockVars, seqVars, built>>

BuilderRepeats ==
    /\ builderAt = "repeats"
    /\ builderAt' = "waits"
    /\ Sent(copied)
    /\ UNCHANGED <<jackVars, hostVars, blockVars, seqVars, built, copied>>

HostRuns == HostKeeps \/ HostSends
\* Sound keeps coming, and its builds succeed.
BuilderRuns == BuilderBuilds("none") \/ BuilderSends \/ BuilderCopies \/ BuilderRepeats

StreamNext ==
    \/ HostTranslates \/ HostRuns
    \/ \E plugged, translated \in BOOLEAN : PadTells(plugged, translated)
    \/ \E fate \in Fate : BuilderBuilds(fate)
    \/ BuilderSends \/ BuilderCopies \/ BuilderRepeats

----------------------------------------------------------------------------
(* Properties.                                                             *)

\* A report that leaves is of one chunk, whichever builds failed before it, and it has
\* the next of each number its map puts in it: none is spent on a report that did not
\* leave.  It is routed by the pad's last word about its jack, though the report that
\* brought it may not have been translated.
ReportsAreWhole ==
    /\ "auto_route" \in Ops => route = jack
    /\ builderAt = "built" =>
           /\ built.chunk = chunk
           /\ "haptic_block" \in Ops => built.haptic = chunk
           /\ "header" \in Ops => Next1(built.seq) = signed
           /\ "timing_block" \in Ops => Next1(built.time) = signed
           /\ "frame_counter" \in Ops => Next1(built.frame) = signed

\* While sound keeps coming the pad ends up with the last effects the host
\* asked for, though the report that brought them was lost, and though an older
\* one may have gone out after it.
EffectsReachPad == <>[](playing = asked)
============================================================================
