-------------------------- MODULE ReportOverrides --------------------------
(***************************************************************************)
(* What a section of the config says against what a game says              *)
(* (src/src/audio/ds5_output_overrides.inl, ds5_apply_settings.inl,        *)
(* rumble_floor.inl and src/src/input/trigger_effect.inl).  A DualSense    *)
(* keeps of every output report the fields it claims.  The settings are    *)
(* sent when a section changes, in a report only a pad on a cable takes;   *)
(* every report of the host is changed on its way, by one function if it   *)
(* comes over an endpoint, and on both ways by one that keeps the triggers;*)
(* and to a pad on the air the last report of the host is sent again and   *)
(* again while sound plays (MapStream).                                    *)
(*                                                                         *)
(* The numbers are the code's.  A game's own trigger effect is one block.  *)
(* The lights, the microphone's mute and the TV's audio settings are left  *)
(* out.  An operator no action uses is a plausible mistake in the one below*)
(* it.                                                                     *)
(***************************************************************************)
EXTENDS Integers, FiniteSets

CONSTANTS Section,     \* the sections a pad may be linked to
          HostReport,  \* what a game sends
          Keys,        \* the Settings of each section
          Said,        \* each report of the game as an OutReport
          MaxRelinks,  \* bound: changes of the section
          MaxHostOut   \* bound: reports of the game

Side  == {"right", "left"}
Motor == {"heavy", "soft"}
Zone  == 0..9
Shape == {"absent", "off", "click", "wall", "notch", "snap"}
\* Ds5AudioOutput.
Destination == {"auto", "headset", "headset_mono", "speaker", "both", "off"}
Field == Side \cup {"rumble", "speaker", "headset", "audio"}

\* An effect: the zones that are firm, those of a light wall, and the forces.
Block == [mode : {"off", "weapon", "feedback", "bow", "game"}, firm : SUBSET Zone,
          force : 0..7, wall : 0..7, snap : 0..7]
\* A key is any number that is not negative; one that is absent is -1.
Key == Nat \cup {-1}
Settings == [shape : [Side -> Shape], at : Key, strength : Key, snap : Key,
             output : Destination, speaker : Key, headset : Key,
             gain : [Motor \cup {"master"} -> Key], floor : Key, echo : Key]
OutReport == [claims : SUBSET Field, block : [Side -> Block], rumble : [Motor -> 0..255],
              speaker : 0..255, headset : 0..255, route : 0..3, echo : BOOLEAN]

ASSUME OverridesAssumption ==
    /\ MaxRelinks \in Nat /\ MaxHostOut \in Nat
    /\ Keys \in [Section -> Settings]
    /\ Said \in [HostReport -> OutReport] /\ HostReport # {}

VARIABLES
    air,      \* the pad is on Bluetooth
    config,   \* the section the pad reads
    due,      \* its settings are still to be sent
    pushOut,  \* the section they are of, and how often they go out yet
    pushes,
    lastOut,  \* lastControllerOutput_, once there is one, by what it was made of
    sending,  \* the host's thread is still to send it
    unsent,   \* to a pad on a cable a send has failed
    again,    \* the builder's copy of it, and whether it is on its way
    repeating,
    pad,      \* by field, the report the pad has it from, once there is one
    relinks, hostOuts

pushVars   == <<due, pushOut, pushes>>
hostOutVars == <<lastOut, sending, hostOuts>>
againVars  == <<again, repeating>>
overrideVars == <<air, config, relinks, unsent, pushVars, hostOutVars, againVars, pad>>

Or(key, default) == IF key = -1 THEN default ELSE key
Clamped(v, low, high) == CASE v < low -> low [] v > high -> high [] OTHER -> v

----------------------------------------------------------------------------
(* The trigger effects.                                                    *)

Effect(mode, firm, force) == [mode |-> mode, firm |-> firm, force |-> force, wall |-> 0, snap |-> 0]
BuildOff == Effect("off", {}, 0)

\* zone_from_percent.
ZoneFrom(percent) == Clamped((Clamped(percent, 0, 100) * 10) \div 100, 0, 9)
Strength(n) == Clamped(n, 1, 7)

\* Two zones, and the trigger gives way at the second.
BuildWeapon(from, to, strength) ==
    LET start == Clamped(from, 2, 8) IN
    Effect("weapon", {start, Clamped(to, start + 1, 9)}, Strength(strength))

BuildFeedback(from, strength) == Effect("feedback", Clamped(from, 0, 9)..9, Strength(strength))

\* A light wall from zone 1 on, with one firm zone.
BuildDetentWall(at, strength) ==
    [Effect("feedback", {Clamped(at, 1, 9)}, Strength(strength))
        EXCEPT !.wall = Strength(Strength(strength) \div 3)]

BuildSnap(from, to, strength, snap) ==
    LET start == Clamped(from, 0, 7) IN
    [Effect("bow", {start, Clamped(to, start + 1, 8)}, Strength(strength))
        EXCEPT !.snap = Strength(snap)]

\* apply_one, of a side that has a shape.
ApplyOne(s, side) ==
    LET zone == ZoneFrom(Or(s.at, 50))
        strength == Or(s.strength, 5) IN
    CASE s.shape[side] = "click" -> BuildWeapon(zone - 2, zone - 1, strength)
      [] s.shape[side] = "notch" -> BuildDetentWall(zone, strength)
      [] s.shape[side] = "snap"  -> BuildSnap(zone - 1, zone, strength, Or(s.snap, 3))
      [] s.shape[side] = "wall"  -> BuildFeedback(zone, strength)
      [] OTHER -> BuildOff

\* apply_to_report: a section that sets any trigger effect owns both triggers.
Owned(s) == IF \E side \in Side : s.shape[side] # "absent" THEN Side ELSE {}

\* defend_host_report, of one side: the host claims it and the section owns it.
Defended(s, r, side) ==
    IF side \in r.claims \cap Owned(s) THEN ApplyOne(s, side) ELSE r.block[side]

----------------------------------------------------------------------------
(* Sound and rumble.                                                       *)

\* ds5_volume_raw_from_percent.
RawFromPercent(percent, full, least) ==
    IF percent <= 0 THEN 0 ELSE least + (Clamped(percent, 0, 100) * (full - least)) \div 100
SpeakerRaw(percent) == RawFromPercent(percent, 100, 61)
HeadsetRaw(percent) == RawFromPercent(percent, 127, 77)

SpeakerIsActive(output) == output \in {"speaker", "both"}
HeadsetIsActive(output) == output \in {"headset", "headset_mono", "both"}
\* ds5_route_bits_for.
RouteBits(output) == CASE output = "headset" -> 0 [] output = "headset_mono" -> 1
                       [] output = "both" -> 2 [] OTHER -> 3
\* ds5_level_for: what is not the destination is silent.
SpeakerLevel(s) == IF s.output = "auto" \/ SpeakerIsActive(s.output) THEN s.speaker ELSE 0
HeadsetLevel(s) == IF s.output = "auto" \/ HeadsetIsActive(s.output) THEN s.headset ELSE 0

\* What ds5_override_audio_control makes of the route and of the echo cancelling.
OverriddenRoute(s, r) ==
    IF "audio" \in r.claims /\ s.output # "auto" THEN RouteBits(s.output) ELSE r.route
OverriddenEcho(s, r) ==
    LET active == IF s.output = "auto" THEN r.route # 0 ELSE SpeakerIsActive(s.output) IN
    r.echo \/ ("audio" \in r.claims /\ active /\ s.echo = 1)

\* ds5_override_speaker_volume and ds5_override_headset_volume.
OverriddenSpeaker(s, r) ==
    IF "speaker" \in r.claims /\ SpeakerLevel(s) >= 0 THEN SpeakerRaw(SpeakerLevel(s))
    ELSE r.speaker
OverriddenHeadset(s, r) ==
    IF "headset" \in r.claims /\ HeadsetLevel(s) >= 0 THEN HeadsetRaw(HeadsetLevel(s))
    ELSE r.headset

\* ds5_scale_rumble.
ScaleRumble(v, gain) == Clamped((v * gain) \div 100, 0, 255)
\* rumble_apply_floor: neither a motor the game stops nor one a person silenced.
ApplyFloor(scaled, requested, percent, gain) ==
    IF requested = 0 \/ percent <= 0 \/ gain <= 0 THEN scaled
    ELSE LET least == (percent * 255) \div 100 IN IF scaled < least THEN least ELSE scaled

Gain(s, m) == Clamped(Or(s.gain[m], 100), 0, 500)
EffectiveGain(s, m) == (Gain(s, "master") * Gain(s, m)) \div 100
\* ds5_override_rumble, of one motor.
OverriddenRumble(s, r, m) ==
    IF "rumble" \notin r.claims \/ (s.floor < 0 /\ \A g \in DOMAIN s.gain : s.gain[g] < 0)
    THEN r.rumble[m]
    ELSE ApplyFloor(ScaleRumble(r.rumble[m], EffectiveGain(s, m)), r.rumble[m],
                    Clamped(Or(s.floor, 12), 0, 100), EffectiveGain(s, m))

\* ds5_apply_output_overrides, and then trigger_defend_host_report.
ByEndpoint(s, r) ==
    [r EXCEPT !.block = [right |-> Defended(s, r, "right"), left |-> Defended(s, r, "left")],
              !.route = OverriddenRoute(s, r), !.echo = OverriddenEcho(s, r),
              !.speaker = OverriddenSpeaker(s, r), !.headset = OverriddenHeadset(s, r),
              !.rumble = [heavy |-> OverriddenRumble(s, r, "heavy"),
                          soft |-> OverriddenRumble(s, r, "soft")]]
\* trigger_defend_host_report alone.
ByControl(s, r) ==
    [r EXCEPT !.block = [right |-> Defended(s, r, "right"), left |-> Defended(s, r, "left")]]

----------------------------------------------------------------------------
(* The settings' own report.                                               *)

NothingConfigured(s) ==
    s.output = "auto" /\ s.speaker < 0 /\ s.headset < 0 /\ Owned(s) = {}

\* ds5_apply_initial_settings: the motors are claimed, at nothing, only to wake the
\* triggers.
SettingsClaim(s) ==
    {"audio"} \cup (IF SpeakerLevel(s) >= 0 THEN {"speaker"} ELSE {})
              \cup (IF HeadsetLevel(s) >= 0 THEN {"headset"} ELSE {})
              \cup Owned(s) \cup (IF Owned(s) # {} THEN {"rumble"} ELSE {})
SettingsReport(s) ==
    [claims |-> SettingsClaim(s),
     block |-> [right |-> ApplyOne(s, "right"), left |-> ApplyOne(s, "left")],
     rumble |-> [heavy |-> 0, soft |-> 0],
     speaker |-> SpeakerRaw(SpeakerLevel(s)), headset |-> HeadsetRaw(HeadsetLevel(s)),
     route |-> RouteBits(s.output),
     echo |-> (s.output = "auto" \/ SpeakerIsActive(s.output)) /\ s.echo # 0]

\* What the pad does by itself.
Resting == [claims |-> {}, block |-> [right |-> BuildOff, left |-> BuildOff],
            rumble |-> [heavy |-> 0, soft |-> 0], speaker |-> 100, headset |-> 127,
            route |-> 0, echo |-> FALSE]

\* What a report is made of: the way it came, the section it was made for, and what
\* the game said.
Way == {"settings", "endpoint", "control"}
Origin == [way : Way, made : Section, said : HostReport]

Arriving ==
    [o \in Origin |-> CASE o.way = "settings" -> SettingsReport(Keys[o.made])
                        [] o.way = "endpoint" -> ByEndpoint(Keys[o.made], Said[o.said])
                        [] o.way = "control"  -> ByControl(Keys[o.made], Said[o.said])]

\* The pad takes the fields a report claims.
SettingsClaims == {c \in Section \X Field : c[2] \in SettingsClaim(Keys[c[1]])}
Claims(o, f) == IF o.way = "settings" THEN <<o.made, f>> \in SettingsClaims
                ELSE f \in Said[o.said].claims
Takes(o) == pad' = [f \in Field |-> IF Claims(o, f) THEN <<o>> ELSE pad[f]]

\* No report of the game has come yet.
NoneYet == << >>
AnySaid == CHOOSE r \in HostReport : TRUE

OverridesInit ==
    /\ air \in BOOLEAN /\ config \in Section /\ due = TRUE
    /\ pushOut = config /\ pushes = 0
    /\ lastOut = NoneYet /\ sending = FALSE /\ unsent = FALSE
    /\ again = NoneYet /\ repeating = FALSE
    /\ pad = [f \in Field |-> NoneYet]
    /\ relinks = 0 /\ hostOuts = 0

OverridesTypeOK ==
    /\ {config, pushOut} \subseteq Section /\ due \in BOOLEAN /\ pushes \in 0..3
    /\ \A o \in {lastOut, again} \cup {pad[f] : f \in Field} :
          o # NoneYet => o[1] \in Origin
    /\ {air, sending, unsent, repeating} \subseteq BOOLEAN
    /\ relinks \in 0..MaxRelinks /\ hostOuts \in 0..MaxHostOut

----------------------------------------------------------------------------
(* The threads.                                                            *)

\* The section is edited, or the pad is linked to another.
Relinks(s) ==
    /\ relinks < MaxRelinks /\ s # config
    /\ relinks' = relinks + 1
    /\ config' = s /\ due' = TRUE
    /\ UNCHANGED <<air, unsent, pushOut, pushes, hostOutVars, againVars, pad>>

\* The agent's thread, at the next sweep; a report that carries no trigger effect is
\* sent once.
PushBegins ==
    /\ due /\ pushes = 0 /\ due' = FALSE
    /\ pushOut' = config
    /\ pushes' = CASE NothingConfigured(Keys[config]) -> 0
                   [] Owned(Keys[config]) # {} -> 3
                   [] OTHER -> 1
    /\ UNCHANGED <<air, unsent, config, relinks, hostOutVars, againVars, pad>>

\* A sweep with nothing to send.
PushIdle == ~due /\ pushes = 0 /\ UNCHANGED overrideVars

\* A send that fails ends it.  On the air the report is malformed.
PushSends ==
    /\ pushes > 0
    /\ \/ /\ IF air THEN UNCHANGED pad
             ELSE Takes([way |-> "settings", made |-> pushOut, said |-> AnySaid])
          /\ pushes' = pushes - 1 /\ UNCHANGED unsent
       \/ pushes' = 0 /\ unsent' = ~air /\ UNCHANGED pad
    /\ UNCHANGED <<air, config, relinks, due, pushOut, hostOutVars, againVars>>

\* The report is kept for the builder before it is sent.
HostWrites(way, r) ==
    /\ ~sending /\ hostOuts < MaxHostOut
    /\ hostOuts' = hostOuts + 1
    /\ lastOut' = <<[way |-> way, made |-> config, said |-> r]>> /\ sending' = TRUE
    /\ UNCHANGED <<air, unsent, config, relinks, pushVars, againVars, pad>>

\* A report that cannot be sent is acknowledged all the same.
HostWritten ==
    /\ sending /\ sending' = FALSE
    /\ \/ Takes(lastOut[1]) /\ UNCHANGED unsent
       \/ unsent' = ~air /\ UNCHANGED pad
    /\ UNCHANGED <<air, config, relinks, pushVars, lastOut, hostOuts, againVars>>

\* audio_builder_loop, after each chunk of sound.
BuilderTakes ==
    /\ air /\ lastOut # NoneYet /\ ~repeating
    /\ again' = lastOut /\ repeating' = TRUE
    /\ UNCHANGED <<air, unsent, config, relinks, pushVars, hostOutVars, pad>>

BuilderGives ==
    /\ repeating /\ repeating' = FALSE
    /\ Takes(again[1]) /\ again' = NoneYet
    /\ UNCHANGED <<air, unsent, config, relinks, pushVars, hostOutVars>>

OverridesNext ==
    \/ \E s \in Section : Relinks(s)
    \/ PushBegins \/ PushIdle \/ PushSends
    \/ \E way \in {"endpoint", "control"}, r \in HostReport : HostWrites(way, r)
    \/ HostWritten
    \/ BuilderTakes \/ BuilderGives

PushRuns == PushBegins \/ PushSends
Repeats == BuilderTakes \/ BuilderGives

----------------------------------------------------------------------------
(* Properties.                                                             *)

\* A trigger effect of a section's can be felt, a notch's above its own wall unless it is
\* of the least strength, and where its press is not in the first four zones a click gives
\* way before it.  A silenced destination is silent, and one that is on can be heard.
EffectsAreFelt ==
    LET s == Keys[config]
        effect(side) == ApplyOne(s, side) IN
    /\ \A side \in Side :
          /\ effect(side) \in Block
          /\ (s.shape[side] \in {"absent", "off"}) <=> (effect(side).firm = {})
          /\ (effect(side).firm # {} /\ (s.shape[side] = "notch" => Or(s.strength, 5) >= 2))
                => effect(side).force > effect(side).wall
          /\ (s.shape[side] = "click" /\ Or(s.at, 50) >= 40)
                => /\ Cardinality(effect(side).firm) = 2
                   /\ \A z \in effect(side).firm : (z + 1) * 10 <= Or(s.at, 50)
    /\ s.output = "off" => SpeakerRaw(SpeakerLevel(s)) = 0 /\ HeadsetRaw(HeadsetLevel(s)) = 0
    /\ s.speaker > 0 /\ SpeakerIsActive(s.output) => SpeakerRaw(SpeakerLevel(s)) >= 61

\* What the pad does with a field.
Does(f) == IF pad[f] = NoneYet THEN Resting ELSE Arriving[pad[f][1]]

\* A motor does nothing when the game asks for nothing; and something when the game
\* asks for something and, if its reports are scaled, nobody turned it off.
MotorObeys(m, s, r, scaled) ==
    LET does == Does("rumble").rumble[m] IN
    /\ r.rumble[m] = 0 => does = 0
    /\ (r.rumble[m] # 0 /\ (scaled => s.floor # 0 /\ EffectiveGain(s, m) # 0)) => does # 0

\* Of the last report of the game, if it was changed for the section still read and, on
\* a cable, no send failed.  The settings' own report stops the motors until the game's
\* next, and on the air the sound's reports carry volumes and a route of their own.
PadObeys ==
    (lastOut # NoneYet /\ lastOut[1].made = config /\ ~unsent) =>
      LET s == Keys[config]
          r == Said[lastOut[1].said]
          endpoint == lastOut[1].way = "endpoint" IN
      /\ (\E any \in Side : s.shape[any] # "absent")
            => \A side \in Side \cap r.claims : Does(side).block[side] = ApplyOne(s, side)
      /\ ("rumble" \in r.claims /\ pad["rumble"] = lastOut)
            => \A m \in Motor : MotorObeys(m, s, r, endpoint /\ \E g \in DOMAIN s.gain : s.gain[g] >= 0)
      /\ ("speaker" \in r.claims /\ endpoint /\ ~air /\ SpeakerLevel(s) >= 0)
            => Does("speaker").speaker = SpeakerRaw(SpeakerLevel(s))
      /\ ("audio" \in r.claims /\ endpoint /\ ~air /\ s.output # "auto")
            => Does("audio").route = RouteBits(s.output)

\* A pad ends up with what its section makes of the last report of the game: its own
\* trigger effects on whichever way the report came, on a cable its volumes and its
\* routing, and a rumble that neither outlives the game's nor is lost in scaling; and what
\* was sent before, for an older section or at the same time, does not stay.
OverridesReachPad == <>[]PadObeys
============================================================================
