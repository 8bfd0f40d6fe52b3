------------------------------- MODULE MCUsb -------------------------------
(* An instance of UsbipServer, DeviceInput, InputQueue, MapStream and           *)
(* ReportOverrides for TLC: the server's lists, a report's way from the bridge's*)
(* reader to the host, the host's output and sound on their way to the pad, and *)
(* what the settings make of it.  They share no state and no lock, so `part` has *)
(* one of them move and saves their product.                                    *)
EXTENDS UsbipServer, DeviceInput, InputQueue, MapStream, ReportOverrides, TLC

VARIABLE part

usbVars == <<serverVars, vars, inputVars, streamVars, overrideVars, part>>

AnyBus == CHOOSE b \in BusId : TRUE
AnyEnd == CHOOSE e \in Endpoint : TRUE

\* The operations of the two Bluetooth maps that carry sound, in their order: the
\* DualSense's, and the DualShock 4's, whose reports have sound and a number only.
DS5 == <<"speaker_pcm", "payload", "audio_block", "haptic_pcm", "haptic_s8", "haptic_block",
         "state_block", "timing_block", "header", "append", "sign">>
DS4 == <<"speaker_pcm", "payload", "frame_counter", "auto_route", "audio_block", "sign">>
BtMaps == {DS5, DS4}

\* A part that does not move starts in one way only.
UsbInit ==
    /\ ServerInit /\ Init /\ InputInit /\ StreamInit /\ OverridesInit
    /\ part \in {"server", "device", "queue", "stream", "overrides"}
    /\ part # "overrides" => config = "shared" /\ ~air
    /\ part # "device" => \A n \in Report : to[n] = AnyEnd
    /\ part # "server" => /\ \A i \in Import : bus[i] = AnyBus
                         /\ \A r \in Remover : rmv[r].bus = AnyBus
    /\ part # "stream" => program = DS5

InServer(A) == /\ part = "server" /\ A
               /\ UNCHANGED <<vars, inputVars, streamVars, overrideVars, part>>
InDevice(A) == /\ part = "device" /\ A
               /\ UNCHANGED <<serverVars, inputVars, streamVars, overrideVars, part>>
InQueue(A)  == /\ part = "queue" /\ A
               /\ UNCHANGED <<serverVars, vars, streamVars, overrideVars, part>>
InStream(A) == /\ part = "stream" /\ A
               /\ UNCHANGED <<serverVars, vars, inputVars, overrideVars, part>>
InOverrides(A) == /\ part = "overrides" /\ A
                  /\ UNCHANGED <<serverVars, vars, inputVars, streamVars, part>>

UsbNext == \/ InServer(ServerNext) \/ InDevice(Next) \/ InQueue(InputNext)
           \/ InStream(StreamNext) \/ InOverrides(OverridesNext)

UsbSpec ==
    /\ UsbInit /\ [][UsbNext]_usbVars
    /\ \A r \in Remover : WF_usbVars(InServer(CutStep(r)))
    /\ \A i \in Import : /\ WF_usbVars(InServer(ImportRegisters(i)))
                       /\ WF_usbVars(InServer(ImportCut(i)))
    /\ \A e \in Endpoint : WF_usbVars(InDevice(Serve(e)))
    /\ WF_usbVars(InQueue(WorkerStep)) /\ WF_usbVars(InQueue(StopStep))
    /\ WF_usbVars(InQueue(ReaderNotifies)) /\ WF_usbVars(InQueue(~on /\ ReaderEnds))
    /\ WF_usbVars(InStream(HostRuns)) /\ WF_usbVars(InStream(BuilderRuns))
    /\ WF_usbVars(InOverrides(PushRuns)) /\ WF_usbVars(InOverrides(Repeats))
    /\ WF_usbVars(InOverrides(HostWritten))

\* The state of each part is well-formed, a report to the pad is of one chunk and of
\* one route, and a section's effects are felt where it puts them.
UsbHolds == /\ ServerTypeOK /\ TypeOK /\ InputTypeOK /\ StreamTypeOK /\ ReportsAreWhole
            /\ OverridesTypeOK /\ EffectsAreFelt


\* The handshake's packets and the pad's newest report arrive, and the thread that
\* hands the reports on ends.
InputArrives == MapPacketsArrive /\ NewestInputArrives /\ InputStopEnds

\* The shared section, which sets nothing, and two configs: a click beside nothing, a
\* quiet speaker and a quieter rumble; and a notch and a snap, no sound and no rumble.
Sections ==
    LET silent == [shape |-> [right |-> "absent", left |-> "absent"], at |-> -1, strength |-> -1,
                   snap |-> -1, output |-> "auto", speaker |-> -1, headset |-> -1,
                   gain |-> [master |-> -1, heavy |-> -1, soft |-> -1], floor |-> -1, echo |-> -1] IN
    [shared |-> silent,
     click |-> [silent EXCEPT !.shape["right"] = "click", !.at = 80, !.output = "both",
                              !.speaker = 1, !.gain["heavy"] = 10, !.echo = 1],
     notch |-> [silent EXCEPT !.shape = [right |-> "snap", left |-> "notch"],
                              !.at = 5, !.strength = 9, !.output = "off", !.headset = 100,
                              !.gain["master"] = 0]]

\* A game that claims everything, and one that stops its rumble and claims one trigger.
Games ==
    LET effect == Effect("game", {}, 0)
        all == [claims |-> Field, block |-> [right |-> effect, left |-> effect],
                rumble |-> [heavy |-> 5, soft |-> 255],
                speaker |-> 90, headset |-> 90, route |-> 3, echo |-> FALSE] IN
    [all |-> all,
     stop |-> [all EXCEPT !.claims = {"left", "rumble", "audio"},
                          !.rumble = [heavy |-> 0, soft |-> 0]]]
============================================================================
