---------------------------- MODULE MCStandalone ----------------------------
(***************************************************************************)
(* The standalone application on small instances: the host and its audio   *)
(* settings window, the audio callback, the saved MIDI choice, and the     *)
(* backends of audio and MIDI.  What is modelled of them apart shares no   *)
(* state, so a behaviour exercises one component, `part'.                  *)
(***************************************************************************)
EXTENDS StandaloneScreen, StandaloneCallback, StandaloneSettings, PipeWireBackend

CONSTANTS
  Parts,                             \* the components a run exercises
  CaptureSize, BlockSize, MaxCaptured,                              \* of WasapiBackend
  CoreDevices, NoUid, CoreRequests,                                 \* of CoreAudioBackend
  AlsaIds, Addresses, Asked, QueueSize, Sources, Destinations, Room,   \* of AlsaSeqMidi
  AlsaMessages, AlsaBytes, AlsaSysex,
  CoreEndpoints, MaxParsers, CoreMessages, CoreBytes, CoreSysex,        \* of CoreMidi
  Buffers, Outputs, MaxPieces                                       \* of WinmmMidi

ASSUME BackendsAssumption ==
  /\ CaptureSize \in Nat \ {0} /\ BlockSize \in Nat \ {0}
  /\ NoUid \notin DOMAIN CoreDevices
  /\ \A request \in CoreRequests :
       /\ request.out \in DOMAIN CoreDevices \cup {NoUid} /\ request.in \in DOMAIN CoreDevices \cup {NoUid}
       /\ request.out # NoUid \/ request.in # NoUid
       /\ request.rate \in {0, 1, 2}

VARIABLES part, jack, wasapi, ringBuffer, coreAudio, notices, io, rt,
          alsaPorts, alsaIn, alsaOut, coreMidi, coreIn, winIn, winOut

byDriverVars == <<jack, wasapi, ringBuffer, coreAudio, notices, io, rt,
                  alsaPorts, alsaIn, alsaOut, coreMidi, coreIn, winIn, winOut>>
partsVars == <<part, screenVars, callbackVars, settingsVars, pipeVars, byDriverVars>>
-----------------------------------------------------------------------------
(* A device that only plays, and one with two rates and an input.          *)

Dev(a, i, o, r, s, m, f) == [api |-> a, ins |-> i, outs |-> o, rates |-> r, settable |-> s, mic |-> m, interface |-> f]
MCDevices == <<Dev("jack", 2, 2, {44100, 48000}, TRUE, FALSE, TRUE),
               Dev("pipe", 0, 2, {48000}, FALSE, FALSE, FALSE)>>
MCApis == <<"jack", "pipe">>
Asks(a, o, i, rate) == [keepApi |-> a = "", api |-> a, useOut |-> o # -1, useIn |-> i # -1,
                        out |-> o, in |-> i, rate |-> rate, buffer |-> 0]
MCRequests == {Asks("pipe", 2, -1, 48000)}
MCSaved == {NoFile, [api |-> "jack", out |-> 1, in |-> 1, outUsed |-> TRUE, inUsed |-> TRUE,
                     rate |-> 48000, buffer |-> 1024]}
MCCoreDevices == [duplex |-> [ins |-> <<1>>, outs |-> <<2>>, settable |-> TRUE],
                  mic |-> [ins |-> <<1, 1>>, outs |-> <<>>, settable |-> FALSE]]
MCCoreRequests == {[out |-> "duplex", in |-> "none", rate |-> 0], [out |-> "duplex", in |-> "mic", rate |-> 2]}
MCDestinations == <<"synth", "subscribers">>
MCDevice == [p \in Ports |-> IF p = 3 THEN "pads" ELSE "keys"]
-----------------------------------------------------------------------------
(* The backends that are a module each; what none of them is ready for, a  *)
(* BOOLEAN constant of it, is left out here.                               *)

Jack == INSTANCE JackBackend WITH BeforeTheWatcher <- FALSE
Wasapi == INSTANCE WasapiBackend
CoreAudio == INSTANCE CoreAudioBackend WITH
  core <- coreAudio, NoDevice <- NoUid, Unheard <- FALSE
RtAudio == INSTANCE RtAudioBackend WITH StopsWhileListing <- FALSE
Alsa == INSTANCE AlsaSeqMidi WITH
  Ids <- AlsaIds, MaxMessages <- AlsaMessages, MaxBytes <- AlsaBytes, MaxSysex <- AlsaSysex,
  StaleLists <- FALSE, LosesNews <- FALSE
CoreMidiPorts == INSTANCE CoreMidi WITH
  Endpoints <- CoreEndpoints, MaxMessages <- CoreMessages, MaxBytes <- CoreBytes, MaxSysex <- CoreSysex
Winmm == INSTANCE WinmmMidi WITH ResetWaits <- TRUE, EmptyErrors <- FALSE
-----------------------------------------------------------------------------
\* The components a behaviour does not exercise begin in one state.
Init ==
  /\ part \in Parts
  /\ ScreenInit /\ CallbackInit
  /\ PipeInit /\ (part = "pipewire" \/ core = "up")
  /\ SettingsInit /\ (part = "settings" \/ (indexed /\ connected = {}))
  /\ Jack!JackInit /\ (part = "jack" \/ jack.up)
  /\ Wasapi!WasapiInit /\ CoreAudio!CoreInit
  /\ RtAudio!RtInit /\ (part = "rtaudio" \/ ~rt.asio)
  /\ Alsa!AlsaInit /\ CoreMidiPorts!CoreMidiInit /\ Winmm!WinInit

Next ==
  /\ UNCHANGED part
  /\ (part # "screen" => UNCHANGED screenVars)
  /\ (part # "callback" => UNCHANGED callbackVars)
  /\ (part # "settings" => UNCHANGED settingsVars)
  /\ (part # "pipewire" => UNCHANGED pipeVars)
  /\ (part # "jack" => UNCHANGED jack)
  /\ (part # "wasapi" => UNCHANGED <<wasapi, ringBuffer>>)
  /\ (part # "coreaudio" => UNCHANGED <<coreAudio, notices, io>>)
  /\ (part # "rtaudio" => UNCHANGED rt)
  /\ (part # "alsa ports" => UNCHANGED alsaPorts)
  /\ (part # "alsa in" => UNCHANGED alsaIn)
  /\ (part # "alsa out" => UNCHANGED alsaOut)
  /\ (part # "coremidi" => UNCHANGED coreMidi)
  /\ (part # "coremidi in" => UNCHANGED coreIn)
  /\ (part # "winmm in" => UNCHANGED winIn)
  /\ (part # "winmm out" => UNCHANGED winOut)
  /\ \/ part = "screen" /\ ScreenNext
     \/ part = "callback" /\ CallbackNext
     \/ part = "settings" /\ SettingsNext
     \/ part = "pipewire" /\ PipeNext
     \/ part = "jack" /\ Jack!JackNext
     \/ part = "wasapi" /\ Wasapi!WasapiNext
     \/ part = "coreaudio" /\ CoreAudio!CoreNext
     \/ part = "rtaudio" /\ RtAudio!RtNext
     \/ part = "alsa ports" /\ Alsa!PortsNext
     \/ part = "alsa in" /\ Alsa!AlsaInNext
     \/ part = "alsa out" /\ Alsa!AlsaOutNext
     \/ part = "coremidi" /\ CoreMidiPorts!CorePortsNext
     \/ part = "coremidi in" /\ CoreMidiPorts!CoreInNext
     \/ part = "winmm in" /\ Winmm!WinInNext
     \/ part = "winmm out" /\ Winmm!WinOutNext

Spec == Init /\ [][Next]_partsVars
-----------------------------------------------------------------------------
StandaloneTypeOK ==
  StreamTypeOK /\ CallbackTypeOK /\ SettingsTypeOK /\ PipeTypeOK
  /\ Jack!JackTypeOK /\ Wasapi!WasapiTypeOK /\ CoreAudio!CoreTypeOK

\* A stream that cannot go on is reported, once and as the stream it is of; the devices the host
\* has listed are the ones there, or it is about to list them again; and what the plugin is given
\* is in the order it was captured.
BackendsSayHowItIs ==
  /\ Jack!JackEndIsSeen /\ Jack!JackListIsTrue
  /\ Wasapi!WasapiInputInOrder /\ Wasapi!WasapiSaysHowItIs
  /\ CoreAudio!CoreEndIsSeen /\ CoreAudio!CoreListIsTrue
  /\ RtAudio!RtEventsAreTheStreams

\* The plugin is activated for the stream that runs, a stream's end is reported of that stream,
\* and no call is in the plugin while it is taken down.
StreamsAreSafe ==
  /\ ActivatedForTheStream /\ StopIsOfThisStream /\ NoCallInPluginTeardown
  /\ StandaloneTypeOK

\* A MIDI backend takes from and sends to what is chosen and there, hands on and sends whole
\* messages, and lets go of a port and of a message nothing of which is in use any more.
MidiBackendsAreSafe ==
  /\ Alsa!AlsaIsSafe /\ CoreMidiPorts!CoreMidiIsSafe /\ Winmm!WinMidiIsSafe
  /\ Alsa!AlsaTypeOK /\ CoreMidiPorts!CoreMidiTypeOK /\ Winmm!WinTypeOK

\* What the user chose is what runs, what the window shows, what Cancel goes back to, and what
\* the next launch opens, by a selection that stays small; and every channel of a CoreAudio stream
\* is one of the devices chosen.
ChoicesHold ==
  /\ ChoiceKeptOnlyWhenItRuns /\ CancelGoesBack /\ ChoiceShowsWhatRuns /\ LaunchOpensTheChosen
  /\ SelectionStaysSmall /\ []CoreAudio!CoreChannelsAreTheirs

\* Every backend keeps what AudioBackend promises of it.
BackendsKeepThePromise ==
  /\ PipeWireKeepsThePromise /\ Jack!JackKeepsThePromise /\ Wasapi!WasapiKeepsThePromise
  /\ CoreAudio!CoreKeepsThePromise /\ RtAudio!RtKeepsThePromise
=============================================================================
