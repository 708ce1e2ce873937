--------------------------- MODULE StandaloneStream ---------------------------
(***************************************************************************)
(* The standalone's audio stream as the main thread runs it                *)
(* (detail/standalone/standalone_host_audio.cpp, and the activation and    *)
(* the saved devices of standalone_host.cpp).                              *)
(*                                                                         *)
(* Everything here runs on the main thread except the events of a backend, *)
(* which only set flags that pollAudioEvents() acts on later.  A call of   *)
(* the main thread is one step; what a backend or a plugin may answer      *)
(* inside it is the set of hosts it can leave behind.  The handshake with  *)
(* the audio callback inside stop() is StandaloneCallback's.               *)
(***************************************************************************)
EXTENDS Integers, Sequences, FiniteSets

CONSTANTS
  Devices,      \* a sequence of records, in the order a backend lists them
  Apis,         \* the audio apis of the build, the default first
  HasInput, HasOutput,  \* whether the plugin has audio busses that way
  AllowInput,   \* CLAP_WRAPPER_STANDALONE_ALLOW_AUDIO_INPUT
  OfferedSizes, \* getBufferSizes()
  DefaultSize,  \* StandaloneSettings::defaultBufferSize
  Requests,     \* the AudioConfigRequests a plugin makes
  Saved,        \* the settings files a launch may find; NoFile is none
  NoFile,
  RetryLimit,   \* the tries pollAudioEvents() makes without a change of devices
  MaxNews       \* bound: the backend's events, the plugin's requests and the user's choices in a run

VARIABLES
  host,         \* the StandaloneHost and its backend
  plugged,      \* the devices there are: their indices, with the rate each runs at
  news          \* counts the events, the requests and the choices, up to MaxNews

streamVars == <<host, plugged, news>>

NoDevice == 0
NoStream == [rate |-> 0, frames |-> 0]
NoRequest == [none |-> TRUE]
Ids == 0 .. Len(Devices)

ASSUME StreamAssumption ==
  /\ Len(Devices) \in Nat /\ DOMAIN Devices = 1 .. Len(Devices)
  /\ \A d \in DOMAIN Devices :
       /\ Devices[d].rates \in SUBSET (Nat \ {0}) /\ Devices[d].rates # {}
       /\ Devices[d].ins \in Nat /\ Devices[d].outs \in Nat
  /\ 1 \in DOMAIN Apis
  /\ OfferedSizes \in SUBSET Nat /\ \E s \in OfferedSizes : \A x \in OfferedSizes : x <= s
  /\ DefaultSize \in Nat /\ RetryLimit \in Nat
  /\ \A r \in Requests : r.buffer \in Nat /\ r.rate \in Nat
  /\ Saved \ {NoFile} \subseteq
       [api : {s.api : s \in Saved \ {NoFile}}, out : Ids, in : Ids, outUsed : BOOLEAN,
        inUsed : BOOLEAN, rate : Nat, buffer : Nat]

Largest(S) == CHOOSE x \in S : \A y \in S : y <= x
Smallest(S) == CHOOSE x \in S : \A y \in S : x <= y
-----------------------------------------------------------------------------
(* The devices as the backend listed them last. *)

\* findDevice(): known by the list, not by what is plugged in.
Known(h, d) == d \in DOMAIN h.listed

\* The first of the list with channels that way: what the backend calls the default.
DefaultDevice(h, input) ==
  LET fit == {d \in DOMAIN h.listed : (IF input THEN Devices[d].ins ELSE Devices[d].outs) > 0}
  IN IF fit = {} THEN NoDevice ELSE Smallest(fit)

RefreshDeviceList(h) ==
  [h EXCEPT !.listed = [d \in {x \in DOMAIN plugged : Devices[x].api = h.api} |-> plugged[d]]]

\* A device whose rate is not ours to set runs at its own; a rate it does not offer is not
\* asked of it.
RateOfferedBy(h, d, requested) ==
  LET now == h.listed[d]
      low == {r \in Devices[d].rates : r <= 48000}
  IN IF ~Devices[d].settable /\ now > 0 THEN now
     ELSE IF requested \in Devices[d].rates THEN requested
     ELSE IF now > 0 THEN now
     ELSE IF low # {} THEN Largest(low)
     ELSE IF Devices[d].rates # {} THEN Smallest(Devices[d].rates)
     ELSE 0

Resolve(h, d, input) ==
  IF d # NoDevice /\ Known(h, d) THEN d ELSE DefaultDevice(h, input)

\* No default opens a microphone: an interface in its place, or no input.
DefaultInputToOpen(h) ==
  LET d == DefaultDevice(h, TRUE)
      better == {x \in DOMAIN h.listed : /\ Devices[x].interface /\ ~Devices[x].mic
                                         /\ Devices[x].ins > 0}
      most == {x \in better : \A y \in better : Devices[y].ins <= Devices[x].ins}
  IN IF d = NoDevice \/ ~Devices[d].mic THEN d
     ELSE IF better = {} THEN NoDevice
     ELSE Smallest(most)
-----------------------------------------------------------------------------
(* The stream and the plugin on it. *)

\* Mutant: the channels of the stream are not asked for.
ActiveIsRunning(h) == h.active

IsAudioRunning(h) == h.active /\ (h.ins > 0 \/ h.outs > 0)

StopAudioThread(h) == IF h.backend = "none" THEN h ELSE [h EXCEPT !.backend = "closed"]

DeactivatePlugin(h) == [h EXCEPT !.active = FALSE]

\* Mutant: a plugin that is active is left so.
OnceActive(h, rate, most) ==
  IF h.active THEN {h}
  ELSE {[h EXCEPT !.active = TRUE, !.plugin = [rate |-> rate, frames |-> most]]}

\* The plugin answers activate() and start_processing(), or throws out of them.
ActivatePlugin(h, rate, most) ==
  IF rate <= 0 THEN {h}
  ELSE {[h EXCEPT !.active = TRUE, !.plugin = [rate |-> rate, frames |-> most]],
        DeactivatePlugin(h)}

SetAudioApi(h, id) ==
  IF h.backend # "none" /\ h.api = id THEN h
  ELSE LET down == DeactivatePlugin(StopAudioThread(h))
           known == \E i \in DOMAIN Apis : Apis[i] = id
       IN RefreshDeviceList([down EXCEPT !.backend = "closed",
                                         !.api = IF known THEN id ELSE Apis[1]])

Guaranteed(h) == IF h.backend = "none" THEN SetAudioApi(h, "") ELSE h

Failed(h) == [h EXCEPT !.error = TRUE]

\* What a device that opens may grant: the rate and the size asked, or its own.
Grants(h, devices, rate, frames) ==
  {[rate |-> r, frames |-> f] :
     r \in {rate} \cup {h.listed[d] : d \in devices}, f \in {frames, Smallest(OfferedSizes)}}

\* From the granted stream to the first process() call.
Started(h, g, useIn, useOut) ==
  UNION {IF ~a.active
         THEN {Failed([a EXCEPT !.backend = "closed"])}
         ELSE {[a EXCEPT !.backend = "running", !.stream = g,
                         !.outs = IF useOut THEN Devices[a.outDev].outs ELSE 0,
                         !.ins = IF useIn THEN Devices[a.inDev].ins ELSE 0],
               Failed(DeactivatePlugin([a EXCEPT !.backend = "closed"]))}
         : a \in ActivatePlugin([h EXCEPT !.backend = "open", !.rate = g.rate,
                                          !.buffer = g.frames],
                                g.rate, 2 * g.frames)}

\* Mutant: the reports are left for the next poll.
KeepNews(h) == [h EXCEPT !.reopen = FALSE]

\* A stream's end is news only while that stream is open.
ForgetStopped(h) == [h EXCEPT !.reopen = FALSE, !.stopped = FALSE, !.rateChanged = FALSE]

StartAudioThreadOnImpl(h, in, useIn, out, useOut, rate) ==
  LET base == [ForgetStopped(StopAudioThread(Guaranteed(h))) EXCEPT
                 !.error = FALSE, !.ins = 0, !.outs = 0, !.stream = NoStream,
                 !.inDev = in, !.outDev = out,
                 !.inUsed = useIn /\ Known(Guaranteed(h), in),
                 !.outUsed = useOut /\ Known(Guaranteed(h), out)]
      used == (IF base.outUsed THEN {out} ELSE {}) \cup (IF base.inUsed THEN {in} ELSE {})
      vetted == IF base.outUsed THEN RateOfferedBy(base, out, rate)
                ELSE RateOfferedBy(base, in, rate)
      asked == IF vetted <= 0 THEN 48000 ELSE vetted
      size == IF base.buffer = 0 THEN DefaultSize ELSE base.buffer
  IN IF used = {} THEN {Failed(base)}
     ELSE {Failed([base EXCEPT !.buffer = size])}
          \cup UNION {Started(base, g, base.inUsed, base.outUsed) :
                        g \in Grants(base, used, asked, size)}

\* Opening needs every device it names plugged in.
Opens(h) == (h.backend = "running") => \A d \in {h.inDev, h.outDev} \ {NoDevice} :
              (d = h.inDev /\ ~h.inUsed) \/ (d = h.outDev /\ ~h.outUsed) \/ d \in DOMAIN plugged

StartAudioThreadOn(h, in, useIn, out, useOut, rate) ==
  {x \in StartAudioThreadOnImpl(h, in, useIn /\ AllowInput, out, useOut, rate) : Opens(x)}
-----------------------------------------------------------------------------
(* What opens a stream: the launch, a stream that stopped, a plugin's request. *)

SetChosenDevices(s, h, out, in) ==
  [s EXCEPT !.out = IF Known(h, out) THEN out ELSE @, !.in = IF Known(h, in) THEN in ELSE @]

CaptureAudioSettings(s, h) == [s EXCEPT !.api = h.api, !.buffer = h.buffer]

ApplyAudioSettings(h) ==
  LET s == h.settings
      k == SetAudioApi(h, s.api)
      out == Resolve(k, s.out, FALSE)
      in == Resolve(k, s.in, TRUE)
      chosen == in # NoDevice /\ in = s.in
  IN [k EXCEPT !.outDev = out, !.inDev = in,
               !.outUsed = s.outUsed /\ Known(k, out),
               !.inUsed = /\ s.inUsed /\ Known(k, in)
                          /\ (in \in DOMAIN k.listed => (chosen \/ ~Devices[in].mic)),
               !.rate = s.rate,
               !.buffer = IF s.buffer > Largest(OfferedSizes) THEN Largest(OfferedSizes)
                          ELSE s.buffer]

OpenSystemDefaults(h) ==
  LET k == Guaranteed(h)
      in == DefaultInputToOpen(k)
      out == DefaultDevice(k, FALSE)
      rate == IF out = NoDevice THEN 0 ELSE RateOfferedBy(k, out, 0)
  IN StartAudioThreadOn([k EXCEPT !.rate = rate], in, Known(k, in) /\ HasInput,
                        out, Known(k, out) /\ HasOutput, rate)

\* The saved configuration is tried quietly; only the defaults' failure is shown.
StartAudioThread(h, file) ==
  IF file = NoFile THEN OpenSystemDefaults(h)
  ELSE LET k == ApplyAudioSettings([h EXCEPT !.settings = file])
           tried == StartAudioThreadOn(k, k.inDev, k.inUsed /\ HasInput,
                                       k.outDev, k.outUsed /\ HasOutput, k.rate)
       IN {x \in tried : IsAudioRunning(x)}
          \cup UNION {OpenSystemDefaults(x) : x \in {y \in tried : ~IsAudioRunning(y)}}

ReopenStream(h, rate) ==
  IF \/ h.outUsed /\ ~Known(h, h.outDev)
     \/ h.inUsed /\ ~Known(h, h.inDev)
  THEN {h}
  ELSE StartAudioThreadOn(h, h.inDev, h.inUsed /\ HasInput, h.outDev, h.outUsed /\ HasOutput,
                          rate)

\* The rate another application gave one of our devices.
ForeignRate(h, before) ==
  LET moved == {d \in {h.outDev, h.inDev} \cap DOMAIN h.listed :
                  h.listed[d] > 0 /\ h.listed[d] # before}
  IN IF moved = {} THEN 0
     ELSE IF h.inDev \in moved THEN h.listed[h.inDev] ELSE h.listed[h.outDev]

HandleStopped(h) ==
  IF ~(h.stopped \/ h.rateChanged) THEN {h}
  ELSE LET down == [DeactivatePlugin(StopAudioThread(h)) EXCEPT
                      !.stopped = FALSE, !.rateChanged = FALSE, !.ins = 0, !.outs = 0,
                      !.error = TRUE, !.reopen = h.active, !.tries = 0, !.due = FALSE,
                      !.lost = h.active]
           fresh == RefreshDeviceList(down)
       IN IF ~(h.rateChanged /\ h.active) THEN {down}
          ELSE {[x EXCEPT !.reopen = ~IsAudioRunning(x), !.lost = ~IsAudioRunning(x)] :
                  x \in ReopenStream(fresh, ForeignRate(fresh, h.rate))}

HandleDevices(h) == IF h.devicesChanged THEN RefreshDeviceList(h) ELSE h

\* A try changes reopenPending only when the stream runs again; startAudioThreadOn() itself
\* has cleared it by then.
RetryReopen(h) ==
  IF /\ h.reopen /\ ~IsAudioRunning(h)
     /\ h.devicesChanged \/ (h.tries < RetryLimit /\ h.due)
  THEN LET k == [h EXCEPT !.tries = IF h.devicesChanged THEN @ ELSE @ + 1, !.due = FALSE]
       IN {[x EXCEPT !.reopen = IF IsAudioRunning(x) THEN FALSE ELSE @,
                     !.lost = ~IsAudioRunning(x)] : x \in ReopenStream(k, k.rate)}
  ELSE {h}

ApplyAudioConfigRequest(h) ==
  IF h.request = NoRequest THEN {h}
  ELSE LET r == h.request
           k == IF r.keepApi THEN h ELSE SetAudioApi(h, r.api)
           out == IF r.useOut THEN Resolve(k, r.out, FALSE) ELSE NoDevice
           in == IF r.useIn /\ HasInput THEN Resolve(k, r.in, TRUE) ELSE NoDevice
           tried == StartAudioThreadOn(
                      [k EXCEPT !.buffer = IF r.buffer > 0 THEN r.buffer ELSE @, !.lost = FALSE],
                      in, Known(k, in), out, Known(k, out) /\ HasOutput, r.rate)
           Kept(x) == [x EXCEPT !.settings =
                         [CaptureAudioSettings(SetChosenDevices(@, x, out, in), x) EXCEPT
                            !.outUsed = Known(k, out), !.inUsed = Known(k, in),
                            !.rate = r.rate]]
           Back(x) == IF ~r.keepApi /\ x.api # h.api THEN SetAudioApi(x, h.api) ELSE x
           Again(x) == IF ~IsAudioRunning(h) THEN {Back(x)}
                       ELSE StartAudioThreadOn([Back(x) EXCEPT !.buffer = h.buffer],
                                               h.inDev, h.inUsed /\ HasInput,
                                               h.outDev, h.outUsed /\ HasOutput, h.rate)
       IN {[x EXCEPT !.request = NoRequest] :
             x \in {Kept(y) : y \in {z \in tried : IsAudioRunning(z)}}
                   \cup UNION {Again(y) : y \in {z \in tried : ~IsAudioRunning(z)}}}
-----------------------------------------------------------------------------
StreamInit ==
  /\ host = [api |-> "", backend |-> "none", listed |-> <<>>, active |-> FALSE,
             plugin |-> NoStream, stream |-> NoStream, rate |-> 0, buffer |-> 0,
             inDev |-> NoDevice, outDev |-> NoDevice, inUsed |-> TRUE, outUsed |-> TRUE,
             ins |-> 0, outs |-> 0, stopped |-> FALSE, rateChanged |-> FALSE,
             devicesChanged |-> FALSE, reset |-> FALSE, reopen |-> FALSE, tries |-> 0,
             due |-> FALSE, lost |-> FALSE, request |-> NoRequest, error |-> FALSE,
             settings |-> [api |-> "", out |-> NoDevice, in |-> NoDevice, outUsed |-> TRUE,
                           inUsed |-> TRUE, rate |-> 0, buffer |-> DefaultSize]]
  /\ plugged = [d \in DOMAIN Devices |-> Smallest(Devices[d].rates)]
  /\ news = 0

News == news < MaxNews /\ news' = news + 1

\* mainStartAudio().
Launch ==
  /\ host.backend = "none"
  /\ \E file \in Saved : \E x \in StartAudioThread(host, file) :
       host' = x
  /\ UNCHANGED <<plugged, news>>

\* pollAudioEvents(), from the frontend's timer.
PollAudioEvents ==
  /\ host.backend # "none"
  /\ \E a \in HandleStopped(host) :
     \E b \in RetryReopen(HandleDevices(a)) :
     \E c \in ApplyAudioConfigRequest([b EXCEPT !.devicesChanged = FALSE]) :
       host' = c
  /\ UNCHANGED <<plugged, news>>

\* The backend's own thread: the stream stopped, or another application changed the rate.
OnStreamStopped ==
  /\ News
  /\ host.backend = "running"
  /\ host' = [host EXCEPT !.backend = "died", !.stopped = TRUE]
  /\ UNCHANGED plugged

OnRateChanged ==
  /\ News
  /\ host.backend = "running"
  /\ \E d \in {host.inDev, host.outDev} \cap DOMAIN plugged :
     \E r \in Devices[d].rates \ {plugged[d]} :
       /\ plugged' = [plugged EXCEPT ![d] = r]
       /\ host' = [host EXCEPT !.backend = "died", !.rateChanged = TRUE]

\* An ASIO driver whose panel changed something: the backend closes the stream for it.
OnResetRequested ==
  /\ News
  /\ host.backend = "running"
  /\ host' = [host EXCEPT !.backend = "closed", !.reset = TRUE]
  /\ UNCHANGED plugged

OnDevicesChanged ==
  /\ News
  /\ \E d \in DOMAIN Devices :
       \/ /\ d \in DOMAIN plugged
          /\ plugged' = [x \in DOMAIN plugged \ {d} |-> plugged[x]]
          /\ host' = IF host.backend = "running" /\ d \in {host.inDev, host.outDev}
                     THEN [host EXCEPT !.backend = "died", !.stopped = TRUE,
                                       !.devicesChanged = TRUE]
                     ELSE [host EXCEPT !.devicesChanged = TRUE]
       \/ /\ d \notin DOMAIN plugged
          /\ plugged' = [x \in DOMAIN plugged \cup {d} |->
                           IF x = d THEN Smallest(Devices[d].rates) ELSE plugged[x]]
          /\ host' = [host EXCEPT !.devicesChanged = TRUE]
  /\ host.backend # "none"

\* takeDriverReset(), polled by a frontend that opens the stream again for it.
TakeDriverReset ==
  /\ host.reset /\ host.backend \notin {"open", "running", "died"}
  /\ \E x \in StartAudioThreadOn([host EXCEPT !.reset = FALSE], host.inDev,
                                 host.inUsed /\ HasInput, host.outDev,
                                 host.outUsed /\ HasOutput, host.rate) :
       host' = [x EXCEPT !.lost = FALSE]
  /\ UNCHANGED <<plugged, news>>

RequestAudioConfig ==
  /\ News
  /\ host.request = NoRequest
  /\ \E r \in Requests : host' = [host EXCEPT !.request = r]
  /\ UNCHANGED plugged

RetryDue ==
  /\ host.reopen /\ ~host.due
  /\ host' = [host EXCEPT !.due = TRUE]
  /\ UNCHANGED <<plugged, news>>

StreamNext ==
  \/ Launch \/ PollAudioEvents \/ TakeDriverReset \/ RequestAudioConfig \/ RetryDue
  \/ OnStreamStopped \/ OnRateChanged \/ OnResetRequested \/ OnDevicesChanged

StreamSpec == StreamInit /\ [][StreamNext]_streamVars
-----------------------------------------------------------------------------
StreamTypeOK ==
  /\ host.backend \in {"none", "closed", "open", "running", "died"}
  /\ DOMAIN host.listed \subseteq DOMAIN Devices
  /\ {host.inDev, host.outDev} \subseteq Ids
  /\ host.tries \in 0 .. RetryLimit
  /\ DOMAIN plugged \subseteq DOMAIN Devices

(***************************************************************************)
(* The plugin is activated for the stream it is processing: at the rate    *)
(* the device granted, whatever was asked, and for blocks as large as the  *)
(* stream will deliver; and no stream runs into a plugin that is not       *)
(* active.                                                                 *)
(***************************************************************************)
ActivatedForTheStream ==
  host.backend \in {"running", "died"} =>
    /\ host.active
    /\ host.plugin.rate = host.stream.rate /\ host.rate = host.stream.rate
    /\ host.plugin.frames >= host.stream.frames

(***************************************************************************)
(* A stream's end is reported of that stream only: the report of a stream  *)
(* that has since been closed never takes down the one opened after it.    *)
(***************************************************************************)
StopIsOfThisStream ==
  host.backend = "running" => ~host.stopped /\ ~host.rateChanged

(***************************************************************************)
(* The devices kept for the next launch are the ones asked for, and are    *)
(* kept only when they opened: neither a fallback nor a device that went   *)
(* away replaces the user's choice.                                        *)
(***************************************************************************)
ChoiceKeptOnlyWhenItRuns ==
  [][ (host'.settings # host.settings /\ host.backend # "none") =>
        host'.backend \in {"running", "died"} \/ host'.reset ]_streamVars

(***************************************************************************)
(* A microphone is opened only when it was chosen.                         *)
(***************************************************************************)
MicrophoneOnlyWhenChosen ==
  host.ins > 0 /\ Devices[host.inDev].mic =>
    host.settings.in = host.inDev

(***************************************************************************)
(* standalone_host.h: "a stream that stopped with its devices still there  *)
(* - a driver error, a watchdog - is tried again a few times, further      *)
(* apart each time, and then only when devices change".  So as long as the *)
(* stream that was lost is not back, opening it again stays pending.       *)
(***************************************************************************)
LostStreamIsTriedAgain == host.lost => host.reopen
=============================================================================
