--------------------------- MODULE StandaloneScreen ---------------------------
(***************************************************************************)
(* The settings window of the standalone on X11                            *)
(* (detail/standalone/linux/x11_settings.cpp) over the stream of           *)
(* StandaloneStream.  Every choice of a menu is opened at once; OK keeps   *)
(* what is shown, Cancel goes back to what ran when the window opened.     *)
(* The plugin's requests, the devices' coming and going and the driver's   *)
(* events carry on while the window is up.                                 *)
(***************************************************************************)
EXTENDS StandaloneStream

VARIABLE
  screen        \* the SettingsWindow; NoScreen while there is none

screenVars == <<host, plugged, news, screen>>

NoScreen == [up |-> FALSE]
ClosedWith(how) == [up |-> FALSE, closedWith |-> how]
-----------------------------------------------------------------------------
(* What the menus hold. *)

OutDevices(h) == {d \in DOMAIN h.listed : Devices[d].outs > 0}
InDevices(h) == {d \in DOMAIN h.listed : Devices[d].ins > 0 /\ AllowInput}

\* The first output, or no input, where the device asked for is not in the list.
FillDevices(h, sc, out, in) ==
  [sc EXCEPT !.out = IF out \in OutDevices(h) THEN out
                     ELSE IF OutDevices(h) = {} THEN NoDevice ELSE Smallest(OutDevices(h)),
             !.in = IF in \in InDevices(h) THEN in ELSE NoDevice]

CommonRates(out, in) ==
  IF out = NoDevice THEN {}
  ELSE IF in = NoDevice THEN Devices[out].rates ELSE Devices[out].rates \cap Devices[in].rates

PreferredRate(rates, preferred) ==
  IF rates = {} THEN 0
  ELSE IF preferred \in rates THEN preferred
  ELSE IF 44100 \in rates THEN 44100 ELSE IF 48000 \in rates THEN 48000 ELSE Smallest(rates)

\* OK is there while the devices have a rate in common.
FillRates(sc, preferred) ==
  LET rates == CommonRates(sc.out, sc.in)
  IN [sc EXCEPT !.rate = PreferredRate(rates, preferred), !.okEnabled = rates # {}]

\* The largest size offered that is no larger than the one preferred, the running one too.
FillBufferSizes(h, sc, preferred) ==
  LET sizes == OfferedSizes \cup (IF h.buffer > 0 THEN {h.buffer} ELSE {})
      wanted == IF preferred = 0 THEN DefaultSize ELSE preferred
      fit == {s \in sizes : s <= wanted}
  IN [sc EXCEPT !.frames = IF fit = {} THEN Smallest(sizes) ELSE Largest(fit)]

Fill(h, sc, out, in, rate, frames) ==
  FillBufferSizes(h, FillRates(FillDevices(h, sc, out, in), rate), frames)

ShowRunningSetup(h, sc) ==
  Fill(h, sc, h.outDev, IF h.inUsed THEN h.inDev ELSE NoDevice, h.rate, h.buffer)
-----------------------------------------------------------------------------
(* Live apply. *)

RunningSetup(h) ==
  [running |-> IsAudioRunning(h), out |-> h.outDev, in |-> h.inDev, useOut |-> h.outUsed,
   useIn |-> h.inUsed, rate |-> h.rate, frames |-> h.buffer]

ShownSetup(sc) ==
  [running |-> TRUE, out |-> sc.out, in |-> sc.in, useOut |-> sc.out # NoDevice,
   useIn |-> sc.in # NoDevice, rate |-> sc.rate, frames |-> sc.frames]

RunsAs(h, sc, shown) ==
  LET now == RunningSetup(h)
  IN /\ ~sc.apiChanged /\ now.running /\ shown.rate = now.rate
     /\ shown.frames \in {0, now.frames}
     /\ shown.useOut = (h.outs > 0) /\ (shown.useOut => shown.out = now.out)
     /\ shown.useIn = (h.ins > 0) /\ (shown.useIn => shown.in = now.in)

OpenSetup(h, s) ==
  {[x EXCEPT !.lost = FALSE] :
     x \in StartAudioThreadOn([h EXCEPT !.buffer = IF s.frames > 0 THEN s.frames ELSE @],
                              s.in, s.useIn, s.out, s.useOut, s.rate)}

\* Mutant: the menus stay on the choice that did not open.
MenusStay(h, sc, before) ==
  LET again == IF before.running THEN OpenSetup(h, before) ELSE {h}
  IN {[h |-> x, sc |-> sc, ok |-> FALSE] : x \in again}

\* Back on the stream there was, and the menus with it.
PutBack(h, sc, before) ==
  LET api == IF sc.apiChanged THEN SetAudioApi(h, sc.apiWhenOpened) ELSE h
      stream == IF sc.apiChanged THEN sc.whenOpened ELSE before
      again == IF stream.running THEN OpenSetup(api, stream) ELSE {api}
  IN {[h |-> x, sc |-> ShowRunningSetup(x, [sc EXCEPT !.apiChanged = FALSE]), ok |-> FALSE] :
        x \in again}

OpenShownAudio(h, sc) ==
  LET shown == ShownSetup(sc)
      opened == OpenSetup(h, shown)
      Took(x) == LET kept == [sc EXCEPT !.openedHere = TRUE, !.apiChanged = FALSE]
                 IN [h |-> x, ok |-> TRUE,
                     sc |-> IF shown.frames # x.buffer THEN FillBufferSizes(x, kept, x.buffer)
                            ELSE kept]
  IN IF ~shown.useOut \/ ~sc.okEnabled THEN {[h |-> h, sc |-> sc, ok |-> FALSE]}
     ELSE IF RunsAs(h, sc, shown) THEN {[h |-> h, sc |-> sc, ok |-> TRUE]}
     ELSE {Took(x) : x \in {y \in opened : IsAudioRunning(y)}}
          \cup UNION {PutBack(x, sc, RunningSetup(h)) :
                        x \in {y \in opened : ~IsAudioRunning(y)}}

ApplyShown(h, sc) ==
  \E r \in OpenShownAudio(h, sc) : host' = r.h /\ screen' = r.sc
-----------------------------------------------------------------------------
ScreenInit == StreamInit /\ screen = NoScreen

OpenScreen ==
  /\ host.backend # "none" /\ ~screen.up
  /\ screen' = ShowRunningSetup(host,
       [up |-> TRUE, out |-> NoDevice, in |-> NoDevice, rate |-> 0, frames |-> 0,
        okEnabled |-> FALSE, apiChanged |-> FALSE, openedHere |-> FALSE,
        whenOpened |-> RunningSetup(host), apiWhenOpened |-> host.api])
  /\ UNCHANGED <<host, plugged, news>>

OnApiChanged(id) ==
  LET in == DefaultInputToOpen(SetAudioApi(host, id))
      there == SetAudioApi(host, id)
      sc == Fill(there, [screen EXCEPT !.apiChanged = TRUE], DefaultDevice(there, FALSE),
                 IF screen.in = NoDevice THEN NoDevice ELSE in, 0, screen.frames)
  IN id # host.api /\ ApplyShown(there, sc)

OnDeviceChanged(sc) ==
  ApplyShown(host, FillBufferSizes(host, FillRates(sc, sc.rate), sc.frames))

\* The item of an open menu is kept as its index, so a choice is one of the list as it is when
\* the menu closes, whatever it showed when it opened.
CloseMenu ==
  /\ screen.up /\ News
  /\ \/ \E i \in DOMAIN Apis : OnApiChanged(Apis[i])
     \/ \E d \in OutDevices(host) \ {screen.out} : OnDeviceChanged([screen EXCEPT !.out = d])
     \/ \E d \in (InDevices(host) \cup {NoDevice}) \ {screen.in} :
          OnDeviceChanged([screen EXCEPT !.in = d])
     \/ \E r \in CommonRates(screen.out, screen.in) \ {screen.rate} :
          ApplyShown(host, [screen EXCEPT !.rate = r])
  /\ UNCHANGED plugged

OnDefaults ==
  /\ screen.up /\ News
  /\ LET rate == IF DefaultDevice(host, FALSE) = NoDevice THEN 0
                 ELSE RateOfferedBy(host, DefaultDevice(host, FALSE), 0)
     IN ApplyShown(host, Fill(host, screen, DefaultDevice(host, FALSE),
                              DefaultInputToOpen(host), rate, DefaultSize))
  /\ UNCHANGED plugged

\* OK keeps what was shown when it was pressed, once that runs.
Ok ==
  /\ screen.up /\ screen.okEnabled
  /\ \E r \in OpenShownAudio(host, screen) :
       IF ~r.ok THEN host' = r.h /\ screen' = r.sc
       ELSE LET shown == ShownSetup(screen)
                s == SetChosenDevices(host.settings, r.h, shown.out, shown.in)
            IN /\ host' = [r.h EXCEPT !.settings =
                             CaptureAudioSettings([s EXCEPT !.outUsed = shown.useOut,
                                                            !.inUsed = shown.useIn,
                                                            !.rate = shown.rate], r.h)]
               /\ screen' = ClosedWith("applied")
  /\ UNCHANGED <<plugged, news>>

\* Mutant: Cancel leaves what a menu opened.
CancelKeeps(h, sc) == {h}

\* The stream the window was opened on, or, where nothing ran, what a launch would open.
Restored(h, sc) ==
  LET api == IF h.api # sc.apiWhenOpened THEN SetAudioApi(h, sc.apiWhenOpened) ELSE h
      saved == ApplyAudioSettings(api)
  IN IF ~(sc.openedHere \/ sc.apiChanged) THEN {h}
     ELSE IF sc.whenOpened.running THEN OpenSetup(api, sc.whenOpened)
     ELSE {[x EXCEPT !.lost = FALSE] :
             x \in StartAudioThreadOn(saved, saved.inDev, saved.inUsed /\ HasInput, saved.outDev,
                                      saved.outUsed /\ HasOutput, saved.rate)}

Cancel ==
  /\ screen.up
  /\ host' \in Restored(host, screen)
  /\ screen' = ClosedWith("cancelled")
  /\ UNCHANGED <<plugged, news>>

\* A poll that made the list again tells the window, which fills its menus from it.
ScreenPoll ==
  /\ PollAudioEvents
  /\ screen' = IF screen.up /\ host.devicesChanged
               THEN Fill(host', screen, screen.out, screen.in, screen.rate, screen.frames)
               ELSE screen

ScreenNext ==
  \/ ScreenPoll
  \/ /\ \/ Launch \/ TakeDriverReset \/ RequestAudioConfig \/ RetryDue
        \/ OnStreamStopped \/ OnRateChanged \/ OnResetRequested \/ OnDevicesChanged
     /\ UNCHANGED screen
  \/ OpenScreen \/ CloseMenu \/ OnDefaults \/ Ok \/ Cancel

ScreenSpec == ScreenInit /\ [][ScreenNext]_screenVars
-----------------------------------------------------------------------------
(***************************************************************************)
(* Whatever the menus opened, Cancel leaves the user with the stream the   *)
(* window was opened on or with none at all: never with a device, or an    *)
(* api, that was only tried.                                               *)
(***************************************************************************)
CancelGoesBack ==
  [][ (screen.up /\ screen' = ClosedWith("cancelled") /\ screen.openedHere
       /\ screen.whenOpened.running /\ host'.backend = "running") =>
        /\ host'.outDev = screen.whenOpened.out
        /\ host'.api = screen.apiWhenOpened ]_screenVars

(***************************************************************************)
(* A choice from a menu, whether it opened, was put back or put back the   *)
(* api, leaves the window showing the devices the stream runs on.          *)
(***************************************************************************)
ChoiceShowsWhatRuns ==
  [][ (screen.up /\ screen'.up /\ screen' # screen /\ host' # host
       /\ host'.devicesChanged = host.devicesChanged /\ host'.backend = "running") =>
        /\ screen'.out = host'.outDev
        /\ host'.inUsed => screen'.in = host'.inDev ]_screenVars
=============================================================================
