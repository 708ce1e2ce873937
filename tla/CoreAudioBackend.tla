-------------------------- MODULE CoreAudioBackend --------------------------
(***************************************************************************)
(* The standalone's CoreAudio backend                                      *)
(* (detail/standalone/macos/coreaudio_backend.cpp): the main thread's      *)
(* calls, the IOProc, and the listener blocks of one serial queue.         *)
(*                                                                         *)
(* CoreAudio has AudioDeviceStop() return with the IOProc done.            *)
(***************************************************************************)
EXTENDS Integers, Sequences, SequencesExt

CONSTANTS
  CoreDevices,   \* uid -> [ins, outs: channels of each stream, settable]
  NoDevice,
  CoreRequests,  \* bound: what open() is asked, [out, in, rate], 0 for the device's own rate
  Unheard        \* whether a device may change before the blocks that listen to it are there,
                 \* and a block queued before it was removed may still run

VARIABLES
  core,          \* the devices as they are, and the main thread's
  notices,       \* notifications queued for the listener blocks
  io             \* the stream, as the IOProc and the blocks share it

coreVars == <<core, notices, io>>

CoreRates == {1, 2}
Uids == DOMAIN CoreDevices
Channels(uid, side) == IF uid = NoDevice THEN <<>> ELSE CoreDevices[uid][side]

NoStream == [out |-> NoDevice, in |-> NoDevice, rate |-> 0, aggregate |-> FALSE, opened |-> FALSE,
             inMap |-> <<>>, outMap |-> <<>>, listens |-> FALSE, enabled |-> FALSE, callback |-> FALSE,
             started |-> FALSE, render |-> "out"]

CoreInit ==
  /\ core = [rates |-> [u \in Uids |-> 1], list |-> [u \in Uids |-> 1],
             signature |-> [u \in Uids |-> 1], seen |-> <<>>, listener |-> "idle",
             main |-> "idle", heard |-> Uids, news |-> FALSE, todo |-> {}]
  /\ notices = {}
  /\ io = NoStream

Present == DOMAIN core.rates
RealDevices == {io.out, io.in} \ {NoDevice}
TwoDevices == io.out # NoDevice /\ io.in # NoDevice /\ io.out # io.in
-----------------------------------------------------------------------------
(* The devices. *)

StreamNotices(uid, what) == IF io.listens /\ uid \in RealDevices THEN {<<what, uid>>} ELSE {}

\* Nothing listens to the stream's devices from open() to the end of start(), nor to a
\* device's rate between a listing and its listeners.
Heard(uid) == Unheard \/ ((uid \in RealDevices => io.listens) /\ core.main # "listing")

DeviceComesOrGoes ==
  \E uid \in Uids :
    /\ Heard(uid)
    /\ core' = [core EXCEPT !.rates = IF uid \in Present
                                      THEN [u \in Present \ {uid} |-> @[u]]
                                      ELSE [u \in Present \cup {uid} |-> IF u = uid THEN 1 ELSE @[u]]]
    /\ notices' = notices \cup {<<"devices", NoDevice>>} \cup
                    IF uid \in Present THEN StreamNotices(uid, "alive") ELSE {}
    /\ UNCHANGED io

Switched(uid, rate) ==
  /\ core' = [core EXCEPT !.rates[uid] = rate]
  /\ notices' = notices \cup StreamNotices(uid, "rate") \cup
                  IF uid \in core.heard THEN {<<"devices", NoDevice>>} ELSE {}

\* Another application's doing.
RateSwitched ==
  /\ \E uid \in Present :
       CoreDevices[uid].settable /\ Heard(uid) /\ Switched(uid, 3 - core.rates[uid])
  /\ UNCHANGED io
-----------------------------------------------------------------------------
(* The listener queue: one block at a time. *)

\* devicesMayHaveChanged(): the devices are read, then told against the signature.
ReadDevices ==
  /\ core.listener = "idle" /\ <<"devices", NoDevice>> \in notices
  /\ core' = [core EXCEPT !.listener = "reading", !.seen = core.rates]
  /\ notices' = notices \ {<<"devices", NoDevice>>}
  /\ UNCHANGED io

CompareSignature ==
  /\ core.listener = "reading"
  /\ core' = [core EXCEPT !.listener = "idle", !.signature = core.seen, !.seen = <<>>,
                          !.news = @ \/ core.seen # core.signature]
  /\ UNCHANGED <<notices, io>>

\* streamStopped(), once: a device is gone, for good even when another takes its place, or at
\* another rate than the stream's.
StreamListener ==
  /\ core.listener = "idle"
  /\ \E notice \in notices \ {<<"devices", NoDevice>>} :
       LET uid == notice[2]
           ends == notice[1] = "alive" \/ (uid \in Present /\ core.rates[uid] # io.rate) IN
       /\ notices' = notices \ {notice}
       /\ io' = [io EXCEPT !.enabled = @ /\ ~ends]
  /\ UNCHANGED core
-----------------------------------------------------------------------------
(* The main thread: devices. *)

\* list(): the devices, what a change is told against, and listeners on each.
List ==
  /\ core.main = "idle" /\ core.news
  /\ core' = [core EXCEPT !.main = "listing", !.news = FALSE, !.list = core.rates]
  /\ UNCHANGED <<notices, io>>

\* Mutant: what the next change is told against is read again.
SignatureReadAgain == core.rates

NewSignature == core.list

Listed ==
  /\ core.main = "listing"
  /\ core' = [core EXCEPT !.main = "idle", !.signature = NewSignature, !.heard = DOMAIN core.list]
  /\ UNCHANGED <<notices, io>>
-----------------------------------------------------------------------------
(* The main thread: the stream. *)

\* unlisten() leaves a block that is queued; closeAll().
Closed == [NoStream EXCEPT !.render = io.render]
Unlistened == IF Unheard THEN notices ELSE notices \cap {<<"devices", NoDevice>>}

\* Mutant: the IOProc still runs when the stream is closed.
StopsAtOnce == TRUE

IOProcIsOut == io.render = "out"

Stop ==
  /\ core.main = "idle" /\ io.opened
  /\ core' = [core EXCEPT !.main = "stopping"]
  /\ io' = [io EXCEPT !.enabled = FALSE, !.listens = FALSE]
  /\ notices' = Unlistened

Stopped ==
  /\ core.main = "stopping" /\ IOProcIsOut
  /\ core' = [core EXCEPT !.main = "idle"]
  /\ io' = Closed
  /\ UNCHANGED notices

OpenBegins ==
  /\ core.main = "idle" /\ ~io.opened
  /\ \E request \in CoreRequests :
       LET asked == {request.out, request.in} \ {NoDevice} IN
       /\ asked \subseteq Present
       /\ io' = [io EXCEPT !.out = request.out, !.in = request.in, !.rate = request.rate]
       /\ core' = [core EXCEPT !.main = "setting", !.todo = asked]
  /\ UNCHANGED notices

GiveUp ==
  /\ core' = [core EXCEPT !.main = "idle", !.todo = {}]
  /\ io' = Closed
  /\ UNCHANGED notices

\* setRate() on each real device, the output's first: at its own where it cannot be set, if
\* it is the only one; and the set may not take.
SetRate ==
  /\ core.main = "setting" /\ core.todo # {}
  /\ LET uid == IF io.out \in core.todo THEN io.out ELSE io.in
         done == [core EXCEPT !.todo = @ \ {uid}] IN
     \/ /\ uid \in Present /\ (io.rate \in {0, core.rates[uid]} \/ (~CoreDevices[uid].settable /\ ~TwoDevices))
        /\ io' = [io EXCEPT !.rate = core.rates[uid]]
        /\ core' = done
        /\ UNCHANGED notices
     \/ /\ uid \in Present /\ io.rate \notin {0, core.rates[uid]} /\ CoreDevices[uid].settable
        /\ core' = [done EXCEPT !.rates[uid] = io.rate]
        /\ notices' = notices \cup IF uid \in core.heard THEN {<<"devices", NoDevice>>} ELSE {}
        /\ UNCHANGED io
     \/ /\ uid \in Present => io.rate \notin {0, core.rates[uid]}
        /\ GiveUp

ChannelCount(streams) == FoldSeq(+, 0, streams)

\* Where channel c of these streams lives: its buffer, its place there and the stride.
Place(streams, c) ==
  LET before(b) == ChannelCount(SubSeq(streams, 1, b - 1))
      b == CHOOSE b \in DOMAIN streams : before(b) <= c /\ c < before(b) + streams[b] IN
  [buffer |-> b, offset |-> c - before(b), stride |-> streams[b]]

\* An aggregate has the output device's streams first, in both directions.
Streams(side) ==
  IF TwoDevices THEN Channels(io.out, side) \o Channels(io.in, side)
  ELSE Channels(IF io.out # NoDevice THEN io.out ELSE io.in, side)

\* Mutant: the input device's channels come first, as in a request.
NoOffset == 0

InputOffset == IF TwoDevices THEN ChannelCount(Channels(io.out, "ins")) ELSE 0

MapChannels(uid, side, offset) ==
  [c \in 1 .. (IF uid = NoDevice THEN 0 ELSE ChannelCount(Channels(uid, side))) |->
     Place(Streams(side), offset + c - 1)]

\* The aggregate of two, which runs at the output's rate, the channels' places, the IOProc, and
\* the streams it needs.
Build ==
  /\ core.main = "setting" /\ core.todo = {}
  /\ \/ /\ RealDevices \subseteq Present
        /\ core' = [core EXCEPT !.main = "idle"]
        /\ notices' = notices \cup IF TwoDevices THEN {<<"devices", NoDevice>>} ELSE {}
        /\ io' = [io EXCEPT !.aggregate = TwoDevices, !.opened = TRUE,
                            !.rate = core.rates[IF io.out # NoDevice THEN io.out ELSE io.in],
                            !.inMap = MapChannels(io.in, "ins", InputOffset),
                            !.outMap = MapChannels(io.out, "outs", 0)]
     \/ GiveUp

Start ==
  /\ core.main = "idle" /\ io.opened /\ ~io.callback
  /\ io' = [io EXCEPT !.callback = TRUE, !.enabled = TRUE, !.started = RealDevices \subseteq Present]
  /\ core' = [core EXCEPT !.main = IF io'.started THEN "starting" ELSE "stopping"]
  /\ UNCHANGED notices

WatchRunningStream ==
  /\ core.main = "starting"
  /\ core' = [core EXCEPT !.main = "idle"]
  /\ io' = [io EXCEPT !.listens = TRUE]
  /\ UNCHANGED notices
-----------------------------------------------------------------------------
(* The IOProc. *)

Render ==
  /\ io.started /\ core.main # "stopping" /\ io.render = "out"
  /\ io' = [io EXCEPT !.render = IF io.enabled /\ io.callback THEN "calling" ELSE "out"]
  /\ UNCHANGED <<core, notices>>

Rendered ==
  /\ io.render = "calling"
  /\ io' = [io EXCEPT !.render = "out"]
  /\ UNCHANGED <<core, notices>>

CoreNext ==
  \/ DeviceComesOrGoes \/ RateSwitched \/ ReadDevices \/ CompareSignature \/ StreamListener
  \/ List \/ Listed \/ Stop \/ Stopped \/ OpenBegins \/ SetRate \/ Build \/ Start
  \/ WatchRunningStream \/ Render \/ Rendered

CoreSpec == CoreInit /\ [][CoreNext]_coreVars
-----------------------------------------------------------------------------
CoreTypeOK ==
  /\ core.main \in {"idle", "listing", "setting", "stopping", "starting"}
  /\ core.listener \in {"idle", "reading"} /\ core.heard \subseteq Uids
  /\ io.rate \in CoreRates \cup {0} /\ io.render \in {"out", "calling"}
  /\ (io.aggregate \/ io.callback) => io.opened

(***************************************************************************)
(* No process() call runs once stop() has returned, nor while a stream is  *)
(* opened.                                                                 *)
(***************************************************************************)
CorePromise == INSTANCE AudioBackend WITH
  stream <- IF ~io.opened THEN "closed" ELSE IF ~io.callback THEN "open"
            ELSE IF io.enabled THEN "running" ELSE "stopped",
  calling <- io.render = "calling"

CoreKeepsThePromise == CorePromise!BackendSpec

(***************************************************************************)
(* Every channel comes from, and goes to, a stream of the device it was    *)
(* asked of, each its own place, an aggregate's included.                  *)
(***************************************************************************)
CoreChannelsAreTheirs ==
  io.opened =>
    /\ \A a, b \in DOMAIN io.inMap : a # b => io.inMap[a] # io.inMap[b]
    /\ \A c \in DOMAIN io.inMap :
         /\ io.inMap[c].buffer > (IF TwoDevices THEN Len(Channels(io.out, "ins")) ELSE 0)
         /\ io.inMap[c].stride = Streams("ins")[io.inMap[c].buffer]
    /\ \A c \in DOMAIN io.outMap : io.outMap[c].buffer <= Len(Channels(io.out, "outs"))

(***************************************************************************)
(* A running stream's devices are there, and all at the stream's rate, or  *)
(* a block that will stop it is queued.                                    *)
(***************************************************************************)
CoreEndIsSeen ==
  io.listens /\ io.enabled =>
    \A uid \in RealDevices :
      \/ uid \in Present /\ core.rates[uid] = io.rate
      \/ <<"alive", uid>> \in notices \/ (uid \in Present /\ <<"rate", uid>> \in notices)

(***************************************************************************)
(* The devices the host was given are the ones there, or it will be told   *)
(* to list them again.                                                     *)
(***************************************************************************)
CoreListIsTrue ==
  core.list = core.rates \/ core.news \/ <<"devices", NoDevice>> \in notices
  \/ core.listener = "reading" \/ core.main = "listing"
=============================================================================
