----------------------------- MODULE JackBackend -----------------------------
(***************************************************************************)
(* The standalone's JACK backend (detail/standalone/linux/jack_backend.cpp)*)
(* between the main thread's calls, the client's process callback, the     *)
(* notifications, which only set flags, and the watcher that looks at them *)
(* every 250 ms.                                                           *)
(*                                                                         *)
(* What runs under clientLock is one step.  The watcher lets the lock go   *)
(* before it calls onEvent: a report is a step of its own.                 *)
(***************************************************************************)
EXTENDS Integers

CONSTANT BeforeTheWatcher   \* whether the main thread may list the devices, or open a stream, after
                            \* the server's end or a switch of its rate and before the watcher's
                            \* next look

VARIABLE jack
jackVars == <<jack>>

Rates == {1, 2}

\* The server: up, rate, device (its ports are there).  The flags: dead, graphChanged, and the
\* rate as last told.  Under the lock: client .. stopped.  The main thread: main, list, news.
JackInit ==
  \E up \in BOOLEAN :
    jack = [up |-> up, rate |-> 1, device |-> up, dead |-> FALSE, graphChanged |-> FALSE,
            client |-> FALSE, deadReported |-> FALSE, found |-> TRUE, signature |-> FALSE,
            lastRate |-> 1, streamRate |-> 1, streamOpen |-> FALSE, stopped |-> FALSE,
            main |-> "idle", list |-> FALSE, news |-> TRUE,
            current |-> FALSE, active |-> FALSE, callback |-> FALSE,
            audio |-> "out", reports |-> {}, past |-> FALSE]

InProcess == jack.audio # "out"
ClientLocked == jack.main = "letting go"
ServerThere == jack.client /\ ~jack.dead
-----------------------------------------------------------------------------
(* The server and its notifications. *)

\* The shutdown callback; the device and the rate are the next server's.
Shutdown ==
  /\ jack.up
  /\ jack' = [jack EXCEPT !.up = FALSE, !.rate = 1, !.device = FALSE, !.dead = @ \/ jack.client]

ServerStarts ==
  /\ ~jack.up
  /\ \E r \in Rates, d \in BOOLEAN : jack' = [jack EXCEPT !.up = TRUE, !.rate = r, !.device = d]

SampleRateCallback ==
  /\ jack.up
  /\ \E r \in Rates \ {jack.rate} : jack' = [jack EXCEPT !.rate = r]

\* A device's ports go, or come: clientCallback and portCallback.
PortCallback ==
  /\ jack.up
  /\ jack' = [jack EXCEPT !.device = ~@, !.graphChanged = @ \/ ServerThere]
-----------------------------------------------------------------------------
(* connect(), as devices() and open() call it: what it leaves. *)

\* The dead client is let go; the stream's ports went with it.
LetGo(j) == IF j.client /\ j.dead THEN [j EXCEPT !.client = FALSE] ELSE j

\* A server may be there and still refuse us.
Connects(j, made) ==
  LET left == LetGo(j) IN
  IF left.client THEN left
  ELSE IF made THEN [left EXCEPT !.client = TRUE, !.dead = FALSE, !.deadReported = FALSE,
                                 !.lastRate = left.rate]
  ELSE [left EXCEPT !.found = FALSE]

Listing(j) ==
  IF j.client THEN [j EXCEPT !.list = j.device, !.signature = j.device] ELSE [j EXCEPT !.list = FALSE]

\* The watcher has seen how the server is.
Looked == jack.client => IF jack.dead THEN jack.deadReported ELSE jack.rate = jack.lastRate

\* devices() after refreshDevices().
RefreshDevices ==
  /\ jack.main = "idle" /\ jack.news
  /\ BeforeTheWatcher \/ Looked
  /\ IF jack.client /\ jack.dead /\ jack.current
     THEN jack' = [jack EXCEPT !.news = FALSE, !.main = "letting go", !.active = FALSE]
     ELSE \E made \in {FALSE, jack.up} :
            jack' = Listing(Connects([jack EXCEPT !.news = FALSE], made))

\* connect() has waited, under the lock, for the callback that held the stream.
LetGoWaited ==
  /\ jack.main = "letting go" /\ ~InProcess
  /\ \E made \in {FALSE, jack.up} : jack' = Listing(Connects([jack EXCEPT !.main = "idle"], made))
-----------------------------------------------------------------------------
(* The main thread's stream. *)

\* stop(), or open()'s own of a device the host knows: the callback either sees no stream, or
\* holds it and is waited for.
Stop ==
  /\ jack.main = "idle" /\ jack.current
  /\ \E next \in {"stopping"} \cup IF jack.list THEN {"reopening"} ELSE {} :
       jack' = [jack EXCEPT !.active = FALSE, !.main = next]

\* Mutant: the stream is taken away without a wait for the callback that holds it.
NotWaitedFor == TRUE

CallbackIsOut == ~InProcess

\* What the stream was no longer matters.
Closed(j) == [j EXCEPT !.current = FALSE, !.callback = FALSE, !.streamOpen = FALSE, !.streamRate = 1,
                       !.stopped = FALSE,
                       !.past = j.reports \cap {"stopped", "rate"} # {}]

Stopped ==
  /\ jack.main \in {"stopping", "reopening"} /\ CallbackIsOut
  /\ jack' = [Closed(jack) EXCEPT !.main = IF jack.main = "reopening" THEN "opening" ELSE "idle"]

OpenBegins ==
  /\ jack.main = "idle" /\ ~jack.current /\ jack.list
  /\ jack' = [jack EXCEPT !.main = "opening"]

\* The ports, their connections to the device's, and what the watcher checks the stream
\* against; on a failure the ports are unregistered and there is no stream.
Opens(j) == [j EXCEPT !.streamRate = j.rate, !.streamOpen = TRUE, !.stopped = FALSE,
                      !.current = TRUE, !.active = TRUE]

Open ==
  /\ jack.main = "opening" /\ (BeforeTheWatcher \/ Looked)
  /\ \E made \in {FALSE, jack.up} :
       LET connected == [Connects(jack, made) EXCEPT !.main = "idle"] IN
       jack' \in {connected} \cup IF connected.client /\ jack.up /\ jack.device THEN {Opens(connected)} ELSE {}

Start ==
  /\ jack.main = "idle" /\ jack.current /\ ~jack.callback
  /\ jack' = [jack EXCEPT !.callback = TRUE]
-----------------------------------------------------------------------------
(* The client's process callback. *)

Process ==
  /\ ServerThere /\ jack.audio = "out"
  /\ jack' = [jack EXCEPT !.audio = "entered"]

LoadActive ==
  /\ jack.audio = "entered"
  /\ jack' = [jack EXCEPT !.audio = IF jack.active THEN "holding" ELSE "out"]

\* The host fills the block, or it is silent; blocks no larger than the stream's follow.
ChooseCallback ==
  /\ jack.audio = "holding"
  /\ jack' = [jack EXCEPT !.audio = IF ~jack.stopped /\ jack.callback THEN "calling" ELSE "out"]

ProcessEnds ==
  /\ jack.audio = "calling"
  /\ jack' = [jack EXCEPT !.audio = "out"]
-----------------------------------------------------------------------------
(* The watcher. *)

CanLook == ~ClientLocked /\ jack.reports = {}

\* stopped.exchange(true): the event is the stream's first, if one is open.
Ends(j, event) ==
  IF j.streamOpen /\ ~j.stopped
  THEN [j EXCEPT !.stopped = TRUE, !.reports = @ \cup {event}, !.past = FALSE] ELSE j

DevicesChange(j) == [j EXCEPT !.reports = @ \cup {"devices"}]

CheckDead ==
  /\ CanLook /\ jack.client /\ jack.dead /\ ~jack.deadReported
  /\ jack' = DevicesChange(Ends([jack EXCEPT !.deadReported = TRUE, !.found = FALSE], "stopped"))

\* A server to connect to, once there is one.
Probe ==
  /\ CanLook /\ ~ServerThere /\ (jack.dead /\ jack.client => jack.deadReported)
  /\ ~jack.found /\ jack.up
  /\ jack' = DevicesChange([jack EXCEPT !.found = TRUE])

\* Mutant: the stream is checked only when the devices differ from the ones listed.
CheckGraphListed(j) ==
  IF j.device = j.signature THEN [j EXCEPT !.graphChanged = FALSE]
  ELSE DevicesChange([(IF j.device THEN j ELSE Ends(j, "stopped")) EXCEPT
                        !.graphChanged = FALSE, !.signature = j.device])

CheckRate(j) ==
  IF j.rate = j.lastRate THEN j
  ELSE DevicesChange([(IF j.rate = j.streamRate THEN j ELSE Ends(j, "rate")) EXCEPT !.lastRate = j.rate])

CheckGraph(j) ==
  IF ~j.graphChanged THEN j
  ELSE LET told == IF j.device = j.signature THEN j ELSE DevicesChange(j) IN
       [(IF j.device THEN told ELSE Ends(told, "stopped")) EXCEPT
          !.graphChanged = FALSE, !.signature = j.device]

CheckGoing ==
  /\ CanLook /\ ServerThere /\ (jack.rate # jack.lastRate \/ jack.graphChanged)
  /\ jack' = CheckGraph(CheckRate(jack))

\* onEvent, after the lock; the host lists the devices again.
Report ==
  /\ \E event \in jack.reports :
       jack' = [jack EXCEPT !.reports = @ \ {event}, !.news = @ \/ event = "devices",
                            !.past = @ /\ event = "devices"]

JackNext ==
  \/ Shutdown \/ ServerStarts \/ SampleRateCallback \/ PortCallback
  \/ RefreshDevices \/ LetGoWaited \/ Stop \/ Stopped \/ OpenBegins \/ Open \/ Start
  \/ Process \/ LoadActive \/ ChooseCallback \/ ProcessEnds
  \/ CheckDead \/ Probe \/ CheckGoing \/ Report

JackSpec == JackInit /\ [][JackNext]_jackVars
-----------------------------------------------------------------------------
JackTypeOK ==
  /\ jack.main \in {"idle", "stopping", "reopening", "opening", "letting go"}
  /\ jack.audio \in {"out", "entered", "holding", "calling"}
  /\ jack.reports \subseteq {"stopped", "rate", "devices"}
  /\ jack.rate \in Rates /\ jack.lastRate \in Rates /\ jack.streamRate \in Rates
  /\ jack.active => jack.current
  /\ jack.deadReported => jack.dead

(***************************************************************************)
(* No process() call runs once stop() has returned, or once the stream's   *)
(* dead client has been let go.                                            *)
(***************************************************************************)
JackPromise == INSTANCE AudioBackend WITH
  stream <- IF ~jack.current THEN "closed" ELSE IF ~jack.callback THEN "open"
            ELSE IF jack.stopped THEN "stopped" ELSE "running",
  calling <- jack.audio = "calling"

JackKeepsThePromise == JackPromise!BackendSpec

(***************************************************************************)
(* A stream that can no longer run has been reported, or the watcher still *)
(* has the sign of it: the server went, the device went, or the rate is    *)
(* another.                                                                *)
(***************************************************************************)
JackEndIsSeen ==
  jack.streamOpen /\ ~jack.stopped =>
    /\ jack.client
    /\ jack.up \/ (jack.dead /\ ~jack.deadReported)
    /\ ServerThere /\ ~jack.device => jack.graphChanged
    /\ ServerThere /\ jack.rate # jack.streamRate => jack.rate # jack.lastRate

(***************************************************************************)
(* The devices the host was given are the server's, or it is about to be   *)
(* told to list them again; and once more when the server is back.         *)
(***************************************************************************)
JackListIsTrue ==
  ~ClientLocked /\ ~jack.news /\ "devices" \notin jack.reports =>
    IF jack.client
    THEN (jack.list = jack.device) \/ jack.graphChanged \/ (jack.dead /\ ~jack.deadReported)
    ELSE ~jack.found

(***************************************************************************)
(* A stream's end is told of that stream: not after stop() and the next    *)
(* open().                                                                 *)
(***************************************************************************)
JackReportIsOfTheStream ==
  jack.past => ~jack.current
=============================================================================
