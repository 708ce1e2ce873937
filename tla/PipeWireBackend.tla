--------------------------- MODULE PipeWireBackend ---------------------------
(***************************************************************************)
(* The standalone's PipeWire backend                                       *)
(* (detail/standalone/linux/pipewire_backend.cpp): the main thread's calls,*)
(* the data thread's process callback, the loop thread's events and the    *)
(* watcher that connects again to a server that went away.                 *)
(*                                                                         *)
(* What runs under the thread loop's lock without a wait is one step; each *)
(* wait of open(), which gives the lock up, ends one.                      *)
(***************************************************************************)
EXTENDS Integers

CONSTANT LostWhileOpening   \* whether the server may go away while a stream is opened

VARIABLES
  core,         \* "none", "up", or "lost": the connection to the server
  main,         \* where open() or stop() is
  reopening,    \* the stop() is open()'s own
  current,      \* open() has made a stream, and stop() has not taken it
  active,       \* the process callback can see it
  callback,     \* start() has given it the host
  filter, filterError, streamOpen, stopped, pendingEvent,
  rateSet,      \* the rate the stream runs at is settled
  audio,        \* where the process callback is
  inProcess

pipeVars == <<core, main, reopening, current, active, callback, filter, filterError, streamOpen,
              stopped, pendingEvent, rateSet, audio, inProcess>>
ownerVars == <<reopening, current, active, callback>>
loopVars == <<core, filter, filterError, streamOpen, stopped, pendingEvent, rateSet>>
audioVars == <<audio, inProcess>>

\* abandon() keeps the lock while it waits.
LoopLocked == main = "abandoning"
Opening == main \in {"connecting", "appearing", "settling", "abandoning"}

PipeInit ==
  /\ core \in {"none", "up"} /\ main = "idle" /\ reopening = FALSE
  /\ current = FALSE /\ active = FALSE /\ callback = FALSE
  /\ filter = FALSE /\ filterError = FALSE /\ streamOpen = FALSE
  /\ stopped = FALSE /\ pendingEvent = FALSE /\ rateSet = FALSE
  /\ audio = "out" /\ inProcess = 0
-----------------------------------------------------------------------------
(* The main thread. *)

\* open() and stop(): the stream there is, is taken from the callback.
Stop ==
  /\ main = "idle"
  /\ reopening' \in BOOLEAN
  /\ main' = IF current THEN "stopping" ELSE IF reopening' THEN "connecting" ELSE "idle"
  /\ active' = FALSE
  /\ UNCHANGED <<current, callback, loopVars, audioVars>>

\* Mutant: the stream is taken away without a wait for the callback that holds it.
NotWaitedFor == TRUE

\* The callback either sees no stream, or holds it and is waited for.
CallbackIsOut == inProcess = 0

Unwatch == streamOpen' = FALSE /\ pendingEvent' = FALSE
DestroyFilter == filter' = FALSE

Stopped ==
  /\ main = "stopping" /\ CallbackIsOut
  /\ Unwatch /\ DestroyFilter
  /\ current' = FALSE /\ callback' = FALSE /\ rateSet' = FALSE
  /\ main' = IF reopening THEN "connecting" ELSE "idle"
  /\ UNCHANGED <<core, reopening, active, filterError, stopped, audioVars>>

\* A connection if there is none, the ports to link to, and the filter: the callback has
\* the stream from its first cycle on.
MakeFilter ==
  /\ main = "connecting"
  /\ \E up \in IF core = "up" THEN {"up"} ELSE {"up", "none"} :
     \E resolved \in BOOLEAN :
       /\ core' = up
       /\ IF up = "up" /\ resolved
          THEN /\ main' = "appearing" /\ current' = TRUE /\ active' = TRUE
               /\ filter' = TRUE /\ filterError' = FALSE
          ELSE main' = "idle" /\ UNCHANGED <<current, active, filter, filterError>>
  /\ UNCHANGED <<reopening, callback, streamOpen, stopped, pendingEvent, rateSet, audioVars>>

GiveUpOpening ==
  /\ main' = "abandoning" /\ active' = FALSE

\* The node, its ports and the links have appeared; or two seconds are over.
Link ==
  /\ main = "appearing"
  /\ \/ /\ ~filterError
        /\ main' = "settling" /\ streamOpen' = TRUE /\ stopped' = FALSE
        /\ UNCHANGED active
     \/ GiveUpOpening /\ UNCHANGED <<streamOpen, stopped>>
  /\ UNCHANGED <<reopening, current, callback, core, filter, filterError, pendingEvent, rateSet,
                 audioVars>>

Settle ==
  /\ main = "settling"
  /\ IF filterError \/ stopped
     THEN GiveUpOpening /\ UNCHANGED rateSet
     ELSE main' = "idle" /\ rateSet' = TRUE /\ UNCHANGED active
  /\ UNCHANGED <<reopening, current, callback, core, filter, filterError, streamOpen, stopped,
                 pendingEvent, audioVars>>

Abandoned ==
  /\ main = "abandoning" /\ CallbackIsOut
  /\ Unwatch /\ DestroyFilter
  /\ current' = FALSE /\ main' = "idle"
  /\ UNCHANGED <<core, reopening, active, callback, filterError, stopped, rateSet, audioVars>>

Start ==
  /\ main = "idle" /\ current /\ ~callback
  /\ callback' = TRUE
  /\ UNCHANGED <<main, reopening, current, active, loopVars, audioVars>>
-----------------------------------------------------------------------------
(* The data thread's process(). *)

CycleBegins ==
  /\ filter /\ audio = "out"
  /\ audio' = "entered" /\ inProcess' = inProcess + 1
  /\ UNCHANGED <<main, ownerVars, loopVars>>

LoadActive ==
  /\ audio = "entered"
  /\ audio' = IF active THEN "holding" ELSE "leaving"
  /\ UNCHANGED <<inProcess, main, ownerVars, loopVars>>

\* The graph switched to another rate under the stream.
RateChanged ==
  /\ audio = "holding" /\ rateSet /\ ~stopped
  /\ stopped' = TRUE /\ pendingEvent' = TRUE
  /\ UNCHANGED <<core, filter, filterError, streamOpen, rateSet, main, ownerVars, audioVars>>

ReadStopped ==
  /\ audio = "holding"
  /\ audio' = IF stopped THEN "leaving" ELSE "choosing"
  /\ UNCHANGED <<inProcess, main, ownerVars, loopVars>>

\* callback->process(), where start() has given it one.
CallHost ==
  /\ audio = "choosing"
  /\ audio' = IF callback THEN "calling" ELSE "leaving"
  /\ UNCHANGED <<inProcess, main, ownerVars, loopVars>>

CycleEnds ==
  /\ audio \in {"calling", "leaving"}
  /\ audio' = "out" /\ inProcess' = inProcess - 1
  /\ UNCHANGED <<main, ownerVars, loopVars>>
-----------------------------------------------------------------------------
(* The loop thread, under its lock, and the watcher. *)

\* A device, a port or a link of the stream is gone, the filter failed, or the server.
StreamStopped ==
  /\ ~LoopLocked /\ streamOpen /\ ~stopped
  /\ stopped' = TRUE
  /\ \E error \in BOOLEAN : filterError' = (filterError \/ error)
  /\ \E c \in {core, "lost"} : core' = c
  /\ UNCHANGED <<filter, streamOpen, pendingEvent, rateSet, main, ownerVars, audioVars>>

ServerLost ==
  /\ ~LoopLocked /\ core = "up" /\ ~streamOpen
  /\ LostWhileOpening \/ ~Opening
  /\ core' = "lost"
  /\ UNCHANGED <<filter, filterError, streamOpen, stopped, pendingEvent, rateSet, main, ownerVars,
                 audioVars>>

FilterFails ==
  /\ ~LoopLocked /\ filter /\ ~streamOpen /\ filterError' = TRUE
  /\ UNCHANGED <<core, filter, streamOpen, stopped, pendingEvent, rateSet, main, ownerVars,
                 audioVars>>

NotifyEvent ==
  /\ ~LoopLocked /\ pendingEvent
  /\ pendingEvent' = FALSE
  /\ UNCHANGED <<core, filter, filterError, streamOpen, stopped, rateSet, main, ownerVars,
                 audioVars>>

\* Not while a stream is open; what was made on the old connection goes with it.
Watch ==
  /\ ~LoopLocked /\ core # "up" /\ ~streamOpen
  /\ core' \in {"up", "none"} /\ core' # core
  /\ DestroyFilter
  /\ UNCHANGED <<filterError, streamOpen, stopped, pendingEvent, rateSet, main, ownerVars,
                 audioVars>>

PipeNext ==
  \/ Stop \/ Stopped \/ MakeFilter \/ Link \/ Settle \/ Abandoned \/ Start
  \/ CycleBegins \/ LoadActive \/ RateChanged \/ ReadStopped \/ CallHost \/ CycleEnds
  \/ StreamStopped \/ ServerLost \/ FilterFails \/ NotifyEvent \/ Watch

PipeSpec == PipeInit /\ [][PipeNext]_pipeVars
-----------------------------------------------------------------------------
PipeTypeOK ==
  /\ core \in {"none", "up", "lost"}
  /\ main \in {"idle", "stopping", "connecting", "appearing", "settling", "abandoning"}
  /\ audio \in {"out", "entered", "holding", "choosing", "calling", "leaving"}
  /\ inProcess = IF audio = "out" THEN 0 ELSE 1

(***************************************************************************)
(* The backend keeps AudioBackend's promises: no process() call runs once  *)
(* stop() has returned or open() has given up.                             *)
(***************************************************************************)
Promise == INSTANCE AudioBackend WITH
  stream <- IF ~current \/ Opening THEN "closed" ELSE IF ~callback THEN "open"
            ELSE IF stopped THEN "stopped" ELSE "running",
  calling <- audio = "calling"

PipeWireKeepsThePromise == Promise!BackendSpec

(***************************************************************************)
(* The filter open() is waiting for stays there for it: whatever takes it  *)
(* down leaves open() to ask a filter that is gone for its node.           *)
(***************************************************************************)
FilterStaysForOpen == main \in {"appearing", "settling"} => filter
=============================================================================
