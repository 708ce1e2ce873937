--------------------------- MODULE RtAudioBackend ---------------------------
(***************************************************************************)
(* RtAudio behind the AudioBackend interface                               *)
(* (detail/standalone/rtaudio_backend.cpp): what it makes of the errors    *)
(* RtAudio reports through one callback, from whichever of its calls or    *)
(* threads they come.                                                      *)
(***************************************************************************)

CONSTANT StopsWhileListing   \* whether a stream may stop while the devices are listed

\* dac: RtAudio's stream; main: the call being made; callback; events: told to the host;
\* calling: in rtCallback.
VARIABLE rt
rtVars == <<rt>>

RtInit ==
  \E asio \in BOOLEAN :
    rt = [asio |-> asio, dac |-> "closed", main |-> "idle", callback |-> FALSE, listValid |-> FALSE,
          events |-> {}, calling |-> FALSE]

Listing == rt.main = "listing"
Opening == rt.main = "opening"

\* Mutant: the errors of listing and opening are events too.
NothingSuppressed == FALSE

Suppressed == Listing \/ Opening

EventOf(error) ==
  CASE error = "disconnect" -> IF rt.asio THEN {"reset requested"} ELSE {"stream stopped"}
    [] error = "failure"    -> {"stream stopped"}
    [] OTHER                -> {}

OnError(r, error) == IF Suppressed THEN r ELSE [r EXCEPT !.events = @ \cup EventOf(error)]
-----------------------------------------------------------------------------
(* The main thread. *)

\* devices(), when the list is not valid: every driver may be loaded, and complain.
ListBegins ==
  /\ rt.main = "idle" /\ ~rt.listValid
  /\ rt' = [rt EXCEPT !.main = "listing"]

ListComplains ==
  /\ Listing
  /\ \E error \in {"warning", "failure"} : rt' = OnError(rt, error)

ListEnds ==
  /\ Listing
  /\ rt' = [rt EXCEPT !.main = "idle", !.listValid = TRUE]

RefreshDevices ==
  /\ rt.main = "idle" /\ rt.listValid
  /\ rt' = [rt EXCEPT !.listValid = FALSE]

Stop ==
  /\ rt.main = "idle" /\ rt.dac # "closed"
  /\ rt' = [rt EXCEPT !.main = "stopping"]

\* stopStream() and closeStream() return with the callback done.
Stopped ==
  /\ rt.main = "stopping" /\ ~rt.calling
  /\ rt' = [rt EXCEPT !.main = "idle", !.dac = "closed", !.callback = FALSE]

\* The devices' ids are looked up in the list, which is valid from here on.
OpenBegins ==
  /\ rt.main = "idle" /\ rt.dac = "closed" /\ rt.listValid
  /\ rt' = [rt EXCEPT !.main = "opening", !.events = {}]

OpenEnds ==
  /\ Opening
  /\ \/ rt' = [rt EXCEPT !.main = "idle", !.dac = "open"]
     \/ rt' = [OnError(rt, "failure") EXCEPT !.main = "idle", !.callback = FALSE]

\* A start that fails says so twice: its result, and an event.
Start ==
  /\ rt.main = "idle" /\ rt.dac = "open" /\ ~rt.callback
  /\ \/ rt' = [rt EXCEPT !.callback = TRUE, !.dac = "running"]
     \/ rt' = [OnError(rt, "failure") EXCEPT !.main = "stopping"]
-----------------------------------------------------------------------------
(* RtAudio's threads. *)

CallBegins ==
  /\ rt.dac = "running" /\ ~rt.calling /\ rt.callback
  /\ rt' = [rt EXCEPT !.calling = TRUE]

CallEnds ==
  /\ rt.calling
  /\ rt' = [rt EXCEPT !.calling = FALSE]

\* The stream's thread gives up, or an asio driver wants a reset.
ThreadFails ==
  /\ rt.dac = "running" /\ ~rt.calling /\ rt.main # "stopping" /\ (StopsWhileListing \/ ~Listing)
  /\ \E error \in {"disconnect", "failure"} : rt' = [OnError(rt, error) EXCEPT !.dac = "stopped"]

RtNext ==
  \/ ListBegins \/ ListComplains \/ ListEnds \/ RefreshDevices \/ Stop \/ Stopped
  \/ OpenBegins \/ OpenEnds \/ Start \/ CallBegins \/ CallEnds \/ ThreadFails

RtSpec == RtInit /\ [][RtNext]_rtVars
-----------------------------------------------------------------------------
(***************************************************************************)
(* No process() call runs once stop() has returned.                        *)
(***************************************************************************)
RtPromise == INSTANCE AudioBackend WITH
  stream <- IF rt.dac = "open" THEN "open" ELSE rt.dac, calling <- rt.calling

RtKeepsThePromise == RtPromise!BackendSpec

(***************************************************************************)
(* A stream that stopped on its own was reported, and a stream that runs   *)
(* was not: what went wrong in listing and opening is no event.            *)
(***************************************************************************)
RtEventsAreTheStreams ==
  /\ rt.dac = "stopped" => rt.events # {}
  /\ rt.dac = "running" => rt.events = {}
=============================================================================
