---------------------------- MODULE AudioBackend ----------------------------
(***************************************************************************)
(* What an AudioBackend promises its host                                  *)
(* (detail/standalone/standalone_audio.h): the calls of the main thread,   *)
(* the process() calls the stream makes meanwhile, and a stream that stops *)
(* on its own.  PipeWireBackend, JackBackend, WasapiBackend, CoreAudio-    *)
(* Backend and RtAudioBackend implement it; StandaloneCallback runs the    *)
(* host on it.                                                             *)
(***************************************************************************)

VARIABLES
  stream,       \* "closed", "open", "running", or "stopped": on its own, not yet by stop()
  calling       \* a process() call is being made

backendVars == <<stream, calling>>

IsOpen == stream # "closed"
IsRunning == stream = "running"

BackendInit == stream = "closed" /\ calling = FALSE

\* On failure nothing is left open, the stream there was included.
OpenStream ==
  /\ ~calling
  /\ stream' \in {"open", "closed"}
  /\ UNCHANGED calling

\* A stream can stop on its own before start() has returned.
StartStream ==
  /\ stream = "open"
  /\ stream' \in {"running", "stopped", "closed"}
  /\ UNCHANGED calling

\* No process() call runs once stop() returns.
StopStream ==
  /\ stream # "closed" /\ ~calling
  /\ stream' = "closed"
  /\ UNCHANGED calling

\* StreamStopped, RateChanged; a call made, or about to be, may still come.
StreamStops ==
  /\ stream = "running"
  /\ stream' = "stopped"
  /\ UNCHANGED calling

CallBegins ==
  /\ stream \in {"running", "stopped"} /\ ~calling
  /\ calling' = TRUE
  /\ UNCHANGED stream

CallEnds ==
  /\ calling
  /\ calling' = FALSE
  /\ UNCHANGED stream

BackendNext ==
  \/ OpenStream \/ StartStream \/ StopStream \/ StreamStops \/ CallBegins \/ CallEnds

BackendSpec == BackendInit /\ [][BackendNext]_backendVars
=============================================================================
