------------------------- MODULE StandaloneCallback -------------------------
(***************************************************************************)
(* The handshake of the standalone's main thread with its audio callback   *)
(* (process() and activatePlugin() of standalone_host.cpp, the starting    *)
(* and stopping of standalone_host_audio.cpp), over any backend that keeps *)
(* the promises of AudioBackend.                                           *)
(*                                                                         *)
(* A call of the main thread is a list of steps it still has to make; a    *)
(* step that calls another function puts that one's steps in front.        *)
(***************************************************************************)
EXTENDS AudioBackend, Sequences

VARIABLES
  todo,         \* main: the steps of the call in progress
  pass,         \* audio: "out", "waiting" for processLock, "processing"
  running, finishedRunning,
  lockedBy,     \* processLock's owner
  isActive, isProcessing

callbackVars ==
  <<stream, calling, todo, pass, running, finishedRunning, lockedBy, isActive, isProcessing>>
pluginVars == <<isActive, isProcessing>>
flagVars == <<running, finishedRunning, lockedBy>>

CallbackInit ==
  /\ BackendInit
  /\ todo = <<>> /\ pass = "out"
  /\ running = TRUE /\ finishedRunning = FALSE /\ lockedBy = "nobody"
  /\ isActive = FALSE /\ isProcessing = FALSE
-----------------------------------------------------------------------------
(* The main thread. *)

AtStep(s) == todo # <<>> /\ Head(todo) = s
Continue == todo' = Tail(todo)
Steps(s) == todo' = s \o Tail(todo)
Abandon == todo' = <<>>

\* startAudioThreadOn(): what was open is stopped, the new stream opened, the plugin made
\* ready for it, and only then started.
StartingStream ==
  /\ todo = <<>>
  /\ todo' = <<"stopAudioThread", "open", "activatePlugin", "start">>
  /\ UNCHANGED <<stream, calling, pass, flagVars, pluginVars>>

\* A stream that stopped, or the end: the stream down and the plugin off; and for another
\* api a new backend, with the flags as for the first.
TakeDown ==
  /\ todo = <<>>
  /\ \/ todo' = <<"stopAudioThread", "deactivatePlugin">>
     \/ todo' = <<"stopAudioThread", "deactivatePlugin", "new backend">>
  /\ UNCHANGED <<stream, calling, pass, flagVars, pluginVars>>

\* restartPlugin(): the plugin alone, under a stream that keeps running.
RestartPlugin ==
  /\ todo = <<>> /\ isActive
  /\ todo' = <<"activatePlugin">>
  /\ UNCHANGED <<stream, calling, pass, flagVars, pluginVars>>

StoppingStream ==
  /\ AtStep("stopAudioThread")
  /\ Steps((IF IsRunning THEN <<"quiesce", "acknowledged">> ELSE <<>>) \o <<"stop">>)
  /\ UNCHANGED <<stream, calling, pass, flagVars, pluginVars>>

DeactivatingPlugin ==
  /\ AtStep("deactivatePlugin")
  /\ Steps(IF isActive THEN <<"quiesce", "acknowledged", "stop_processing", "deactivate">>
           ELSE <<>>)
  /\ UNCHANGED <<stream, calling, pass, flagVars, pluginVars>>

\* Mutant: the flag is cleared beside the lock.
ClearedBeside ==
  /\ AtStep("quiesce")
  /\ running' = FALSE /\ Continue
  /\ UNCHANGED <<stream, calling, pass, finishedRunning, lockedBy, pluginVars>>

\* A callback sees the flag clear for its whole pass, or had begun and completes.
QuiesceProcessing ==
  /\ AtStep("quiesce") /\ lockedBy = "nobody"
  /\ running' = FALSE /\ Continue
  /\ UNCHANGED <<stream, calling, pass, finishedRunning, lockedBy, pluginVars>>

\* The callback has said so, none is going to run, or two seconds are over.
Acknowledged ==
  /\ AtStep("acknowledged") /\ Continue
  /\ UNCHANGED <<stream, calling, pass, flagVars, pluginVars>>

StopProcessing ==
  /\ AtStep("stop_processing") /\ Continue
  /\ isProcessing' = FALSE
  /\ UNCHANGED <<stream, calling, pass, flagVars, isActive>>

Deactivate ==
  /\ AtStep("deactivate") /\ Continue
  /\ isActive' = FALSE
  /\ UNCHANGED <<stream, calling, pass, flagVars, isProcessing>>

ActivatingPlugin ==
  /\ AtStep("activatePlugin")
  /\ Steps(<<"deactivatePlugin", "activate">>)
  /\ UNCHANGED <<stream, calling, pass, flagVars, pluginVars>>

\* activate(); one that fails closes what the caller opened.
Activate ==
  /\ AtStep("activate")
  /\ \/ isActive' = TRUE /\ Steps(<<"start_processing">>)
     \/ isActive' = FALSE /\ todo' = IF stream = "open" THEN <<"stop">> ELSE <<>>
  /\ UNCHANGED <<stream, calling, pass, flagVars, isProcessing>>

\* A plugin that does not start is not handed to the callback.
StartProcessing ==
  /\ AtStep("start_processing")
  /\ \/ isProcessing' = TRUE /\ Steps(<<"let in">>)
     \/ /\ isProcessing' = FALSE
        /\ todo' = <<"deactivatePlugin">> \o IF stream = "open" THEN <<"stop">> ELSE <<>>
  /\ UNCHANGED <<stream, calling, pass, flagVars, isActive>>

LetIn ==
  /\ AtStep("let in") /\ lockedBy = "nobody"
  /\ running' = TRUE /\ finishedRunning' = FALSE /\ Continue
  /\ UNCHANGED <<stream, calling, pass, lockedBy, pluginVars>>

NewBackend ==
  /\ AtStep("new backend") /\ Continue
  /\ running' = TRUE /\ finishedRunning' = FALSE
  /\ UNCHANGED <<stream, calling, pass, lockedBy, pluginVars>>

OpenBackend ==
  /\ AtStep("open") /\ OpenStream
  /\ IF stream' = "open" THEN Continue ELSE Abandon
  /\ UNCHANGED <<pass, flagVars, pluginVars>>

StartBackend ==
  /\ AtStep("start") /\ StartStream
  /\ todo' = IF stream' = "closed" THEN <<"deactivatePlugin">> ELSE <<>>
  /\ UNCHANGED <<pass, flagVars, pluginVars>>

StopBackend ==
  /\ AtStep("stop") /\ Continue
  /\ StopStream \/ (stream = "closed" /\ UNCHANGED <<stream, calling>>)
  /\ UNCHANGED <<pass, flagVars, pluginVars>>
-----------------------------------------------------------------------------
(* The audio thread. *)

Callback ==
  /\ pass = "out" /\ CallBegins
  /\ pass' = "waiting"
  /\ UNCHANGED <<todo, flagVars, pluginVars>>

\* With processLock held for the whole pass: silence and an answer, or the plugin.
Process ==
  /\ pass = "waiting" /\ lockedBy = "nobody"
  /\ lockedBy' = "audio"
  /\ pass' = IF running THEN "processing" ELSE "silent"
  /\ UNCHANGED <<stream, calling, todo, running, finishedRunning, pluginVars>>

Processed ==
  /\ pass \in {"processing", "silent"} /\ CallEnds
  /\ lockedBy' = "nobody" /\ pass' = "out"
  /\ finishedRunning' = (finishedRunning \/ pass = "silent")
  /\ UNCHANGED <<todo, running, pluginVars>>

CallbackNext ==
  \/ StartingStream \/ TakeDown \/ RestartPlugin
  \/ StoppingStream \/ DeactivatingPlugin \/ QuiesceProcessing \/ Acknowledged
  \/ StopProcessing \/ Deactivate \/ ActivatingPlugin \/ Activate \/ StartProcessing \/ LetIn
  \/ NewBackend \/ OpenBackend \/ StartBackend \/ StopBackend
  \/ Callback \/ Process \/ Processed
  \/ (StreamStops /\ UNCHANGED <<todo, pass, flagVars, pluginVars>>)

CallbackSpec == CallbackInit /\ [][CallbackNext]_callbackVars
-----------------------------------------------------------------------------
CallbackTypeOK ==
  /\ stream \in {"closed", "open", "running", "stopped"}
  /\ pass \in {"out", "waiting", "processing", "silent"}
  /\ calling = (pass # "out")
  /\ lockedBy = IF pass \in {"processing", "silent"} THEN "audio" ELSE "nobody"
  /\ {running, finishedRunning, isActive, isProcessing} \subseteq BOOLEAN

(***************************************************************************)
(* process() reaches the plugin only while it is activated and processing, *)
(* from the first instruction of the call to the last: however late the    *)
(* callback answers quiesceProcessing(), and even when it never does       *)
(* within the two seconds, stop_processing() and deactivate() come after   *)
(* the call in flight.                                                     *)
(***************************************************************************)
NoCallInPluginTeardown == pass = "processing" => isActive /\ isProcessing
=============================================================================
