---------------------------- MODULE Vst3Threads ----------------------------
(***************************************************************************)
(* Who is inside the plug-in of a ClapAsVst3, and when.  The host calls on  *)
(* its main thread and on its audio thread.  On Linux a helper thread of    *)
(* the module stands in for a main thread the host never lends: it idles    *)
(* every attached object until a view brings a run loop.                    *)
(* One plug-in object, one timer of the plug-in, a host that deactivates    *)
(* only after processing has stopped.                                       *)
(***************************************************************************)
EXTENDS Integers, FiniteSets
VARIABLES
  active, processing, processEverCalled,   \* _active, _processing, _processEverCalled
  attached,          \* in LinuxHelper::_plugs
  runLoop,           \* _iRunLoop is set
  mainThreadLock, processOrFlushLock, processingLock, standInLock,   \* owners
  parked,            \* the helper waits for a notification
  at,                \* thread -> what it is doing
  requested,         \* the set of requests the plug-in has raised
  timer              \* the plug-in's timer: period set, due, handler on the run loop
threadVars == <<active, processing, processEverCalled, attached, runLoop, mainThreadLock,
                processOrFlushLock, processingLock, standInLock, parked, at, requested, timer>>

Threads == {"host", "audio", "helper"}
Requests == {"flush", "callback", "restart", "resize"}
free == "free"

ThreadsInit ==
  /\ active = FALSE /\ processing = FALSE /\ processEverCalled = FALSE
  /\ attached = FALSE /\ runLoop = FALSE /\ parked = TRUE
  /\ mainThreadLock = free /\ processOrFlushLock = free /\ processingLock = free /\ standInLock = free
  /\ at = [t \in Threads |-> "out"] /\ requested = {}
  /\ timer = [armed |-> FALSE, due |-> FALSE, handler |-> FALSE]

locks == <<mainThreadLock, processOrFlushLock, processingLock, standInLock>>
flags == <<active, processing, processEverCalled, attached>>
Goes(t, from, to) == at[t] = from /\ at' = [at EXCEPT ![t] = to]

\* hasOwnIdleSource()
AnyoneWantsTicking == attached /\ ~ runLoop

----------------------------------------------------------------------------
(* setActive(): attach() and detach() wait for an idle that is in flight.   *)
SetActiveOn ==
  /\ Goes("host", "out", "activating") /\ ~ active
  /\ UNCHANGED <<flags, locks, runLoop, parked, requested, timer>>

Attach ==
  /\ Goes("host", "activating", "out") /\ standInLock = free
  /\ active' = TRUE /\ attached' = TRUE /\ parked' = FALSE
  /\ UNCHANGED <<processing, processEverCalled, locks, runLoop, requested, timer>>

DetachAtOnce == TRUE
DetachWaits == standInLock = free

Detach ==
  /\ Goes("host", "out", "deactivating") /\ active /\ ~ processing /\ at["audio"] = "out"
  /\ DetachWaits
  /\ attached' = FALSE /\ parked' = FALSE
  /\ UNCHANGED <<active, processing, processEverCalled, locks, runLoop, requested, timer>>

SetActiveOff ==
  /\ Goes("host", "deactivating", "out")
  /\ active' = FALSE
  /\ UNCHANGED <<processing, processEverCalled, attached, locks, runLoop, parked, requested, timer>>

\* The entry points that take _mainThreadLock: setState, getState, createView, setupProcessing,
\* setBusArrangements, getParamStringByValue, getParamValueByString.
EnterLocked ==
  /\ Goes("host", "out", "entry") /\ mainThreadLock = free
  /\ mainThreadLock' = "host"
  /\ UNCHANGED <<flags, processOrFlushLock, processingLock, standInLock, runLoop, parked, requested, timer>>

LeaveLocked ==
  /\ Goes("host", "entry", "out") /\ mainThreadLock' = free
  /\ UNCHANGED <<flags, processOrFlushLock, processingLock, standInLock, runLoop, parked, requested, timer>>

----------------------------------------------------------------------------
(* The view's frame brings a run loop and takes it away.                    *)
AttachTimers ==
  /\ Goes("host", "out", "changed") /\ ~ runLoop
  /\ runLoop' = TRUE /\ timer' = [timer EXCEPT !.handler = timer.armed]
  /\ UNCHANGED <<flags, locks, parked, requested>>

DetachTimers ==
  /\ Goes("host", "out", "changed") /\ runLoop
  /\ runLoop' = FALSE /\ timer' = [timer EXCEPT !.handler = FALSE]
  /\ UNCHANGED <<flags, locks, parked, requested>>

WaitsOutIdle == standInLock = free

NotifyLost == parked
Notified == FALSE

IdleSourceChanged ==
  /\ Goes("host", "changed", "out") /\ WaitsOutIdle
  /\ parked' = Notified
  /\ UNCHANGED <<flags, locks, runLoop, requested, timer>>

RegisterTimer ==
  /\ at["host"] = "entry" /\ ~ timer.armed
  /\ timer' = [armed |-> TRUE, due |-> FALSE, handler |-> runLoop]
  /\ UNCHANGED <<flags, locks, runLoop, parked, at, requested>>

UnregisterTimer ==
  /\ at["host"] = "entry" /\ timer.armed
  /\ timer' = [armed |-> FALSE, due |-> FALSE, handler |-> FALSE]
  /\ UNCHANGED <<flags, locks, runLoop, parked, at, requested>>

TimerDue ==
  /\ timer.armed /\ ~ timer.due /\ timer' = [timer EXCEPT !.due = TRUE]
  /\ UNCHANGED <<flags, locks, runLoop, parked, at, requested>>

\* The run loop fires the timer's own handler on the host's main thread.
FireTimer ==
  /\ at["host"] = "out" /\ timer.handler /\ timer.due
  /\ timer' = [timer EXCEPT !.due = FALSE]
  /\ UNCHANGED <<flags, locks, runLoop, parked, at, requested>>

----------------------------------------------------------------------------
(* The audio thread.                                                        *)
EnterProcess ==
  /\ Goes("audio", "out", "process") /\ active /\ processing /\ processOrFlushLock = free
  /\ processOrFlushLock' = "audio" /\ processEverCalled' = TRUE
  /\ UNCHANGED <<active, processing, attached, mainThreadLock, processingLock, standInLock, runLoop, parked, requested, timer>>

LeaveProcess ==
  /\ Goes("audio", "process", "out") /\ processOrFlushLock' = free
  /\ UNCHANGED <<flags, mainThreadLock, processingLock, standInLock, runLoop, parked, requested, timer>>

\* setProcessing(): the flag is the plug-in's answer, so a refused start is asked again.
SetProcessing ==
  /\ active /\ processingLock = free /\ processingLock' = "audio"
  /\ \/ ~ processing /\ Goes("audio", "out", "start") /\ UNCHANGED processing
     \/ processing /\ Goes("audio", "out", "stop") /\ processing' = FALSE
  /\ UNCHANGED <<active, processEverCalled, attached, mainThreadLock, processOrFlushLock, standInLock, runLoop, parked, requested, timer>>

ProcessingStarted ==
  /\ Goes("audio", "start", "out") /\ processingLock' = free /\ processing' \in BOOLEAN
  /\ UNCHANGED <<active, processEverCalled, attached, mainThreadLock, processOrFlushLock, standInLock, runLoop, parked, requested, timer>>

Stopped ==
  /\ Goes("audio", "stop", "out") /\ processingLock' = free /\ processEverCalled' = FALSE
  /\ UNCHANGED <<active, processing, attached, mainThreadLock, processOrFlushLock, standInLock, runLoop, parked, requested, timer>>

RequestCallback(r) ==
  /\ r \notin requested /\ requested' = requested \cup {r}
  /\ UNCHANGED <<flags, locks, runLoop, parked, at, timer>>

----------------------------------------------------------------------------
(* The helper thread: it holds its lock across the idle.                    *)
Park ==
  /\ at["helper"] = "out" /\ ~ parked /\ standInLock = free /\ ~ AnyoneWantsTicking
  /\ parked' = TRUE
  /\ UNCHANGED <<flags, locks, runLoop, at, requested, timer>>

HelperTick ==
  /\ Goes("helper", "out", "tick") /\ ~ parked /\ AnyoneWantsTicking /\ standInLock = free
  /\ standInLock' = "helper"
  /\ UNCHANGED <<flags, mainThreadLock, processOrFlushLock, processingLock, runLoop, parked, requested, timer>>

\* try_lock: what is skipped is picked up on the next tick.
TryLock(t) == mainThreadLock = free

HelperIdle ==
  /\ at["helper"] = "tick"
  /\ IF ~ runLoop /\ TryLock("helper")
     THEN Goes("helper", "tick", "idle") /\ mainThreadLock' = "helper" /\ UNCHANGED standInLock
     ELSE Goes("helper", "tick", "out") /\ standInLock' = free /\ UNCHANGED mainThreadLock
  /\ UNCHANGED <<flags, processOrFlushLock, processingLock, runLoop, parked, requested, timer>>

HelperDone ==
  /\ Goes("helper", "idled", "out") /\ standInLock' = free
  /\ UNCHANGED <<flags, mainThreadLock, processOrFlushLock, processingLock, runLoop, parked, requested, timer>>

\* The IdleHandler of the run loop, on the host's main thread.
RunLoopIdle ==
  /\ Goes("host", "out", "idle") /\ runLoop /\ TryLock("host")
  /\ mainThreadLock' = "host"
  /\ UNCHANGED <<flags, processOrFlushLock, processingLock, standInLock, runLoop, parked, requested, timer>>

\* onIdle() by t: flush, on_main_thread, restart, resize, then the timers.
RequestedFlush(t) ==
  /\ at[t] = "idle" /\ UNCHANGED <<flags, mainThreadLock, standInLock, runLoop, parked, timer>>
  /\ \/ "flush" \notin requested /\ Goes(t, "idle", "callback")
        /\ UNCHANGED <<processOrFlushLock, processingLock, requested>>
     \/ /\ "flush" \in requested /\ processOrFlushLock = free
        /\ processOrFlushLock' = t /\ UNCHANGED <<processingLock, requested>>
        /\ Goes(t, "idle", "lock")

FlushAnyway == TRUE
MayFlush == ~ processing \/ ~ processEverCalled

LockProcessing(t) ==
  /\ at[t] = "lock" /\ processingLock = free /\ requested' = requested \ {"flush"}
  /\ IF MayFlush
     THEN Goes(t, "lock", "flush") /\ processingLock' = t /\ UNCHANGED processOrFlushLock
     ELSE Goes(t, "lock", "callback") /\ processOrFlushLock' = free /\ UNCHANGED processingLock
  /\ UNCHANGED <<flags, mainThreadLock, standInLock, runLoop, parked, timer>>

Flushed(t) ==
  /\ Goes(t, "flush", "callback") /\ processOrFlushLock' = free /\ processingLock' = free
  /\ UNCHANGED <<flags, mainThreadLock, standInLock, runLoop, parked, requested, timer>>

OnMainThread(t) ==
  /\ Goes(t, "callback", "timers") /\ requested' = requested \ {"callback", "restart", "resize"}
  /\ UNCHANGED <<flags, locks, runLoop, parked, timer>>

OnTimers(t) ==
  /\ Goes(t, "timers", IF t = "helper" THEN "idled" ELSE "out")
  /\ timer' = IF runLoop THEN timer ELSE [timer EXCEPT !.due = FALSE]
  /\ mainThreadLock' = free
  /\ UNCHANGED <<flags, processOrFlushLock, processingLock, standInLock, runLoop, parked, requested>>

OnIdle(t) == RequestedFlush(t) \/ LockProcessing(t) \/ Flushed(t) \/ OnMainThread(t) \/ OnTimers(t)

HostStep == SetActiveOn \/ Detach \/ EnterLocked \/ AttachTimers \/ DetachTimers \/ RegisterTimer \/ UnregisterTimer
HostReturns == Attach \/ SetActiveOff \/ LeaveLocked \/ IdleSourceChanged \/ OnIdle("host")
Audio == EnterProcess \/ SetProcessing
AudioReturns == LeaveProcess \/ ProcessingStarted \/ Stopped
Helper == Park \/ HelperTick \/ HelperIdle \/ HelperDone \/ OnIdle("helper")

ThreadsNext ==
  \/ HostStep \/ HostReturns \/ RunLoopIdle \/ TimerDue \/ FireTimer
  \/ Audio \/ AudioReturns \/ Helper \/ (\E r \in Requests : RequestCallback(r))

\* A mutex is fair: who waits for one gets it.  There is one who does, by OneMainThread.
GetsItsLock == \E t \in {"host", "helper"} : RequestedFlush(t) \/ LockProcessing(t)

\* Threads get time and the run loop turns.
ThreadsFairness ==
  /\ WF_threadVars(HostReturns) /\ WF_threadVars(AudioReturns) /\ SF_threadVars(RunLoopIdle)
  /\ WF_threadVars(Helper) /\ SF_threadVars(FireTimer)
  /\ SF_threadVars(GetsItsLock)

ThreadsSpec == ThreadsInit /\ [][ThreadsNext]_threadVars /\ ThreadsFairness
----------------------------------------------------------------------------
ThreadsTypeOK ==
  /\ {active, processing, processEverCalled, attached, runLoop, parked} \subseteq BOOLEAN
  /\ \A l \in {mainThreadLock, processOrFlushLock, processingLock, standInLock} : l \in Threads \cup {free}
  /\ requested \subseteq Requests

InMain(t) == at[t] \in {"activating", "deactivating", "entry", "idle", "lock", "flush", "callback", "timers"}

(* The helper stands in for the main thread, it never joins it: the host    *)
(* and the helper are not both inside the plug-in, neither in a locked      *)
(* entry point, nor while the component is attached and detached, nor when  *)
(* a run loop takes the idle over.                                          *)
OneMainThread == ~ (InMain("host") /\ InMain("helper"))

(* A flush of the parameters never meets process(), start_processing() or   *)
(* stop_processing(), and is only made while no block has been processed.   *)
FlushAlone ==
  \A t \in {"host", "helper"} : at[t] = "flush" => at["audio"] = "out" /\ ~ (processing /\ processEverCalled)

(* What the plug-in asks its host for is answered, whichever thread idles   *)
(* it and however often the run loop comes and goes, unless the component   *)
(* is deactivated or the host keeps coming in whenever the helper looks.    *)
CallbackServed ==
  ("callback" \in requested /\ active) ~> ("callback" \notin requested \/ ~ active \/ at["host"] = "entry")

(* A timer of the plug-in fires with and without an editor.                 *)
TimerFires == (timer.due /\ active) ~> (~ timer.due \/ ~ active \/ at["host"] = "entry")
=============================================================================
