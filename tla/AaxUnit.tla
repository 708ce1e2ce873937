------------------------------ MODULE AaxUnit ------------------------------
(***************************************************************************)
(* One algorithm instance of a ClapAsAAX and the three threads that meet   *)
(* in it: the host's, which adds and removes the instance and destroys the *)
(* wrapper; the background thread, which idles every registered wrapper and*)
(* restarts a plug-in that asked for it; and the render thread, which never*)
(* waits and plays silence instead.  The plug-in has one parameter and a   *)
(* bypass parameter.                                                       *)
(***************************************************************************)
EXTENDS Integers, Sequences
CONSTANTS
  AaxWishes,              \* the requests the plug-in makes
  QueueCapacity,          \* of _paramsToProcess: a power of two
  MaxAaxEdits, MaxToggles,    \* bounds: edits of the parameter, and of the bypass
  FlushMeetsHost,         \* the host adds and removes the instance while it is being flushed
  RecallMeetsEvents       \* a chunk is loaded while the events of a block are still to be handed over
VARIABLES
  registered, instanceAdded,      \* in ClapAsAAXRegistry; _instanceAdded
  clapState,        \* _activated and _processing: "inactive", "active", "processing"
  aaxAdapter,          \* _processAdapter and its _lastBypassState
  lifecycle,        \* owner of _lifecycleMutex
  processLock, restarting,        \* _processLock is held; _restarting
  doing,            \* thread -> its step
  wants,            \* the requests of the plug-in that are pending
  queue,            \* _paramsToProcess
  events,           \* _events of the adapter
  value, plugBypass,    \* the plug-in's two parameters
  edits, toggles, taken,   \* edits of the host; the last one the queue took, or the last load
  port,             \* the host's bypass: the control, and what the render context shows
  fresh,            \* `events' is younger than the last load
  upset,            \* a load or a full queue kept the plug-in's bypass from what the host shows
  lastBlock         \* what the last render left in the output
plugVars == <<registered, instanceAdded, clapState, aaxAdapter, lifecycle>>
hostData == <<edits, toggles, taken, port>>
dataVars == <<queue, events, value, plugBypass, hostData, fresh, upset>>
aaxVars == <<plugVars, processLock, restarting, doing, wants, dataVars, lastBlock>>

nobody == "nobody"
noAdapter == [there |-> FALSE, lastBypass |-> -1]

AaxInit ==
  /\ registered = TRUE /\ instanceAdded = FALSE /\ clapState = "inactive" /\ aaxAdapter = noAdapter
  /\ lifecycle = nobody /\ processLock = FALSE /\ restarting = FALSE
  /\ doing = [t \in {"host", "idle", "render"} |-> "out"] /\ wants = {}
  /\ queue = <<>> /\ events = <<>> /\ value = 0 /\ plugBypass = 0
  /\ edits = 0 /\ toggles = 0 /\ taken = 0 /\ port = [control |-> 0, context |-> 0]
  /\ fresh = TRUE /\ upset = FALSE /\ lastBlock = "none"

Steps(t, from, to) == doing[t] = from /\ doing' = [doing EXCEPT ![t] = to]
----------------------------------------------------------------------------
(* activatePlugin(), startProcessing(), stopProcessing() and               *)
(* deactivatePlugin(), by the owner of _lifecycleMutex.  A plug-in may     *)
(* refuse to activate and to start; the adapter of a refused activation    *)
(* stays, for its channel layout.                                          *)
NoneIfRefused == IF clapState' = "active" THEN [there |-> TRUE, lastBypass |-> -1] ELSE noAdapter
AdapterMade == [there |-> TRUE, lastBypass |-> -1]

ActivatePlugin(t) ==
  /\ Steps(t, "activate", "start") /\ lifecycle = t
  /\ FlushMeetsHost \/ doing["idle"] # "flush"
  /\ clapState' \in {"inactive", "active"} /\ aaxAdapter' = AdapterMade /\ events' = <<>>
  /\ UNCHANGED <<registered, instanceAdded, lifecycle, processLock, restarting, wants, queue, value,
                 plugBypass, hostData, fresh, upset, lastBlock>>

StartProcessing == clapState' \in IF clapState = "active" THEN {"active", "processing"} ELSE {clapState}

DeactivatePlugin ==
  /\ clapState' = "inactive"
  /\ aaxAdapter' = IF clapState = "inactive" THEN aaxAdapter ELSE noAdapter

----------------------------------------------------------------------------
(* The host's thread: AAXWrapper_inInstanceInitProc and the destructor.    *)
AddInstance ==
  /\ registered /\ ~ instanceAdded /\ lifecycle = nobody
  /\ Steps("host", "out", "activate") /\ lifecycle' = "host" /\ instanceAdded' = TRUE
  /\ UNCHANGED <<registered, clapState, aaxAdapter, processLock, restarting, wants, dataVars, lastBlock>>

InstanceAdded ==
  /\ Steps("host", "start", "out") /\ StartProcessing /\ lifecycle' = nobody
  /\ UNCHANGED <<registered, instanceAdded, aaxAdapter, processLock, restarting, wants, dataVars, lastBlock>>

\* The host renders no instance it is removing.
RemoveInstance(destroys) ==
  /\ registered /\ (destroys \/ instanceAdded) /\ lifecycle = nobody /\ doing["render"] = "out"
  /\ Steps("host", "out", IF destroys THEN "destroy" ELSE "remove")
  /\ lifecycle' = "host" /\ instanceAdded' = FALSE
  /\ UNCHANGED <<registered, clapState, aaxAdapter, processLock, restarting, wants, dataVars, lastBlock>>

InstanceRemoved ==
  /\ doing["host"] \in {"remove", "destroy"}
  /\ FlushMeetsHost \/ doing["idle"] # "flush"
  /\ DeactivatePlugin /\ lifecycle' = nobody
  /\ Steps("host", doing["host"], IF doing["host"] = "remove" THEN "out" ELSE "unregister")
  /\ UNCHANGED <<registered, instanceAdded, processLock, restarting, wants, dataVars, lastBlock>>

\* ForEach() holds the registry's mutex while it idles the wrappers.
UnregisterWaits == doing["idle"] = "out"

UnregisterWrapper ==
  /\ Steps("host", "unregister", "out") /\ UnregisterWaits
  /\ registered' = FALSE
  /\ UNCHANGED <<instanceAdded, clapState, aaxAdapter, lifecycle, processLock, restarting, wants, dataVars, lastBlock>>

----------------------------------------------------------------------------
(* The background thread: AAXWrapper_BackgroundProc and onIdle().          *)
Background ==
  /\ registered /\ Steps("idle", "out", "idle")
  /\ UNCHANGED <<plugVars, processLock, restarting, wants, dataVars, lastBlock>>

IdleFlush ==
  /\ Steps("idle", "idle", IF "flush" \in wants /\ aaxAdapter.there THEN "flush" ELSE "restart")
  /\ wants' = wants \ {"flush"}
  /\ UNCHANGED <<plugVars, processLock, restarting, dataVars, lastBlock>>

\* The parameter values a list of events leaves behind.
LastValue(list, param, old) ==
  LET its == SelectSeq(list, LAMBDA e : e.param = param)
  IN IF its = <<>> THEN old ELSE its[Len(its)].to

\* AAXProcessAdapter::flush() passes on the input list as the last block left it.
FlushReturns ==
  /\ Steps("idle", "flush", "restart")
  /\ value' = LastValue(events, "gain", value) /\ plugBypass' = LastValue(events, "bypass", plugBypass)
  /\ UNCHANGED <<plugVars, processLock, restarting, wants, queue, events, hostData, fresh, upset, lastBlock>>

IdleRestart ==
  /\ Steps("idle", "restart", IF "restart" \in wants THEN "lock" ELSE "callback")
  /\ wants' = wants \ {"restart"}
  /\ UNCHANGED <<plugVars, processLock, restarting, dataVars, lastBlock>>

RestartAnyway == TRUE
MayRestart == instanceAdded

LockLifecycle ==
  /\ doing["idle"] = "lock" /\ lifecycle = nobody
  /\ IF MayRestart THEN Steps("idle", "lock", "close") /\ lifecycle' = "idle"
     ELSE Steps("idle", "lock", "callback") /\ UNCHANGED lifecycle
  /\ UNCHANGED <<registered, instanceAdded, clapState, aaxAdapter, processLock, restarting, wants, dataVars, lastBlock>>

NoNeedToWait == TRUE
NobodyRenders == ~ processLock

\* A render that meets the lock is silent like one that meets _restarting.
CloseDoor ==
  /\ Steps("idle", "close", "tear down") /\ NobodyRenders
  /\ restarting' = TRUE
  /\ UNCHANGED <<plugVars, processLock, wants, dataVars, lastBlock>>

TearDown ==
  /\ Steps("idle", "tear down", "activate") /\ DeactivatePlugin
  /\ UNCHANGED <<registered, instanceAdded, lifecycle, processLock, restarting, wants, dataVars, lastBlock>>

RestartsProcessing ==
  /\ Steps("idle", "start", "open") /\ StartProcessing
  /\ UNCHANGED <<registered, instanceAdded, aaxAdapter, lifecycle, processLock, restarting, wants, dataVars, lastBlock>>

OpenDoor ==
  /\ Steps("idle", "open", "callback") /\ ~ processLock
  /\ restarting' = FALSE /\ lifecycle' = nobody
  /\ UNCHANGED <<registered, instanceAdded, clapState, aaxAdapter, processLock, wants, dataVars, lastBlock>>

IdleCallback ==
  /\ Steps("idle", "callback", "out") /\ wants' = wants \ {"callback"}
  /\ UNCHANGED <<plugVars, processLock, restarting, dataVars, lastBlock>>

----------------------------------------------------------------------------
(* The render thread: ClapAsAAX::process().                                *)
MayRender == instanceAdded /\ doing["host"] = "out"

DoorIsIgnored == FALSE
DoorIsClosed == restarting

Silence ==
  /\ doing["render"] = "out" /\ MayRender
  /\ DoorIsClosed \/ clapState # "processing"
  /\ lastBlock' = IF DoorIsClosed \/ aaxAdapter.there THEN "silence" ELSE "untouched"
  /\ UNCHANGED <<plugVars, processLock, restarting, doing, wants, dataVars>>

BypassOnChange == port.context # aaxAdapter.lastBypass
BypassAtStart == aaxAdapter.lastBypass = -1
ForwardsBypass == BypassOnChange

\* The events are collected before the plug-in sees them.
BeginAaxBlock ==
  /\ MayRender /\ ~ DoorIsClosed /\ clapState = "processing"
  /\ Steps("render", "out", "block") /\ processLock' = TRUE
  /\ wants' = wants \ {"flush"}
  /\ events' = queue \o IF ForwardsBypass THEN <<[param |-> "bypass", to |-> port.context]>> ELSE <<>>
  /\ queue' = <<>> /\ aaxAdapter' = [aaxAdapter EXCEPT !.lastBypass = port.context]
  /\ fresh' = TRUE /\ upset' = (upset /\ ~ ForwardsBypass)
  /\ UNCHANGED <<registered, instanceAdded, clapState, lifecycle, restarting, value, plugBypass, hostData, lastBlock>>

EndAaxBlock ==
  /\ Steps("render", "block", "out") /\ processLock' = FALSE
  /\ value' = LastValue(events, "gain", value) /\ plugBypass' = LastValue(events, "bypass", plugBypass)
  /\ lastBlock' = "played"
  /\ UNCHANGED <<plugVars, restarting, wants, queue, events, hostData, fresh, upset>>

----------------------------------------------------------------------------
(* The host's edits: UpdateParameterNormalizedValue() queues them, and     *)
(* drops what does not fit.  An edit of the bypass also reaches the render *)
(* context, in a packet.                                                   *)
Push(param, to) ==
  queue' = IF Len(queue) < QueueCapacity THEN Append(queue, [param |-> param, to |-> to]) ELSE queue

EditGain ==
  /\ edits < MaxAaxEdits /\ edits' = edits + 1 /\ Push("gain", edits')
  /\ taken' = IF queue' # queue THEN edits' ELSE taken
  /\ UNCHANGED <<plugVars, processLock, restarting, doing, wants, events, value, plugBypass, toggles, port,
                 fresh, upset, lastBlock>>

EditBypass ==
  /\ toggles < MaxToggles /\ toggles' = toggles + 1
  /\ port' = [port EXCEPT !.control = 1 - port.control] /\ Push("bypass", port'.control)
  /\ upset' = (upset \/ queue' = queue)
  /\ UNCHANGED <<plugVars, processLock, restarting, doing, wants, events, value, plugBypass, edits, taken,
                 fresh, lastBlock>>

PacketArrives ==
  /\ port.context # port.control /\ port' = [port EXCEPT !.context = port.control]
  /\ UNCHANGED <<plugVars, processLock, restarting, doing, wants, queue, events, value, plugBypass, edits,
                 toggles, taken, fresh, upset, lastBlock>>

\* SetChunk(): what is still queued is older than the state that comes.
QueueKept == queue
QueueCleared == <<>>

SetChunk(v, b) ==
  /\ registered
  /\ RecallMeetsEvents \/ (doing["render"] = "out" /\ doing["idle"] # "flush" /\ "flush" \notin wants)
  /\ queue' = QueueCleared /\ value' = v /\ plugBypass' = b /\ taken' = v
  /\ upset' = TRUE /\ fresh' = FALSE
  /\ UNCHANGED <<plugVars, processLock, restarting, doing, wants, events, edits, toggles, port, lastBlock>>

\* param_request_flush(), restartPlugin(), request_callback(), from any thread.
AaxRequest(w) ==
  /\ registered /\ w \notin wants /\ wants' = wants \cup {w}
  /\ w = "flush" => RecallMeetsEvents \/ fresh
  /\ UNCHANGED <<plugVars, processLock, restarting, doing, dataVars, lastBlock>>

HostFinishes == ActivatePlugin("host") \/ InstanceAdded \/ InstanceRemoved \/ UnregisterWrapper
Host == AddInstance \/ (\E destroys \in BOOLEAN : RemoveInstance(destroys)) \/ HostFinishes
IdleReturns ==
  \/ IdleFlush \/ FlushReturns \/ IdleRestart \/ LockLifecycle \/ TearDown
  \/ ActivatePlugin("idle") \/ RestartsProcessing \/ IdleCallback
Doors == CloseDoor \/ OpenDoor
Render == Silence \/ BeginAaxBlock \/ EndAaxBlock
Control == EditGain \/ EditBypass \/ PacketArrives \/ (\E b \in {0, 1} : SetChunk(0, b))
AaxRequests == \E w \in AaxWishes : AaxRequest(w)

AaxThreads == Host \/ Background \/ IdleReturns \/ Doors \/ Render \/ AaxRequests
AaxNext == AaxThreads \/ Control
----------------------------------------------------------------------------
AaxTypeOK ==
  /\ clapState \in {"inactive", "active", "processing"} /\ wants \subseteq AaxWishes
  /\ {registered, instanceAdded, processLock, restarting, fresh, upset} \subseteq BOOLEAN
  /\ lifecycle \in {nobody, "host", "idle"} /\ Len(queue) <= QueueCapacity

(* A block is in the plug-in only while the plug-in processes and its      *)
(* adapter is there, whatever restart runs underneath it; and a restart    *)
(* does not bring back a plug-in whose instance the host has removed.      *)
RendersAPlugin == doing["render"] = "block" => clapState = "processing" /\ aaxAdapter.there
StaysRemoved == ~ instanceAdded /\ lifecycle = nobody => clapState = "inactive"

(* Every render of an instance leaves audio or silence in the output, also *)
(* while the plug-in is down: Pro Tools does not clear the buffers.        *)
NeverStaleOutput == lastBlock # "untouched"

(* The background thread idles no wrapper that has been destroyed.         *)
IdlesTheLiving == doing["idle"] # "out" => registered

(* The edits that the queue took reach the plug-in, those queued during a  *)
(* restart with the first block after it, and none from before a load comes*)
(* after it.                                                               *)
EditsReachAax ==
  SelectSeq(queue, LAMBDA e : e.param = "gain") = <<>> /\ doing["render"] = "out" => value = taken

(* Once the host's bypass has reached the render context and a block has   *)
(* been played with it, the plug-in's bypass parameter has its value.      *)
BypassFollows ==
  /\ doing["render"] = "out" /\ clapState = "processing" /\ ~ upset /\ queue = <<>>
  /\ port.context = port.control /\ aaxAdapter.lastBypass = port.context
  => plugBypass = port.control
=============================================================================
