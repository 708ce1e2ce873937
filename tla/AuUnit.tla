------------------------------- MODULE AuUnit -------------------------------
(***************************************************************************)
(* An Audio Unit around a CLAP (wrapasauv2.cpp, detail/auv2/process.cpp):  *)
(* the host's Initialize, Cleanup and state recall and the idle tick, all  *)
(* under the SDK's lock, against Render() and ScheduleParameter() of the   *)
(* render thread; and the two adapters a parameter edit may wait on.       *)
(*                                                                         *)
(* A step of the main thread ends where plugin code runs outside the       *)
(* process lock, or where the lock is given up.  One parameter.            *)
(***************************************************************************)
EXTENDS Integers, Sequences, FiniteSets

CONSTANTS
  AuValues,     \* the values the host writes
  AuOffsets,    \* the sample offsets it schedules them at
  MaxWrites,    \* bound: host writes
  MaxHeld,      \* the idle ticks a dirty notice is held back
  MaxOpen,      \* bound: gestures the host sees open at once
  RecallWhileDown   \* whether the host restores a state after a restart that failed

ASSUME AuAssumption == MaxHeld \in Nat /\ RecallWhileDown \in BOOLEAN

VARIABLES
  au,           \* the unit: see AuUnitInit
  pending,      \* the adapters: "process" and "flush", each with what is queued on it
  asked,        \* what is left for the idle tick
  clap,         \* the plugin: its value and what it last was told of gestures
  writes, inForce   \* history: the host's writes, and the value that is to win

auVars == <<au, pending, asked, clap, writes, inForce>>

SavedValue == 0
NoAdapter == [there |-> FALSE, events |-> <<>>, gestures |-> 0, recall |-> FALSE, before |-> 0]
NewAdapter == [NoAdapter EXCEPT !.there = TRUE]

AuUnitInit ==
  \* up: AUBase::IsInitialized(); open: _initialized; state: _clapActive, _clapProcessing;
  \* main: where the main thread is; after: what it does once the plugin is down or up
  /\ au = [up |-> FALSE, open |-> FALSE, state |-> "off", main |-> "idle", after |-> "none",
           rendering |-> FALSE]
  /\ pending = [process |-> NoAdapter, flush |-> NoAdapter]
  \* held: the ticks the dirty notice was held back
  /\ asked = [flush |-> FALSE, restart |-> FALSE, process |-> FALSE, dirty |-> FALSE, held |-> 0]
  /\ clap = [value |-> SavedValue, gesture |-> FALSE, open |-> 0]
  /\ writes = 0 /\ inForce = SavedValue

LockFree == ~au.rendering
MainIs(place) == au.main = place
-----------------------------------------------------------------------------
(* The adapters. *)

\* The event sorted last: by offset, then by place in the queue.
LastOf(events) ==
  LET last == CHOOSE i \in DOMAIN events : \A j \in DOMAIN events :
                \/ events[j].time < events[i].time
                \/ events[j].time = events[i].time /\ j <= i
  IN  events[last]

\* selectDeliverableEvents(): edits wait for a recall that is under way.
Reaches(adapter, value) ==
  IF adapter.recall \/ adapter.events = <<>> THEN value ELSE LastOf(adapter.events).value

AfterDelivery(adapter) ==
  IF adapter.recall THEN adapter ELSE [adapter EXCEPT !.events = <<>>]

\* What the plugin pushes while it is in process() or flush(): the begin or the end of a
\* gesture, which the adapter pairs.
Says(adapter) ==
  {[adapter |-> adapter, gesture |-> clap.gesture, open |-> clap.open]} \cup
  (IF clap.gesture
   THEN {[adapter |-> [adapter EXCEPT !.gestures = 0], gesture |-> FALSE,
          open |-> IF adapter.gestures > 0 THEN clap.open - 1 ELSE clap.open]}
   ELSE IF clap.open < MaxOpen
   THEN {[adapter |-> [adapter EXCEPT !.gestures = @ + 1], gesture |-> TRUE,
          open |-> clap.open + 1]}
   ELSE {})

\* One round trip on an adapter: its edits to the plugin, the plugin's gestures back.
Exchange(which, ensured) ==
  \E said \in Says(AfterDelivery(ensured)) :
    /\ pending' = [pending EXCEPT ![which] = said.adapter]
    /\ clap' = [value |-> Reaches(ensured, clap.value), gesture |-> said.gesture,
                open |-> said.open]

EnsuredFlush == IF pending.flush.there THEN pending.flush ELSE NewAdapter

\* Mutant: the edits keep the offsets of the block they were made for.
OffsetsKept(from, to) == [to EXCEPT !.events = @ \o from.events]

\* Mutant: what the process adapter had queued goes down with it.
NotTransferred(from, to) == to

\* transferPendingParametersTo(): with their order, and without their offsets.
Transferred(from, to) ==
  [to EXCEPT !.events = @ \o [i \in DOMAIN from.events |-> [from.events[i] EXCEPT !.time = 0]]]
-----------------------------------------------------------------------------
(* The host. *)

\* SetParameter(), from any of its threads.
SetParameter ==
  /\ LockFree /\ writes < MaxWrites
  /\ \E v \in AuValues, t \in AuOffsets :
       LET event == [value |-> v, time |-> t, stale |-> FALSE] IN
       /\ pending' = IF pending.process.there
                     THEN [pending EXCEPT !.process.events = Append(@, event)]
                     ELSE [pending EXCEPT !.flush = [EnsuredFlush EXCEPT
                                                       !.events = Append(@, event)]]
       /\ inForce' = v
  /\ writes' = writes + 1
  /\ asked' = [asked EXCEPT !.flush = TRUE]
  /\ UNCHANGED <<au, clap>>

\* Base::Initialize(), and activateCLAP().
Initialize ==
  /\ MainIs("idle") /\ ~au.up
  /\ au' = [au EXCEPT !.main = "activating", !.after = "initialized"]
  /\ UNCHANGED <<pending, asked, clap, writes, inForce>>

Cleanup ==
  /\ MainIs("idle") /\ au.up
  /\ au' = [au EXCEPT !.main = "closing", !.after = "cleanedUp"]
  /\ UNCHANGED <<pending, asked, clap, writes, inForce>>

\* Mutant: a render that has passed the door is not waited for.
AtOnce == TRUE

\* Render() holds the process lock for its whole body.
DoorClosed == LockFree

\* deactivateCLAP(): the door is closed, and what was queued moves to the other adapter.
DeactivateBegins ==
  /\ MainIs("closing") /\ DoorClosed
  /\ pending' = [process |-> NoAdapter,
                 flush |-> IF pending.process.there
                           THEN Transferred(pending.process, EnsuredFlush) ELSE EnsuredFlush]
  /\ asked' = [asked EXCEPT !.flush = @ \/ pending.process.events # <<>>]
  /\ au' = [au EXCEPT !.open = FALSE, !.main = "stopping"]
  /\ UNCHANGED <<clap, writes, inForce>>

\* stop_processing() and deactivate(), outside the lock.
DeactivateEnds ==
  /\ MainIs("stopping")
  /\ au' = CASE au.after = "cleanedUp" ->
                  [au EXCEPT !.state = "off", !.main = "idle", !.after = "none", !.up = FALSE]
             [] au.after = "reactivate" ->
                  [au EXCEPT !.state = "off", !.main = "activating", !.after = "serve"]
             [] au.after = "initialized" ->   \* a failed Initialize
                  [au EXCEPT !.state = "off", !.main = "idle", !.after = "none"]
             [] OTHER -> [au EXCEPT !.state = "off", !.main = au.after, !.after = "none"]
  /\ UNCHANGED <<pending, asked, clap, writes, inForce>>

\* activateCLAP() up to activate(): what was set meanwhile is delivered first.  A configuration
\* the plugin refuses ends it.
ActivateBegins ==
  /\ MainIs("activating") /\ LockFree
  /\ \/ /\ au' = [au EXCEPT !.main = "starting"]
        /\ IF pending.flush.there
           THEN \E said \in Says(AfterDelivery(pending.flush)) :
                  /\ pending' = [process |-> NewAdapter, flush |-> NoAdapter]
                  /\ clap' = [value |-> Reaches(pending.flush, clap.value),
                              gesture |-> said.gesture, open |-> said.open]
           ELSE pending' = [process |-> NewAdapter, flush |-> NoAdapter] /\ UNCHANGED clap
     \/ /\ au' = [au EXCEPT !.main = IF au.after = "initialized" THEN "idle" ELSE au.after,
                            !.after = "none"]
        /\ UNCHANGED <<pending, clap>>
  /\ UNCHANGED <<asked, writes, inForce>>

\* activate() and start_processing(); a failure of either takes it all down again.
ActivateEnds ==
  /\ MainIs("starting")
  /\ \/ au' = [au EXCEPT !.state = "processing", !.open = TRUE,
                         !.up = @ \/ au.after = "initialized",
                         !.main = IF au.after = "initialized" THEN "idle" ELSE au.after,
                         !.after = "none"]
     \/ \E reached \in {"off", "active"} :
          au' = [au EXCEPT !.state = reached, !.main = "closing"]
  /\ UNCHANGED <<pending, asked, clap, writes, inForce>>
-----------------------------------------------------------------------------
(* State recall. *)

\* RestoreState() up to load(), which runs outside the lock.
RestoreBegins ==
  /\ MainIs("idle") /\ au.up /\ LockFree
  /\ pending.process.there \/ RecallWhileDown
  /\ pending' = IF pending.process.there
                THEN [pending EXCEPT !.process.recall = TRUE,
                                     !.process.before = Len(pending.process.events)]
                ELSE pending
  /\ au' = [au EXCEPT !.main = "loading"]
  /\ UNCHANGED <<asked, clap, writes, inForce>>

\* Mutant: a successful recall empties the queue.
NothingLeft(adapter) == <<>>

\* Mutant: what was queued before the recall stays.
AllLeft(adapter) == adapter.events

\* Only what was queued before the recall is replaced by it.
LeftByRecall(adapter) == SubSeq(adapter.events, adapter.before + 1, Len(adapter.events))

\* Edits that a recall is to replace, for RecallWins.
Marked(events, upTo) ==
  [i \in DOMAIN events |-> IF i <= upTo THEN [events[i] EXCEPT !.stale = TRUE] ELSE events[i]]

RestoreEnds ==
  /\ MainIs("loading") /\ LockFree
  /\ \E loaded \in BOOLEAN :
     LET process == [pending.process EXCEPT !.recall = FALSE, !.before = 0] IN
       IF loaded
       THEN /\ clap' = [clap EXCEPT !.value = SavedValue]
            /\ IF pending.process.there
               THEN /\ pending' = [pending EXCEPT !.process =
                           [process EXCEPT !.events = LeftByRecall(
                              [pending.process EXCEPT
                                 !.events = Marked(@, pending.process.before)])]]
                    /\ inForce' = IF pending.process.before < Len(pending.process.events)
                                  THEN inForce ELSE SavedValue
               ELSE /\ pending' = [pending EXCEPT !.flush.events =
                                     Marked(@, Len(pending.flush.events))]
                    /\ inForce' = SavedValue
       ELSE /\ pending' = IF pending.process.there THEN [pending EXCEPT !.process = process]
                          ELSE pending
            /\ UNCHANGED <<clap, inForce>>
  /\ asked' = [asked EXCEPT !.flush = TRUE]
  /\ au' = [au EXCEPT !.main = "idle"]
  /\ UNCHANGED writes
-----------------------------------------------------------------------------
(* The render thread. *)

\* Render(): the lock is only tried; a block that does not get it, or finds the door closed,
\* is silent.
RenderBegins ==
  /\ au.up /\ LockFree /\ au.open
  /\ au' = [au EXCEPT !.rendering = TRUE]
  /\ UNCHANGED <<pending, asked, clap, writes, inForce>>

RenderEnds ==
  /\ au.rendering
  /\ Exchange("process", pending.process)
  /\ au' = [au EXCEPT !.rendering = FALSE]
  /\ UNCHANGED <<asked, writes, inForce>>
-----------------------------------------------------------------------------
(* The plugin's requests, at any time, and the idle tick. *)

Request ==
  /\ \E what \in {"restart", "process", "flush", "dirty"} : asked' = [asked EXCEPT ![what] = TRUE]
  /\ UNCHANGED <<au, pending, clap, writes, inForce>>

\* Mutant: no bound to how long an open gesture holds the notice back.
HeldWithoutEnd == clap.open > 0

\* The notice that the state is dirty waits for the open gestures, for a while.
DirtyHeld == clap.open > 0 /\ asked.held < MaxHeld

\* onIdle() up to the restart.
Idle ==
  /\ MainIs("idle")
  /\ asked.restart => LockFree
  /\ LET noticed == IF ~asked.dirty THEN [asked EXCEPT !.held = 0]
                    ELSE IF DirtyHeld
                         THEN [asked EXCEPT !.held = IF @ < MaxHeld THEN @ + 1 ELSE @]
                         ELSE [asked EXCEPT !.dirty = FALSE, !.held = 0]
     IN  asked' = [noticed EXCEPT !.restart = FALSE]
  /\ au' = IF asked.restart
           THEN [au EXCEPT !.open = FALSE, !.main = IF au.open THEN "closing" ELSE "serve",
                           !.after = IF au.open THEN "reactivate" ELSE "none"]
           ELSE [au EXCEPT !.main = "serve"]
  /\ UNCHANGED <<pending, clap, writes, inForce>>

\* The rest of onIdle(): a plugin that asked to process is stood up, and where no render
\* carries what is queued, a flush does.
ServeProcess ==
  /\ MainIs("serve")
  /\ asked' = IF asked.process THEN [asked EXCEPT !.process = FALSE, !.flush = TRUE] ELSE asked
  /\ au' = IF asked.process /\ au.up /\ ~au.open
           THEN [au EXCEPT !.main = "activating", !.after = "flush"]
           ELSE [au EXCEPT !.main = "flush"]
  /\ UNCHANGED <<pending, clap, writes, inForce>>

FlushEnds ==
  /\ MainIs("flush")
  /\ au' = [au EXCEPT !.main = "idle"]
  /\ UNCHANGED <<writes, inForce>>
  /\ \/ /\ asked.flush /\ LockFree
        /\ asked' = [asked EXCEPT !.flush = FALSE]
        /\ IF au.open /\ pending.process.there THEN Exchange("process", pending.process)
           ELSE Exchange("flush", EnsuredFlush)
     \* a render came by not long ago: it will carry them
     \/ asked.flush /\ au.open /\ UNCHANGED <<asked, pending, clap>>
     \/ ~asked.flush /\ UNCHANGED <<asked, pending, clap>>

AuUnitNext ==
  \/ SetParameter \/ Initialize \/ Cleanup
  \/ DeactivateBegins \/ DeactivateEnds \/ ActivateBegins \/ ActivateEnds
  \/ RestoreBegins \/ RestoreEnds \/ RenderBegins \/ RenderEnds
  \/ Request \/ Idle \/ ServeProcess \/ FlushEnds

\* What the wrapper's main thread has begun it ends, though it has to find the process lock
\* free; the idle timer ticks, and a render returns.
AuMainThread ==
  \/ DeactivateBegins \/ DeactivateEnds \/ ActivateBegins \/ ActivateEnds \/ RestoreEnds
  \/ ServeProcess \/ FlushEnds
AuFairness == SF_auVars(AuMainThread) /\ SF_auVars(Idle) /\ WF_auVars(RenderEnds)

AuUnitSpec == AuUnitInit /\ [][AuUnitNext]_auVars /\ AuFairness
-----------------------------------------------------------------------------
AuUnitTypeOK ==
  /\ au.state \in {"off", "active", "processing"}
  /\ au.main \in {"idle", "closing", "stopping", "activating", "starting", "loading", "serve", "flush"}
  /\ au.open => pending.process.there
  /\ clap.open \in Nat /\ asked.held \in 0..MaxHeld

(***************************************************************************)
(* process() runs only in a plugin that is active and processing: Render() *)
(* is on a thread the host's lifecycle lock does not hold.                 *)
(***************************************************************************)
RenderOnlyWhileProcessing == au.rendering => au.state = "processing"

(***************************************************************************)
(* Whatever adapter an edit was queued on and whatever happened meanwhile, *)
(* the plugin ends at the value that was written last, or recalled since.  *)
(***************************************************************************)
Queued == pending.process.events \o pending.flush.events
EditsReachThePlugin == Queued = <<>> => clap.value = inForce

(***************************************************************************)
(* An edit a successful recall was to replace is not delivered after it    *)
(* (tests/au_state_recall.cpp: "Pending pre-recall parameter overwrote     *)
(* restored state").                                                       *)
(***************************************************************************)
RecallWins == \A i \in DOMAIN Queued : ~Queued[i].stale

(***************************************************************************)
(* The host is told that the state is dirty, though a plugin may leave a   *)
(* gesture open for ever.                                                  *)
(***************************************************************************)
DirtyIsTold == asked.dirty ~> ~asked.dirty

(***************************************************************************)
(* When the plugin has ended its gestures, so has the host seen them end.  *)
(***************************************************************************)
GesturesEnd == ~clap.gesture => clap.open = 0
=============================================================================
