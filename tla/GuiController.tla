--------------------------- MODULE GuiController ----------------------------
(***************************************************************************)
(* WxpGuiController of crates/wrac_wxp_gui with the registry of WebView    *)
(* runtimes, the GUI-thread lease and the run loop below it.               *)
(*                                                                         *)
(* Three actors: the host's GUI callbacks, which the CLAP adapter admits   *)
(* one at a time and within a session on one thread (PluginInstance,       *)
(* GuiOnOneThread); the posted creation of a runtime, which runs on the    *)
(* run-loop thread and pumps messages, so that the host may call back into *)
(* the controller, while the product's factory runs; and the posted        *)
(* removals and releases.  A callback that reaches a runtime or a parent   *)
(* runs on the run-loop thread itself and is therefore one step; create    *)
(* and destroy may come from another thread and are split at their locks.  *)
(***************************************************************************)
EXTENDS Integers, Sequences, FiniteSets

CONSTANTS
  Threads, NoThread,
  Parents, NoParent,   \* native parent windows
  Scales,
  NoSession,
  MayFail,             \* BOOLEAN: factory, parent handle and WebView calls may fail
  DropsPosts,          \* SUBSET BOOLEAN: may RunLoop lose posts when its guard goes?
  MaxCalls             \* bound on the host's callbacks

VARIABLES
  session,            \* GuiRuntimeState.session
  generation, is_creating_runtime,
  creating_generation, pending_creation_generation,   \* 0 stands for None
  destroy_requested_while_creating,
  destroyed_before,   \* last_runtime_destroyed_at.is_some()
  scale,              \* WxpGuiController.scale
  runtimes,           \* GUI_RUNTIMES: id -> the WebView's state
  next_id,
  ref_count, owner,   \* GUI_THREAD_STATE; owner also stands for the run-loop guard
  queue,              \* callbacks posted to the run loop
  job,                \* the posted runtime creation being run
  call,               \* the create, destroy or drop of the host in progress
  gui_thread,         \* gui_lifecycle_thread of the adapter
  dropped,            \* the controller was dropped with its plugin
  calls_left

flightVars == <<is_creating_runtime, creating_generation,
                pending_creation_generation, destroy_requested_while_creating>>
leaseVars  == <<ref_count, owner, queue>>
tableVars  == <<runtimes, next_id>>
hostVars   == <<call, gui_thread, dropped, calls_left>>
vars == <<session, generation, flightVars, destroyed_before, scale, tableVars,
          leaseVars, job, hostVars>>

Ids == Nat \ {0}
Generations == Nat
Sessions == [generation : Generations, parent : Parents \cup {NoParent},
             parent_lease : Threads \cup {NoThread}, handle : Ids \cup {0},
             visible : BOOLEAN, scale : Scales]
Runtimes == [generation : Generations, parent : Parents, shown : BOOLEAN,
             scale : Scales \cup {0}]
JobSteps == {"idle", "inputs", "quiet", "inputs again", "convert", "factory",
             "finish", "latest", "install", "pending", "schedule"}
Create(g, p) == [kind |-> "create", generation |-> g, parent |-> p]
Remove(id)   == [kind |-> "remove", id |-> id]
ReleasePost  == [kind |-> "release"]
Posts == [kind : {"create"}, generation : Generations, parent : Parents]
           \cup [kind : {"remove"}, id : Ids] \cup {ReleasePost}
NoJob  == [at |-> "idle", thread |-> NoThread, generation |-> 0,
           parent |-> NoParent, id |-> 0, scale |-> 0, leased |-> FALSE]
NoCall == [op |-> "none", thread |-> NoThread, at |-> "idle"]

TypeOK ==
  /\ session \in Sessions \cup {NoSession}
  /\ {generation, creating_generation, pending_creation_generation}
       \subseteq Generations
  /\ is_creating_runtime \in BOOLEAN
  /\ destroy_requested_while_creating \in BOOLEAN
  /\ destroyed_before \in BOOLEAN
  /\ scale \in Scales
  /\ DOMAIN runtimes \subseteq Ids
  /\ \A id \in DOMAIN runtimes : runtimes[id] \in Runtimes
  /\ next_id \in Ids
  /\ ref_count \in Nat
  /\ owner \in Threads \cup {NoThread}
  /\ queue \in Seq(Posts)
  /\ job \in [at : JobSteps, thread : Threads \cup {NoThread},
              generation : Generations, parent : Parents \cup {NoParent},
              id : Ids \cup {0}, scale : Scales \cup {0}, leased : BOOLEAN]
  /\ call \in [op : {"none", "create", "destroy", "drop"},
               thread : Threads \cup {NoThread},
               at : {"idle", "check", "take", "open"}]
  /\ gui_thread \in Threads \cup {NoThread}
  /\ dropped \in BOOLEAN
  /\ calls_left \in 0..MaxCalls

Init ==
  /\ session = NoSession /\ generation = 0
  /\ is_creating_runtime = FALSE /\ creating_generation = 0
  /\ pending_creation_generation = 0 /\ destroy_requested_while_creating = FALSE
  /\ destroyed_before = FALSE /\ scale \in Scales
  /\ runtimes = <<>> /\ next_id = 1
  /\ ref_count = 0 /\ owner = NoThread /\ queue = <<>>
  /\ job = NoJob /\ call = NoCall
  /\ gui_thread = NoThread /\ dropped = FALSE /\ calls_left = MaxCalls
-----------------------------------------------------------------------------
(* GuiThreadLease and the run loop. *)

RunLoopLive == owner # NoThread

MayAcquire(t) == owner \in {NoThread, t}

AcquireUncounted(t) == ref_count' = ref_count /\ owner' = t   \* mutant

Acquire(t) == ref_count' = ref_count + 1 /\ owner' = t

\* What RunLoop keeps of its posts when the last guard is dropped.
Survivors(q) == {IF drops THEN <<>> ELSE q : drops \in DropsPosts}

ReleaseKeepsOwner(q) ==   \* mutant: the owner is never cleared
  ref_count' = ref_count - 1 /\ owner' = owner /\ queue' = q

\* release_gui_thread_lease on the owner thread, which leaves q posted.
Release(q) ==
  /\ ref_count' = ref_count - 1
  /\ IF ref_count = 1 THEN owner' = NoThread /\ queue' \in Survivors(q)
     ELSE owner' = owner /\ queue' = q

\* GuiRuntimeHandle::destroy posts the removal; it does not touch the registry.
Destroy(id) == queue' = Append(queue, Remove(id))

NoRemovals(s) == <<>>   \* mutant

Removals(s) == IF s = NoSession \/ s.handle = 0 THEN <<>> ELSE <<Remove(s.handle)>>

\* drop_session: the runtime's removal is posted before the parent lease goes.
DropSession(t) ==
  LET q     == queue \o Removals(session)
      lease == IF session = NoSession THEN NoThread ELSE session.parent_lease
  IN  /\ destroyed_before' = (destroyed_before \/ q # queue)
      /\ CASE lease = NoThread -> queue' = q /\ UNCHANGED <<ref_count, owner>>
           [] lease = t        -> Release(q)
           [] OTHER -> queue' = Append(q, ReleasePost) /\ UNCHANGED <<ref_count, owner>>
-----------------------------------------------------------------------------
(* schedule_runtime_creation: set the flags under the lock and post; a post *)
(* without a run loop clears them again.                                    *)

InFlightIgnored == FALSE   \* mutant: no single flight

InFlight == is_creating_runtime

Schedulable(s, g) ==
  s # NoSession /\ s.generation = g /\ s.handle = 0
    /\ s.parent # NoParent /\ s.parent_lease # NoThread

\* q is the queue and live whether the run loop runs when the post is made.
Schedule(s, g, q, live) ==
  IF InFlight
  THEN /\ pending_creation_generation' = g
       /\ queue' = q
       /\ UNCHANGED <<is_creating_runtime, creating_generation,
                      destroy_requested_while_creating>>
  ELSE IF Schedulable(s, g)
  THEN /\ is_creating_runtime' = live
       /\ creating_generation' = IF live THEN g ELSE 0
       /\ pending_creation_generation' = 0
       /\ destroy_requested_while_creating' = FALSE
       /\ queue' = IF live THEN Append(q, Create(g, s.parent)) ELSE q
  ELSE UNCHANGED flightVars /\ queue' = q
-----------------------------------------------------------------------------
(* The host's callbacks. *)

\* A host callback can begin on t when nothing else runs there, except from
\* inside the message loop the factory pumps.
Free(t) == job.at # "idle" /\ job.thread = t => job.at = "factory"

Admitted(t) ==
  /\ call = NoCall /\ ~ dropped /\ calls_left > 0 /\ Free(t)
  /\ gui_thread \in {NoThread, t}
  /\ calls_left' = calls_left - 1

Bind(t) == gui_thread' = t /\ UNCHANGED <<call, dropped>>

Begin(t, op) ==
  /\ call' = [op |-> op, thread |-> t, at |-> "check"]
  /\ UNCHANGED <<session, generation, flightVars, destroyed_before, scale,
                 tableVars, leaseVars, job>>

BeginCreate(t) == Admitted(t) /\ gui_thread' = t /\ UNCHANGED dropped
                    /\ Begin(t, "create")
BeginDestroy(t) == Admitted(t) /\ gui_thread' = t /\ UNCHANGED dropped
                    /\ Begin(t, "destroy")

\* The controller is dropped with its plugin instance, on any thread.
BeginDrop(t) ==
  /\ call = NoCall /\ ~ dropped /\ Free(t)
  /\ dropped' = TRUE /\ UNCHANGED <<gui_thread, calls_left>>
  /\ Begin(t, "drop")

Ended == IF call.op = "create" THEN call' = [call EXCEPT !.at = "open"]
                                    /\ UNCHANGED gui_thread
         ELSE call' = NoCall /\ gui_thread' = NoThread

RequestDestroy == destroy_requested_while_creating' = TRUE

\* destroy_gui_session, first lock: defer while a creation is in flight.
CheckCreating ==
  /\ call.at = "check"
  /\ IF is_creating_runtime
     THEN /\ generation' = generation + 1
          /\ RequestDestroy
          /\ session' = NoSession /\ DropSession(call.thread) /\ Ended
     ELSE /\ call' = [call EXCEPT !.at = "take"]
          /\ UNCHANGED <<session, generation, destroy_requested_while_creating,
                         destroyed_before, leaseVars, gui_thread>>
  /\ UNCHANGED <<is_creating_runtime, creating_generation,
                 pending_creation_generation, scale, tableVars, job, dropped,
                 calls_left>>

\* destroy_gui_session, second lock.
TakeSession ==
  /\ call.at = "take"
  /\ session' = NoSession /\ DropSession(call.thread) /\ Ended
  /\ UNCHANGED <<generation, flightVars, scale, tableVars, job, dropped, calls_left>>

\* create, after the old session is gone.
OpenSession ==
  /\ call.at = "open"
  /\ generation' = generation + 1
  /\ session' = [generation |-> generation + 1, parent |-> NoParent,
                 parent_lease |-> NoThread, handle |-> 0, visible |-> TRUE,
                 scale |-> scale]
  /\ call' = NoCall
  /\ UNCHANGED <<flightVars, destroyed_before, scale, tableVars, leaseVars, job,
                 gui_thread, dropped, calls_left>>

\* set_parent: a first parent takes a lease on the calling thread; a new parent
\* tears the runtime down and schedules another one.
NeedsLease == session.parent = NoParent

ReparentedInPlace(t, p) ==   \* mutant: the session keeps the old handle
  [session EXCEPT !.parent = p, !.parent_lease = t]

Reparented(t, p) ==
  [session EXCEPT !.parent = p, !.parent_lease = t, !.handle = 0]

SetParent(t, p) ==
  /\ Admitted(t) /\ Bind(t)
  /\ IF session # NoSession /\ (IF NeedsLease THEN MayAcquire(t) ELSE owner = t)
     THEN LET moved == Reparented(t, p)
              q     == queue \o Removals(session)
          IN  /\ session' = moved
              /\ destroyed_before' = (destroyed_before \/ q # queue)
              /\ IF NeedsLease THEN Acquire(t) ELSE UNCHANGED <<ref_count, owner>>
              /\ Schedule(moved, moved.generation, q, TRUE)
     ELSE UNCHANGED <<session, flightVars, destroyed_before, leaseVars>>
  /\ UNCHANGED <<generation, scale, tableVars, job>>

Show(t) ==
  /\ Admitted(t) /\ Bind(t)
  /\ CASE session = NoSession -> UNCHANGED <<session, flightVars, runtimes, queue>>
       [] session # NoSession /\ session.handle # 0 ->
            /\ runtimes' = [runtimes EXCEPT ![session.handle].shown = TRUE]
            /\ session' = [session EXCEPT !.visible = TRUE]
            /\ UNCHANGED <<flightVars, queue>>
       [] session # NoSession /\ session.handle = 0 /\ session.parent = NoParent ->
            UNCHANGED <<session, flightVars, runtimes, queue>>
       [] OTHER ->
            /\ Schedule(session, session.generation, queue, RunLoopLive)
            /\ session' = [session EXCEPT !.visible = TRUE]
            /\ UNCHANGED runtimes
  /\ UNCHANGED <<generation, destroyed_before, scale, next_id, ref_count, owner, job>>

Hide(t) ==
  /\ Admitted(t) /\ Bind(t)
  /\ IF session = NoSession THEN UNCHANGED <<session, runtimes>>
     ELSE /\ session' = [session EXCEPT !.visible = FALSE]
          /\ IF session.handle = 0 THEN UNCHANGED runtimes
             ELSE runtimes' = [runtimes EXCEPT ![session.handle].shown = FALSE]
  /\ UNCHANGED <<generation, flightVars, destroyed_before, scale, next_id,
                 leaseVars, job>>

SetScale(t, s) ==
  /\ Admitted(t) /\ Bind(t)
  /\ scale' = s
  /\ IF session = NoSession THEN UNCHANGED <<session, runtimes>>
     ELSE /\ session' = [session EXCEPT !.scale = s]
          /\ IF session.handle = 0 THEN UNCHANGED runtimes
             ELSE runtimes' = [runtimes EXCEPT ![session.handle].scale = s]
  /\ UNCHANGED <<generation, flightVars, destroyed_before, next_id, leaseVars, job>>
-----------------------------------------------------------------------------
(* Callbacks of the run loop: removals, releases, and the runtime creation. *)

\* The run loop takes its next post: at rest, or pumped by the factory.
RunLoopTakes(kind) ==
  /\ RunLoopLive /\ queue # <<>> /\ Head(queue).kind = kind
  /\ call.thread # owner
  /\ job.at = "idle" \/ (job.at = "factory" /\ job.thread = owner)

\* Dropping the registry entry drops the WebView and then its lease.
RunRemove ==
  /\ RunLoopTakes("remove")
  /\ LET id == Head(queue).id
     IN  IF id \in DOMAIN runtimes
         THEN /\ runtimes' = [i \in DOMAIN runtimes \ {id} |-> runtimes[i]]
              /\ Release(Tail(queue))
         ELSE queue' = Tail(queue) /\ UNCHANGED <<runtimes, ref_count, owner>>
  /\ UNCHANGED <<session, generation, flightVars, destroyed_before, scale,
                 next_id, job, hostVars>>

RunRelease ==
  /\ RunLoopTakes("release")
  /\ Release(Tail(queue))
  /\ UNCHANGED <<session, generation, flightVars, destroyed_before, scale,
                 tableVars, job, hostVars>>

RunCreate ==
  /\ RunLoopTakes("create") /\ job.at = "idle"
  /\ job' = [NoJob EXCEPT !.at = "inputs", !.thread = owner,
                          !.generation = Head(queue).generation,
                          !.parent = Head(queue).parent]
  /\ queue' = Tail(queue)
  /\ UNCHANGED <<session, generation, flightVars, destroyed_before, scale,
                 tableVars, ref_count, owner, hostVars>>

JobAt(step) == job.at = step /\ call.thread # job.thread
JobGoto(step) == job' = [job EXCEPT !.at = step]

Current == session # NoSession /\ session.generation = job.generation

\* latest_runtime_creation_inputs, before and after the quiet period.
ReadInputs ==
  /\ JobAt("inputs") \/ JobAt("inputs again")
  /\ IF Current
     THEN job' = [job EXCEPT !.scale = session.scale,
                             !.at = IF job.at = "inputs" THEN "quiet" ELSE "convert"]
     ELSE JobGoto("pending")
  /\ UNCHANGED <<session, generation, flightVars, destroyed_before, scale,
                 tableVars, leaseVars, hostVars>>

\* The quiet period after the last destroy may or may not be over.
QuietPeriod ==
  /\ JobAt("quiet")
  /\ \/ JobGoto("convert")
     \/ destroyed_before /\ JobGoto("inputs again")
  /\ UNCHANGED <<session, generation, flightVars, destroyed_before, scale,
                 tableVars, leaseVars, hostVars>>

\* to_parent_window_handle, then the lease that will live with the runtime.  The
\* session's own lease is released on this thread only, so the thread still owns
\* the GUI and the lease is never refused here.
EnterFactory ==
  /\ JobAt("convert") /\ MayAcquire(job.thread)
  /\ Acquire(job.thread)
  /\ job' = [job EXCEPT !.at = "factory", !.leased = TRUE]
  /\ UNCHANGED <<session, generation, flightVars, destroyed_before, scale,
                 tableVars, queue, hostVars>>

ConvertFails ==
  /\ JobAt("convert") /\ MayFail /\ JobGoto("pending")
  /\ UNCHANGED <<session, generation, flightVars, destroyed_before, scale,
                 tableVars, leaseVars, hostVars>>

ClearFlight ==
  IF creating_generation = job.generation
  THEN /\ is_creating_runtime' = FALSE /\ creating_generation' = 0
       /\ pending_creation_generation' = 0
       /\ destroy_requested_while_creating' = FALSE
  ELSE UNCHANGED flightVars

FactoryFails ==
  /\ JobAt("factory") /\ MayFail
  /\ ClearFlight /\ Release(queue)
  /\ job' = [job EXCEPT !.at = "pending", !.leased = FALSE]
  /\ UNCHANGED <<session, generation, destroyed_before, scale, tableVars, hostVars>>

FactoryReturns ==
  /\ JobAt("factory")
  /\ runtimes' = [i \in DOMAIN runtimes \cup {next_id} |->
                    IF i = next_id
                    THEN [generation |-> job.generation, parent |-> job.parent,
                          shown |-> TRUE, scale |-> 0]
                    ELSE runtimes[i]]
  /\ next_id' = next_id + 1
  /\ job' = [job EXCEPT !.at = "finish", !.leased = FALSE, !.id = next_id]
  /\ UNCHANGED <<session, generation, flightVars, destroyed_before, scale,
                 leaseVars, hostVars>>

\* finish_runtime_creation_requested_destroy, then the first set_scale.
MustDestroy == destroy_requested_while_creating \/ ~ Current

Finish ==
  /\ JobAt("finish")
  /\ IF creating_generation = job.generation
     THEN /\ is_creating_runtime' = FALSE /\ creating_generation' = 0
          /\ destroy_requested_while_creating' = FALSE
          /\ pending_creation_generation' =
               IF ~ MustDestroy THEN pending_creation_generation
               ELSE IF session = NoSession THEN 0 ELSE session.generation
     ELSE UNCHANGED flightVars
  /\ \/ /\ MustDestroy
        /\ Destroy(job.id) /\ destroyed_before' = TRUE /\ JobGoto("pending")
        /\ UNCHANGED runtimes
     \/ /\ ~ MustDestroy /\ JobGoto("latest")
        /\ runtimes' = [runtimes EXCEPT ![job.id].scale = job.scale]
        /\ UNCHANGED <<queue, destroyed_before>>
     \/ /\ ~ MustDestroy /\ MayFail
        /\ Destroy(job.id) /\ JobGoto("pending")
        /\ UNCHANGED <<runtimes, destroyed_before>>
  /\ UNCHANGED <<session, generation, scale, next_id, ref_count, owner, hostVars>>

DestroyNewForgets ==   \* mutant
  JobGoto("pending") /\ UNCHANGED <<queue, destroyed_before, runtimes>>

DestroyNew ==
  /\ Destroy(job.id) /\ destroyed_before' = TRUE /\ JobGoto("pending")
  /\ UNCHANGED runtimes

LatestScaleOnly(r) == [r EXCEPT !.scale = session.scale]   \* mutant: no hide

\* The latest visibility, size and scale of the session reach the new WebView.
Latest(r) == [r EXCEPT !.scale = session.scale, !.shown = session.visible]

ApplyLatest ==
  /\ JobAt("latest")
  /\ \/ /\ Current
        /\ runtimes' = [runtimes EXCEPT ![job.id] = Latest(@)]
        /\ JobGoto("install")
        /\ UNCHANGED <<queue, destroyed_before>>
     \/ (~ Current \/ MayFail) /\ DestroyNew
  /\ UNCHANGED <<session, generation, flightVars, scale, next_id, ref_count,
                 owner, hostVars>>

Install ==
  /\ JobAt("install")
  /\ IF ~ Current
     THEN DestroyNew /\ UNCHANGED <<session, pending_creation_generation>>
     ELSE /\ session' = [session EXCEPT !.handle = job.id]
          /\ JobGoto("pending") /\ UNCHANGED runtimes
          /\ IF session.handle # 0
             THEN /\ Destroy(session.handle) /\ destroyed_before' = TRUE
                  /\ UNCHANGED pending_creation_generation
             ELSE /\ UNCHANGED <<queue, destroyed_before>>
                  /\ pending_creation_generation' =
                       IF pending_creation_generation = job.generation THEN 0
                       ELSE pending_creation_generation
  /\ UNCHANGED <<generation, is_creating_runtime, creating_generation,
                 destroy_requested_while_creating, scale, next_id, ref_count,
                 owner, hostVars>>

\* schedule_pending_runtime_creation, first lock: take the pending generation.
TakePending ==
  /\ JobAt("pending")
  /\ pending_creation_generation' = 0
  /\ LET g == pending_creation_generation
         exists == session # NoSession /\ session.generation = g /\ session.handle # 0
     IN  IF g = 0 \/ exists THEN job' = NoJob
         ELSE job' = [job EXCEPT !.at = "schedule", !.generation = g]
  /\ UNCHANGED <<session, generation, is_creating_runtime, creating_generation,
                 destroy_requested_while_creating, destroyed_before, scale,
                 tableVars, leaseVars, hostVars>>

SchedulePending ==
  /\ JobAt("schedule")
  /\ Schedule(session, job.generation, queue, RunLoopLive) /\ job' = NoJob
  /\ UNCHANGED <<session, generation, destroyed_before, scale, tableVars,
                 ref_count, owner, hostVars>>
-----------------------------------------------------------------------------
HostBegins ==
  \E t \in Threads :
    \/ BeginCreate(t) \/ BeginDestroy(t) \/ BeginDrop(t)
    \/ Show(t) \/ Hide(t)
    \/ \E p \in Parents : SetParent(t, p)
    \/ \E s \in Scales : SetScale(t, s)

HostStep == CheckCreating \/ TakeSession \/ OpenSession

RunLoopStep ==
  \/ RunRemove \/ RunRelease \/ RunCreate
  \/ ReadInputs \/ QuietPeriod \/ ConvertFails \/ EnterFactory
  \/ FactoryFails \/ FactoryReturns \/ Finish \/ ApplyLatest \/ Install
  \/ TakePending \/ SchedulePending

Next == HostBegins \/ HostStep \/ RunLoopStep

\* The host turns its run loop, and a callback it began runs on.
Fairness == WF_vars(HostStep) /\ WF_vars(RunLoopStep)

Spec == Init /\ [][Next]_vars /\ Fairness
-----------------------------------------------------------------------------
(* Properties. *)

\* controller.rs: "Keep child WebView creation single-flight": no two WebViews
\* of one controller exist at a time, not even one that waits for its teardown.
OneWebView == Cardinality(DOMAIN runtimes) + (IF job.leased THEN 1 ELSE 0) <= 1

\* A WebView that no session shows is on its way out: the creation that made it
\* is still running, or its removal is posted.
NoOrphan ==
  \A id \in DOMAIN runtimes :
    \/ session # NoSession /\ session.handle = id
    \/ job.at \in {"finish", "latest", "install"} /\ job.id = id
    \/ \E i \in 1..Len(queue) : queue[i] = Remove(id)

\* A delayed creation never attaches its WebView to another editor session, and
\* a session's handle always names a live WebView on the session's GUI thread.
AttachedIsCurrent ==
  session # NoSession /\ session.handle # 0 =>
    /\ session.handle \in DOMAIN runtimes
    /\ runtimes[session.handle].generation = session.generation
    /\ owner = session.parent_lease

\* GUI_THREAD_STATE counts the leases in sessions, WebViews, creations and
\* posted releases exactly, and the run loop lives as long as one is left.
Leases ==
  (IF session # NoSession /\ session.parent_lease # NoThread THEN 1 ELSE 0)
  + (IF job.leased THEN 1 ELSE 0) + Cardinality(DOMAIN runtimes)
  + Cardinality({i \in 1..Len(queue) : queue[i] = ReleasePost})

LeasesCounted == ref_count = Leases /\ (RunLoopLive <=> ref_count > 0)

\* Whatever show, hide and set_scale came while the WebView was being created,
\* an attached WebView shows what the session asks for.
ShowsWhatIsAsked ==
  session # NoSession /\ session.handle # 0 =>
    LET r == runtimes[session.handle]
    IN  r.shown = session.visible /\ r.scale = session.scale

\* runtime.rs: once the last runtime and the parent's lease are released, the
\* next GUI session may come from another thread.
GuiThreadFreed == session = NoSession ~> session # NoSession \/ owner = NoThread

\* controller.rs, set_parent: on failure leave the session without a runtime and
\* let a subsequent show or set_parent reschedule it; a flag left up by a creation
\* that is over would refuse them for good.
CreationFlagIsHonest ==
  is_creating_runtime /\ ~ dropped =>
    \/ job.at \in JobSteps \ {"idle", "pending", "schedule"}
    \/ \E i \in 1..Len(queue) : queue[i].kind = "create"
=============================================================================
