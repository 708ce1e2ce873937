--------------------------- MODULE PluginInstance ---------------------------
(***************************************************************************)
(* One CLAP plugin instance as wrac_clap_adapter guards it                 *)
(* (crates/wrac_clap_adapter/src/abi.rs and src/abi/*.rs).  The host calls  *)
(* the instance from several threads, and may call it again from inside a  *)
(* callback the product made into the host.  Two hand-written guards, the  *)
(* lifecycle flag and the processor borrow flag, keep the product's audio  *)
(* processor in one place; a mutex guards the product core and another one *)
(* the GUI callbacks.                                                      *)
(*                                                                         *)
(* A call is a slot <<thread, level>> of a thread's stack: level 1 is a    *)
(* call the host makes, level n + 1 a call it makes while level n is       *)
(* inside a host callback.  Every action is one access to shared state.    *)
(***************************************************************************)
EXTENDS Integers, FiniteSets

CONSTANTS
  Threads,      \* host threads
  Nesting,      \* bound on calls stacked on one thread
  Callbacks,    \* the plugin callbacks this host uses
  Reentrant,    \* those it may call from inside a host callback
  MainThread,   \* the thread CLAP calls [main-thread]
  BlockSizes,   \* frame counts of process blocks and of activate's maximum
  Layouts,      \* audio port layouts
  NoThread, NoCall

AllCallbacks ==
  {"init", "activate", "deactivate", "destroy", "process", "flush", "reset",
   "start_processing", "load", "apply", "on_main_thread",
   "gui_create", "gui_destroy", "gui_show"}

ASSUME NestingAssumption    == Nesting \in Nat \ {0}
ASSUME CallbacksAssumption  == Callbacks \subseteq AllCallbacks
ASSUME ReentrantAssumption  == Reentrant \subseteq Callbacks
ASSUME ThreadsAssumption    == /\ IsFiniteSet(Threads)
                               /\ MainThread \in Threads /\ NoThread \notin Threads
ASSUME BlockSizesAssumption == BlockSizes \subseteq Nat \ {0} /\ BlockSizes # {}
ASSUME LayoutsAssumption    == Layouts # {}

Calls == Threads \X (1..Nesting)

ASSUME NoCallAssumption == NoCall \notin Calls

RealtimeCallbacks == {"process", "flush"}     \* those that hold an RtDepthGuard
AudioCallbacks    == {"process", "reset", "start_processing"}
GuiCallbacks      == {"gui_create", "gui_destroy", "gui_show"}
LifecycleCallbacks == {"init", "activate", "deactivate", "destroy"}

VARIABLES
  op, phase,                  \* per call: which callback, and where in it
  held,                       \* per call: the processor its Box local owns
  block,                      \* per call: its frame count argument
  runtime, core,              \* capabilities frozen / product instance present
  host_extensions_initialized,
  lifecycle_busy, lifecycle_thread,
  core_owner,                 \* the call that holds the core mutex
  processor_busy, processor_active,
  processor, inactive_processor,   \* is the slot occupied?
  active_max_frames_count,
  layout,                     \* the product's current port layout
  snapshot,                   \* layout and maximum the last activation saw
  rt_depth, rt_thread,        \* RtCallbackTracker of process and params.flush
  gui_owner, gui_thread,      \* gui_callback_busy holder, gui_lifecycle_thread
  gui_open,                   \* a successful gui.create not yet destroyed
  freed                       \* the instance's box was dropped

callVars  == <<op, phase, held, block>>
frozen    == <<runtime, core, host_extensions_initialized>>
lifeVars  == <<lifecycle_busy, lifecycle_thread>>
procVars  == <<processor_busy, processor_active, processor, inactive_processor>>
prodVars  == <<active_max_frames_count, layout, snapshot>>
rtVars    == <<rt_depth, rt_thread>>
guiVars   == <<gui_owner, gui_thread, gui_open>>
vars == <<callVars, frozen, lifeVars, core_owner, procVars, prodVars, rtVars,
          guiVars, freed>>

Phases ==
  {"idle", "enter", "create", "publish", "expose", "probe", "probing",
   "claim", "claiming", "take", "taking", "park", "parking", "install",
   "installing", "lock", "core", "host", "limit", "leave", "silence", "gui",
   "guiRun", "final", "free", "restore", "apply", "borrow", "using",
   "recheck", "borrowIdle", "usingIdle", "end"}

\* The phases between a won processor_busy exchange and its release.
Borrowing == {"probing", "claiming", "taking", "parking", "installing",
              "using", "usingIdle"}

TypeOK ==
  /\ op \in [Calls -> AllCallbacks \cup {"none"}]
  /\ phase \in [Calls -> Phases]
  /\ held \in [Calls -> {"none", "inactive", "active"}]
  /\ block \in [Calls -> BlockSizes \cup {0}]
  /\ runtime \in BOOLEAN /\ core \in BOOLEAN
  /\ host_extensions_initialized \in BOOLEAN
  /\ lifecycle_busy \in BOOLEAN
  /\ lifecycle_thread \in Threads \cup {NoThread}
  /\ core_owner \in Calls \cup {NoCall}
  /\ processor_busy \in BOOLEAN /\ processor_active \in BOOLEAN
  /\ processor \in BOOLEAN /\ inactive_processor \in BOOLEAN
  /\ active_max_frames_count \in BlockSizes \cup {0}
  /\ layout \in Layouts
  /\ snapshot \in [layout : Layouts, max : BlockSizes \cup {0}]
  /\ rt_depth \in [RealtimeCallbacks -> Nat]
  /\ rt_thread \in [RealtimeCallbacks -> Threads \cup {NoThread}]
  /\ gui_owner \in Calls \cup {NoCall}
  /\ gui_thread \in Threads \cup {NoThread}
  /\ gui_open \in BOOLEAN
  /\ freed \in BOOLEAN

\* PluginInstanceState::new: an ABI shell with no product instance behind it.
Init ==
  /\ op = [c \in Calls |-> "none"] /\ phase = [c \in Calls |-> "idle"]
  /\ held = [c \in Calls |-> "none"] /\ block = [c \in Calls |-> 0]
  /\ runtime = FALSE /\ core = FALSE /\ host_extensions_initialized = FALSE
  /\ lifecycle_busy = FALSE /\ lifecycle_thread = NoThread
  /\ core_owner = NoCall
  /\ processor_busy = FALSE /\ processor_active = FALSE
  /\ processor = FALSE /\ inactive_processor = FALSE
  /\ active_max_frames_count = 0
  /\ layout \in Layouts
  /\ snapshot = [layout |-> layout, max |-> 0]
  /\ rt_depth = [o \in RealtimeCallbacks |-> 0]
  /\ rt_thread = [o \in RealtimeCallbacks |-> NoThread]
  /\ gui_owner = NoCall /\ gui_thread = NoThread /\ gui_open = FALSE
  /\ freed = FALSE
-----------------------------------------------------------------------------
(* Control helpers. *)

At(c, o, p) == op[c] = o /\ phase[c] = p

Goto(c, p) == phase' = [phase EXCEPT ![c] = p] /\ UNCHANGED op

Return(c) == /\ op' = [op EXCEPT ![c] = "none"]
             /\ phase' = [phase EXCEPT ![c] = "idle"]

Own(c, p) == held' = [held EXCEPT ![c] = p]

\* The product, running inside call c, has called into the host.
InHost(c) ==
  \/ phase[c] = "host"
  \/ (At(c, "process", "using") /\ processor)
  \/ (At(c, "on_main_thread", "core") /\ core)
  \/ phase[c] = "guiRun"

\* The newest call of its thread; an older one waits for the newer to return.
OnTop(c) == \A d \in Calls : d[1] = c[1] /\ d[2] > c[2] => phase[d] = "idle"

InFlight(S) == \E c \in Calls : op[c] \in S
-----------------------------------------------------------------------------
(* When the host may start callback o in slot c. *)

\* CLAP's annotations: which thread, in which lifecycle state, next to what.  Only a
\* conforming host keeps them.
ClapAllows(c, o) ==
  /\ o \in AudioCallbacks => c[1] # MainThread
  /\ o = "flush" => (processor_active <=> c[1] # MainThread)
  /\ o \notin AudioCallbacks \cup {"flush"} => c[1] = MainThread
  /\ o = "init" => ~ runtime
  /\ o \notin {"init", "destroy"} => runtime
  /\ o \in AudioCallbacks \cup {"deactivate"} => processor_active
  /\ o \in {"activate", "apply", "destroy"} => ~ processor_active
  /\ o \in AudioCallbacks \cup {"flush"} => ~ InFlight(LifecycleCallbacks)
  /\ o \in LifecycleCallbacks \cup {"flush", "apply"} =>
       ~ InFlight(AudioCallbacks \cup {"flush"})
  /\ o \in AudioCallbacks => ~ InFlight(AudioCallbacks \cup {"flush"})

\* Hosts behind clap-wrapper call on any thread and in any order, except that
\* one real-time callback never runs on two threads (RtDepthGuard::enter) and
\* that only audio and GUI callbacks may overlap plugin.destroy, after whose
\* start nothing is called.
HostAllows(c, o) ==
  /\ o \in Callbacks
  /\ op[c] = "none" /\ OnTop(c)
  /\ c[2] > 1 => o \in Reentrant /\ InHost(<<c[1], c[2] - 1>>)
  /\ ~ InFlight({"destroy"})
  /\ o = "destroy" => /\ c[2] = 1
                      /\ ~ InFlight(AllCallbacks \ (AudioCallbacks \cup GuiCallbacks))
  /\ o \in RealtimeCallbacks => \A d \in Calls : op[d] = o => d[1] = c[1]

\* mutant: the depth is not counted.
EnterRealtimeUncounted(c, o) ==
  /\ UNCHANGED rt_depth
  /\ rt_thread' = [rt_thread EXCEPT ![o] = c[1]]

\* RtDepthGuard: the outermost entry records the thread, the last exit clears it.
EnterRealtime(c, o) ==
  /\ rt_depth' = [rt_depth EXCEPT ![o] = @ + 1]
  /\ rt_thread' = [rt_thread EXCEPT ![o] = IF rt_depth[o] = 0 THEN c[1] ELSE @]

InRealtimeCallback(t) ==
  \E o \in RealtimeCallbacks : rt_depth[o] > 0 /\ rt_thread[o] = t

WithinMaximumUnchecked(n) == TRUE   \* mutant: no bound at the ABI

WithinMaximum(n) ==
  active_max_frames_count > 0 => n <= active_max_frames_count

\* mutant: params.flush always enters the lifecycle.
FirstFlushByLifecycle(o) ==
  CASE o \in LifecycleCallbacks \cup {"apply", "load", "flush"} -> "enter"
    [] o \in AudioCallbacks -> "borrow"
    [] o = "on_main_thread" -> "lock"
    [] o \in GuiCallbacks -> "gui"

\* Where a callback waits for its first access to shared state.  Callbacks
\* that find a missing runtime return at once and change nothing.
First(o) ==
  CASE o \in LifecycleCallbacks \cup {"apply", "load"} -> "enter"
    [] o \in AudioCallbacks -> "borrow"
    [] o = "on_main_thread" -> "lock"
    [] o \in GuiCallbacks -> "gui"
    [] o = "flush" -> IF processor_active THEN "borrow" ELSE "enter"

LoadAcceptedAnywhere(c) == TRUE   \* mutant: no real-time check in state.load

\* state.load refuses a thread that is inside a real-time callback.
LoadAccepted(c) == ~ InRealtimeCallback(c[1])

Start(c, o) ==
  /\ HostAllows(c, o)
  /\ o \in {"load", "apply"} => runtime
  /\ o = "load" => LoadAccepted(c)
  /\ op' = [op EXCEPT ![c] = o]
  /\ phase' = [phase EXCEPT ![c] = First(o)]
  /\ IF o = "process"
     THEN \E n \in BlockSizes : WithinMaximum(n) /\ block' = [block EXCEPT ![c] = n]
     ELSE UNCHANGED block
  /\ IF o \in RealtimeCallbacks THEN EnterRealtime(c, o) ELSE UNCHANGED rtVars
  /\ UNCHANGED <<held, frozen, lifeVars, core_owner, procVars, prodVars,
                 guiVars, freed>>
-----------------------------------------------------------------------------
(* The lifecycle flag: try_enter_lifecycle, its two waiting forms, and the   *)
(* guard's drop.                                                             *)

FailsFastNotFlush == {"init", "activate", "apply"}   \* mutant: flush waits

FailsFast == {"init", "activate", "apply", "flush"}

AfterEnter(o) ==
  CASE o = "init" -> "create"
    [] o \in {"activate", "apply"} -> "probe"
    [] o = "flush" -> "recheck"
    [] o = "deactivate" -> "take"
    [] o = "destroy" -> "silence"
    [] o = "load" -> "restore"

\* Giving up a real-time callback still passes its depth guard's drop.
GiveUp(c) == IF op[c] \in RealtimeCallbacks THEN Goto(c, "end") ELSE Return(c)

EnterLifecycle(c) ==
  /\ phase[c] = "enter"
  /\ \/ /\ ~ lifecycle_busy
        /\ lifecycle_busy' = TRUE /\ lifecycle_thread' = c[1]
        /\ Goto(c, AfterEnter(op[c]))
     \/ /\ lifecycle_busy
        /\ op[c] \in FailsFast \/ (op[c] = "load" /\ lifecycle_thread = c[1])
        /\ GiveUp(c)
        /\ UNCHANGED lifeVars
  /\ UNCHANGED <<held, block, frozen, core_owner, procVars, prodVars, rtVars,
                 guiVars, freed>>

LeakLifecycle == UNCHANGED lifeVars   \* mutant: the guard is forgotten

ReleaseLifecycle == lifecycle_busy' = FALSE /\ lifecycle_thread' = NoThread

\* The callback's guards drop in reverse order: core mutex, lifecycle flag.
Leave(c) ==
  /\ phase[c] = "leave"
  /\ core_owner' = IF core_owner = c THEN NoCall ELSE core_owner
  /\ ReleaseLifecycle
  /\ CASE op[c] = "destroy" -> Goto(c, "free")
       [] op[c] = "flush" -> Goto(c, "end")
       [] OTHER -> Return(c)
  /\ UNCHANGED <<held, block, frozen, procVars, prodVars, rtVars, guiVars, freed>>
-----------------------------------------------------------------------------
(* The processor borrow flag: with_processor_mut (one attempt) and the       *)
(* *_blocking loops (spin until the exchange succeeds).                      *)

TryPhases  == {"probe", "borrow", "borrowIdle"}
WaitPhases == {"claim", "take", "park", "install"}

Borrowed(p) ==
  CASE p = "probe" -> "probing"   [] p = "borrow" -> "using"
    [] p = "borrowIdle" -> "usingIdle" [] p = "claim" -> "claiming"
    [] p = "take" -> "taking"     [] p = "park" -> "parking"
    [] p = "install" -> "installing"

BorrowFreeUnchecked == TRUE   \* mutant: a store instead of an exchange

\* The exchange on processor_busy succeeds only from FALSE.
BorrowFree == ~ processor_busy

\* destroy of an instance without a runtime tries only once for the inactive
\* processor: there can be none.
Spins(c) == phase[c] \in WaitPhases /\ ~ (At(c, "destroy", "claim") /\ ~ runtime)

Refused(c) ==
  CASE phase[c] \in {"probe", "borrowIdle"} -> Goto(c, "leave")
    [] phase[c] \in {"take", "claim"} -> Goto(c, "final")
    [] OTHER -> GiveUp(c)

Borrow(c) ==
  /\ phase[c] \in TryPhases \cup WaitPhases
  /\ \/ /\ BorrowFree
        /\ processor_busy' = TRUE
        /\ Goto(c, Borrowed(phase[c]))
     \/ /\ processor_busy /\ ~ Spins(c)
        /\ Refused(c)
        /\ UNCHANGED processor_busy
  /\ UNCHANGED <<held, block, frozen, lifeVars, core_owner, processor_active,
                 processor, inactive_processor, prodVars, rtVars, guiVars, freed>>

ProbeRejectsUninitialized == ~ runtime   \* mutant: no look at the processor

ProbeRejects == processor \/ ~ runtime

\* has_processor_or_busy, under activate's or apply's lifecycle guard.
Probing(c) ==
  /\ phase[c] = "probing"
  /\ processor_busy' = FALSE
  /\ Goto(c, IF ProbeRejects THEN "leave"
             ELSE IF op[c] = "activate" THEN "claim" ELSE "apply")
  /\ UNCHANGED <<held, block, frozen, lifeVars, core_owner, processor_active,
                 processor, inactive_processor, prodVars, rtVars, guiVars, freed>>

\* take_inactive_processor: by activate to turn it active, by destroy to drop it.
Claiming(c) ==
  /\ phase[c] = "claiming"
  /\ inactive_processor' = FALSE /\ processor_busy' = FALSE
  /\ IF op[c] = "destroy" THEN Goto(c, "final") /\ UNCHANGED held
     ELSE IF inactive_processor THEN Goto(c, "lock") /\ Own(c, "inactive")
     ELSE Goto(c, "leave") /\ UNCHANGED held
  /\ UNCHANGED <<block, frozen, lifeVars, core_owner, processor_active, processor,
                 prodVars, rtVars, guiVars, freed>>

\* try_take_processor: the flag falls with the slot, inside the borrow.
Taking(c) ==
  /\ phase[c] = "taking"
  /\ processor_busy' = FALSE
  /\ IF processor
     THEN /\ processor' = FALSE /\ processor_active' = FALSE
          /\ Own(c, "active") /\ Goto(c, "lock")
     ELSE /\ Goto(c, IF op[c] = "destroy" THEN "claim" ELSE "leave")
          /\ UNCHANGED <<processor, processor_active, held>>
  /\ UNCHANGED <<block, frozen, lifeVars, core_owner, inactive_processor, prodVars,
                 rtVars, guiVars, freed>>

\* put_inactive_processor_blocking.
Parking(c) ==
  /\ phase[c] = "parking"
  /\ inactive_processor' = TRUE /\ Own(c, "none")
  /\ processor_busy' = FALSE
  /\ Goto(c, IF op[c] = "init" THEN "publish" ELSE "leave")
  /\ UNCHANGED <<block, frozen, lifeVars, core_owner, processor_active, processor,
                 prodVars, rtVars, guiVars, freed>>

\* put_processor_blocking.
Installing(c) ==
  /\ phase[c] = "installing"
  /\ processor' = TRUE /\ processor_active' = TRUE /\ Own(c, "none")
  /\ processor_busy' = FALSE
  /\ Goto(c, "leave")
  /\ UNCHANGED <<block, frozen, lifeVars, core_owner, inactive_processor, prodVars,
                 rtVars, guiVars, freed>>
-----------------------------------------------------------------------------
(* Real-time callbacks. *)

\* process, reset, start_processing and params.flush with an active processor:
\* the product's code runs between the exchange and this release.
Using(c) ==
  /\ phase[c] = "using"
  /\ processor_busy' = FALSE
  /\ GiveUp(c)
  /\ UNCHANGED <<held, block, frozen, lifeVars, core_owner, processor_active,
                 processor, inactive_processor, prodVars, rtVars, guiVars, freed>>

RecheckSkipped == FALSE   \* mutant: the flag is not read again

RecheckActive == processor_active

\* params.flush looks again under the lifecycle guard; an activation may have
\* finished meanwhile.
Recheck(c) ==
  /\ phase[c] = "recheck"
  /\ IF RecheckActive
     THEN ReleaseLifecycle /\ Goto(c, "borrow")
     ELSE Goto(c, "borrowIdle") /\ UNCHANGED lifeVars
  /\ UNCHANGED <<held, block, frozen, core_owner, procVars, prodVars, rtVars,
                 guiVars, freed>>

UsingIdle(c) ==
  /\ phase[c] = "usingIdle"
  /\ processor_busy' = FALSE
  /\ Goto(c, "leave")
  /\ UNCHANGED <<held, block, frozen, lifeVars, core_owner, processor_active,
                 processor, inactive_processor, prodVars, rtVars, guiVars, freed>>

LastExit(o) == rt_depth[o] = 1

\* RtDepthGuard::drop.
End(c) ==
  /\ phase[c] = "end"
  /\ LET o == op[c] IN
       /\ rt_depth' = [rt_depth EXCEPT ![o] = @ - 1]
       /\ rt_thread' = [rt_thread EXCEPT ![o] = IF LastExit(o) THEN NoThread ELSE @]
  /\ Return(c)
  /\ block' = [block EXCEPT ![c] = 0]
  /\ UNCHANGED <<held, frozen, lifeVars, core_owner, procVars, prodVars, guiVars,
                 freed>>
-----------------------------------------------------------------------------
(* The product core and its mutex. *)

LockCore(c) ==
  /\ phase[c] = "lock"
  /\ core_owner = NoCall
  /\ core_owner' = c
  /\ Goto(c, "core")
  /\ UNCHANGED <<held, block, frozen, lifeVars, procVars, prodVars, rtVars,
                 guiVars, freed>>

InitAgain == TRUE   \* mutant: a second plugin.init is not rejected

NotInitialized == ~ runtime /\ ~ core

\* plugin.init: the product factory runs; on success capabilities freeze.
Create(c) ==
  /\ phase[c] = "create"
  /\ \/ /\ NotInitialized
        /\ runtime' = TRUE /\ Own(c, "inactive") /\ Goto(c, "park")
     \/ Goto(c, "leave") /\ UNCHANGED <<runtime, held>>
  /\ UNCHANGED <<block, core, host_extensions_initialized, lifeVars, core_owner,
                 procVars, prodVars, rtVars, guiVars, freed>>

Publish(c) ==
  /\ phase[c] = "publish"
  /\ core_owner = NoCall
  /\ core' = TRUE
  /\ Goto(c, "expose")
  /\ UNCHANGED <<held, block, runtime, host_extensions_initialized, lifeVars,
                 core_owner, procVars, prodVars, rtVars, guiVars, freed>>

Expose(c) ==
  /\ phase[c] = "expose"
  /\ host_extensions_initialized' = TRUE
  /\ Goto(c, "leave")
  /\ UNCHANGED <<held, block, runtime, core, lifeVars, core_owner, procVars,
                 prodVars, rtVars, guiVars, freed>>

\* core.activate consumes the inactive processor.  It returns an active one,
\* perhaps with a latency notification; or it fails, and the core makes a new
\* inactive processor; or that fails too, or the product panics.
CoreActivate(c) ==
  /\ At(c, "activate", "core")
  /\ \/ \E n \in BlockSizes, p \in {"host", "limit"} :
          /\ block' = [block EXCEPT ![c] = n]
          /\ snapshot' = [layout |-> layout, max |-> n]
          /\ Own(c, "active") /\ Goto(c, p)
     \/ Goto(c, "park") /\ UNCHANGED <<held, block, snapshot>>
     \/ Own(c, "none") /\ Goto(c, "leave") /\ UNCHANGED <<block, snapshot>>
  /\ UNCHANGED <<frozen, lifeVars, core_owner, procVars, active_max_frames_count,
                 layout, rtVars, guiVars, freed>>

\* host_latency.changed() of activate and host_params.rescan_values() of
\* state.load return; the host may have called back in the meantime.
HostReturns(c) ==
  /\ phase[c] = "host"
  /\ Goto(c, IF op[c] = "activate" THEN "limit" ELSE "leave")
  /\ UNCHANGED <<held, block, frozen, lifeVars, core_owner, procVars, prodVars,
                 rtVars, guiVars, freed>>

StoreMaximum(c) ==
  /\ phase[c] = "limit"
  /\ active_max_frames_count' = block[c]
  /\ block' = [block EXCEPT ![c] = 0]
  /\ Goto(c, "install")
  /\ UNCHANGED <<held, frozen, lifeVars, core_owner, procVars, layout, snapshot,
                 rtVars, guiVars, freed>>

\* core.deactivate; on an error or panic the processor is gone for good.
CoreDeactivate(c) ==
  /\ At(c, "deactivate", "core")
  /\ \/ Own(c, "inactive") /\ Goto(c, "park")
     \/ Own(c, "none") /\ Goto(c, "leave")
  /\ UNCHANGED <<block, frozen, lifeVars, core_owner, procVars, prodVars, rtVars,
                 guiVars, freed>>

\* on_main_thread runs the product under the core mutex and nothing else.
CoreOnMainThread(c) ==
  /\ At(c, "on_main_thread", "core")
  /\ core_owner' = NoCall
  /\ Return(c)
  /\ UNCHANGED <<held, block, frozen, lifeVars, procVars, prodVars, rtVars,
                 guiVars, freed>>
-----------------------------------------------------------------------------
(* State and port callbacks of the product, under the lifecycle flag. *)

\* state.load: restore_state succeeds and the host rescans, or it fails.
Restore(c) ==
  /\ phase[c] = "restore"
  /\ \E p \in {"host", "leave"} : Goto(c, p)
  /\ UNCHANGED <<held, block, frozen, lifeVars, core_owner, procVars, prodVars,
                 rtVars, guiVars, freed>>

ApplyConfiguration(c) ==
  /\ phase[c] = "apply"
  /\ layout' \in Layouts
  /\ Goto(c, "leave")
  /\ UNCHANGED <<held, block, frozen, lifeVars, core_owner, procVars,
                 active_max_frames_count, snapshot, rtVars, guiVars, freed>>
-----------------------------------------------------------------------------
(* plugin.destroy. *)

KeepProxies == UNCHANGED host_extensions_initialized   \* mutant

SilenceProxies == host_extensions_initialized' = FALSE

Silence(c) ==
  /\ phase[c] = "silence"
  /\ SilenceProxies
  /\ Goto(c, IF runtime THEN "gui" ELSE "take")
  /\ UNCHANGED <<held, block, runtime, core, lifeVars, core_owner, procVars,
                 prodVars, rtVars, guiVars, freed>>

\* core.deactivate; whatever it returns is dropped.
CoreTeardown(c) ==
  /\ At(c, "destroy", "core")
  /\ Own(c, "none")
  /\ core_owner' = NoCall
  /\ Goto(c, "final")
  /\ UNCHANGED <<block, frozen, lifeVars, procVars, prodVars, rtVars, guiVars,
                 freed>>

\* core.destroy, under the core mutex for that one statement.
Final(c) ==
  /\ phase[c] = "final"
  /\ core_owner = NoCall
  /\ Goto(c, "leave")
  /\ UNCHANGED <<held, block, frozen, lifeVars, core_owner, procVars, prodVars,
                 rtVars, guiVars, freed>>

Free(c) ==
  /\ phase[c] = "free"
  /\ freed' = TRUE
  /\ Return(c)
  /\ UNCHANGED <<held, block, frozen, lifeVars, core_owner, procVars, prodVars,
                 rtVars, guiVars>>
-----------------------------------------------------------------------------
(* GUI callbacks (plugin_gui_mutation), and the GUI step of plugin.destroy. *)

GuiAdmitsAnyThread(c) == runtime   \* mutant: no thread check

GuiAdmits(c) == runtime /\ gui_thread \in {NoThread, c[1]}

AfterGui(c) == IF op[c] = "destroy" THEN Goto(c, "take") ELSE Return(c)

EnterGui(c) ==
  /\ phase[c] = "gui"
  /\ IF gui_owner = NoCall /\ GuiAdmits(c)
     THEN gui_owner' = c /\ gui_thread' = c[1] /\ Goto(c, "guiRun")
     ELSE AfterGui(c) /\ UNCHANGED <<gui_owner, gui_thread>>
  /\ UNCHANGED <<held, block, frozen, lifeVars, core_owner, procVars, prodVars,
                 rtVars, gui_open, freed>>

\* The product's GUI callback; create may fail.
GuiRun(c) ==
  /\ phase[c] = "guiRun"
  /\ CASE op[c] \in {"gui_destroy", "destroy"} -> gui_open' = FALSE /\ gui_thread' = NoThread
       [] op[c] = "gui_create" -> gui_open' \in {gui_open, TRUE} /\ UNCHANGED gui_thread
       [] OTHER -> UNCHANGED <<gui_open, gui_thread>>
  /\ gui_owner' = NoCall
  /\ AfterGui(c)
  /\ UNCHANGED <<held, block, frozen, lifeVars, core_owner, procVars, prodVars,
                 rtVars, freed>>
-----------------------------------------------------------------------------
Step(c) ==
  /\ OnTop(c)
  /\ \/ EnterLifecycle(c) \/ Leave(c) \/ Borrow(c) \/ Probing(c) \/ Claiming(c)
     \/ Taking(c) \/ Parking(c) \/ Installing(c) \/ Using(c) \/ Recheck(c)
     \/ UsingIdle(c) \/ End(c) \/ LockCore(c) \/ Create(c) \/ Publish(c)
     \/ Expose(c) \/ CoreActivate(c) \/ HostReturns(c) \/ StoreMaximum(c)
     \/ CoreDeactivate(c) \/ CoreOnMainThread(c) \/ Restore(c)
     \/ ApplyConfiguration(c) \/ Silence(c) \/ CoreTeardown(c) \/ Final(c)
     \/ Free(c) \/ EnterGui(c) \/ GuiRun(c)

\* A freed instance takes no further step.
Freed == freed /\ UNCHANGED vars

Next ==
  \/ /\ ~ freed
     /\ \E c \in Calls : Step(c) \/ \E o \in AllCallbacks : Start(c, o)
  \/ Freed

Spec == Init /\ [][Next]_vars
-----------------------------------------------------------------------------
(* Properties. *)

\* At most one call is between a won exchange on processor_busy and its
\* release, so no two callbacks ever build a &mut to a processor slot at once
\* (abi.rs: "only a callback that wins the atomic guard constructs a &mut").
BorrowExclusive ==
  \A c, d \in Calls : phase[c] \in Borrowing /\ phase[d] \in Borrowing => c = d

\* The product has one audio processor at a time: in the active slot, in the
\* inactive slot, or in the Box of one lifecycle callback.  A second one would
\* be dropped by put_*_processor_blocking, with the state it holds.
OneProcessor ==
  /\ ~ (processor /\ inactive_processor)
  /\ \A c \in Calls : held[c] # "none" => ~ processor /\ ~ inactive_processor
  /\ \A c, d \in Calls : held[c] # "none" /\ held[d] # "none" => c = d

\* A params.flush that works on the inactive slot bypasses no processor: none is
\* active, and no lifecycle callback is carrying one (the flush decided from the
\* flag processor_active, which an activation may have raised since).
IdleFlushBypassesNothing ==
  \A c \in Calls : phase[c] = "usingIdle" =>
    ~ processor /\ \A d \in Calls : held[d] = "none"

\* The layout an ActiveProcessor was activated with is the layout the product
\* reports for as long as that processor exists (configurable_audio_ports.rs:
\* "the layout is stable for the lifetime of any ActiveProcessor").
LayoutStable ==
  processor \/ (\E c \in Calls : held[c] = "active") => snapshot.layout = layout

\* Proxies into the host are live only between the end of the capability
\* freeze and the start of destroy: a host called back by the product finds
\* every capability and the core in place.
ProxiesLiveOnlyWhenFrozen ==
  host_extensions_initialized =>
    /\ runtime /\ core
    /\ \A c \in Calls : op[c] = "destroy" => phase[c] \in {"enter", "silence"}

\* A thread inside process or params.flush never restores state: neither in
\* that call nor in one the host stacked on it from a host callback.
NoRestoreInRealtime ==
  \A c \in Calls : At(c, "load", "restore") =>
    \A d \in Calls : d[1] = c[1] => op[d] \notin RealtimeCallbacks

\* Real-time, port and GUI callbacks never wait for another call: each can
\* take its next step whatever the others hold, or was abandoned at once.
NeverWaits ==
  \A c \in Calls :
    (op[c] \in AudioCallbacks \cup GuiCallbacks \cup {"flush", "apply"}
       /\ OnTop(c) /\ ~ freed) => ENABLED Step(c)

\* While a GUI session lasts, the thread that may run its callbacks is the one it
\* was opened on (enter_gui_lifecycle_thread rejects every other).
GuiOnOneThread ==
  [][gui_open /\ gui_open' => gui_thread # NoThread /\ gui_thread' = gui_thread]_vars

\* The processor at the instance's end: nobody uses it when the box is
\* dropped (take_processor_blocking: "never frees the instance while process()
\* holds a temporary ActiveProcessor borrow"), and it is gone by then.
NoBorrowWhenFreed ==
  freed => /\ \A c \in Calls : phase[c] # "using" \/ ~ processor
           /\ ~ processor /\ ~ inactive_processor

\* A host that keeps CLAP's annotations never meets a refusal: no audio block
\* is skipped and no parameter flush dropped because a guard was taken.
ConformingHostNeverRefused ==
  \A c \in Calls : OnTop(c) =>
    /\ phase[c] \in TryPhases => ~ processor_busy
    /\ phase[c] = "enter" /\ op[c] # "load" => ~ lifecycle_busy
    /\ phase[c] = "using" => processor

\* With a conforming host an ActiveProcessor only gets blocks within the
\* maximum it was activated with.
BlockWithinActivatedMaximum ==
  \A c \in Calls : At(c, "process", "using") /\ processor => block[c] <= snapshot.max

\* Every call the host makes returns, if the host stops making new ones: no
\* waiting loop waits for itself or for a call that waits for it.
EveryCallReturns == \A c \in Calls : op[c] # "none" ~> op[c] = "none" \/ freed
-----------------------------------------------------------------------------
(* The promise this module implements. *)

Place ==
  IF \E c \in Calls : held[c] # "none" THEN "moving"
  ELSE IF processor THEN
         IF \E c \in Calls : phase[c] = "using" THEN "lentInstalled" ELSE "installed"
  ELSE IF inactive_processor THEN
         IF \E c \in Calls : phase[c] = "usingIdle" THEN "lentParked" ELSE "parked"
  ELSE "nowhere"

Ownership == INSTANCE ProcessorOwnership WITH place <- Place, alive <- ~ freed

\* Every behaviour of the callbacks is one of ProcessorOwnership.
ImplementsOwnership == Ownership!Spec
=============================================================================
