------------------------ MODULE PluginInstanceProofs ------------------------
(***************************************************************************)
(* Proofs about PluginInstance, for any threads, nesting and block sizes:  *)
(* for every host within HostAllows first, then what an instance owes its  *)
(* host, and last what it owes one that keeps the order clap asks for      *)
(* (ClapAllows), whose calls are never turned away for what another call   *)
(* is doing.                                                               *)
(*                                                                         *)
(* HInv adds to IInv what the guards mean for the calls under way: who may *)
(* be stacked on whom, which thread a guard recorded, and that a flag is   *)
(* up only while a call is at work that raised it.  CInv adds what clap's  *)
(* rules mean: no audio callback runs beside one that could get in its     *)
(* way, and what process checks against is what activate was given.        *)
(***************************************************************************)
EXTENDS MCPluginReturns, FiniteSetTheorems, TLAPS

(* The inductive invariant, in named parts. *)

\* Which phases each callback passes through.
PhasesOf(o) ==
  CASE o = "none" -> {"idle"}
    [] o = "init" -> {"enter", "create", "park", "parking", "publish", "expose", "leave"}
    [] o = "activate" -> {"enter", "probe", "probing", "claim", "claiming", "lock",
                          "core", "host", "limit", "install", "installing", "park",
                          "parking", "leave"}
    [] o = "deactivate" -> {"enter", "take", "taking", "lock", "core", "park",
                            "parking", "leave"}
    [] o = "destroy" -> {"enter", "silence", "gui", "guiRun", "take", "taking", "lock",
                         "core", "claim", "claiming", "final", "leave", "free"}
    [] o = "process" -> {"borrow", "using", "end"}
    [] o = "flush" -> {"enter", "recheck", "borrowIdle", "usingIdle", "leave",
                       "borrow", "using", "end"}
    [] o \in {"reset", "start_processing"} -> {"borrow", "using"}
    [] o = "load" -> {"enter", "restore", "host", "leave"}
    [] o = "apply" -> {"enter", "probe", "probing", "apply", "leave"}
    [] o = "on_main_thread" -> {"lock", "core"}
    [] OTHER -> {"gui", "guiRun"}

CallsWellFormed == \A c \in Calls : phase[c] \in PhasesOf(op[c])

\* The phases in which call c owns the lifecycle flag.
InLifecycle(c) ==
  /\ phase[c] \notin {"idle", "enter", "free", "borrow", "using", "end"}
  /\ op[c] \notin GuiCallbacks \cup {"on_main_thread"}

LifecycleExclusive ==
  /\ \A c \in Calls : InLifecycle(c) => lifecycle_busy
  /\ \A c, d \in Calls : InLifecycle(c) /\ InLifecycle(d) => c = d

BorrowHeld == \A c \in Calls : phase[c] \in Borrowing => processor_busy

\* Which processor a call carries is determined by where it is.
Carries(c) ==
  CASE phase[c] \in {"park", "parking"} -> "inactive"
    [] phase[c] \in {"limit", "install", "installing"} -> "active"
    [] phase[c] = "host" /\ op[c] = "activate" -> "active"
    [] phase[c] \in {"lock", "core"} /\ op[c] = "activate" -> "inactive"
    [] phase[c] \in {"lock", "core"} /\ op[c] \in {"deactivate", "destroy"} -> "active"
    [] OTHER -> "none"

HeldWhereCarried == \A c \in Calls : held[c] = Carries(c)

TornDown(c) ==
  phase[c] \in {"final", "free"} \/ At(c, "destroy", "leave")

\* Once destroy has started only audio and GUI callbacks are still inside.
DestroyAlone ==
  \A c, d \in Calls :
    op[c] = "destroy" /\ c # d => op[d] \in AudioCallbacks \cup GuiCallbacks \cup {"none"}

\* No second processor: what a lifecycle call has established about the slots.
SlotsAgree ==
  /\ processor_active <=> processor
  /\ ~ (processor /\ inactive_processor)
  /\ processor \/ inactive_processor => runtime
  /\ \A c \in Calls :
       /\ held[c] # "none" => ~ processor /\ ~ inactive_processor /\ runtime
       /\ op[c] = "activate" /\ phase[c] \in {"claim", "claiming"} => ~ processor
       /\ op[c] = "destroy" /\ phase[c] \in {"claim", "claiming"} => ~ processor
       /\ phase[c] \in {"apply", "borrowIdle", "usingIdle"} => ~ processor
       /\ TornDown(c) => ~ processor /\ ~ inactive_processor
       /\ phase[c] = "apply" => runtime
  /\ freed => ~ processor /\ ~ inactive_processor

LayoutKept ==
  processor \/ (\E c \in Calls : held[c] = "active") => snapshot.layout = layout

\* A tracker counts the calls inside its callback.
DepthsCount ==
  \A o \in RealtimeCallbacks : rt_depth[o] = Cardinality({c \in Calls : op[c] = o})

IInv ==
  /\ TypeOK
  /\ CallsWellFormed
  /\ LifecycleExclusive
  /\ BorrowExclusive
  /\ BorrowHeld
  /\ HeldWhereCarried
  /\ DestroyAlone
  /\ SlotsAgree
  /\ LayoutKept
  /\ DepthsCount

\* A call that carries the processor is the only lifecycle call at work, and
\* both slots are empty.
LEMMA CarrierAlone ==
  ASSUME IInv, NEW c \in Calls, held[c] # "none"
  PROVE  /\ runtime /\ ~ processor /\ ~ inactive_processor
         /\ \A d \in Calls : d # c =>
              /\ held[d] = "none" /\ ~ TornDown(d)
              /\ phase[d] \notin {"claim", "claiming", "apply", "borrowIdle", "usingIdle"}
<1> USE DEF IInv
<1>1. InLifecycle(c) /\ op[c] \in {"init", "activate", "deactivate", "destroy"} /\ ~ TornDown(c)
  BY DEF HeldWhereCarried, Carries, InLifecycle, TornDown, At, CallsWellFormed, PhasesOf,
         GuiCallbacks, AllCallbacks, TypeOK
<1>2. \A d \in Calls : d # c => ~ InLifecycle(d)
  BY <1>1 DEF LifecycleExclusive
<1>3. runtime /\ ~ processor /\ ~ inactive_processor
  BY DEF SlotsAgree
<1>4. \A d \in Calls : d # c =>
        /\ held[d] = "none"
        /\ phase[d] \notin {"claim", "claiming", "apply", "borrowIdle", "usingIdle"}
  BY <1>2 DEF HeldWhereCarried, Carries, InLifecycle, CallsWellFormed, PhasesOf,
              GuiCallbacks, AllCallbacks, TypeOK
<1>5. \A d \in Calls : d # c => ~ TornDown(d)
  BY <1>1, <1>2 DEF DestroyAlone, TornDown, At, InLifecycle, CallsWellFormed, PhasesOf,
         GuiCallbacks, AudioCallbacks, AllCallbacks, TypeOK
<1> QED BY <1>3, <1>4, <1>5

\* The stack slots are finitely many, so calls can be counted.
LEMMA CallsFinite == IsFiniteSet(Calls)
<1>1. IsFiniteSet(1..Nesting)
  BY NestingAssumption, FS_Interval
<1>2. IsFiniteSet(Threads)
  BY ThreadsAssumption
<1> QED BY <1>1, <1>2, FS_Product DEF Calls

\* RtDepthGuard::drop never decrements a zero depth.
LEMMA DepthPositive ==
  ASSUME TypeOK, DepthsCount, NEW c \in Calls, op[c] \in RealtimeCallbacks
  PROVE  rt_depth[op[c]] \in Nat \ {0}
<1> DEFINE Inside == {d \in Calls : op[d] = op[c]}
<1>1. IsFiniteSet(Inside) /\ c \in Inside
  BY CallsFinite, FS_Subset
<1>2. Cardinality(Inside) \in Nat \ {0}
  BY <1>1, FS_CardinalityType, FS_EmptySet
<1> QED BY <1>2 DEF DepthsCount

\* A step that neither enters nor leaves a real-time callback keeps the count.
LEMMA DepthsKept ==
  ASSUME DepthsCount, UNCHANGED rt_depth,
         \A d \in Calls, o \in RealtimeCallbacks : op'[d] = o <=> op[d] = o
  PROVE  DepthsCount'
<1> SUFFICES ASSUME NEW o \in RealtimeCallbacks
            PROVE  rt_depth'[o] = Cardinality({d \in Calls : op'[d] = o})
  BY DEF DepthsCount
<1>1. {d \in Calls : op'[d] = o} = {d \in Calls : op[d] = o}
  OBVIOUS
<1> QED BY <1>1 DEF DepthsCount

\* Entering and leaving the lifecycle (try_enter_lifecycle and its guard's drop).
LEMMA LifecycleInv ==
  ASSUME IInv, NEW c \in Calls,
         EnterLifecycle(c) \/ Leave(c) \/ Recheck(c) \/ Silence(c)
  PROVE  IInv'
<1> USE DEF EnterLifecycle, Leave, Recheck, Silence, At, Goto, Own, IInv, frozen,
            lifeVars, procVars, prodVars, rtVars, guiVars, AfterEnter, GiveUp, Return,
            FailsFast, ReleaseLifecycle, RecheckActive, SilenceProxies
<1>1. TypeOK'
  <2>1. /\ op' \in [Calls -> AllCallbacks \cup {"none"}] /\ phase' \in [Calls -> Phases]
        /\ held' \in [Calls -> {"none", "inactive", "active"}]
        /\ block' \in [Calls -> BlockSizes \cup {0}]
    BY DEF TypeOK, Phases, CallsWellFormed, PhasesOf, AllCallbacks, GuiCallbacks,
           RealtimeCallbacks
  <2>2. /\ core_owner' \in Calls \cup {NoCall} /\ gui_owner' \in Calls \cup {NoCall}
        /\ lifecycle_thread' \in Threads \cup {NoThread}
        /\ gui_thread' \in Threads \cup {NoThread}
        /\ snapshot' \in [layout : Layouts, max : BlockSizes \cup {0}]
        /\ active_max_frames_count' \in BlockSizes \cup {0}
    BY DEF TypeOK, Calls
  <2>3. /\ runtime' \in BOOLEAN /\ core' \in BOOLEAN /\ host_extensions_initialized' \in BOOLEAN
        /\ lifecycle_busy' \in BOOLEAN /\ gui_open' \in BOOLEAN /\ freed' \in BOOLEAN
    BY DEF TypeOK
  <2>4. /\ processor_busy' \in BOOLEAN /\ processor_active' \in BOOLEAN
        /\ processor' \in BOOLEAN /\ inactive_processor' \in BOOLEAN /\ layout' \in Layouts
    BY DEF TypeOK
  <2>5. /\ rt_depth' \in [RealtimeCallbacks -> Nat]
        /\ rt_thread' \in [RealtimeCallbacks -> Threads \cup {NoThread}]
    BY DEF TypeOK
  <2> QED BY <2>1, <2>2, <2>3, <2>4, <2>5 DEF TypeOK
<1>2. CallsWellFormed'
  BY DEF CallsWellFormed, PhasesOf, TypeOK, GuiCallbacks, AllCallbacks, RealtimeCallbacks
<1>3. LifecycleExclusive'
  BY DEF LifecycleExclusive, InLifecycle, TypeOK, CallsWellFormed, PhasesOf,
         GuiCallbacks, AllCallbacks, RealtimeCallbacks
<1>4. BorrowExclusive' /\ BorrowHeld'
  BY DEF BorrowExclusive, BorrowHeld, Borrowing, TypeOK, CallsWellFormed, PhasesOf,
         AllCallbacks, GuiCallbacks
<1>5. HeldWhereCarried'
  BY DEF HeldWhereCarried, Carries, TypeOK, CallsWellFormed, PhasesOf, AllCallbacks,
         GuiCallbacks, RealtimeCallbacks
<1>6. DestroyAlone'
  BY DEF DestroyAlone, TypeOK
<1>7. SlotsAgree'
  BY DEF SlotsAgree, TornDown, TypeOK, LifecycleExclusive, InLifecycle,
         HeldWhereCarried, Carries, CallsWellFormed, PhasesOf, AllCallbacks,
         GuiCallbacks, RealtimeCallbacks
<1>8. LayoutKept'
  BY DEF LayoutKept, TypeOK
<1>9. DepthsCount'
  BY DepthsKept DEF RealtimeCallbacks, TypeOK, CallsWellFormed, PhasesOf, AllCallbacks
<1> QED BY <1>1, <1>2, <1>3, <1>4, <1>5, <1>6, <1>7, <1>8, <1>9 DEF IInv

\* One compare-and-exchange on processor_busy.
LEMMA AttemptInv ==
  ASSUME IInv, NEW c \in Calls,
         Borrow(c)
  PROVE  IInv'
<1> USE DEF Borrow, At, Goto, Own, IInv, frozen, lifeVars, procVars, prodVars, rtVars,
            guiVars, Borrowed, Refused, BorrowFree, TryPhases, WaitPhases, Spins, GiveUp,
            Return
<1>1. TypeOK'
  <2>1. /\ op' \in [Calls -> AllCallbacks \cup {"none"}] /\ phase' \in [Calls -> Phases]
        /\ held' \in [Calls -> {"none", "inactive", "active"}]
        /\ block' \in [Calls -> BlockSizes \cup {0}]
    BY DEF TypeOK, Phases, CallsWellFormed, PhasesOf, AllCallbacks, GuiCallbacks,
           RealtimeCallbacks
  <2>2. /\ core_owner' \in Calls \cup {NoCall} /\ gui_owner' \in Calls \cup {NoCall}
        /\ lifecycle_thread' \in Threads \cup {NoThread}
        /\ gui_thread' \in Threads \cup {NoThread}
        /\ snapshot' \in [layout : Layouts, max : BlockSizes \cup {0}]
        /\ active_max_frames_count' \in BlockSizes \cup {0}
    BY DEF TypeOK, Calls
  <2>3. /\ runtime' \in BOOLEAN /\ core' \in BOOLEAN /\ host_extensions_initialized' \in BOOLEAN
        /\ lifecycle_busy' \in BOOLEAN /\ gui_open' \in BOOLEAN /\ freed' \in BOOLEAN
    BY DEF TypeOK
  <2>4. /\ processor_busy' \in BOOLEAN /\ processor_active' \in BOOLEAN
        /\ processor' \in BOOLEAN /\ inactive_processor' \in BOOLEAN /\ layout' \in Layouts
    BY DEF TypeOK
  <2>5. /\ rt_depth' \in [RealtimeCallbacks -> Nat]
        /\ rt_thread' \in [RealtimeCallbacks -> Threads \cup {NoThread}]
    BY DEF TypeOK
  <2> QED BY <2>1, <2>2, <2>3, <2>4, <2>5 DEF TypeOK
<1>2. CallsWellFormed'
  BY DEF CallsWellFormed, PhasesOf, TypeOK, GuiCallbacks, AllCallbacks, RealtimeCallbacks
<1>3. LifecycleExclusive'
  BY DEF LifecycleExclusive, InLifecycle, TypeOK, CallsWellFormed, PhasesOf,
         GuiCallbacks, AllCallbacks, RealtimeCallbacks
<1>4. BorrowExclusive' /\ BorrowHeld'
  BY DEF BorrowExclusive, BorrowHeld, Borrowing, TypeOK, CallsWellFormed, PhasesOf,
         AllCallbacks, GuiCallbacks
<1>5. HeldWhereCarried'
  BY DEF HeldWhereCarried, Carries, TypeOK, CallsWellFormed, PhasesOf, AllCallbacks,
         GuiCallbacks, RealtimeCallbacks
<1>6. DestroyAlone'
  BY DEF DestroyAlone, TypeOK
<1>7. SlotsAgree'
  BY DEF SlotsAgree, TornDown, TypeOK, LifecycleExclusive, InLifecycle,
         HeldWhereCarried, Carries, CallsWellFormed, PhasesOf, AllCallbacks,
         GuiCallbacks, RealtimeCallbacks
<1>8. LayoutKept'
  BY DEF LayoutKept, TypeOK
<1>9. DepthsCount'
  BY DepthsKept DEF RealtimeCallbacks, TypeOK, CallsWellFormed, PhasesOf, AllCallbacks
<1> QED BY <1>1, <1>2, <1>3, <1>4, <1>5, <1>6, <1>7, <1>8, <1>9 DEF IInv

\* Steps under the borrow that read a slot or empty it.
LEMMA SlotInv ==
  ASSUME IInv, NEW c \in Calls,
         Probing(c) \/ Claiming(c) \/ Taking(c)
  PROVE  IInv'
<1> USE DEF Probing, Claiming, Taking, At, Goto, Own, IInv, frozen, lifeVars, procVars,
            prodVars, rtVars, guiVars, ProbeRejects
<1>1. TypeOK'
  <2>1. /\ op' \in [Calls -> AllCallbacks \cup {"none"}] /\ phase' \in [Calls -> Phases]
        /\ held' \in [Calls -> {"none", "inactive", "active"}]
        /\ block' \in [Calls -> BlockSizes \cup {0}]
    BY DEF TypeOK, Phases, CallsWellFormed, PhasesOf, AllCallbacks, GuiCallbacks,
           RealtimeCallbacks
  <2>2. /\ core_owner' \in Calls \cup {NoCall} /\ gui_owner' \in Calls \cup {NoCall}
        /\ lifecycle_thread' \in Threads \cup {NoThread}
        /\ gui_thread' \in Threads \cup {NoThread}
        /\ snapshot' \in [layout : Layouts, max : BlockSizes \cup {0}]
        /\ active_max_frames_count' \in BlockSizes \cup {0}
    BY DEF TypeOK, Calls
  <2>3. /\ runtime' \in BOOLEAN /\ core' \in BOOLEAN /\ host_extensions_initialized' \in BOOLEAN
        /\ lifecycle_busy' \in BOOLEAN /\ gui_open' \in BOOLEAN /\ freed' \in BOOLEAN
    BY DEF TypeOK
  <2>4. /\ processor_busy' \in BOOLEAN /\ processor_active' \in BOOLEAN
        /\ processor' \in BOOLEAN /\ inactive_processor' \in BOOLEAN /\ layout' \in Layouts
    BY DEF TypeOK
  <2>5. /\ rt_depth' \in [RealtimeCallbacks -> Nat]
        /\ rt_thread' \in [RealtimeCallbacks -> Threads \cup {NoThread}]
    BY DEF TypeOK
  <2> QED BY <2>1, <2>2, <2>3, <2>4, <2>5 DEF TypeOK
<1>2. CallsWellFormed'
  BY DEF CallsWellFormed, PhasesOf, TypeOK, GuiCallbacks, AllCallbacks, RealtimeCallbacks
<1>3. LifecycleExclusive'
  BY DEF LifecycleExclusive, InLifecycle, TypeOK, CallsWellFormed, PhasesOf,
         GuiCallbacks, AllCallbacks, RealtimeCallbacks
<1>4. BorrowExclusive' /\ BorrowHeld'
  BY DEF BorrowExclusive, BorrowHeld, Borrowing, TypeOK, CallsWellFormed, PhasesOf,
         AllCallbacks, GuiCallbacks
<1>5. HeldWhereCarried'
  BY DEF HeldWhereCarried, Carries, TypeOK, CallsWellFormed, PhasesOf, AllCallbacks,
         GuiCallbacks, RealtimeCallbacks
<1>6. DestroyAlone'
  BY DEF DestroyAlone, TypeOK
<1>7. SlotsAgree'
  BY DEF SlotsAgree, TornDown, TypeOK, LifecycleExclusive, InLifecycle,
         HeldWhereCarried, Carries, CallsWellFormed, PhasesOf, AllCallbacks,
         GuiCallbacks, RealtimeCallbacks
<1>8. LayoutKept'
  BY DEF LayoutKept, TypeOK
<1>9. DepthsCount'
  BY DepthsKept DEF RealtimeCallbacks, TypeOK, CallsWellFormed, PhasesOf, AllCallbacks
<1> QED BY <1>1, <1>2, <1>3, <1>4, <1>5, <1>6, <1>7, <1>8, <1>9 DEF IInv

\* put_inactive_processor_blocking.
LEMMA ParkInv ==
  ASSUME IInv, NEW c \in Calls,
         Parking(c), ~ freed
  PROVE  IInv'
<1> USE DEF Parking, At, Goto, Own, IInv, frozen, lifeVars, procVars, prodVars, rtVars,
            guiVars
<1>1. TypeOK'
  <2>1. /\ op' \in [Calls -> AllCallbacks \cup {"none"}] /\ phase' \in [Calls -> Phases]
        /\ held' \in [Calls -> {"none", "inactive", "active"}]
        /\ block' \in [Calls -> BlockSizes \cup {0}]
    BY DEF TypeOK, Phases, CallsWellFormed, PhasesOf, AllCallbacks, GuiCallbacks,
           RealtimeCallbacks
  <2>2. /\ core_owner' \in Calls \cup {NoCall} /\ gui_owner' \in Calls \cup {NoCall}
        /\ lifecycle_thread' \in Threads \cup {NoThread}
        /\ gui_thread' \in Threads \cup {NoThread}
        /\ snapshot' \in [layout : Layouts, max : BlockSizes \cup {0}]
        /\ active_max_frames_count' \in BlockSizes \cup {0}
    BY DEF TypeOK, Calls
  <2>3. /\ runtime' \in BOOLEAN /\ core' \in BOOLEAN /\ host_extensions_initialized' \in BOOLEAN
        /\ lifecycle_busy' \in BOOLEAN /\ gui_open' \in BOOLEAN /\ freed' \in BOOLEAN
    BY DEF TypeOK
  <2>4. /\ processor_busy' \in BOOLEAN /\ processor_active' \in BOOLEAN
        /\ processor' \in BOOLEAN /\ inactive_processor' \in BOOLEAN /\ layout' \in Layouts
    BY DEF TypeOK
  <2>5. /\ rt_depth' \in [RealtimeCallbacks -> Nat]
        /\ rt_thread' \in [RealtimeCallbacks -> Threads \cup {NoThread}]
    BY DEF TypeOK
  <2> QED BY <2>1, <2>2, <2>3, <2>4, <2>5 DEF TypeOK
<1>2. CallsWellFormed'
  BY DEF CallsWellFormed, PhasesOf, TypeOK, GuiCallbacks, AllCallbacks, RealtimeCallbacks
<1>3. LifecycleExclusive'
  BY DEF LifecycleExclusive, InLifecycle, TypeOK, CallsWellFormed, PhasesOf,
         GuiCallbacks, AllCallbacks, RealtimeCallbacks
<1>4. BorrowExclusive' /\ BorrowHeld'
  BY DEF BorrowExclusive, BorrowHeld, Borrowing, TypeOK, CallsWellFormed, PhasesOf,
         AllCallbacks, GuiCallbacks
<1>5. HeldWhereCarried'
  BY DEF HeldWhereCarried, Carries, TypeOK, CallsWellFormed, PhasesOf, AllCallbacks,
         GuiCallbacks, RealtimeCallbacks
<1>6. DestroyAlone'
  BY DEF DestroyAlone, TypeOK
<1>7. SlotsAgree'
  <2>1. held[c] = "inactive"
    BY DEF HeldWhereCarried, Carries
  <2> QED BY <2>1, CarrierAlone DEF SlotsAgree, TornDown, TypeOK, CallsWellFormed,
              PhasesOf, GuiCallbacks, AllCallbacks
<1>8. LayoutKept'
  BY DEF LayoutKept, TypeOK
<1>9. DepthsCount'
  BY DepthsKept DEF RealtimeCallbacks, TypeOK, CallsWellFormed, PhasesOf, AllCallbacks
<1> QED BY <1>1, <1>2, <1>3, <1>4, <1>5, <1>6, <1>7, <1>8, <1>9 DEF IInv

\* put_processor_blocking.
LEMMA InstallInv ==
  ASSUME IInv, NEW c \in Calls,
         Installing(c), ~ freed
  PROVE  IInv'
<1> USE DEF Installing, At, Goto, Own, IInv, frozen, lifeVars, procVars, prodVars,
            rtVars, guiVars
<1>1. TypeOK'
  <2>1. /\ op' \in [Calls -> AllCallbacks \cup {"none"}] /\ phase' \in [Calls -> Phases]
        /\ held' \in [Calls -> {"none", "inactive", "active"}]
        /\ block' \in [Calls -> BlockSizes \cup {0}]
    BY DEF TypeOK, Phases, CallsWellFormed, PhasesOf, AllCallbacks, GuiCallbacks,
           RealtimeCallbacks
  <2>2. /\ core_owner' \in Calls \cup {NoCall} /\ gui_owner' \in Calls \cup {NoCall}
        /\ lifecycle_thread' \in Threads \cup {NoThread}
        /\ gui_thread' \in Threads \cup {NoThread}
        /\ snapshot' \in [layout : Layouts, max : BlockSizes \cup {0}]
        /\ active_max_frames_count' \in BlockSizes \cup {0}
    BY DEF TypeOK, Calls
  <2>3. /\ runtime' \in BOOLEAN /\ core' \in BOOLEAN /\ host_extensions_initialized' \in BOOLEAN
        /\ lifecycle_busy' \in BOOLEAN /\ gui_open' \in BOOLEAN /\ freed' \in BOOLEAN
    BY DEF TypeOK
  <2>4. /\ processor_busy' \in BOOLEAN /\ processor_active' \in BOOLEAN
        /\ processor' \in BOOLEAN /\ inactive_processor' \in BOOLEAN /\ layout' \in Layouts
    BY DEF TypeOK
  <2>5. /\ rt_depth' \in [RealtimeCallbacks -> Nat]
        /\ rt_thread' \in [RealtimeCallbacks -> Threads \cup {NoThread}]
    BY DEF TypeOK
  <2> QED BY <2>1, <2>2, <2>3, <2>4, <2>5 DEF TypeOK
<1>2. CallsWellFormed'
  BY DEF CallsWellFormed, PhasesOf, TypeOK, GuiCallbacks, AllCallbacks, RealtimeCallbacks
<1>3. LifecycleExclusive'
  BY DEF LifecycleExclusive, InLifecycle, TypeOK, CallsWellFormed, PhasesOf,
         GuiCallbacks, AllCallbacks, RealtimeCallbacks
<1>4. BorrowExclusive' /\ BorrowHeld'
  BY DEF BorrowExclusive, BorrowHeld, Borrowing, TypeOK, CallsWellFormed, PhasesOf,
         AllCallbacks, GuiCallbacks
<1>5. HeldWhereCarried'
  BY DEF HeldWhereCarried, Carries, TypeOK, CallsWellFormed, PhasesOf, AllCallbacks,
         GuiCallbacks, RealtimeCallbacks
<1>6. DestroyAlone'
  BY DEF DestroyAlone, TypeOK
<1>7. SlotsAgree'
  <2>1. held[c] = "active" /\ op[c] = "activate"
    BY DEF HeldWhereCarried, Carries, CallsWellFormed, PhasesOf, GuiCallbacks,
           AllCallbacks, TypeOK
  <2> QED BY <2>1, CarrierAlone DEF SlotsAgree, TornDown, TypeOK
<1>8. LayoutKept'
  <2>1. held[c] = "active"
    BY DEF HeldWhereCarried, Carries
  <2> QED BY <2>1 DEF LayoutKept, TypeOK
<1>9. DepthsCount'
  BY DepthsKept DEF RealtimeCallbacks, TypeOK, CallsWellFormed, PhasesOf, AllCallbacks
<1> QED BY <1>1, <1>2, <1>3, <1>4, <1>5, <1>6, <1>7, <1>8, <1>9 DEF IInv

\* The product's real-time and state code, and its return from host callbacks.
LEMMA ProductInv ==
  ASSUME IInv, NEW c \in Calls,
         Using(c) \/ UsingIdle(c) \/ Restore(c) \/ HostReturns(c) \/ StoreMaximum(c)
  PROVE  IInv'
<1> USE DEF Using, UsingIdle, Restore, HostReturns, StoreMaximum, At, Goto, Own, IInv,
            frozen, lifeVars, procVars, prodVars, rtVars, guiVars, GiveUp, Return
<1>1. TypeOK'
  <2>1. /\ op' \in [Calls -> AllCallbacks \cup {"none"}] /\ phase' \in [Calls -> Phases]
        /\ held' \in [Calls -> {"none", "inactive", "active"}]
        /\ block' \in [Calls -> BlockSizes \cup {0}]
    BY DEF TypeOK, Phases, CallsWellFormed, PhasesOf, AllCallbacks, GuiCallbacks,
           RealtimeCallbacks
  <2>2. /\ core_owner' \in Calls \cup {NoCall} /\ gui_owner' \in Calls \cup {NoCall}
        /\ lifecycle_thread' \in Threads \cup {NoThread}
        /\ gui_thread' \in Threads \cup {NoThread}
        /\ snapshot' \in [layout : Layouts, max : BlockSizes \cup {0}]
        /\ active_max_frames_count' \in BlockSizes \cup {0}
    BY DEF TypeOK, Calls
  <2>3. /\ runtime' \in BOOLEAN /\ core' \in BOOLEAN /\ host_extensions_initialized' \in BOOLEAN
        /\ lifecycle_busy' \in BOOLEAN /\ gui_open' \in BOOLEAN /\ freed' \in BOOLEAN
    BY DEF TypeOK
  <2>4. /\ processor_busy' \in BOOLEAN /\ processor_active' \in BOOLEAN
        /\ processor' \in BOOLEAN /\ inactive_processor' \in BOOLEAN /\ layout' \in Layouts
    BY DEF TypeOK
  <2>5. /\ rt_depth' \in [RealtimeCallbacks -> Nat]
        /\ rt_thread' \in [RealtimeCallbacks -> Threads \cup {NoThread}]
    BY DEF TypeOK
  <2> QED BY <2>1, <2>2, <2>3, <2>4, <2>5 DEF TypeOK
<1>2. CallsWellFormed'
  BY DEF CallsWellFormed, PhasesOf, TypeOK, GuiCallbacks, AllCallbacks, RealtimeCallbacks
<1>3. LifecycleExclusive'
  BY DEF LifecycleExclusive, InLifecycle, TypeOK, CallsWellFormed, PhasesOf,
         GuiCallbacks, AllCallbacks, RealtimeCallbacks
<1>4. BorrowExclusive' /\ BorrowHeld'
  BY DEF BorrowExclusive, BorrowHeld, Borrowing, TypeOK, CallsWellFormed, PhasesOf,
         AllCallbacks, GuiCallbacks
<1>5. HeldWhereCarried'
  BY DEF HeldWhereCarried, Carries, TypeOK, CallsWellFormed, PhasesOf, AllCallbacks,
         GuiCallbacks, RealtimeCallbacks
<1>6. DestroyAlone'
  BY DEF DestroyAlone, TypeOK
<1>7. SlotsAgree'
  BY DEF SlotsAgree, TornDown, TypeOK, LifecycleExclusive, InLifecycle,
         HeldWhereCarried, Carries, CallsWellFormed, PhasesOf, AllCallbacks,
         GuiCallbacks, RealtimeCallbacks
<1>8. LayoutKept'
  BY DEF LayoutKept, TypeOK
<1>9. DepthsCount'
  BY DepthsKept DEF RealtimeCallbacks, TypeOK, CallsWellFormed, PhasesOf, AllCallbacks
<1> QED BY <1>1, <1>2, <1>3, <1>4, <1>5, <1>6, <1>7, <1>8, <1>9 DEF IInv

\* Steps at the core mutex.
LEMMA CoreInv ==
  ASSUME IInv, NEW c \in Calls,
         LockCore(c) \/ CoreActivate(c) \/ CoreDeactivate(c) \/ CoreOnMainThread(c) \/ CoreTeardown(c) \/ Final(c)
  PROVE  IInv'
<1> USE DEF LockCore, CoreActivate, CoreDeactivate, CoreOnMainThread, CoreTeardown,
            Final, At, Goto, Own, IInv, frozen, lifeVars, procVars, prodVars, rtVars,
            guiVars, Return
<1>1. TypeOK'
  <2>1. /\ op' \in [Calls -> AllCallbacks \cup {"none"}] /\ phase' \in [Calls -> Phases]
        /\ held' \in [Calls -> {"none", "inactive", "active"}]
        /\ block' \in [Calls -> BlockSizes \cup {0}]
    BY DEF TypeOK, Phases, CallsWellFormed, PhasesOf, AllCallbacks, GuiCallbacks,
           RealtimeCallbacks
  <2>2. /\ core_owner' \in Calls \cup {NoCall} /\ gui_owner' \in Calls \cup {NoCall}
        /\ lifecycle_thread' \in Threads \cup {NoThread}
        /\ gui_thread' \in Threads \cup {NoThread}
        /\ snapshot' \in [layout : Layouts, max : BlockSizes \cup {0}]
        /\ active_max_frames_count' \in BlockSizes \cup {0}
    BY DEF TypeOK, Calls
  <2>3. /\ runtime' \in BOOLEAN /\ core' \in BOOLEAN /\ host_extensions_initialized' \in BOOLEAN
        /\ lifecycle_busy' \in BOOLEAN /\ gui_open' \in BOOLEAN /\ freed' \in BOOLEAN
    BY DEF TypeOK
  <2>4. /\ processor_busy' \in BOOLEAN /\ processor_active' \in BOOLEAN
        /\ processor' \in BOOLEAN /\ inactive_processor' \in BOOLEAN /\ layout' \in Layouts
    BY DEF TypeOK
  <2>5. /\ rt_depth' \in [RealtimeCallbacks -> Nat]
        /\ rt_thread' \in [RealtimeCallbacks -> Threads \cup {NoThread}]
    BY DEF TypeOK
  <2> QED BY <2>1, <2>2, <2>3, <2>4, <2>5 DEF TypeOK
<1>2. CallsWellFormed'
  BY DEF CallsWellFormed, PhasesOf, TypeOK, GuiCallbacks, AllCallbacks, RealtimeCallbacks
<1>3. LifecycleExclusive'
  BY DEF LifecycleExclusive, InLifecycle, TypeOK, CallsWellFormed, PhasesOf,
         GuiCallbacks, AllCallbacks, RealtimeCallbacks
<1>4. BorrowExclusive' /\ BorrowHeld'
  BY DEF BorrowExclusive, BorrowHeld, Borrowing, TypeOK, CallsWellFormed, PhasesOf,
         AllCallbacks, GuiCallbacks
<1>5. HeldWhereCarried'
  BY DEF HeldWhereCarried, Carries, TypeOK, CallsWellFormed, PhasesOf, AllCallbacks,
         GuiCallbacks, RealtimeCallbacks
<1>6. DestroyAlone'
  BY DEF DestroyAlone, TypeOK
<1>7. SlotsAgree'
  BY DEF SlotsAgree, TornDown, TypeOK, LifecycleExclusive, InLifecycle,
         HeldWhereCarried, Carries, CallsWellFormed, PhasesOf, AllCallbacks,
         GuiCallbacks, RealtimeCallbacks
<1>8. LayoutKept'
  BY DEF LayoutKept, TypeOK
<1>9. DepthsCount'
  BY DepthsKept DEF RealtimeCallbacks, TypeOK, CallsWellFormed, PhasesOf, AllCallbacks
<1> QED BY <1>1, <1>2, <1>3, <1>4, <1>5, <1>6, <1>7, <1>8, <1>9 DEF IInv

\* The steps of plugin.init, and the drop of the box.
LEMMA CreationInv ==
  ASSUME IInv, NEW c \in Calls,
         Create(c) \/ Publish(c) \/ Expose(c) \/ Free(c)
  PROVE  IInv'
<1> USE DEF Create, Publish, Expose, Free, At, Goto, Own, IInv, frozen, lifeVars,
            procVars, prodVars, rtVars, guiVars, NotInitialized, Return
<1>1. TypeOK'
  <2>1. /\ op' \in [Calls -> AllCallbacks \cup {"none"}] /\ phase' \in [Calls -> Phases]
        /\ held' \in [Calls -> {"none", "inactive", "active"}]
        /\ block' \in [Calls -> BlockSizes \cup {0}]
    BY DEF TypeOK, Phases, CallsWellFormed, PhasesOf, AllCallbacks, GuiCallbacks,
           RealtimeCallbacks
  <2>2. /\ core_owner' \in Calls \cup {NoCall} /\ gui_owner' \in Calls \cup {NoCall}
        /\ lifecycle_thread' \in Threads \cup {NoThread}
        /\ gui_thread' \in Threads \cup {NoThread}
        /\ snapshot' \in [layout : Layouts, max : BlockSizes \cup {0}]
        /\ active_max_frames_count' \in BlockSizes \cup {0}
    BY DEF TypeOK, Calls
  <2>3. /\ runtime' \in BOOLEAN /\ core' \in BOOLEAN /\ host_extensions_initialized' \in BOOLEAN
        /\ lifecycle_busy' \in BOOLEAN /\ gui_open' \in BOOLEAN /\ freed' \in BOOLEAN
    BY DEF TypeOK
  <2>4. /\ processor_busy' \in BOOLEAN /\ processor_active' \in BOOLEAN
        /\ processor' \in BOOLEAN /\ inactive_processor' \in BOOLEAN /\ layout' \in Layouts
    BY DEF TypeOK
  <2>5. /\ rt_depth' \in [RealtimeCallbacks -> Nat]
        /\ rt_thread' \in [RealtimeCallbacks -> Threads \cup {NoThread}]
    BY DEF TypeOK
  <2> QED BY <2>1, <2>2, <2>3, <2>4, <2>5 DEF TypeOK
<1>2. CallsWellFormed'
  BY DEF CallsWellFormed, PhasesOf, TypeOK, GuiCallbacks, AllCallbacks, RealtimeCallbacks
<1>3. LifecycleExclusive'
  BY DEF LifecycleExclusive, InLifecycle, TypeOK, CallsWellFormed, PhasesOf,
         GuiCallbacks, AllCallbacks, RealtimeCallbacks
<1>4. BorrowExclusive' /\ BorrowHeld'
  BY DEF BorrowExclusive, BorrowHeld, Borrowing, TypeOK, CallsWellFormed, PhasesOf,
         AllCallbacks, GuiCallbacks
<1>5. HeldWhereCarried'
  BY DEF HeldWhereCarried, Carries, TypeOK, CallsWellFormed, PhasesOf, AllCallbacks,
         GuiCallbacks, RealtimeCallbacks
<1>6. DestroyAlone'
  BY DEF DestroyAlone, TypeOK
<1>7. SlotsAgree'
  BY DEF SlotsAgree, TornDown, TypeOK, LifecycleExclusive, InLifecycle,
         HeldWhereCarried, Carries, CallsWellFormed, PhasesOf, AllCallbacks,
         GuiCallbacks, RealtimeCallbacks
<1>8. LayoutKept'
  BY DEF LayoutKept, TypeOK
<1>9. DepthsCount'
  BY DepthsKept DEF RealtimeCallbacks, TypeOK, CallsWellFormed, PhasesOf, AllCallbacks
<1> QED BY <1>1, <1>2, <1>3, <1>4, <1>5, <1>6, <1>7, <1>8, <1>9 DEF IInv

\* A GUI callback tries to enter.
LEMMA GuiEntryInv ==
  ASSUME IInv, NEW c \in Calls,
         EnterGui(c)
  PROVE  IInv'
<1> USE DEF EnterGui, At, Goto, Own, IInv, frozen, lifeVars, procVars, prodVars, rtVars,
            guiVars, GuiAdmits, AfterGui, Return
<1>1. TypeOK'
  <2>1. /\ op' \in [Calls -> AllCallbacks \cup {"none"}] /\ phase' \in [Calls -> Phases]
        /\ held' \in [Calls -> {"none", "inactive", "active"}]
        /\ block' \in [Calls -> BlockSizes \cup {0}]
    BY DEF TypeOK, Phases, CallsWellFormed, PhasesOf, AllCallbacks, GuiCallbacks,
           RealtimeCallbacks
  <2>2. /\ core_owner' \in Calls \cup {NoCall} /\ gui_owner' \in Calls \cup {NoCall}
        /\ lifecycle_thread' \in Threads \cup {NoThread}
        /\ gui_thread' \in Threads \cup {NoThread}
        /\ snapshot' \in [layout : Layouts, max : BlockSizes \cup {0}]
        /\ active_max_frames_count' \in BlockSizes \cup {0}
    BY DEF TypeOK, Calls
  <2>3. /\ runtime' \in BOOLEAN /\ core' \in BOOLEAN /\ host_extensions_initialized' \in BOOLEAN
        /\ lifecycle_busy' \in BOOLEAN /\ gui_open' \in BOOLEAN /\ freed' \in BOOLEAN
    BY DEF TypeOK
  <2>4. /\ processor_busy' \in BOOLEAN /\ processor_active' \in BOOLEAN
        /\ processor' \in BOOLEAN /\ inactive_processor' \in BOOLEAN /\ layout' \in Layouts
    BY DEF TypeOK
  <2>5. /\ rt_depth' \in [RealtimeCallbacks -> Nat]
        /\ rt_thread' \in [RealtimeCallbacks -> Threads \cup {NoThread}]
    BY DEF TypeOK
  <2> QED BY <2>1, <2>2, <2>3, <2>4, <2>5 DEF TypeOK
<1>2. CallsWellFormed'
  BY DEF CallsWellFormed, PhasesOf, TypeOK, GuiCallbacks, AllCallbacks, RealtimeCallbacks
<1>3. LifecycleExclusive'
  BY DEF LifecycleExclusive, InLifecycle, TypeOK, CallsWellFormed, PhasesOf,
         GuiCallbacks, AllCallbacks, RealtimeCallbacks
<1>4. BorrowExclusive' /\ BorrowHeld'
  BY DEF BorrowExclusive, BorrowHeld, Borrowing, TypeOK, CallsWellFormed, PhasesOf,
         AllCallbacks, GuiCallbacks
<1>5. HeldWhereCarried'
  BY DEF HeldWhereCarried, Carries, TypeOK, CallsWellFormed, PhasesOf, AllCallbacks,
         GuiCallbacks, RealtimeCallbacks
<1>6. DestroyAlone'
  BY DEF DestroyAlone, TypeOK
<1>7. SlotsAgree'
  BY DEF SlotsAgree, TornDown, TypeOK, LifecycleExclusive, InLifecycle,
         HeldWhereCarried, Carries, CallsWellFormed, PhasesOf, AllCallbacks,
         GuiCallbacks, RealtimeCallbacks
<1>8. LayoutKept'
  BY DEF LayoutKept, TypeOK
<1>9. DepthsCount'
  BY DepthsKept DEF RealtimeCallbacks, TypeOK, CallsWellFormed, PhasesOf, AllCallbacks
<1> QED BY <1>1, <1>2, <1>3, <1>4, <1>5, <1>6, <1>7, <1>8, <1>9 DEF IInv

\* A GUI callback of the product runs.
LEMMA GuiCallInv ==
  ASSUME IInv, NEW c \in Calls,
         GuiRun(c)
  PROVE  IInv'
<1> USE DEF GuiRun, At, Goto, Own, IInv, frozen, lifeVars, procVars, prodVars, rtVars,
            guiVars, AfterGui, Return
<1>1. TypeOK'
  <2>1. /\ op' \in [Calls -> AllCallbacks \cup {"none"}] /\ phase' \in [Calls -> Phases]
        /\ held' \in [Calls -> {"none", "inactive", "active"}]
        /\ block' \in [Calls -> BlockSizes \cup {0}]
    BY DEF TypeOK, Phases, CallsWellFormed, PhasesOf, AllCallbacks, GuiCallbacks,
           RealtimeCallbacks
  <2>2. /\ core_owner' \in Calls \cup {NoCall} /\ gui_owner' \in Calls \cup {NoCall}
        /\ lifecycle_thread' \in Threads \cup {NoThread}
        /\ gui_thread' \in Threads \cup {NoThread}
        /\ snapshot' \in [layout : Layouts, max : BlockSizes \cup {0}]
        /\ active_max_frames_count' \in BlockSizes \cup {0}
    BY DEF TypeOK, Calls
  <2>3. /\ runtime' \in BOOLEAN /\ core' \in BOOLEAN /\ host_extensions_initialized' \in BOOLEAN
        /\ lifecycle_busy' \in BOOLEAN /\ gui_open' \in BOOLEAN /\ freed' \in BOOLEAN
    BY DEF TypeOK
  <2>4. /\ processor_busy' \in BOOLEAN /\ processor_active' \in BOOLEAN
        /\ processor' \in BOOLEAN /\ inactive_processor' \in BOOLEAN /\ layout' \in Layouts
    BY DEF TypeOK
  <2>5. /\ rt_depth' \in [RealtimeCallbacks -> Nat]
        /\ rt_thread' \in [RealtimeCallbacks -> Threads \cup {NoThread}]
    BY DEF TypeOK
  <2> QED BY <2>1, <2>2, <2>3, <2>4, <2>5 DEF TypeOK
<1>2. CallsWellFormed'
  BY DEF CallsWellFormed, PhasesOf, TypeOK, GuiCallbacks, AllCallbacks, RealtimeCallbacks
<1>3. LifecycleExclusive'
  BY DEF LifecycleExclusive, InLifecycle, TypeOK, CallsWellFormed, PhasesOf,
         GuiCallbacks, AllCallbacks, RealtimeCallbacks
<1>4. BorrowExclusive' /\ BorrowHeld'
  BY DEF BorrowExclusive, BorrowHeld, Borrowing, TypeOK, CallsWellFormed, PhasesOf,
         AllCallbacks, GuiCallbacks
<1>5. HeldWhereCarried'
  BY DEF HeldWhereCarried, Carries, TypeOK, CallsWellFormed, PhasesOf, AllCallbacks,
         GuiCallbacks, RealtimeCallbacks
<1>6. DestroyAlone'
  BY DEF DestroyAlone, TypeOK
<1>7. SlotsAgree'
  BY DEF SlotsAgree, TornDown, TypeOK, LifecycleExclusive, InLifecycle,
         HeldWhereCarried, Carries, CallsWellFormed, PhasesOf, AllCallbacks,
         GuiCallbacks, RealtimeCallbacks
<1>8. LayoutKept'
  BY DEF LayoutKept, TypeOK
<1>9. DepthsCount'
  BY DepthsKept DEF RealtimeCallbacks, TypeOK, CallsWellFormed, PhasesOf, AllCallbacks
<1> QED BY <1>1, <1>2, <1>3, <1>4, <1>5, <1>6, <1>7, <1>8, <1>9 DEF IInv

\* apply_configuration changes the layout.
LEMMA ConfigurationInv ==
  ASSUME IInv, NEW c \in Calls,
         ApplyConfiguration(c)
  PROVE  IInv'
<1> USE DEF ApplyConfiguration, At, Goto, Own, IInv, frozen, lifeVars, procVars,
            prodVars, rtVars, guiVars
<1>1. TypeOK'
  <2>1. /\ op' \in [Calls -> AllCallbacks \cup {"none"}] /\ phase' \in [Calls -> Phases]
        /\ held' \in [Calls -> {"none", "inactive", "active"}]
        /\ block' \in [Calls -> BlockSizes \cup {0}]
    BY DEF TypeOK, Phases, CallsWellFormed, PhasesOf, AllCallbacks, GuiCallbacks,
           RealtimeCallbacks
  <2>2. /\ core_owner' \in Calls \cup {NoCall} /\ gui_owner' \in Calls \cup {NoCall}
        /\ lifecycle_thread' \in Threads \cup {NoThread}
        /\ gui_thread' \in Threads \cup {NoThread}
        /\ snapshot' \in [layout : Layouts, max : BlockSizes \cup {0}]
        /\ active_max_frames_count' \in BlockSizes \cup {0}
    BY DEF TypeOK, Calls
  <2>3. /\ runtime' \in BOOLEAN /\ core' \in BOOLEAN /\ host_extensions_initialized' \in BOOLEAN
        /\ lifecycle_busy' \in BOOLEAN /\ gui_open' \in BOOLEAN /\ freed' \in BOOLEAN
    BY DEF TypeOK
  <2>4. /\ processor_busy' \in BOOLEAN /\ processor_active' \in BOOLEAN
        /\ processor' \in BOOLEAN /\ inactive_processor' \in BOOLEAN /\ layout' \in Layouts
    BY DEF TypeOK
  <2>5. /\ rt_depth' \in [RealtimeCallbacks -> Nat]
        /\ rt_thread' \in [RealtimeCallbacks -> Threads \cup {NoThread}]
    BY DEF TypeOK
  <2> QED BY <2>1, <2>2, <2>3, <2>4, <2>5 DEF TypeOK
<1>2. CallsWellFormed'
  BY DEF CallsWellFormed, PhasesOf, TypeOK, GuiCallbacks, AllCallbacks, RealtimeCallbacks
<1>3. LifecycleExclusive'
  BY DEF LifecycleExclusive, InLifecycle, TypeOK, CallsWellFormed, PhasesOf,
         GuiCallbacks, AllCallbacks, RealtimeCallbacks
<1>4. BorrowExclusive' /\ BorrowHeld'
  BY DEF BorrowExclusive, BorrowHeld, Borrowing, TypeOK, CallsWellFormed, PhasesOf,
         AllCallbacks, GuiCallbacks
<1>5. HeldWhereCarried'
  BY DEF HeldWhereCarried, Carries, TypeOK, CallsWellFormed, PhasesOf, AllCallbacks,
         GuiCallbacks, RealtimeCallbacks
<1>6. DestroyAlone'
  BY DEF DestroyAlone, TypeOK
<1>7. SlotsAgree'
  BY DEF SlotsAgree, TornDown, TypeOK, LifecycleExclusive, InLifecycle,
         HeldWhereCarried, Carries, CallsWellFormed, PhasesOf, AllCallbacks,
         GuiCallbacks, RealtimeCallbacks
<1>8. LayoutKept'
  BY DEF LayoutKept, TypeOK, SlotsAgree, HeldWhereCarried, Carries, LifecycleExclusive,
         InLifecycle,
         CallsWellFormed, PhasesOf, GuiCallbacks, AllCallbacks, RealtimeCallbacks
<1>9. DepthsCount'
  BY DepthsKept DEF RealtimeCallbacks, TypeOK, CallsWellFormed, PhasesOf, AllCallbacks
<1> QED BY <1>1, <1>2, <1>3, <1>4, <1>5, <1>6, <1>7, <1>8, <1>9 DEF IInv

\* RtDepthGuard::drop.
LEMMA ExitInv ==
  ASSUME IInv, NEW c \in Calls,
         End(c)
  PROVE  IInv'
<1> USE DEF End, At, Goto, Own, IInv, frozen, lifeVars, procVars, prodVars, rtVars,
            guiVars, Return, LastExit
<1>1. TypeOK'
  <2>1. /\ op' \in [Calls -> AllCallbacks \cup {"none"}] /\ phase' \in [Calls -> Phases]
        /\ held' \in [Calls -> {"none", "inactive", "active"}]
        /\ block' \in [Calls -> BlockSizes \cup {0}]
    BY DEF TypeOK, Phases, CallsWellFormed, PhasesOf, AllCallbacks, GuiCallbacks,
           RealtimeCallbacks
  <2>2. /\ core_owner' \in Calls \cup {NoCall} /\ gui_owner' \in Calls \cup {NoCall}
        /\ lifecycle_thread' \in Threads \cup {NoThread}
        /\ gui_thread' \in Threads \cup {NoThread}
        /\ snapshot' \in [layout : Layouts, max : BlockSizes \cup {0}]
        /\ active_max_frames_count' \in BlockSizes \cup {0}
    BY DEF TypeOK, Calls
  <2>3. /\ runtime' \in BOOLEAN /\ core' \in BOOLEAN /\ host_extensions_initialized' \in BOOLEAN
        /\ lifecycle_busy' \in BOOLEAN /\ gui_open' \in BOOLEAN /\ freed' \in BOOLEAN
    BY DEF TypeOK
  <2>4. /\ processor_busy' \in BOOLEAN /\ processor_active' \in BOOLEAN
        /\ processor' \in BOOLEAN /\ inactive_processor' \in BOOLEAN /\ layout' \in Layouts
    BY DEF TypeOK
  <2>5. /\ rt_depth' \in [RealtimeCallbacks -> Nat]
    BY DepthPositive DEF TypeOK, CallsWellFormed, PhasesOf, AllCallbacks,
              RealtimeCallbacks, GuiCallbacks
  <2> QED BY <2>1, <2>2, <2>3, <2>4, <2>5 DEF TypeOK
<1>2. CallsWellFormed'
  BY DEF CallsWellFormed, PhasesOf, TypeOK, GuiCallbacks, AllCallbacks, RealtimeCallbacks
<1>3. LifecycleExclusive'
  BY DEF LifecycleExclusive, InLifecycle, TypeOK, CallsWellFormed, PhasesOf,
         GuiCallbacks, AllCallbacks, RealtimeCallbacks
<1>4. BorrowExclusive' /\ BorrowHeld'
  BY DEF BorrowExclusive, BorrowHeld, Borrowing, TypeOK, CallsWellFormed, PhasesOf,
         AllCallbacks, GuiCallbacks
<1>5. HeldWhereCarried'
  BY DEF HeldWhereCarried, Carries, TypeOK, CallsWellFormed, PhasesOf, AllCallbacks,
         GuiCallbacks, RealtimeCallbacks
<1>6. DestroyAlone'
  BY DEF DestroyAlone, TypeOK
<1>7. SlotsAgree'
  BY DEF SlotsAgree, TornDown, TypeOK, LifecycleExclusive, InLifecycle,
         HeldWhereCarried, Carries, CallsWellFormed, PhasesOf, AllCallbacks,
         GuiCallbacks, RealtimeCallbacks
<1>8. LayoutKept'
  BY DEF LayoutKept, TypeOK
<1>9. DepthsCount'
  <2> DEFINE Inside(o) == {d \in Calls : op[d] = o}
  <2>1. PICK o \in RealtimeCallbacks : op[c] = o /\ o # "none"
    BY DEF CallsWellFormed, PhasesOf, TypeOK, AllCallbacks, GuiCallbacks, RealtimeCallbacks
  <2>2. {d \in Calls : op'[d] = o} = Inside(o) \ {c}
    BY <2>1 DEF TypeOK
  <2>3. Cardinality(Inside(o) \ {c}) = Cardinality(Inside(o)) - 1
    BY <2>1, CallsFinite, FS_Subset, FS_RemoveElement
  <2>4. rt_depth'[o] = rt_depth[o] - 1
    BY <2>1 DEF TypeOK
  <2>5. \A p \in RealtimeCallbacks : p # o =>
          rt_depth'[p] = rt_depth[p] /\ {d \in Calls : op'[d] = p} = Inside(p)
    BY <2>1 DEF TypeOK, RealtimeCallbacks
  <2> QED BY <2>2, <2>3, <2>4, <2>5 DEF DepthsCount
<1> QED BY <1>1, <1>2, <1>3, <1>4, <1>5, <1>6, <1>7, <1>8, <1>9 DEF IInv

\* The host starts a callback on top of one thread's stack.
LEMMA StartInv ==
  ASSUME IInv, NEW c \in Calls, NEW o \in AllCallbacks, Start(c, o), ~ freed
  PROVE  IInv'
<1> USE DEF Start, IInv, frozen, lifeVars, procVars, prodVars, rtVars, guiVars, First,
            EnterRealtime
<1>1. op[c] = "none" /\ phase[c] = "idle" /\ ~ InFlight({"destroy"})
  BY DEF HostAllows, CallsWellFormed, PhasesOf
<1>2. o = "destroy" => ~ InFlight(AllCallbacks \ (AudioCallbacks \cup GuiCallbacks))
  BY DEF HostAllows
<1>3. First(o) \in PhasesOf(o) \cap {"enter", "borrow", "lock", "gui"} /\ (First(o) = "lock" <=> o = "on_main_thread")
      /\ (First(o) = "gui" <=> o \in GuiCallbacks)
  BY DEF PhasesOf, AllCallbacks, LifecycleCallbacks, AudioCallbacks, GuiCallbacks
<1>4. TypeOK'
  <2>1. /\ op' \in [Calls -> AllCallbacks \cup {"none"}] /\ phase' \in [Calls -> Phases]
        /\ block' \in [Calls -> BlockSizes \cup {0}]
    BY <1>3 DEF TypeOK, Phases
  <2>2. /\ rt_depth' \in [RealtimeCallbacks -> Nat]
        /\ rt_thread' \in [RealtimeCallbacks -> Threads \cup {NoThread}]
    <3>1. c[1] \in Threads
      BY DEF Calls
    <3>2. CASE o \notin RealtimeCallbacks
      BY <3>2 DEF TypeOK
    <3>3. CASE o \in RealtimeCallbacks
      BY <3>1, <3>3 DEF TypeOK
    <3> QED BY <3>2, <3>3
  <2>3. UNCHANGED <<held, runtime, core, host_extensions_initialized, lifecycle_busy,
  lifecycle_thread,
                    core_owner, processor_busy, processor_active, processor,
              inactive_processor>>
    OBVIOUS
  <2>4. UNCHANGED <<active_max_frames_count, layout, snapshot, gui_owner, gui_thread,
  gui_open, freed>>
    OBVIOUS
  <2> HIDE DEF Start
  <2> QED BY <2>1, <2>2, <2>3, <2>4 DEF TypeOK
<1>5. CallsWellFormed'
  BY <1>3 DEF CallsWellFormed, TypeOK
<1>6. LifecycleExclusive'
  <2>1. op'[c] = o /\ phase'[c] = First(o)
    BY DEF TypeOK
  <2>2. ~ InLifecycle(c)'
    BY <1>3, <2>1 DEF InLifecycle
  <2>3. \A d \in Calls : d # c => (InLifecycle(d)' <=> InLifecycle(d))
    BY DEF InLifecycle, TypeOK
  <2>4. UNCHANGED lifecycle_busy
    OBVIOUS
  <2> QED BY <2>2, <2>3, <2>4 DEF LifecycleExclusive
<1>7. BorrowExclusive' /\ BorrowHeld'
  BY ZenonT(60), <1>3 DEF BorrowExclusive, BorrowHeld, Borrowing, TypeOK
<1>8. HeldWhereCarried'
  BY ZenonT(60), <1>1, <1>3 DEF HeldWhereCarried, Carries, TypeOK
<1>9. DestroyAlone'
  <2>1. ASSUME NEW d \in Calls, NEW e \in Calls, op'[d] = "destroy", d # e
        PROVE  op'[e] \in AudioCallbacks \cup GuiCallbacks \cup {"none"}
    <3>1. CASE d = c
      BY <1>2, <2>1, <3>1 DEF InFlight, TypeOK
    <3>2. CASE d # c
      BY <1>1, <2>1, <3>2 DEF InFlight, TypeOK
    <3> QED BY <3>1, <3>2
  <2> QED BY <2>1 DEF DestroyAlone
<1>10. SlotsAgree'
  BY <1>1, <1>3 DEF SlotsAgree, TornDown, At, TypeOK
<1>11. LayoutKept'
  BY DEF LayoutKept
<1>12. DepthsCount'
  <2>1. CASE o \notin RealtimeCallbacks
    BY <1>1, <2>1, DepthsKept DEF TypeOK, RealtimeCallbacks
  <2>2. CASE o \in RealtimeCallbacks
    <3> DEFINE Inside(p) == {d \in Calls : op[d] = p}
    <3>1. IsFiniteSet(Inside(o)) /\ c \notin Inside(o)
      BY <1>1, <2>2, CallsFinite, FS_Subset DEF RealtimeCallbacks
    <3>2. {d \in Calls : op'[d] = o} = Inside(o) \cup {c}
      BY DEF TypeOK
    <3>3. Cardinality(Inside(o) \cup {c}) = Cardinality(Inside(o)) + 1
      BY <3>1, FS_AddElement
    <3>4. rt_depth'[o] = rt_depth[o] + 1
      BY <2>2 DEF TypeOK
    <3>5. \A p \in RealtimeCallbacks : p # o =>
            rt_depth'[p] = rt_depth[p] /\ {d \in Calls : op'[d] = p} = Inside(p)
      BY <1>1, <2>2 DEF TypeOK, RealtimeCallbacks
    <3> QED BY <2>2, <3>2, <3>3, <3>4, <3>5 DEF DepthsCount
  <2> QED BY <2>1, <2>2
<1> QED BY <1>4, <1>5, <1>6, <1>7, <1>8, <1>9, <1>10, <1>11, <1>12

\* The ABI shell satisfies the invariant.
LEMMA InitInv == Init => IInv
<1> SUFFICES ASSUME Init PROVE IInv
  OBVIOUS
<1> USE DEF Init
<1>1. TypeOK
  BY DEF TypeOK, Phases, Calls, RealtimeCallbacks
<1>2. CallsWellFormed /\ LifecycleExclusive /\ BorrowExclusive /\ BorrowHeld
  BY DEF CallsWellFormed, PhasesOf, LifecycleExclusive, InLifecycle, BorrowExclusive,
         BorrowHeld, Borrowing
<1>3. HeldWhereCarried /\ DestroyAlone /\ SlotsAgree /\ LayoutKept
  BY DEF HeldWhereCarried, Carries, DestroyAlone, SlotsAgree, TornDown, At, LayoutKept
<1>4. DepthsCount
  <2>1. ASSUME NEW o \in RealtimeCallbacks
        PROVE  {c \in Calls : op[c] = o} = {}
    BY <2>1 DEF RealtimeCallbacks
  <2> QED BY <2>1, FS_EmptySet DEF DepthsCount
<1> QED BY <1>1, <1>2, <1>3, <1>4 DEF IInv

\* Every step keeps the invariant.
LEMMA NextInv == IInv /\ [Next]_vars => IInv'
<1> SUFFICES ASSUME IInv, [Next]_vars PROVE IInv'
  OBVIOUS
<1>1. CASE UNCHANGED vars
  BY <1>1 DEF IInv, vars, callVars, frozen, lifeVars, procVars, prodVars, rtVars,
              guiVars, TypeOK, CallsWellFormed,
     LifecycleExclusive, InLifecycle, BorrowExclusive, BorrowHeld, HeldWhereCarried,
     Carries, DestroyAlone, SlotsAgree,
     TornDown, At, LayoutKept, DepthsCount
<1>2. ASSUME ~ freed, NEW c \in Calls, Step(c) PROVE IInv'
  BY <1>2, LifecycleInv, AttemptInv, SlotInv, ParkInv, InstallInv, ProductInv, CoreInv,
  CreationInv,
     GuiEntryInv, GuiCallInv, ConfigurationInv, ExitInv DEF Step
<1>3. ASSUME ~ freed, NEW c \in Calls, NEW o \in AllCallbacks, Start(c, o) PROVE IInv'
  BY <1>3, StartInv
<1> QED BY <1>1, <1>2, <1>3 DEF Next, Freed

\* The invariant holds in every reachable state, for any set of host threads,
\* any nesting and any host within HostAllows.
THEOREM InductiveInvariant == Spec => []IInv
  BY InitInv, NextInv, PTL DEF Spec

\* Every variable keeps its type; in particular no depth counter goes negative.
THEOREM TypeCorrect == Spec => []TypeOK
<1>1. IInv => TypeOK
  BY DEF IInv
<1> QED BY <1>1, InductiveInvariant, PTL

\* No two callbacks hold a &mut to a processor slot at once: the exchange on
\* processor_busy in with_processor_mut and its siblings is enough.
THEOREM BorrowIsExclusive == Spec => []BorrowExclusive
<1>1. IInv => BorrowExclusive
  BY DEF IInv
<1> QED BY <1>1, InductiveInvariant, PTL

\* activate, deactivate, init and destroy never make a second processor appear in
\* a slot or in a Box, however the host interleaves and nests them.
THEOREM ProcessorIsOne == Spec => []OneProcessor
<1>1. IInv => OneProcessor
  BY CarrierAlone DEF IInv, SlotsAgree, OneProcessor
<1> QED BY <1>1, InductiveInvariant, PTL

\* params.flush in the inactive branch has no active processor beside it.
THEOREM IdleFlushBypasses == Spec => []IdleFlushBypassesNothing
<1>1. ASSUME IInv, NEW c \in Calls, phase[c] = "usingIdle"
      PROVE  ~ processor /\ \A d \in Calls : held[d] = "none"
  <2>1. ~ processor /\ op[c] = "flush" /\ held[c] = "none"
    BY <1>1 DEF IInv, SlotsAgree, CallsWellFormed, PhasesOf, HeldWhereCarried, Carries,
              TypeOK, AllCallbacks, GuiCallbacks
  <2>2. ASSUME NEW d \in Calls, held[d] # "none" PROVE FALSE
    <3>1. d # c
      BY <2>1, <2>2
    <3> QED BY <1>1, <2>2, <3>1, CarrierAlone
  <2> QED BY <2>1, <2>2
<1>2. IInv => IdleFlushBypassesNothing
  BY <1>1 DEF IdleFlushBypassesNothing
<1> QED BY <1>2, InductiveInvariant, PTL

\* apply_configuration never changes the layout under an ActiveProcessor.
THEOREM LayoutIsStable == Spec => []LayoutStable
<1>1. IInv => LayoutStable
  BY DEF IInv, LayoutKept, LayoutStable
<1> QED BY <1>1, InductiveInvariant, PTL

\* plugin.destroy drops the box only after the processor is gone.
THEOREM FreedWithoutBorrow == Spec => []NoBorrowWhenFreed
<1>1. IInv => NoBorrowWhenFreed
  BY DEF IInv, SlotsAgree, NoBorrowWhenFreed
<1> QED BY <1>1, InductiveInvariant, PTL

(* The guards implement ProcessorOwnership. *)

\* Steps that leave the slots, the Boxes and the product's borrows leave the place.
LEMMA PlaceKept ==
  ASSUME UNCHANGED <<held, processor, inactive_processor>>,
         \A d \in Calls : /\ phase'[d] = "using" <=> phase[d] = "using"
                          /\ phase'[d] = "usingIdle" <=> phase[d] = "usingIdle"
  PROVE  Place' = Place
  BY DEF Place

\* Where the processor is, told from what one call knows.
PlaceTold ==
  \A c \in Calls :
    /\ held[c] # "none" => Place = "moving"
    /\ phase[c] \in Borrowing /\ processor =>
         Place = IF phase[c] = "using" THEN "lentInstalled" ELSE "installed"
    /\ phase[c] \in Borrowing /\ inactive_processor =>
         Place = IF phase[c] = "usingIdle" THEN "lentParked" ELSE "parked"
    /\ ~ processor_busy /\ processor => Place = "installed"
    /\ ~ processor_busy /\ inactive_processor => Place = "parked"

LEMMA PlaceKnown == IInv => PlaceTold
<1> SUFFICES ASSUME IInv PROVE PlaceTold
  OBVIOUS
<1>1. processor \/ inactive_processor => \A d \in Calls : held[d] = "none"
  BY CarrierAlone
<1>2. ~ (processor /\ inactive_processor)
  BY DEF IInv, SlotsAgree
<1>3. \A c, d \in Calls : phase[d] \in Borrowing => processor_busy /\ (phase[c] \in Borrowing => d = c)
  BY DEF IInv, BorrowExclusive, BorrowHeld
<1> QED BY <1>1, <1>2, <1>3 DEF Place, PlaceTold, Borrowing

\* Nobody but c, which carries nothing, is at work on an unborrowed processor.
LEMMA PlaceInLifecycle ==
  ASSUME IInv, NEW c \in Calls, InLifecycle(c), held[c] = "none", ~ processor,
         phase[c] # "usingIdle"
  PROVE  Place = IF inactive_processor THEN "parked" ELSE "nowhere"
<1>1. \A d \in Calls : d # c => ~ InLifecycle(d)
  BY DEF IInv, LifecycleExclusive
<1>2. \A d \in Calls : held[d] = "none" /\ phase[d] # "usingIdle"
  BY <1>1 DEF IInv, HeldWhereCarried, Carries, InLifecycle, CallsWellFormed, PhasesOf,
         GuiCallbacks, AllCallbacks, TypeOK
<1> QED BY <1>2 DEF Place

\* Every step of a callback is a step of ProcessorOwnership or invisible there.
LEMMA StepImplements ==
  ASSUME IInv, ~ freed, NEW c \in Calls, Step(c)
  PROVE  Ownership!Next \/ UNCHANGED <<Place, layout, ~ freed>>
<1>0. IInv'
  BY NextInv DEF Next
<1>a. PlaceTold /\ PlaceTold'
  BY <1>0, PlaceKnown, PTL
<1> USE DEF Ownership!Next, Ownership!Move, At, Goto, Own, Return, GiveUp, frozen,
            lifeVars, procVars,
        prodVars, rtVars, guiVars
<1>1. CASE EnterLifecycle(c) \/ Leave(c) \/ Probing(c) \/ Recheck(c) \/ End(c) \/ LockCore(c)
           \/ Publish(c) \/ Expose(c)
  <2>1. UNCHANGED <<held, processor, inactive_processor, layout, freed>>
    BY <1>1 DEF EnterLifecycle, Leave, Probing, Recheck, End, LockCore, Publish, Expose
  <2>2. \A d \in Calls : /\ phase'[d] = "using" <=> phase[d] = "using"
                         /\ phase'[d] = "usingIdle" <=> phase[d] = "usingIdle"
    BY <1>1 DEF IInv, TypeOK, CallsWellFormed, PhasesOf, AllCallbacks, GuiCallbacks,
              RealtimeCallbacks, EnterLifecycle, AfterEnter, Leave, Probing, Recheck,
              End, LockCore, Publish, Expose
  <2> QED BY <2>1, <2>2, PlaceKept
<1>2. CASE HostReturns(c) \/ StoreMaximum(c) \/ CoreOnMainThread(c) \/ Restore(c) \/ Silence(c)
           \/ Final(c) \/ EnterGui(c) \/ GuiRun(c)
  <2>1. UNCHANGED <<held, processor, inactive_processor, layout, freed>>
    BY <1>2 DEF HostReturns, StoreMaximum, CoreOnMainThread, Restore, Silence, Final,
              EnterGui, GuiRun
  <2>2. \A d \in Calls : /\ phase'[d] = "using" <=> phase[d] = "using"
                         /\ phase'[d] = "usingIdle" <=> phase[d] = "usingIdle"
    BY ZenonT(60), <1>2
       DEF IInv, TypeOK, HostReturns, StoreMaximum, CoreOnMainThread, Restore, Silence,
           Final, EnterGui, AfterGui, GuiRun
  <2> QED BY <2>1, <2>2, PlaceKept
<1>3. CASE Borrow(c)
  <2>1. UNCHANGED <<held, processor, inactive_processor, layout, freed>>
    BY <1>3 DEF Borrow
  <2>2. \A d \in Calls : d # c => phase'[d] = phase[d]
    BY <1>3 DEF Borrow, Refused, IInv, TypeOK
  <2>3. phase[c] \notin {"using", "usingIdle"}
    BY <1>3 DEF Borrow, TryPhases, WaitPhases
  <2>4. CASE phase'[c] \notin {"using", "usingIdle"}
    BY <2>1, <2>2, <2>3, <2>4, PlaceKept
  <2>5. CASE phase'[c] \in {"using", "usingIdle"}
    <3>1. ~ processor_busy /\ phase[c] \in {"borrow", "borrowIdle"}
          /\ (phase'[c] = "usingIdle" <=> phase[c] = "borrowIdle")
      BY <1>3, <2>5 DEF Borrow, BorrowFree, Borrowed, TryPhases, WaitPhases, Refused,
              IInv, TypeOK
    <3>2. phase[c] = "borrowIdle" => ~ processor
      BY DEF IInv, SlotsAgree
    <3>3. CASE processor
      <4>1. Place = "installed" /\ Place' = "lentInstalled"
        BY <2>1, <2>5, <3>1, <3>2, <3>3, <1>a DEF Borrowing, PlaceTold
      <4> QED BY <2>1, <4>1 DEF Ownership!Lend
    <3>4. CASE phase'[c] = "usingIdle" /\ inactive_processor
      <4>1. Place = "parked" /\ Place' = "lentParked"
        BY <2>1, <3>1, <3>4, <1>a DEF Borrowing, PlaceTold
      <4> QED BY <2>1, <4>1 DEF Ownership!Lend
    <3>5. CASE ~ processor /\ ~ (phase'[c] = "usingIdle" /\ inactive_processor)
      <4>1. inactive_processor => \A d \in Calls : phase'[d] = "usingIdle" <=> phase[d] = "usingIdle"
        BY <2>2, <2>3, <3>5
      <4> QED BY <2>1, <3>5, <4>1 DEF Place
    <3> QED BY <3>3, <3>4, <3>5
  <2> QED BY <2>4, <2>5
<1>4. CASE Using(c) \/ UsingIdle(c)
  <2>1. UNCHANGED <<held, processor, inactive_processor, layout, freed>> /\ ~ processor_busy'
    BY <1>4 DEF Using, UsingIdle
  <2>2. phase[c] \in {"using", "usingIdle"} /\ (phase[c] = "usingIdle" => ~ processor)
    BY <1>4 DEF Using, UsingIdle, IInv, SlotsAgree
  <2>3. CASE processor
    <3>1. Place = "lentInstalled" /\ Place' = "installed"
      BY <2>1, <2>2, <2>3, <1>a DEF Borrowing, PlaceTold
    <3> QED BY <2>1, <3>1 DEF Ownership!GiveBack
  <2>4. CASE inactive_processor /\ phase[c] = "usingIdle"
    <3>1. Place = "lentParked" /\ Place' = "parked"
      BY <2>1, <2>4, <1>a DEF Borrowing, PlaceTold
    <3> QED BY <2>1, <3>1 DEF Ownership!GiveBack
  <2>5. CASE ~ processor /\ ~ (inactive_processor /\ phase[c] = "usingIdle")
    <3>1. CASE inactive_processor
      <4>1. Place = "parked" /\ Place' = "parked"
        BY <2>1, <2>2, <2>5, <3>1, <1>a DEF Borrowing, PlaceTold
      <4> QED BY <2>1, <4>1
    <3>2. CASE ~ inactive_processor
      BY <2>1, <2>5, <3>2 DEF Place
    <3> QED BY <3>1, <3>2
  <2> QED BY <2>3, <2>4, <2>5
<1>5. CASE Claiming(c)
  <2>1. InLifecycle(c) /\ held[c] = "none" /\ ~ processor /\ phase[c] # "usingIdle"
    BY <1>5 DEF Claiming, IInv, InLifecycle, HeldWhereCarried, Carries, SlotsAgree,
              CallsWellFormed,
           PhasesOf, GuiCallbacks, AllCallbacks, TypeOK
  <2>2. Place = IF inactive_processor THEN "parked" ELSE "nowhere"
    BY <2>1, PlaceInLifecycle
  <2>3. ~ processor' /\ ~ inactive_processor' /\ UNCHANGED <<layout, freed>>
    BY <1>5, <2>1 DEF Claiming
  <2>4. CASE held'[c] = "none"
    <3>1. UNCHANGED held
      BY <1>5, <2>1, <2>4 DEF Claiming, IInv, TypeOK
    <3>2. \A d \in Calls : held[d] = "none"
      BY <2>1, <2>2 DEF Place
    <3>3. Place' = "nowhere"
      BY <2>3, <3>1, <3>2 DEF Place
    <3> QED BY <2>2, <2>3, <3>3 DEF Ownership!Discard
  <2>5. CASE held'[c] # "none"
    <3>1. inactive_processor
      BY <1>5, <2>1, <2>5 DEF Claiming
    <3>2. Place' = "moving"
      BY <2>5, <1>a DEF PlaceTold
    <3> QED BY <2>2, <2>3, <3>1, <3>2 DEF Ownership!Take
  <2> QED BY <2>4, <2>5
<1>6. CASE Taking(c)
  <2>1. UNCHANGED <<layout, freed, inactive_processor>>
    BY <1>6 DEF Taking
  <2>2. CASE processor
    <3>1. Place = "installed"
      BY <1>6, <2>2, <1>a DEF Taking, Borrowing, PlaceTold
    <3>2. held'[c] = "active"
      BY <1>6, <2>2 DEF Taking, IInv, TypeOK
    <3>3. Place' = "moving"
      BY <3>2, <1>a DEF PlaceTold
    <3> QED BY <2>1, <3>1, <3>3 DEF Ownership!Take
  <2>3. CASE ~ processor
    <3>1. UNCHANGED <<held, processor>>
      BY <1>6, <2>3 DEF Taking
    <3>2. \A d \in Calls : /\ phase'[d] = "using" <=> phase[d] = "using"
                           /\ phase'[d] = "usingIdle" <=> phase[d] = "usingIdle"
      BY <1>6, <2>3 DEF Taking, IInv, TypeOK
    <3> QED BY <2>1, <3>1, <3>2, PlaceKept
  <2> QED BY <2>2, <2>3
<1>7. CASE Parking(c) \/ Installing(c)
  <2>1. held[c] # "none"
    BY <1>7 DEF Parking, Installing, IInv, HeldWhereCarried, Carries
  <2>2. Place = "moving" /\ UNCHANGED <<layout, freed>>
    BY <1>7, <2>1, <1>a DEF Parking, Installing, PlaceTold
  <2>3. CASE Parking(c)
    <3>1. Place' = "parked"
      BY <2>3, <1>a DEF Parking, PlaceTold
    <3> QED BY <2>2, <3>1 DEF Ownership!Park
  <2>4. CASE Installing(c)
    <3>1. Place' = "installed"
      BY <2>4, <1>a DEF Installing, PlaceTold
    <3> QED BY <2>2, <3>1 DEF Ownership!Install
  <2> QED BY <1>7, <2>3, <2>4
<1>8. CASE CoreActivate(c) \/ CoreDeactivate(c) \/ CoreTeardown(c)
  <2>1. held[c] # "none"
    BY <1>8 DEF CoreActivate, CoreDeactivate, CoreTeardown, IInv, HeldWhereCarried, Carries
  <2>2. Place = "moving" /\ UNCHANGED <<layout, freed, processor, inactive_processor>>
    BY <1>8, <2>1, <1>a DEF CoreActivate, CoreDeactivate, CoreTeardown, PlaceTold
  <2>3. CASE held'[c] # "none"
    BY <2>2, <2>3, <1>a DEF PlaceTold
  <2>4. CASE held'[c] = "none"
    <3>1. held' = [held EXCEPT ![c] = "none"]
      BY <1>8, <2>1, <2>4 DEF CoreActivate, CoreDeactivate, CoreTeardown, IInv, TypeOK
    <3>2. \A d \in Calls : held'[d] = "none"
      BY <2>1, <3>1, CarrierAlone DEF IInv, TypeOK
    <3>3. ~ processor /\ ~ inactive_processor
      BY <2>1, CarrierAlone
    <3>4. Place' = "nowhere"
      BY <2>2, <3>2, <3>3 DEF Place
    <3> QED BY <2>2, <3>4 DEF Ownership!Discard
  <2> QED BY <2>3, <2>4
<1>9. CASE Create(c)
  <2>1. UNCHANGED <<layout, freed, processor, inactive_processor>>
    BY <1>9 DEF Create
  <2>2. InLifecycle(c) /\ held[c] = "none" /\ phase[c] # "usingIdle"
    BY <1>9 DEF Create, IInv, InLifecycle, HeldWhereCarried, Carries, CallsWellFormed,
              PhasesOf,
           GuiCallbacks, AllCallbacks, TypeOK
  <2>3. CASE held'[c] = "none"
    <3>1. UNCHANGED held
      BY <1>9, <2>3 DEF Create, IInv, TypeOK
    <3>2. \A d \in Calls : /\ phase'[d] = "using" <=> phase[d] = "using"
                           /\ phase'[d] = "usingIdle" <=> phase[d] = "usingIdle"
      BY <1>9 DEF Create, IInv, TypeOK
    <3> QED BY <2>1, <3>1, <3>2, PlaceKept
  <2>4. CASE held'[c] # "none"
    <3>1. ~ runtime
      BY <1>9, <2>2, <2>4 DEF Create, NotInitialized
    <3>2. ~ processor /\ ~ inactive_processor
      BY <3>1 DEF IInv, SlotsAgree
    <3>3. Place = "nowhere"
      BY <2>2, <3>2, PlaceInLifecycle
    <3>4. Place' = "moving"
      BY <2>4, <1>a DEF PlaceTold
    <3> QED BY <2>1, <3>3, <3>4 DEF Ownership!Make
  <2> QED BY <2>3, <2>4
<1>10. CASE ApplyConfiguration(c)
  <2>1. InLifecycle(c) /\ held[c] = "none" /\ ~ processor /\ phase[c] # "usingIdle"
    BY <1>10 DEF ApplyConfiguration, IInv, InLifecycle, HeldWhereCarried, Carries,
              SlotsAgree,
           CallsWellFormed, PhasesOf, GuiCallbacks, AllCallbacks, TypeOK
  <2>2. Place \in {"nowhere", "parked"}
    BY <2>1, PlaceInLifecycle
  <2>3. UNCHANGED <<held, processor, inactive_processor, freed>> /\ layout' \in Layouts
    BY <1>10 DEF ApplyConfiguration
  <2>4. \A d \in Calls : /\ phase'[d] = "using" <=> phase[d] = "using"
                         /\ phase'[d] = "usingIdle" <=> phase[d] = "usingIdle"
    BY <1>10 DEF ApplyConfiguration, IInv, TypeOK
  <2>5. Place' = Place
    BY <2>3, <2>4, PlaceKept
  <2> QED BY <2>2, <2>3, <2>5 DEF Ownership!Reconfigure
<1>11. CASE Free(c)
  <2>1. op[c] = "destroy" /\ TornDown(c) /\ held[c] = "none"
    BY <1>11 DEF Free, TornDown, IInv, CallsWellFormed, PhasesOf, HeldWhereCarried, Carries,
           AllCallbacks, GuiCallbacks, TypeOK
  <2>2. ~ processor /\ ~ inactive_processor
    BY <2>1 DEF IInv, SlotsAgree
  <2>3. \A d \in Calls : held[d] = "none"
    BY <2>1, CarrierAlone
  <2>4. UNCHANGED <<held, processor, inactive_processor, layout>> /\ freed'
    BY <1>11 DEF Free
  <2>5. Place = "nowhere" /\ Place' = "nowhere"
    BY <2>2, <2>3, <2>4 DEF Place
  <2> QED BY <2>4, <2>5 DEF Ownership!Free
<1> QED
  BY <1>1, <1>2, <1>3, <1>4, <1>5, <1>6, <1>7, <1>8, <1>9, <1>10, <1>11 DEF Step

\* The two guards keep the promise ProcessorOwnership states, for every host.
THEOREM GuardsImplementOwnership == Spec => ImplementsOwnership
<1>1. Init => Ownership!Init
  BY DEF Init, Ownership!Init, Place
<1>2. ASSUME IInv, [Next]_vars
      PROVE  [Ownership!Next]_(Ownership!vars)
  <2>1. CASE UNCHANGED vars
    BY <2>1 DEF vars, callVars, procVars, prodVars, Ownership!vars, Place
  <2>2. ASSUME ~ freed, NEW c \in Calls, Step(c) PROVE [Ownership!Next]_(Ownership!vars)
    BY <1>2, <2>2, StepImplements DEF Ownership!vars
  <2>3. ASSUME ~ freed, NEW c \in Calls, NEW o \in AllCallbacks, Start(c, o)
        PROVE  UNCHANGED Ownership!vars
    <3>1. UNCHANGED <<held, processor, inactive_processor, layout, freed>>
      BY <2>3 DEF Start, procVars, prodVars
    <3>2. phase[c] = "idle" /\ phase' = [phase EXCEPT ![c] = First(o)]
          /\ First(o) \notin {"using", "usingIdle"}
      BY <1>2, <2>3 DEF Start, HostAllows, First, IInv, CallsWellFormed, PhasesOf,
              AllCallbacks,
             LifecycleCallbacks, AudioCallbacks, GuiCallbacks
    <3>3. \A d \in Calls : /\ phase'[d] = "using" <=> phase[d] = "using"
                           /\ phase'[d] = "usingIdle" <=> phase[d] = "usingIdle"
      BY <1>2, <3>2 DEF IInv, TypeOK
    <3> QED BY <3>1, <3>3, PlaceKept DEF Ownership!vars
  <2> QED BY <1>2, <2>1, <2>2, <2>3 DEF Next, Freed
<1> QED BY <1>1, <1>2, InductiveInvariant, PTL DEF Spec, Ownership!Spec, ImplementsOwnership
-----------------------------------------------------------------------------
(* What an instance owes its host. *)

\* The places from which a call may be called back.
Stacking == {"host", "using", "core", "guiRun"}

\* The proxies live on what plugin.init froze, and destroy silences them first.
ProxiesKept ==
  /\ host_extensions_initialized => runtime /\ core
  /\ \A c \in Calls :
       /\ phase[c] \in {"publish", "expose"} => runtime
       /\ phase[c] = "expose" => core
       /\ op[c] = "destroy" =>
            phase[c] \in {"enter", "silence"} \/ ~ host_extensions_initialized

\* Below the newest call of a thread, every call is inside its host or its product.
StackKept ==
  \A d, e \in Calls :
    op[d] # "none" /\ e[1] = d[1] /\ e[2] < d[2] => phase[e] \in Stacking

\* A real-time callback's tracker names the thread inside it.
RealtimeThreadKept ==
  \A d \in Calls : op[d] \in RealtimeCallbacks => rt_thread[op[d]] = d[1]

\* state.load restores on no thread that is inside a real-time callback.
LoadsApart ==
  \A c, d \in Calls :
    op[c] = "load" /\ phase[c] \in {"enter", "restore"} /\ d[1] = c[1] =>
      op[d] \notin RealtimeCallbacks

\* The call in the product's GUI code owns the guard, which names its thread.
GuiHeld ==
  /\ \A c \in Calls : phase[c] = "guiRun" <=> gui_owner = c
  /\ \A c \in Calls : gui_owner = c => gui_thread = c[1]
  /\ gui_open => gui_thread # NoThread

\* A flag is up only while the call that raised it is at work.
FlagsHeld ==
  /\ lifecycle_busy => \E c \in Calls : InLifecycle(c)
  /\ processor_busy => \E c \in Calls : phase[c] \in Borrowing

\* Inductive with IInv for every host.
HInv == ProxiesKept /\ StackKept /\ RealtimeThreadKept /\ LoadsApart /\ GuiHeld /\ FlagsHeld

\* A call that has a place in a callback has that callback.
LEMMA CallNamed == ASSUME IInv, NEW c \in Calls PROVE op[c] = "none" <=> phase[c] = "idle"
  BY DEF IInv, TypeOK, CallsWellFormed, PhasesOf, AllCallbacks, GuiCallbacks

\* A step moves one call, which goes on in its callback or returns from it.
LEMMA StepFrame ==
  ASSUME IInv, NEW c \in Calls, Step(c)
  PROVE  /\ \A d \in Calls : d # c => op'[d] = op[d] /\ phase'[d] = phase[d]
         /\ op[c] # "none" /\ op'[c] \in {op[c], "none"}
         /\ op'[c] = "none" => phase'[c] = "idle"
<1>1. op[c] = "none" <=> phase[c] = "idle"
  BY CallNamed
<1> USE <1>1 DEF Goto, Return, GiveUp, IInv, TypeOK
<1>2. CASE EnterLifecycle(c) \/ Leave(c) \/ Recheck(c) \/ Silence(c) \/ EnterGui(c) \/ GuiRun(c)
  BY <1>2 DEF EnterLifecycle, Leave, Recheck, Silence, EnterGui, GuiRun, AfterGui
<1>3. CASE Borrow(c)
  BY <1>3 DEF Borrow, Refused, TryPhases, WaitPhases
<1>4. CASE \/ Probing(c) \/ Claiming(c) \/ Taking(c) \/ Parking(c) \/ Installing(c)
           \/ Using(c) \/ UsingIdle(c) \/ End(c) \/ LockCore(c)
  BY <1>4 DEF Probing, Claiming, Taking, Parking, Installing, Using, UsingIdle, End,
              LockCore
<1>5. CASE \/ Create(c) \/ Publish(c) \/ Expose(c) \/ CoreActivate(c) \/ HostReturns(c)
           \/ StoreMaximum(c) \/ CoreDeactivate(c) \/ CoreOnMainThread(c)
  BY <1>5 DEF Create, Publish, Expose, CoreActivate, HostReturns, StoreMaximum,
              CoreDeactivate,
              CoreOnMainThread, At
<1>6. CASE Restore(c) \/ ApplyConfiguration(c) \/ CoreTeardown(c) \/ Final(c) \/ Free(c)
  BY <1>6 DEF Restore, ApplyConfiguration, CoreTeardown, Final, Free, At
<1> QED BY <1>2, <1>3, <1>4, <1>5, <1>6 DEF Step

\* Which steps touch what plugin.init freezes.
LEMMA FrozenFrame ==
  ASSUME IInv, NEW c \in Calls, Step(c)
  PROVE  UNCHANGED frozen \/ Create(c) \/ Publish(c) \/ Expose(c) \/ Silence(c)
  BY DEF Step, EnterLifecycle, Leave, Borrow, Probing, Claiming, Taking, Parking,
         Installing,
         Using, Recheck, UsingIdle, End, LockCore, CoreActivate, HostReturns, StoreMaximum,
         CoreDeactivate, CoreOnMainThread, Restore, ApplyConfiguration, CoreTeardown,
         Final, Free,
         EnterGui, GuiRun

\* By which step a call gets to a place.
LEMMA Arrivals ==
  ASSUME IInv, NEW c \in Calls, Step(c)
  PROVE  /\ phase'[c] # "enter"
         /\ phase'[c] = "publish" => Parking(c)
         /\ phase'[c] = "expose" => Publish(c)
         /\ phase'[c] \in {"silence", "restore"} => EnterLifecycle(c)
         /\ phase'[c] = "guiRun" => EnterGui(c)
         /\ phase'[c] = "borrow" => Recheck(c)
         /\ phase'[c] \in {"using", "usingIdle", "installing"} => Borrow(c)
         /\ phase'[c] = "host" => CoreActivate(c) \/ Restore(c)
         /\ phase'[c] = "limit" => CoreActivate(c) \/ HostReturns(c)
         /\ phase'[c] = "install" => StoreMaximum(c)
<1> USE DEF Goto, Return, GiveUp, IInv, TypeOK
<1>0. CASE EnterLifecycle(c)
  <2>1. AfterEnter(op[c]) \in {"create", "probe", "recheck", "take", "silence", "restore"}
    BY <1>0 DEF EnterLifecycle, AfterEnter, CallsWellFormed, PhasesOf, AllCallbacks,
                GuiCallbacks
  <2> QED BY <1>0, <2>1 DEF EnterLifecycle
<1>1. CASE Leave(c) \/ Recheck(c) \/ Silence(c) \/ EnterGui(c) \/ GuiRun(c)
  BY ZenonT(60), <1>1 DEF Leave, Recheck, Silence, EnterGui, GuiRun, AfterGui
<1>2. CASE Borrow(c)
  BY <1>2 DEF Borrow, Refused, TryPhases, WaitPhases, Borrowed
<1>3. CASE \/ Probing(c) \/ Claiming(c) \/ Taking(c) \/ Parking(c) \/ Installing(c)
           \/ Using(c) \/ UsingIdle(c) \/ End(c) \/ LockCore(c)
  BY <1>3 DEF Probing, Claiming, Taking, Parking, Installing, Using, UsingIdle, End,
              LockCore
<1>4. CASE \/ Create(c) \/ Publish(c) \/ Expose(c) \/ CoreActivate(c) \/ HostReturns(c)
           \/ StoreMaximum(c) \/ CoreDeactivate(c) \/ CoreOnMainThread(c)
  BY <1>4 DEF Create, Publish, Expose, CoreActivate, HostReturns, StoreMaximum,
              CoreDeactivate,
              CoreOnMainThread, At
<1>5. CASE Restore(c) \/ ApplyConfiguration(c) \/ CoreTeardown(c) \/ Final(c) \/ Free(c)
  BY <1>5 DEF Restore, ApplyConfiguration, CoreTeardown, Final, Free, At
<1> QED BY <1>0, <1>1, <1>2, <1>3, <1>4, <1>5 DEF Step

\* And by which step it leaves one.
LEMMA Departures ==
  ASSUME NEW c \in Calls, Step(c)
  PROVE  /\ phase[c] = "enter" => EnterLifecycle(c)
         /\ phase[c] = "silence" => Silence(c)
         /\ phase[c] = "guiRun" => GuiRun(c)
         /\ phase[c] \in Borrowing => ~ Borrow(c) /\ ~ processor_busy'
         /\ phase[c] = "leave" => Leave(c)
  BY DEF Step, EnterLifecycle, Leave, Borrow, TryPhases, WaitPhases, Borrowing, Probing,
         Claiming,
         Taking, Parking, Installing, Using, Recheck, UsingIdle, End, LockCore, Create,
         Publish,
         Expose, CoreActivate, HostReturns, StoreMaximum, CoreDeactivate,
         CoreOnMainThread, At,
         Restore, ApplyConfiguration, Silence, CoreTeardown, Final, Free, EnterGui, GuiRun

\* plugin.init freezes the capabilities, puts the core in place and then exposes the
\* proxies; plugin.destroy silences them before it takes anything away.
LEMMA ProxiesStep ==
  ASSUME IInv, ProxiesKept, NEW c \in Calls, Step(c)
  PROVE  ProxiesKept'
<1>1. /\ runtime => runtime'
      /\ core => core'
      /\ host_extensions_initialized' => host_extensions_initialized \/ Expose(c)
  BY FrozenFrame DEF Create, Publish, Expose, Silence, SilenceProxies, frozen
<1>2. Expose(c) => phase[c] = "expose" /\ \A d \in Calls : op[d] # "destroy"
  BY DEF Expose, IInv, CallsWellFormed, PhasesOf, AllCallbacks, GuiCallbacks, TypeOK,
         DestroyAlone, AudioCallbacks
<1>3. host_extensions_initialized' => runtime' /\ core'
  BY <1>1, <1>2 DEF ProxiesKept
<1>4. phase'[c] \in {"publish", "expose"} => runtime'
  BY <1>1, Arrivals DEF ProxiesKept, Parking, Publish, IInv, HeldWhereCarried, Carries,
                    SlotsAgree
<1>5. phase'[c] = "expose" => core'
  BY Arrivals DEF Publish
<1>6. op'[c] = "destroy" => phase'[c] \in {"enter", "silence"} \/ ~ host_extensions_initialized'
  <2>1. CASE phase[c] = "enter"
    <3>1. op'[c] = "destroy" => op[c] = "destroy"
      BY StepFrame
    <3>2. EnterLifecycle(c)
      BY <2>1, Departures
    <3> QED BY <3>1, <3>2 DEF EnterLifecycle, AfterEnter, FailsFast, Goto, IInv, TypeOK
  <2>2. CASE phase[c] = "silence"
    BY <2>2, Departures DEF Silence, SilenceProxies
  <2>3. CASE phase[c] \notin {"enter", "silence"}
    BY <1>1, <1>2, <2>3, StepFrame DEF ProxiesKept
  <2> QED BY <2>1, <2>2, <2>3
<1> QED BY <1>1, <1>2, <1>3, <1>4, <1>5, <1>6, StepFrame DEF ProxiesKept

\* A call that is not the newest of its thread is inside a host callback.
LEMMA StackStep ==
  ASSUME IInv, StackKept, NEW c \in Calls, Step(c)
  PROVE  StackKept'
<1>1. \A d \in Calls : d[1] = c[1] /\ d[2] > c[2] => op[d] = "none"
  BY CallNamed DEF Step, OnTop
<1>2. \A d \in Calls : op'[d] # "none" => op[d] # "none"
  BY StepFrame
<1>3. ASSUME NEW d \in Calls, NEW e \in Calls, op'[d] # "none", e[1] = d[1], e[2] < d[2]
      PROVE  phase'[e] \in Stacking
  <2>1. op[d] # "none" /\ phase[e] \in Stacking
    BY <1>2, <1>3 DEF StackKept
  <2>2. e # c
    BY <1>1, <1>3, <2>1 DEF Calls
  <2> QED BY <2>1, <2>2, StepFrame
<1> QED BY <1>3 DEF StackKept

\* A call begins on top of a call that is inside its host or its product.
LEMMA StackStart ==
  ASSUME IInv, StackKept, NEW c \in Calls, NEW o \in AllCallbacks, Start(c, o)
  PROVE  StackKept'
<1>1. /\ \A d \in Calls : d[1] = c[1] /\ d[2] > c[2] => op[d] = "none"
      /\ op[c] = "none"
      /\ c[2] > 1 => <<c[1], c[2] - 1>> \in Calls /\ phase[<<c[1], c[2] - 1>>] \in Stacking
  <2>1. OnTop(c) /\ op[c] = "none" /\ (c[2] > 1 => InHost(<<c[1], c[2] - 1>>))
    BY DEF Start, HostAllows
  <2>2. c[2] > 1 => <<c[1], c[2] - 1>> \in Calls
    <3>1. c[1] \in Threads /\ c[2] \in 1..Nesting
      BY DEF Calls
    <3>2. c[2] > 1 => c[2] - 1 \in 1..Nesting
      BY <3>1, NestingAssumption
    <3> QED BY <3>1, <3>2 DEF Calls
  <2> QED BY <2>1, <2>2, CallNamed DEF OnTop, InHost, At, Stacking
<1>2. \A d \in Calls : d # c => op'[d] = op[d] /\ phase'[d] = phase[d]
  BY DEF Start, IInv, TypeOK
<1>3. ASSUME NEW d \in Calls, NEW e \in Calls, op'[d] # "none", e[1] = d[1], e[2] < d[2]
      PROVE  phase'[e] \in Stacking
  <2>1. d # e /\ e[2] \in 1..Nesting /\ d[2] \in 1..Nesting
    BY <1>3 DEF Calls
  <2>2. CASE d # c
    <3>1. op[d] # "none" /\ e # c
      BY <1>1, <1>2, <1>3, <2>2
    <3> QED BY <1>2, <1>3, <3>1 DEF StackKept
  <2>3. CASE d = c
    <3> DEFINE b == <<c[1], c[2] - 1>>
    <3>1. b \in Calls /\ phase[b] \in Stacking
      BY <1>1, <1>3, <2>1, <2>3
    <3>2. op[b] # "none"
      BY <3>1, CallNamed DEF Stacking
    <3>3. CASE e[2] = c[2] - 1
      <4>1. e = b
        BY <1>3, <2>3, <3>3 DEF Calls
      <4> QED BY <1>2, <2>1, <2>3, <3>1, <4>1
    <3>4. CASE e[2] < c[2] - 1
      BY <1>2, <1>3, <2>1, <2>3, <3>1, <3>2, <3>4 DEF StackKept, Calls
    <3> QED BY <1>3, <2>1, <2>3, <3>3, <3>4
  <2> QED BY <2>2, <2>3
<1> QED BY <1>3 DEF StackKept

\* A real-time callback's tracker knows the thread that is inside it.
LEMMA ThreadStep ==
  ASSUME IInv, RealtimeThreadKept, NEW c \in Calls, Step(c)
  PROVE  RealtimeThreadKept'
<1>1. CASE ~ End(c)
  <2>1. UNCHANGED rt_thread
    BY <1>1 DEF Step, EnterLifecycle, Leave, Borrow, Probing, Claiming, Taking, Parking,
         Installing, Using, Recheck, UsingIdle, LockCore, Create, Publish, Expose,
         CoreActivate,
         HostReturns, StoreMaximum, CoreDeactivate, CoreOnMainThread, Restore,
         ApplyConfiguration, Silence, CoreTeardown, Final, Free, EnterGui, GuiRun, rtVars
  <2> QED BY <2>1, StepFrame DEF RealtimeThreadKept, RealtimeCallbacks
<1>2. CASE End(c)
  <2> DEFINE o == op[c]
  <2>1. o \in RealtimeCallbacks
    BY <1>2 DEF End, IInv, CallsWellFormed, PhasesOf, AllCallbacks, GuiCallbacks, TypeOK,
                RealtimeCallbacks
  <2>2. \A d \in Calls : d # c => op'[d] = op[d]
    BY StepFrame
  <2>3. op'[c] = "none"
    BY <1>2 DEF End, Return, IInv, TypeOK
  <2>4. \A p \in RealtimeCallbacks : p # o => rt_thread'[p] = rt_thread[p]
    BY <1>2 DEF End, IInv, TypeOK
  <2>5. ASSUME NEW d \in Calls, d # c, op[d] = o
        PROVE  rt_thread'[o] = rt_thread[o]
    <3> DEFINE Inside == {e \in Calls : op[e] = o}
    <3>1. IsFiniteSet(Inside) /\ c \in Inside /\ d \in Inside
      BY <2>5, CallsFinite, FS_Subset
    <3>2. Cardinality(Inside) # 1
      BY <2>5, <3>1, FS_Singleton
    <3>3. rt_depth[o] # 1
      BY <2>1, <3>2 DEF IInv, DepthsCount
    <3> QED BY <1>2, <2>1, <3>3 DEF End, LastExit, IInv, TypeOK
  <2> QED BY <2>1, <2>2, <2>3, <2>4, <2>5 DEF RealtimeThreadKept, RealtimeCallbacks
<1> QED BY <1>1, <1>2

\* A callback that begins records its thread, unless one is inside already.
LEMMA ThreadStart ==
  ASSUME IInv, RealtimeThreadKept, NEW c \in Calls, NEW o \in AllCallbacks, Start(c, o)
  PROVE  RealtimeThreadKept'
<1>1. /\ \A d \in Calls : d # c => op'[d] = op[d]
      /\ op'[c] = o
  BY DEF Start, IInv, TypeOK
<1>2. CASE o \notin RealtimeCallbacks
  BY <1>1, <1>2 DEF RealtimeThreadKept, Start, rtVars
<1>3. CASE o \in RealtimeCallbacks
  <2>1. /\ \A p \in RealtimeCallbacks : p # o => rt_thread'[p] = rt_thread[p]
        /\ rt_thread'[o] = IF rt_depth[o] = 0 THEN c[1] ELSE rt_thread[o]
    BY <1>3 DEF Start, EnterRealtime, IInv, TypeOK
  <2>2. \A d \in Calls : op[d] = o => d[1] = c[1] /\ rt_thread[o] = d[1]
    BY <1>3 DEF Start, HostAllows, RealtimeThreadKept
  <2>3. ASSUME rt_depth[o] # 0 PROVE \E d \in Calls : op[d] = o
    <3> DEFINE Inside == {d \in Calls : op[d] = o}
    <3>1. Inside # {}
      BY <1>3, <2>3, FS_EmptySet DEF IInv, DepthsCount
    <3> QED BY <3>1
  <2>4. rt_thread'[o] = c[1]
    BY <2>1, <2>2, <2>3
  <2> QED BY <1>1, <1>3, <2>1, <2>2, <2>4 DEF RealtimeThreadKept
<1> QED BY <1>2, <1>3

\* state.load was not let in on a thread inside a real-time callback, and none begins there
\* before it has restored.
LEMMA LoadsStep ==
  ASSUME IInv, LoadsApart, NEW c \in Calls, Step(c)
  PROVE  LoadsApart'
<1>1. \A d \in Calls : op'[d] # "none" => op'[d] = op[d]
  BY StepFrame
<1>2. op[c] = "load" /\ phase'[c] \in {"enter", "restore"} => phase[c] = "enter"
  BY Arrivals DEF EnterLifecycle
<1>3. \A d \in Calls : op'[d] = "load" /\ phase'[d] \in {"enter", "restore"} =>
        op[d] = "load" /\ phase[d] \in {"enter", "restore"}
  BY <1>1, <1>2, StepFrame
<1> QED BY <1>1, <1>3 DEF LoadsApart, RealtimeCallbacks

\* state.load is refused inside a real-time callback, and none nests in a restore.
LEMMA LoadsStart ==
  ASSUME IInv, StackKept, RealtimeThreadKept, LoadsApart,
         NEW c \in Calls, NEW o \in AllCallbacks, Start(c, o)
  PROVE  LoadsApart'
<1>1. /\ \A d \in Calls : d # c => op'[d] = op[d] /\ phase'[d] = phase[d]
      /\ op'[c] = o /\ op[c] = "none"
  BY DEF Start, HostAllows, IInv, TypeOK
<1>2. ASSUME NEW d \in Calls, NEW e \in Calls, op'[d] = "load", phase'[d] \in {"enter", "restore"},
             e[1] = d[1], op'[e] \in RealtimeCallbacks
      PROVE  FALSE
  <2>1. CASE d # c /\ e # c
    BY <1>1, <1>2, <2>1 DEF LoadsApart
  <2>2. CASE d = c
    <3>1. o = "load" /\ e # c /\ op[e] \in RealtimeCallbacks
      BY <1>1, <1>2, <2>2 DEF RealtimeCallbacks
    <3>2. rt_depth[op[e]] > 0 /\ rt_thread[op[e]] = c[1]
      BY <1>2, <2>2, <3>1, DepthPositive DEF RealtimeThreadKept, IInv
    <3> QED BY <3>1, <3>2 DEF Start, LoadAccepted, InRealtimeCallback
  <2>3. CASE d # c /\ e = c
    <3>1. op[d] = "load" /\ phase[d] \notin Stacking \cup {"idle"}
      BY <1>1, <1>2, <2>3 DEF Stacking
    <3>2. OnTop(c)
      BY DEF Start, HostAllows
    <3>3. ~ d[2] > c[2] /\ d[2] # c[2] /\ c[2] \in 1..Nesting /\ d[2] \in 1..Nesting
      BY <1>2, <2>3, <3>1, <3>2 DEF OnTop, Calls
    <3>4. phase'[d] \in Stacking
      BY <1>1, <1>2, <2>3, <3>3, StackStart DEF StackKept, RealtimeCallbacks
    <3> QED BY <1>1, <2>3, <3>1, <3>4
  <2> QED BY <2>1, <2>2, <2>3
<1> QED BY <1>2 DEF LoadsApart

\* The call inside the product's GUI code holds the GUI guard, on the thread the guard
\* recorded.
LEMMA GuiStep ==
  ASSUME IInv, GuiHeld, NEW c \in Calls, Step(c)
  PROVE  /\ GuiHeld'
         /\ gui_open /\ gui_open' => gui_thread' = gui_thread
<1>1. CASE EnterGui(c)
  <2>1. /\ \A d \in Calls : d # c => phase'[d] = phase[d]
        /\ phase[c] = "gui" /\ UNCHANGED gui_open
    BY <1>1, StepFrame DEF EnterGui
  <2>2. CASE gui_owner = NoCall /\ GuiAdmits(c)
    <3>1. phase'[c] = "guiRun" /\ gui_owner' = c /\ gui_thread' = c[1]
      BY <1>1, <2>2 DEF EnterGui, Goto, IInv, TypeOK
    <3>2. c[1] \in Threads /\ c # NoCall
      BY NoCallAssumption DEF Calls
    <3>3. \A d \in Calls : d # c => phase'[d] # "guiRun"
      BY <2>1, <2>2, NoCallAssumption DEF GuiHeld
    <3> QED BY <2>1, <2>2, <3>1, <3>2, <3>3, ThreadsAssumption DEF GuiHeld, GuiAdmits
  <2>3. CASE ~ (gui_owner = NoCall /\ GuiAdmits(c))
    <3>1. phase'[c] # "guiRun" /\ UNCHANGED <<gui_owner, gui_thread>>
      BY <1>1, <2>3 DEF EnterGui, AfterGui, Goto, Return, IInv, TypeOK
    <3> QED BY <2>1, <3>1 DEF GuiHeld
  <2> QED BY <2>2, <2>3
<1>2. CASE GuiRun(c)
  <2>1. /\ \A d \in Calls : d # c => phase'[d] = phase[d]
        /\ phase[c] = "guiRun" /\ phase'[c] # "guiRun" /\ gui_owner' = NoCall
    BY <1>2, StepFrame DEF GuiRun, AfterGui, Goto, Return, IInv, TypeOK
  <2>2. gui_thread = c[1] /\ c[1] \in Threads
    BY <2>1 DEF GuiHeld, Calls
  <2>3. /\ gui_open' => gui_thread' = gui_thread \/ gui_thread' = NoThread
        /\ gui_open' => gui_thread' = gui_thread
    BY <1>2 DEF GuiRun
  <2> QED BY <2>1, <2>2, <2>3, NoCallAssumption, ThreadsAssumption DEF GuiHeld
<1>3. CASE ~ EnterGui(c) /\ ~ GuiRun(c)
  <2>1. UNCHANGED guiVars
    BY <1>3 DEF Step, EnterLifecycle, Leave, Borrow, Probing, Claiming, Taking, Parking,
         Installing, Using, Recheck, UsingIdle, End, LockCore, Create, Publish, Expose,
         CoreActivate, HostReturns, StoreMaximum, CoreDeactivate, CoreOnMainThread, Restore,
         ApplyConfiguration, Silence, CoreTeardown, Final, Free
  <2>2. phase[c] # "guiRun" /\ phase'[c] # "guiRun"
    BY <1>3, Arrivals, Departures
  <2> QED BY <2>1, <2>2, StepFrame DEF GuiHeld, guiVars
<1> QED BY <1>1, <1>2, <1>3

\* A call leaves the lifecycle only with the flag.
LEMMA InLifecycleStep ==
  ASSUME IInv, NEW c \in Calls, Step(c), InLifecycle(c), lifecycle_busy'
  PROVE  InLifecycle(c)'
<1>1. /\ phase[c] \notin {"idle", "enter", "free", "borrow", "using", "end"}
      /\ op[c] \in {"init", "activate", "apply", "flush", "deactivate", "destroy", "load"}
  BY DEF InLifecycle, IInv, CallsWellFormed, PhasesOf, AllCallbacks, GuiCallbacks, TypeOK
<1>2. op'[c] = op[c] /\ phase'[c] \notin {"idle", "enter", "free", "borrow", "using", "end"}
  <2> USE <1>1 DEF Goto, IInv, TypeOK
  <2>1. CASE Borrow(c)
    BY <2>1 DEF Borrow, Borrowed, Refused, TryPhases, WaitPhases, Spins, At
  <2>2. CASE EnterGui(c) \/ GuiRun(c)
    <3>1. op[c] = "destroy"
      BY <2>2 DEF EnterGui, GuiRun, CallsWellFormed, PhasesOf
    <3> QED BY <2>2, <3>1 DEF EnterGui, GuiRun, AfterGui
  <2>3. CASE Recheck(c) \/ Leave(c)
    BY <2>3 DEF Recheck, Leave, ReleaseLifecycle
  <2>4. CASE \/ Probing(c) \/ Claiming(c) \/ Taking(c) \/ Parking(c) \/ Installing(c)
             \/ UsingIdle(c) \/ LockCore(c) \/ Silence(c)
    BY <2>4 DEF Probing, Claiming, Taking, Parking, Installing, UsingIdle, LockCore, Silence
  <2>5. CASE \/ Create(c) \/ Publish(c) \/ Expose(c) \/ CoreActivate(c) \/ HostReturns(c)
             \/ StoreMaximum(c) \/ CoreDeactivate(c) \/ CoreOnMainThread(c)
    BY <2>5 DEF Create, Publish, Expose, CoreActivate, HostReturns, StoreMaximum,
                CoreDeactivate,
                CoreOnMainThread, At
  <2>6. CASE Restore(c) \/ ApplyConfiguration(c) \/ CoreTeardown(c) \/ Final(c)
    BY <2>6 DEF Restore, ApplyConfiguration, CoreTeardown, Final, At
  <2>7. ~ EnterLifecycle(c) /\ ~ Using(c) /\ ~ End(c) /\ ~ Free(c)
    BY DEF EnterLifecycle, Using, End, Free
  <2> QED BY <2>1, <2>2, <2>3, <2>4, <2>5, <2>6, <2>7 DEF Step
<1> QED BY <1>1, <1>2 DEF InLifecycle

\* The two flags are up only while a call that raised them is at work.
LEMMA FlagsStep ==
  ASSUME IInv, FlagsHeld, NEW c \in Calls, Step(c)
  PROVE  FlagsHeld'
<1>1. ASSUME processor_busy' PROVE \E d \in Calls : phase'[d] \in Borrowing
  <2>1. CASE Borrow(c)
    <3>1. CASE phase'[c] \in Borrowing
      BY <3>1
    <3>2. CASE phase'[c] \notin Borrowing
      <4>1. processor_busy /\ phase[c] \notin Borrowing
        BY <2>1, <3>2 DEF Borrow, Borrowed, Borrowing, TryPhases, WaitPhases, Goto, IInv,
                    TypeOK
      <4> QED BY <4>1, StepFrame DEF FlagsHeld
    <3> QED BY <3>1, <3>2
  <2>2. CASE ~ Borrow(c)
    <3>1. phase[c] \notin Borrowing
      BY <1>1, Departures
    <3>2. processor_busy
      BY <1>1, <2>2 DEF Step, EnterLifecycle, Leave, Probing, Claiming, Taking, Parking,
         Installing, Using, Recheck, UsingIdle, End, LockCore, Create, Publish, Expose,
         CoreActivate, HostReturns, StoreMaximum, CoreDeactivate, CoreOnMainThread, Restore,
         ApplyConfiguration, Silence, CoreTeardown, Final, Free, EnterGui, GuiRun, procVars
    <3> QED BY <3>1, <3>2, StepFrame DEF FlagsHeld
  <2> QED BY <2>1, <2>2
<1>2. ASSUME lifecycle_busy' PROVE \E d \in Calls : InLifecycle(d)'
  <2>1. CASE ~ lifecycle_busy
    <3>1. EnterLifecycle(c)
      BY <1>2, <2>1 DEF Step, Leave, Borrow, Probing, Claiming, Taking, Parking,
         Installing, Using, Recheck, ReleaseLifecycle, UsingIdle, End, LockCore, Create,
         Publish,
         Expose, CoreActivate, HostReturns, StoreMaximum, CoreDeactivate, CoreOnMainThread,
         Restore, ApplyConfiguration, Silence, CoreTeardown, Final, Free, EnterGui,
         GuiRun, lifeVars
    <3>2. op[c] \in {"init", "activate", "apply", "flush", "deactivate", "destroy", "load"}
      BY <3>1 DEF EnterLifecycle, IInv, CallsWellFormed, PhasesOf, AllCallbacks,
                  GuiCallbacks, TypeOK
    <3>3. op'[c] = op[c] /\ phase'[c] \in {"create", "probe", "recheck", "take", "silence", "restore"}
      BY <2>1, <3>1, <3>2 DEF EnterLifecycle, AfterEnter, Goto, IInv, TypeOK
    <3> QED BY <3>2, <3>3 DEF InLifecycle, GuiCallbacks
  <2>2. CASE lifecycle_busy
    <3>1. PICK d \in Calls : InLifecycle(d)
      BY <2>2 DEF FlagsHeld
    <3>2. CASE d # c
      BY <3>1, <3>2, StepFrame DEF InLifecycle
    <3>3. CASE d = c
      BY <1>2, <3>1, <3>3, InLifecycleStep
    <3> QED BY <3>2, <3>3
  <2> QED BY <2>1, <2>2
<1> QED BY <1>1, <1>2 DEF FlagsHeld

\* A call begins at its first access to shared state.
LEMMA StartFrame ==
  ASSUME IInv, NEW c \in Calls, NEW o \in AllCallbacks, Start(c, o)
  PROVE  /\ \A d \in Calls : d # c => op'[d] = op[d] /\ phase'[d] = phase[d]
         /\ op[c] = "none" /\ phase[c] = "idle" /\ op'[c] = o
         /\ phase'[c] \in {"enter", "borrow", "lock", "gui"} /\ phase'[c] = First(o)
         /\ UNCHANGED <<frozen, lifeVars, procVars, guiVars, prodVars, freed>>
<1>1. First(o) \in {"enter", "borrow", "lock", "gui"}
  BY DEF First, AllCallbacks, LifecycleCallbacks, AudioCallbacks, GuiCallbacks
<1>2. op[c] = "none" /\ phase[c] = "idle"
  BY CallNamed DEF Start, HostAllows
<1> QED BY <1>1, <1>2 DEF Start, IInv, TypeOK

\* A call that begins keeps HInv.
LEMMA HInvStart ==
  ASSUME IInv, HInv, NEW c \in Calls, NEW o \in AllCallbacks, Start(c, o)
  PROVE  HInv'
<1>1. ProxiesKept'
  <2>1. o = "destroy" => First(o) = "enter"
    BY DEF First, LifecycleCallbacks, AudioCallbacks, GuiCallbacks
  <2> QED BY <2>1, StartFrame DEF HInv, ProxiesKept, frozen
<1>2. GuiHeld'
  BY StartFrame DEF HInv, GuiHeld, guiVars
<1>3. FlagsHeld'
  BY StartFrame DEF HInv, FlagsHeld, InLifecycle, Borrowing, lifeVars, procVars
<1>4. StackKept' /\ RealtimeThreadKept' /\ LoadsApart'
  BY StackStart, ThreadStart, LoadsStart DEF HInv
<1> QED BY <1>1, <1>2, <1>3, <1>4 DEF HInv

\* Every step of a call keeps HInv.
LEMMA HInvStep ==
  ASSUME IInv, HInv, NEW c \in Calls, Step(c)
  PROVE  HInv'
  BY ProxiesStep, StackStep, ThreadStep, LoadsStep, GuiStep, FlagsStep DEF HInv

\* Nothing is called at the start.
LEMMA HInvInit == Init => HInv
  BY NoCallAssumption DEF Init, HInv, ProxiesKept, StackKept, RealtimeThreadKept,
                    LoadsApart, GuiHeld, FlagsHeld,
     RealtimeCallbacks

\* HInv is inductive, given IInv.
LEMMA HInvNext == IInv /\ HInv /\ [Next]_vars => HInv'
<1> SUFFICES ASSUME IInv, HInv, [Next]_vars PROVE HInv'
  OBVIOUS
<1>1. CASE UNCHANGED vars
  BY <1>1 DEF vars, callVars, frozen, lifeVars, procVars, prodVars, rtVars, guiVars, HInv,
     ProxiesKept, StackKept, RealtimeThreadKept, LoadsApart, GuiHeld, FlagsHeld, InLifecycle
<1> QED BY <1>1, HInvStart, HInvStep DEF Next, Freed

\* IInv and HInv hold whatever calls the host makes.
THEOREM HostInvariant == Spec => [](IInv /\ HInv)
  BY InitInv, NextInv, HInvInit, HInvNext, PTL DEF Spec

\* instance.rs: host proxies answer only between plugin.init's freeze of the
\* capabilities and destroy, while core and runtime are in place.
THEOREM ProxiesOnlyWhenFrozen == Spec => []ProxiesLiveOnlyWhenFrozen
<1>1. HInv => ProxiesLiveOnlyWhenFrozen
  BY DEF HInv, ProxiesKept, ProxiesLiveOnlyWhenFrozen
<1> QED BY <1>1, HostInvariant, PTL

\* state.load never restores under a real-time callback of its own thread.
THEOREM NoRestoreInsideRealtime == Spec => []NoRestoreInRealtime
<1>1. HInv => NoRestoreInRealtime
  BY DEF HInv, LoadsApart, NoRestoreInRealtime, At
<1> QED BY <1>1, HostInvariant, PTL

\* An open GUI stays on the thread that opened it.
THEOREM GuiKeepsItsThread == Spec => GuiOnOneThread
<1>1. ASSUME IInv, HInv, [Next]_vars
      PROVE  [gui_open /\ gui_open' => gui_thread # NoThread /\ gui_thread' = gui_thread]_vars
  <2>1. gui_open => gui_thread # NoThread
    BY <1>1 DEF HInv, GuiHeld
  <2>2. ASSUME NEW c \in Calls, Step(c) PROVE gui_open /\ gui_open' => gui_thread' = gui_thread
    BY <1>1, <2>2, GuiStep DEF HInv
  <2>3. ASSUME NEW c \in Calls, NEW o \in AllCallbacks, Start(c, o) PROVE gui_thread' = gui_thread
    BY <1>1, <2>3, StartFrame DEF guiVars
  <2> QED BY <1>1, <2>1, <2>2, <2>3 DEF Next, Freed
<1> QED BY <1>1, HostInvariant, PTL DEF Spec, GuiOnOneThread
-----------------------------------------------------------------------------
\* What may run on the audio thread, and what must not run beside it.
AudioSide == AudioCallbacks \cup {"flush"}
AudioAlone == LifecycleCallbacks \cup {"apply"} \cup AudioSide

\* The threads and the order clap allows: audio callbacks while active, flush on one
\* side or the other, the rest on the main thread, nothing nested.
Roles ==
  \A c \in Calls :
    /\ op[c] # "none" => c[2] = 1
    /\ op[c] \notin AudioSide \cup {"none"} => c[1] = MainThread
    /\ op[c] \in AudioCallbacks => processor_active
    /\ op[c] = "flush" /\ phase[c] = "borrow" => processor_active
    /\ op[c] = "flush" /\ phase[c] = "using" => processor_active
    /\ op[c] = "flush" /\ phase[c] \notin {"borrow", "using", "end"} =>
         c[1] = MainThread /\ ~ processor_active
    /\ op[c] = "apply" => ~ processor_active

\* A call of the audio side is the only one of its kind.
AudioAside ==
  \A c, d \in Calls : op[c] \in AudioSide /\ op[d] \in AudioAlone => c = d

\* What the product was activated with is what the guard remembers.
MaximumKept ==
  /\ processor => active_max_frames_count = snapshot.max /\ active_max_frames_count > 0
  /\ \A c \in Calls :
       /\ phase[c] \in {"host", "limit"} /\ op[c] = "activate" => block[c] = snapshot.max /\ block[c] > 0
       /\ phase[c] \in {"install", "installing"} =>
            active_max_frames_count = snapshot.max /\ active_max_frames_count > 0
       /\ op[c] = "process" => block[c] <= snapshot.max

\* Inductive with IInv and HInv for the host that keeps clap's order.
CInv == Roles /\ AudioAside /\ MaximumKept

\* Of the callbacks that run on the main thread there is one at a time.
LEMMA MainAlone ==
  ASSUME Roles, NEW c \in Calls, NEW d \in Calls,
         op[c] # "none", op[d] # "none", c[1] = MainThread, d[1] = MainThread
  PROVE  c = d
<1>1. c[2] = 1 /\ d[2] = 1
  BY DEF Roles
<1> QED BY <1>1 DEF Calls

\* What a process block looks at changes only under activate, deactivate and destroy.
LEMMA ActiveFrame ==
  ASSUME IInv, NEW c \in Calls, Step(c)
  PROVE  /\ UNCHANGED <<processor_active, processor>> \/ op[c] \in LifecycleCallbacks
         /\ processor' => processor \/ Installing(c)
         /\ active_max_frames_count' = active_max_frames_count \/ StoreMaximum(c)
         /\ snapshot' = snapshot \/ CoreActivate(c)
         /\ block' = block \/ CoreActivate(c) \/ StoreMaximum(c) \/ End(c)
<1>1. Installing(c) => op[c] \in LifecycleCallbacks
  BY DEF Installing, IInv, CallsWellFormed, PhasesOf, AllCallbacks, GuiCallbacks, TypeOK,
         LifecycleCallbacks
<1>2. Taking(c) => op[c] \in LifecycleCallbacks
  BY DEF Taking, IInv, CallsWellFormed, PhasesOf, AllCallbacks, GuiCallbacks, TypeOK,
         LifecycleCallbacks
<1>3. UNCHANGED <<processor_active, processor>> \/ Installing(c) \/ (Taking(c) /\ ~ processor')
      \/ (Taking(c) /\ UNCHANGED <<processor_active, processor>>)
  BY DEF Step, EnterLifecycle, Leave, Borrow, Probing, Claiming, Taking, Parking, Using,
         Recheck,
         UsingIdle, End, LockCore, Create, Publish, Expose, CoreActivate, HostReturns,
         StoreMaximum, CoreDeactivate, CoreOnMainThread, Restore, ApplyConfiguration,
         Silence,
         CoreTeardown, Final, Free, EnterGui, GuiRun, procVars
<1>4. /\ active_max_frames_count' = active_max_frames_count \/ StoreMaximum(c)
      /\ snapshot' = snapshot \/ CoreActivate(c)
  BY DEF Step, EnterLifecycle, Leave, Borrow, Probing, Claiming, Taking, Parking,
         Installing,
         Using, Recheck, UsingIdle, End, LockCore, Create, Publish, Expose, CoreActivate,
         HostReturns, StoreMaximum, CoreDeactivate, CoreOnMainThread, Restore,
         ApplyConfiguration, Silence, CoreTeardown, Final, Free, EnterGui, GuiRun, prodVars
<1>5. block' = block \/ CoreActivate(c) \/ StoreMaximum(c) \/ End(c)
  BY DEF Step, EnterLifecycle, Leave, Borrow, Probing, Claiming, Taking, Parking,
         Installing,
         Using, Recheck, UsingIdle, LockCore, Create, Publish, Expose, HostReturns,
         CoreDeactivate, CoreOnMainThread, Restore, ApplyConfiguration, Silence,
         CoreTeardown,
         Final, Free, EnterGui, GuiRun
<1> QED BY <1>1, <1>2, <1>3, <1>4, <1>5

\* A step of a call keeps each call in its role.
LEMMA RolesStep ==
  ASSUME IInv, Roles, AudioAside, NEW c \in Calls, Step(c)
  PROVE  Roles'
<1>1. ASSUME processor_active' # processor_active
      PROVE  \A d \in Calls : op[d] \notin AudioSide \cup {"apply"}
  <2>1. op[c] \in LifecycleCallbacks
    BY <1>1, ActiveFrame
  <2>2. ASSUME NEW d \in Calls, op[d] \in AudioSide \cup {"apply"} PROVE FALSE
    <3>1. d # c /\ op[c] \notin AudioSide \cup {"none"} /\ op[d] # "none"
      BY <2>1, <2>2 DEF AudioSide, AudioCallbacks, LifecycleCallbacks
    <3>2. op[d] \notin AudioSide
      BY <2>1, <3>1 DEF AudioAside, AudioAlone
    <3>3. c[1] = MainThread /\ d[1] = MainThread
      BY <3>1, <3>2 DEF Roles
    <3> QED BY <3>1, <3>3, MainAlone DEF AudioSide
  <2> QED BY <2>2
<1>2. \A d \in Calls : op'[d] # "none" => op'[d] = op[d]
  BY StepFrame
<1>3. op'[c] = "flush" /\ phase'[c] \in {"borrow", "using"} => processor_active
  <2>1. phase'[c] = "borrow" => processor_active
    BY Arrivals DEF Recheck, RecheckActive, Goto, IInv, TypeOK
  <2>2. op'[c] = "flush" /\ phase'[c] = "using" => phase[c] = "borrow"
    BY ZenonT(60), Arrivals
       DEF Borrow, Borrowed, Refused, TryPhases, WaitPhases, Goto, GiveUp,
                    Return, IInv, TypeOK
  <2> QED BY <1>2, <2>1, <2>2 DEF Roles
<1>4. op'[c] = "flush" /\ phase'[c] \notin {"borrow", "using", "end"} => phase[c] \notin {"borrow", "using", "end"}
  <2>1. phase[c] \in {"borrow", "using", "end"} => Borrow(c) \/ Using(c) \/ End(c)
    BY DEF Step, EnterLifecycle, Leave, Probing, Claiming, Taking, Parking, Installing,
           Recheck,
         UsingIdle, LockCore, Create, Publish, Expose, CoreActivate, HostReturns,
         StoreMaximum,
         CoreDeactivate, CoreOnMainThread, At, Restore, ApplyConfiguration, Silence,
         CoreTeardown,
         Final, Free, EnterGui, GuiRun
  <2>2. op'[c] = "flush" /\ phase[c] \in {"borrow", "using", "end"} => phase'[c] \in {"using", "end"}
    BY <2>1 DEF Borrow, Borrowed, Refused, TryPhases, WaitPhases, Using, End, Goto,
                GiveUp, Return,
                RealtimeCallbacks, IInv, TypeOK
  <2> QED BY <2>2
<1>5. ASSUME NEW d \in Calls
      PROVE /\ op'[d] # "none" => d[2] = 1
            /\ op'[d] \notin AudioSide \cup {"none"} => d[1] = MainThread
  BY <1>2, <1>5 DEF Roles
<1>6. ASSUME NEW d \in Calls
      PROVE /\ op'[d] \in AudioCallbacks => processor_active'
            /\ op'[d] = "apply" => ~ processor_active'
  BY <1>1, <1>2, <1>6 DEF Roles, AudioSide, AudioCallbacks
<1>7. ASSUME NEW d \in Calls, op'[d] = "flush"
      PROVE /\ phase'[d] = "borrow" => processor_active'
            /\ phase'[d] = "using" => processor_active'
            /\ phase'[d] \notin {"borrow", "using", "end"} => d[1] = MainThread /\ ~ processor_active'
  <2>1. op[d] = "flush" /\ processor_active' = processor_active
    BY <1>1, <1>2, <1>7 DEF AudioSide
  <2>2. CASE d = c
    BY <1>3, <1>4, <1>7, <2>1, <2>2 DEF Roles
  <2>3. CASE d # c
    BY <2>1, <2>3, StepFrame DEF Roles
  <2> QED BY <2>2, <2>3
<1> QED BY <1>5, <1>6, <1>7 DEF Roles

\* No step puts a second call beside an audio callback.
LEMMA AsideStep ==
  ASSUME IInv, AudioAside, NEW c \in Calls, Step(c)
  PROVE  AudioAside'
<1>1. \A d \in Calls : op'[d] # "none" => op'[d] = op[d]
  BY StepFrame
<1>2. "none" \notin AudioAlone /\ "none" \notin AudioSide
  BY DEF AudioAlone, AudioSide, LifecycleCallbacks, AudioCallbacks
<1> QED BY <1>1, <1>2 DEF AudioAside

\* What activate told the product is what process checks against.
LEMMA MaximumStep ==
  ASSUME IInv, AudioAside, MaximumKept, NEW c \in Calls, Step(c)
  PROVE  MaximumKept'
<1>1. \A d \in Calls : op'[d] # "none" => op'[d] = op[d]
  BY StepFrame
<1>2. ASSUME op[c] = "activate" PROVE \A d \in Calls : op'[d] # "process"
  BY <1>1, <1>2 DEF AudioAside, AudioSide, AudioAlone, AudioCallbacks, LifecycleCallbacks
<1>3. CASE CoreActivate(c)
  <2>1. op[c] = "activate" /\ held[c] # "none" /\ ~ processor' /\ UNCHANGED active_max_frames_count
    BY <1>3, CarrierAlone DEF CoreActivate, At, IInv, HeldWhereCarried, Carries, procVars
  <2>2. \A d \in Calls : d # c => held[d] = "none" /\ phase'[d] = phase[d] /\ op'[d] = op[d]
    BY <2>1, CarrierAlone, StepFrame
  <2>3. \A d \in Calls : d # c => ~ (phase'[d] \in {"limit", "install", "installing"}
                                     \/ (phase'[d] = "host" /\ op'[d] = "activate"))
    BY <2>2 DEF IInv, HeldWhereCarried, Carries
  <2>4. /\ phase'[c] \in {"host", "limit"} => block'[c] = snapshot'.max /\ block'[c] > 0
        /\ phase'[c] \notin {"install", "installing"}
    BY <1>3, BlockSizesAssumption DEF CoreActivate, Goto, IInv, TypeOK
  <2> QED BY <1>2, <2>1, <2>3, <2>4 DEF MaximumKept
<1>4. CASE StoreMaximum(c)
  <2>1. op[c] = "activate" /\ held[c] # "none" /\ ~ processor' /\ UNCHANGED snapshot
    BY <1>4, CarrierAlone DEF StoreMaximum, IInv, HeldWhereCarried, Carries, procVars,
       CallsWellFormed, PhasesOf, AllCallbacks, GuiCallbacks, TypeOK
  <2>2. \A d \in Calls : d # c => held[d] = "none" /\ phase'[d] = phase[d] /\ op'[d] = op[d]
    BY <2>1, CarrierAlone, StepFrame
  <2>3. \A d \in Calls : d # c => ~ (phase'[d] \in {"limit", "install", "installing"}
                                     \/ (phase'[d] = "host" /\ op'[d] = "activate"))
    BY <2>2 DEF IInv, HeldWhereCarried, Carries
  <2>4. /\ phase'[c] = "install"
        /\ active_max_frames_count' = snapshot'.max /\ active_max_frames_count' > 0
    BY <1>4, <2>1 DEF StoreMaximum, Goto, IInv, TypeOK, MaximumKept
  <2> QED BY <1>2, <2>1, <2>3, <2>4 DEF MaximumKept
<1>5. CASE End(c)
  <2>1. UNCHANGED <<processor, active_max_frames_count, snapshot>> /\ op'[c] = "none" /\ phase'[c] = "idle"
    BY <1>5 DEF End, Return, prodVars, procVars, IInv, TypeOK
  <2>2. \A d \in Calls : d # c => op'[d] = op[d] /\ phase'[d] = phase[d] /\ block'[d] = block[d]
    BY <1>5, StepFrame DEF End, IInv, TypeOK
  <2> QED BY <2>1, <2>2 DEF MaximumKept
<1>6. CASE ~ CoreActivate(c) /\ ~ StoreMaximum(c) /\ ~ End(c)
  <2>1. UNCHANGED <<active_max_frames_count, snapshot, block>>
    BY <1>6, ActiveFrame
  <2>2. processor' => processor \/ phase[c] = "installing"
    BY ActiveFrame DEF Installing
  <2>3. /\ phase'[c] = "limit" => phase[c] = "host" /\ op[c] = "activate"
        /\ phase'[c] = "installing" => phase[c] = "install"
        /\ phase'[c] # "install"
        /\ phase'[c] = "host" => op'[c] # "activate"
    <3>1. HostReturns(c) /\ phase'[c] = "limit" => phase[c] = "host" /\ op[c] = "activate"
      BY DEF HostReturns, Goto, IInv, TypeOK
    <3>2. Borrow(c) /\ phase'[c] = "installing" => phase[c] = "install"
      BY DEF Borrow, Borrowed, Refused, TryPhases, WaitPhases, Goto, GiveUp, Return,
             IInv, TypeOK
    <3>3. Restore(c) => op[c] = "load"
      BY DEF Restore, IInv, TypeOK, CallsWellFormed, PhasesOf, AllCallbacks, GuiCallbacks
    <3> QED BY <1>1, <1>6, <3>1, <3>2, <3>3, Arrivals
  <2> QED BY <1>1, <2>1, <2>2, <2>3, StepFrame DEF MaximumKept
<1> QED BY <1>3, <1>4, <1>5, <1>6

\* A call that clap's order allows keeps CInv.
LEMMA ConformingStartInv ==
  ASSUME IInv, CInv, NEW c \in Calls, NEW o \in AllCallbacks, Start(c, o), ClapAllows(c, o),
         c[2] = 1
  PROVE  CInv'
<1>1. Roles'
  <2>1. /\ o \notin AudioSide => c[1] = MainThread
        /\ o \in AudioCallbacks => processor_active
        /\ o = "apply" => ~ processor_active
        /\ o = "flush" => /\ processor_active <=> c[1] # MainThread
                          /\ First(o) = IF processor_active THEN "borrow" ELSE "enter"
    BY DEF ClapAllows, AudioSide, First, LifecycleCallbacks, AudioCallbacks, GuiCallbacks
  <2> QED BY <2>1, StartFrame DEF CInv, Roles, procVars, AudioCallbacks
<1>2. AudioAside'
  <2>1. /\ o \in AudioSide => ~ InFlight(LifecycleCallbacks) /\ ~ InFlight(AudioSide)
        /\ o \in AudioAlone => ~ InFlight(AudioSide)
    BY DEF ClapAllows, AudioSide, AudioAlone
  <2>2. ASSUME o \in AudioSide, NEW d \in Calls, op[d] = "apply" PROVE FALSE
    <3>1. ~ processor_active /\ d[1] = MainThread
      BY <2>2 DEF CInv, Roles, AudioSide, AudioCallbacks
    <3>2. c[1] = MainThread
      BY <2>2, <3>1 DEF ClapAllows, AudioSide
    <3>3. c[2] = 1 /\ d[2] = 1
      BY <2>2 DEF CInv, Roles
    <3>4. c = d
      BY <3>1, <3>2, <3>3 DEF Calls
    <3> QED BY <2>2, <3>4, StartFrame
  <2> QED BY <2>1, <2>2, StartFrame DEF CInv, AudioAside, InFlight, AudioAlone
<1>3. MaximumKept'
  <2>1. /\ UNCHANGED <<processor, active_max_frames_count, snapshot>>
        /\ \A d \in Calls : d # c => block'[d] = block[d]
    BY StartFrame DEF Start, IInv, TypeOK, procVars, prodVars
  <2>2. o = "process" => block'[c] <= snapshot.max
    <3>1. ASSUME o = "process" PROVE processor
      BY <3>1 DEF ClapAllows, AudioCallbacks, IInv, SlotsAgree
    <3> QED BY <3>1, BlockSizesAssumption DEF Start, WithinMaximum, CInv, MaximumKept,
                    IInv, TypeOK
  <2> QED BY <2>1, <2>2, StartFrame DEF CInv, MaximumKept
<1> QED BY <1>1, <1>2, <1>3 DEF CInv

\* Under CInv no try_lock of a guard meets another call.
LEMMA Served ==
  ASSUME IInv, HInv, CInv
  PROVE  ConformingHostNeverRefused /\ BlockWithinActivatedMaximum
<1>1. ASSUME NEW c \in Calls, phase[c] \in TryPhases, processor_busy PROVE FALSE
  <2>1. PICK d \in Calls : phase[d] \in Borrowing
    BY <1>1 DEF HInv, FlagsHeld
  <2>2. c # d
    BY <1>1, <2>1 DEF TryPhases, Borrowing
  <2>3. op[c] \in AudioAlone /\ op[d] \in AudioAlone
    BY <1>1, <2>1 DEF TryPhases, Borrowing, AudioAlone, AudioSide, AudioCallbacks,
                    LifecycleCallbacks,
       IInv, TypeOK, CallsWellFormed, PhasesOf, AllCallbacks, GuiCallbacks
  <2>4. op[c] \notin AudioSide /\ op[d] \notin AudioSide
    BY <2>2, <2>3 DEF CInv, AudioAside
  <2>5. c[1] = MainThread /\ d[1] = MainThread
    BY <2>3, <2>4 DEF CInv, Roles, AudioAlone, LifecycleCallbacks
  <2> QED BY <2>2, <2>3, <2>5, MainAlone DEF CInv, AudioAlone, AudioSide, AudioCallbacks,
                    LifecycleCallbacks
<1>2. ASSUME NEW c \in Calls, phase[c] = "enter", op[c] # "load", lifecycle_busy PROVE FALSE
  <2>1. PICK d \in Calls : InLifecycle(d)
    BY <1>2 DEF HInv, FlagsHeld
  <2>2. c # d
    BY <1>2, <2>1 DEF InLifecycle
  <2>3. c[1] = MainThread /\ op[c] # "none"
    BY <1>2, CallNamed DEF CInv, Roles, AudioSide, AudioCallbacks, IInv, CallsWellFormed,
                    PhasesOf, AllCallbacks, GuiCallbacks
  <2>4. d[1] = MainThread /\ op[d] # "none"
    BY <2>1, CallNamed DEF InLifecycle, CInv, Roles, AudioSide, AudioCallbacks, IInv,
                    CallsWellFormed, PhasesOf, AllCallbacks, GuiCallbacks
  <2> QED BY <2>2, <2>3, <2>4, MainAlone DEF CInv
<1>3. ASSUME NEW c \in Calls, phase[c] = "using" PROVE processor
  BY <1>3 DEF CInv, Roles, IInv, SlotsAgree, CallsWellFormed, PhasesOf, AllCallbacks,
              GuiCallbacks, AudioCallbacks, TypeOK
<1> QED BY <1>1, <1>2, <1>3 DEF ConformingHostNeverRefused, BlockWithinActivatedMaximum,
                    CInv, MaximumKept, At

\* Whichever host it is, it is one within HostAllows.
HostsInv == IInv /\ HInv /\ (part = "conforming" => CInv)

\* The hosts begin as the instance does.
LEMMA HostsInitInv == HostsInit => HostsInv
<1> SUFFICES ASSUME HostsInit PROVE HostsInv
  OBVIOUS
<1>1. IInv /\ HInv
  BY InitInv, HInvInit DEF HostsInit
<1>2. Roles /\ AudioAside /\ MaximumKept
  BY DEF HostsInit, Init, Roles, AudioAside, AudioSide, AudioAlone, AudioCallbacks,
         LifecycleCallbacks,
     MaximumKept
<1> QED BY <1>1, <1>2 DEF HostsInv, CInv

\* What a host of these does, the host of PluginInstance may do.
LEMMA HostsNextRefines == [HostsNext]_hostsVars => [Next]_vars
  BY DEF HostsNext, HostsStep, ReentrantStart, ConformingStart, hostsVars, Next

\* HostsInv is inductive.
LEMMA HostsNextInv == HostsInv /\ [HostsNext]_hostsVars => HostsInv'
<1> SUFFICES ASSUME HostsInv, [HostsNext]_hostsVars PROVE HostsInv'
  OBVIOUS
<1>1. IInv' /\ HInv'
  BY HostsNextRefines, NextInv, HInvNext DEF HostsInv
<1>2. ASSUME part' = "conforming" PROVE CInv'
  <2>1. part = "conforming" /\ CInv
    BY <1>2 DEF HostsNext, hostsVars, HostsInv
  <2>2. CASE UNCHANGED hostsVars
    BY <2>1, <2>2 DEF hostsVars, vars, callVars, procVars, prodVars, CInv, Roles,
                    AudioAside, MaximumKept
  <2>3. ASSUME NEW c \in Calls, Step(c) PROVE CInv'
    BY <2>1, <2>3, RolesStep, AsideStep, MaximumStep DEF CInv, HostsInv
  <2>4. ASSUME NEW c \in Calls, NEW o \in AllCallbacks, ConformingStart(c, o) PROVE CInv'
    BY <2>1, <2>4, ConformingStartInv DEF HostsInv, ConformingStart
  <2> QED BY <2>1, <2>2, <2>3, <2>4 DEF HostsNext, HostsStep
<1> QED BY <1>1, <1>2 DEF HostsInv

\* A host that keeps clap's order is never refused for what another of its calls
\* is doing, and process never sees a block larger than activate was given.
THEOREM ConformingHostIsServed == HostsSpec => []ConformingHostServed
<1>1. HostsInv => ConformingHostServed
  BY Served DEF HostsInv, ConformingHostServed
<1> QED BY <1>1, HostsInitInv, HostsNextInv, PTL DEF HostsSpec
=============================================================================
