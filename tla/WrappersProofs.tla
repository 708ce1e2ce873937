--------------------------- MODULE WrappersProofs ---------------------------
(***************************************************************************)
(* Proofs about the components of the wrappers in MCWrappers.  They share  *)
(* no state, so each has an invariant of its own, which the others' steps  *)
(* leave alone:                                                            *)
(*                                                                         *)
(*   VwInv  the VST3 view: the handlers are with the run loop of the frame *)
(*          the view has, and there is a GUI only in a view;               *)
(*   VsInv  the views of an Audio Unit: the one that is registered is the  *)
(*          one with the GUI, and no other may call into the unit once it  *)
(*          is gone;                                                       *)
(*   PrInv  the presets: a project the host restored is in effect, or on   *)
(*          its way there, while the selector follows it;                  *)
(*   AeInv  the queue of an Audio Unit: its events have numbers of their   *)
(*          own that the plugin has not heard, those that came during a    *)
(*          recall are behind its boundary, and the numbers the host has   *)
(*          and is to get increase;                                        *)
(*   ByInv  the bypass: what is on its way is what the wrapper has;        *)
(*   PtInv  the ports: the caches are the ports, and the elements too as   *)
(*          long as nothing else can be asked for.                         *)
(*                                                                         *)
(* What a block, a flush and a recall leave in the queue is a recursive    *)
(* function, Selection: that it is one at all, and what it has, is shown   *)
(* from a smallest place where it would fail (SmallestIs, UpTo).           *)
(***************************************************************************)
EXTENDS MCWrappers, FiniteSetTheorems, SequenceTheorems, WellFoundedInduction, TLAPS

-----------------------------------------------------------------------------
(* The VST3 view. *)

VwInv ==
  /\ frame = viewLoop /\ viewLoop \in Frames \cup {NoFrame}
  /\ ~ view => viewLoop = NoFrame /\ ~ viewShown /\ ~ created
  /\ viewShown => created
  /\ HandlersFollowRunLoop /\ GuiGoesWithView

\* Handlers are only ever on the run loop of the view, and the GUI is the view's.
LEMMA ViewKept ==
  ASSUME ~ FrameToFrame, ~ DropsUnseen, VwInv, ViewNext
  PROVE  VwInv'
<1>1. CASE CreateView
  BY <1>1 DEF VwInv, CreateView, ClearContextMenu, loopVars, HandlersFollowRunLoop, GuiGoesWithView
<1>2. CASE Attached
  BY <1>2 DEF VwInv, Attached, loopVars, menuVars, HandlersFollowRunLoop, GuiGoesWithView
<1>3. CASE Removed
  BY <1>3 DEF VwInv, Removed, loopVars, sizeVars, HandlersFollowRunLoop, GuiGoesWithView
<1>4. CASE GetSize
  BY <1>4 DEF VwInv, GetSize, EnsureUi, loopVars, menuVars, HandlersFollowRunLoop, GuiGoesWithView
<1>5. CASE AsksTheGui
  BY <1>5 DEF VwInv, AsksTheGui, EnsureUi, loopVars, sizeVars, menuVars, HandlersFollowRunLoop, GuiGoesWithView
<1>6. CASE OnFocusLost
  BY <1>6 DEF VwInv, OnFocusLost, loopVars, sizeVars, HandlersFollowRunLoop, GuiGoesWithView
<1>7. CASE DropUi
  BY <1>7 DEF VwInv, DropUi, DetachRunLoop, Unregistered, loopVars, sizeVars, HandlersFollowRunLoop, GuiGoesWithView
<1>8. CASE IdleResizes
  BY <1>8 DEF VwInv, IdleResizes, ResizeView, loopVars, menuVars, HandlersFollowRunLoop, GuiGoesWithView
<1>9. ASSUME NEW s \in Sizes, OnSize(s) PROVE VwInv'
  BY <1>9 DEF VwInv, OnSize, loopVars, menuVars, HandlersFollowRunLoop, GuiGoesWithView
<1>10. ASSUME NEW s \in Sizes, NEW onMain \in BOOLEAN, GuiRequestResize(s, onMain) PROVE VwInv'
  BY <1>10 DEF VwInv, GuiRequestResize, ResizeView, loopVars, menuVars, HandlersFollowRunLoop, GuiGoesWithView
<1>11. ASSUME NEW f \in Frames \cup {NoFrame}, SetFrame(f) PROVE VwInv'
  BY <1>11, ViewAssumption DEF ViewAssumption, VwInv, SetFrame, AttachRunLoop, DetachRunLoop, Registered, Unregistered, loopVars, sizeVars,
               HandlersFollowRunLoop, GuiGoesWithView
<1>12. CASE AddTimer("timer")
  BY <1>12 DEF VwInv, AddTimer, sizeVars, menuVars, HandlersFollowRunLoop, GuiGoesWithView
<1>13. ASSUME NEW fd \in Fds, RegisterFd(fd) PROVE VwInv'
  BY <1>13 DEF VwInv, RegisterFd, sizeVars, menuVars, HandlersFollowRunLoop, GuiGoesWithView
<1>14. ASSUME NEW fd \in Fds, UnregisterFd(fd) PROVE VwInv'
  BY <1>14 DEF VwInv, UnregisterFd, sizeVars, menuVars, HandlersFollowRunLoop, GuiGoesWithView
<1>15. ASSUME NEW given \in BOOLEAN, ContextMenuPopulate(given, {"checked"}) PROVE VwInv'
  BY <1>15 DEF VwInv, ContextMenuPopulate, loopVars, sizeVars, HandlersFollowRunLoop, GuiGoesWithView
<1>16. CASE ContextMenuPerform(0)
  BY <1>16 DEF VwInv, ContextMenuPerform, loopVars, sizeVars, HandlersFollowRunLoop, GuiGoesWithView
<1> QED
  BY <1>1, <1>2, <1>3, <1>4, <1>5, <1>6, <1>7, <1>8, <1>9, <1>10, <1>11, <1>12, <1>13, <1>14,
     <1>15, <1>16 DEF ViewNext

-----------------------------------------------------------------------------
(* The views of an Audio Unit. *)

VsTypes ==
  views \in [unit : BOOLEAN, alive : SUBSET AuViews, canary : [AuViews -> BOOLEAN],
             window : AuViews \cup {"none"}, gui : BOOLEAN, parent : AuViews \cup {"none"},
             parked : BOOLEAN, astray : BOOLEAN]

VsInv ==
  /\ VsTypes /\ GuiIsInALiveView
  /\ views.unit => (views.gui <=> views.window # "none")
  /\ views.gui => views.unit /\ views.canary[views.window]
  /\ ~ views.unit => \A v \in views.alive : ~ views.canary[v]

\* A view that may call into the unit does so only while there is one.
LEMMA ViewsKept ==
  ASSUME ~ StaleViewsStay, VsInv, AuViewsNext
  PROVE  VsInv'
<1>1. CASE MakeView
  <2>1. PICK v \in AuViews \ views.alive :
          views' = [views EXCEPT !.alive = @ \cup {v}, !.canary[v] = TRUE, !.window = v, !.gui = TRUE, !.parent = v]
    BY <1>1 DEF MakeView
  <2>2. views.unit
    BY <1>1 DEF MakeView
  <2>3. /\ views'.unit = views.unit /\ views'.alive = views.alive \cup {v}
        /\ views'.canary = [views.canary EXCEPT ![v] = TRUE]
        /\ views'.window = v /\ views'.gui = TRUE /\ views'.parent = v
        /\ views'.astray = views.astray
    BY <2>1 DEF VsInv, VsTypes
  <2>4. VsTypes'
    BY <2>1 DEF VsInv, VsTypes
  <2> QED
    BY <2>2, <2>3, <2>4, AuViewsAssumption DEF AuViewsAssumption, VsInv, VsTypes, GuiIsInALiveView
<1>2. CASE FreeView
  <2>1. PICK v \in views.alive :
          LET gone == [views EXCEPT !.alive = @ \ {v}] IN
            views' = IF ~ views.canary[v] THEN gone
                     ELSE IF ~ views.unit THEN [gone EXCEPT !.astray = TRUE]
                     ELSE IF views.window = v
                     THEN [gone EXCEPT !.window = "none", !.gui = FALSE, !.canary[v] = FALSE]
                     ELSE gone
    BY <1>2 DEF FreeView, IsRegistered
  <2>2. ~ (views.canary[v] /\ ~ views.unit)
    BY DEF VsInv
  <2>3. CASE views' = [views EXCEPT !.alive = @ \ {v}] /\ (views.unit /\ views.canary[v] => views.window # v)
    BY <2>3 DEF VsInv, VsTypes, GuiIsInALiveView
  <2>4. CASE /\ views' = [[views EXCEPT !.alive = @ \ {v}]
                             EXCEPT !.window = "none", !.gui = FALSE, !.canary[v] = FALSE]
             /\ views.unit /\ views.window = v
    <3>1. /\ views'.unit = views.unit /\ views'.alive = views.alive \ {v}
          /\ views'.canary = [views.canary EXCEPT ![v] = FALSE]
          /\ views'.window = "none" /\ views'.gui = FALSE /\ views'.parent = views.parent
          /\ views'.astray = views.astray
      BY <2>4 DEF VsInv, VsTypes
    <3>2. VsTypes'
      BY <2>4 DEF VsInv, VsTypes
    <3> QED
      BY <2>4, <3>1, <3>2 DEF VsInv, VsTypes, GuiIsInALiveView
  <2> QED
    BY <2>1, <2>2, <2>3, <2>4
<1>3. CASE DisposeUnit
  BY <1>3, AuViewsAssumption DEF AuViewsAssumption, VsInv, VsTypes, DisposeUnit, GuiIsInALiveView
<1>4. CASE ParkResize
  BY <1>4 DEF VsInv, VsTypes, ParkResize, GuiIsInALiveView
<1>5. CASE ApplyResize
  BY <1>5 DEF VsInv, VsTypes, ApplyResize, GuiIsInALiveView
<1> QED
  BY <1>1, <1>2, <1>3, <1>4, <1>5 DEF AuViewsNext

-----------------------------------------------------------------------------
(* The preset selector of the VST3 wrapper. *)

PrTypes ==
  /\ published \in {0, Count} /\ (published > 0 => crawled) /\ found \in 0 .. Count
  /\ hostValue \in Program
  /\ request \in Program \cup {kNoPresetRequest, kAdoptNextPresetValue}
  /\ audio \in [at : {"out", "decide", "adopt"}, value : Program,
                current : Program \cup {kNoPresetRequest, kAdoptNextPresetValue}]
  /\ idle \in [at : {"out", "load", "list", "move"}, value : Program]
  /\ picked \in BOOLEAN

\* Over a restored state nothing is queued for loading: the next value the host streams is
\* still to be adopted, is being adopted, or is the one in effect.
Adopting ==
  /\ published = Count /\ idle.at \in {"out", "list"}
  /\ audio.at \in {"decide", "adopt"} => audio.value = hostValue
  /\ \/ request = kAdoptNextPresetValue /\ audio.at # "adopt"
     \/ request = kNoPresetRequest /\ audio.at = "adopt"
     \/ request = kNoPresetRequest /\ inEffect = hostValue /\ audio.at # "adopt"

PrInv == PrTypes /\ (held = "project" /\ ~ picked => Adopting)


\* What the selector moves to is one of its programs.
LEMMA MovesWithinPrograms ==
  ASSUME PrTypes, NEW p, PresetLoaded(p)
  PROVE  hostValue' \in Program
<1>1. Count \in Nat
  BY PresetsAssumption DEF PresetsAssumption, Count
<1>a. Len(PresetList) \in Nat
  BY <1>1, PresetsAssumption DEF PresetsAssumption, PrTypes, PresetList, Count
<1>2. CASE \E n \in 1 .. Len(PresetList) : PresetList[n] = p
  <2>1. PICK n \in 1 .. Len(PresetList) : PresetList[n] = p
    BY <1>2
  <2>2. n - 1 \in 0 .. Len(PresetList) - 1 /\ PresetList[(n - 1) + 1] = p
    BY <1>a, <2>1
  <2>3. IndexOf(p) \in 0 .. Len(PresetList) - 1
    BY <2>2 DEF IndexOf
  <2> QED
    BY <1>1, <1>2, <1>a, <2>3 DEF PrTypes, Program, PresetLoaded, MoveSelectorTo
<1>3. CASE ~ \E n \in 1 .. Len(PresetList) : PresetList[n] = p
  BY <1>3 DEF PresetLoaded, PrTypes
<1> QED
  BY <1>2, <1>3

\* A restored state is kept: every step keeps what is known of a selector that follows it.
LEMMA PresetsKept ==
  ASSUME ~ BlockInFlight, ~ ListPending, PrInv, PresetsNext
  PROVE  PrInv'
<1>1. Count \in Nat /\ Count = Len(FinalOrder) /\ 0 \in Program
  BY PresetsAssumption DEF PresetsAssumption, Count, PrInv, PrTypes, Program
<1>2. Program \subseteq Nat
  BY <1>1 DEF Program
<1>3. CASE CrawlFinds
  BY <1>1, <1>3 DEF PrInv, PrTypes, Adopting, CrawlFinds
<1>4. CASE OnPresetIndexComplete
  BY <1>4 DEF PrInv, PrTypes, Adopting, OnPresetIndexComplete
<1>5. CASE ProcessSelector
  <2>1. Decoded(hostValue) \in Program /\ (published = Count => Decoded(hostValue) = hostValue)
    BY <1>1 DEF PrInv, PrTypes, Decoded, Program
  <2> QED
    BY <1>5, <2>1 DEF PrInv, PrTypes, Adopting, ProcessSelector, ByAudio
<1>6. CASE OnRequestPresetLoad
  <2>1. CASE Lost
    BY <1>6, <2>1 DEF PrInv, PrTypes, Adopting, OnRequestPresetLoad, Lost, ByAudio
  <2>2. CASE audio.current = kAdoptNextPresetValue /\ ~ Lost
    BY <1>6, <2>2 DEF PrInv, PrTypes, Adopting, OnRequestPresetLoad, ByAudio, kNoPresetRequest, kAdoptNextPresetValue
  <2>3. CASE audio.current # kAdoptNextPresetValue /\ ~ Lost
    BY <1>2, <1>6, <2>3 DEF PrInv, PrTypes, Adopting, OnRequestPresetLoad, ByAudio, kNoPresetRequest, kAdoptNextPresetValue
  <2> QED
    BY <2>1, <2>2, <2>3
<1>7. CASE AdoptValue
  BY <1>7 DEF PrInv, PrTypes, Adopting, AdoptValue, ByAudio
<1>8. CASE SetState
  BY <1>8 DEF PrInv, PrTypes, Adopting, SetState, OnMain, AfterRestore
<1>9. CASE UserPicks
  BY <1>9 DEF PrInv, PrTypes, Adopting, UserPicks, OnMain
<1>10. ASSUME NEW p \in Presets, PluginLoads(p) PROVE PrInv'
  <2>1. hostValue' \in Program
    BY <1>10, MovesWithinPrograms DEF PluginLoads, PrInv
  <2>2. held' # "project"
    BY <1>10, PresetsAssumption DEF PluginLoads, PresetsAssumption
  <2> QED
    BY <1>10, <2>1, <2>2 DEF PrInv, PrTypes, PluginLoads, OnMain
<1>11. CASE TakeRequest
  BY <1>1, <1>2, <1>11 DEF PrInv, PrTypes, Adopting, TakeRequest, ByIdle, kNoPresetRequest, kAdoptNextPresetValue
<1>12. CASE LoadRequested
  <2>1. PrTypes' /\ (held' = "project" => held = "project" /\ picked' = picked)
    <3> DEFINE index == IF idle.value < published THEN idle.value ELSE published - 1
    <3>1. CASE published > 0 /\ index # inEffect
      <4>1. held' = PresetList[index + 1] /\ picked' = FALSE /\ PresetLoaded(held')
        BY <1>12, <3>1 DEF LoadRequested
      <4>2. hostValue' \in Program
        BY <4>1, MovesWithinPrograms DEF PrInv
      <4>3. PresetList = FinalOrder /\ index + 1 \in 1 .. Len(FinalOrder)
        <5>1. published = Count /\ crawled /\ idle.value \in 0 .. Count - 1
          BY <1>1, <3>1 DEF PrInv, PrTypes, Program
        <5>2. index + 1 \in 1 .. Count
          BY <1>1, <3>1, <5>1
        <5> QED
          BY <1>1, <5>1, <5>2 DEF PresetList
      <4>4. held' \in Presets
        BY <4>1, <4>3, ElementOfSeq, PresetsAssumption DEF PresetsAssumption
      <4> QED
        BY <1>12, <4>1, <4>2, <4>4, PresetsAssumption DEF PrInv, PrTypes, PresetsAssumption, LoadRequested, ByIdle
    <3>2. CASE ~ (published > 0 /\ index # inEffect)
      <4>1. UNCHANGED <<selector, hostValue, inEffect, held, picked>>
        BY <1>12, <3>2 DEF LoadRequested
      <4> QED
        BY <1>12, <4>1 DEF PrInv, PrTypes, LoadRequested, ByIdle
    <3> QED
      BY <3>1, <3>2
  <2>2. held = "project" => picked
    BY <1>12 DEF PrInv, Adopting, LoadRequested
  <2> QED
    BY <2>1, <2>2 DEF PrInv
<1>13. CASE GrowList
  BY <1>1, <1>13 DEF PrInv, PrTypes, Adopting, GrowList, ByIdle
<1>14. CASE CatchUp
  BY <1>14 DEF PrInv, PrTypes, Adopting, CatchUp, ByIdle, MoveSelectorTo
<1> QED
  BY <1>3, <1>4, <1>5, <1>6, <1>7, <1>8, <1>9, <1>10, <1>11, <1>12, <1>13, <1>14 DEF PresetsNext

-----------------------------------------------------------------------------
(* The busses of the VST3 wrapper. *)

\* A bus that is there before and after a rebuild is as active after it.
LEMMA RebuildKeepsActive ==
  ASSUME NEW old, NEW now, NEW n \in DOMAIN old \cap DOMAIN now
  PROVE  SetupAudioBusses(old, now)[n].active = old[n].active
<1> DEFINE new == [k \in DOMAIN now |-> AddAudioBusFrom(now[k])]
<1>1. n \in DOMAIN new /\ new[n] = [arr |-> SpeakerArrangementFor(now[n]), active |-> FALSE]
  BY DEF AddAudioBusFrom
<1>2. SetupAudioBusses(old, now)[n] = [new[n] EXCEPT !.active = old[n].active]
  BY <1>1 DEF SetupAudioBusses, KeptActive
<1> HIDE DEF new
<1> QED
  BY <1>1, <1>2

\* Only activateBus() changes whether a bus is active.
LEMMA BussesKeepActive ==
  ASSUME BussesNext, NEW n \in DOMAIN busses \cap DOMAIN busses', ports' # ports
  PROVE  busses'[n].active = busses[n].active
<1>1. PICK a, b \in Arrangements, reads \in BOOLEAN :
        SetBusArrangements(<<a>>, reads) \/ SetBusArrangements(<<a, b>>, reads)
  BY DEF BussesNext, ActivateBus, PortsChanged, GetLatencySamples, ComponentSetActive
<1>2. ASSUME NEW arrs, SetBusArrangements(arrs, reads)
      PROVE  busses'[n].active = busses[n].active
  <2>1. busses' = [k \in DOMAIN arrs |-> [SetupAudioBusses(busses, ports')[k] EXCEPT !.arr = arrs[k]]]
    BY <1>2 DEF SetBusArrangements
  <2>2. DOMAIN ports' = DOMAIN arrs
    BY <1>2 DEF SetBusArrangements, Applied
  <2>3. n \in DOMAIN arrs /\ n \in DOMAIN ports'
    BY <2>1, <2>2
  <2>4. SetupAudioBusses(busses, ports')[n].active = busses[n].active
    BY <2>3, RebuildKeepsActive
  <2>5. "active" \in DOMAIN SetupAudioBusses(busses, ports')[n]
    BY <2>3 DEF SetupAudioBusses, KeptActive, AddAudioBusFrom
  <2> HIDE DEF SetupAudioBusses
  <2> QED
    BY <2>1, <2>3, <2>4, <2>5
<1> QED
  BY <1>1, <1>2
-----------------------------------------------------------------------------
(* Selecting the edits of a queue. *)

\* A set of numbers has a smallest one.
LEMMA SmallestIs ==
  ASSUME NEW S \in SUBSET Nat, S # {}
  PROVE  \E k \in S : \A j \in S : k <= j
<1>1. PICK k \in S : \A j \in S : ~ (<<j, k>> \in OpToRel(<, Nat))
  BY NatLessThanWellFounded, WFMin
<1>2. ASSUME NEW j \in S PROVE k <= j
  <2>1. OpToRel(<, Nat) = {p \in Nat \X Nat : p[1] < p[2]}
    BY Zenon DEF OpToRel
  <2>2. ~ (<<j, k>> \in {p \in Nat \X Nat : p[1] < p[2]})
    BY <1>1, <2>1, Zenon
  <2>3. j \in Nat /\ k \in Nat
    OBVIOUS
  <2> QED
    BY <2>2, <2>3
<1> QED
  BY <1>2

\* A set with 0 that has the successors of its members up to a bound has all up to the bound.
LEMMA UpTo ==
  ASSUME NEW top \in Nat, NEW S, 0 \in S, \A n \in 1..top : n - 1 \in S => n \in S
  PROVE  0..top \subseteq S
<1> SUFFICES ASSUME NEW m \in 0..top, m \notin S PROVE FALSE
  OBVIOUS
<1> DEFINE Out == {n \in 0..top : n \notin S}
<1>1. Out \in SUBSET Nat /\ Out # {}
  OBVIOUS
<1>2. PICK k \in Out : \A j \in Out : k <= j
  <2> HIDE DEF Out
  <2> QED
    BY <1>1, SmallestIs
<1>3. k \in 1..top /\ k \notin S
  BY <1>2
<1>4. k - 1 \in 0..top /\ k - 1 \notin Out
  BY <1>2, <1>3
<1> QED
  BY <1>3, <1>4

\* The selection of a queue is its own recursive description.
LEMMA SelectionIs ==
  ASSUME NEW X, NEW s \in Seq(X), NEW which \in BOOLEAN
  PROVE  Selection(s, which) =
           [n \in 0..Len(s) |-> IF n = 0 THEN <<>>
              ELSE IF IsParameter(s[n]) <=> which THEN Append(Selection(s, which)[n - 1], s[n])
              ELSE Selection(s, which)[n - 1]]
<1> DEFINE Step(f, n) == IF n = 0 THEN <<>>
                         ELSE IF IsParameter(s[n]) <=> which THEN Append(f[n - 1], s[n]) ELSE f[n - 1]
           Fits(f, top) == f = [n \in 0..top |-> Step(f, n)]
           Reached == {top \in 0..Len(s) : \E f : Fits(f, top)}
<1>1. Len(s) \in Nat
  OBVIOUS
<1>2. 0 \in Reached
  <2>1. Fits([n \in 0..0 |-> <<>>], 0)
    OBVIOUS
  <2> HIDE DEF Fits
  <2> QED
    BY <1>1, <2>1
<1>3. ASSUME NEW top \in 1..Len(s), top - 1 \in Reached PROVE top \in Reached
  <2>1. PICK f : Fits(f, top - 1)
    <3> HIDE DEF Fits
    <3> QED
      BY <1>3
  <2> DEFINE g == [n \in 0..top |-> Step(f, n)]
  <2>2. \A n \in 0..top - 1 : f[n] = Step(f, n)
    <3> HIDE DEF Step
    <3> QED
      BY <2>1
  <2>3. \A n \in 0..top - 1 : g[n] = f[n]
    <3> HIDE DEF Step
    <3> QED
      BY <2>2
  <2>4. ASSUME NEW n \in 0..top PROVE Step(g, n) = Step(f, n)
    <3>1. CASE n = 0
      BY <3>1
    <3>2. CASE n # 0
      <4>1. n - 1 \in 0..top - 1
        BY <3>2
      <4>2. g[n - 1] = f[n - 1]
        <5> HIDE DEF g
        <5> QED
          BY <2>3, <4>1
      <4> HIDE DEF g
      <4> QED
        BY <4>2
    <3> QED
      BY <3>1, <3>2
  <2>5. Fits(g, top)
    <3>1. g = [n \in 0..top |-> Step(g, n)]
      <4> HIDE DEF Step
      <4>1. \A n \in 0..top : g[n] = Step(f, n)
        OBVIOUS
      <4>2. \A n \in 0..top : g[n] = Step(g, n)
        <5> HIDE DEF g
        <5> QED
          BY <2>4, <4>1
      <4>3. g = [n \in 0..top |-> g[n]]
        OBVIOUS
      <4> HIDE DEF g
      <4> QED
        BY <4>2, <4>3
    <3> HIDE DEF Step, g
    <3> QED
      BY <3>1
  <2> HIDE DEF Fits, g
  <2> QED
    BY <2>5
<1>4. \E f : Fits(f, Len(s))
  <2> HIDE DEF Fits
  <2>1. 0..Len(s) \subseteq Reached
    <3> HIDE DEF Reached
    <3> QED
      BY <1>1, <1>2, <1>3, UpTo
  <2>2. Len(s) \in Reached
    BY <1>1, <2>1
  <2> QED
    BY <2>2
<1>5. Selection(s, which) = CHOOSE f : Fits(f, Len(s))
  BY DEF Selection
<1>6. Fits(Selection(s, which), Len(s))
  <2> HIDE DEF Fits
  <2> QED
    BY <1>4, <1>5
<1> QED
  BY <1>6

\* One step of it.
LEMMA SelectionSteps ==
  ASSUME NEW X, NEW s \in Seq(X), NEW which \in BOOLEAN
  PROVE  /\ Selection(s, which)[0] = <<>>
         /\ \A n \in 1..Len(s) :
              Selection(s, which)[n] = IF IsParameter(s[n]) <=> which
                                       THEN Append(Selection(s, which)[n - 1], s[n])
                                       ELSE Selection(s, which)[n - 1]
<1> DEFINE f == Selection(s, which)
<1>1. Len(s) \in Nat
  OBVIOUS
<1>2. f = [n \in 0..Len(s) |-> IF n = 0 THEN <<>>
              ELSE IF IsParameter(s[n]) <=> which THEN Append(f[n - 1], s[n]) ELSE f[n - 1]]
  BY SelectionIs, Zenon
<1> HIDE DEF f
<1>3. f[0] = <<>>
  BY <1>1, <1>2
<1>4. ASSUME NEW n \in 1..Len(s)
      PROVE  f[n] = IF IsParameter(s[n]) <=> which THEN Append(f[n - 1], s[n]) ELSE f[n - 1]
  <2>1. n \in 0..Len(s) /\ n # 0
    BY <1>1
  <2>2. f[n] = IF n = 0 THEN <<>>
               ELSE IF IsParameter(s[n]) <=> which THEN Append(f[n - 1], s[n]) ELSE f[n - 1]
    BY <1>2, <2>1, Zenon
  <2> QED
    BY <2>1, <2>2, Zenon
<1> USE DEF f
<1> QED
  BY <1>3, <1>4

\* The queue t has what is of one sort among the first n of s, each once if they differ.
Selected(t, s, which, n) ==
  /\ \A i \in 1..Len(t) : \E k \in 1..n : t[i] = s[k] /\ (IsParameter(s[k]) <=> which)
  /\ \A k \in 1..n : (IsParameter(s[k]) <=> which) => \E i \in 1..Len(t) : t[i] = s[k]
  /\ (\A i, j \in 1..Len(s) : s[i].id = s[j].id => i = j)
       => \A i, j \in 1..Len(t) : t[i].id = t[j].id => i = j

\* What a selection has.
LEMMA SelectionHas ==
  ASSUME NEW X, NEW s \in Seq(X), NEW which \in BOOLEAN, NEW n \in 0..Len(s)
  PROVE  /\ Selection(s, which)[n] \in Seq(X)
         /\ Selected(Selection(s, which)[n], s, which, n)
<1> DEFINE f == Selection(s, which)
           From(m) == \A i \in 1..Len(f[m]) : \E k \in 1..m : f[m][i] = s[k] /\ (IsParameter(s[k]) <=> which)
           All(m) == \A k \in 1..m : (IsParameter(s[k]) <=> which) => \E i \in 1..Len(f[m]) : f[m][i] = s[k]
           Differ == \A i, j \in 1..Len(s) : s[i].id = s[j].id => i = j
           Once(m) == Differ => \A i, j \in 1..Len(f[m]) : f[m][i].id = f[m][j].id => i = j
           Good == {m \in 0..Len(s) : f[m] \in Seq(X) /\ From(m) /\ All(m) /\ Once(m)}
<1>1. Len(s) \in Nat
  OBVIOUS
<1>2. 0 \in Good
  <2>1. f[0] = <<>>
    BY SelectionSteps
  <2> HIDE DEF f
  <2>2. f[0] \in Seq(X) /\ Len(f[0]) = 0 /\ 1..0 = {}
    BY <2>1
  <2>3. From(0) /\ All(0) /\ Once(0)
    BY <2>2
  <2> HIDE DEF From, All, Once
  <2> QED
    BY <1>1, <2>2, <2>3
<1>3. ASSUME NEW m \in 1..Len(s), m - 1 \in Good PROVE m \in Good
  <2>1. f[m] = IF IsParameter(s[m]) <=> which THEN Append(f[m - 1], s[m]) ELSE f[m - 1]
    BY SelectionSteps
  <2> HIDE DEF f
  <2>2. f[m - 1] \in Seq(X) /\ From(m - 1) /\ All(m - 1) /\ Once(m - 1)
    BY <1>3
  <2>3. s[m] \in X
    BY ElementOfSeq
  <2>4. 1..m = (1..m - 1) \cup {m} /\ m \in Nat /\ m \in 0..Len(s)
    BY <1>1
  <2>5. CASE ~ (IsParameter(s[m]) <=> which)
    <3>1. f[m] = f[m - 1]
      BY <2>1, <2>5
    <3>2. From(m)
      BY <2>2, <2>4, <3>1
    <3>3. All(m)
      BY <2>2, <2>4, <2>5, <3>1
    <3>4. Once(m)
      BY <2>2, <3>1
    <3> HIDE DEF From, All, Once
    <3> QED
      BY <2>2, <2>4, <3>1, <3>2, <3>3, <3>4
  <2>6. CASE IsParameter(s[m]) <=> which
    <3> DEFINE l == Len(f[m - 1])
    <3>1. f[m] = Append(f[m - 1], s[m])
      BY <2>1, <2>6
    <3>2. /\ f[m] \in Seq(X) /\ Len(f[m]) = l + 1 /\ f[m][l + 1] = s[m] /\ l \in Nat
          /\ \A i \in 1..l : f[m][i] = f[m - 1][i]
      BY <2>2, <2>3, <3>1, AppendProperties
    <3> HIDE DEF l
    <3>a. Len(f[m - 1]) = l
      BY DEF l
    <3>b. 1..l + 1 = (1..l) \cup {l + 1}
      BY <3>2
    <3>3. From(m)
      <4> SUFFICES ASSUME NEW i \in 1..l + 1
                   PROVE  \E k \in 1..m : f[m][i] = s[k] /\ (IsParameter(s[k]) <=> which)
        BY <3>2
      <4>1. CASE i \in 1..l
        BY <2>2, <2>4, <3>2, <3>a, <4>1
      <4>2. CASE i = l + 1
        BY <2>4, <2>6, <3>2, <4>2
      <4> QED
        BY <3>b, <4>1, <4>2
    <3>4. All(m)
      <4> SUFFICES ASSUME NEW k \in 1..m, IsParameter(s[k]) <=> which
                   PROVE  \E i \in 1..l + 1 : f[m][i] = s[k]
        BY <3>2
      <4>1. CASE k \in 1..m - 1
        BY <2>2, <3>2, <3>a, <3>b, <4>1
      <4>2. CASE k = m
        BY <3>2, <3>b, <4>2
      <4> QED
        BY <2>4, <4>1, <4>2
    <3>5. Once(m)
      <4> SUFFICES ASSUME Differ, NEW i \in 1..l + 1, NEW j \in 1..l + 1, f[m][i].id = f[m][j].id
                   PROVE  i = j
        BY <3>2
      <4>1. \A k \in 1..l : f[m][k].id # s[m].id
        <5> SUFFICES ASSUME NEW k \in 1..l PROVE f[m][k].id # s[m].id
          OBVIOUS
        <5>1. PICK h \in 1..m - 1 : f[m - 1][k] = s[h]
          BY <2>2, <3>a
        <5>2. h \in 1..Len(s) /\ h # m /\ m \in 1..Len(s)
          BY <1>1
        <5> QED
          BY <3>2, <5>1, <5>2
      <4>2. CASE i \in 1..l /\ j \in 1..l
        BY <2>2, <3>2, <3>a, <4>2
      <4>3. CASE ~ (i \in 1..l /\ j \in 1..l)
        BY <3>2, <3>b, <4>1, <4>3
      <4> QED
        BY <4>2, <4>3
    <3> HIDE DEF From, All, Once
    <3> QED
      BY <2>4, <3>2, <3>3, <3>4, <3>5
  <2> QED
    BY <2>5, <2>6
<1>4. n \in Good
  <2> HIDE DEF Good
  <2> QED
    BY <1>1, <1>2, <1>3, UpTo
<1> QED
  BY <1>4 DEF Selected

\* The selection of a part of the queue is where the selection of more of it begins.
LEMMA SelectionGrows ==
  ASSUME NEW X, NEW s \in Seq(X), NEW which \in BOOLEAN, NEW m \in 0..Len(s)
  PROVE  /\ Len(Selection(s, which)[m]) <= Len(Those(s, which))
         /\ \A i \in 1..Len(Selection(s, which)[m]) : Those(s, which)[i] = Selection(s, which)[m][i]
<1> DEFINE f == Selection(s, which)
           Grown(n) == Len(f[m]) <= Len(f[n]) /\ \A i \in 1..Len(f[m]) : f[n][i] = f[m][i]
           Good == {d \in 0..Len(s) - m : Grown(m + d)}
<1>1. Len(s) \in Nat /\ m \in Nat /\ Len(s) - m \in Nat
  OBVIOUS
<1>2. \A n \in 0..Len(s) : f[n] \in Seq(X)
  BY SelectionHas
<1>a. \A n \in 1..Len(s) :
        f[n] = IF IsParameter(s[n]) <=> which THEN Append(f[n - 1], s[n]) ELSE f[n - 1]
  BY SelectionSteps
<1> HIDE DEF f
<1>3. 0 \in Good
  BY <1>1, <1>2
<1>4. ASSUME NEW d \in 1..Len(s) - m, d - 1 \in Good PROVE d \in Good
  <2>1. m + d \in 1..Len(s) /\ (m + d) - 1 = m + (d - 1) /\ m + (d - 1) \in 0..Len(s)
    BY <1>1
  <2>2. Grown(m + (d - 1))
    BY <1>4
  <2>3. s[m + d] \in X
    BY <2>1, ElementOfSeq
  <2>4. f[m + d] = f[m + (d - 1)] \/ f[m + d] = Append(f[m + (d - 1)], s[m + d])
    BY <1>a, <2>1
  <2>5. f[m] \in Seq(X) /\ f[m + (d - 1)] \in Seq(X)
    BY <1>1, <1>2, <2>1
  <2>6. Grown(m + d)
    <3>1. CASE f[m + d] = f[m + (d - 1)]
      BY <2>2, <3>1
    <3>2. CASE f[m + d] = Append(f[m + (d - 1)], s[m + d])
      <4>1. /\ Len(f[m + d]) = Len(f[m + (d - 1)]) + 1
            /\ \A i \in 1..Len(f[m + (d - 1)]) : f[m + d][i] = f[m + (d - 1)][i]
        BY <2>3, <2>5, <3>2, AppendProperties
      <4> QED
        BY <2>2, <2>5, <4>1
    <3> QED
      BY <2>4, <3>1, <3>2
  <2> QED
    BY <2>6
<1>5. Len(s) - m \in Good
  <2> DEFINE top == Len(s) - m
  <2>1. top \in Nat /\ \A d \in 1..top : d - 1 \in Good => d \in Good
    BY <1>1, <1>4
  <2> HIDE DEF Good, top
  <2>2. 0..top \subseteq Good
    BY <1>3, <2>1, UpTo
  <2>3. top \in Good
    BY <2>1, <2>2
  <2> QED
    BY <2>3 DEF top
<1>6. Grown(Len(s))
  BY <1>1, <1>5
<1> QED
  BY <1>6 DEF f, Those

-----------------------------------------------------------------------------
(* The event queue of an Audio Unit. *)

AeKinds == {"on", "off", "tuning", "expression", "midi", "midi2", "sysex", "param"}
AeEvents == [kind : AeKinds, id : Nat, late : BOOLEAN]

AeTypes ==
  /\ adapter \in [there : BOOLEAN, events : Seq(AeEvents), buffers : Nat, recall : BOOLEAN, boundary : Nat]
  /\ outputs \in [DOMAIN OutPortIds -> [list : Seq(Nat), full : BOOLEAN]]
  /\ heard \in [once : SUBSET Nat, twice : BOOLEAN, replaced : SUBSET AeEvents, gone : SUBSET Nat]
  /\ sent \in [count : Nat, dialect : Dialects \cup {"none"}, pushed : Nat,
               host : [DOMAIN OutPortIds -> Seq(Nat)]]

\* A queue of events of which none was delivered, each with a number of its own.
Fresh(q, count, once) ==
  /\ \A i \in 1..Len(q) : q[i].id <= count /\ q[i].id \notin once
  /\ \A i, j \in 1..Len(q) : q[i].id = q[j].id => i = j

AeIds ==
  /\ Fresh(adapter.events, sent.count, heard.once)
  /\ \A id \in heard.once : id <= sent.count
  /\ ~ heard.twice

AeKept ==
  \A id \in 1..sent.count :
    \/ id \in heard.once \/ id \in heard.gone
    \/ \E i \in 1..Len(adapter.events) : adapter.events[i].id = id
    \/ \E e \in heard.replaced : e.id = id

Sysex(q) == {e \in Range(q) : e.kind = "sysex"}
AeBuffers == Cardinality(Sysex(adapter.events)) <= adapter.buffers

AeRecall ==
  /\ adapter.boundary <= Len(adapter.events) /\ (~ adapter.recall => adapter.boundary = 0)
  /\ \A i \in 1..Len(adapter.events) :
       adapter.events[i].late => adapter.recall /\ i > adapter.boundary
  /\ \A e \in heard.replaced : ~ e.late

Increasing(q, top) ==
  /\ \A i, j \in 1..Len(q) : i < j => q[i] < q[j]
  /\ \A i \in 1..Len(q) : q[i] <= top
AeOutput == \A p \in DOMAIN OutPortIds : Increasing(sent.host[p] \o outputs[p].list, sent.pushed)

AeInv == AeTypes /\ AeIds /\ AeKept /\ AeBuffers /\ AeRecall /\ AeOutput

\* The members of a queue.
LEMMA RangeOfQueue ==
  ASSUME NEW X, NEW q \in Seq(X)
  PROVE  /\ Range(q) = {q[i] : i \in 1..Len(q)}
         /\ IsFiniteSet(Range(q))
<1>1. Range(q) = {q[i] : i \in 1..Len(q)}
  BY DEF Range
<1>2. IsFiniteSet(1..Len(q))
  BY FS_Interval
<1>3. q \in Surjection(1..Len(q), Range(q))
  BY DEF Surjection, Range
<1>4. IsFiniteSet(Range(q))
  BY <1>2, <1>3, FS_Surjection
<1> QED
  BY <1>1, <1>4

\* A queue whose messages were all in another one has no more of them.
LEMMA FewerSysex ==
  ASSUME NEW q \in Seq(AeEvents), NEW r \in Seq(AeEvents), Range(r) \subseteq Range(q)
  PROVE  Cardinality(Sysex(r)) <= Cardinality(Sysex(q))
<1>1. IsFiniteSet(Sysex(q))
  BY RangeOfQueue, FS_Subset DEF Sysex
<1>2. Sysex(r) \subseteq Sysex(q)
  BY DEF Sysex
<1> QED
  BY <1>1, <1>2, FS_Subset

\* Delivering the events of one sort and keeping the others.
LEMMA DeliveredOnce ==
  ASSUME AeTypes, AeIds, AeKept, NEW which \in BOOLEAN,
         NEW given, given = {adapter.events[i].id : i \in {k \in 1..Len(adapter.events) :
                                 ~ (IsParameter(adapter.events[k]) <=> which)}},
         adapter'.events = Those(adapter.events, which),
         heard'.once = heard.once \cup given,
         heard'.twice = (heard.twice \/ given \cap heard.once # {}),
         heard'.replaced = heard.replaced, heard'.gone = heard.gone, sent'.count = sent.count
  PROVE  /\ AeIds' /\ AeKept' /\ adapter'.events \in Seq(AeEvents)
         /\ Range(adapter'.events) \subseteq Range(adapter.events)
         /\ heard'.twice = FALSE
<1> DEFINE q == adapter.events
           r == Those(q, which)
<1>1. q \in Seq(AeEvents) /\ Len(q) \in Nat /\ Len(q) \in 0..Len(q)
  BY DEF AeTypes
<1>2. /\ r \in Seq(AeEvents)
      /\ \A i \in 1..Len(r) : \E k \in 1..Len(q) : r[i] = q[k] /\ (IsParameter(q[k]) <=> which)
      /\ \A k \in 1..Len(q) : (IsParameter(q[k]) <=> which) => \E i \in 1..Len(r) : r[i] = q[k]
      /\ (\A i, j \in 1..Len(q) : q[i].id = q[j].id => i = j) => \A i, j \in 1..Len(r) : r[i].id = r[j].id => i = j
  <2> HIDE DEF q, r
  <2>1. r = Selection(q, which)[Len(q)]
    BY DEF r, Those
  <2>2. Selection(q, which)[Len(q)] \in Seq(AeEvents) /\ Selected(Selection(q, which)[Len(q)], q, which, Len(q))
    BY <1>1, SelectionHas
  <2>3. r \in Seq(AeEvents) /\ Selected(r, q, which, Len(q))
    BY <2>1, <2>2, Zenon
  <2> QED
    BY <2>3 DEF Selected
<1>3. /\ \A i \in 1..Len(q) : q[i].id <= sent.count /\ q[i].id \notin heard.once
      /\ \A i, j \in 1..Len(q) : q[i].id = q[j].id => i = j
      /\ \A id \in heard.once : id <= sent.count
      /\ ~ heard.twice
  BY DEF AeIds, Fresh
<1>4. given \cap heard.once = {}
  BY <1>3
<1>5. \A id \in given : id <= sent.count
  BY <1>3
<1>6. \A i \in 1..Len(r) : r[i].id <= sent.count /\ r[i].id \notin heard.once /\ r[i].id \notin given
  <2> SUFFICES ASSUME NEW i \in 1..Len(r)
               PROVE  r[i].id <= sent.count /\ r[i].id \notin heard.once /\ r[i].id \notin given
    OBVIOUS
  <2>1. PICK k \in 1..Len(q) : r[i] = q[k] /\ (IsParameter(q[k]) <=> which)
    BY <1>2
  <2>2. q[k].id \notin given
    <3> SUFFICES ASSUME NEW h \in 1..Len(q), ~ (IsParameter(q[h]) <=> which), q[h].id = q[k].id PROVE FALSE
      OBVIOUS
    <3>1. h = k
      BY <1>3
    <3> QED
      BY <2>1, <3>1
  <2> QED
    BY <1>3, <2>1, <2>2
<1> HIDE DEF r
<1>7. adapter'.events = r
  BY DEF r
<1>8. heard'.twice = FALSE
  BY <1>3, <1>4
<1>9. AeIds'
  BY <1>2, <1>3, <1>5, <1>6, <1>7, <1>8 DEF AeIds, Fresh
<1>10. AeKept'
  <2> SUFFICES ASSUME NEW id \in 1..sent.count
               PROVE  \/ id \in heard.once \cup given \/ id \in heard.gone
                      \/ \E i \in 1..Len(r) : r[i].id = id
                      \/ \E e \in heard.replaced : e.id = id
    BY <1>7 DEF AeKept
  <2>1. CASE \E i \in 1..Len(q) : q[i].id = id
    <3>1. PICK i \in 1..Len(q) : q[i].id = id
      BY <2>1
    <3>2. CASE IsParameter(q[i]) <=> which
      BY <1>2, <3>1, <3>2
    <3>3. CASE ~ (IsParameter(q[i]) <=> which)
      BY <3>1, <3>3
    <3> QED
      BY <3>2, <3>3
  <2>2. CASE ~ \E i \in 1..Len(q) : q[i].id = id
    BY <2>2 DEF AeKept
  <2> QED
    BY <2>1, <2>2
<1>11. Range(r) \subseteq Range(q)
  <2>1. Range(r) = {r[i] : i \in 1..Len(r)}
    BY <1>2, RangeOfQueue
  <2>2. Range(q) = {q[i] : i \in 1..Len(q)}
    BY <1>1, RangeOfQueue
  <2> HIDE DEF q
  <2> QED
    BY <1>2, <2>1, <2>2
<1> QED
  BY <1>2, <1>7, <1>8, <1>9, <1>10, <1>11

\* What AuEvents promises follows from the invariant.
LEMMA EventsPromised == AeInv => EachEventOnce /\ OnlyOldEditsReplaced
<1> SUFFICES ASSUME AeInv PROVE EachEventOnce /\ OnlyOldEditsReplaced
  OBVIOUS
<1> DEFINE q == adapter.events
<1>1. /\ q \in Seq(AeEvents)
      /\ outputs \in [DOMAIN OutPortIds -> [list : Seq(Nat), full : BOOLEAN]]
      /\ sent.host \in [DOMAIN OutPortIds -> Seq(Nat)]
  BY DEF AeInv, AeTypes
<1>2. Range(q) = {q[i] : i \in 1..Len(q)}
  BY <1>1, RangeOfQueue
<1>3. ~ heard.twice
  BY DEF AeInv, AeIds
<1>4. Cardinality({e \in Range(adapter.events) : e.kind = "sysex"}) <= adapter.buffers
  BY DEF AeInv, AeBuffers, Sysex
<1>5. \A id \in 1..sent.count :
        \/ id \in heard.once \/ id \in heard.gone
        \/ \E e \in Range(adapter.events) \cup heard.replaced : e.id = id
  BY <1>2 DEF AeInv, AeKept
<1>6. \A p \in DOMAIN sent.host : \A i, j \in DOMAIN sent.host[p] : i < j => sent.host[p][i] < sent.host[p][j]
  <2> SUFFICES ASSUME NEW p \in DOMAIN OutPortIds, NEW i \in 1..Len(sent.host[p]), NEW j \in 1..Len(sent.host[p]), i < j
               PROVE  sent.host[p][i] < sent.host[p][j]
    <3>1. DOMAIN sent.host = DOMAIN OutPortIds /\ \A p \in DOMAIN OutPortIds : sent.host[p] \in Seq(Nat)
      BY <1>1
    <3>2. \A p \in DOMAIN OutPortIds : DOMAIN sent.host[p] = 1..Len(sent.host[p])
      BY <3>1
    <3> QED
      BY <3>1, <3>2
  <2> DEFINE a == sent.host[p]
             b == outputs[p].list
  <2>1. a \in Seq(Nat) /\ b \in Seq(Nat)
    BY <1>1
  <2>2. Increasing(a \o b, sent.pushed)
    BY DEF AeInv, AeOutput
  <2> HIDE DEF b
  <2>3. i \in 1..Len(a \o b) /\ j \in 1..Len(a \o b) /\ (a \o b)[i] = a[i] /\ (a \o b)[j] = a[j]
    BY <2>1, ConcatProperties
  <2> QED
    BY <2>2, <2>3 DEF Increasing
<1>7. OnlyOldEditsReplaced
  BY DEF AeInv, AeRecall, OnlyOldEditsReplaced
<1> QED
  BY <1>3, <1>4, <1>5, <1>6, <1>7 DEF EachEventOnce

\* A queue begins empty.
LEMMA QueueBegins == AuEventsInit => AeInv
<1> SUFFICES ASSUME AuEventsInit PROVE AeInv
  OBVIOUS
<1>1. AeTypes
  <2>1. adapter \in [there : BOOLEAN, events : Seq(AeEvents), buffers : Nat, recall : BOOLEAN, boundary : Nat]
    BY DEF AuEventsInit
  <2>2. outputs \in [DOMAIN OutPortIds -> [list : Seq(Nat), full : BOOLEAN]]
    BY DEF AuEventsInit
  <2>3. heard \in [once : SUBSET Nat, twice : BOOLEAN, replaced : SUBSET AeEvents, gone : SUBSET Nat]
    BY DEF AuEventsInit
  <2>4. sent \in [count : Nat, dialect : Dialects \cup {"none"}, pushed : Nat, host : [DOMAIN OutPortIds -> Seq(Nat)]]
    BY DEF AuEventsInit
  <2> QED
    BY <2>1, <2>2, <2>3, <2>4 DEF AeTypes
<1>2. AeIds /\ AeKept /\ AeRecall
  BY DEF AuEventsInit, AeIds, Fresh, AeKept, AeRecall
<1>3. AeBuffers
  <2>1. Sysex(adapter.events) = {}
    BY DEF AuEventsInit, Sysex, Range
  <2>2. Cardinality(Sysex(adapter.events)) = 0
    BY <2>1, FS_EmptySet
  <2>3. adapter.buffers = 0
    BY DEF AuEventsInit
  <2> QED
    BY <2>2, <2>3 DEF AeBuffers
<1>4. AeOutput
  <2>1. \A p \in DOMAIN OutPortIds : sent.host[p] \o outputs[p].list = <<>>
    BY DEF AuEventsInit
  <2>2. Increasing(<<>>, sent.pushed)
    BY DEF Increasing
  <2> QED
    BY <2>1, <2>2 DEF AeOutput
<1> QED
  BY <1>1, <1>2, <1>3, <1>4 DEF AeInv

\* A host's list goes on where the queue joined to it goes on.
LEMMA AppendAfterConcat ==
  ASSUME NEW s \in Seq(Nat), NEW t \in Seq(Nat), NEW e \in Nat
  PROVE  s \o Append(t, e) = Append(s \o t, e)
<1>1. s \o t \in Seq(Nat) /\ <<e>> \in Seq(Nat)
  BY ConcatProperties
<1>2. Append(t, e) = t \o <<e>> /\ Append(s \o t, e) = (s \o t) \o <<e>>
  BY <1>1, AppendIsConcat
<1>3. (s \o t) \o <<e>> = s \o (t \o <<e>>)
  BY <1>1, ConcatAssociative, SMTT(60)
<1> QED
  BY <1>2, <1>3

\* A list that increases goes on increasing with the next number.
LEMMA IncreasingGrows ==
  ASSUME NEW s \in Seq(Nat), NEW n \in Nat, Increasing(s, n)
  PROVE  Increasing(Append(s, n + 1), n + 1)
<1> DEFINE t == Append(s, n + 1)
<1>1. Len(s) \in Nat /\ 1..Len(s) + 1 = (1..Len(s)) \cup {Len(s) + 1}
  OBVIOUS
<1>2. \A i \in 1..Len(s) : s[i] \in Nat /\ s[i] <= n
  BY ElementOfSeq DEF Increasing
<1>3. Len(t) = Len(s) + 1 /\ t[Len(s) + 1] = n + 1 /\ \A i \in 1..Len(s) : t[i] = s[i]
  BY AppendProperties
<1> HIDE DEF t
<1>4. \A i \in 1..Len(t) : t[i] <= n + 1
  BY <1>1, <1>2, <1>3
<1>5. ASSUME NEW i \in 1..Len(t), NEW j \in 1..Len(t), i < j PROVE t[i] < t[j]
  <2>1. i \in 1..Len(s) /\ t[i] = s[i]
    BY <1>1, <1>3, <1>5
  <2>2. CASE j \in 1..Len(s)
    BY <1>3, <1>5, <2>1, <2>2 DEF Increasing
  <2>3. CASE j = Len(s) + 1
    BY <1>2, <1>3, <2>1, <2>3
  <2> QED
    BY <1>1, <1>3, <2>2, <2>3
<1> QED
  BY <1>4, <1>5 DEF Increasing, t

\* A message of the plugin's.
LEMMA PluginSendsKeepsOrder == AeInv /\ PluginSends => AeInv'
<1> SUFFICES ASSUME AeInv, PluginSends PROVE AeInv'
  OBVIOUS
<1>1. UNCHANGED <<adapter, heard>> /\ sent' = [sent EXCEPT !.pushed = @ + 1]
  BY DEF PluginSends
<1>2. PICK index \in 0..(Len(OutPortIds) - 1) :
        outputs' = [i \in DOMAIN outputs |->
                     IF i \in PortOf(index) THEN Added(outputs[i], sent.pushed + 1) ELSE outputs[i]]
  BY DEF PluginSends
<1>3. /\ outputs \in [DOMAIN OutPortIds -> [list : Seq(Nat), full : BOOLEAN]]
      /\ sent \in [count : Nat, dialect : Dialects \cup {"none"}, pushed : Nat, host : [DOMAIN OutPortIds -> Seq(Nat)]]
  BY DEF AeInv, AeTypes
<1>4. /\ sent'.count = sent.count /\ sent'.dialect = sent.dialect /\ sent'.pushed = sent.pushed + 1
      /\ sent'.host = sent.host
      /\ sent' \in [count : Nat, dialect : Dialects \cup {"none"}, pushed : Nat, host : [DOMAIN OutPortIds -> Seq(Nat)]]
  <2>1. sent.pushed + 1 \in Nat
    BY <1>3
  <2>2. /\ sent'.count = sent.count /\ sent'.dialect = sent.dialect /\ sent'.pushed = sent.pushed + 1
        /\ sent'.host = sent.host
    BY <1>1, <1>3
  <2>3. sent' \in [count : Nat, dialect : Dialects \cup {"none"}, pushed : Nat, host : [DOMAIN OutPortIds -> Seq(Nat)]]
    BY <1>1, <1>3, <2>1
  <2> QED
    BY <2>2, <2>3
<1>5. ASSUME NEW p \in DOMAIN OutPortIds
      PROVE  /\ outputs'[p] \in [list : Seq(Nat), full : BOOLEAN]
             /\ \/ outputs'[p].list = outputs[p].list
                \/ outputs'[p].list = Append(outputs[p].list, sent.pushed + 1)
  <2>1. outputs[p] \in [list : Seq(Nat), full : BOOLEAN] /\ sent.pushed + 1 \in Nat
    BY <1>3
  <2>2. outputs'[p] = outputs[p] \/ outputs'[p] = Added(outputs[p], sent.pushed + 1)
    BY <1>2, <1>3
  <2>3. Append(outputs[p].list, sent.pushed + 1) \in Seq(Nat)
    BY <2>1, AppendProperties
  <2> QED
    BY <2>1, <2>2, <2>3 DEF Added
<1>6. outputs' \in [DOMAIN OutPortIds -> [list : Seq(Nat), full : BOOLEAN]]
  <2>1. DOMAIN outputs' = DOMAIN OutPortIds /\ outputs' = [p \in DOMAIN outputs' |-> outputs'[p]]
    BY <1>2, <1>3
  <2> QED
    BY <1>5, <2>1
<1>7. AeOutput'
  <2> SUFFICES ASSUME NEW p \in DOMAIN OutPortIds
               PROVE  Increasing(sent.host[p] \o outputs'[p].list, sent.pushed + 1)
    BY <1>4 DEF AeOutput
  <2> DEFINE a == sent.host[p]
             b == outputs[p].list
  <2>1. a \in Seq(Nat) /\ b \in Seq(Nat) /\ a \o b \in Seq(Nat) /\ sent.pushed \in Nat
    BY <1>3, ConcatProperties
  <2>2. Increasing(a \o b, sent.pushed)
    BY DEF AeInv, AeOutput
  <2> DEFINE s == a \o b
             top == sent.pushed + 1
  <2>3. s \in Seq(Nat) /\ Increasing(s, sent.pushed)
    BY <2>1, <2>2
  <2>4. CASE outputs'[p].list = b
    <3> HIDE DEF s
    <3>1. \A i \in 1..Len(s) : s[i] \in Nat
      BY <2>3, ElementOfSeq
    <3>2. Increasing(s, top)
      BY <2>1, <2>3, <3>1 DEF Increasing
    <3> QED
      BY <2>4, <3>2 DEF s
  <2>5. CASE outputs'[p].list = Append(b, top)
    <3>1. a \o Append(b, top) = Append(s, top)
      <4>1. top \in Nat /\ a \in Seq(Nat) /\ b \in Seq(Nat)
        BY <2>1
      <4> HIDE DEF a, b, top, s
      <4>2. a \o Append(b, top) = Append(a \o b, top)
        BY <4>1, AppendAfterConcat
      <4> QED
        BY <4>2 DEF s
    <3>2. Increasing(Append(s, top), top)
      <4> HIDE DEF s
      <4> QED
        BY <2>1, <2>3, IncreasingGrows
    <3> QED
      BY <2>5, <3>1, <3>2
  <2> QED
    BY <1>5, <2>4, <2>5
<1>8. AeTypes'
  BY <1>1, <1>4, <1>6 DEF AeInv, AeTypes
<1> QED
  BY <1>1, <1>4, <1>7, <1>8 DEF AeInv, AeIds, AeKept, AeBuffers, AeRecall, Fresh, Sysex

\* The order of the plugin's messages where only the queue changes.
LEMMA OutputUntouched ==
  ASSUME AeOutput, sent'.host = sent.host, sent'.pushed = sent.pushed, UNCHANGED outputs
  PROVE  AeOutput'
BY DEF AeOutput

\* A queue whose messages are those of another one, no longer late, has no more of them.
LEMMA BuffersSuffice ==
  ASSUME NEW q \in Seq(AeEvents), NEW r, NEW n \in Nat, Cardinality(Sysex(q)) <= n,
         Sysex(r) \subseteq {[e EXCEPT !.late = FALSE] : e \in Sysex(q)}
  PROVE  Cardinality(Sysex(r)) <= n
<1> DEFINE T == {[e EXCEPT !.late = FALSE] : e \in Sysex(q)}
           f == [e \in Sysex(q) |-> [e EXCEPT !.late = FALSE]]
<1>1. IsFiniteSet(Sysex(q))
  BY RangeOfQueue, FS_Subset DEF Sysex
<1>2. f \in Surjection(Sysex(q), T)
  BY DEF Surjection
<1> HIDE DEF f
<1>3. IsFiniteSet(T) /\ Cardinality(T) <= Cardinality(Sysex(q))
  BY <1>1, <1>2, FS_Surjection
<1> HIDE DEF T
<1>4. Sysex(r) \subseteq T
  BY DEF T
<1>5. IsFiniteSet(Sysex(r)) /\ Cardinality(Sysex(r)) <= Cardinality(T)
  BY <1>3, <1>4, FS_Subset
<1>6. Cardinality(T) \in Nat /\ Cardinality(Sysex(q)) \in Nat /\ Cardinality(Sysex(r)) \in Nat
  BY <1>1, <1>3, <1>5, FS_CardinalityType
<1> QED
  BY <1>3, <1>5, <1>6

\* The ids of what the plugin is given.
LEMMA GivenIds ==
  ASSUME AeTypes, NEW parametersOnly \in BOOLEAN
  PROVE  {e.id : e \in Deliverable(parametersOnly)} =
           {adapter.events[i].id : i \in {k \in 1..Len(adapter.events) :
               IF IsParameter(adapter.events[k]) THEN ~ adapter.recall ELSE ~ parametersOnly}}
<1>1. adapter.events \in Seq(AeEvents)
  BY DEF AeTypes
<1>2. Range(adapter.events) = {adapter.events[i] : i \in 1..Len(adapter.events)}
  BY <1>1, RangeOfQueue
<1> QED
  BY <1>2 DEF Deliverable

\* Where the parts of a concatenation are.
Joined(r, s, t) ==
  /\ Len(r) = Len(s) + Len(t)
  /\ \A i \in 1..Len(s) : r[i] = s[i]
  /\ \A i \in 1..Len(t) : r[Len(s) + i] = t[i]
  /\ \A i \in 1..Len(r) : i \in 1..Len(s) \/ \E k \in 1..Len(t) : i = Len(s) + k

\* Every concatenation has them.
LEMMA ConcatParts ==
  ASSUME NEW X, NEW s \in Seq(X), NEW t \in Seq(X)
  PROVE  s \o t \in Seq(X) /\ Joined(s \o t, s, t)
<1> DEFINE r == s \o t
<1>1. /\ r \in Seq(X) /\ Len(r) = Len(s) + Len(t)
      /\ \A i \in 1..Len(s) + Len(t) : r[i] = IF i <= Len(s) THEN s[i] ELSE t[i - Len(s)]
  BY ConcatProperties
<1> HIDE DEF r
<1>2. Len(s) \in Nat /\ Len(t) \in Nat
  OBVIOUS
<1>3. ASSUME NEW i \in 1..Len(r) PROVE i \in 1..Len(s) \/ \E k \in 1..Len(t) : i = Len(s) + k
  <2>1. CASE i <= Len(s)
    BY <1>1, <1>2, <2>1
  <2>2. CASE ~ (i <= Len(s))
    <3>1. i - Len(s) \in 1..Len(t) /\ i = Len(s) + (i - Len(s))
      BY <1>1, <1>2, <2>2
    <3> QED
      BY <3>1
  <2> QED
    BY <2>1, <2>2
<1>4. \A i \in 1..Len(s) : r[i] = s[i]
  BY <1>1, <1>2
<1>5. ASSUME NEW i \in 1..Len(t) PROVE r[Len(s) + i] = t[i]
  <2>1. /\ Len(s) + i \in 1..Len(s) + Len(t) /\ ~ (Len(s) + i <= Len(s))
        /\ (Len(s) + i) - Len(s) = i
    BY <1>2
  <2> QED
    BY <1>1, <2>1
<1> QED
  BY <1>1, <1>3, <1>4, <1>5 DEF Joined, r

\* What leaves the queue needs no buffer.
LEMMA FewerBuffers ==
  ASSUME NEW q \in Seq(AeEvents), NEW r \in Seq(AeEvents), Range(r) \subseteq Range(q),
         NEW n \in Nat, Cardinality(Sysex(q)) <= n
  PROVE  Cardinality(Sysex(r)) <= n
<1>1. Cardinality(Sysex(r)) <= Cardinality(Sysex(q))
  BY FewerSysex
<1>2. IsFiniteSet(Sysex(q)) /\ IsFiniteSet(Sysex(r))
  BY RangeOfQueue, FS_Subset DEF Sysex
<1>3. Cardinality(Sysex(r)) \in Nat /\ Cardinality(Sysex(q)) \in Nat
  BY <1>2, FS_CardinalityType
<1> QED
  BY <1>1, <1>3

\* What the plugin was given is on record.
LEMMA HeardIs ==
  ASSUME AeTypes, NEW delivered, Hear(delivered), NEW given, given = {e.id : e \in delivered}, given \subseteq Nat
  PROVE  /\ heard'.once = heard.once \cup given
         /\ heard'.twice = (heard.twice \/ given \cap heard.once # {})
         /\ heard'.replaced = heard.replaced /\ heard'.gone = heard.gone
         /\ heard' \in [once : SUBSET Nat, twice : BOOLEAN, replaced : SUBSET AeEvents, gone : SUBSET Nat]
<1>1. heard \in [once : SUBSET Nat, twice : BOOLEAN, replaced : SUBSET AeEvents, gone : SUBSET Nat]
  BY DEF AeTypes
<1>2. heard' = [heard EXCEPT !.once = @ \cup given, !.twice = @ \/ given \cap heard.once # {}]
  BY DEF Hear
<1>3. heard.once \cup given \in SUBSET Nat /\ (heard.twice \/ given \cap heard.once # {}) \in BOOLEAN
  BY <1>1
<1> QED
  BY <1>1, <1>2, <1>3

\* A flush gives the plugin the edits and nothing else.
LEMMA FlushKeepsQueue == AeInv /\ FlushAdapter => AeInv'
<1> SUFFICES ASSUME AeInv, FlushAdapter PROVE AeInv'
  OBVIOUS
<1> DEFINE q == adapter.events
           given == {e.id : e \in Deliverable(TRUE)}
<1>1. AeTypes /\ AeIds /\ AeKept /\ AeBuffers /\ AeRecall /\ AeOutput
  BY DEF AeInv
<1>2. q \in Seq(AeEvents) /\ Len(q) \in Nat /\ \A i \in 1..Len(q) : q[i] \in AeEvents /\ q[i].id \in Nat
  <2>1. q \in Seq(AeEvents)
    BY <1>1 DEF AeTypes
  <2> HIDE DEF q
  <2>2. \A i \in 1..Len(q) : q[i] \in AeEvents
    BY <2>1, ElementOfSeq
  <2>3. \A e \in AeEvents : e.id \in Nat
    BY DEF AeEvents
  <2> QED
    BY <2>1, <2>2, <2>3
<1>3. given = {q[i].id : i \in {k \in 1..Len(q) : IF IsParameter(q[k]) THEN ~ adapter.recall ELSE FALSE}}
  BY <1>1, GivenIds
<1>4. given \subseteq Nat
  BY <1>2, <1>3
<1> HIDE DEF given
<1>5. Hear(Deliverable(TRUE)) /\ UNCHANGED <<outputs, sent>>
  BY DEF FlushAdapter
<1>6. /\ heard'.once = heard.once \cup given
      /\ heard'.twice = (heard.twice \/ given \cap heard.once # {})
      /\ heard'.replaced = heard.replaced /\ heard'.gone = heard.gone
      /\ heard' \in [once : SUBSET Nat, twice : BOOLEAN, replaced : SUBSET AeEvents, gone : SUBSET Nat]
  BY <1>1, <1>4, <1>5, HeardIs DEF given
<1>7. AeOutput'
  BY <1>1, <1>5 DEF AeOutput
<1>8. CASE adapter.recall
  <2>1. adapter' = adapter /\ given = {}
    BY <1>3, <1>8 DEF FlushAdapter
  <2>2. heard'.once = heard.once /\ heard'.twice = heard.twice
    BY <1>1, <1>6, <2>1 DEF AeIds, AeTypes
  <2>3. AeTypes'
    BY <1>1, <1>5, <1>6, <2>1 DEF AeTypes
  <2>4. AeIds' /\ AeKept' /\ AeBuffers' /\ AeRecall'
    BY <1>1, <1>5, <1>6, <2>1, <2>2 DEF AeIds, AeKept, AeBuffers, AeRecall, Fresh, Sysex
  <2> QED
    BY <1>7, <2>3, <2>4 DEF AeInv
<1>9. CASE ~ adapter.recall
  <2>1. /\ adapter' = [adapter EXCEPT !.events = Those(adapter.events, FALSE)]
        /\ adapter \in [there : BOOLEAN, events : Seq(AeEvents), buffers : Nat, recall : BOOLEAN, boundary : Nat]
    BY <1>1, <1>9 DEF FlushAdapter, LeftByFlush, AeTypes
  <2>2. /\ adapter'.events = Those(adapter.events, FALSE) /\ adapter'.recall = adapter.recall
        /\ adapter'.boundary = adapter.boundary /\ adapter'.buffers = adapter.buffers
    BY <2>1
  <2>3. given = {q[i].id : i \in {k \in 1..Len(q) : ~ (IsParameter(q[k]) <=> FALSE)}}
    BY <1>3, <1>9
  <2>4. AeIds' /\ AeKept' /\ adapter'.events \in Seq(AeEvents) /\ Range(adapter'.events) \subseteq Range(adapter.events)
    BY <1>1, <1>5, <1>6, <2>2, <2>3, DeliveredOnce
  <2>5. AeTypes'
    <3>1. adapter' \in [there : BOOLEAN, events : Seq(AeEvents), buffers : Nat, recall : BOOLEAN, boundary : Nat]
      BY <2>1, <2>2, <2>4
    <3> QED
      BY <1>1, <1>5, <1>6, <3>1 DEF AeTypes
  <2>6. AeBuffers'
    BY <1>1, <1>2, <2>2, <2>4, FewerBuffers DEF AeBuffers, AeTypes
  <2>7. AeRecall'
    <3>1. adapter.boundary = 0 /\ ~ adapter'.recall /\ adapter'.boundary = 0
      BY <1>1, <1>9, <2>2 DEF AeRecall
    <3>2. \A e \in Range(q) : ~ e.late
      BY <1>1, <1>2, <1>9, RangeOfQueue DEF AeRecall
    <3>3. \A i \in 1..Len(adapter'.events) : adapter'.events[i] \in Range(adapter'.events)
      BY <2>4, RangeOfQueue
    <3>4. 0 <= Len(adapter'.events)
      BY <2>4
    <3> QED
      BY <1>1, <1>6, <2>4, <3>1, <3>2, <3>3, <3>4 DEF AeRecall
  <2> QED
    BY <1>7, <2>4, <2>5, <2>6, <2>7 DEF AeInv
<1> QED
  BY <1>8, <1>9

\* A block gives the plugin everything, or all but the edits while a state is loading.
LEMMA BlockKeepsQueue == AeInv /\ ProcessBlock => AeInv'
<1> SUFFICES ASSUME AeInv, ProcessBlock PROVE AeInv'
  OBVIOUS
<1> DEFINE q == adapter.events
           given == {e.id : e \in Deliverable(FALSE)}
<1>1. AeTypes /\ AeIds /\ AeKept /\ AeBuffers /\ AeRecall /\ AeOutput
  BY DEF AeInv
<1>2. q \in Seq(AeEvents) /\ Len(q) \in Nat /\ \A i \in 1..Len(q) : q[i] \in AeEvents /\ q[i].id \in Nat
  <2>1. q \in Seq(AeEvents)
    BY <1>1 DEF AeTypes
  <2> HIDE DEF q
  <2>2. \A i \in 1..Len(q) : q[i] \in AeEvents
    BY <2>1, ElementOfSeq
  <2>3. \A e \in AeEvents : e.id \in Nat
    BY DEF AeEvents
  <2> QED
    BY <2>1, <2>2, <2>3
<1>3. given = {q[i].id : i \in {k \in 1..Len(q) : IF IsParameter(q[k]) THEN ~ adapter.recall ELSE TRUE}}
  BY <1>1, GivenIds
<1>4. given \subseteq Nat
  BY <1>2, <1>3
<1> HIDE DEF given
<1>5. Hear(Deliverable(FALSE))
  BY DEF ProcessBlock
<1>6. /\ heard'.once = heard.once \cup given
      /\ heard'.twice = (heard.twice \/ given \cap heard.once # {})
      /\ heard'.replaced = heard.replaced /\ heard'.gone = heard.gone
      /\ heard' \in [once : SUBSET Nat, twice : BOOLEAN, replaced : SUBSET AeEvents, gone : SUBSET Nat]
  BY <1>1, <1>4, <1>5, HeardIs DEF given
<1>7. /\ sent' = [sent EXCEPT !.host = [i \in DOMAIN outputs |-> @[i] \o outputs[i].list]]
      /\ outputs' = [i \in DOMAIN outputs |-> [list |-> <<>>, full |-> FALSE]]
      /\ outputs \in [DOMAIN OutPortIds -> [list : Seq(Nat), full : BOOLEAN]]
      /\ sent \in [count : Nat, dialect : Dialects \cup {"none"}, pushed : Nat, host : [DOMAIN OutPortIds -> Seq(Nat)]]
  BY <1>1 DEF ProcessBlock, AeTypes
<1>8. /\ outputs' \in [DOMAIN OutPortIds -> [list : Seq(Nat), full : BOOLEAN]]
      /\ \A p \in DOMAIN OutPortIds : outputs'[p].list = <<>>
  <2>1. [list |-> <<>>, full |-> FALSE] \in [list : Seq(Nat), full : BOOLEAN]
    OBVIOUS
  <2>2. DOMAIN outputs = DOMAIN OutPortIds
    BY <1>7
  <2> QED
    BY <1>7, <2>1, <2>2
<1>9. /\ sent'.count = sent.count /\ sent'.pushed = sent.pushed
      /\ \A p \in DOMAIN OutPortIds : sent'.host[p] = sent.host[p] \o outputs[p].list
      /\ sent' \in [count : Nat, dialect : Dialects \cup {"none"}, pushed : Nat, host : [DOMAIN OutPortIds -> Seq(Nat)]]
  <2> DEFINE h == [i \in DOMAIN outputs |-> sent.host[i] \o outputs[i].list]
  <2>1. \A p \in DOMAIN OutPortIds : sent.host[p] \in Seq(Nat) /\ outputs[p].list \in Seq(Nat)
    BY <1>7
  <2>2. \A p \in DOMAIN OutPortIds : sent.host[p] \o outputs[p].list \in Seq(Nat)
    BY <2>1, ConcatProperties
  <2>3. h \in [DOMAIN OutPortIds -> Seq(Nat)] /\ \A p \in DOMAIN OutPortIds : h[p] = sent.host[p] \o outputs[p].list
    BY <1>7, <2>2
  <2>4. sent' = [sent EXCEPT !.host = h]
    BY <1>7
  <2> HIDE DEF h
  <2>5. sent'.count = sent.count /\ sent'.pushed = sent.pushed /\ sent'.host = h
    BY <1>7, <2>4
  <2>6. sent' \in [count : Nat, dialect : Dialects \cup {"none"}, pushed : Nat, host : [DOMAIN OutPortIds -> Seq(Nat)]]
    BY <1>7, <2>3, <2>4
  <2> QED
    BY <2>3, <2>5, <2>6
<1>10. AeOutput'
  <2> SUFFICES ASSUME NEW p \in DOMAIN OutPortIds
               PROVE  Increasing(sent'.host[p] \o outputs'[p].list, sent'.pushed)
    BY DEF AeOutput
  <2>1. sent'.host[p] \in Seq(Nat)
    BY <1>9
  <2>2. sent'.host[p] \o outputs'[p].list = sent'.host[p]
    BY <1>8, <2>1, ConcatEmptySeq
  <2> QED
    BY <1>1, <1>9, <2>2 DEF AeOutput
<1>11. adapter \in [there : BOOLEAN, events : Seq(AeEvents), buffers : Nat, recall : BOOLEAN, boundary : Nat]
  BY <1>1 DEF AeTypes
<1>12. CASE adapter.recall
  <2>1. adapter' = [adapter EXCEPT !.events = Those(adapter.events, TRUE),
                      !.boundary = BoundaryAfter(adapter.events), !.buffers = 0]
    BY <1>12 DEF ProcessBlock
  <2>2. /\ adapter'.events = Those(adapter.events, TRUE) /\ adapter'.recall = adapter.recall
        /\ adapter'.boundary = BoundaryAfter(adapter.events) /\ adapter'.buffers = 0
        /\ adapter'.there = adapter.there
    BY <1>11, <2>1
  <2>3. given = {q[i].id : i \in {k \in 1..Len(q) : ~ (IsParameter(q[k]) <=> TRUE)}}
    BY <1>3, <1>12
  <2>4. AeIds' /\ AeKept' /\ adapter'.events \in Seq(AeEvents)
    BY <1>1, <1>6, <1>9, <2>2, <2>3, DeliveredOnce
  <2>5. adapter.boundary \in 0..Len(q)
    BY <1>1, <1>2, <1>11 DEF AeRecall
  <2> DEFINE early == Selection(q, TRUE)[adapter.boundary]
             r == Those(q, TRUE)
  <2>6. /\ early \in Seq(AeEvents) /\ Selected(early, q, TRUE, adapter.boundary)
    BY <1>2, <2>5, SelectionHas
  <2>7. Selected(r, q, TRUE, Len(q))
    <3>1. Len(q) \in 0..Len(q)
      BY <1>2
    <3> QED
      BY <1>2, <3>1, SelectionHas DEF Those
  <2>8. Len(early) <= Len(r) /\ \A i \in 1..Len(early) : r[i] = early[i]
    BY <1>2, <2>5, SelectionGrows
  <2>9. Len(early) \in Nat /\ adapter'.boundary = Len(early)
    <3>1. adapter'.boundary = Len(early)
      BY <2>2 DEF BoundaryAfter
    <3> HIDE DEF early
    <3> QED
      BY <2>6, <3>1
  <2>10. AeTypes'
    <3>1. adapter' \in [there : BOOLEAN, events : Seq(AeEvents), buffers : Nat, recall : BOOLEAN, boundary : Nat]
      BY <1>11, <2>1, <2>2, <2>4, <2>9
    <3> QED
      BY <1>6, <1>8, <1>9, <3>1 DEF AeTypes
  <2>11. AeRecall'
    <3> HIDE DEF early, r
    <3>1. \A i \in 1..Len(early) : ~ r[i].late
      <4> SUFFICES ASSUME NEW i \in 1..Len(early) PROVE ~ r[i].late
        OBVIOUS
      <4>1. PICK k \in 1..adapter.boundary : early[i] = q[k]
        BY <2>6 DEF Selected
      <4>2. k \in 1..Len(q) /\ ~ (k > adapter.boundary)
        BY <1>2, <2>5
      <4>3. ~ q[k].late
        BY <1>1, <4>2 DEF AeRecall
      <4> QED
        BY <2>8, <4>1, <4>3
    <3>2. ASSUME NEW i \in 1..Len(r), r[i].late PROVE i > Len(early)
      BY <2>9, <3>1, <3>2
    <3>3. adapter'.events = r
      BY <2>2 DEF r
    <3> QED
      BY <1>1, <1>6, <1>12, <2>2, <2>8, <2>9, <3>2, <3>3 DEF AeRecall
  <2>12. AeBuffers'
    <3>1. \A e \in Range(adapter'.events) : IsParameter(e)
      <4>0. r \in Seq(AeEvents)
        BY <2>2, <2>4
      <4> HIDE DEF r
      <4>1. Range(r) = {r[i] : i \in 1..Len(r)}
        BY <4>0, RangeOfQueue
      <4>2. adapter'.events = r
        BY <2>2 DEF r
      <4> QED
        BY <2>7, <4>1, <4>2 DEF Selected
    <3>2. Sysex(adapter'.events) = {}
      BY <3>1 DEF Sysex, IsParameter
    <3>3. Cardinality(Sysex(adapter'.events)) = 0
      BY <3>2, FS_EmptySet
    <3> HIDE DEF early, r
    <3> QED
      BY <2>2, <3>3 DEF AeBuffers, Sysex
  <2> QED
    BY <1>10, <2>4, <2>10, <2>11, <2>12 DEF AeInv
<1>13. CASE ~ adapter.recall
  <2>1. adapter' = [adapter EXCEPT !.events = <<>>, !.boundary = adapter.boundary, !.buffers = 0]
    BY <1>13 DEF ProcessBlock
  <2>2. /\ adapter'.events = <<>> /\ adapter'.recall = adapter.recall
        /\ adapter'.boundary = 0 /\ adapter'.buffers = 0 /\ adapter'.there = adapter.there
    BY <1>1, <1>11, <1>13, <2>1 DEF AeRecall
  <2>3. given = {q[i].id : i \in 1..Len(q)}
    BY <1>3, <1>13
  <2>4. given \cap heard.once = {} /\ \A id \in given : id <= sent.count
    BY <1>1, <2>3 DEF AeIds, Fresh
  <2>5. AeIds'
    BY <1>1, <1>6, <1>9, <2>2, <2>4 DEF AeIds, Fresh
  <2>6. AeKept'
    BY <1>1, <1>6, <1>9, <2>3 DEF AeKept
  <2>7. AeTypes'
    <3>1. adapter' \in [there : BOOLEAN, events : Seq(AeEvents), buffers : Nat, recall : BOOLEAN, boundary : Nat]
      <4>1. <<>> \in Seq(AeEvents) /\ 0 \in Nat
        OBVIOUS
      <4> QED
        BY <1>11, <2>1, <2>2, <4>1
    <3> QED
      BY <1>6, <1>8, <1>9, <3>1 DEF AeTypes
  <2>8. AeRecall'
    BY <1>1, <1>6, <1>13, <2>2 DEF AeRecall
  <2>9. AeBuffers'
    <3>1. Sysex(<<>>) = {}
      BY DEF Sysex, Range
    <3>2. Cardinality(Sysex(<<>>)) = 0
      BY <3>1, FS_EmptySet
    <3>3. Cardinality(Sysex(adapter'.events)) = 0
      BY <2>2, <3>2
    <3> QED
      BY <2>2, <3>3 DEF AeBuffers, Sysex
  <2> QED
    BY <1>10, <2>5, <2>6, <2>7, <2>8, <2>9 DEF AeInv
<1> QED
  BY <1>12, <1>13

\* A recall begins.
LEMMA BeginKeepsQueue == AeInv /\ BeginRecall => AeInv'
<1> SUFFICES ASSUME AeInv, BeginRecall PROVE AeInv'
  OBVIOUS
<1>1. AeTypes /\ AeIds /\ AeKept /\ AeBuffers /\ AeRecall /\ AeOutput
  BY DEF AeInv
<1>2. /\ adapter \in [there : BOOLEAN, events : Seq(AeEvents), buffers : Nat, recall : BOOLEAN, boundary : Nat]
      /\ adapter' = [adapter EXCEPT !.recall = TRUE, !.boundary = Len(adapter.events)]
      /\ UNCHANGED <<outputs, heard, sent>> /\ ~ adapter.recall
  BY <1>1 DEF BeginRecall, AeTypes
<1>3. Len(adapter.events) \in Nat
  BY <1>2
<1>4. /\ adapter'.events = adapter.events /\ adapter'.buffers = adapter.buffers /\ adapter'.recall
      /\ adapter'.boundary = Len(adapter.events)
  BY <1>2, <1>3
<1>5. adapter' \in [there : BOOLEAN, events : Seq(AeEvents), buffers : Nat, recall : BOOLEAN, boundary : Nat]
  BY <1>2, <1>3
<1>6. AeTypes'
  BY <1>1, <1>2, <1>5 DEF AeTypes
<1>7. AeRecall'
  BY <1>1, <1>2, <1>3, <1>4 DEF AeRecall
<1>8. AeIds' /\ AeKept' /\ AeBuffers' /\ AeOutput'
  BY <1>1, <1>2, <1>4 DEF AeIds, Fresh, AeKept, AeBuffers, Sysex, AeOutput
<1> QED
  BY <1>6, <1>7, <1>8 DEF AeInv

\* The adapter goes: what waited goes with it, or with the other one.
LEMMA ReplaceKeepsQueue == AeInv /\ ReplaceAdapter => AeInv'
<1> SUFFICES ASSUME AeInv, ReplaceAdapter PROVE AeInv'
  OBVIOUS
<1> DEFINE q == adapter.events
           lost == {e.id : e \in Range(q)}
<1>1. AeTypes /\ AeIds /\ AeKept /\ AeBuffers /\ AeRecall /\ AeOutput
  BY DEF AeInv
<1>2. /\ adapter \in [there : BOOLEAN, events : Seq(AeEvents), buffers : Nat, recall : BOOLEAN, boundary : Nat]
      /\ adapter' = [adapter EXCEPT !.there = ~@, !.events = <<>>, !.buffers = 0]
      /\ heard \in [once : SUBSET Nat, twice : BOOLEAN, replaced : SUBSET AeEvents, gone : SUBSET Nat]
      /\ heard' = [heard EXCEPT !.gone = @ \cup lost]
      /\ UNCHANGED <<outputs, sent>> /\ ~ adapter.recall
  BY <1>1 DEF ReplaceAdapter, AeTypes
<1>3. Range(q) = {q[i] : i \in 1..Len(q)} /\ \A i \in 1..Len(q) : q[i] \in AeEvents
  BY <1>2, RangeOfQueue, ElementOfSeq
<1>4. lost = {q[i].id : i \in 1..Len(q)} /\ lost \subseteq Nat
  BY <1>3 DEF AeEvents
<1> HIDE DEF lost
<1>5. /\ adapter'.events = <<>> /\ adapter'.buffers = 0 /\ adapter'.recall = adapter.recall
      /\ adapter'.boundary = adapter.boundary /\ adapter'.there \in BOOLEAN
  BY <1>2
<1>6. /\ heard'.once = heard.once /\ heard'.twice = heard.twice /\ heard'.replaced = heard.replaced
      /\ heard'.gone = heard.gone \cup lost
  BY <1>2
<1>7. AeTypes'
  <2>1. <<>> \in Seq(AeEvents) /\ 0 \in Nat
    OBVIOUS
  <2>2. adapter' \in [there : BOOLEAN, events : Seq(AeEvents), buffers : Nat, recall : BOOLEAN, boundary : Nat]
    BY <1>2, <1>5, <2>1
  <2>3. heard' \in [once : SUBSET Nat, twice : BOOLEAN, replaced : SUBSET AeEvents, gone : SUBSET Nat]
    BY <1>2, <1>4
  <2> QED
    BY <1>1, <1>2, <2>2, <2>3 DEF AeTypes
<1>8. AeRecall'
  BY <1>1, <1>2, <1>5, <1>6 DEF AeRecall
<1>9. AeBuffers'
  <2>1. Sysex(<<>>) = {}
    BY DEF Sysex, Range
  <2>2. Cardinality(Sysex(adapter'.events)) = 0
    BY <1>5, <2>1, FS_EmptySet
  <2> QED
    BY <1>5, <2>2 DEF AeBuffers, Sysex
<1>10. AeIds' /\ AeOutput'
  BY <1>1, <1>2, <1>5, <1>6 DEF AeIds, Fresh, AeOutput
<1>11. AeKept'
  BY <1>1, <1>2, <1>4, <1>6 DEF AeKept
<1> QED
  BY <1>7, <1>8, <1>9, <1>10, <1>11 DEF AeInv

\* What the host sends comes in messages numbered from here.
Numbered(s, count) ==
  /\ s \in Seq(AeEvents) /\ Len(s) \in Nat
  /\ \A i \in 1..Len(s) : s[i].id = count + i /\ ~ s[i].late
  /\ (\E i \in 1..Len(s) : s[i].kind = "sysex") => Len(s) = 1

\* One message and two of them.
LEMMA OneOrTwo ==
  ASSUME NEW count \in Nat
  PROVE  /\ Numbered(<<>>, count)
         /\ \A k \in AeKinds : Numbered(<<Event(k, count + 1)>>, count)
         /\ Numbered(<<Event("on", count + 1)>> \o <<Event("tuning", count + 2)>>, count)
<1>1. Numbered(<<>>, count)
  BY DEF Numbered
<1>2. ASSUME NEW k \in AeKinds PROVE Numbered(<<Event(k, count + 1)>>, count)
  BY DEF Numbered, Event, AeEvents
<1>3. Numbered(<<Event("on", count + 1)>> \o <<Event("tuning", count + 2)>>, count)
  <2> DEFINE a == Event("on", count + 1)
             b == Event("tuning", count + 2)
  <2>1. a \in AeEvents /\ b \in AeEvents
    BY DEF Event, AeEvents, AeKinds
  <2>2. /\ a.id = count + 1 /\ a.kind # "sysex" /\ ~ a.late
        /\ b.id = count + 2 /\ b.kind # "sysex" /\ ~ b.late
    BY DEF Event
  <2> HIDE DEF a, b
  <2> DEFINE s == <<a>> \o <<b>>
  <2>3. /\ s \in Seq(AeEvents) /\ Len(s) = 2
        /\ \A i \in 1..2 : s[i] = IF i <= 1 THEN <<a>>[i] ELSE <<b>>[i - 1]
    <3>1. <<a>> \in Seq(AeEvents) /\ <<b>> \in Seq(AeEvents) /\ Len(<<a>>) = 1 /\ Len(<<b>>) = 1
      BY <2>1
    <3> QED
      BY <3>1, ConcatProperties
  <2> HIDE DEF s
  <2>4. s[1] = a /\ s[2] = b
    BY <2>3
  <2>5. 1..2 = {1, 2}
    OBVIOUS
  <2>6. Numbered(s, count)
    BY <2>2, <2>3, <2>4, <2>5 DEF Numbered
  <2> QED
    BY <2>6 DEF a, b, s
<1> QED
  BY <1>1, <1>2, <1>3

\* Whatever the host calls.
LEMMA FormsNumbered ==
  ASSUME NEW count \in Nat, NEW dialect
  PROVE  \A msg \in Messages(dialect, count + 1) : Numbered(msg, count)
<1>1. /\ Numbered(<<>>, count)
      /\ \A k \in AeKinds : Numbered(<<Event(k, count + 1)>>, count)
      /\ Numbered(<<Event("on", count + 1)>> \o <<Event("tuning", count + 2)>>, count)
  BY OneOrTwo
<1>2. /\ "on" \in AeKinds /\ "off" \in AeKinds /\ "expression" \in AeKinds /\ "midi" \in AeKinds
      /\ "midi2" \in AeKinds /\ "sysex" \in AeKinds /\ "param" \in AeKinds
  BY DEF AeKinds
<1>3. ASSUME NEW status \in {"note", "pressure", "system"}, NEW velocity \in {0, 1}
      PROVE  Numbered(FromMidi(status, velocity, dialect, count + 1), count)
  <2>1. CASE status = "system"
    BY <1>1, <2>1 DEF FromMidi
  <2>2. CASE status = "note" /\ dialect = "clap"
    <3>1. velocity = 0 => FromMidi(status, velocity, dialect, count + 1) = <<Event("off", count + 1)>>
      BY <2>2 DEF FromMidi
    <3>2. velocity # 0 => FromMidi(status, velocity, dialect, count + 1) = <<Event("on", count + 1)>>
      BY <2>2 DEF FromMidi
    <3> QED
      BY <1>1, <1>2, <3>1, <3>2
  <2>3. CASE status = "pressure" /\ dialect = "clap"
    BY <1>1, <1>2, <2>3 DEF FromMidi
  <2>4. CASE status # "system" /\ dialect # "clap"
    BY <1>1, <1>2, <2>4 DEF FromMidi
  <2> QED
    BY <2>1, <2>2, <2>3, <2>4
<1>4. Numbered(FromMidi2("note", dialect, count + 1), count)
  BY <1>1, <1>2, <1>3 DEF FromMidi2
<1>5. Numbered(Started(TRUE, dialect, count + 1), count)
  <2>1. (count + 1) + 1 = count + 2
    OBVIOUS
  <2> QED
    BY <1>1, <1>2, <2>1 DEF Started
<1>6. Numbered(StoppedNote(dialect, count + 1), count)
  BY <1>1, <1>2 DEF StoppedNote
<1>7. Numbered(FromSysex(count + 1), count) /\ Numbered(FromParameter(count + 1), count)
  BY <1>1, <1>2 DEF FromSysex, FromParameter
<1> QED
  <2> DEFINE A == {FromMidi(status, velocity, dialect, count + 1) :
                     status \in {"note", "pressure", "system"}, velocity \in {0, 1}}
             B == {FromMidi2("note", dialect, count + 1), Started(TRUE, dialect, count + 1),
                   StoppedNote(dialect, count + 1), FromSysex(count + 1), FromParameter(count + 1)}
  <2>1. ASSUME NEW msg \in A PROVE Numbered(msg, count)
    <3>1. PICK status \in {"note", "pressure", "system"}, velocity \in {0, 1} :
            msg = FromMidi(status, velocity, dialect, count + 1)
      OBVIOUS
    <3> QED
      BY <1>3, <3>1
  <2>2. ASSUME NEW msg \in B PROVE Numbered(msg, count)
    BY <1>4, <1>5, <1>6, <1>7, Zenon
  <2>3. Messages(dialect, count + 1) = A \cup B
    BY DEF Messages
  <2> HIDE DEF A, B
  <2> QED
    BY <2>1, <2>2, <2>3

\* What the host sends goes to the end of the queue.
LEMMA SendsKeepQueue == AeInv /\ HostSends => AeInv'
<1> SUFFICES ASSUME AeInv, HostSends PROVE AeInv'
  OBVIOUS
<1> DEFINE q == adapter.events
           n == sent.count
<1>1. AeTypes /\ AeIds /\ AeKept /\ AeBuffers /\ AeRecall /\ AeOutput
  BY DEF AeInv
<1>2. /\ adapter \in [there : BOOLEAN, events : Seq(AeEvents), buffers : Nat, recall : BOOLEAN, boundary : Nat]
      /\ sent \in [count : Nat, dialect : Dialects \cup {"none"}, pushed : Nat, host : [DOMAIN OutPortIds -> Seq(Nat)]]
      /\ UNCHANGED <<outputs, heard>>
  BY <1>1 DEF HostSends, AeTypes
<1>3. n \in Nat /\ q \in Seq(AeEvents) /\ Len(q) \in Nat /\ adapter.recall \in BOOLEAN
  BY <1>2
<1>a. \A msg \in Messages(sent.dialect, n + 1) : Numbered(msg, n)
  BY <1>3, FormsNumbered
<1>b. PICK msg \in Messages(sent.dialect, n + 1) :
        /\ adapter' = [adapter EXCEPT
             !.events = @ \o [i \in DOMAIN msg |-> [msg[i] EXCEPT !.late = adapter.recall]],
             !.buffers = IF \E i \in DOMAIN msg : msg[i].kind = "sysex" THEN @ + 1 ELSE @]
        /\ sent' = [sent EXCEPT !.count = @ + Len(msg)]
  BY DEF HostSends
<1>4. /\ Numbered(msg, n)
      /\ adapter' = [adapter EXCEPT
             !.events = @ \o [i \in DOMAIN msg |-> [msg[i] EXCEPT !.late = adapter.recall]],
             !.buffers = IF \E i \in DOMAIN msg : msg[i].kind = "sysex" THEN @ + 1 ELSE @]
      /\ sent' = [sent EXCEPT !.count = @ + Len(msg)]
  BY <1>a, <1>b
<1> DEFINE new == [i \in DOMAIN msg |-> [msg[i] EXCEPT !.late = adapter.recall]]
           r == q \o new
           more == IF \E i \in DOMAIN msg : msg[i].kind = "sysex" THEN adapter.buffers + 1 ELSE adapter.buffers
<1>5. DOMAIN msg = 1..Len(msg) /\ Len(msg) \in Nat /\ \A i \in 1..Len(msg) : msg[i] \in AeEvents
  BY <1>4, ElementOfSeq DEF Numbered
<1>6. /\ new \in Seq(AeEvents) /\ Len(new) = Len(msg)
      /\ \A i \in 1..Len(msg) : new[i].id = n + i /\ new[i].late = adapter.recall /\ new[i].kind = msg[i].kind
  <2>1. \A i \in 1..Len(msg) : [msg[i] EXCEPT !.late = adapter.recall] \in AeEvents
    BY <1>3, <1>5 DEF AeEvents
  <2>2. new \in [1..Len(msg) -> AeEvents]
    BY <1>5, <2>1
  <2>3. new \in Seq(AeEvents) /\ Len(new) = Len(msg)
    BY <1>5, <2>2
  <2>4. \A i \in 1..Len(msg) : new[i] = [msg[i] EXCEPT !.late = adapter.recall]
    BY <1>5
  <2>5. \A i \in 1..Len(msg) : msg[i].id = n + i
    BY <1>4 DEF Numbered
  <2> HIDE DEF new
  <2> QED
    BY <1>5, <2>3, <2>4, <2>5 DEF AeEvents
<1> HIDE DEF new
<1>7. /\ r \in Seq(AeEvents) /\ Len(r) = Len(q) + Len(msg)
      /\ \A i \in 1..Len(q) : r[i] = q[i]
      /\ \A i \in 1..Len(msg) : r[Len(q) + i] = new[i]
      /\ \A i \in 1..Len(r) : i \in 1..Len(q) \/ \E k \in 1..Len(msg) : i = Len(q) + k
  <2> HIDE DEF q
  <2>1. r = q \o new /\ new \in Seq(AeEvents) /\ q \in Seq(AeEvents)
    BY <1>3, <1>6
  <2>2. q \o new \in Seq(AeEvents) /\ Joined(q \o new, q, new)
    BY <2>1, ConcatParts
  <2> HIDE DEF r
  <2>3. r \in Seq(AeEvents) /\ Joined(r, q, new)
    BY <2>1, <2>2
  <2> QED
    BY <1>6, <2>3 DEF Joined
<1> HIDE DEF r
<1>8. /\ adapter'.events = r /\ adapter'.buffers = more /\ adapter'.recall = adapter.recall
      /\ adapter'.boundary = adapter.boundary /\ adapter'.there = adapter.there
  BY <1>2, <1>4 DEF r, new
<1>9. sent'.count = n + Len(msg) /\ sent'.host = sent.host /\ sent'.pushed = sent.pushed
  BY <1>2, <1>4
<1>10. AeTypes'
  <2>1. more \in Nat /\ n + Len(msg) \in Nat
    BY <1>2, <1>3, <1>5
  <2> HIDE DEF more
  <2>2. adapter' \in [there : BOOLEAN, events : Seq(AeEvents), buffers : Nat, recall : BOOLEAN, boundary : Nat]
    <3>1. adapter' = [adapter EXCEPT !.events = r, !.buffers = more]
      BY <1>4 DEF r, new, more
    <3> QED
      BY <1>2, <1>7, <2>1, <3>1
  <2>3. sent' \in [count : Nat, dialect : Dialects \cup {"none"}, pushed : Nat, host : [DOMAIN OutPortIds -> Seq(Nat)]]
    BY <1>2, <1>4, <2>1
  <2> QED
    BY <1>1, <1>2, <2>2, <2>3 DEF AeTypes
<1>11. AeOutput'
  BY <1>1, <1>2, <1>9, OutputUntouched
<1>12. AeIds'
  <2>1. \A i \in 1..Len(r) : r[i].id <= n + Len(msg) /\ r[i].id \notin heard.once
    <3> SUFFICES ASSUME NEW i \in 1..Len(r) PROVE r[i].id <= n + Len(msg) /\ r[i].id \notin heard.once
      OBVIOUS
    <3>1. CASE i \in 1..Len(q)
      <4>1. q[i].id <= n /\ q[i].id \notin heard.once
        BY <1>1, <3>1 DEF AeIds, Fresh
      <4>2. q[i] \in AeEvents
        BY <1>3, <3>1, ElementOfSeq
      <4>3. q[i].id \in Nat
        BY <4>2 DEF AeEvents
      <4>4. r[i] = q[i]
        BY <1>7, <3>1
      <4>5. q[i].id <= n + Len(msg)
        <5> HIDE DEF q
        <5> QED
          BY <1>3, <1>5, <4>1, <4>3
      <4> QED
        BY <4>1, <4>4, <4>5
    <3>2. ASSUME NEW k \in 1..Len(msg), i = Len(q) + k PROVE r[i].id <= n + Len(msg) /\ r[i].id \notin heard.once
      <4>1. r[i].id = n + k
        BY <1>6, <1>7, <3>2
      <4>2. \A id \in heard.once : id <= n
        BY <1>1 DEF AeIds
      <4> QED
        BY <1>3, <1>5, <4>1, <4>2
    <3> QED
      BY <1>7, <3>1, <3>2
  <2>2. ASSUME NEW i \in 1..Len(r), NEW j \in 1..Len(r), r[i].id = r[j].id PROVE i = j
    <3>1. \A k \in 1..Len(q) : r[k].id <= n
      BY <1>1, <1>7 DEF AeIds, Fresh
    <3>2. \A k \in 1..Len(msg) : r[Len(q) + k].id = n + k
      BY <1>6, <1>7
    <3>3. CASE i \in 1..Len(q) /\ j \in 1..Len(q)
      BY <1>1, <1>7, <2>2, <3>3 DEF AeIds, Fresh
    <3>4. ASSUME NEW k \in 1..Len(msg), i = Len(q) + k PROVE i = j
      <4>1. r[i].id = n + k /\ ~ (n + k <= n)
        BY <1>3, <3>2, <3>4
      <4>2. j \notin 1..Len(q)
        BY <2>2, <3>1, <4>1
      <4>3. PICK h \in 1..Len(msg) : j = Len(q) + h
        BY <1>7, <4>2
      <4>4. n + h = n + k
        BY <2>2, <3>2, <4>1, <4>3
      <4>5. h = k
        BY <1>3, <4>4
      <4> QED
        BY <3>4, <4>3, <4>5
    <3>5. ASSUME NEW k \in 1..Len(msg), j = Len(q) + k PROVE i = j
      <4>1. r[j].id = n + k /\ ~ (n + k <= n)
        BY <1>3, <3>2, <3>5
      <4>2. i \notin 1..Len(q)
        BY <2>2, <3>1, <4>1
      <4>3. PICK h \in 1..Len(msg) : i = Len(q) + h
        BY <1>7, <4>2
      <4> QED
        BY <3>4, <4>3
    <3> QED
      BY <1>7, <3>3, <3>4, <3>5
  <2>3. \A id \in heard.once : id <= n + Len(msg)
    <3>1. \A id \in heard.once : id \in Nat /\ id <= n
      BY <1>1 DEF AeIds, AeTypes
    <3> QED
      BY <1>3, <1>5, <3>1
  <2> QED
    BY <1>1, <1>2, <1>8, <1>9, <2>1, <2>2, <2>3 DEF AeIds, Fresh
<1>13. AeKept'
  <2> SUFFICES ASSUME NEW id \in 1..n + Len(msg)
               PROVE  \/ id \in heard.once \/ id \in heard.gone
                      \/ \E i \in 1..Len(r) : r[i].id = id
                      \/ \E e \in heard.replaced : e.id = id
    BY <1>2, <1>8, <1>9 DEF AeKept
  <2>1. CASE id \in 1..n
    <3>1. \A i \in 1..Len(q) : i \in 1..Len(r)
      BY <1>3, <1>5, <1>7
    <3> QED
      BY <1>1, <1>7, <2>1, <3>1 DEF AeKept
  <2>2. CASE id \notin 1..n
    <3>1. id - n \in 1..Len(msg) /\ id = n + (id - n)
      BY <1>3, <1>5, <2>2
    <3>a. \A k \in 1..Len(msg) : Len(q) + k \in 1..Len(r)
      BY <1>3, <1>5, <1>7
    <3>2. r[Len(q) + (id - n)].id = id
      BY <1>6, <1>7, <3>1
    <3> QED
      BY <3>1, <3>2, <3>a
  <2> QED
    BY <2>1, <2>2
<1>14. AeRecall'
  <2>1. adapter.boundary <= Len(r) /\ (~ adapter.recall => adapter.boundary = 0)
    BY <1>1, <1>2, <1>3, <1>5, <1>7 DEF AeRecall
  <2>2. ASSUME NEW i \in 1..Len(r), r[i].late PROVE adapter.recall /\ i > adapter.boundary
    <3>1. CASE i \in 1..Len(q)
      BY <1>1, <1>7, <2>2, <3>1 DEF AeRecall
    <3>2. ASSUME NEW k \in 1..Len(msg), i = Len(q) + k PROVE adapter.recall /\ i > adapter.boundary
      <4>1. r[i].late = adapter.recall
        BY <1>6, <1>7, <3>2
      <4>2. adapter.boundary <= Len(q) /\ adapter.boundary \in Nat
        BY <1>1, <1>2 DEF AeRecall
      <4> QED
        BY <1>3, <1>5, <2>2, <3>2, <4>1, <4>2
    <3> QED
      BY <1>7, <3>1, <3>2
  <2> QED
    BY <1>1, <1>2, <1>8, <2>1, <2>2 DEF AeRecall
<1>15. AeBuffers'
  <2>1. Range(q) = {q[i] : i \in 1..Len(q)} /\ Range(r) = {r[i] : i \in 1..Len(r)} /\ IsFiniteSet(Sysex(q))
    <3>1. IsFiniteSet(Range(q)) /\ Sysex(q) \subseteq Range(q)
      BY <1>3, RangeOfQueue DEF Sysex
    <3>2. IsFiniteSet(Sysex(q))
      BY <3>1, FS_Subset
    <3>3. Range(q) = {q[i] : i \in 1..Len(q)}
      BY <1>3, RangeOfQueue
    <3>4. Range(r) = {r[i] : i \in 1..Len(r)}
      BY <1>7, RangeOfQueue
    <3> QED
      BY <3>2, <3>3, <3>4
  <2>2. Cardinality(Sysex(q)) <= adapter.buffers /\ Cardinality(Sysex(q)) \in Nat /\ adapter.buffers \in Nat
    BY <1>1, <1>2, <2>1, FS_CardinalityType DEF AeBuffers
  <2>3. CASE \E i \in 1..Len(msg) : msg[i].kind = "sysex"
    <3>1. Len(msg) = 1
      BY <1>4, <2>3 DEF Numbered
    <3>2. Sysex(r) \subseteq Sysex(q) \cup {new[1]}
      <4> SUFFICES ASSUME NEW i \in 1..Len(r), r[i].kind = "sysex" PROVE r[i] \in Sysex(q) \cup {new[1]}
        BY <2>1 DEF Sysex
      <4>1. CASE i \in 1..Len(q)
        BY <1>7, <2>1, <4>1 DEF Sysex
      <4>2. CASE ~ i \in 1..Len(q)
        <5>1. r[i] = new[1]
          BY <1>7, <3>1, <4>2
        <5> QED
          BY <5>1
      <4> QED
        BY <4>1, <4>2
    <3>3. IsFiniteSet(Sysex(q) \cup {new[1]}) /\ Cardinality(Sysex(q) \cup {new[1]}) <= Cardinality(Sysex(q)) + 1
      <4>1. /\ IsFiniteSet(Sysex(q) \cup {new[1]})
            /\ Cardinality(Sysex(q) \cup {new[1]}) = IF new[1] \in Sysex(q) THEN Cardinality(Sysex(q)) ELSE Cardinality(Sysex(q)) + 1
        BY <2>1, FS_AddElement
      <4> QED
        BY <2>2, <4>1
    <3>4. IsFiniteSet(Sysex(r)) /\ Cardinality(Sysex(r)) <= Cardinality(Sysex(q) \cup {new[1]})
      BY <3>2, <3>3, FS_Subset
    <3>5. Cardinality(Sysex(r)) \in Nat /\ Cardinality(Sysex(q) \cup {new[1]}) \in Nat
      BY <3>3, <3>4, FS_CardinalityType
    <3>6. Cardinality(Sysex(r)) <= adapter.buffers + 1 /\ adapter'.buffers = adapter.buffers + 1
      BY <1>5, <1>8, <2>2, <2>3, <3>3, <3>4, <3>5
    <3> QED
      BY <1>8, <3>6 DEF AeBuffers, Sysex
  <2>4. CASE ~ \E i \in 1..Len(msg) : msg[i].kind = "sysex"
    <3>1. Sysex(r) \subseteq Sysex(q)
      <4> SUFFICES ASSUME NEW i \in 1..Len(r), r[i].kind = "sysex" PROVE r[i] \in Sysex(q)
        BY <2>1 DEF Sysex
      <4>1. i \in 1..Len(q)
        <5>1. \A k \in 1..Len(msg) : r[Len(q) + k].kind = msg[k].kind /\ msg[k].kind # "sysex"
          BY <1>5, <1>6, <1>7, <2>4
        <5>2. i \in 1..Len(q) \/ \E k \in 1..Len(msg) : i = Len(q) + k
          BY <1>7
        <5> QED
          BY <5>1, <5>2
      <4> QED
        BY <1>7, <2>1, <4>1 DEF Sysex
    <3>2. IsFiniteSet(Sysex(r)) /\ Cardinality(Sysex(r)) <= Cardinality(Sysex(q))
      BY <2>1, <3>1, FS_Subset
    <3>3. Cardinality(Sysex(r)) \in Nat
      BY <3>2, FS_CardinalityType
    <3>4. Cardinality(Sysex(r)) <= adapter.buffers /\ adapter'.buffers = adapter.buffers
      BY <1>5, <1>8, <2>2, <2>4, <3>2, <3>3
    <3> QED
      BY <1>8, <3>4 DEF AeBuffers, Sysex
  <2> QED
    BY <2>3, <2>4
<1> QED
  BY <1>10, <1>11, <1>12, <1>13, <1>14, <1>15 DEF AeInv

\* The recall is over: what it replaces is from before it, the rest stays in the queue.
LEMMA EndKeepsQueue == AeInv /\ EndRecall => AeInv'
<1> SUFFICES ASSUME AeInv, EndRecall PROVE AeInv'
  OBVIOUS
<1> DEFINE q == adapter.events
           b == adapter.boundary
           old == SubSeq(q, 1, b)
           rest == SubSeq(q, b + 1, Len(q))
<1>1. AeTypes /\ AeIds /\ AeKept /\ AeBuffers /\ AeRecall /\ AeOutput
  BY DEF AeInv
<1>2. /\ adapter \in [there : BOOLEAN, events : Seq(AeEvents), buffers : Nat, recall : BOOLEAN, boundary : Nat]
      /\ heard \in [once : SUBSET Nat, twice : BOOLEAN, replaced : SUBSET AeEvents, gone : SUBSET Nat]
      /\ UNCHANGED <<outputs, sent>>
  BY <1>1 DEF EndRecall, AeTypes
<1>3. q \in Seq(AeEvents) /\ Len(q) \in Nat /\ b \in Nat /\ b <= Len(q)
  BY <1>1, <1>2 DEF AeRecall
<1>4. (IF b < Len(q) THEN b ELSE Len(q)) = b
  BY <1>3
<1>5. /\ old \in Seq(AeEvents) /\ Len(old) = b /\ \A i \in 1..b : old[i] = q[i]
      /\ rest \in Seq(AeEvents) /\ Len(rest) = Len(q) - b /\ \A i \in 1..Len(q) - b : rest[i] = q[b + i]
  <2> HIDE DEF q, b
  <2>1. /\ old \in Seq(AeEvents) /\ Len(old) = (IF 1 <= b THEN b - 1 + 1 ELSE 0)
        /\ \A i \in 1..b - 1 + 1 : old[i] = q[1 + i - 1]
    <3>1. 1 \in 1..Len(q) + 1 /\ b \in 0..Len(q)
      BY <1>3
    <3> QED
      BY <1>3, <3>1, SubSeqProperties
  <2>2. /\ rest \in Seq(AeEvents) /\ Len(rest) = (IF b + 1 <= Len(q) THEN Len(q) - (b + 1) + 1 ELSE 0)
        /\ \A i \in 1..Len(q) - (b + 1) + 1 : rest[i] = q[(b + 1) + i - 1]
    <3>1. b + 1 \in 1..Len(q) + 1 /\ Len(q) \in b + 1 - 1..Len(q)
      BY <1>3
    <3> QED
      BY <1>3, <3>1, SubSeqProperties
  <2> HIDE DEF old, rest
  <2>3. Len(old) = b /\ \A i \in 1..b : old[i] = q[i]
    BY <1>3, <2>1
  <2>4. Len(rest) = Len(q) - b
    BY <1>3, <2>2
  <2>5. ASSUME NEW i \in 1..Len(q) - b PROVE rest[i] = q[b + i]
    <3>1. i \in 1..Len(q) - (b + 1) + 1 /\ (b + 1) + i - 1 = b + i
      BY <1>3
    <3> QED
      BY <2>2, <3>1
  <2> QED
    BY <2>1, <2>2, <2>3, <2>4, <2>5
<1>6. Old = old /\ \A loaded \in BOOLEAN : Remaining(loaded) = (IF loaded THEN Those(old, FALSE) ELSE old) \o rest
  <2>1. Old = old
    BY <1>4 DEF Old
  <2>2. Len(old) = b
    BY <1>5
  <2> HIDE DEF old
  <2> QED
    BY <2>1, <2>2 DEF Remaining
<1>7. PICK loaded \in BOOLEAN :
        /\ adapter' = [adapter EXCEPT !.recall = FALSE, !.boundary = 0, !.events = InTime(Remaining(loaded))]
        /\ heard' = [heard EXCEPT !.replaced = @ \cup (IF loaded THEN {e \in Range(Old) : IsParameter(e)} ELSE {})]
  BY DEF EndRecall
<1> DEFINE kept == IF loaded THEN Those(old, FALSE) ELSE old
           left == kept \o rest
           r == InTime(left)
           lostEdits == IF loaded THEN {e \in Range(old) : IsParameter(e)} ELSE {}
<1>8. adapter' = [adapter EXCEPT !.recall = FALSE, !.boundary = 0, !.events = r]
      /\ heard' = [heard EXCEPT !.replaced = @ \cup lostEdits]
  BY <1>6, <1>7
<1>9. /\ kept \in Seq(AeEvents)
      /\ \A i \in 1..Len(kept) : \E k \in 1..b : kept[i] = q[k]
      /\ \A k \in 1..b : (\E i \in 1..Len(kept) : kept[i] = q[k]) \/ (loaded /\ IsParameter(q[k]))
      /\ \A i, j \in 1..Len(kept) : kept[i].id = kept[j].id => i = j
  <2> HIDE DEF q, b
  <2>1. \A i, j \in 1..b : q[i].id = q[j].id => i = j
    BY <1>1, <1>3 DEF AeIds, Fresh, q
  <2>2. CASE ~ loaded
    <3>1. kept = old
      BY <2>2
    <3> HIDE DEF kept, old
    <3>2. kept \in Seq(AeEvents) /\ Len(kept) = b /\ \A i \in 1..b : kept[i] = q[i]
      BY <1>5, <3>1
    <3>3. \A i, j \in 1..Len(kept) : kept[i].id = kept[j].id => i = j
      BY <2>1, <3>2
    <3>4. \A i \in 1..Len(kept) : \E k \in 1..b : kept[i] = q[k]
      BY <3>2
    <3>5. \A k \in 1..b : \E i \in 1..Len(kept) : kept[i] = q[k]
      BY <3>2
    <3> QED
      BY <3>2, <3>3, <3>4, <3>5 DEF IsParameter
  <2>3. CASE loaded
    <3> HIDE DEF old
    <3>1. Len(old) \in 0..Len(old)
      BY <1>3, <1>5
    <3>2. Those(old, FALSE) \in Seq(AeEvents) /\ Selected(Those(old, FALSE), old, FALSE, Len(old))
      BY <1>5, <3>1, SelectionHas DEF Those
    <3>3. kept = Those(old, FALSE)
      BY <2>3
    <3> HIDE DEF kept
    <3>4. kept \in Seq(AeEvents) /\ Selected(kept, old, FALSE, Len(old))
      BY <3>2, <3>3
    <3>5. \A i, j \in 1..Len(old) : old[i].id = old[j].id => i = j
      BY <1>5, <2>1
    <3>6. \A i, j \in 1..Len(kept) : kept[i].id = kept[j].id => i = j
      BY <3>4, <3>5 DEF Selected
    <3>a. Len(old) = b /\ \A i \in 1..b : old[i] = q[i]
      BY <1>5
    <3>b. Selected(kept, old, FALSE, b)
      BY <3>4, <3>a
    <3>7. ASSUME NEW i \in 1..Len(kept) PROVE \E k \in 1..b : kept[i] = q[k]
      <4>1. PICK k \in 1..b : kept[i] = old[k]
        BY <3>b DEF Selected
      <4> QED
        BY <3>a, <4>1
    <3>8. ASSUME NEW k \in 1..b, ~ IsParameter(q[k]) PROVE \E i \in 1..Len(kept) : kept[i] = q[k]
      <4>1. ~ IsParameter(old[k])
        BY <3>8, <3>a
      <4>2. \E i \in 1..Len(kept) : kept[i] = old[k]
        BY <3>b, <4>1 DEF Selected
      <4> QED
        BY <3>a, <4>2
    <3>9. \A k \in 1..b : (\E i \in 1..Len(kept) : kept[i] = q[k]) \/ (loaded /\ IsParameter(q[k]))
      BY <2>3, <3>8 DEF IsParameter
    <3>10. \A i \in 1..Len(kept) : \E k \in 1..b : kept[i] = q[k]
      BY <3>7
    <3> QED
      BY <3>4, <3>6, <3>9, <3>10
  <2> QED
    BY <2>2, <2>3
<1> HIDE DEF kept
<1>10. /\ left \in Seq(AeEvents) /\ Len(left) = Len(kept) + (Len(q) - b)
       /\ \A i \in 1..Len(kept) : left[i] = kept[i]
       /\ \A i \in 1..Len(q) - b : left[Len(kept) + i] = q[b + i]
       /\ \A i \in 1..Len(left) : i \in 1..Len(kept) \/ \E k \in 1..Len(q) - b : i = Len(kept) + k
  <2> HIDE DEF q, b, rest
  <2>1. left = kept \o rest
    OBVIOUS
  <2>2. kept \o rest \in Seq(AeEvents) /\ Joined(kept \o rest, kept, rest)
    BY <1>5, <1>9, ConcatParts
  <2> HIDE DEF left
  <2>3. left \in Seq(AeEvents) /\ Joined(left, kept, rest)
    BY <2>1, <2>2
  <2> QED
    BY <1>5, <2>3 DEF Joined
<1> HIDE DEF left
<1>11. /\ \A k \in 1..b : k \in 1..Len(q)
       /\ \A k \in 1..Len(q) - b : b + k \in 1..Len(q) /\ b + k > b
       /\ \A k \in 1..Len(q) : k \in 1..b \/ \E h \in 1..Len(q) - b : k = b + h
  <2> HIDE DEF q, b
  <2>1. ASSUME NEW k \in 1..Len(q), k \notin 1..b PROVE \E h \in 1..Len(q) - b : k = b + h
    <3>1. k - b \in 1..Len(q) - b /\ k = b + (k - b)
      BY <1>3, <2>1
    <3> QED
      BY <3>1
  <2> QED
    BY <1>3, <2>1
<1>12. \A i, j \in 1..Len(q) : q[i].id = q[j].id => i = j
  BY <1>1 DEF AeIds, Fresh
<1>13. \A i \in 1..Len(left) : \E k \in 1..Len(q) : left[i] = q[k]
  <2> HIDE DEF q, b
  <2> SUFFICES ASSUME NEW i \in 1..Len(left) PROVE \E k \in 1..Len(q) : left[i] = q[k]
    OBVIOUS
  <2>1. CASE i \in 1..Len(kept)
    <3>1. left[i] = kept[i]
      BY <1>10, <2>1
    <3>2. PICK k \in 1..b : kept[i] = q[k]
      BY <1>9, <2>1
    <3>3. k \in 1..Len(q)
      BY <1>11
    <3> QED
      BY <3>1, <3>2, <3>3
  <2>2. ASSUME NEW h \in 1..Len(q) - b, i = Len(kept) + h PROVE \E k \in 1..Len(q) : left[i] = q[k]
    <3>1. left[i] = q[b + h] /\ b + h \in 1..Len(q)
      BY <1>10, <1>11, <2>2
    <3> QED
      BY <3>1
  <2> QED
    BY <1>10, <2>1, <2>2
<1>14. ASSUME NEW k \in 1..Len(q)
       PROVE  (\E i \in 1..Len(left) : left[i] = q[k]) \/ (loaded /\ IsParameter(q[k]) /\ k \in 1..b)
  <2> HIDE DEF q, b
  <2>1. CASE k \in 1..b
    <3>1. CASE loaded /\ IsParameter(q[k])
      BY <2>1, <3>1
    <3>2. ASSUME NEW i \in 1..Len(kept), kept[i] = q[k] PROVE \E j \in 1..Len(left) : left[j] = q[k]
      <4>1. i \in 1..Len(left)
        BY <1>3, <1>9, <1>10
      <4> QED
        BY <1>10, <3>2, <4>1
    <3> QED
      BY <1>9, <2>1, <3>1, <3>2
  <2>2. CASE k \notin 1..b
    <3>a. PICK h \in 1..Len(q) - b : k = b + h
      BY <1>11, <2>2
    <3>1. Len(kept) + h \in 1..Len(left)
      BY <1>3, <1>9, <1>10
    <3>2. left[Len(kept) + h] = q[k]
      BY <1>10, <3>a
    <3>3. \E i \in 1..Len(left) : left[i] = q[k]
      BY <3>1, <3>2
    <3> QED
      BY <3>3 DEF IsParameter
  <2> QED
    BY <2>1, <2>2
<1>15. ASSUME NEW i \in 1..Len(left), NEW j \in 1..Len(left), left[i].id = left[j].id PROVE i = j
  <2> HIDE DEF q, b
  <2>1. \A k \in 1..Len(kept), h \in 1..Len(q) - b : left[k].id # left[Len(kept) + h].id
    <3> SUFFICES ASSUME NEW k \in 1..Len(kept), NEW h \in 1..Len(q) - b, left[k].id = left[Len(kept) + h].id
                 PROVE  FALSE
      OBVIOUS
    <3>1. PICK g \in 1..b : kept[k] = q[g]
      BY <1>9
    <3>2. q[g].id = q[b + h].id
      BY <1>10, <3>1
    <3>3. g = b + h
      BY <1>11, <1>12, <3>2
    <3> QED
      BY <1>3, <3>3
  <2>2. \A k, h \in 1..Len(q) - b : left[Len(kept) + k].id = left[Len(kept) + h].id => k = h
    <3> SUFFICES ASSUME NEW k \in 1..Len(q) - b, NEW h \in 1..Len(q) - b,
                        left[Len(kept) + k].id = left[Len(kept) + h].id
                 PROVE  k = h
      OBVIOUS
    <3>1. q[b + k].id = q[b + h].id
      BY <1>10
    <3>2. b + k \in 1..Len(q) /\ b + h \in 1..Len(q)
      BY <1>11
    <3>3. b + k = b + h
      BY <1>12, <3>1, <3>2
    <3> QED
      BY <1>3, <3>3
  <2>a. \A m \in {i, j} : m \in 1..Len(kept) \/ \E k \in 1..Len(q) - b : m = Len(kept) + k
    BY <1>10
  <2>3. CASE i \in 1..Len(kept) /\ j \in 1..Len(kept)
    BY <1>9, <1>10, <1>15, <2>3
  <2>4. CASE i \notin 1..Len(kept) /\ j \notin 1..Len(kept)
    BY <1>15, <2>2, <2>4, <2>a
  <2>5. CASE i \in 1..Len(kept) /\ j \notin 1..Len(kept)
    BY <1>15, <2>1, <2>5, <2>a
  <2>6. CASE i \notin 1..Len(kept) /\ j \in 1..Len(kept)
    BY <1>15, <2>1, <2>6, <2>a
  <2> QED
    BY <2>3, <2>4, <2>5, <2>6
<1>16. /\ r \in Seq(AeEvents) /\ Len(r) = Len(left)
       /\ \A i \in 1..Len(left) : r[i] = [left[i] EXCEPT !.late = FALSE] /\ left[i] \in AeEvents
  <2>1. DOMAIN left = 1..Len(left) /\ Len(left) \in Nat /\ \A i \in 1..Len(left) : left[i] \in AeEvents
    BY <1>10, ElementOfSeq
  <2>2. \A i \in 1..Len(left) : [left[i] EXCEPT !.late = FALSE] \in AeEvents
    BY <2>1 DEF AeEvents
  <2>3. r = [i \in 1..Len(left) |-> [left[i] EXCEPT !.late = FALSE]]
    BY <2>1 DEF InTime
  <2> HIDE DEF r
  <2>4. r \in [1..Len(left) -> AeEvents]
    BY <2>2, <2>3
  <2>5. r \in Seq(AeEvents) /\ Len(r) = Len(left)
    BY <2>1, <2>4
  <2> QED
    BY <2>1, <2>3, <2>5
<1> HIDE DEF r
<1>17. \A i \in 1..Len(r) : r[i].id = left[i].id /\ r[i].kind = left[i].kind /\ r[i].late = FALSE
  BY <1>16 DEF AeEvents
<1>18. /\ adapter'.events = r /\ adapter'.recall = FALSE /\ adapter'.boundary = 0
       /\ adapter'.buffers = adapter.buffers
       /\ heard'.once = heard.once /\ heard'.twice = heard.twice /\ heard'.gone = heard.gone
       /\ heard'.replaced = heard.replaced \cup lostEdits
  <2> HIDE DEF lostEdits
  <2> QED
    BY <1>2, <1>8
<1>19. /\ lostEdits \subseteq AeEvents
       /\ lostEdits = IF loaded THEN {q[k] : k \in {h \in 1..b : IsParameter(q[h])}} ELSE {}
  <2> HIDE DEF q, b
  <2>1. Range(old) = {old[i] : i \in 1..Len(old)} /\ \A i \in 1..Len(old) : old[i] \in AeEvents
    BY <1>5, RangeOfQueue, ElementOfSeq
  <2>2. lostEdits = IF loaded THEN {e \in Range(old) : IsParameter(e)} ELSE {}
    OBVIOUS
  <2>3. Len(old) = b /\ \A i \in 1..b : old[i] = q[i]
    BY <1>5
  <2> HIDE DEF old, lostEdits
  <2>4. Range(old) = {q[i] : i \in 1..b} /\ Range(old) \subseteq AeEvents
    BY <2>1, <2>3
  <2>5. {e \in Range(old) : IsParameter(e)} = {q[k] : k \in {h \in 1..b : IsParameter(q[h])}}
    BY <2>4
  <2> QED
    BY <2>2, <2>4, <2>5
<1> HIDE DEF lostEdits
<1>20. AeTypes'
  <2>1. adapter' \in [there : BOOLEAN, events : Seq(AeEvents), buffers : Nat, recall : BOOLEAN, boundary : Nat]
    BY <1>2, <1>8, <1>16
  <2>2. heard' \in [once : SUBSET Nat, twice : BOOLEAN, replaced : SUBSET AeEvents, gone : SUBSET Nat]
    BY <1>2, <1>8, <1>19
  <2> QED
    BY <1>1, <1>2, <2>1, <2>2 DEF AeTypes
<1>21. AeIds'
  <2>1. \A i \in 1..Len(r) : r[i].id <= sent.count /\ r[i].id \notin heard.once
    BY <1>1, <1>13, <1>16, <1>17 DEF AeIds, Fresh
  <2>2. \A i, j \in 1..Len(r) : r[i].id = r[j].id => i = j
    BY <1>15, <1>16, <1>17
  <2> QED
    BY <1>1, <1>2, <1>18, <2>1, <2>2 DEF AeIds, Fresh
<1>22. AeKept'
  <2> SUFFICES ASSUME NEW id \in 1..sent.count
               PROVE  \/ id \in heard.once \/ id \in heard.gone
                      \/ \E i \in 1..Len(r) : r[i].id = id
                      \/ \E e \in heard.replaced \cup lostEdits : e.id = id
    BY <1>2, <1>18 DEF AeKept
  <2>1. CASE \E k \in 1..Len(q) : q[k].id = id
    <3>1. PICK k \in 1..Len(q) : q[k].id = id
      BY <2>1
    <3>2. CASE \E i \in 1..Len(left) : left[i] = q[k]
      BY <1>16, <1>17, <3>1, <3>2
    <3>3. CASE loaded /\ IsParameter(q[k]) /\ k \in 1..b
      BY <1>19, <3>1, <3>3
    <3> QED
      BY <1>14, <3>2, <3>3
  <2>2. CASE ~ \E k \in 1..Len(q) : q[k].id = id
    BY <1>1, <2>2 DEF AeKept
  <2> QED
    BY <2>1, <2>2
<1>23. AeBuffers'
  <2>1. Range(q) = {q[i] : i \in 1..Len(q)}
    BY <1>3, RangeOfQueue
  <2>2. Range(r) = {r[i] : i \in 1..Len(r)}
    BY <1>16, RangeOfQueue
  <2>3. Sysex(r) \subseteq {[e EXCEPT !.late = FALSE] : e \in Sysex(q)}
    <3> SUFFICES ASSUME NEW i \in 1..Len(r), r[i].kind = "sysex"
                 PROVE  r[i] \in {[e EXCEPT !.late = FALSE] : e \in Sysex(q)}
      BY <2>2 DEF Sysex
    <3>1. left[i].kind = "sysex" /\ r[i] = [left[i] EXCEPT !.late = FALSE]
      BY <1>16, <1>17
    <3>2. left[i] \in Sysex(q)
      BY <1>13, <1>16, <2>1, <3>1 DEF Sysex
    <3> QED
      BY <3>1, <3>2
  <2>4. Cardinality(Sysex(q)) <= adapter.buffers /\ adapter.buffers \in Nat
    BY <1>1, <1>2 DEF AeBuffers
  <2>5. Cardinality(Sysex(r)) <= adapter.buffers
    <3> HIDE DEF q
    <3> QED
      BY <1>3, <2>3, <2>4, BuffersSuffice
  <2> QED
    BY <1>18, <2>5 DEF AeBuffers, Sysex
<1>24. AeRecall'
  <2>1. \A e \in heard.replaced \cup lostEdits : ~ e.late
    <3>1. \A k \in 1..b : ~ q[k].late
      <4> SUFFICES ASSUME NEW k \in 1..b PROVE ~ q[k].late
        OBVIOUS
      <4>1. k \in 1..Len(q) /\ ~ (k > b)
        BY <1>3
      <4> QED
        BY <1>1, <4>1 DEF AeRecall
    <3> QED
      BY <1>1, <1>19, <3>1 DEF AeRecall
  <2>2. 0 <= Len(r)
    BY <1>16
  <2> QED
    BY <1>17, <1>18, <2>1, <2>2 DEF AeRecall
<1>25. AeOutput'
  BY <1>1, <1>2, OutputUntouched
<1> QED
  BY <1>20, <1>21, <1>22, <1>23, <1>24, <1>25 DEF AeInv

\* The dialect of the input is settled.
LEMMA SetupKeepsQueue == AeInv /\ SetupMIDIBusses => AeInv'
<1> SUFFICES ASSUME AeInv, SetupMIDIBusses PROVE AeInv'
  OBVIOUS
<1>1. AeTypes /\ AeIds /\ AeKept /\ AeBuffers /\ AeRecall /\ AeOutput
  BY DEF AeInv
<1>2. PICK d \in Dialects : sent' = [sent EXCEPT !.dialect = d]
  BY DEF SetupMIDIBusses
<1>3. /\ sent \in [count : Nat, dialect : Dialects \cup {"none"}, pushed : Nat, host : [DOMAIN OutPortIds -> Seq(Nat)]]
      /\ UNCHANGED <<adapter, outputs, heard>>
  BY <1>1 DEF SetupMIDIBusses, AeTypes
<1>4. /\ sent' \in [count : Nat, dialect : Dialects \cup {"none"}, pushed : Nat, host : [DOMAIN OutPortIds -> Seq(Nat)]]
      /\ sent'.count = sent.count /\ sent'.pushed = sent.pushed /\ sent'.host = sent.host
  BY <1>2, <1>3
<1> QED
  BY <1>1, <1>3, <1>4 DEF AeInv, AeTypes, AeIds, Fresh, AeKept, AeBuffers, AeRecall, AeOutput

\* Every step of the queue.
LEMMA EventQueueKept == AeInv /\ AuEventsNext => AeInv'
<1> SUFFICES ASSUME AeInv, AuEventsNext PROVE AeInv'
  OBVIOUS
<1>1. CASE SetupMIDIBusses
  BY <1>1, SetupKeepsQueue
<1>2. CASE HostSends
  BY <1>2, SendsKeepQueue
<1>3. CASE ProcessBlock
  BY <1>3, BlockKeepsQueue
<1>4. CASE FlushAdapter
  BY <1>4, FlushKeepsQueue
<1>5. CASE BeginRecall
  BY <1>5, BeginKeepsQueue
<1>6. CASE EndRecall
  BY <1>6, EndKeepsQueue
<1>7. CASE ReplaceAdapter
  BY <1>7, ReplaceKeepsQueue
<1>8. CASE PluginSends
  BY <1>8, PluginSendsKeepsOrder
<1> QED
  BY <1>1, <1>2, <1>3, <1>4, <1>5, <1>6, <1>7, <1>8 DEF AuEventsNext

-----------------------------------------------------------------------------
(* The bypass and the ports of an Audio Unit. *)

Orders == {<<>>} \cup {OrderedList(o) : o \in ParamOrders}

\* A bypass the host wrote is on its way, a change of the plugin's is not told, or all agree.
ByInv ==
  /\ bypass \in [plugin : {0, 1}, wrapper : {0, 1}, changed : BOOLEAN,
                 queued : {<<>>, <<0>>, <<1>>}, edited : BOOLEAN, shown : {0, 1},
                 order : Orders, listed : Orders]
  /\ bypass.queued # <<>> => bypass.wrapper = bypass.queued[1]
  /\ bypass.queued = <<>> /\ ~ bypass.edited => bypass.wrapper = bypass.plugin
  /\ ~ bypass.changed => bypass.shown = bypass.wrapper

\* Either way of the host's, the plugin's edits and its rescans keep that.
LEMMA BypassKept ==
  ASSUME ByInv, BypassNext, ~ RescanWhileQueued
  PROVE  ByInv'
<1> USE DEF ByInv
<1>1. CASE SetBypassEffect
  <2>1. PICK on \in {0, 1} :
          bypass' = IF on = bypass.wrapper THEN [bypass EXCEPT !.shown = on]
                    ELSE [bypass EXCEPT !.wrapper = on, !.shown = on, !.queued = <<on>>]
    BY <1>1 DEF SetBypassEffect
  <2>2. CASE on = bypass.wrapper
    BY <2>1, <2>2
  <2>3. CASE on # bypass.wrapper
    BY <2>1, <2>3
  <2> QED
    BY <2>2, <2>3
<1>2. CASE WriteBypass
  <2>1. PICK v \in {0, 1} : bypass' = NoteBypass([bypass EXCEPT !.queued = <<v>>], v)
    BY <1>2 DEF WriteBypass
  <2>2. CASE v = bypass.wrapper
    BY <2>1, <2>2 DEF NoteBypass
  <2>3. CASE v # bypass.wrapper
    BY <2>1, <2>3 DEF NoteBypass
  <2> QED
    BY <2>2, <2>3
<1>3. CASE PluginEdits
  BY <1>3 DEF PluginEdits
<1>4. CASE DeliverBypass
  <2>1. CASE bypass.queued # <<>>
    BY <1>4, <2>1 DEF DeliverBypass
  <2>2. CASE bypass.queued = <<>> /\ bypass.edited
    BY <1>4, <2>2 DEF DeliverBypass, NoteBypass
  <2>3. CASE bypass.queued = <<>> /\ ~ bypass.edited
    BY <1>4, <2>3 DEF DeliverBypass
  <2> QED
    BY <2>1, <2>2, <2>3
<1>5. CASE RescanParameters
  <2>1. PICK order \in ParamOrders, all \in BOOLEAN :
          bypass' = [bypass EXCEPT !.wrapper = bypass.plugin, !.order = OrderedList(order),
                       !.listed = IF all THEN OrderedList(order) ELSE @,
                       !.shown = IF bypass.plugin # bypass.wrapper THEN bypass.plugin ELSE @]
    BY <1>5 DEF RescanParameters
  <2>3. OrderedList(order) \in Orders
    BY <2>1 DEF Orders
  <2>2. bypass.queued = <<>>
    BY <1>5 DEF RescanParameters
  <2> QED
    BY <2>1, <2>2, <2>3
<1>6. CASE IdleBypass
  BY <1>6 DEF IdleBypass
<1> QED
  BY <1>1, <1>2, <1>3, <1>4, <1>5, <1>6 DEF BypassNext

\* An element with a port behind it is as wide as the port.
Agree ==
  \A side \in Sides : \A i \in DOMAIN elements[side] :
    i \in DOMAIN auPorts[side] => elements[side][i] = auPorts[side][i].channels

\* While no other layout is known, no element can be set to anything else.
PtInv ==
  /\ unit \in [plugin : PortPlugins, made : BOOLEAN, initialized : BOOLEAN]
  /\ DOMAIN elements = Sides
  /\ ~ unit.made => elements = Widths(auPorts) /\ layouts = {} /\ ~ unit.initialized
  /\ unit.made => caches = auPorts
  /\ unit.initialized \/ layouts = {} => Agree

\* Probing, the host's formats, Initialize and Uninitialize keep that.
LEMMA PortsKept == PtInv /\ PortsNext => PtInv'
<1> SUFFICES ASSUME PtInv, PortsNext PROVE PtInv'
  OBVIOUS
<1>1. CASE PostConstructor
  <2>1. /\ ~ unit.made /\ unit' = [unit EXCEPT !.made = TRUE] /\ ~ unit.initialized
        /\ elements = Widths(auPorts) /\ layouts = {}
    BY <1>1 DEF PtInv, PostConstructor
  <2>2. /\ unit' \in [plugin : PortPlugins, made : BOOLEAN, initialized : BOOLEAN]
        /\ unit'.made /\ ~ unit'.initialized
    BY <2>1 DEF PtInv
  <2>3. \A plugin, shown : DOMAIN Placeholders(plugin, shown) = Sides
    BY DEF Placeholders
  <2>4. CASE CanProbe(unit.plugin, auPorts)
    <3>1. /\ \E plugin, shown : elements' = Placeholders(plugin, shown)
          /\ layouts' # {}
      BY <1>1, <2>4 DEF PostConstructor
    <3>2. caches' = auPorts'
      BY <1>1, <2>4 DEF PostConstructor, Refreshed
    <3> QED
      BY <2>2, <2>3, <3>1, <3>2 DEF PtInv
  <2>5. CASE ~ CanProbe(unit.plugin, auPorts)
    <3>1. caches' = auPorts /\ elements' = Placeholders(unit.plugin, elements) /\ UNCHANGED <<auPorts, layouts>>
      BY <1>1, <2>5 DEF PostConstructor
    <3>2. Agree'
      <4> SUFFICES ASSUME NEW side \in Sides, NEW i \in DOMAIN elements'[side], i \in DOMAIN auPorts[side]
                   PROVE  elements'[side][i] = auPorts[side][i].channels
        BY <3>1 DEF Agree
      <4>1. elements[side] = [j \in DOMAIN auPorts[side] |-> auPorts[side][j].channels]
        BY <2>1 DEF Widths, Channels
      <4>2. elements[side] # <<>>
        BY <4>1
      <4>3. elements'[side] = elements[side]
        BY <3>1, <4>2 DEF Placeholders
      <4> QED
        BY <4>1, <4>3
    <3> QED
      BY <2>2, <2>3, <3>1, <3>2 DEF PtInv
  <2> QED
    BY <2>4, <2>5
<1>2. CASE SetStreamFormat
  <2>1. PICK side \in Sides : \E i \in DOMAIN elements[side], channels \in FormatChannels :
          /\ ValidFormat(side, i, channels)
          /\ elements' = [elements EXCEPT ![side][i] = channels]
    BY <1>2 DEF SetStreamFormat
  <2>2. PICK i \in DOMAIN elements[side], channels \in FormatChannels :
          /\ ValidFormat(side, i, channels)
          /\ elements' = [elements EXCEPT ![side][i] = channels]
    BY <2>1
  <2>3. UNCHANGED <<auPorts, caches, layouts, unit>> /\ unit.made /\ caches = auPorts /\ DOMAIN elements = Sides
    BY <1>2 DEF SetStreamFormat, PtInv
  <2>4. /\ DOMAIN elements' = Sides
        /\ \A s \in Sides \ {side} : elements'[s] = elements[s]
        /\ elements'[side] = [elements[side] EXCEPT ![i] = channels]
    BY <2>2, <2>3
  <2>5. ASSUME unit.initialized \/ layouts = {} PROVE Agree'
    <3>1. Agree
      BY <2>5 DEF PtInv
    <3>2. i \in DOMAIN auPorts[side] => channels = auPorts[side][i].channels
      <4>1. DOMAIN <<>> = {}
        OBVIOUS
      <4> QED
        BY <2>2, <2>3, <2>5, <4>1 DEF ValidFormat
    <3> QED
      BY <2>3, <2>4, <3>1, <3>2 DEF Agree
  <2> QED
    BY <2>3, <2>4, <2>5 DEF PtInv
<1>3. CASE InitializePorts
  <2>1. unit.made /\ ~ unit.initialized /\ caches = auPorts /\ UNCHANGED layouts
    BY <1>3 DEF InitializePorts, PtInv
  <2>2. CASE (layouts = {} \/ ~ Mismatch) /\ unit' = [unit EXCEPT !.initialized = TRUE]
             /\ UNCHANGED <<auPorts, caches, elements>>
    <3>1. Agree
      <4>1. CASE layouts = {}
        BY <4>1 DEF PtInv
      <4>2. CASE ~ Mismatch
        <5> SUFFICES ASSUME NEW side \in Sides, NEW i \in DOMAIN elements[side], i \in DOMAIN auPorts[side]
                     PROVE  elements[side][i] = auPorts[side][i].channels
          BY DEF Agree
        <5>1. Settled[side] = [j \in DOMAIN caches[side] \cap DOMAIN elements[side] |-> elements[side][j]]
          BY DEF Settled
        <5>2. i \in DOMAIN Settled[side] /\ Settled[side][i] = elements[side][i]
          BY <2>1, <5>1
        <5> QED
          BY <2>1, <4>2, <5>2 DEF Mismatch
      <4> QED
        BY <2>2, <4>1, <4>2
    <3>2. Agree'
      BY <2>2, <3>1 DEF Agree
    <3> QED
      BY <2>1, <2>2, <3>2 DEF PtInv
  <2>3. CASE /\ auPorts' = unit.plugin.becomes[Settled]
             /\ caches' = Refreshed(caches, elements, auPorts')[1]
             /\ elements' = Refreshed(caches, elements, auPorts')[2]
             /\ unit' = [unit EXCEPT !.initialized = TRUE]
    <3>1. /\ caches' = auPorts'
          /\ elements' = [side \in Sides |-> [i \in DOMAIN elements[side] |->
                IF i \in DOMAIN auPorts'[side] THEN auPorts'[side][i].channels ELSE elements[side][i]]]
      BY <2>3 DEF Refreshed
    <3>2. Agree'
      BY <3>1 DEF Agree
    <3> QED
      BY <2>1, <2>3, <3>1, <3>2 DEF PtInv
  <2> QED
    BY <1>3, <2>2, <2>3 DEF InitializePorts
<1>4. CASE UninitializePorts
  <2>1. unit' = [unit EXCEPT !.initialized = FALSE] /\ UNCHANGED <<auPorts, caches, elements, layouts>> /\ unit.initialized
    BY <1>4 DEF UninitializePorts
  <2>2. Agree
    BY <2>1 DEF PtInv
  <2>3. Agree'
    BY <2>1, <2>2 DEF Agree
  <2>4. unit.made
    BY <2>1 DEF PtInv
  <2> QED
    BY <2>1, <2>3, <2>4 DEF PtInv
<1> QED
  BY <1>1, <1>2, <1>3, <1>4 DEF PortsNext

-----------------------------------------------------------------------------
\* A GUI goes with the view it is in and leaves no handler behind, for any frames, views,
\* descriptors and sizes.
THEOREM GuisAreWithTheirViews ==
  ASSUME ~ FrameToFrame, ~ DropsUnseen, ~ StaleViewsStay
  PROVE  Spec => []GuisGoWithTheirViews
<1>1. Init => VwInv /\ VsInv
  <2> SUFFICES ASSUME Init PROVE VwInv /\ VsInv
    OBVIOUS
  <2>a. ViewInit
    BY DEF Init
  <2>1. VwInv
    BY <2>a DEF ViewInit, VwInv, HandlersFollowRunLoop, GuiGoesWithView
  <2>2. views = [unit |-> TRUE, alive |-> {}, canary |-> [v \in AuViews |-> FALSE], window |-> "none",
                 gui |-> FALSE, parent |-> "none", parked |-> FALSE, astray |-> FALSE]
    BY DEF Init, ViewsInit
  <2> QED
    BY <2>1, <2>2 DEF VsInv, VsTypes, GuiIsInALiveView
<1>2. VwInv /\ VsInv /\ [Next]_partsVars => (VwInv /\ VsInv)'
  <2> SUFFICES ASSUME VwInv, VsInv, [Next]_partsVars PROVE (VwInv /\ VsInv)'
    OBVIOUS
  <2>1. VwInv'
    <3>1. CASE UNCHANGED viewVars
      BY <3>1 DEF VwInv, viewVars, loopVars, sizeVars, menuVars, HandlersFollowRunLoop, GuiGoesWithView
    <3>2. CASE ViewNext
      BY <3>2, ViewKept
    <3> QED
      BY <3>1, <3>2 DEF Next, partsVars
  <2>2. VsInv'
    <3>1. CASE UNCHANGED views
      BY <3>1 DEF VsInv, VsTypes, GuiIsInALiveView
    <3>2. CASE AuViewsNext
      BY <3>2, ViewsKept
    <3>3. BypassNext => UNCHANGED views
      BY DEF BypassNext, SetBypassEffect, WriteBypass, PluginEdits, DeliverBypass, RescanParameters, IdleBypass
    <3> QED
      BY <3>1, <3>2, <3>3 DEF Next, partsVars, sideVars
  <2> QED
    BY <2>1, <2>2
<1>3. VwInv /\ VsInv => GuisGoWithTheirViews
  BY DEF VwInv, VsInv, GuisGoWithTheirViews
<1> QED
  BY <1>1, <1>2, <1>3, PTL DEF Spec

\* Each event of an Audio Unit arrives once and a recall replaces old edits only, the bypass
\* buttons agree and the render writes as many channels as an element has, for any events,
\* plugins, formats and orders.
THEOREM UnitsAgreeWithTheirHosts ==
  ASSUME ~ RescanWhileQueued
  PROVE  Spec => []AuHostAgrees
<1>1. Init => AeInv /\ ByInv /\ PtInv
  <2> SUFFICES ASSUME Init PROVE AeInv /\ ByInv /\ PtInv
    OBVIOUS
  <2>1. AuEventsInit /\ BypassInit /\ PortsInit
    BY DEF Init
  <2>2. ByInv
    BY <2>1 DEF BypassInit, ByInv, Orders
  <2>3. PtInv
    <3>1. DOMAIN elements = Sides
      BY <2>1 DEF PortsInit, Widths
    <3>2. Agree
      BY <2>1 DEF PortsInit, Widths, Channels, Agree
    <3> QED
      BY <2>1, <3>1, <3>2 DEF PortsInit, PtInv
  <2> QED
    BY <2>1, <2>2, <2>3, QueueBegins
<1>2. AeInv /\ ByInv /\ PtInv /\ [Next]_partsVars => (AeInv /\ ByInv /\ PtInv)'
  <2> SUFFICES ASSUME AeInv, ByInv, PtInv, [Next]_partsVars PROVE (AeInv /\ ByInv /\ PtInv)'
    OBVIOUS
  <2>1. AeInv'
    <3>1. CASE UNCHANGED eventVars
      BY <3>1 DEF eventVars, AeInv, AeTypes, AeIds, Fresh, AeKept, AeBuffers, Sysex, AeRecall, AeOutput
    <3>2. CASE AuEventsNext
      BY <3>2, EventQueueKept
    <3> QED
      BY <3>1, <3>2 DEF Next, partsVars
  <2>2. ByInv'
    <3>1. CASE UNCHANGED bypass
      BY <3>1 DEF ByInv
    <3>2. CASE BypassNext
      BY <3>2, BypassKept
    <3>3. AuViewsNext => UNCHANGED bypass
      BY DEF AuViewsNext, MakeView, FreeView, DisposeUnit, ParkResize, ApplyResize
    <3> QED
      BY <3>1, <3>2, <3>3 DEF Next, partsVars, sideVars
  <2>3. PtInv'
    <3>1. CASE UNCHANGED portVars
      BY <3>1 DEF portVars, PtInv, Agree
    <3>2. CASE PortsNext
      BY <3>2, PortsKept
    <3> QED
      BY <3>1, <3>2 DEF Next, partsVars
  <2> QED
    BY <2>1, <2>2, <2>3
<1>3. AeInv /\ ByInv /\ PtInv => AuHostAgrees
  <2> SUFFICES ASSUME AeInv, ByInv, PtInv PROVE AuHostAgrees
    OBVIOUS
  <2>1. EachEventOnce /\ OnlyOldEditsReplaced
    BY EventsPromised
  <2>2. BypassAgrees
    BY DEF ByInv, BypassAgrees
  <2>3. FormatsAgree /\ CachesTellTheTruth
    BY DEF PtInv, Agree, FormatsAgree, CachesTellTheTruth
  <2> QED
    BY <2>1, <2>2, <2>3 DEF AuHostAgrees
<1> QED
  BY <1>1, <1>2, <1>3, PTL DEF Spec

\* A restored project is not overwritten by a preset nobody chose, and no rebuild
\* deactivates a bus, for any list of presets and any arrangements.
THEOREM HostStateIsKept ==
  ASSUME ~ BlockInFlight, ~ ListPending
  PROVE  Spec => HostStateSurvives
<1> DEFINE RestoredKept == held = "project" /\ held' # held /\ idle.at = "load" => picked
           ActiveKept == \A n \in DOMAIN busses \cap DOMAIN busses' :
                           ports' # ports => busses'[n].active = busses[n].active
<1>1. Init => PrInv
  <2> SUFFICES ASSUME Init PROVE PrInv
    OBVIOUS
  <2>1. Count \in Nat
    BY PresetsAssumption DEF PresetsAssumption, Count
  <2>a. PresetsInit
    BY DEF Init
  <2>2. hostValue \in Program /\ 0 \in Program
    BY <2>1, <2>a DEF PresetsInit, Program
  <2>3. published \in {0, Count} /\ (published > 0 => crawled) /\ found \in 0 .. Count
    BY <2>1, <2>a DEF PresetsInit, SetupPresets
  <2> QED
    BY <2>2, <2>3, <2>a DEF PresetsInit, PrInv, PrTypes
<1>2. PrInv /\ [Next]_partsVars => PrInv'
  <2>1. CASE UNCHANGED presetVars
    BY <2>1 DEF PrInv, PrTypes, Adopting, presetVars
  <2>2. CASE PresetsNext
    BY <2>2, PresetsKept
  <2> QED
    BY <2>1, <2>2 DEF Next, partsVars
<1>3. PrInv /\ [Next]_partsVars => [RestoredKept]_presetVars
  BY DEF PrInv, Adopting
<1>4. [Next]_partsVars => [ActiveKept]_bussesVars
  BY BussesKeepActive DEF Next, partsVars
<1> QED
  BY <1>1, <1>2, <1>3, <1>4, PTL DEF Spec, HostStateSurvives, RestoredStateSurvives, ActivationSurvives

=============================================================================
