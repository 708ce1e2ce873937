------------------------------ MODULE AuHostSide ------------------------------
(***************************************************************************)
(* What the host of an Audio Unit sees of it beside its events             *)
(* (wrapasauv2.cpp).  Three parts that share no state:                     *)
(*                                                                         *)
(* the audio ports: the layouts a new unit finds the plugin to accept, the *)
(* stream formats a host may set on it one element at a time, and what     *)
(* Initialize makes of the combination it ends with; a port is its         *)
(* channels and whether it is a main port, an element of the unit is the   *)
(* channels of its format;                                                 *)
(*                                                                         *)
(* its bypass button and its parameter list; and the Cocoa views of its    *)
(* editor.                                                                 *)
(***************************************************************************)
EXTENDS Integers, Sequences, FiniteSets, SequencesExt

CONSTANTS
  PortPlugins,   \* what there is to wrap: see below
  MaxProbed,     \* kMaxProbedChannels
  FacadeChannels,  \* kPlaceholderFacadeChannels
  FormatChannels   \* the channel counts a host tries
\* A plugin: its ports at first, each accepted request with the ports it leads to, whether
\* it has the extension, whether it goes back to where it was, whether it is an effect.

Sides == {"in", "out"}

VARIABLES auPorts, caches, elements, layouts, unit
portVars == <<auPorts, caches, elements, layouts, unit>>
\* auPorts: the plugin's; caches: _inputPortCache, _outputPortCache; elements: the AU's
\* formats; layouts: _channelCapsCache; unit: [plugin, made, initialized]

Channels(list) == [i \in DOMAIN list |-> list[i].channels]
Widths(layout) == [side \in Sides |-> Channels(layout[side])]

\* The channels of the first main port, 0 where there is none.
MainOf(list) ==
  LET mains == {i \in DOMAIN list : list[i].main} IN
  IF mains = {} THEN 0 ELSE list[CHOOSE i \in mains : \A j \in mains : i <= j].channels

\* mainBusConfigurationRequests(): the other ports keep their widths, or all move to one.
Requested(cached, in, out, others) ==
  [side \in Sides |-> [i \in DOMAIN cached[side] |->
     IF cached[side][i].main THEN (IF side = "in" THEN in ELSE out)
     ELSE IF others # 0 THEN others ELSE cached[side][i].channels]]

AcceptsLayout(plugin, request) == plugin.configurable /\ request \in DOMAIN plugin.becomes
-----------------------------------------------------------------------------
(* PostConstructor(). *)

PortsInit ==
  /\ unit \in [plugin : PortPlugins, made : {FALSE}, initialized : {FALSE}]
  /\ auPorts = unit.plugin.first
  /\ caches = [side \in Sides |-> <<>>]
  /\ elements = Widths(auPorts)     \* setupAudioBusses()
  /\ layouts = {}

\* The main widths tried beside the one the plugin has; a side without ports has width 0.
Candidates(in, out) ==
  ((IF in = 0 THEN {0} ELSE 1..MaxProbed) \X (IF out = 0 THEN {0} ELSE 1..MaxProbed))
    \ {<<in, out>>}

\* Both shapes of a candidate: the other ports left alone, and taken along.
Probed(plugin, cached, in, out) ==
  {tried \in Candidates(in, out) \X {FALSE, TRUE} :
     AcceptsLayout(plugin, Requested(cached, tried[1][1], tried[1][2],
                               IF tried[2] THEN tried[1][1] ELSE 0))}

RequestOf(cached, tried) ==
  Requested(cached, tried[1][1], tried[1][2], IF tried[2] THEN tried[1][1] ELSE 0)

LastTried(accepted) ==
  LET rank(tried) == 2 * ((MaxProbed + 1) * tried[1][1] + tried[1][2])
                       + (IF tried[2] THEN 1 ELSE 0)
  IN  CHOOSE t \in accepted : \A other \in accepted : rank(other) <= rank(t)

\* A side that has ports and no main port can be neither varied nor described.
CanProbe(plugin, cached) ==
  /\ plugin.configurable /\ cached["out"] # <<>>
  /\ \A side \in Sides : cached[side] = <<>> \/ MainOf(cached[side]) > 0

\* The unit must have an output element, and an effect an input element.
Placeholders(plugin, shown) ==
  [side \in Sides |->
     IF shown[side] = <<>> /\ (side = "out" \/ plugin.effect) THEN <<FacadeChannels>>
     ELSE shown[side]]

\* Mutant: the caches keep the layout the plugin did not go back to.
CachesKept(cached, shown, live) == <<cached, shown>>

\* refreshPortCachesAndBusses(): elements were counted once and for all.
Refreshed(cached, shown, live) ==
  <<live, [side \in Sides |-> [i \in DOMAIN shown[side] |->
             IF i \in DOMAIN live[side] THEN live[side][i].channels ELSE shown[side][i]]]>>

PostConstructor ==
  /\ ~unit.made
  /\ unit' = [unit EXCEPT !.made = TRUE]
  /\ LET plugin == unit.plugin
         in == MainOf(auPorts["in"])  out == MainOf(auPorts["out"])
         accepted == Probed(plugin, auPorts, in, out)
         left == IF accepted = {} \/ plugin.goesBack THEN auPorts
                 ELSE plugin.becomes[RequestOf(auPorts, LastTried(accepted))]
         known == IF left = auPorts THEN <<auPorts, Widths(auPorts)>>
                  ELSE Refreshed(auPorts, Widths(auPorts), left)
     IN  IF CanProbe(plugin, auPorts)
         THEN /\ layouts' = {[in |-> in, out |-> out, widths |-> Widths(auPorts)]} \cup
                    {[in |-> t[1][1], out |-> t[1][2],
                      widths |-> Widths(plugin.becomes[RequestOf(auPorts, t)])] : t \in accepted}
              /\ auPorts' = left /\ caches' = known[1]
              /\ elements' = Placeholders(plugin, known[2])
         ELSE /\ caches' = auPorts /\ elements' = Placeholders(plugin, elements)
              /\ UNCHANGED <<auPorts, layouts>>
-----------------------------------------------------------------------------
(* The host. *)

IsEffectFacade ==
  \A side \in Sides : caches[side] = <<>> /\ elements[side] # <<>>

\* Mutant: another layout is taken while the plugin is active.
AtAnyTime(side, i, channels) ==
  \/ caches[side] = <<>> /\ i = 1 /\ (IsEffectFacade => channels = FacadeChannels)
  \/ i \in DOMAIN caches[side] /\
       \/ channels = caches[side][i].channels
       \/ \E layout \in layouts :
            i \in DOMAIN layout.widths[side] /\ layout.widths[side][i] = channels

\* ValidFormat(): one element at a time, from what was recorded.
ValidFormat(side, i, channels) ==
  \/ caches[side] = <<>> /\ i = 1 /\ (IsEffectFacade => channels = FacadeChannels)
  \/ i \in DOMAIN caches[side] /\
       \/ channels = caches[side][i].channels
       \/ ~unit.initialized /\ \E layout \in layouts :
            i \in DOMAIN layout.widths[side] /\ layout.widths[side][i] = channels

SetStreamFormat ==
  /\ unit.made
  /\ \E side \in Sides : \E i \in DOMAIN elements[side], channels \in FormatChannels :
       /\ ValidFormat(side, i, channels)
       /\ elements' = [elements EXCEPT ![side][i] = channels]
  /\ UNCHANGED <<auPorts, caches, layouts, unit>>

\* Every element that has a port behind it, as applyConfigurationFromBusFormats() asks.
Settled ==
  [side \in Sides |-> [i \in DOMAIN caches[side] \cap DOMAIN elements[side] |-> elements[side][i]]]

Mismatch == \E side \in Sides : \E i \in DOMAIN Settled[side] :
              Settled[side][i] # caches[side][i].channels

\* Initialize(): a combination the plugin refuses fails it.
InitializePorts ==
  /\ unit.made /\ ~unit.initialized
  /\ \/ /\ layouts = {} \/ ~Mismatch
        /\ unit' = [unit EXCEPT !.initialized = TRUE]
        /\ UNCHANGED <<auPorts, caches, elements>>
     \/ /\ layouts # {} /\ Mismatch /\ AcceptsLayout(unit.plugin, Settled)
        /\ auPorts' = unit.plugin.becomes[Settled]
        /\ caches' = Refreshed(caches, elements, auPorts')[1]
        /\ elements' = Refreshed(caches, elements, auPorts')[2]
        /\ unit' = [unit EXCEPT !.initialized = TRUE]
  /\ UNCHANGED layouts

UninitializePorts ==
  /\ unit.initialized
  /\ unit' = [unit EXCEPT !.initialized = FALSE]
  /\ UNCHANGED <<auPorts, caches, elements, layouts>>

\* SupportedNumChannels().
Supported ==
  IF layouts # {} THEN {<<layout.in, layout.out>> : layout \in layouts}
  ELSE IF IsEffectFacade THEN {<<FacadeChannels, FacadeChannels>>}
  ELSE IF caches["out"] = <<>> THEN {}
  ELSE LET mains(side) == {caches[side][i].channels :
                             i \in {j \in DOMAIN caches[side] : caches[side][j].main}}
           orNone(set) == IF set = {} THEN {0} ELSE set
       IN  orNone(mains("in")) \X orNone(mains("out"))

PortsNext == PostConstructor \/ SetStreamFormat \/ InitializePorts \/ UninitializePorts
PortsSpec == PortsInit /\ [][PortsNext]_portVars
-----------------------------------------------------------------------------
PortsTypeOK ==
  /\ \A side \in Sides : \A i \in DOMAIN elements[side] : elements[side][i] \in Nat
  /\ unit.initialized => unit.made
  /\ Supported \subseteq (0..16) \X (0..16)

(***************************************************************************)
(* While the plugin is active an element of the unit is as wide as the     *)
(* port behind it: the render writes as many channels as the port has      *)
(* through pointers there are as many of as the element has.               *)
(***************************************************************************)
FormatsAgree ==
  unit.initialized =>
    \A side \in Sides : \A i \in DOMAIN elements[side] :
      i \in DOMAIN auPorts[side] => elements[side][i] = auPorts[side][i].channels

(***************************************************************************)
(* What the wrapper thinks the ports are is what they are, although the    *)
(* probe moved them: a plugin that will not go back is not lied about.     *)
(***************************************************************************)
CachesTellTheTruth == unit.made => caches = auPorts

-----------------------------------------------------------------------------

CONSTANTS
  ParamOrders,    \* what the plugin may say of the order of its parameters
  ParamCount,     \* and how many it has
  RescanWhileQueued,   \* whether the plugin rescans while a host write is under way
  AuViews,        \* the views a host may make
  StaleViewsStay  \* whether it disposes of the unit before a view that was replaced

ASSUME AuViewsAssumption == "none" \notin AuViews

VARIABLES bypass, views
sideVars == <<bypass, views>>
-----------------------------------------------------------------------------
(* The bypass, as a property and as a parameter, and the parameter list. *)

BypassInit ==
  \* wrapper: _isBypassed; changed: _bypassChanged; queued: on its way to the plugin; edited:
  \* a change of the plugin's own that it has not told; shown, listed: the host's
  bypass = [plugin |-> 0, wrapper |-> 0, changed |-> FALSE, queued |-> <<>>, edited |-> FALSE,
            shown |-> 0, order |-> <<>>, listed |-> <<>>]

\* setupParameters(): an order that is no permutation is ignored, and so is the extension.
OrderGiven(order) ==
  /\ Len(order) = ParamCount
  /\ Range(order) = 1..ParamCount

OrderedList(order) == IF OrderGiven(order) THEN order ELSE <<>>

\* Mutant: only the property moves the button.
PropertyOnly(side, value) == side

\* noteBypassParameterValue().
NoteBypass(side, value) ==
  IF value = side.wrapper THEN side ELSE [side EXCEPT !.wrapper = value, !.changed = TRUE]

\* SetProperty(): only a change is passed on.
SetBypassEffect ==
  /\ \E on \in {0, 1} :
       bypass' = IF on = bypass.wrapper THEN [bypass EXCEPT !.shown = on]
                 ELSE [bypass EXCEPT !.wrapper = on, !.shown = on, !.queued = <<on>>]
  /\ UNCHANGED views

\* SetParameter() on the bypass parameter.
WriteBypass ==
  /\ \E v \in {0, 1} : bypass' = NoteBypass([bypass EXCEPT !.queued = <<v>>], v)
  /\ UNCHANGED views

PluginEdits ==
  /\ bypass.queued = <<>>
  /\ \E v \in {0, 1} : v # bypass.plugin /\ bypass' = [bypass EXCEPT !.plugin = v, !.edited = TRUE]
  /\ UNCHANGED views

\* A block or a flush: the host's write gets there, or the plugin's change is told.
DeliverBypass ==
  /\ bypass' = IF bypass.queued # <<>>
               THEN [bypass EXCEPT !.plugin = bypass.queued[1], !.queued = <<>>,
                                   !.edited = FALSE]
               ELSE IF bypass.edited
               THEN NoteBypass([bypass EXCEPT !.edited = FALSE], bypass.plugin)
               ELSE bypass
  /\ UNCHANGED views

\* param_rescan(): the elements and the bypass are read again; the host is told.
RescanParameters ==
  /\ bypass.queued = <<>> \/ RescanWhileQueued
  /\ \E order \in ParamOrders, all \in BOOLEAN :
       bypass' = [bypass EXCEPT !.wrapper = bypass.plugin, !.order = OrderedList(order),
                    !.listed = IF all THEN OrderedList(order) ELSE @,
                    !.shown = IF bypass.plugin # bypass.wrapper THEN bypass.plugin ELSE @]
  /\ UNCHANGED views

IdleBypass ==
  /\ bypass' = IF bypass.changed THEN [bypass EXCEPT !.changed = FALSE, !.shown = bypass.wrapper]
               ELSE bypass
  /\ UNCHANGED views

BypassNext ==
  \/ SetBypassEffect \/ WriteBypass \/ PluginEdits \/ DeliverBypass \/ RescanParameters
  \/ IdleBypass
-----------------------------------------------------------------------------
(* The views of the editor. *)

ViewsInit ==
  \* canary: what each view thinks of its GUI; window: the one the unit registered; gui: the
  \* plugin's, and the view it is in; parked: a resize asked for off the main thread
  views = [unit |-> TRUE, alive |-> {}, canary |-> [v \in AuViews |-> FALSE],
           window |-> "none", gui |-> FALSE, parent |-> "none", parked |-> FALSE,
           astray |-> FALSE]

\* uiViewForAudioUnit(): a second view takes over the GUI of the first.
MakeView ==
  /\ views.unit
  /\ \E v \in AuViews \ views.alive :
       views' = [views EXCEPT !.alive = @ \cup {v}, !.canary[v] = TRUE, !.window = v,
                              !.gui = TRUE, !.parent = v]
  /\ UNCHANGED bypass

\* Mutant: any view may have the GUI destroyed.
AnyView(v) == TRUE

\* _destroyWindow(): only the registered view may.
IsRegistered(v) == views.window = v

FreeView ==
  /\ \E v \in views.alive :
     LET gone == [views EXCEPT !.alive = @ \ {v}] IN
       views' = IF ~views.canary[v] THEN gone
                ELSE IF ~views.unit THEN [gone EXCEPT !.astray = TRUE]
                ELSE IF IsRegistered(v)
                THEN [gone EXCEPT !.window = "none", !.gui = FALSE, !.canary[v] = FALSE]
                ELSE gone
  /\ UNCHANGED bypass

\* ~WrapAsAUV2(): the registered view is told.
DisposeUnit ==
  /\ views.unit
  /\ StaleViewsStay \/ views.alive \subseteq {views.window}
  /\ views' = IF views.gui /\ views.window # "none"
              THEN [views EXCEPT !.unit = FALSE, !.gui = FALSE, !.canary[views.window] = FALSE]
              ELSE [views EXCEPT !.unit = FALSE]
  /\ UNCHANGED bypass

\* gui_request_resize(), off the main thread, and the idle tick that applies it.
ParkResize ==
  /\ views.unit /\ views.gui /\ views' = [views EXCEPT !.parked = TRUE] /\ UNCHANGED bypass
ApplyResize ==
  /\ views.unit /\ views.parked
  /\ views' = [views EXCEPT !.parked = FALSE,
                  !.astray = @ \/ views.window \notin views.alive \cup {"none"}]
  /\ UNCHANGED bypass

AuViewsNext == MakeView \/ FreeView \/ DisposeUnit \/ ParkResize \/ ApplyResize

SideSpec == BypassInit /\ ViewsInit /\ [][BypassNext \/ AuViewsNext]_sideVars
-----------------------------------------------------------------------------
SideTypeOK ==
  /\ bypass.order \in {OrderedList(o) : o \in ParamOrders} \cup {<<>>}
  /\ views.window \in AuViews \cup {"none"}

(***************************************************************************)
(* Once every write has arrived and every change was told, the host's      *)
(* bypass button, the wrapper and the plugin agree, whichever of the host's*)
(* two ways or the plugin moved it.                                        *)
(***************************************************************************)
BypassAgrees ==
  bypass.queued = <<>> /\ ~bypass.edited /\ ~bypass.changed =>
    bypass.shown = bypass.plugin /\ bypass.wrapper = bypass.plugin

(***************************************************************************)
(* The plugin's GUI is in a view that exists, and goes with that one and   *)
(* not with the one it took over from; and no view that outlives the unit  *)
(* calls into it.                                                          *)
(***************************************************************************)
GuiIsInALiveView ==
  /\ views.gui => views.window \in views.alive /\ views.parent = views.window
  /\ views.unit /\ views.parent \in views.alive => views.gui
  /\ ~views.astray
=============================================================================
