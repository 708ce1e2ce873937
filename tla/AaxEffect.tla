----------------------------- MODULE AaxEffect -----------------------------
(***************************************************************************)
(* What Pro Tools sees of a plug-in on its main thread: the stem formats   *)
(* an effect is described with and the instance made of one of them, the   *)
(* parameters with the master bypass, the chunk that keeps the state, the  *)
(* timers and the view.  At the end, what shares no state with these: the  *)
(* events of a render cycle.                                               *)
(***************************************************************************)
EXTENDS Integers, Sequences, FiniteSets, SequencesExt, FiniteSetsExt
CONSTANTS
  AaxPlugins,     \* plug-ins: ins, outs (widths of the ports), configurable, widths, midi, params
  StemFormats,    \* the channel counts of aaxchannelmaps
  MaxTimers, MaxWritten,    \* bounds: timers, pieces of state
  RegistersInTimer,         \* the plug-in registers a timer while timers are fired
  LoadsBetweenCalls,        \* a chunk is set between GetChunkSize() and GetChunk()
  WakesWithoutView          \* the view's timer goes on after DeleteViewContainer()
VARIABLES
  effect,     \* the plug-in, its stems, the one it was inserted with, whether EffectInit() succeeded
  timers,     \* _timerObjects: the owner and id of each slot, owner 0 in a free one
  firing,     \* the slot TimerWakeup() is at, 0 outside; what fired last
  memento,    \* StateMemento: _mem and _readoffset; size told to the host
  plugState, chunk,     \* the plug-in's state as pieces; what the host has saved of it
  aaxView        \* Wrapped_AAX_GUI and what it shows
effectVars == <<effect, timers, firing, memento, plugState, chunk, aaxView>>
----------------------------------------------------------------------------
(* getAvailableBusConfigs(): a temporary instance is asked.  Output ports  *)
(* are looked up among the inputs, and the other way round.                *)
ProbeRequests(p) ==
  {[input |-> TRUE, port |-> i] : i \in DOMAIN p.ins}
    \cup {[input |-> FALSE, port |-> i] : i \in DOMAIN p.outs \cap DOMAIN p.ins}

\* The plug-in's answer to requests of one width for each port.
CanHave(p, in, out) ==
  (p.ins # <<>> => in \in p.widths) /\ (p.outs # <<>> => out \in p.widths)
CanApply(p, requests, width) == requests = {} \/ width \in p.widths

AnyStem(p, width) == TRUE
TriesStem(p, width) == CanApply(p, ProbeRequests(p), width)

StemOf(ports) == IF ports = <<>> \/ ports[1] > 2 THEN 0 ELSE ports[1]
Stem(in, out) == [in |-> in, out |-> out]

\* A note-only plug-in gets placeholder stems for the audio that passes through.
PlaceholderStems(p) == IF p.midi THEN {Stem(1, 1), Stem(2, 2)} ELSE {}

StemsOf(p) ==
  LET own ==
        IF p.configurable THEN {Stem(w, w) : w \in {w \in StemFormats : TriesStem(p, w)}}
        ELSE IF p.ins = <<>> /\ p.outs = <<>> THEN {}
        ELSE {Stem(IF p.ins = <<>> THEN 0 ELSE StemOf(p.outs), StemOf(p.outs))}
  IN IF own = {} THEN PlaceholderStems(p) ELSE own

\* AAXProcessAdapter::outputChannelCount() of an instance.
ChannelsWritten(p, stem) ==
  LET widths == IF p.configurable THEN [i \in DOMAIN p.outs |-> stem.out] ELSE p.outs
      sum == FoldSeq(LAMBDA w, acc : w + acc, 0, widths)
  IN IF sum > 0 THEN sum ELSE IF p.ins = <<>> THEN stem.out ELSE 0

\* GetEffectDescriptions(): an effect without stem formats is not described.
Describe ==
  /\ effect.is = "scanned" /\ StemsOf(effect.plugin) # {}
  /\ effect' = [effect EXCEPT !.is = "described", !.stems = StemsOf(effect.plugin)]
  /\ UNCHANGED <<timers, firing, memento, plugState, chunk, aaxView>>

\* EffectInit() with the stem format of the component the host inserted.
EffectInit ==
  /\ effect.is = "described"
  /\ \E s \in effect.stems :
       effect' = [effect EXCEPT !.stem = s,
         !.is = IF effect.plugin.configurable /\ ~ CanHave(effect.plugin, s.in, s.out) THEN "failed" ELSE "there"]
  /\ UNCHANGED <<timers, firing, memento, plugState, chunk, aaxView>>

StemsNext == Describe \/ EffectInit

----------------------------------------------------------------------------
(* setupParameters(): a parameter is [id, hidden, bypass].  The first that *)
(* is a bypass is the host's master bypass; without one the wrapper has its*)
(* own.                                                                    *)
master == "MasterBypassID"
Visible(p) == SelectSeq(p.params, LAMBDA q : ~ q.hidden)
FirstBypass(p) ==
  LET its == {i \in DOMAIN Visible(p) : Visible(p)[i].bypass} IN IF its = {} THEN 0 ELSE Min(its)
AnyBypass(p) ==
  LET its == {i \in DOMAIN Visible(p) : Visible(p)[i].bypass} IN IF its = {} THEN 0 ELSE Max(its)
MasterIndex(p) == FirstBypass(p)

AaxParameters(p) ==
  [i \in DOMAIN Visible(p) |-> IF i = MasterIndex(p) THEN master ELSE Visible(p)[i].id]
    \o IF MasterIndex(p) = 0 THEN <<master>> ELSE <<>>

\* GetParameterNameOfLength(): of ever shorter names the longest that fits, from the end.
NameOfLength(names, n) ==
  LET fits == {i \in DOMAIN names : \A j \in i..Len(names) : Len(names[j]) <= n}
  IN IF fits = {} THEN names[Len(names)] ELSE names[Min(fits)]

----------------------------------------------------------------------------
(* The timers: register_timer() takes a free slot before a new one, and the*)
(* id is the slot's.                                                       *)
freeSlot == 0
Slots == DOMAIN timers
FreeSlots == {i \in Slots : timers[i] = freeSlot}

Register(owner) ==
  /\ \A i \in Slots : timers[i] # owner
  /\ firing.slot = 0 \/ RegistersInTimer
  /\ IF FreeSlots = {}
     THEN Len(timers) < MaxTimers /\ timers' = Append(timers, owner)
     ELSE timers' = [timers EXCEPT ![Min(FreeSlots)] = owner]
  /\ UNCHANGED <<effect, firing, memento, plugState, chunk, aaxView>>

SlotKept(i) == timers
SlotFreed(i) == [timers EXCEPT ![i] = freeSlot]

UnregisterTimer(i) ==
  /\ i \in Slots \ FreeSlots /\ timers' = SlotFreed(i)
  /\ firing' = [firing EXCEPT !.gone = firing.gone \cup {timers[i]}]
  /\ UNCHANGED <<effect, memento, plugState, chunk, aaxView>>

\* TimerWakeup() of the wrapper: one slot after the other, each if it is due.
TimerWakeup ==
  /\ firing.slot < Len(timers)
  /\ \E due \in BOOLEAN :
       LET i == firing.slot + 1
           fires == due /\ timers[i] # freeSlot IN
       firing' = [slot |-> IF i = Len(timers) THEN 0 ELSE i,
                  late |-> fires /\ timers[i] \in firing.gone,
                  gone |-> firing.gone]
  /\ UNCHANGED <<effect, timers, memento, plugState, chunk, aaxView>>

\* An owner that registers again is no longer gone.
RegisterTimer(owner) ==
  /\ owner \notin firing.gone /\ Register(owner)

TimersNext ==
  \/ \E o \in 1..(MaxTimers + 1) : RegisterTimer(o)
  \/ (\E i \in Slots : UnregisterTimer(i)) \/ TimerWakeup

----------------------------------------------------------------------------
(* The chunk.  The plug-in writes its state piece by piece, and may fail   *)
(* half way; the memento is shared by the three calls.                     *)
PluginChanges ==
  /\ plugState' \in {"a", "b"} \ {plugState}
  /\ UNCHANGED <<effect, timers, firing, memento, chunk, aaxView>>

Pieces(s) == IF s = "a" THEN <<"a">> ELSE <<"b", "b">>

NotCleared == memento.mem
Cleared == <<>>

GetChunkSize(ok) ==
  /\ memento.told = -1 /\ Len(memento.mem) <= MaxWritten
  /\ LET mem == Cleared \o (IF ok THEN Pieces(plugState) ELSE <<Head(Pieces(plugState))>>) IN
     memento' = [memento EXCEPT !.mem = mem, !.told = IF ok THEN Len(mem) ELSE -1,
                                !.saved = Pieces(plugState)]
  /\ UNCHANGED <<effect, timers, firing, plugState, chunk, aaxView>>

GetChunk ==
  /\ memento.told # -1
  /\ chunk' = [data |-> memento.mem, fits |-> Len(memento.mem) = memento.told, saved |-> memento.saved]
  /\ memento' = [memento EXCEPT !.told = -1]
  /\ UNCHANGED <<effect, timers, firing, plugState, aaxView>>

\* SetChunk(): setData() rewinds, the plug-in reads until nothing comes.
NotRewound == memento.read
Rewound == 0

SetAaxChunk ==
  /\ chunk.data # <<>> /\ (LoadsBetweenCalls \/ memento.told = -1)
  /\ LET got == SubSeq(chunk.data, Rewound + 1, Len(chunk.data)) IN
     /\ plugState' = IF got = Pieces("b") THEN "b" ELSE IF got = Pieces("a") THEN "a" ELSE "torn"
     /\ memento' = [memento EXCEPT !.mem = chunk.data, !.read = Len(chunk.data)]
  /\ UNCHANGED <<effect, timers, firing, chunk, aaxView>>

ChunkNext == PluginChanges \/ (\E ok \in BOOLEAN : GetChunkSize(ok)) \/ GetChunk \/ SetAaxChunk
----------------------------------------------------------------------------
(* The view.  The plug-in asks for a size while its GUI is created, and    *)
(* later; the container may refuse.                                        *)
CreateEffectView(ok) ==
  /\ ~ aaxView.container
  /\ aaxView' = [aaxView EXCEPT !.container = TRUE, !.linked = TRUE, !.gui = TRUE,
                          !.step = IF ok THEN "creating" ELSE "failing"]
  /\ UNCHANGED <<effect, timers, firing, memento, plugState, chunk>>

\* create() returns; a refused GUI leaves the view linked to the wrapper.
ViewCreated ==
  /\ aaxView.step # "none"
  /\ LET made == aaxView.step = "creating" IN
     aaxView' = [aaxView EXCEPT !.created = made, !.shown = made, !.step = "none"]
  /\ UNCHANGED <<effect, timers, firing, memento, plugState, chunk>>

\* gui_request_resize() and setWindowSize(): before it is created, again in the timer.
RequestResize ==
  /\ aaxView.linked /\ ~ aaxView.created /\ ~ aaxView.again
  /\ aaxView' = [aaxView EXCEPT !.again = TRUE]
  /\ UNCHANGED <<effect, timers, firing, memento, plugState, chunk>>

\* TimerWakeup() of the view: GetViewSize() asks the plug-in.
ViewWakeup(taken) ==
  /\ aaxView.again /\ aaxView.step = "none" /\ (aaxView.container \/ WakesWithoutView)
  /\ aaxView' = [aaxView EXCEPT !.again = ~ taken, !.lost = aaxView.lost \/ ~ aaxView.gui]
  /\ UNCHANGED <<effect, timers, firing, memento, plugState, chunk>>

\* A GUI that has been created is destroyed, here or with the view.
GuiForgotten == aaxView.shown
GuiDestroyed == FALSE

DeleteViewContainer ==
  /\ aaxView.container /\ aaxView.step = "none"
  /\ aaxView' = [aaxView EXCEPT !.container = FALSE, !.linked = FALSE, !.created = FALSE,
                          !.gui = aaxView.gui /\ ~ aaxView.created, !.shown = GuiDestroyed]
  /\ UNCHANGED <<effect, timers, firing, memento, plugState, chunk>>

AaxViewNext ==
  \/ (\E ok \in BOOLEAN : CreateEffectView(ok) \/ ViewWakeup(ok))
  \/ ViewCreated \/ RequestResize \/ DeleteViewContainer
----------------------------------------------------------------------------
AaxEffectInit ==
  /\ \E p \in AaxPlugins : effect = [plugin |-> p, is |-> "scanned", stems |-> {}, stem |-> Stem(0, 0)]
  /\ timers = <<>> /\ firing = [slot |-> 0, late |-> FALSE, gone |-> {}]
  /\ memento = [mem |-> <<>>, read |-> 0, told |-> -1, saved |-> <<>>]
  /\ plugState = "a" /\ chunk = [data |-> <<>>, fits |-> TRUE, saved |-> <<>>]
  /\ aaxView = [container |-> FALSE, linked |-> FALSE, gui |-> FALSE, created |-> FALSE, shown |-> FALSE,
             step |-> "none", again |-> FALSE, lost |-> FALSE]

AaxEffectNext == StemsNext \/ TimersNext \/ ChunkNext \/ AaxViewNext
----------------------------------------------------------------------------
(* A stem format that is offered can be had, and the plug-in writes no     *)
(* channel the stem does not have.                                         *)
StemsCanBeHad ==
  /\ effect.is # "failed"
  /\ effect.is = "there" => ChannelsWritten(effect.plugin, effect.stem) <= effect.stem.out

(* Every visible parameter and the master bypass have an id of their own,  *)
(* and the master bypass is the first bypass the plug-in shows.            *)
OneMasterBypass ==
  LET ids == AaxParameters(effect.plugin) IN
  /\ IsInjective(ids) /\ master \in Range(ids)
  /\ \A i \in DOMAIN Visible(effect.plugin) :
       Visible(effect.plugin)[i].bypass => \E j \in 1..i : ids[j] = master

(* A timer that was given back fires no more, also when it is given back   *)
(* while the timers are fired.                                             *)
NoLateTimer == ~ firing.late

(* A chunk is the state at the time of its size, of that size, and restores*)
(* a whole state.                                                          *)
ChunkIsOneState == chunk.fits /\ chunk.data = chunk.saved /\ plugState # "torn"

(* The plug-in's GUI lives and dies with the container it was put into, and*)
(* the view asks no GUI that is gone.                                      *)
ViewFollowsGui == (aaxView.shown => aaxView.container /\ aaxView.created) /\ ~ aaxView.lost
-----------------------------------------------------------------------------
(***************************************************************************)
(* One render cycle of an AAXProcessAdapter: the events of a block and the *)
(* order the plug-in sees them in, the transport, and what becomes of what *)
(* the plug-in pushes out, to the host's MIDI node and its automation.     *)
(***************************************************************************)
CONSTANTS
  PacketLists,      \* what the host's input node may hold: [status, time]
  ChangeLists,      \* what the queue of parameter changes may hold
  TransportAnswers, \* what the host's transport may say of a block
  MaxPosted         \* bound: messages the plug-in pushes
VARIABLES
  cycle,        \* the plug-in's note input prefers MIDI; the step; _events, the order, _outputNode
  aaxTransport,    \* the flags of _transport
  posted,       \* what reached the host's node: status, and whether within a block
  gesture       \* whether the plug-in's parameter is touched at the host
aaxEventsVars == <<cycle, aaxTransport, posted, gesture>>

Statuses == {"on", "off", "poly", "program", "pressure", "bend", "bank", "control", "system"}
----------------------------------------------------------------------------
(* The input events: parameter changes at time 0, MIDI, the bypass.        *)
Change(to) == [kind |-> "param", time |-> 0, id |-> to]
Bypassed == [kind |-> "bypass", time |-> 0, id |-> 0]

FromPacket(packet, prefersMidi) ==
  LET is(kind) == <<[kind |-> kind, time |-> packet.time, id |-> 0]>> IN
  IF packet.status = "off" /\ ~ prefersMidi THEN is("off")
  ELSE IF packet.status = "on" /\ ~ prefersMidi THEN is("on")
  ELSE IF packet.status # "system" THEN is("midi") ELSE <<>>

Collected(changes, packets, bypass, prefersMidi) ==
  [i \in DOMAIN changes |-> Change(changes[i])]
    \o FlattenSeq([i \in DOMAIN packets |-> FromPacket(packets[i], prefersMidi)])
    \o (IF bypass THEN <<Bypassed>> ELSE <<>>)

\* sortEventIndices(): by time, and as they were collected.
EarlierByTime(list, a, b) == list[a].time < list[b].time \/ (list[a].time = list[b].time /\ a > b)
Before(list, a, b) == list[a].time < list[b].time \/ (list[a].time = list[b].time /\ a < b)
SortedIndices(list) == SortSeq([i \in DOMAIN list |-> i], LAMBDA a, b : Before(list, a, b))

\* The transport's flags are only ever added to; playing is one whether the host plays or not.
BeginCycle(changes, packets, bypass, answers) ==
  /\ cycle.step = "out"
  /\ LET list == Collected(changes, packets, bypass, cycle.prefersMidi) IN
     cycle' = [cycle EXCEPT !.step = "plugin", !.events = list, !.order = SortedIndices(list), !.node = TRUE]
  /\ aaxTransport' = aaxTransport \cup answers
  /\ UNCHANGED <<posted, gesture>>

\* finishProcessCycle(), also of a block the plug-in was left out of.
NodeKept == cycle.node
NodeDropped == FALSE

FinishProcessCycle ==
  /\ cycle.step = "plugin"
  /\ cycle' = [cycle EXCEPT !.step = "out", !.node = NodeDropped]
  /\ UNCHANGED <<aaxTransport, posted, gesture>>

\* flush(), outside a block.
BeginFlush ==
  /\ cycle.step = "out" /\ cycle' = [cycle EXCEPT !.step = "flush"]
  /\ UNCHANGED <<aaxTransport, posted, gesture>>
EndFlush ==
  /\ cycle.step = "flush" /\ cycle' = [cycle EXCEPT !.step = "out"]
  /\ UNCHANGED <<aaxTransport, posted, gesture>>

----------------------------------------------------------------------------
(* The output events: enqueueOutputEvent().                                *)
\* proToolsAcceptsMidi1(): of the controllers only the bank.
AcceptedAny(status) == TRUE
MayPost(status) == status \notin {"control", "system"}

PostMIDI1(status) ==
  posted' = IF cycle.node /\ MayPost(status)
            THEN Append(posted, [status |-> status, within |-> cycle.step = "plugin"]) ELSE posted

\* A sysex goes in packets of four bytes, whatever Pro Tools does with them.
PostSysEx(bytes) ==
  posted' = IF cycle.node
            THEN posted \o [i \in 1..((bytes + 3) \div 4) |-> [status |-> "sysex", within |-> cycle.step = "plugin"]]
            ELSE posted

\* Notes, MIDI and MIDI 2.0 channel voice messages; other MIDI 2.0 has no MIDI 1.0 equivalent.
PushMessage(kind, status) ==
  /\ cycle.step # "out" /\ Len(posted) < MaxPosted
  /\ kind = "note" => status \in {"on", "off"}
  /\ kind = "midi2" => status # "system"
  /\ PostMIDI1(status)
  /\ UNCHANGED <<cycle, aaxTransport, gesture>>

PushSysEx(bytes) ==
  /\ cycle.step # "out" /\ Len(posted) < MaxPosted /\ PostSysEx(bytes)
  /\ UNCHANGED <<cycle, aaxTransport, gesture>>

\* onBeginEdit(), onPerformEdit(), onEndEdit(): touch, set, release.
PushEdit(what) ==
  /\ cycle.step # "out"
  /\ gesture' = (what = "begin" \/ (gesture /\ what = "value"))
  /\ UNCHANGED <<cycle, aaxTransport, posted>>

AaxEventsInit ==
  /\ \E m \in BOOLEAN :
       cycle = [prefersMidi |-> m, step |-> "out", events |-> <<>>, order |-> <<>>, node |-> FALSE]
  /\ aaxTransport = {}
  /\ posted = <<>> /\ gesture = FALSE

AaxEventsNext ==
  \/ \E c \in ChangeLists, p \in PacketLists, b \in BOOLEAN, f \in TransportAnswers : BeginCycle(c, p, b, f)
  \/ FinishProcessCycle \/ BeginFlush \/ EndFlush
  \/ (\E k \in {"note", "midi", "midi2"}, s \in Statuses : PushMessage(k, s))
  \/ PushSysEx(3) \/ PushSysEx(5) \/ (\E w \in {"begin", "value", "end"} : PushEdit(w))
----------------------------------------------------------------------------
(* The plug-in sees a block's events in the order of their times, each     *)
(* once, and a parameter change before the notes that come with it, in the *)
(* order the host made the changes.                                        *)
EventsInOrder ==
  LET seen == [i \in DOMAIN cycle.order |-> cycle.events[cycle.order[i]]] IN
  /\ IsInjective(cycle.order) /\ Len(seen) = Len(cycle.events)
  /\ \A i, j \in DOMAIN seen : i < j =>
       /\ seen[i].time <= seen[j].time
       /\ seen[j].kind = "param" => seen[i].kind = "param" /\ seen[i].id < seen[j].id

(* The host's MIDI node is posted to within a block only, and with the     *)
(* messages Pro Tools routes out of a plug-in or a sysex.                  *)
PostsWithinBlocks ==
  \A i \in DOMAIN posted :
    posted[i].within /\ posted[i].status \in (Statuses \cup {"sysex"}) \ {"control", "system"}
=============================================================================
