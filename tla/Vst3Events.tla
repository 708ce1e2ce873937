----------------------------- MODULE Vst3Events -----------------------------
(***************************************************************************)
(* What a ProcessAdapter of ClapAsVst3 carries between host and plug-in:    *)
(* the host's events and parameter changes of a block, sorted for the       *)
(* plug-in; the plug-in's output events; and the edits its user makes,      *)
(* which wait in _queueToUI until the main thread idles.                    *)
(* Notes are numbered as the host starts them.                              *)
(***************************************************************************)
EXTENDS Integers, Sequences, FiniteSets, SequencesExt
CONSTANTS
  Params, Keys,
  NotePorts,           \* the plug-in's note outputs: does VST3 have an event bus for them
  QueueSize,           \* of _queueToUI, 8192 in the code
  SysexCapacity, SysexSizes,    \* sysexOutputCapacity, sizes of the plug-in's messages
  Contexts,            \* what the host's ProcessContext marks as valid
  MaxNotes, MaxOutputs

VARIABLES
  adapting,            \* a ProcessAdapter exists: "no", "idle", "process", "flush"
  gestured,            \* _gesturedParameters
  holding,             \* what the user holds in the plug-in's editor
  queueToUI,           \* _queueToUI
  hostEdits,           \* parameters the host records
  strayEdits,          \* values the host was given outside of an edit
  activeNotes, sounding, nextNote,
  block, clapEvents,   \* the host's input and what the plug-in sees
  transport, outputEvents, sysexOutputSize
editVars == <<gestured, holding, queueToUI>>
blockVars == <<block, clapEvents, transport, activeNotes, sounding, nextNote>>
hostEditVars == <<hostEdits, strayEdits>>
outVars == <<outputEvents, sysexOutputSize>>
eventsVars == <<adapting, editVars, hostEditVars, blockVars, outVars>>

Uninitialised == "uninitialised"
Controller == "cc"       \* a parameter of the MIDI mapping
NoBlock == [events |-> <<>>, changes |-> {}, context |-> {"none"}]
EventsInit ==
  /\ adapting = "no" /\ gestured = <<>> /\ holding = {} /\ queueToUI = <<>>
  /\ hostEdits = {} /\ strayEdits = 0
  /\ activeNotes = <<>> /\ sounding = {} /\ nextNote = 1
  /\ block = NoBlock /\ clapEvents = <<>>
  /\ transport = [flags |-> {}, beats |-> "old", tempo |-> "old", loop |-> "old", tsig |-> "old", bar |-> "old"]
  /\ outputEvents = <<>> /\ sysexOutputSize = 0

----------------------------------------------------------------------------
(* The queue to the main thread: a push into a full ring makes it read as   *)
(* empty.                                                                   *)
Pushed(queue, e) == IF Len(queue) = QueueSize - 1 THEN <<>> ELSE Append(queue, e)

Edit(type, p) == [type |-> type, id |-> p]
OnBeginEdit(queue, p) == Pushed(queue, Edit("editstart", p))
OnPerformEdit(queue, p) == Pushed(queue, Edit("editvalue", p))
OnEndEdit(queue, p) == Pushed(queue, Edit("editend", p))

\* onIdle() pops one event after the other.
DrainQueue ==
  /\ adapting # "no" /\ queueToUI # <<>>
  /\ queueToUI' = Tail(queueToUI)
  /\ LET e == Head(queueToUI) IN
     CASE e.type = "editstart" -> hostEdits' = hostEdits \cup {e.id} /\ UNCHANGED strayEdits
       [] e.type = "editvalue" -> strayEdits' = (IF e.id \in hostEdits THEN strayEdits ELSE 1) /\ UNCHANGED hostEdits
       [] e.type = "editend" -> hostEdits' = hostEdits \ {e.id} /\ UNCHANGED strayEdits
  /\ UNCHANGED <<adapting, gestured, holding, blockVars, outVars>>

----------------------------------------------------------------------------
(* setupProcessing() of a new adapter, and its end in setActive(false).     *)
SetupProcessing ==
  /\ adapting = "no" /\ adapting' = "idle"
  /\ clapEvents' = <<>> /\ activeNotes' = <<>> /\ sounding' = {} /\ sysexOutputSize' = 0
  /\ transport' = [flags |-> {}, beats |-> "old", tempo |-> "old", loop |-> "old", tsig |-> "old", bar |-> "old"]
  /\ outputEvents' = <<>>
  /\ UNCHANGED <<editVars, hostEditVars, block, nextNote>>

JustForgotten(queue, ids) == queue
EndsQueued(queue, ids) == FoldLeft(OnEndEdit, queue, ids)

DropAdapter ==
  /\ adapting = "idle" /\ adapting' = "no"
  /\ queueToUI' = EndsQueued(queueToUI, gestured) /\ gestured' = <<>>
  /\ UNCHANGED <<holding, hostEditVars, blockVars, outVars>>

----------------------------------------------------------------------------
(* Into the plug-in.                                                        *)
Expression(e, of) == [type |-> "expression", time |-> e.time, note |-> e.note, key |-> of.key]

SlotTaken(notes, n) == Append(notes, n)
AddToActiveNotes(notes, n) ==
  IF \E s \in DOMAIN notes : ~ notes[s].used
  THEN [notes EXCEPT ![SelectInSeq(notes, LAMBDA x : ~ x.used)] = n]
  ELSE Append(notes, n)

ByKeyOnly(notes, n) == [s \in DOMAIN notes |-> [notes[s] EXCEPT !.used = @ /\ notes[s].key # n.key]]
RemoveFromActiveNotes(notes, n) ==
  [s \in DOMAIN notes |-> [notes[s] EXCEPT !.used = @ /\ notes[s].note # n.note]]

Matching(notes, e) == SelectSeq(notes, LAMBDA x : x.used /\ x.note = e.note)
Note(e) == [used |-> TRUE, note |-> e.note, key |-> e.key]

NoteOn(e) ==
  <<[type |-> "noteOn", time |-> e.time, note |-> e.note, key |-> e.key]>>
    \o (IF e.tuned THEN <<Expression(e, e)>> ELSE <<>>)

\* The supported way: the last match fills the event, which is pushed in any case.
PolyPressure(e, notes) ==
  LET matching == Matching(notes, e) IN
  <<IF matching = <<>> THEN Expression(e, [key |-> Uninitialised]) ELSE Expression(e, Last(matching))>>

\* As MIDI: the first match, or nothing.
PolyAftertouch(e, notes) ==
  LET matching == Matching(notes, e) IN
  IF matching = <<>> THEN <<>> ELSE <<Expression(e, matching[1])>>

NoteExpressionValue(e, notes) ==
  LET matching == Matching(notes, e) IN [n \in DOMAIN matching |-> Expression(e, matching[n])]

ProcessInputEvents(list, notes) ==
  FoldLeft(LAMBDA so, e :
    CASE e.type = "on" -> [events |-> so.events \o NoteOn(e), notes |-> AddToActiveNotes(so.notes, Note(e))]
      [] e.type \in {"off", "sysex"} -> [so EXCEPT !.events = Append(@, e)]
      [] e.type = "pressure" -> [so EXCEPT !.events = @ \o PolyPressure(e, so.notes)]
      [] e.type = "aftertouch" -> [so EXCEPT !.events = @ \o PolyAftertouch(e, so.notes)]
      [] e.type = "value" -> [so EXCEPT !.events = @ \o NoteExpressionValue(e, so.notes)],
    [events |-> <<>>, notes |-> notes], list)

\* A parameter the user holds is not sent back; of the others only the last point is.
ProcessParameterChanges(changes) ==
  SetToSeq({[type |-> IF c.id = Controller THEN "midi" ELSE "param", time |-> c.last, note |-> 0, key |-> c.id] :
            c \in {x \in changes : x.id \notin Range(gestured)}})

SortEventIndices(list) ==
  LET Before(a, b) == list[a].time < list[b].time \/ (list[a].time = list[b].time /\ a < b)
      order == SetToSortSeq(DOMAIN list, Before)
  IN [n \in DOMAIN list |-> list[order[n]]]

Now(context, mark, else) == IF mark \in context THEN "now" ELSE else
BeatsKept(context) ==
  [flags |-> {"seconds"} \cup (context \cap {"playing", "tempo", "tsig"})
             \cup (IF {"music", "bar"} \cap context # {} THEN {"beats"} ELSE {})
             \cup (IF "cycling" \in context THEN {"loop"} ELSE {}),
   beats |-> Now(context, "music", "old"), tempo |-> Now(context, "tempo", "default"),
   loop |-> Now(context, "cycle", "default"), tsig |-> Now(context, "tsig", "default"),
   bar |-> Now(context, "bar", "default")]
TransportOf(context) == [BeatsKept(context) EXCEPT !.beats = Now(context, "music", "default")]

Transport(context) ==
  IF "none" \in context
  THEN [f \in DOMAIN transport |-> IF f = "flags" THEN {} ELSE "old"]
  ELSE TransportOf(context)

\* Process, or only flush, when a bus has another number of channels or no samples came.
Process(list, changes, context, whole) ==
  /\ adapting = "idle"
  /\ adapting' = IF whole THEN "process" ELSE "flush"
  /\ LET in == ProcessInputEvents(list, activeNotes) IN
     /\ clapEvents' = SortEventIndices(in.events \o ProcessParameterChanges(changes))
     /\ activeNotes' = in.notes
  /\ block' = [events |-> list, changes |-> changes, context |-> context]
  /\ transport' = Transport(context)
  /\ LET ons == {e \in Range(list) : e.type = "on"} IN
     /\ nextNote' = nextNote + Cardinality(ons)
     /\ sounding' = sounding \cup {[note |-> e.note, key |-> e.key] : e \in ons}
  /\ outputEvents' = <<>> /\ sysexOutputSize' = 0
  /\ UNCHANGED <<editVars, hostEditVars>>

\* flush() on its own, outside of a block.
Flush ==
  /\ adapting = "idle" /\ adapting' = "flush"
  /\ clapEvents' = <<>> /\ block' = NoBlock
  /\ outputEvents' = <<>> /\ sysexOutputSize' = 0
  /\ UNCHANGED <<editVars, hostEditVars, transport, activeNotes, sounding, nextNote>>

ProcessReturns ==
  /\ adapting \in {"process", "flush"} /\ adapting' = "idle"
  /\ block' = NoBlock /\ clapEvents' = <<>> /\ outputEvents' = <<>>
  /\ UNCHANGED <<editVars, hostEditVars, transport, activeNotes, sounding, nextNote, sysexOutputSize>>

----------------------------------------------------------------------------
(* Out of the plug-in: enqueueOutputEvent().                                *)
InCall == adapting \in {"process", "flush"}
PlugInPushes == InCall /\ UNCHANGED <<adapting, hostEditVars, block, clapEvents, transport, nextNote>>

\* Assumed: the main thread idles often enough that the queue does not fill.
KeepsUp == Len(queueToUI) + Len(gestured) + 2 < QueueSize

GestureBegin(p) ==
  /\ PlugInPushes /\ KeepsUp /\ p \notin holding /\ holding' = holding \cup {p}
  /\ gestured' = Append(gestured, p) /\ queueToUI' = OnBeginEdit(queueToUI, p)
  /\ UNCHANGED <<activeNotes, sounding, outVars>>

GestureEnd(p) ==
  /\ PlugInPushes /\ p \in holding /\ holding' = holding \ {p}
  /\ gestured' = SelectSeq(gestured, LAMBDA g : g # p)
  /\ queueToUI' = IF p \in Range(gestured) THEN OnEndEdit(queueToUI, p) ELSE queueToUI
  /\ UNCHANGED <<activeNotes, sounding, outVars>>

ParamValue(p) ==
  /\ PlugInPushes /\ KeepsUp
  /\ p \in Range(gestured) /\ queueToUI' = OnPerformEdit(queueToUI, p)
  /\ UNCHANGED <<gestured, holding, activeNotes, sounding, outVars>>

\* NOTE_END and NOTE_CHOKE.
NoteEnd(n) ==
  /\ PlugInPushes /\ n \in sounding
  /\ sounding' = sounding \ {n} /\ activeNotes' = RemoveFromActiveNotes(activeNotes, n)
  /\ UNCHANGED <<editVars, outVars>>

\* Unsupported dialects make gaps: a port's bus is its rank among the supported ones.
SetupMidiBusses(supported) ==
  [n \in DOMAIN supported |-> IF supported[n] THEN Cardinality({k \in 1 .. n - 1 : supported[k]}) ELSE -1]

OutputBus == SetupMidiBusses(NotePorts)
OutputBusIndex(port) == IF port \in DOMAIN OutputBus THEN OutputBus[port] ELSE -1

\* Without a block, or a list of the host, nothing is claimed to be sent.
PushVstOutputEvent(e, taken) ==
  IF adapting = "process" /\ taken /\ Len(outputEvents) < MaxOutputs
  THEN outputEvents' = Append(outputEvents, e) ELSE UNCHANGED outputEvents

\* A note of CLAP, if its port has a bus.
EnqueueNote(port, taken) ==
  /\ PlugInPushes /\ OutputBusIndex(port) >= 0
  /\ PushVstOutputEvent([type |-> "noteOn", bus |-> OutputBusIndex(port), from |-> 0, to |-> 0], taken)
  /\ UNCHANGED <<editVars, activeNotes, sounding, sysexOutputSize>>

\* What VST3 has for a MIDI 1.0 status; every other message is refused.
Midi1Equivalent(status) ==
  CASE status \in {"8x", "9x velocity 0"} -> {"noteOff"}
    [] status = "9x" -> {"noteOn"}
    [] status \in {"ax", "bx", "cx", "dx", "ex"} -> {"legacyCC"}
    [] status \in {"f1", "f2", "f3", "f6", "fa", "fb", "fc", "fe"} -> {"legacySystem"}
    [] OTHER -> {}

EnqueueMidi1(port, status, taken) ==
  /\ PlugInPushes /\ OutputBusIndex(port) >= 0
  /\ \E type \in Midi1Equivalent(status) :
       PushVstOutputEvent([type |-> type, bus |-> OutputBusIndex(port), from |-> 0, to |-> 0], taken)
  /\ UNCHANGED <<editVars, activeNotes, sounding, sysexOutputSize>>

NotCounted(size) == sysexOutputSize
SysexAfter(size) == sysexOutputSize + size

EnqueueSysex(port, size, taken) ==
  /\ PlugInPushes /\ OutputBusIndex(port) >= 0
  /\ size <= SysexCapacity - sysexOutputSize
  /\ PushVstOutputEvent([type |-> "sysex", bus |-> OutputBusIndex(port), from |-> sysexOutputSize, to |-> sysexOutputSize + size], taken)
  /\ sysexOutputSize' = IF outputEvents' # outputEvents THEN SysexAfter(size) ELSE sysexOutputSize
  /\ UNCHANGED <<editVars, activeNotes, sounding>>

HostEvents ==
  {[type |-> "on", time |-> t, note |-> nextNote, key |-> k, tuned |-> b] :
      t \in {0, 1}, k \in Keys, b \in BOOLEAN}
  \cup {[type |-> ty, time |-> 0, note |-> s.note, key |-> s.key, tuned |-> FALSE] :
      ty \in {"off", "pressure", "aftertouch", "value"}, s \in sounding}
  \cup {[type |-> "sysex", time |-> 0, note |-> 0, key |-> "none", tuned |-> FALSE]}
HostLists == {<<>>} \cup {<<e>> : e \in {x \in HostEvents : nextNote <= MaxNotes \/ x.type # "on"}}
  \cup {<<e, [e EXCEPT !.type = "value", !.tuned = FALSE]>> : e \in {x \in HostEvents : nextNote <= MaxNotes /\ x.type = "on"}}
HostChanges == {{}} \cup {{[id |-> p, last |-> 0]} : p \in Params \cup {Controller}}

EventsNext ==
  \/ SetupProcessing \/ DropAdapter \/ DrainQueue \/ Flush \/ ProcessReturns
  \/ \E list \in HostLists, changes \in HostChanges, context \in Contexts, whole \in BOOLEAN :
       Process(list, changes, context, whole)
  \/ \E p \in Params : GestureBegin(p) \/ GestureEnd(p) \/ ParamValue(p)
  \/ \E n \in sounding : NoteEnd(n)
  \/ \E port \in DOMAIN OutputBus, taken \in BOOLEAN :
       EnqueueNote(port, taken) \/ (\E status \in {"9x", "ex", "f4"} : EnqueueMidi1(port, status, taken))
         \/ \E size \in SysexSizes : EnqueueSysex(port, size, taken)

EventsSpec == EventsInit /\ [][EventsNext]_eventsVars
----------------------------------------------------------------------------
\* What the host records once it has seen the queue.
Recorded == FoldLeft(LAMBDA open, e : CASE e.type = "editstart" -> open \cup {e.id}
                                        [] e.type = "editend" -> open \ {e.id}
                                        [] OTHER -> open, hostEdits, queueToUI)

EventsTypeOK ==
  /\ adapting \in {"no", "idle", "process", "flush"}
  /\ gestured \in SeqOf(Params, Cardinality(Params)) /\ holding \subseteq Params
  /\ Len(queueToUI) < QueueSize /\ hostEdits \subseteq Params
  /\ sysexOutputSize \in 0 .. SysexCapacity

(* The host records exactly what the wrapper keeps from being sent back:    *)
(* whether the edits end in the plug-in or with the adapter, nothing stays  *)
(* latched at the host and no value arrives outside of an edit.             *)
EditsBalance == Recorded = Range(gestured) /\ strayEdits = 0

(* Every expression the host has for a sounding note reaches the plug-in    *)
(* once, for that note's key, wherever its slot is.                         *)
ExpressionReachesItsNote ==
  InCall => \A k \in DOMAIN block.events :
    LET e == block.events[k] IN
    e.type \in {"pressure", "aftertouch", "value"} =>
      Cardinality({n \in DOMAIN clapEvents : clapEvents[n] = Expression(e, e)})
        = Cardinality({j \in DOMAIN block.events : block.events[j].note = e.note
                          /\ (block.events[j].type \in {"pressure", "aftertouch", "value"} \/ block.events[j].tuned)})

(* A host may read an output event until process() returns: the bytes of    *)
(* two system-exclusive messages of a block never overlap.                  *)
BytesRetained ==
  \A a, b \in DOMAIN outputEvents :
    a < b => outputEvents[a].to <= outputEvents[b].from \/ outputEvents[b].to = 0

(* A transport flag never vouches for a value of an earlier block.          *)
TransportFresh ==
  /\ "beats" \in transport.flags => transport.beats # "old" /\ transport.bar # "old"
  /\ "tempo" \in transport.flags => transport.tempo = "now"
  /\ "loop" \in transport.flags => transport.loop # "old"
=============================================================================
