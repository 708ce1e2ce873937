------------------------------ MODULE AuEvents ------------------------------
(***************************************************************************)
(* The events of an Audio Unit (detail/auv2/process.cpp, the entry points  *)
(* of auv2_base_classes.h): what the host's MIDI becomes on the process    *)
(* adapter's queue, which of it a block, a flush and a state recall take   *)
(* from there, and what the plugin's output events become on the host's    *)
(* side.  Each step holds the process lock.                                *)
(***************************************************************************)
EXTENDS Integers, Sequences, FiniteSets, SequencesExt

CONSTANTS
  Dialects,       \* what the plugin's note input may prefer: "clap", "midi", "midi2"
  OutPortIds,     \* the ids of the plugin's note output ports, in their order
  ListSize,       \* messages an output list holds
  MaxEvents, MaxPushed   \* bounds: events from the host, messages of the plugin

VARIABLES adapter, outputs, heard, sent
eventVars == <<adapter, outputs, heard, sent>>

\* adapter: its queue, the sysex buffers in use, the recall under way and how many events
\* were there when it began; transferred: what moved to the other adapter.
AuEventsInit ==
  /\ adapter = [there |-> TRUE, events |-> <<>>, buffers |-> 0, recall |-> FALSE, boundary |-> 0]
  \* per port: the list since the last render; pushed, reached: history
  /\ outputs = [i \in DOMAIN OutPortIds |-> [list |-> <<>>, full |-> FALSE]]
  \* history: what the plugin was given, what a recall replaced, what was given up with the
  \* adapter
  /\ heard = [once |-> {}, twice |-> FALSE, replaced |-> {}, gone |-> {}]
  /\ sent = [count |-> 0, dialect |-> "none", pushed |-> 0, host |-> [i \in DOMAIN OutPortIds |-> <<>>]]

IsParameter(event) == event.kind = "param"

\* The edits of a queue in their order, or everything else, up to each place.
Selection(events, edits) ==
  LET left[n \in 0..Len(events)] ==
        IF n = 0 THEN <<>>
        ELSE IF IsParameter(events[n]) <=> edits THEN Append(left[n - 1], events[n])
        ELSE left[n - 1]
  IN  left

Those(events, edits) == Selection(events, edits)[Len(events)]
-----------------------------------------------------------------------------
(* What the host's messages become. *)

Event(kind, id) == [kind |-> kind, id |-> id, late |-> FALSE]

\* addMIDIEvent(): a note of velocity 0 ends a note; system messages have their own way.
FromMidi(status, velocity, dialect, id) ==
  CASE status = "system" -> <<>>
    [] status = "note" /\ dialect = "clap" ->
         <<Event(IF velocity = 0 THEN "off" ELSE "on", id)>>
    [] status = "pressure" /\ dialect = "clap" -> <<Event("expression", id)>>
    [] OTHER -> <<Event("midi", id)>>

\* addMIDI2Event(), for a plugin that understands it; otherwise the MIDI 1.0 it stands for.
FromMidi2(status, dialect, id) ==
  IF dialect = "midi2" THEN <<Event("midi2", id)>> ELSE FromMidi(status, 1, dialect, id)

\* startNote(): a pitch between two keys adds a tuning.
Started(tuned, dialect, id) ==
  IF dialect = "clap"
  THEN <<Event("on", id)>> \o (IF tuned THEN <<Event("tuning", id + 1)>> ELSE <<>>)
  ELSE <<Event("midi", id)>>

StoppedNote(dialect, id) ==
  <<Event(IF dialect = "clap" THEN "off" ELSE "midi", id)>>

FromSysex(id) == <<Event("sysex", id)>>
FromParameter(id) == <<Event("param", id)>>

\* MIDIEvent(), MIDIEventList(), SysEx(), StartNote(), StopNote(), SetParameter().
Messages(dialect, id) ==
  {FromMidi(status, velocity, dialect, id) :
     status \in {"note", "pressure", "system"}, velocity \in {0, 1}}
  \cup {FromMidi2("note", dialect, id), Started(TRUE, dialect, id), StoppedNote(dialect, id),
        FromSysex(id), FromParameter(id)}

\* What arrives while there is no adapter is dropped.
HostSends ==
  /\ adapter.there /\ sent.dialect # "none" /\ sent.count < MaxEvents
  /\ \E events \in Messages(sent.dialect, sent.count + 1) :
       /\ adapter' = [adapter EXCEPT
             !.events = @ \o [i \in DOMAIN events |->
                                [events[i] EXCEPT !.late = adapter.recall]],
             !.buffers = IF \E i \in DOMAIN events : events[i].kind = "sysex"
                         THEN @ + 1 ELSE @]
       /\ sent' = [sent EXCEPT !.count = @ + Len(events)]
  /\ UNCHANGED <<outputs, heard>>

\* setupMIDIBusses(): the dialect of the first input port is that of them all.
SetupMIDIBusses ==
  /\ sent.dialect = "none"
  /\ \E d \in Dialects : sent' = [sent EXCEPT !.dialect = d]
  /\ UNCHANGED <<adapter, outputs, heard>>
-----------------------------------------------------------------------------
(* Blocks, flushes and recalls. *)

\* selectDeliverableEvents(): which events; their order in time is left out.
Deliverable(parametersOnly) ==
  {e \in Range(adapter.events) : IF IsParameter(e) THEN ~adapter.recall ELSE ~parametersOnly}

Hear(delivered) ==
  LET ids == {e.id : e \in delivered} IN
  heard' = [heard EXCEPT !.once = @ \cup ids, !.twice = @ \/ ids \cap heard.once # {}]

\* Mutant: the boundary of the recall still counts the notes the block took.
BoundaryKept(events) == adapter.boundary

\* What was before the boundary and is still queued.
BoundaryAfter(events) == Len(Selection(events, TRUE)[adapter.boundary])

\* process(), and what Render() does with the plugin's messages.
ProcessBlock ==
  /\ adapter.there
  /\ Hear(Deliverable(FALSE))
  /\ adapter' = [adapter EXCEPT
        !.events = IF adapter.recall THEN Those(@, TRUE) ELSE <<>>,
        !.boundary = IF adapter.recall THEN BoundaryAfter(adapter.events) ELSE @,
        !.buffers = 0]
  /\ sent' = [sent EXCEPT !.host = [i \in DOMAIN outputs |-> @[i] \o outputs[i].list]]
  /\ outputs' = [i \in DOMAIN outputs |-> [list |-> <<>>, full |-> FALSE]]

\* Mutant: a flush empties the queue, as a block does.
Emptied(events) == <<>>

\* The notes wait for a block.
LeftByFlush(events) == Those(events, FALSE)

FlushAdapter ==
  /\ adapter.there
  /\ Hear(Deliverable(TRUE))
  /\ adapter' = IF adapter.recall THEN adapter ELSE [adapter EXCEPT !.events = LeftByFlush(@)]
  /\ UNCHANGED <<outputs, sent>>

\* restoreState(): the lock is given up for load().
BeginRecall ==
  /\ adapter.there /\ ~adapter.recall
  /\ adapter' = [adapter EXCEPT !.recall = TRUE, !.boundary = Len(adapter.events)]
  /\ UNCHANGED <<outputs, heard, sent>>

\* What was queued before it, and what stays queued after it.
Old == SubSeq(adapter.events, 1, IF adapter.boundary < Len(adapter.events)
                                 THEN adapter.boundary ELSE Len(adapter.events))
Remaining(loaded) == (IF loaded THEN Those(Old, FALSE) ELSE Old)
                        \o SubSeq(adapter.events, Len(Old) + 1, Len(adapter.events))
InTime(events) == [i \in DOMAIN events |-> [events[i] EXCEPT !.late = FALSE]]

EndRecall ==
  /\ adapter.recall
  /\ \E loaded \in BOOLEAN :
       /\ adapter' = [adapter EXCEPT !.recall = FALSE, !.boundary = 0,
                         !.events = InTime(Remaining(loaded))]
       /\ heard' = [heard EXCEPT !.replaced = @ \cup
            (IF loaded THEN {e \in Range(Old) : IsParameter(e)} ELSE {})]
  /\ UNCHANGED <<outputs, sent>>

\* deactivateCLAP(): the parameters move to the other adapter, the rest is given up; then a
\* new adapter.
ReplaceAdapter ==
  /\ ~adapter.recall
  /\ adapter' = [adapter EXCEPT !.there = ~@, !.events = <<>>, !.buffers = 0]
  /\ heard' = [heard EXCEPT !.gone = @ \cup {e.id : e \in Range(adapter.events)}]
  /\ UNCHANGED <<outputs, sent>>
-----------------------------------------------------------------------------
(* The plugin's messages. *)

\* MIDIOutput::add...(): once the list is full nothing more goes on it until it is cleared.
Added(port, message) ==
  IF port.full THEN port
  ELSE IF Len(port.list) = ListSize THEN [port EXCEPT !.full = TRUE]
  ELSE [port EXCEPT !.list = Append(@, message)]

\* send(): the first port whose id is the index the plugin gives.
PortOf(index) ==
  {i \in DOMAIN OutPortIds : OutPortIds[i] = index /\ \A j \in 1..(i - 1) : OutPortIds[j] # index}

PluginSends ==
  /\ adapter.there /\ sent.pushed < MaxPushed
  /\ \E index \in 0..(Len(OutPortIds) - 1) :
       outputs' = [i \in DOMAIN outputs |->
                     IF i \in PortOf(index) THEN Added(outputs[i], sent.pushed + 1)
                     ELSE outputs[i]]
  /\ sent' = [sent EXCEPT !.pushed = @ + 1]
  /\ UNCHANGED <<adapter, heard>>

AuEventsNext ==
  \/ SetupMIDIBusses \/ HostSends \/ ProcessBlock
  \/ FlushAdapter \/ BeginRecall \/ EndRecall \/ ReplaceAdapter \/ PluginSends

AuEventsSpec == AuEventsInit /\ [][AuEventsNext]_eventVars
-----------------------------------------------------------------------------
AuEventsTypeOK ==
  /\ adapter.boundary <= Len(adapter.events)
  /\ \A i \in DOMAIN outputs : Len(outputs[i].list) <= ListSize
  /\ sent.count <= MaxEvents + 1 /\ sent.dialect \in Dialects \cup {"none"}

(***************************************************************************)
(* Whatever blocks, flushes and recalls come in between, each event the    *)
(* host sent is waiting or was given to the plugin, and only once: a flush *)
(* may not take a note, nor a recall that fails an edit; the bytes of a     *)
(* message stay its own.  And what the plugin sent on a port the host gets *)
(* there once, in the order of sending.                                    *)
(***************************************************************************)
EachEventOnce ==
  /\ ~heard.twice
  /\ Cardinality({e \in Range(adapter.events) : e.kind = "sysex"}) <= adapter.buffers
  /\ \A port \in DOMAIN sent.host : \A i, j \in DOMAIN sent.host[port] :
       i < j => sent.host[port][i] < sent.host[port][j]
  /\ \A id \in 1..sent.count :
       \/ id \in heard.once \/ id \in heard.gone
       \/ \E e \in Range(adapter.events) \cup heard.replaced : e.id = id

(***************************************************************************)
(* A recall replaces the edits from before it and no other, though a block *)
(* took the notes from among them while the state was loading.             *)
(***************************************************************************)
OnlyOldEditsReplaced == \A e \in heard.replaced : ~e.late
=============================================================================
