--------------------------- MODULE StandaloneMidi ---------------------------
(***************************************************************************)
(* The standalone's MIDI (standalone_host_midi.cpp, midi_ring.h, the input *)
(* events of process() in standalone_host.cpp).                            *)
(*                                                                         *)
(* In: the backend's threads push whole messages into a ring, and each     *)
(* block takes what its events and its sysex arena have room for.  Out:    *)
(* the plugin pushes into another ring from the audio thread, and a thread *)
(* of the host sends on to every open port.  A message is a record of what *)
(* the code tells apart: its kind and its size.                            *)
(***************************************************************************)
EXTENDS Integers, Sequences, FiniteSets, SequencesExt

CONSTANTS
  Messages,     \* the messages a device, or the plugin, sends
  OutPorts,     \* the output ports there are
  Virtual,      \* the virtual output
  RingSize,     \* MidiRing's bytes
  HeaderSize,   \* the bytes of a message's length in the ring
  EventsPerCycle, ArenaSize,
  MaxIn, MaxOut \* bounds: the messages taken from the devices, and from the plugin

VARIABLES
  midiToAudio, accepted, delivered, block,      \* in
  midiFromAudio, pushing, sent,                 \* out: the ring, the plugin's push
  outputOpen, sender, sentNoteOn, ports, sounding, work

inVars == <<midiToAudio, accepted, delivered, block>>
outVars == <<midiFromAudio, pushing, sent, outputOpen, sender, sentNoteOn, ports, sounding, work>>
midiVars == <<inVars, outVars>>

NoMessage == [kind |-> "none", size |-> 0]
-----------------------------------------------------------------------------
(* MidiRing, of which a message is all in or not in at all. *)

BytesIn(q) == FoldLeft(LAMBDA n, m : n + HeaderSize + m.size, 0, q)

\* Mutant: the room for the header is not asked for.
HeaderForgotten(q, m) == IF RingSize - BytesIn(q) >= m.size THEN Append(q, m) ELSE q

TryPush(q, m) ==
  IF /\ m.size \in 1 .. RingSize - HeaderSize
     /\ RingSize - BytesIn(q) >= HeaderSize + m.size
  THEN Append(q, m) ELSE q

NextSize(q) == IF q = <<>> THEN 0 ELSE Head(q).size
NextIsSysex(q) == q # <<>> /\ Head(q).kind = "sysex"
-----------------------------------------------------------------------------
(* In. *)

\* Active sensing, and a sysex for a plugin without the midi dialect, go no further; the
\* ring counts, under the push lock, what it has no room for.
ProcessMIDIMessage ==
  /\ Len(accepted) < MaxIn
  /\ \E m \in Messages :
       /\ midiToAudio' = TryPush(midiToAudio, m)
       /\ accepted' = IF midiToAudio' = midiToAudio THEN accepted ELSE Append(accepted, m)
  /\ UNCHANGED <<delivered, block, outVars>>

\* Mutant: the arena's use is carried on from block to block.
ArenaKept == [events |-> 0, arena |-> block.arena, on |-> TRUE]

NewBlock == [events |-> 0, arena |-> 0, on |-> TRUE]

\* What does not fit waits for the next block, with all that came after it.
RoomForNext ==
  /\ NextSize(midiToAudio) > 0 /\ block.events < EventsPerCycle
  /\ NextIsSysex(midiToAudio) => block.arena + NextSize(midiToAudio) <= ArenaSize

BeginBlock ==
  /\ ~block.on /\ midiToAudio # <<>>
  /\ block' = NewBlock
  /\ UNCHANGED <<midiToAudio, accepted, delivered, outVars>>

TakeInput ==
  /\ block.on /\ RoomForNext
  /\ midiToAudio' = Tail(midiToAudio)
  /\ delivered' = Append(delivered, Head(midiToAudio))
  /\ block' = [block EXCEPT
       !.events = @ + 1,
       !.arena = IF NextIsSysex(midiToAudio) THEN @ + NextSize(midiToAudio) ELSE @]
  /\ UNCHANGED <<accepted, outVars>>

EndBlock ==
  /\ block.on /\ ~RoomForNext
  /\ block' = [block EXCEPT !.on = FALSE]
  /\ UNCHANGED <<midiToAudio, accepted, delivered, outVars>>
-----------------------------------------------------------------------------
(* Out: the audio thread.  The flag is read, then the message pushed. *)

OutputEventPush ==
  /\ pushing = NoMessage /\ sent < MaxOut
  /\ sent' = sent + 1
  /\ \E m \in Messages : pushing' = IF outputOpen THEN m ELSE NoMessage
  /\ UNCHANGED <<inVars, midiFromAudio, outputOpen, sender, sentNoteOn, ports, sounding, work>>

Pushed ==
  /\ pushing # NoMessage
  /\ midiFromAudio' = TryPush(midiFromAudio, pushing)
  /\ pushing' = NoMessage
  /\ UNCHANGED <<inVars, sent, outputOpen, sender, sentNoteOn, ports, sounding, work>>
-----------------------------------------------------------------------------
(* Out: the sending thread. *)

\* To every open output and the virtual one.
SendToAll ==
  /\ sender = "running" /\ midiFromAudio # <<>>
  /\ LET m == Head(midiFromAudio)
     IN /\ sounding' = CASE m.kind = "on" -> sounding \cup ports
                         [] m.kind = "off" -> sounding \ ports
                         [] OTHER -> sounding
        /\ sentNoteOn' = (sentNoteOn \/ m.kind = "on")
  /\ midiFromAudio' = Tail(midiFromAudio)
  /\ UNCHANGED <<inVars, pushing, sent, outputOpen, sender, ports, work>>

\* The thread finds the ring empty, and the flag clear: every channel's notes off, if one
\* was ever on.
MidiOutputLoopEnds ==
  /\ sender = "running" /\ midiFromAudio = <<>> /\ ~outputOpen
  /\ sender' = "ended"
  /\ sounding' = IF sentNoteOn THEN sounding \ ports ELSE sounding
  /\ UNCHANGED <<inVars, midiFromAudio, pushing, sent, outputOpen, sentNoteOn, ports, work>>
-----------------------------------------------------------------------------
(* Out: the main thread's calls, each stopping the thread, changing the ports and starting
   it again. *)

StopMidiOutputThread ==
  /\ work.do = "stop"
  /\ outputOpen' = FALSE
  /\ work' = [work EXCEPT !.do = "join"]
  /\ UNCHANGED <<inVars, midiFromAudio, pushing, sent, sender, sentNoteOn, ports, sounding>>

\* Mutant: the thread is told, and not waited for.
ToldOnly == TRUE

Joinable == sender \in {"none", "ended"}

JoinMidiOutputThread ==
  /\ work.do = "join" /\ Joinable
  /\ sender' = IF sender = "ended" THEN "none" ELSE sender
  /\ work' = [work EXCEPT !.do = "ports"]
  /\ UNCHANGED <<inVars, midiFromAudio, pushing, sent, outputOpen, sentNoteOn, ports, sounding>>

\* openOutputs() opens exactly these, or those of them that open.
OpenMidiOutputPorts ==
  /\ work.do = "none"
  /\ \E want \in SUBSET OutPorts :
       work' = [do |-> "stop", wanted |-> want \cup (ports \cap {Virtual})]
  /\ UNCHANGED <<inVars, midiFromAudio, pushing, sent, outputOpen, sender, sentNoteOn, ports,
                 sounding>>

SetVirtualMidiOutput ==
  /\ work.do = "none"
  /\ \E open \in BOOLEAN :
       work' = [do |-> "stop", wanted |-> IF open THEN ports \cup {Virtual} ELSE ports \ {Virtual}]
  /\ UNCHANGED <<inVars, midiFromAudio, pushing, sent, outputOpen, sender, sentNoteOn, ports,
                 sounding>>

CloseMidiOutputPorts ==
  /\ work.do = "none"
  /\ work' = [do |-> "stop", wanted |-> {}]
  /\ UNCHANGED <<inVars, midiFromAudio, pushing, sent, outputOpen, sender, sentNoteOn, ports,
                 sounding>>

PortsOpened ==
  /\ work.do = "ports"
  /\ \E opened \in SUBSET work.wanted : ports' = opened
  /\ work' = [work EXCEPT !.do = "start"]
  /\ UNCHANGED <<inVars, midiFromAudio, pushing, sent, outputOpen, sender, sentNoteOn, sounding>>

StartMidiOutputThreadIfNeeded ==
  /\ work.do = "start"
  /\ work' = [do |-> "none", wanted |-> {}]
  /\ IF sender # "none" \/ ports = {}
     THEN UNCHANGED <<midiFromAudio, outputOpen, sender, sentNoteOn>>
     ELSE /\ midiFromAudio' = <<>>
          /\ outputOpen' = TRUE /\ sender' = "running" /\ sentNoteOn' = FALSE
  /\ UNCHANGED <<inVars, pushing, sent, ports, sounding>>
-----------------------------------------------------------------------------
MidiInit ==
  /\ midiToAudio = <<>> /\ accepted = <<>> /\ delivered = <<>>
  /\ block = [events |-> 0, arena |-> 0, on |-> FALSE]
  /\ midiFromAudio = <<>> /\ pushing = NoMessage /\ sent = 0
  /\ outputOpen = FALSE /\ sender = "none" /\ sentNoteOn = FALSE
  /\ ports = {} /\ sounding = {} /\ work = [do |-> "none", wanted |-> {}]

InNext == ProcessMIDIMessage \/ BeginBlock \/ TakeInput \/ EndBlock

OutNext ==
  \/ OutputEventPush \/ Pushed \/ SendToAll \/ MidiOutputLoopEnds
  \/ StopMidiOutputThread \/ JoinMidiOutputThread \/ PortsOpened \/ StartMidiOutputThreadIfNeeded
  \/ OpenMidiOutputPorts \/ SetVirtualMidiOutput \/ CloseMidiOutputPorts

MidiNext == InNext \/ OutNext

\* The stream's callback comes again for as long as it runs.
MidiSpec == MidiInit /\ [][MidiNext]_midiVars /\ WF_midiVars(BeginBlock \/ TakeInput \/ EndBlock)
-----------------------------------------------------------------------------
MidiTypeOK ==
  /\ sender \in {"none", "running", "ended"}
  /\ ports \subseteq OutPorts \cup {Virtual} /\ sounding \subseteq OutPorts \cup {Virtual}
  /\ work.do \in {"none", "stop", "join", "ports", "start"}

(* The rings hold what they have the bytes for.                            *)
RingsFit == BytesIn(midiToAudio) <= RingSize /\ BytesIn(midiFromAudio) <= RingSize

(***************************************************************************)
(* "a note held when the port closes would otherwise sound on until the    *)
(* device is switched off": a port that is not open holds no note, in      *)
(* whatever order the ports are chosen, the plugin plays and the thread    *)
(* gets to run.                                                            *)
(***************************************************************************)
NoHungNote == sounding \subseteq ports

(***************************************************************************)
(* A message the ring took reaches the plugin: neither a block full of     *)
(* events nor a sysex that the arena has no room for this time holds up    *)
(* for good what came in.                                                  *)
(***************************************************************************)
InputArrives == []<>(delivered = accepted)
=============================================================================
