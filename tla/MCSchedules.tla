---------------------------- MODULE MCSchedules ----------------------------
(***************************************************************************)
(* The parts of the wrappers whose threads wait for one another, on small  *)
(* instances: the preset index, the VST3 wrapper's two main threads, the   *)
(* Audio Unit's restarts, those of an AAX instance and the standalone's    *)
(* MIDI.  They share no state: a behaviour exercises one of them, `part',  *)
(* and leaves the others as they began.                                    *)
(***************************************************************************)
EXTENDS PresetIndex, Vst3Threads, AuUnit, AaxUnit, StandaloneMidi

VARIABLE part
partsVars == <<part, indexVars, threadVars, auVars, aaxVars, midiVars>>
-----------------------------------------------------------------------------
\* Preset libraries: a folder, a file, a soundpack, a provider that fails.
Ext(n) == [dot |-> FALSE, upper |-> FALSE, name |-> n]
Preset(k, n, ids) == [key |-> k, name |-> n, ids |-> ids]
File(p, d, x, c) == [path |-> p, depth |-> d, ext |-> x, content |-> c]
MCLibraries == {<<
  [usable |-> TRUE, extensions |-> {[dot |-> TRUE, upper |-> TRUE, name |-> "p"]}, soundpacks |-> {"s"},
   inside |-> <<>>,
   locations |-> <<[kind |-> 0, path |-> 0], [kind |-> 0, path |-> 2], [kind |-> 0, path |-> 1]>>],
  [usable |-> FALSE, extensions |-> {}, soundpacks |-> {"t"}, inside |-> <<>>, locations |-> <<>>],
  [usable |-> TRUE, extensions |-> {}, soundpacks |-> {},
   inside |-> <<Preset(2, 0, {"ours"}), Preset(1, 7, {})>>,
   locations |-> <<[kind |-> 1, path |-> 0], [kind |-> 9, path |-> 0]>>]>>}
Folder(files) == [is |-> "directory", content |-> <<>>, files |-> files]
MCDisks == {
  (1 :> Folder({File(6, 9, Ext("p"), <<Preset(0, 9, {})>>),
                File(5, 0, Ext("p"), <<Preset(0, 0, {"ours", "other"})>>),
                File(3, 1, [Ext("p") EXCEPT !.upper = TRUE], <<Preset(0, 4, {})>>)}))
    @@ (2 :> [is |-> "file", content |-> <<Preset(0, 6, {"other"}), Preset(1, 8, {"ours"})>>, files |-> {}]),
  (1 :> Folder({File(4, 0, Ext("q"), <<Preset(0, 5, {})>>)}))
    @@ (2 :> [is |-> "gone", content |-> <<>>, files |-> {}])}

MCMessages == {[kind |-> "on", size |-> 3], [kind |-> "off", size |-> 3], [kind |-> "sysex", size |-> 5]}
-----------------------------------------------------------------------------
Init ==
  /\ part \in {"index", "threads", "unit", "aax", "midi in", "midi out"}
  /\ IndexInit /\ (part = "index" \/ disk = CHOOSE d \in Disks : TRUE)
  /\ ThreadsInit /\ AuUnitInit /\ AaxInit /\ MidiInit

OfIndex(step) == part = "index" /\ step /\ UNCHANGED <<part, threadVars, auVars, aaxVars, midiVars>>
OfThreads(step) == part = "threads" /\ step /\ UNCHANGED <<part, indexVars, auVars, aaxVars, midiVars>>
OfUnit(step) == part = "unit" /\ step /\ UNCHANGED <<part, indexVars, threadVars, aaxVars, midiVars>>
OfAax(step) == part = "aax" /\ step /\ UNCHANGED <<part, indexVars, threadVars, auVars, midiVars>>
OfMidi(step) ==
  /\ part \in {"midi in", "midi out"} /\ step
  /\ UNCHANGED <<part, indexVars, threadVars, auVars, aaxVars>>

Next ==
  \/ OfIndex(IndexNext) \/ OfThreads(ThreadsNext) \/ OfUnit(AuUnitNext)
  \/ OfAax(AaxThreads)
  \/ OfMidi(part = "midi in" /\ InNext) \/ OfMidi(part = "midi out" /\ OutNext)

\* IndexFairness, ThreadsFairness and AuFairness; that the device keeps asking for blocks; that
\* Pro Tools keeps idling its wrappers, a block and the host's calls return, and the restart of
\* an instance that waits for a lock gets it, which a short block leaves free again and again.
\* A condition on one part is vacuous in the behaviours of another, so conditions of different
\* parts are stated as one.
Fairness ==
  /\ WF_partsVars(OfIndex(CrawlStep) \/ OfThreads(HostReturns) \/ OfUnit(RenderEnds)
                   \/ OfAax(IdleReturns \/ Background)
                   \/ OfMidi(BeginBlock \/ TakeInput \/ EndBlock))
  /\ WF_partsVars(OfIndex(ResetReturns) \/ OfThreads(AudioReturns) \/ OfAax(HostFinishes))
  /\ WF_partsVars(OfThreads(Helper) \/ OfAax(EndAaxBlock))
  /\ \A i \in Instances : WF_partsVars(OfIndex(TellLate(i))) /\ WF_partsVars(OfIndex(RemovalReturns(i)))
  /\ SF_partsVars(OfThreads(RunLoopIdle) \/ OfUnit(AuMainThread) \/ OfAax(Doors))
  /\ SF_partsVars(OfThreads(FireTimer) \/ OfUnit(Idle) \/ OfAax(LockLifecycle))
  /\ SF_partsVars(OfThreads(GetsItsLock))

Spec == Init /\ [][Next]_partsVars /\ Fairness
-----------------------------------------------------------------------------
SchedulesTypeOK == PresetTypeOK /\ ThreadsTypeOK /\ AuUnitTypeOK /\ MidiTypeOK

\* A listener of the index hears nothing after its removal; the VST3 wrapper has one main thread
\* at a time, and the plugin one thread flushing; and a MIDI port that is closed holds no note.
RolesAreExclusive ==
  NoCallAfterRemoval /\ OneMainThread /\ FlushAlone /\ NoHungNote /\ SchedulesTypeOK

\* The Audio Unit renders into a processing plugin only, each edit of the host reaches it
\* once, and a recall is not undone by edits from before it.
AuUnitIsSafe == RenderOnlyWhileProcessing /\ EditsReachThePlugin /\ RecallWins

\* What is served: the same numbers of the presets every time, and MIDI out of rings that are
\* not overrun.
ServedRight == SameNumbersEveryTime /\ RingsFit

\* Nobody is kept waiting: a wrapper that registered for the presets is told, a plugin that
\* asked for a callback of an active wrapper gets it, a dirty state reaches the host, and an
\* AAX instance that asked for a restart is restarted and heard again;
\* the timers of an active plugin fire again and again, and all MIDI input reaches the plugin.
\* And they are served what they asked for.
Waiting ==
  \/ part = "index" /\ \E i \in Instances : wrapper[i] = "registered"
  \/ part = "threads" /\ "callback" \in requested /\ active /\ at["host"] # "entry"
  \/ part = "unit" /\ asked.dirty
  \/ part = "aax" /\ (("restart" \in wants /\ instanceAdded) \/ restarting)
  \/ part = "midi in" /\ delivered # accepted
RequestsServed == []<>~Waiting /\ TimerFires /\ []ServedRight
=============================================================================
