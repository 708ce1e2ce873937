------------------------------- MODULE RtLog --------------------------------
(***************************************************************************)
(* The realtime log ring of crates/wrac_log/src/rt.rs: realtime threads    *)
(* reserve a sequence number and publish a record in its slot, the worker  *)
(* of the file logger drains the slots in sequence order, and starting and *)
(* stopping that worker discards what was retained and opens and closes    *)
(* the ring.  One step per atomic operation; a message is two bytes        *)
(* (half 1 and half 2), which is enough to see it torn.  Memory is         *)
(* sequentially consistent.                                                *)
(***************************************************************************)
EXTENDS Integers, Sequences, FiniteSets

CONSTANTS
  Writers,
  Capacity,       \* RT_LOG_CAPACITY
  MaxRecords,     \* bound on next_sequence
  MaxStarts,      \* bound on the starts of the worker
  PromptStart     \* start() resets the ring within the worker's first interval

VARIABLES
  accepting,                            \* RT_LOG_ACCEPTING
  next_sequence, drain_sequence, dropped,
  slots,                                \* index -> [tag, half]
  pc, sequence,                         \* the writers
  service, discard_total, starts,       \* start and shutdown of the file logger
  worker, last,                         \* the worker, and whether this drain is its last
  total, start, drained_until, copy,    \* locals of drain_to and of read
  sink,                                 \* history: records written to the file
  skipped, discarded                    \* history: sequences a notice or a start gave up

ringVars   == <<next_sequence, drain_sequence, dropped, slots>>
writerVars == <<pc, sequence>>
serviceVars == <<accepting, service, discard_total, starts>>
drainVars  == <<worker, last, total, start, drained_until, copy>>
history    == <<sink, skipped, discarded>>
vars == <<ringVars, writerVars, serviceVars, drainVars, history>>

Sequences == 0..(MaxRecords - 1)
Slot(s) == s % Capacity
NoRecord == -1
Larger(a, b) == IF a > b THEN a ELSE b

TypeOK ==
  /\ accepting \in BOOLEAN
  /\ next_sequence \in 0..MaxRecords
  /\ drain_sequence \in 0..next_sequence
  /\ dropped \in 0..MaxRecords
  /\ slots \in [0..(Capacity - 1) ->
                 [tag : 0..MaxRecords, half : [1..2 -> Sequences \cup {NoRecord}]]]
  /\ pc \in [Writers -> {"idle", "reserve", "count", "clear", "half 1", "half 2", "publish"}]
  /\ sequence \in [Writers -> Sequences]
  /\ service \in {"off", "total", "forget", "reset", "accept", "on", "stopping"}
  /\ discard_total \in 0..MaxRecords
  /\ starts \in 0..MaxStarts
  /\ worker \in {"none", "idle", "start", "notice", "tag", "half 1", "half 2", "again",
                 "store"}
  /\ last \in BOOLEAN
  /\ {total, start, drained_until} \subseteq 0..MaxRecords
  /\ copy \in [1..2 -> Sequences \cup {NoRecord}]
  /\ sink \in Seq([sequence : Sequences, half : [1..2 -> Sequences]])
  /\ skipped \subseteq Sequences /\ discarded \subseteq Sequences

Init ==
  /\ accepting = FALSE
  /\ next_sequence = 0 /\ drain_sequence = 0 /\ dropped = 0
  /\ slots = [i \in 0..(Capacity - 1) |-> [tag |-> 0, half |-> [h \in 1..2 |-> NoRecord]]]
  /\ pc = [w \in Writers |-> "idle"] /\ sequence = [w \in Writers |-> 0]
  /\ service = "off" /\ discard_total = 0 /\ starts = 0
  /\ worker = "none" /\ last = FALSE
  /\ total = 0 /\ start = 0 /\ drained_until = 0 /\ copy = [h \in 1..2 |-> NoRecord]
  /\ sink = <<>> /\ skipped = {} /\ discarded = {}
-----------------------------------------------------------------------------
(* write_rt_log on a realtime thread. *)

At(w, step) == pc[w] = step
Goto(w, step) == pc' = [pc EXCEPT ![w] = step]

\* rt_log_enabled and write_rt_log: the record is formatted only if accepted.
CheckAccepting(w) ==
  /\ At(w, "idle") /\ accepting
  /\ Goto(w, "reserve")
  /\ UNCHANGED <<ringVars, sequence, serviceVars, drainVars, history>>

\* The ring assumes that no writer is preempted, between its reservation and its
\* publication, for as long as the others need to fill the whole ring.
NotLapped == \A w \in Writers : pc[w] \in {"count", "clear", "half 1", "half 2", "publish"}
                                  => next_sequence < sequence[w] + Capacity

Reserve(w) ==
  /\ At(w, "reserve") /\ next_sequence < MaxRecords /\ NotLapped
  /\ sequence' = [sequence EXCEPT ![w] = next_sequence]
  /\ next_sequence' = next_sequence + 1
  /\ Goto(w, "count")
  /\ UNCHANGED <<drain_sequence, dropped, slots, serviceVars, drainVars, history>>

CountOverwritten(w) ==
  /\ At(w, "count")
  /\ dropped' = IF sequence[w] - drain_sequence >= Capacity THEN dropped + 1 ELSE dropped
  /\ Goto(w, "clear")
  /\ UNCHANGED <<next_sequence, drain_sequence, slots, sequence, serviceVars, drainVars,
                 history>>

TagKept(w)    == slots[Slot(sequence[w])].tag   \* mutant: the slot is not invalidated
TagCleared(w) == 0

ClearTag(w) ==
  /\ At(w, "clear")
  /\ slots' = [slots EXCEPT ![Slot(sequence[w])].tag = TagCleared(w)]
  /\ Goto(w, "half 1")
  /\ UNCHANGED <<next_sequence, drain_sequence, dropped, sequence, serviceVars, drainVars,
                 history>>

WriteHalf(w, h) ==
  /\ At(w, IF h = 1 THEN "half 1" ELSE "half 2")
  /\ slots' = [slots EXCEPT ![Slot(sequence[w])].half[h] = sequence[w]]
  /\ Goto(w, IF h = 1 THEN "half 2" ELSE "publish")
  /\ UNCHANGED <<next_sequence, drain_sequence, dropped, sequence, serviceVars, drainVars,
                 history>>

Publish(w) ==
  /\ At(w, "publish")
  /\ slots' = [slots EXCEPT ![Slot(sequence[w])].tag = sequence[w] + 1]
  /\ Goto(w, "idle")
  /\ UNCHANGED <<next_sequence, drain_sequence, dropped, sequence, serviceVars, drainVars,
                 history>>

Write(w) ==
  \/ CheckAccepting(w) \/ Reserve(w) \/ CountOverwritten(w) \/ ClearTag(w)
  \/ WriteHalf(w, 1) \/ WriteHalf(w, 2) \/ Publish(w)
-----------------------------------------------------------------------------
(* LazyFileWriter::start and shutdown, under its shutdown mutex. *)

\* The worker is spawned, and may already drain, before the ring is reset.
Spawn ==
  /\ service = "off" /\ starts < MaxStarts
  /\ starts' = starts + 1 /\ service' = "total" /\ worker' = "idle"
  /\ UNCHANGED <<ringVars, writerVars, accepting, discard_total, last, total, start,
                 drained_until, copy, history>>

DiscardTotal ==
  /\ service = "total"
  /\ discard_total' = next_sequence /\ service' = "forget"
  /\ UNCHANGED <<ringVars, writerVars, accepting, starts, drainVars, history>>

\* discard_retained_records: what the drains had not reached is given up.
Forget ==
  /\ service = "forget"
  /\ drain_sequence' = discard_total
  /\ discarded' = discarded \cup (drain_sequence..(discard_total - 1))
  /\ service' = "reset"
  /\ UNCHANGED <<next_sequence, dropped, slots, writerVars, accepting, discard_total, starts,
                 drainVars, sink, skipped>>

ResetDropped ==
  /\ service = "reset" /\ dropped' = 0 /\ service' = "accept"
  /\ UNCHANGED <<next_sequence, drain_sequence, slots, writerVars, accepting, discard_total,
                 starts, drainVars, history>>

Accept ==
  /\ service = "accept" /\ accepting' = TRUE /\ service' = "on"
  /\ UNCHANGED <<ringVars, writerVars, discard_total, starts, drainVars, history>>

\* shutdown: close the ring, drop the sender and join the worker.
Stop ==
  /\ service = "on" /\ accepting' = FALSE /\ service' = "stopping"
  /\ UNCHANGED <<ringVars, writerVars, discard_total, starts, drainVars, history>>

Join ==
  /\ service = "stopping" /\ worker = "none" /\ service' = "off"
  /\ UNCHANGED <<ringVars, writerVars, accepting, discard_total, starts, drainVars, history>>

Service == Spawn \/ DiscardTotal \/ Forget \/ ResetDropped \/ Accept \/ Stop \/ Join
-----------------------------------------------------------------------------
(* drain_to, by the worker: at each message or timeout, and once at its end.  No *)
(* message comes before start() returns, so the first drain waits for a timeout. *)

BeginDrain ==
  /\ worker = "idle"
  /\ PromptStart => service \in {"on", "stopping"}
  /\ total' = next_sequence /\ worker' = "start"
  /\ last' \in {FALSE, service = "stopping"}
  /\ UNCHANGED <<ringVars, writerVars, serviceVars, start, drained_until, copy, history>>

NoneOverwritten == 0   \* mutant: overwritten records are not left out

RetainedStart == Larger(total - Capacity, 0)

ChooseStart ==
  /\ worker = "start"
  /\ start' = Larger(drain_sequence, RetainedStart)
  /\ worker' = "notice"
  /\ UNCHANGED <<ringVars, writerVars, serviceVars, last, total, drained_until, copy, history>>

\* The records the notice reports, from a second load of drain_sequence.
ReportedSkip == drain_sequence..(start - 1)

Report ==
  /\ worker = "notice"
  /\ skipped' = skipped \cup ReportedSkip
  /\ dropped' = 0
  /\ drained_until' = start
  /\ worker' = IF start < total THEN "tag" ELSE "store"
  /\ UNCHANGED <<next_sequence, drain_sequence, slots, writerVars, serviceVars, last, total,
                 start, copy, sink, discarded>>

\* read: the tag, the message, and the tag again.
AlwaysPublished == TRUE   \* mutant

Published == slots[Slot(drained_until)].tag = drained_until + 1

ReadTag ==
  /\ worker = "tag"
  /\ worker' = IF Published THEN "half 1" ELSE "store"
  /\ UNCHANGED <<ringVars, writerVars, serviceVars, last, total, start, drained_until, copy,
                 history>>

ReadHalf(h) ==
  /\ worker = IF h = 1 THEN "half 1" ELSE "half 2"
  /\ copy' = [copy EXCEPT ![h] = slots[Slot(drained_until)].half[h]]
  /\ worker' = IF h = 1 THEN "half 2" ELSE "again"
  /\ UNCHANGED <<ringVars, writerVars, serviceVars, last, total, start, drained_until, history>>

\* A record whose tag changed meanwhile is a gap, at which the drain stops.
ReadTagAgain ==
  /\ worker = "again"
  /\ IF Published
     THEN /\ sink' = Append(sink, [sequence |-> drained_until, half |-> copy])
          /\ drained_until' = drained_until + 1
          /\ worker' = IF drained_until + 1 < total THEN "tag" ELSE "store"
     ELSE worker' = "store" /\ UNCHANGED <<sink, drained_until>>
  /\ UNCHANGED <<ringVars, writerVars, serviceVars, last, total, start, copy, skipped,
                 discarded>>

SkipGap == IF drained_until < total THEN drained_until + 1 ELSE total   \* mutant
Rewind  == start                                                        \* mutant

StopAtGap == drained_until

EndDrain ==
  /\ worker = "store"
  /\ drain_sequence' = StopAtGap
  /\ worker' = IF last THEN "none" ELSE "idle"
  /\ last' = FALSE
  /\ UNCHANGED <<next_sequence, dropped, slots, writerVars, serviceVars, total, start,
                 drained_until, copy, history>>

Drain ==
  \/ BeginDrain \/ ChooseStart \/ Report \/ ReadTag \/ ReadHalf(1) \/ ReadHalf(2)
  \/ ReadTagAgain \/ EndDrain
-----------------------------------------------------------------------------
Next == (\E w \in Writers : Write(w)) \/ Service \/ Drain

\* Realtime threads finish the record they began; the worker wakes at least at
\* every ASYNC_WORKER_RT_DRAIN_INTERVAL.
Fairness == (\A w \in Writers : WF_vars(Write(w))) /\ WF_vars(Drain)

Spec == Init /\ [][Next]_vars /\ Fairness
-----------------------------------------------------------------------------
(* Properties. *)

\* lib.rs: "Realtime logs preserve their own sequence order": the file never
\* gets a record twice or after a younger one, across restarts of the worker.
SequenceOrder ==
  \A i, j \in 1..Len(sink) : i < j => sink[i].sequence < sink[j].sequence

\* A record in the file is whole and is the one its sequence number names.
RecordsWhole ==
  \A i \in 1..Len(sink) : \A h \in 1..2 : sink[i].half[h] = sink[i].sequence

\* drain_to: "a record published immediately after this drain is not skipped
\* forever": what lies behind drain_sequence was written, reported as skipped or
\* discarded by a start of the worker.
NoSilentLoss ==
  \A s \in 0..(drain_sequence - 1) :
    s \in skipped \cup discarded \/ \E i \in 1..Len(sink) : sink[i].sequence = s

\* A record published while the worker runs reaches the file or a notice, unless
\* the worker is stopped first.
EventuallyDrained ==
  \A s \in Sequences :
    slots[Slot(s)].tag = s + 1 /\ service = "on" ~> drain_sequence > s \/ service # "on"
=============================================================================
