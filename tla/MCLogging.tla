----------------------------- MODULE MCLogging -----------------------------
(***************************************************************************)
(* The two logs of wrac_log on small instances: the asynchronous file      *)
(* logger, with callers that stop after Budget calls, and the realtime     *)
(* ring.  What is modelled of them apart shares no state, so a behaviour   *)
(* exercises one of the two, `part'.                                       *)
(***************************************************************************)
EXTENDS AsyncFileLogger

CONSTANTS t1, t2, t3, w1, w2, Budget, Writers, MaxStarts, PromptStart

ASSUME RingAssumption ==
  /\ IsFiniteSet(Writers) /\ MaxStarts \in Nat /\ PromptStart \in BOOLEAN
  /\ MaxRecords > 0

VARIABLES part, calls_left
VARIABLES accepting, next_sequence, drain_sequence, rt_dropped, slots, rt_pc, sequence, service,
  discard_total, starts, rt_worker, last, total, start, drained_until, copy, sink, skipped, discarded

rtVars == <<accepting, next_sequence, drain_sequence, rt_dropped, slots, rt_pc, sequence, service,
  discard_total, starts, rt_worker, last, total, start, drained_until, copy, sink, skipped, discarded>>

\* So that the fairness of a thread of one part and of the other can be stated as one.
WriterOf == [t \in Threads |-> CASE t = t1 -> w1 [] t = t2 -> w2 [] OTHER -> NoThread]

Ring == INSTANCE RtLog WITH pc <- rt_pc, worker <- rt_worker, dropped <- rt_dropped

LoggingInit ==
  /\ part \in {"file logger", "ring"}
  /\ Init /\ calls_left = Budget
  /\ Ring!Init

OfLogger(step) == part = "file logger" /\ step /\ UNCHANGED <<part, rtVars>>
OfRing(step) == part = "ring" /\ step /\ UNCHANGED <<part, vars, calls_left>>

LoggerNext ==
  \/ /\ calls_left > 0 /\ calls_left' = calls_left - 1
     /\ \E t \in Threads : Call(t)
  \/ /\ UNCHANGED calls_left
     /\ (\E t \in Threads : Step(t)) \/ WorkerStep

LoggingNext == OfLogger(LoggerNext) \/ OfRing(Ring!Next)

loggingVars == <<part, vars, calls_left, rtVars>>

\* Each thread and each worker keeps running: the adapter owns none of them, and the
\* operating system schedules them all.  A condition on one part is vacuous in the behaviours
\* of the other.
LoggingSpec ==
  /\ LoggingInit /\ [][LoggingNext]_loggingVars
  /\ \A t \in Threads : WF_loggingVars(OfLogger(Step(t) /\ UNCHANGED calls_left)
                                       \/ OfRing(\E w \in Writers : WriterOf[t] = w /\ Ring!Write(w)))
  /\ WF_loggingVars(OfLogger(WorkerStep /\ UNCHANGED calls_left) \/ OfRing(Ring!Drain))
-----------------------------------------------------------------------------
LogsTypeOK == TypeOK /\ Ring!TypeOK

(***************************************************************************)
(* The file keeps the order of the records, none is lost without a notice  *)
(* that counts it, and flush() is a barrier.                               *)
(***************************************************************************)
FileLogKept == FileKeepsOrder /\ NothingLost /\ FlushIsBarrier

(***************************************************************************)
(* A realtime record gets to the file whole, once and in sequence order,   *)
(* or in the count of a notice.                                            *)
(***************************************************************************)
RingKept == Ring!SequenceOrder /\ Ring!RecordsWhole /\ Ring!NoSilentLoss

(***************************************************************************)
(* Every call into the logger returns, and what is published in the ring   *)
(* while the service runs is drained: the calls are bounded, so the two    *)
(* logs always come to rest again.                                         *)
(***************************************************************************)
AtRest ==
  IF part = "file logger" THEN \A t \in Threads : pc[t] = "idle"
  ELSE service # "on" \/ \A s \in Ring!Sequences : slots[Ring!Slot(s)].tag = s + 1 => drain_sequence > s

LogsProgress == []<>AtRest
=============================================================================
