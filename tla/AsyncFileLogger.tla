-------------------------- MODULE AsyncFileLogger --------------------------
(***************************************************************************)
(* The file writer of wrac_log (crates/wrac_log/src/file_logger.rs).        *)
(* Plugin instances keep one worker thread alive through guards; log calls *)
(* hand it records through a bounded queue, or write to the file            *)
(* themselves when there is no worker.  env_logger serialises the log       *)
(* calls of all threads behind the mutex of its Pipe target; guards, the    *)
(* flush barrier and direct writes serialise behind the shutdown mutex.     *)
(*                                                                         *)
(* Every action is one access to state shared with another thread.          *)
(***************************************************************************)
EXTENDS Naturals, Sequences, SequencesExt, FiniteSetsExt

CONSTANTS
  Threads,        \* threads that log, flush, or own plugin instances
  Capacity,       \* ASYNC_LOG_QUEUE_CAPACITY
  MaxRecords,     \* bound on log calls
  MaxInstances,   \* bound on plugin instances alive at once
  ThroughEntry,   \* TRUE: guards are taken under EntryRegistration's mutex
  SpawnMayFail,   \* TRUE: the worker thread may fail to start
  NoThread, NoMessage

ASSUME CapacityAssumption     == Capacity \in Nat \ {0}
ASSUME BoundsAssumption       == MaxRecords \in Nat /\ MaxInstances \in Nat
ASSUME ThroughEntryAssumption == ThroughEntry \in BOOLEAN /\ SpawnMayFail \in BOOLEAN
ASSUME ThreadsAssumption      == IsFiniteSet(Threads) /\ NoThread \notin Threads

VARIABLES
  pc,            \* per thread: where in its call
  mark,          \* per thread: log calls that had returned when it asked to flush
  pipe,          \* thread inside env_logger's Pipe mutex
  submitted,     \* number of log calls so far; the newest one's number
  entry_lock,    \* holder of EntryRegistration.instance_state
  instances,     \* plugin instances, or guards when not ThroughEntry
  active,        \* ACTIVE_ASYNC_FILE_LOGGERS
  shutdown_lock, \* holder of LazyFileWriterShared.shutdown
  initialized,   \* the destination is open
  mode,          \* ASYNC_MODE or BLOCKING_MODE
  sender,        \* the queue's sender is in place
  queue, hand,   \* queued messages, the one the worker works on
  worker,        \* none, running, exited (and not yet joined)
  dropped,       \* dropped records not yet reported
  noticed,       \* dropped records a notice in the file has counted
  file           \* records in the file, in order

locks      == <<pipe, entry_lock, shutdown_lock>>
channel    == <<sender, queue, hand>>
guardVars  == <<instances, active>>
recordVars == <<dropped, noticed, file>>
vars == <<pc, mark, submitted, locks, guardVars, initialized, mode, channel,
          worker, recordVars>>

WritePhases  == {"writeInit", "check", "writeStart", "mode", "send", "full",
                 "fallback", "direct"}
RetainPhases == {"retainInit", "retainStart"}
DropPhases   == {"shutdown", "closing", "joining"}
FlushPhases  == {"flushInit", "flush", "flushSend", "flushWait", "flushed"}

Messages == ({"write"} \X (1..MaxRecords)) \cup ({"flush"} \X Threads)

ASSUME NoMessageAssumption == NoMessage \notin Messages

TypeOK ==
  /\ pc \in [Threads -> {"idle"} \cup WritePhases \cup RetainPhases \cup DropPhases
                          \cup FlushPhases]
  /\ mark \in [Threads -> SUBSET (1..MaxRecords)]
  /\ {pipe, entry_lock, shutdown_lock} \subseteq Threads \cup {NoThread}
  /\ submitted \in 0..MaxRecords
  /\ instances \in 0..MaxInstances /\ active \in 0..MaxInstances
  /\ initialized \in BOOLEAN
  /\ mode \in {"async", "blocking"}
  /\ sender \in BOOLEAN
  /\ queue \in Seq(Messages) /\ Len(queue) <= Capacity
  /\ hand \in Messages \cup {NoMessage}
  /\ worker \in {"none", "running", "exited"}
  /\ dropped \subseteq 1..MaxRecords /\ noticed \subseteq 1..MaxRecords
  /\ file \in Seq(1..MaxRecords)

\* LazyFileWriter::new: nothing is opened or started before the first use.
Init ==
  /\ pc = [t \in Threads |-> "idle"] /\ mark = [t \in Threads |-> {}]
  /\ pipe = NoThread /\ entry_lock = NoThread /\ shutdown_lock = NoThread
  /\ submitted = 0
  /\ instances = 0 /\ active = 0
  /\ initialized = FALSE
  /\ mode = "blocking"
  /\ sender = FALSE /\ queue = <<>> /\ hand = NoMessage
  /\ worker = "none"
  /\ dropped = {} /\ noticed = {} /\ file = <<>>

Goto(t, p) == pc' = [pc EXCEPT ![t] = p]
-----------------------------------------------------------------------------
(* Shared steps. *)

\* ensure_initialized: the destination is opened once, under the shutdown mutex.
EnsureInitialized(t) ==
  /\ pc[t] \in {"writeInit", "retainInit", "flushInit"}
  /\ initialized \/ shutdown_lock = NoThread
  /\ initialized' = TRUE
  /\ Goto(t, CASE pc[t] = "writeInit" -> "check"
               [] pc[t] = "retainInit" -> "retainStart"
               [] pc[t] = "flushInit" -> "flush")
  /\ UNCHANGED <<mark, submitted, locks, guardVars, mode, channel, worker, recordVars>>

NeedsWorker == worker = "none"

\* start: under the shutdown mutex, nothing if a worker is there.
StartWorker(t) ==
  /\ pc[t] \in {"writeStart", "retainStart"}
  /\ shutdown_lock = NoThread
  /\ \/ /\ NeedsWorker
        /\ worker' = "running" /\ sender' = TRUE /\ queue' = <<>>
        /\ mode' = "async"
     \/ /\ NeedsWorker /\ SpawnMayFail
        /\ mode' = "blocking"
        /\ UNCHANGED <<worker, sender, queue>>
     \/ /\ ~ NeedsWorker
        /\ UNCHANGED <<worker, sender, queue, mode>>
  /\ IF pc[t] = "writeStart"
     THEN Goto(t, "mode") /\ UNCHANGED entry_lock
     ELSE Goto(t, "idle") /\ entry_lock' = IF entry_lock = t THEN NoThread ELSE entry_lock
  /\ UNCHANGED <<mark, submitted, pipe, shutdown_lock, guardVars, initialized, hand,
                 recordVars>>
-----------------------------------------------------------------------------
(* Instances and their guards (retain_entry_instance, release_entry_instance, *)
(* start_async_file_logger, AsyncFileLoggerGuard::drop).                      *)

\* Guards that start_async_file_logger has returned and nobody dropped yet.
Held == instances - Cardinality({t \in Threads : pc[t] \in RetainPhases})

EntryFree == ~ ThroughEntry \/ entry_lock = NoThread

LockEntry(t) == entry_lock' = IF ThroughEntry THEN t ELSE entry_lock

Retain(t) ==
  /\ pc[t] = "idle" /\ EntryFree
  /\ instances < MaxInstances
  /\ instances' = instances + 1
  /\ IF ThroughEntry /\ instances > 0
     THEN UNCHANGED <<active, pc, entry_lock>>
     ELSE /\ active' = active + 1
          /\ IF active = 0 THEN Goto(t, "retainInit") /\ LockEntry(t)
             ELSE UNCHANGED <<pc, entry_lock>>
  /\ UNCHANGED <<mark, submitted, pipe, shutdown_lock, initialized, mode, channel,
                 worker, recordVars>>

Release(t) ==
  /\ pc[t] = "idle" /\ EntryFree
  /\ Held > 0
  /\ instances' = instances - 1
  /\ IF ThroughEntry /\ instances > 1
     THEN UNCHANGED <<active, pc, entry_lock>>
     ELSE /\ active' = active - 1
          /\ IF active = 1 THEN Goto(t, "shutdown") /\ LockEntry(t)
             ELSE UNCHANGED <<pc, entry_lock>>
  /\ UNCHANGED <<mark, submitted, pipe, shutdown_lock, initialized, mode, channel,
                 worker, recordVars>>

\* shutdown: blocking mode first, then the sender goes, then the worker is joined.
BeginShutdown(t) ==
  /\ pc[t] = "shutdown" /\ shutdown_lock = NoThread
  /\ shutdown_lock' = t
  /\ mode' = "blocking"
  /\ Goto(t, "closing")
  /\ UNCHANGED <<mark, submitted, pipe, entry_lock, guardVars, initialized, channel,
                 worker, recordVars>>

KeepSender == UNCHANGED sender   \* mutant: the sender is not dropped

DropSender == sender' = FALSE

CloseQueue(t) ==
  /\ pc[t] = "closing"
  /\ DropSender
  /\ Goto(t, "joining")
  /\ UNCHANGED <<mark, submitted, locks, guardVars, initialized, mode, queue, hand,
                 worker, recordVars>>

WorkerGone == worker # "running"

JoinWorker(t) ==
  /\ pc[t] = "joining" /\ WorkerGone
  /\ worker' = "none"
  /\ shutdown_lock' = NoThread
  /\ entry_lock' = IF entry_lock = t THEN NoThread ELSE entry_lock
  /\ Goto(t, "idle")
  /\ UNCHANGED <<mark, submitted, pipe, guardVars, initialized, mode, channel, recordVars>>
-----------------------------------------------------------------------------
(* A log call (<LazyFileWriter as Write>::write under env_logger's mutex). *)

Write(t) ==
  /\ pc[t] = "idle" /\ pipe = NoThread
  /\ submitted < MaxRecords
  /\ pipe' = t /\ submitted' = submitted + 1
  /\ Goto(t, "writeInit")
  /\ UNCHANGED <<mark, entry_lock, shutdown_lock, guardVars, initialized, mode, channel,
                 worker, recordVars>>

CheckActive(t) ==
  /\ pc[t] = "check"
  /\ Goto(t, IF active > 0 THEN "writeStart" ELSE "mode")
  /\ UNCHANGED <<mark, submitted, locks, guardVars, initialized, mode, channel, worker,
                 recordVars>>

ReadMode(t) ==
  /\ pc[t] = "mode"
  /\ Goto(t, IF mode = "async" THEN "send" ELSE "direct")
  /\ UNCHANGED <<mark, submitted, locks, guardVars, initialized, mode, channel, worker,
                 recordVars>>

Written(t) == Goto(t, "idle") /\ pipe' = NoThread

Unbounded == TRUE   \* mutant: an unbounded channel

HasRoom == Len(queue) < Capacity

\* try_send under the sender's mutex.
Send(t) ==
  /\ pc[t] = "send"
  /\ \/ /\ sender /\ HasRoom
        /\ queue' = Append(queue, <<"write", submitted>>)
        /\ Written(t)
     \/ /\ sender /\ ~ HasRoom
        /\ Goto(t, "full") /\ UNCHANGED <<queue, pipe>>
     \/ /\ ~ sender
        /\ Goto(t, "fallback") /\ UNCHANGED <<queue, pipe>>
  /\ UNCHANGED <<mark, submitted, entry_lock, shutdown_lock, guardVars, initialized, mode,
                 sender, hand, worker, recordVars>>

CountDropped(t) ==
  /\ pc[t] = "full"
  /\ dropped' = dropped \cup {submitted}
  /\ Written(t)
  /\ UNCHANGED <<mark, submitted, entry_lock, shutdown_lock, guardVars, initialized, mode,
                 channel, worker, noticed, file>>

FallBack(t) ==
  /\ pc[t] = "fallback"
  /\ mode' = "blocking"
  /\ Goto(t, "direct")
  /\ UNCHANGED <<mark, submitted, locks, guardVars, initialized, channel, worker,
                 recordVars>>

DirectUnserialized == TRUE   \* mutant: a direct write takes no mutex

MayWriteDirectly == shutdown_lock = NoThread

\* An uninitialized destination would swallow the record.
WriteDirectly(t) ==
  /\ pc[t] = "direct" /\ MayWriteDirectly
  /\ file' = IF initialized THEN Append(file, submitted) ELSE file
  /\ Written(t)
  /\ UNCHANGED <<mark, submitted, entry_lock, shutdown_lock, guardVars, initialized, mode,
                 channel, worker, dropped, noticed>>
-----------------------------------------------------------------------------
(* flush_pending_logs_blocking. *)

Flush(t) ==
  /\ pc[t] = "idle"
  /\ mark' = [mark EXCEPT ![t] =
                1..submitted \ (IF pipe = NoThread THEN {} ELSE {submitted})]
  /\ Goto(t, "flushInit")
  /\ UNCHANGED <<submitted, locks, guardVars, initialized, mode, channel, worker, recordVars>>

\* With a sender the barrier goes through the queue, else the file is flushed here.
LockFlush(t) ==
  /\ pc[t] = "flush" /\ shutdown_lock = NoThread
  /\ shutdown_lock' = t
  /\ Goto(t, IF sender THEN "flushSend" ELSE "flushed")
  /\ UNCHANGED <<mark, submitted, pipe, entry_lock, guardVars, initialized, mode, channel,
                 worker, recordVars>>

BarrierFirst(t) == <<<<"flush", t>>>> \o queue   \* mutant: the barrier overtakes

Barrier(t) == Append(queue, <<"flush", t>>)

\* send blocks while the queue is full.
SendBarrier(t) ==
  /\ pc[t] = "flushSend" /\ HasRoom
  /\ queue' = Barrier(t)
  /\ Goto(t, "flushWait")
  /\ UNCHANGED <<mark, submitted, locks, guardVars, initialized, mode, sender, hand, worker,
                 recordVars>>

Flushed(t) ==
  /\ pc[t] = "flushed"
  /\ shutdown_lock' = NoThread
  /\ mark' = [mark EXCEPT ![t] = {}]
  /\ Goto(t, "idle")
  /\ UNCHANGED <<submitted, pipe, entry_lock, guardVars, initialized, mode, channel, worker,
                 recordVars>>
-----------------------------------------------------------------------------
(* async_file_writer_worker. *)

\* write_dropped_record_notice_if_needed.
Notice == noticed' = noticed \cup dropped /\ dropped' = {}

Receive ==
  /\ worker = "running" /\ hand = NoMessage /\ queue # <<>>
  /\ hand' = Head(queue) /\ queue' = Tail(queue)
  /\ UNCHANGED <<pc, mark, submitted, locks, guardVars, initialized, mode, sender, worker,
                 recordVars>>

Handle ==
  /\ worker = "running" /\ hand # NoMessage
  /\ Notice
  /\ IF hand[1] = "write"
     THEN file' = Append(file, hand[2]) /\ UNCHANGED pc
     ELSE Goto(hand[2], "flushed") /\ UNCHANGED file
  /\ hand' = NoMessage
  /\ UNCHANGED <<mark, submitted, locks, guardVars, initialized, mode, sender, queue, worker>>

\* recv_timeout expires on an empty queue.
Timeout ==
  /\ worker = "running" /\ hand = NoMessage /\ queue = <<>> /\ sender
  /\ dropped # {} /\ Notice
  /\ UNCHANGED <<pc, mark, submitted, locks, guardVars, initialized, mode, channel, worker,
                 file>>

ExitAtOnce == hand = NoMessage /\ ~ sender   \* mutant: the queue is not drained

\* recv_timeout reports a disconnected queue only once it is empty.
Disconnected == hand = NoMessage /\ queue = <<>> /\ ~ sender

WorkerExit ==
  /\ worker = "running" /\ Disconnected
  /\ Notice
  /\ worker' = "exited"
  /\ UNCHANGED <<pc, mark, submitted, locks, guardVars, initialized, mode, channel, file>>
-----------------------------------------------------------------------------
Call(t) == Retain(t) \/ Release(t) \/ Write(t) \/ Flush(t)

Step(t) ==
  \/ EnsureInitialized(t) \/ StartWorker(t)
  \/ BeginShutdown(t) \/ CloseQueue(t) \/ JoinWorker(t)
  \/ CheckActive(t) \/ ReadMode(t) \/ Send(t) \/ CountDropped(t) \/ FallBack(t)
  \/ WriteDirectly(t)
  \/ LockFlush(t) \/ SendBarrier(t) \/ Flushed(t)

WorkerStep == Receive \/ Handle \/ Timeout \/ WorkerExit

Next == (\E t \in Threads : Call(t) \/ Step(t)) \/ WorkerStep

Spec == Init /\ [][Next]_vars
-----------------------------------------------------------------------------
(* Properties. *)

\* Regular records reach the file in the order of the log calls, through any
\* number of workers coming and going and with direct writes in between
\* (lib.rs: "regular logs preserve their queue order").
FileKeepsOrder == \A i, j \in 1..Len(file) : i < j => file[i] < file[j]

\* The record of a log call that has returned is in the file, on its way there,
\* or counted as dropped; a shutdown in between loses none.
NothingLost ==
  \A r \in 1..submitted :
    \/ pipe # NoThread /\ r = submitted
    \/ r \in ToSet(file) \cup dropped \cup noticed
    \/ <<"write", r>> \in ToSet(queue) \cup {hand}

\* A completed flush covers every log call that returned before it was asked for
\* (flush_pending_logs_blocking: "Blocks until regular log records queued before
\* the barrier have been processed").
FlushIsBarrier ==
  \A t \in Threads : pc[t] = "flushed" =>
    mark[t] \subseteq ToSet(file) \cup dropped \cup noticed

\* Every call returns if callers stop: the worker never waits for a caller, and
\* flush, shutdown and direct writes do not wait for each other in a circle.
EveryCallReturns == \A t \in Threads : pc[t] # "idle" ~> pc[t] = "idle"
-----------------------------------------------------------------------------
(* What the source says of guards, and the code does not do. *)

Quiet == \A t \in Threads : pc[t] = "idle"

\* file_logger.rs on retain_instance: logging stays asynchronous while a guard is
\* alive.
GuardKeepsAsync == Quiet /\ Held > 0 => mode = "async"
=============================================================================
