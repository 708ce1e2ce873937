---------------------------- MODULE LoggingProofs ----------------------------
(***************************************************************************)
(* Proofs about the two logs of wrac_log, for every number of threads and  *)
(* writers, every capacity and every bound on the calls.                   *)
(*                                                                         *)
(* File logger.  The order of the file does not follow from the queue      *)
(* alone: a full queue, a failed spawn and a shutdown make a caller write  *)
(* to the file itself, past what the queue still holds.  FileInv says why  *)
(* nothing is overtaken: such a caller holds the Pipe mutex, and it finds  *)
(* no record in the queue or in the worker's hand, or the queue is being   *)
(* drained by a shutdown it waits for (ModeKept, BarriersAwaited,          *)
(* ChannelKept).  What is lost, and what a flush waits for, is then read   *)
(* off the queue (NothingLost, MarksKept).                                 *)
(*                                                                         *)
(* Ring.  RingInv keeps writers on slots of their own (WritersApart), so   *)
(* that a slot with a tag holds the record the tag names (SlotsWhole) and  *)
(* a copy whose tag still stands is that record (CopyWhole).  The order of *)
(* the file and what became of every record are then about one number, how *)
(* far the drains have got (Drained).  It holds only where a start of the  *)
(* service discards before its worker drains, PromptStart; without that    *)
(* assumption TLC finds the order broken.                                  *)
(***************************************************************************)
EXTENDS MCLogging, SequenceTheorems, FiniteSetTheorems, TLAPS

(* The file logger.  First the invariant, part by part. *)

\* Who holds a lock is known from where it is in its call.

ShutdownPhases == {"closing", "joining", "flushSend", "flushWait", "flushed"}

LocksHeld ==
  /\ \A t \in Threads :
       /\ shutdown_lock = t <=> pc[t] \in ShutdownPhases
       /\ pipe = t <=> pc[t] \in WritePhases
  /\ pipe # NoThread => submitted > 0

\* The active count is the instances, or one for the entry that stands for them.
GuardsCounted ==
  active = IF ~ ThroughEntry THEN instances ELSE IF instances > 0 THEN 1 ELSE 0

\* The destination is open before anything is written.
Opened == \A t \in Threads : pc[t] \in WritePhases \ {"writeInit"} => initialized

\* The queue has a sender while its worker runs; a shutdown takes the sender and waits for
\* the worker, which leaves nothing behind.
ChannelKept ==
  /\ sender => worker = "running"
  /\ worker # "running" => queue = <<>> /\ hand = NoMessage
  /\ worker = "exited" \/ (worker = "running" /\ ~ sender) => \E t \in Threads : pc[t] = "joining"
  /\ \A t \in Threads :
       /\ pc[t] = "joining" => ~ sender
       /\ pc[t] \in {"flushSend", "flushWait"} => sender

\* A barrier is on its way once, and its thread waits for it.
BarriersAwaited ==
  \A t \in Threads :
    /\ hand = <<"flush", t>> => pc[t] = "flushWait"
    /\ \A k \in 1..Len(queue) : queue[k] = <<"flush", t>> =>
         /\ pc[t] = "flushWait" /\ hand # <<"flush", t>>
         /\ \A l \in 1..Len(queue) : queue[l] = <<"flush", t>> => k = l

\* A shutdown has taken the sender and waits for the worker to empty the queue.
Draining == \E t \in Threads : pc[t] \in {"closing", "joining"}
NoWrites ==
  \A r \in 1..MaxRecords : /\ hand # <<"write", r>>
                           /\ \A k \in 1..Len(queue) : queue[k] # <<"write", r>>

\* Who writes to the file itself finds no older record on its way there.
ModeKept ==
  /\ mode = "blocking" => NoWrites \/ Draining
  /\ \A t \in Threads :
       /\ pc[t] \in {"fallback", "direct"} => NoWrites \/ Draining
       /\ pc[t] = "send" => mode = "async" \/ Draining \/ ~ sender

\* The newest record that is on its way or there; the one a caller has just taken is not yet.
Newest == IF pipe = NoThread THEN submitted ELSE submitted - 1

\* The order the file will have: what it has, then what the worker holds, then the queue.
FileOrdered == FileKeepsOrder /\ \A i \in 1..Len(file) : file[i] <= Newest

HandOrdered ==
  \A r \in 1..MaxRecords : hand = <<"write", r>> =>
    r <= Newest /\ \A i \in 1..Len(file) : file[i] < r

QueueOrdered ==
  \A r \in 1..MaxRecords : \A k \in 1..Len(queue) : queue[k] = <<"write", r>> =>
    /\ r <= Newest /\ \A i \in 1..Len(file) : file[i] < r
    /\ \A q \in 1..MaxRecords :
         /\ hand = <<"write", q>> => q < r
         /\ \A l \in 1..(k - 1) : queue[l] = <<"write", q>> => q < r

OrderKept == FileOrdered /\ HandOrdered /\ QueueOrdered

\* A flush waits for the records it found: each is covered, or ahead of its barrier.
Covered == ToSet(file) \cup dropped \cup noticed
Coming(r) == <<"write", r>> \in ToSet(queue) \cup {hand}

MarksKept ==
  \A t \in Threads :
    /\ mark[t] \subseteq 1..Newest
    /\ pc[t] = "flushed" \/ hand = <<"flush", t>> => mark[t] \subseteq Covered
    /\ \A p \in 1..Len(queue) : queue[p] = <<"flush", t>> =>
         \A r \in mark[t] : \/ r \in Covered \/ hand = <<"write", r>>
                            \/ \E k \in 1..(p - 1) : queue[k] = <<"write", r>>

FileInv ==
  /\ TypeOK /\ LocksHeld /\ GuardsCounted /\ Opened /\ ChannelKept /\ BarriersAwaited
  /\ ModeKept /\ OrderKept /\ NothingLost /\ MarksKept
-----------------------------------------------------------------------------
\* Messages, by kind.
LEMMA MessageTypes ==
  /\ \A r \in 1..MaxRecords : <<"write", r>> \in Messages /\ <<"write", r>> # NoMessage
  /\ \A t \in Threads : <<"flush", t>> \in Messages /\ <<"flush", t>> # NoMessage
  /\ \A m \in Messages :
       \/ m[1] = "write" /\ m[2] \in 1..MaxRecords /\ m = <<"write", m[2]>>
       \/ m[1] = "flush" /\ m[2] \in Threads /\ m = <<"flush", m[2]>>
<1>1. \A r \in 1..MaxRecords : <<"write", r>> \in Messages
  BY DEF Messages
<1>2. \A t \in Threads : <<"flush", t>> \in Messages
  BY DEF Messages
<1>3. \A m \in Messages :
        \/ m[1] = "write" /\ m[2] \in 1..MaxRecords /\ m = <<"write", m[2]>>
        \/ m[1] = "flush" /\ m[2] \in Threads /\ m = <<"flush", m[2]>>
  BY DEF Messages
<1>4. \A m \in Messages : m # NoMessage
  BY NoMessageAssumption
<1> HIDE DEF Messages
<1> QED BY <1>1, <1>2, <1>3, <1>4

\* A guard that is held is an instance.
LEMMA HeldNat == ASSUME TypeOK, Held > 0 PROVE instances > 0
<1> DEFINE S == {t \in Threads : pc[t] \in RetainPhases}
<1>1. IsFiniteSet(S)
  BY ThreadsAssumption, FS_Subset
<1>2. Cardinality(S) \in Nat
  BY <1>1, FS_CardinalityType
<1> HIDE DEF S
<1>3. Held = instances - Cardinality(S)
  BY DEF Held, S
<1> QED BY <1>2, <1>3 DEF TypeOK

\* Types.
LEMMA TypeInit == Init => TypeOK
<1> SUFFICES ASSUME Init PROVE TypeOK
  OBVIOUS
<1>1. queue \in Seq(Messages) /\ file \in Seq(1..MaxRecords)
  BY DEF Init
<1>2. Len(queue) <= Capacity
  BY CapacityAssumption DEF Init
<1>3. /\ pc \in [Threads -> {"idle"}] /\ mark \in [Threads -> SUBSET (1..MaxRecords)]
      /\ submitted \in 0..MaxRecords
      /\ instances \in 0..MaxInstances /\ active \in 0..MaxInstances
  BY BoundsAssumption DEF Init
<1> QED BY <1>1, <1>2, <1>3 DEF Init, TypeOK

LEMMA CallTypes == ASSUME TypeOK, GuardsCounted, NEW t \in Threads, Call(t) PROVE TypeOK'
<1>1. CASE Retain(t)
  BY <1>1, BoundsAssumption
     DEF Retain, LockEntry, Goto, TypeOK, GuardsCounted, RetainPhases, channel, recordVars
<1>2. CASE Release(t)
  <2>1. instances > 0
    BY <1>2, HeldNat DEF Release
  <2>2. active' = active \/ (active' = active - 1 /\ active > 0)
    BY <1>2, <2>1 DEF Release, GuardsCounted, TypeOK
  <2>3. active' \in 0..MaxInstances /\ instances' \in 0..MaxInstances
    BY <1>2, <2>1, <2>2, BoundsAssumption DEF Release, TypeOK
  <2> QED BY <1>2, <2>3 DEF Release, LockEntry, Goto, TypeOK, DropPhases, channel, recordVars
<1>3. CASE Write(t)
  BY <1>3, BoundsAssumption DEF Write, Goto, TypeOK, WritePhases, guardVars, channel, recordVars
<1>4. CASE Flush(t)
  <2>1. mark' \in [Threads -> SUBSET (1..MaxRecords)]
    BY <1>4, BoundsAssumption DEF Flush, TypeOK
  <2> QED BY <1>4, <2>1 DEF Flush, Goto, TypeOK, FlushPhases, guardVars, channel, recordVars, locks
<1> QED BY <1>1, <1>2, <1>3, <1>4 DEF Call

LEMMA StepTypes ==
  ASSUME TypeOK, LocksHeld, NEW t \in Threads, Step(t)
  PROVE  TypeOK'
<1> USE DEF Goto, locks, guardVars, channel, recordVars
<1>1. CASE EnsureInitialized(t)
  BY <1>1 DEF EnsureInitialized, TypeOK, WritePhases, RetainPhases, FlushPhases
<1>2. CASE StartWorker(t)
  <2>1. queue' \in Seq(Messages) /\ Len(queue') <= Capacity
    <3>1. queue' = queue \/ queue' = <<>>
      BY <1>2 DEF StartWorker
    <3>2. <<>> \in Seq(Messages) /\ Len(<<>>) <= Capacity
      BY CapacityAssumption
    <3> QED BY <3>1, <3>2 DEF TypeOK
  <2> QED BY <1>2, <2>1 DEF StartWorker, TypeOK, WritePhases
<1>3. CASE BeginShutdown(t)
  BY <1>3 DEF BeginShutdown, TypeOK, DropPhases
<1>4. CASE CloseQueue(t)
  BY <1>4 DEF CloseQueue, DropSender, TypeOK, DropPhases
<1>5. CASE JoinWorker(t)
  BY <1>5 DEF JoinWorker, TypeOK
<1>6. CASE CheckActive(t) \/ ReadMode(t) \/ FallBack(t)
  BY <1>6 DEF CheckActive, ReadMode, FallBack, TypeOK, WritePhases
<1>7. CASE Send(t)
  <2>1. submitted \in 1..MaxRecords
    <3>1. pipe = t
      BY <1>7 DEF Send, LocksHeld, WritePhases
    <3> QED BY <3>1, ThreadsAssumption DEF LocksHeld, TypeOK
  <2>2. queue' \in Seq(Messages) /\ Len(queue') <= Capacity
    <3>1. <<"write", submitted>> \in Messages
      BY <2>1, MessageTypes
    <3>2. queue' = queue \/ (HasRoom /\ queue' = Append(queue, <<"write", submitted>>))
      BY <1>7 DEF Send
    <3>3. queue \in Seq(Messages) /\ Len(queue) <= Capacity /\ Len(queue) \in Nat
      BY DEF TypeOK
    <3>4. CASE HasRoom /\ queue' = Append(queue, <<"write", submitted>>)
      <4>1. queue' \in Seq(Messages) /\ Len(queue') = Len(queue) + 1
        BY <3>1, <3>3, <3>4
      <4> QED BY <3>3, <3>4, <4>1, CapacityAssumption DEF HasRoom
    <3> QED BY <3>2, <3>3, <3>4
  <2> QED BY <1>7, <2>2 DEF Send, Written, TypeOK, WritePhases
<1>8. CASE CountDropped(t) \/ WriteDirectly(t)
  <2>1. submitted \in 1..MaxRecords
    <3>1. pipe = t
      BY <1>8 DEF CountDropped, WriteDirectly, LocksHeld, WritePhases
    <3> QED BY <3>1, ThreadsAssumption DEF LocksHeld, TypeOK
  <2>2. file' \in Seq(1..MaxRecords)
    <3>1. file' = file \/ file' = Append(file, submitted)
      BY <1>8 DEF CountDropped, WriteDirectly
    <3>2. Append(file, submitted) \in Seq(1..MaxRecords)
      BY <2>1 DEF TypeOK
    <3> QED BY <3>1, <3>2 DEF TypeOK
  <2> QED BY <1>8, <2>1, <2>2 DEF CountDropped, WriteDirectly, Written, TypeOK
<1>9. CASE LockFlush(t) \/ Flushed(t)
  BY <1>9 DEF LockFlush, Flushed, TypeOK, FlushPhases
<1>10. CASE SendBarrier(t)
  <2>1. queue' \in Seq(Messages) /\ Len(queue') <= Capacity
    BY <1>10, MessageTypes, CapacityAssumption DEF SendBarrier, Barrier, HasRoom, TypeOK
  <2> QED BY <1>10, <2>1 DEF SendBarrier, TypeOK, FlushPhases
<1> QED BY <1>1, <1>2, <1>3, <1>4, <1>5, <1>6, <1>7, <1>8, <1>9, <1>10 DEF Step

LEMMA WorkerTypes == ASSUME TypeOK, WorkerStep PROVE TypeOK'
<1> USE DEF Goto, locks, guardVars, channel, recordVars
<1>1. CASE Receive
  <2>1. Head(queue) \in Messages /\ Tail(queue) \in Seq(Messages) /\ Len(Tail(queue)) <= Capacity
    BY <1>1, CapacityAssumption DEF Receive, TypeOK
  <2> QED BY <1>1, <2>1 DEF Receive, TypeOK
<1>2. CASE Handle
  <2>1. hand \in Messages /\ noticed' \subseteq 1..MaxRecords /\ dropped' \subseteq 1..MaxRecords
    BY <1>2 DEF Handle, Notice, TypeOK
  <2>2. file' \in Seq(1..MaxRecords)
    <3>1. hand[1] = "write" => Append(file, hand[2]) \in Seq(1..MaxRecords)
      BY <2>1, MessageTypes DEF TypeOK
    <3> QED BY <1>2, <3>1 DEF Handle, TypeOK
  <2> QED BY <1>2, <2>1, <2>2, MessageTypes DEF Handle, TypeOK, FlushPhases
<1>3. CASE Timeout \/ WorkerExit
  BY <1>3 DEF Timeout, WorkerExit, Notice, TypeOK
<1> QED BY <1>1, <1>2, <1>3 DEF WorkerStep


\* What a sequence contains after a message is appended or taken.
LEMMA SetOf ==
  ASSUME NEW S, NEW s \in Seq(S)
  PROVE  /\ ToSet(s) = {s[i] : i \in 1..Len(s)}
         /\ \A e \in S : ToSet(Append(s, e)) = ToSet(s) \cup {e}
         /\ s # <<>> => ToSet(s) = {Head(s)} \cup ToSet(Tail(s))
<1>1. ToSet(s) = {s[i] : i \in 1..Len(s)}
  BY DEF ToSet
<1>2. ASSUME NEW e \in S PROVE ToSet(Append(s, e)) = ToSet(s) \cup {e}
  <2> DEFINE u == Append(s, e)
  <2>1. /\ Len(u) = Len(s) + 1 /\ Len(s) \in Nat /\ u \in Seq(S) /\ u[Len(s) + 1] = e
        /\ \A i \in 1..Len(s) : u[i] = s[i]
    OBVIOUS
  <2> HIDE DEF u
  <2>2. ToSet(u) = {u[i] : i \in 1..Len(u)}
    BY <2>1 DEF ToSet
  <2>3. \A i \in 1..Len(u) : i = Len(s) + 1 \/ i \in 1..Len(s)
    BY <2>1
  <2>4. /\ Len(s) + 1 \in 1..Len(u)
        /\ \A i \in 1..Len(s) : i \in 1..Len(u)
    BY <2>1
  <2>5. ToSet(u) = ToSet(s) \cup {e}
    BY <1>1, <2>1, <2>2, <2>3, <2>4
  <2> QED BY <2>5 DEF u
<1>3. ASSUME s # <<>> PROVE ToSet(s) = {Head(s)} \cup ToSet(Tail(s))
  <2> DEFINE u == Tail(s)
  <2>1. /\ Len(u) = Len(s) - 1 /\ Len(s) \in Nat /\ Len(s) > 0 /\ u \in Seq(S)
        /\ \A i \in 1..Len(u) : u[i] = s[i + 1]
        /\ Head(s) = s[1]
    BY <1>3
  <2> HIDE DEF u
  <2>2. ToSet(u) = {u[i] : i \in 1..Len(u)}
    BY <2>1 DEF ToSet
  <2>3. \A i \in 1..Len(s) : i = 1 \/ (i - 1 \in 1..Len(u) /\ s[i] = u[i - 1])
    <3>1. \A i \in 1..Len(s) : i = 1 \/ (i - 1 \in 1..Len(u) /\ s[(i - 1) + 1] = u[i - 1])
      BY <2>1
    <3> QED BY <2>1, <3>1
  <2>4. 1 \in 1..Len(s) /\ \A i \in 1..Len(u) : i + 1 \in 1..Len(s)
    BY <2>1
  <2>5. ASSUME NEW x \in ToSet(s) PROVE x = Head(s) \/ x \in ToSet(u)
    <3>1. PICK i \in 1..Len(s) : x = s[i]
      BY <1>1
    <3> QED BY <2>1, <2>2, <2>3, <3>1
  <2>6. ASSUME NEW x \in ToSet(u) PROVE x \in ToSet(s)
    <3>1. PICK i \in 1..Len(u) : x = u[i]
      BY <2>2
    <3> QED BY <1>1, <2>1, <2>4, <3>1
  <2>7. Head(s) \in ToSet(s)
    BY <1>1, <2>1, <2>4
  <2>8. ToSet(s) = {Head(s)} \cup ToSet(u)
    BY <2>5, <2>6, <2>7
  <2> QED BY <2>8 DEF u
<1> QED BY <1>1, <1>2, <1>3

\* A thread's step moves that thread only.
LEMMA OneMoves ==
  ASSUME TypeOK, NEW t \in Threads, Call(t) \/ Step(t)
  PROVE  \A u \in Threads : u # t => pc'[u] = pc[u]
BY DEF Call, Step, Goto, Written, TypeOK, Retain, Release, Write, Flush, EnsureInitialized,
       StartWorker, BeginShutdown, CloseQueue, JoinWorker, CheckActive, ReadMode, Send,
       CountDropped, FallBack, WriteDirectly, LockFlush, SendBarrier, Flushed

\* The worker moves the thread whose barrier it handles.
LEMMA WorkerMoves ==
  ASSUME TypeOK, BarriersAwaited, WorkerStep
  PROVE  \A u \in Threads :
           \/ pc'[u] = pc[u]
           \/ Handle /\ hand = <<"flush", u>> /\ pc[u] = "flushWait" /\ pc'[u] = "flushed"
<1>1. CASE Handle
  <2>1. hand \in Messages
    BY <1>1 DEF Handle, TypeOK
  <2>2. hand[1] = "write" => pc' = pc
    BY <1>1 DEF Handle
  <2>3. hand[1] # "write" => hand = <<"flush", hand[2]>> /\ hand[2] \in Threads
    BY <2>1, MessageTypes
  <2> QED BY <1>1, <2>2, <2>3 DEF Handle, Goto, TypeOK, BarriersAwaited
<1> QED BY <1>1 DEF WorkerStep, Receive, Timeout, WorkerExit

\* A lock changes hands only through its holder.
LEMMA LocksStep == ASSUME TypeOK, LocksHeld, BarriersAwaited, Next PROVE LocksHeld'
<1> USE ThreadsAssumption DEF LocksHeld, TypeOK, ShutdownPhases, WritePhases, Goto, locks
<1>1. CASE WorkerStep
  <2>1. UNCHANGED <<pipe, shutdown_lock, submitted>>
    BY <1>1 DEF WorkerStep, Receive, Handle, Timeout, WorkerExit
  <2> QED BY <1>1, <2>1, WorkerMoves
<1>2. ASSUME NEW t \in Threads, Call(t) PROVE LocksHeld'
  BY <1>2 DEF Call, Retain, Release, Write, Flush
<1>3. ASSUME NEW t \in Threads, Step(t) PROVE LocksHeld'
  <2>1. CASE EnsureInitialized(t) \/ StartWorker(t) \/ CheckActive(t) \/ ReadMode(t) \/ FallBack(t)
    BY <2>1 DEF EnsureInitialized, StartWorker, CheckActive, ReadMode, FallBack
  <2>2. CASE BeginShutdown(t) \/ CloseQueue(t) \/ JoinWorker(t) \/ LockFlush(t) \/ SendBarrier(t)
             \/ Flushed(t)
    BY <2>2 DEF BeginShutdown, CloseQueue, JoinWorker, LockFlush, SendBarrier, Flushed
  <2>3. CASE Send(t) \/ CountDropped(t) \/ WriteDirectly(t)
    BY <2>3 DEF Send, CountDropped, WriteDirectly, Written
  <2> QED BY <1>3, <2>1, <2>2, <2>3 DEF Step
<1> QED BY <1>1, <1>2, <1>3 DEF Next

\* The guards are counted in and out.
LEMMA CountedStep == ASSUME TypeOK, GuardsCounted, Next PROVE GuardsCounted'
<1>1. ASSUME NEW t \in Threads, Retain(t) PROVE GuardsCounted'
  BY <1>1 DEF Retain, GuardsCounted, TypeOK
<1>2. ASSUME NEW t \in Threads, Release(t) PROVE GuardsCounted'
  <2>1. instances > 0
    BY <1>2, HeldNat DEF Release
  <2> QED BY <1>2, <2>1, ThroughEntryAssumption DEF Release, GuardsCounted, TypeOK
<1>3. CASE UNCHANGED guardVars
  BY <1>3 DEF GuardsCounted, guardVars
<1> QED BY <1>1, <1>2, <1>3
        DEF Next, Call, Step, WorkerStep, Write, Flush, EnsureInitialized, StartWorker,
            BeginShutdown, CloseQueue, JoinWorker, CheckActive, ReadMode, Send, CountDropped,
            FallBack, WriteDirectly, LockFlush, SendBarrier, Flushed, Receive, Handle,
            Timeout, WorkerExit

\* No write begins before the destination is open.
LEMMA OpenedStep == ASSUME TypeOK, Opened, BarriersAwaited, Next PROVE Opened'
<1> USE DEF Opened, WritePhases
<1>1. CASE WorkerStep
  <2>1. UNCHANGED initialized
    BY <1>1 DEF WorkerStep, Receive, Handle, Timeout, WorkerExit
  <2> QED BY <1>1, <2>1, WorkerMoves
<1>2. ASSUME NEW t \in Threads, Call(t) \/ Step(t) PROVE Opened'
  <2>1. initialized => initialized'
    BY <1>2 DEF Call, Step, Retain, Release, Write, Flush, EnsureInitialized, StartWorker,
            BeginShutdown, CloseQueue, JoinWorker, CheckActive, ReadMode, Send, CountDropped,
            FallBack, WriteDirectly, LockFlush, SendBarrier, Flushed
  <2>2. pc'[t] \in WritePhases \ {"writeInit"} =>
          EnsureInitialized(t) \/ pc[t] \in WritePhases \ {"writeInit"}
    BY <1>2 DEF Call, Step, Goto, Written, TypeOK, Retain, Release, Write, Flush,
            StartWorker, BeginShutdown, CloseQueue, JoinWorker, CheckActive, ReadMode, Send,
            CountDropped, FallBack, WriteDirectly, LockFlush, SendBarrier, Flushed
  <2>3. EnsureInitialized(t) => initialized'
    BY DEF EnsureInitialized
  <2> QED BY <1>2, <2>1, <2>2, <2>3, OneMoves
<1> QED BY <1>1, <1>2 DEF Next

\* The queue and the worker's hand change in one of these ways.
LEMMA ChannelFrame ==
  ASSUME TypeOK, ChannelKept, Next
  PROVE  \/ UNCHANGED <<queue, hand>>
         \/ \E t \in Threads :
              /\ Send(t) /\ pc[t] = "send" /\ sender
              /\ queue' = Append(queue, <<"write", submitted>>) /\ hand' = hand
         \/ \E t \in Threads :
              /\ SendBarrier(t) /\ pc[t] = "flushSend" /\ pc'[t] = "flushWait"
              /\ queue' = Append(queue, <<"flush", t>>) /\ hand' = hand
         \/ Receive
         \/ Handle
<1>1. ASSUME NEW t \in Threads, StartWorker(t) PROVE UNCHANGED <<queue, hand>>
  BY <1>1 DEF StartWorker, NeedsWorker, ChannelKept
<1>2. ASSUME NEW t \in Threads, Send(t)
      PROVE  \/ UNCHANGED <<queue, hand>>
             \/ /\ pc[t] = "send" /\ sender
                /\ queue' = Append(queue, <<"write", submitted>>) /\ hand' = hand
  BY <1>2 DEF Send
<1>3. ASSUME NEW t \in Threads, SendBarrier(t)
      PROVE  /\ pc[t] = "flushSend" /\ pc'[t] = "flushWait"
             /\ queue' = Append(queue, <<"flush", t>>) /\ hand' = hand
  BY <1>3 DEF SendBarrier, Barrier, Goto, TypeOK
<1> QED BY <1>1, <1>2, <1>3
        DEF Next, Call, Step, WorkerStep, Retain, Release, Write, Flush, EnsureInitialized,
            BeginShutdown, CloseQueue, JoinWorker, CheckActive, ReadMode, CountDropped,
            FallBack, WriteDirectly, LockFlush, Flushed, Timeout, WorkerExit, channel

\* The sender, the queue and the worker come and go together.
LEMMA ChannelStep ==
  ASSUME TypeOK, LocksHeld, ChannelKept, BarriersAwaited, Next
  PROVE  ChannelKept'
<1> USE DEF Goto, TypeOK, channel
<1>1. CASE WorkerStep
  <2>1. \A t \in Threads : /\ pc[t] = "joining" <=> pc'[t] = "joining"
                           /\ pc'[t] \in {"flushSend", "flushWait"} => pc'[t] = pc[t]
    BY <1>1, WorkerMoves
  <2>2. CASE WorkerExit
    BY <2>1, <2>2 DEF WorkerExit, Disconnected, ChannelKept
  <2>3. CASE Receive \/ Handle \/ Timeout
    BY <2>1, <2>3 DEF Receive, Handle, Timeout, ChannelKept
  <2> QED BY <1>1, <2>2, <2>3 DEF WorkerStep
<1>2. ASSUME NEW t \in Threads, StartWorker(t) PROVE ChannelKept'
  <2>1. \A u \in Threads : pc[u] # "joining"
    BY <1>2, ThreadsAssumption DEF StartWorker, LocksHeld, ShutdownPhases
  <2>2. \A u \in Threads : /\ pc'[u] # "joining"
                           /\ pc'[u] \in {"flushSend", "flushWait"} => pc'[u] = pc[u]
    BY <1>2, <2>1 DEF StartWorker
  <2> QED BY <1>2, <2>1, <2>2 DEF StartWorker, NeedsWorker, ChannelKept
<1>3. ASSUME NEW t \in Threads, CloseQueue(t) PROVE ChannelKept'
  <2>1. pc'[t] = "joining" /\ sender' = FALSE /\ UNCHANGED <<worker, queue, hand>>
    BY <1>3 DEF CloseQueue, DropSender
  <2>2. \A u \in Threads : u # t => pc'[u] = pc[u] /\ pc[u] \notin ShutdownPhases
    BY <1>3 DEF CloseQueue, LocksHeld, ShutdownPhases
  <2> QED BY <2>1, <2>2 DEF ChannelKept, ShutdownPhases
<1>4. ASSUME NEW t \in Threads, JoinWorker(t) PROVE ChannelKept'
  <2>1. /\ worker # "running" /\ worker' = "none" /\ UNCHANGED <<sender, queue, hand>>
        /\ \A u \in Threads : pc'[u] = pc[u] \/ pc'[u] = "idle"
    BY <1>4 DEF JoinWorker, WorkerGone
  <2> QED BY <2>1 DEF ChannelKept
<1>5. ASSUME NEW t \in Threads, Send(t) \/ SendBarrier(t) PROVE ChannelKept'
  <2>1. UNCHANGED <<sender, worker, hand>>
    BY <1>5 DEF Send, SendBarrier
  <2>2. queue' # queue => sender
    BY <1>5 DEF Send, SendBarrier, ChannelKept
  <2>3. \A u \in Threads :
          /\ pc'[u] = "joining" <=> pc[u] = "joining"
          /\ pc'[u] \in {"flushSend", "flushWait"} => pc[u] \in {"flushSend", "flushWait"}
    BY <1>5 DEF Send, SendBarrier, Written
  <2> QED BY <2>1, <2>2, <2>3 DEF ChannelKept
<1>6. ASSUME NEW t \in Threads,
             \/ Retain(t) \/ Release(t) \/ Write(t) \/ Flush(t) \/ EnsureInitialized(t)
             \/ BeginShutdown(t) \/ CheckActive(t) \/ ReadMode(t) \/ CountDropped(t)
             \/ FallBack(t) \/ WriteDirectly(t) \/ LockFlush(t) \/ Flushed(t)
      PROVE  ChannelKept'
  <2>1. UNCHANGED <<sender, worker, queue, hand>>
    BY <1>6 DEF Retain, Release, Write, Flush, EnsureInitialized, BeginShutdown, CheckActive,
            ReadMode, CountDropped, FallBack, WriteDirectly, LockFlush, Flushed
  <2>2. \A u \in Threads :
          /\ pc'[u] = "joining" <=> pc[u] = "joining"
          /\ pc'[u] \in {"flushSend", "flushWait"} =>
               sender \/ pc[u] \in {"flushSend", "flushWait"}
    BY <1>6 DEF Retain, Release, Write, Flush, EnsureInitialized, BeginShutdown, CheckActive,
            ReadMode, CountDropped, FallBack, WriteDirectly, LockFlush, Flushed, Written
  <2> QED BY <2>1, <2>2 DEF ChannelKept
<1> QED BY <1>1, <1>2, <1>3, <1>4, <1>5, <1>6 DEF Next, Call, Step

\* The elements of a sequence after one is appended, and after the first is taken.
LEMMA AppendAt ==
  ASSUME NEW S, NEW s \in Seq(S), NEW e, NEW u, u = Append(s, e)
  PROVE  /\ Len(s) \in Nat /\ Len(u) = Len(s) + 1
         /\ \A i \in 1..Len(s) : u[i] = s[i]
         /\ u[Len(s) + 1] = e
         /\ \A i \in 1..Len(u) : i \in 1..Len(s) \/ i = Len(s) + 1
OBVIOUS

LEMMA TailAt ==
  ASSUME NEW S, NEW s \in Seq(S), s # <<>>, NEW u, u = Tail(s)
  PROVE  /\ Len(s) \in Nat /\ Len(u) = Len(s) - 1 /\ Len(s) >= 1
         /\ \A i \in 1..Len(u) : u[i] = s[i + 1] /\ i + 1 \in 1..Len(s)
         /\ Head(s) = s[1] /\ 1 \in 1..Len(s)
         /\ \A i \in 2..Len(s) : i - 1 \in 1..Len(u) /\ u[i - 1] = s[i]
<1>1. /\ Len(s) \in Nat /\ Len(u) = Len(s) - 1 /\ Len(s) >= 1
      /\ Head(s) = s[1]
      /\ \A i \in 1..Len(u) : u[i] = s[i + 1]
  OBVIOUS
<1>2. \A i \in 2..Len(s) : i - 1 \in 1..Len(u) /\ u[i - 1] = s[(i - 1) + 1]
  BY <1>1
<1> QED BY <1>1, <1>2

\* A barrier's thread waits until the worker has handled it.
LEMMA WaitersWait ==
  ASSUME TypeOK, BarriersAwaited, Next
  PROVE  \A t \in Threads : pc[t] = "flushWait" =>
           pc'[t] = "flushWait" \/ (Handle /\ hand = <<"flush", t>>)
<1>1. ASSUME NEW t \in Threads, Call(t) \/ Step(t) PROVE pc[t] # "flushWait"
  BY <1>1 DEF Call, Step, Retain, Release, Write, Flush, EnsureInitialized, StartWorker,
          BeginShutdown, CloseQueue, JoinWorker, CheckActive, ReadMode, Send, CountDropped,
          FallBack, WriteDirectly, LockFlush, SendBarrier, Flushed
<1> QED BY <1>1, OneMoves, WorkerMoves DEF Next

\* A barrier is sent once, and received once.
LEMMA BarriersStep ==
  ASSUME TypeOK, ChannelKept, BarriersAwaited, Next
  PROVE  BarriersAwaited'
<1> SUFFICES ASSUME NEW u \in Threads
             PROVE  /\ hand' = <<"flush", u>> => pc'[u] = "flushWait"
                    /\ \A k \in 1..Len(queue') : queue'[k] = <<"flush", u>> =>
                         /\ pc'[u] = "flushWait" /\ hand' # <<"flush", u>>
                         /\ \A l \in 1..Len(queue') : queue'[l] = <<"flush", u>> => k = l
  BY DEF BarriersAwaited
<1> DEFINE Kept == /\ hand' = <<"flush", u>> => pc'[u] = "flushWait"
                   /\ \A k \in 1..Len(queue') : queue'[k] = <<"flush", u>> =>
                        /\ pc'[u] = "flushWait" /\ hand' # <<"flush", u>>
                        /\ \A l \in 1..Len(queue') : queue'[l] = <<"flush", u>> => k = l
           b == <<"flush", u>>
<1>w. pc[u] = "flushWait" => pc'[u] = "flushWait" \/ (Handle /\ hand = b)
  BY WaitersWait
<1>q. queue \in Seq(Messages)
  BY DEF TypeOK
<1>b. b # NoMessage
  BY MessageTypes
<1>a. /\ hand = b => pc[u] = "flushWait"
      /\ \A k \in 1..Len(queue) : queue[k] = b =>
           /\ pc[u] = "flushWait" /\ hand # b
           /\ \A l \in 1..Len(queue) : queue[l] = b => k = l
  BY DEF BarriersAwaited
<1> SUFFICES Kept
  OBVIOUS
<1>h. Handle => hand' = NoMessage /\ queue' = queue
  BY DEF Handle
<1>1. CASE UNCHANGED <<queue, hand>>
  BY <1>w, <1>h, <1>a, <1>b, <1>1
<1>2. ASSUME NEW t \in Threads, pc[t] = "send", sender,
             queue' = Append(queue, <<"write", submitted>>), hand' = hand
      PROVE  Kept
  <2> DEFINE m == <<"write", submitted>>
  <2>1. m # b
    OBVIOUS
  <2> HIDE DEF m, b
  <2>2. /\ Len(queue) \in Nat /\ Len(queue') = Len(queue) + 1
        /\ \A i \in 1..Len(queue) : queue'[i] = queue[i]
        /\ queue'[Len(queue) + 1] = m
        /\ \A i \in 1..Len(queue') : i \in 1..Len(queue) \/ i = Len(queue) + 1
    BY <1>2, <1>q, AppendAt DEF m
  <2>3. ~ (Handle /\ hand = b)
    BY <1>2, <1>h, <1>b
  <2> QED BY SMTT(30), <1>2, <1>w, <1>a, <2>1, <2>2, <2>3 DEF b
<1>3. ASSUME NEW t \in Threads, pc[t] = "flushSend", pc'[t] = "flushWait",
             queue' = Append(queue, <<"flush", t>>), hand' = hand
      PROVE  Kept
  <2> DEFINE m == <<"flush", t>>
  <2>1. m = b => t = u
    OBVIOUS
  <2>4. t = u => m = b /\ \A k \in 1..Len(queue) : queue[k] # b
    BY <1>3, <1>a
  <2>5. t = u => hand # b
    BY <1>3, <1>a
  <2> HIDE DEF m, b
  <2>2. /\ Len(queue) \in Nat /\ Len(queue') = Len(queue) + 1
        /\ \A i \in 1..Len(queue) : queue'[i] = queue[i]
        /\ queue'[Len(queue) + 1] = m
        /\ \A i \in 1..Len(queue') : i \in 1..Len(queue) \/ i = Len(queue) + 1
    BY <1>3, <1>q, AppendAt DEF m
  <2>3. ~ (Handle /\ hand = b)
    BY <1>3, <1>h, <1>b
  <2>6. CASE t = u
    BY <1>3, <1>w, <1>a, <2>2, <2>3, <2>4, <2>5, <2>6 DEF b
  <2>7. CASE t # u
    BY SMTT(60), <1>3, <1>w, <1>a, <2>1, <2>2, <2>3, <2>7 DEF b
  <2> QED BY <2>6, <2>7
<1>4. CASE Receive
  <2> HIDE DEF b
  <2>1. hand = NoMessage /\ queue # <<>> /\ hand' = Head(queue) /\ queue' = Tail(queue) /\ pc' = pc
    BY <1>4 DEF Receive
  <2>2. /\ Len(queue) \in Nat /\ Len(queue') = Len(queue) - 1
        /\ \A i \in 1..Len(queue') : queue'[i] = queue[i + 1] /\ i + 1 \in 1..Len(queue)
        /\ hand' = queue[1] /\ 1 \in 1..Len(queue)
    BY <2>1, <1>q, TailAt
  <2>3. \A i \in 1..Len(queue') : i + 1 # 1
    BY <2>2
  <2>4. \A i, j \in 1..Len(queue') : i + 1 = j + 1 => i = j
    BY <2>2
  <2>5. hand' = b => pc[u] = "flushWait" /\ \A k \in 1..Len(queue') : queue'[k] # b
    BY <1>a, <2>2, <2>3
  <2>6. \A k \in 1..Len(queue') : queue'[k] = b => pc[u] = "flushWait"
    BY <1>a, <2>2
  <2>7. \A k, l \in 1..Len(queue') : queue'[k] = b /\ queue'[l] = b => k = l
    BY <1>a, <2>2, <2>4
  <2> QED BY <2>1, <2>5, <2>6, <2>7 DEF b
<1>5. CASE Handle
  BY <1>w, <1>h, <1>a, <1>b, <1>5
<1> HIDE DEF Kept
<1> QED BY <1>1, <1>2, <1>3, <1>4, <1>5, ChannelFrame

\* No record gets on its way but by Send.
LEMMA NoWritesStep ==
  ASSUME TypeOK, ChannelKept, Next, NoWrites
  PROVE  \/ NoWrites'
         \/ \E t \in Threads : pc[t] = "send" /\ sender /\ Send(t)
<1>1. CASE UNCHANGED <<queue, hand>>
  BY <1>1 DEF NoWrites
<1>2. ASSUME NEW t \in Threads, Send(t), pc[t] = "send", sender,
             queue' = Append(queue, <<"write", submitted>>), hand' = hand
      PROVE  \E u \in Threads : pc[u] = "send" /\ sender /\ Send(u)
  BY <1>2
<1>3. ASSUME NEW t \in Threads,
             queue' = Append(queue, <<"flush", t>>), hand' = hand
      PROVE  NoWrites'
  <2> DEFINE m == <<"flush", t>>
  <2>1. \A r \in 1..MaxRecords : m # <<"write", r>>
    OBVIOUS
  <2> HIDE DEF m
  <2>2. /\ \A i \in 1..Len(queue) : queue'[i] = queue[i]
        /\ queue'[Len(queue) + 1] = m
        /\ \A i \in 1..Len(queue') : i \in 1..Len(queue) \/ i = Len(queue) + 1
    BY <1>3, AppendAt DEF m, TypeOK
  <2> QED BY <1>3, <2>1, <2>2 DEF NoWrites
<1>4. CASE Receive
  <2>1. /\ \A i \in 1..Len(queue') : queue'[i] = queue[i + 1] /\ i + 1 \in 1..Len(queue)
        /\ hand' = queue[1] /\ 1 \in 1..Len(queue)
    BY <1>4, TailAt DEF Receive, TypeOK
  <2> QED BY <2>1 DEF NoWrites
<1>5. CASE Handle
  BY <1>5, MessageTypes DEF Handle, NoWrites
<1> QED BY <1>1, <1>2, <1>3, <1>4, <1>5, ChannelFrame

\* A shutdown drains until the worker has exited.
LEMMA DrainingStep ==
  ASSUME TypeOK, ChannelKept, BarriersAwaited, Next, Draining
  PROVE  Draining' \/ (NoWrites' /\ ~ sender')
<1>1. ASSUME NEW t \in Threads, JoinWorker(t) PROVE NoWrites' /\ ~ sender'
  <2>1. /\ worker # "running" /\ pc[t] = "joining" /\ UNCHANGED <<queue, hand, sender>>
    BY <1>1 DEF JoinWorker, WorkerGone, channel
  <2>2. queue' = <<>> /\ hand' = NoMessage /\ ~ sender'
    BY <2>1 DEF ChannelKept
  <2> QED BY <2>2, MessageTypes DEF NoWrites
<1>2. ASSUME NEW t \in Threads, pc[t] \in {"closing", "joining"}, Call(t) \/ Step(t)
      PROVE  JoinWorker(t) \/ pc'[t] \in {"closing", "joining"}
  BY <1>2 DEF Call, Step, Retain, Release, Write, Flush, EnsureInitialized, StartWorker,
          BeginShutdown, CloseQueue, CheckActive, ReadMode, Send, CountDropped,
          FallBack, WriteDirectly, LockFlush, SendBarrier, Flushed, Goto, TypeOK
<1>3. PICK u \in Threads : pc[u] \in {"closing", "joining"}
  BY DEF Draining
<1>4. CASE WorkerStep
  BY <1>3, <1>4, WorkerMoves DEF Draining
<1>5. ASSUME NEW t \in Threads, Call(t) \/ Step(t) PROVE Draining' \/ (NoWrites' /\ ~ sender')
  BY <1>1, <1>2, <1>3, <1>5, OneMoves DEF Draining
<1> QED BY <1>4, <1>5 DEF Next

\* What makes a direct write safe lasts until a record is sent.
LEMMA BlockedStep ==
  ASSUME TypeOK, LocksHeld, ChannelKept, BarriersAwaited, ModeKept, Next, NoWrites \/ Draining
  PROVE  \/ NoWrites' \/ Draining'
         \/ \E t \in Threads : pc[t] = "send" /\ Send(t) /\ mode = "async"
<1>1. CASE Draining
  BY <1>1, DrainingStep
<1>2. CASE NoWrites /\ ~ Draining
  <2>1. ASSUME NEW t \in Threads, pc[t] = "send", sender, Send(t)
        PROVE  mode = "async"
    BY <1>2, <2>1 DEF ModeKept
  <2> QED BY <1>2, <2>1, NoWritesStep
<1> QED BY <1>1, <1>2

\* A caller leaves the queue only when nothing is left in it.
LEMMA ModeStep ==
  ASSUME TypeOK, LocksHeld, ChannelKept, BarriersAwaited, ModeKept, Next
  PROVE  ModeKept'
<1> DEFINE Blocked == NoWrites \/ Draining
<1>1. Blocked => Blocked' \/ \E t \in Threads : pc[t] = "send" /\ Send(t) /\ mode = "async"
  BY BlockedStep
<1>2. ASSUME NEW t \in Threads, Send(t)
      PROVE  /\ mode' = mode /\ sender' = sender
             /\ pc'[t] # "send" /\ pc'[t] # "direct"
             /\ pc'[t] = "fallback" => ~ sender /\ UNCHANGED <<queue, hand>>
             /\ \A u \in Threads : u # t =>
                  pc'[u] = pc[u] /\ pc[u] \notin {"send", "fallback", "direct"}
  BY <1>2, ThreadsAssumption DEF Send, Written, Goto, TypeOK, LocksHeld, WritePhases
<1>3. ASSUME NEW t \in Threads, StartWorker(t)
      PROVE  /\ mode' = "blocking" => (mode = "blocking" \/ (NoWrites' /\ ~ sender'))
             /\ mode' # "blocking" \/ sender' = sender
             /\ mode' = "async" \/ mode' = "blocking"
             /\ (mode' = "async" \/ (mode' = mode /\ sender' = sender) \/ ~ sender')
  <2>1. CASE worker = "none"
    <3>1. queue = <<>> /\ hand = NoMessage /\ ~ sender
      BY <2>1 DEF ChannelKept
    <3>2. hand' = NoMessage /\ queue' = <<>>
      BY <1>3, <3>1 DEF StartWorker
    <3>3. NoWrites'
      BY <3>2, MessageTypes DEF NoWrites
    <3> QED BY <1>3, <2>1, <3>1, <3>3 DEF StartWorker, TypeOK
  <2>2. CASE worker # "none"
    BY <1>3, <2>2 DEF StartWorker, NeedsWorker, TypeOK
  <2> QED BY <2>1, <2>2
<1>4. ASSUME NEW t \in Threads, BeginShutdown(t)
      PROVE  mode' = "blocking" /\ sender' = sender /\ Draining'
  BY <1>4 DEF BeginShutdown, Goto, TypeOK, Draining, channel
<1>5. ASSUME NEW t \in Threads, FallBack(t)
      PROVE  /\ mode' = "blocking" /\ sender' = sender /\ pc[t] = "fallback" /\ pc'[t] = "direct"
             /\ \A u \in Threads : u # t => pc[u] \notin {"send", "fallback", "direct"}
  BY <1>5, ThreadsAssumption DEF FallBack, Goto, TypeOK, LocksHeld, WritePhases, channel
<1>6. \/ UNCHANGED <<mode, sender>>
      \/ mode' = mode /\ sender' = FALSE
      \/ \E t \in Threads : StartWorker(t) \/ BeginShutdown(t) \/ FallBack(t)
  BY DEF Next, Call, Step, WorkerStep, Retain, Release, Write, Flush, EnsureInitialized,
         CloseQueue, DropSender, JoinWorker, CheckActive, ReadMode, Send, CountDropped,
         WriteDirectly, LockFlush, SendBarrier, Flushed, Receive, Handle, Timeout, WorkerExit,
         channel
<1>7. \A u \in Threads : pc'[u] \in {"send", "fallback", "direct"} =>
        \/ pc'[u] = pc[u]
        \/ Send(u) /\ pc[u] = "send" /\ pc'[u] = "fallback"
        \/ ReadMode(u) /\ (mode = "async" <=> pc'[u] = "send")
        \/ FallBack(u) /\ pc[u] = "fallback" /\ pc'[u] = "direct"
  <2>1. ASSUME NEW t \in Threads, Call(t) \/ Step(t), pc'[t] \in {"send", "fallback", "direct"}
        PROVE  \/ Send(t) /\ pc[t] = "send" /\ pc'[t] = "fallback"
               \/ ReadMode(t) /\ (mode = "async" <=> pc'[t] = "send")
               \/ FallBack(t) /\ pc[t] = "fallback" /\ pc'[t] = "direct"
               \/ pc'[t] = pc[t]
    BY <2>1 DEF Call, Step, Retain, Release, Write, Flush, EnsureInitialized, StartWorker,
            BeginShutdown, CloseQueue, JoinWorker, CheckActive, ReadMode, Send, CountDropped,
            FallBack, WriteDirectly, LockFlush, SendBarrier, Flushed, Written, Goto, TypeOK
  <2> QED BY <2>1, OneMoves, WorkerMoves DEF Next
<1>8. \A u \in Threads : ReadMode(u) => UNCHANGED <<mode, sender, queue, hand>> /\ pc[u] = "mode"
  BY DEF ReadMode, channel
<1>9. ~ sender => Blocked
  BY MessageTypes DEF ChannelKept, NoWrites, Draining
<1>10. mode \in {"async", "blocking"} /\ mode' \in {"async", "blocking"}
  BY <1>3, <1>4, <1>5, <1>6 DEF TypeOK
<1>11. ASSUME mode' = "blocking" PROVE Blocked'
  <2>1. CASE \E t \in Threads : StartWorker(t) /\ mode # "blocking"
    BY <1>3, <1>11, <2>1
  <2>2. CASE \E t \in Threads : BeginShutdown(t)
    BY <1>4, <2>2
  <2>3. CASE mode = "blocking" \/ \E t \in Threads : FallBack(t)
    <3>1. Blocked
      BY <2>3, <1>5 DEF ModeKept
    <3>2. ASSUME NEW t \in Threads, pc[t] = "send", Send(t), mode = "async" PROVE FALSE
      <4>1. mode' = "async"
        BY <1>2, <3>2
      <4> QED BY <1>11, <4>1
    <3> HIDE DEF Blocked
    <3> QED BY <1>1, <3>1, <3>2
  <2> HIDE DEF Blocked
  <2> QED BY <1>6, <1>10, <1>11, <2>1, <2>2, <2>3
<1>12. ASSUME NEW u \in Threads, pc'[u] \in {"fallback", "direct"} PROVE Blocked'
  <2>1. CASE pc'[u] = pc[u] \/ FallBack(u)
    <3>1. Blocked /\ pc[u] \in {"fallback", "direct"}
      BY <1>5, <1>12, <2>1 DEF ModeKept
    <3>2. ASSUME NEW t \in Threads, pc[t] = "send", Send(t) PROVE FALSE
      BY <1>2, <1>12, <3>1, <3>2, <2>1
    <3> HIDE DEF Blocked
    <3> QED BY <1>1, <3>1, <3>2
  <2>2. CASE Send(u)
    <3>1. ~ sender /\ UNCHANGED <<queue, hand>> /\ sender' = sender
      BY <1>2, <1>12, <2>2
    <3>2. CASE worker # "running"
      <4>1. NoWrites
        BY <3>2, MessageTypes DEF ChannelKept, NoWrites
      <4> QED BY <3>1, <4>1 DEF NoWrites
    <3>3. CASE worker = "running"
      BY <3>1, <3>3, DrainingStep DEF ChannelKept, Draining
    <3> QED BY <3>2, <3>3
  <2>3. CASE ReadMode(u)
    <3>1. Blocked
      BY <1>7, <1>8, <1>10, <1>12, <2>3 DEF ModeKept
    <3>2. UNCHANGED <<queue, hand>>
      BY <1>8, <2>3
    <3>3. NoWrites => NoWrites'
      BY <3>2 DEF NoWrites
    <3>4. Draining => Draining' \/ NoWrites'
      BY DrainingStep
    <3> QED BY <3>1, <3>3, <3>4
  <2> QED BY <1>7, <1>12, <2>1, <2>2, <2>3
<1>13. ASSUME NEW u \in Threads, pc'[u] = "send"
       PROVE  mode' = "async" \/ Draining' \/ ~ sender'
  <2>1. CASE ReadMode(u)
    BY <1>7, <1>8, <1>13, <2>1
  <2>2. CASE pc[u] = "send"
    <3>1. mode = "async" \/ Draining \/ ~ sender
      BY <2>2 DEF ModeKept
    <3>2. ASSUME NEW t \in Threads, FallBack(t) PROVE FALSE
      BY <1>5, <1>13, <2>2, <3>2
    <3>3. Draining => Draining' \/ ~ sender'
      BY DrainingStep
    <3>4. ASSUME NEW t \in Threads, StartWorker(t), ~ Draining
          PROVE  mode' = "async" \/ ~ sender'
      BY <1>3, <3>1, <3>4
    <3> QED BY <1>4, <1>6, <3>1, <3>2, <3>3, <3>4
  <2> QED BY <1>7, <1>13, <2>1, <2>2
<1> QED BY <1>11, <1>12, <1>13 DEF ModeKept

\* How a step changes what is in the file and on its way there.
LEMMA Moves ==
  ASSUME TypeOK, LocksHeld, ChannelKept, Next
  PROVE  /\ Newest \in 0..MaxRecords /\ Newest <= submitted /\ submitted <= submitted'
         /\ Newest' \in 0..MaxRecords /\ Newest <= Newest'
         /\ \/ UNCHANGED <<queue, hand, file>>
            \/ /\ \E t \in Threads : WriteDirectly(t)
               /\ Newest < submitted /\ Newest' = submitted
               /\ file' \in {Append(file, submitted), file} /\ UNCHANGED <<queue, hand>>
            \/ /\ \E t \in Threads : Send(t)
               /\ Newest < submitted /\ Newest' = submitted
               /\ queue' = Append(queue, <<"write", submitted>>) /\ UNCHANGED <<hand, file>>
            \/ \E t \in Threads :
                 /\ SendBarrier(t) /\ pc[t] = "flushSend"
                 /\ queue' = Append(queue, <<"flush", t>>) /\ UNCHANGED <<hand, file>>
            \/ Receive /\ UNCHANGED file
            \/ \E t \in Threads :
                 Handle /\ hand = <<"flush", t>> /\ hand' = NoMessage /\ UNCHANGED <<queue, file>>
            \/ \E r \in 1..MaxRecords :
                 /\ Handle /\ hand = <<"write", r>> /\ hand' = NoMessage
                 /\ file' = Append(file, r) /\ UNCHANGED queue
<1>1. ASSUME NEW t \in Threads, pc[t] \in {"send", "full", "direct"}
      PROVE  pipe = t /\ pipe # NoThread /\ submitted \in 1..MaxRecords
  BY <1>1, ThreadsAssumption DEF LocksHeld, WritePhases, TypeOK
<1>2. Newest \in 0..MaxRecords /\ Newest <= submitted /\ submitted \in 0..MaxRecords
  BY ThreadsAssumption, BoundsAssumption DEF Newest, LocksHeld, TypeOK
<1>3. CASE UNCHANGED <<pipe, submitted>>
  <2>1. Newest' = Newest /\ submitted' = submitted
    BY <1>3 DEF Newest
  <2>2. ASSUME Handle
        PROVE  \/ \E t \in Threads :
                    hand = <<"flush", t>> /\ hand' = NoMessage /\ UNCHANGED <<queue, file>>
               \/ \E r \in 1..MaxRecords :
                    /\ hand = <<"write", r>> /\ hand' = NoMessage
                    /\ file' = Append(file, r) /\ UNCHANGED queue
    <3>1. hand \in Messages
      BY <2>2 DEF Handle, TypeOK
    <3>2. hand[1] = "flush" => hand[1] # "write"
      OBVIOUS
    <3> QED BY <2>2, <3>1, <3>2, MessageTypes DEF Handle
  <2>3. ASSUME NEW t \in Threads, Send(t) PROVE UNCHANGED <<queue, hand, file>>
    <3>1. pipe = t /\ pipe # NoThread
      BY <1>1, <2>3 DEF Send
    <3> QED BY <1>3, <2>3, <3>1 DEF Send, Written, recordVars
  <2>4. ASSUME NEW t \in Threads, WriteDirectly(t) PROVE FALSE
    <3>1. pipe = t /\ pipe # NoThread
      BY <1>1, <2>4 DEF WriteDirectly
    <3> QED BY <1>3, <2>4, <3>1 DEF WriteDirectly, Written
  <2>5. ASSUME NEW t \in Threads, SendBarrier(t) PROVE UNCHANGED file
    BY <2>5 DEF SendBarrier, recordVars
  <2>6. Receive => UNCHANGED file
    BY DEF Receive, recordVars
  <2>7. \/ file' = file \/ Handle \/ \E t \in Threads : WriteDirectly(t)
    BY DEF Next, Call, Step, WorkerStep, Retain, Release, Write, Flush, EnsureInitialized,
           StartWorker, BeginShutdown, CloseQueue, JoinWorker, CheckActive, ReadMode, Send,
           CountDropped, FallBack, LockFlush, SendBarrier, Flushed, Receive, Timeout,
           WorkerExit, recordVars
  <2> QED BY <1>2, <2>1, <2>2, <2>3, <2>4, <2>5, <2>6, <2>7, ChannelFrame
<1>4. CASE \E t \in Threads : Write(t)
  BY <1>2, <1>4, ThreadsAssumption, BoundsAssumption
     DEF Write, Newest, TypeOK, channel, recordVars
<1>5. ASSUME NEW t \in Threads, Send(t) \/ CountDropped(t) \/ WriteDirectly(t), pipe' = NoThread
      PROVE  /\ submitted' = submitted /\ Newest = submitted - 1 /\ Newest' = submitted
             /\ submitted \in 1..MaxRecords
  <2>1. pipe # NoThread /\ submitted \in 1..MaxRecords /\ submitted' = submitted
    BY <1>1, <1>5 DEF Send, CountDropped, WriteDirectly
  <2> QED BY <1>5, <2>1 DEF Newest
<1>6. ASSUME NEW t \in Threads, Send(t), pipe' = NoThread
      PROVE  \/ UNCHANGED <<queue, hand, file>>
             \/ queue' = Append(queue, <<"write", submitted>>) /\ UNCHANGED <<hand, file>>
  BY <1>6 DEF Send, recordVars
<1>7. ASSUME NEW t \in Threads, CountDropped(t) PROVE UNCHANGED <<queue, hand, file>>
  BY <1>7 DEF CountDropped, channel
<1>8. ASSUME NEW t \in Threads, WriteDirectly(t)
      PROVE  file' \in {Append(file, submitted), file} /\ UNCHANGED <<queue, hand>>
  BY <1>8 DEF WriteDirectly, channel
<1>9. \/ UNCHANGED <<pipe, submitted>>
      \/ \E t \in Threads : Write(t)
      \/ \E t \in Threads : (Send(t) \/ CountDropped(t) \/ WriteDirectly(t)) /\ pipe' = NoThread
  BY DEF Next, Call, Step, WorkerStep, Retain, Release, Flush, EnsureInitialized,
         StartWorker, BeginShutdown, CloseQueue, JoinWorker, CheckActive, ReadMode, Send,
         CountDropped, FallBack, WriteDirectly, LockFlush, SendBarrier, Flushed, Receive,
         Handle, Timeout, WorkerExit, Written, locks
<1> QED BY <1>2, <1>3, <1>4, <1>5, <1>6, <1>7, <1>8, <1>9

\* A direct write finds nothing on its way to the file.
LEMMA DirectAlone ==
  ASSUME TypeOK, LocksHeld, ModeKept, NEW t \in Threads, WriteDirectly(t)
  PROVE  NoWrites
<1>1. shutdown_lock = NoThread /\ pc[t] = "direct"
  BY DEF WriteDirectly, MayWriteDirectly
<1>2. ~ Draining
  BY <1>1, ThreadsAssumption DEF Draining, LocksHeld, ShutdownPhases
<1> QED BY <1>1, <1>2 DEF ModeKept

\* The order: what is written, what the worker takes, what is sent.
LEMMA FileOrderStep ==
  ASSUME TypeOK, LocksHeld, ChannelKept, ModeKept, OrderKept, Next
  PROVE  FileOrdered'
<1> DEFINE n == Newest
           m == Newest'
<1>t. file \in Seq(1..MaxRecords) /\ Len(file) \in Nat
  BY DEF TypeOK
<1>n. n \in Nat /\ m \in Nat /\ n <= m /\ \A i \in 1..Len(file) : file[i] \in Nat
  BY Moves, BoundsAssumption DEF TypeOK
<1>o. /\ \A i, j \in 1..Len(file) : i < j => file[i] < file[j]
      /\ \A i \in 1..Len(file) : file[i] <= n
  BY DEF OrderKept, FileOrdered, FileKeepsOrder
<1> HIDE DEF n, m
<1>1. CASE file' = file
  BY <1>1, <1>t, <1>n, <1>o DEF FileOrdered, FileKeepsOrder, m
<1>2. ASSUME NEW r \in 1..MaxRecords, file' = Append(file, r), r <= m,
             \A i \in 1..Len(file) : file[i] < r
      PROVE  FileOrdered'
  <2>1. /\ Len(file') = Len(file) + 1
        /\ \A i \in 1..Len(file) : file'[i] = file[i]
        /\ file'[Len(file) + 1] = r
        /\ \A i \in 1..Len(file') : i \in 1..Len(file) \/ i = Len(file) + 1
    BY <1>2, <1>t, AppendAt
  <2>2. \A i \in 1..Len(file') : file'[i] <= m
    BY <1>2, <1>n, <1>o, <2>1
  <2>3. \A i, j \in 1..Len(file') : i < j => file'[i] < file'[j]
    <3> SUFFICES ASSUME NEW i \in 1..Len(file'), NEW j \in 1..Len(file'), i < j
                 PROVE  file'[i] < file'[j]
      OBVIOUS
    <3>1. i \in 1..Len(file)
      BY <2>1, <1>t
    <3>2. CASE j \in 1..Len(file)
      BY <3>1, <3>2, <2>1, <1>o
    <3>3. CASE j = Len(file) + 1
      BY <3>1, <3>3, <2>1, <1>2
    <3> QED BY <3>2, <3>3, <2>1
  <2> QED BY <2>2, <2>3 DEF FileOrdered, FileKeepsOrder, m
<1>3. ASSUME NEW t \in Threads, WriteDirectly(t), Newest < submitted, Newest' = submitted,
             file' \in {Append(file, submitted), file}
      PROVE  FileOrdered'
  <2>1. submitted \in 1..MaxRecords
    BY <1>n, <1>3, BoundsAssumption DEF TypeOK, n
  <2>2. \A i \in 1..Len(file) : file[i] < submitted
    BY <1>n, <1>o, <1>3, <2>1 DEF n
  <2> QED BY <1>1, <1>2, <1>3, <2>1, <2>2, <1>n DEF m
<1>4. ASSUME NEW r \in 1..MaxRecords, hand = <<"write", r>>, file' = Append(file, r)
      PROVE  FileOrdered'
  <2>1. r <= n /\ \A i \in 1..Len(file) : file[i] < r
    BY <1>4 DEF OrderKept, HandOrdered, n
  <2>2. r <= m
    BY <1>n, <2>1
  <2> QED BY <1>2, <1>4, <2>1, <2>2
<1> QED BY <1>1, <1>3, <1>4, Moves

LEMMA HandOrderStep ==
  ASSUME TypeOK, LocksHeld, ChannelKept, ModeKept, OrderKept, Next
  PROVE  HandOrdered'
<1> DEFINE n == Newest
           m == Newest'
<1> SUFFICES ASSUME NEW r \in 1..MaxRecords, hand' = <<"write", r>>
             PROVE  r <= m /\ \A i \in 1..Len(file') : file'[i] < r
  BY DEF HandOrdered
<1>n. n \in Nat /\ m \in Nat /\ n <= m
  BY Moves
<1>1. CASE hand' = hand
  <2>1. r <= n /\ \A i \in 1..Len(file) : file[i] < r
    BY <1>1 DEF OrderKept, HandOrdered
  <2>2. \A t \in Threads : ~ WriteDirectly(t)
    BY <1>1, DirectAlone DEF NoWrites
  <2>3. hand' # NoMessage
    BY MessageTypes
  <2>4. file' = file
    BY <1>1, <2>2, <2>3, Moves DEF Receive
  <2> HIDE DEF n, m
  <2> QED BY <1>n, <2>1, <2>4
<1>2. CASE Receive /\ UNCHANGED file
  <2>1. hand' = queue[1] /\ 1 \in 1..Len(queue)
    BY <1>2, TailAt DEF Receive, TypeOK
  <2>2. r <= n /\ \A i \in 1..Len(file) : file[i] < r
    BY <2>1 DEF OrderKept, QueueOrdered
  <2> HIDE DEF n, m
  <2> QED BY <1>n, <1>2, <2>2
<1>3. hand' # NoMessage
  BY MessageTypes
<1> QED BY <1>1, <1>2, <1>3, Moves

LEMMA QueueOrderStep ==
  ASSUME TypeOK, LocksHeld, ChannelKept, ModeKept, OrderKept, Next
  PROVE  QueueOrdered'
<1> DEFINE n == Newest
           m == Newest'
           W(r) == <<"write", r>>
           Ordered(r, k) ==
             /\ r <= m /\ \A i \in 1..Len(file') : file'[i] < r
             /\ \A q \in 1..MaxRecords :
                  /\ hand' = W(q) => q < r
                  /\ \A l \in 1..(k - 1) : queue'[l] = W(q) => q < r
<1> SUFFICES ASSUME NEW r \in 1..MaxRecords, NEW k \in 1..Len(queue'), queue'[k] = W(r)
             PROVE  Ordered(r, k)
  BY DEF QueueOrdered
<1>n. n \in Nat /\ m \in Nat /\ n <= m
  BY Moves
<1>q. queue \in Seq(Messages) /\ Len(queue) \in Nat
  BY DEF TypeOK
<1>f. file \in Seq(1..MaxRecords) /\ Len(file) \in Nat
  BY DEF TypeOK
<1>o. \A s \in 1..MaxRecords, j \in 1..Len(queue) : queue[j] = W(s) =>
        /\ s <= n /\ \A i \in 1..Len(file) : file[i] < s
        /\ \A q \in 1..MaxRecords :
             /\ hand = W(q) => q < s
             /\ \A l \in 1..(j - 1) : queue[l] = W(q) => q < s
  BY DEF OrderKept, QueueOrdered
<1>h. \A s \in 1..MaxRecords : hand = W(s) => s <= n /\ \A i \in 1..Len(file) : file[i] < s
  BY DEF OrderKept, HandOrdered
<1>l. \A i \in 1..Len(file) : file[i] <= n /\ file[i] \in Nat
  BY BoundsAssumption DEF OrderKept, FileOrdered, TypeOK
<1>w. \A s \in 1..MaxRecords, q \in 1..MaxRecords : W(s) = W(q) => s = q
  OBVIOUS
<1>z. \A s \in 1..MaxRecords : W(s) # NoMessage
  BY MessageTypes
<1>1. CASE UNCHANGED <<queue, hand, file>>
  <2> HIDE DEF n, m, W
  <2> QED BY <1>1, <1>n, <1>o, BoundsAssumption
<1>2. ASSUME NEW t \in Threads, WriteDirectly(t), UNCHANGED queue PROVE Ordered(r, k)
  BY <1>2, DirectAlone DEF NoWrites
<1>3. CASE /\ n < submitted /\ m = submitted
           /\ queue' = Append(queue, W(submitted)) /\ UNCHANGED <<hand, file>>
  <2>1. submitted \in 1..MaxRecords
    BY <1>3, <1>n, BoundsAssumption DEF TypeOK
  <2> HIDE DEF n, m, W
  <2>2. /\ Len(queue') = Len(queue) + 1
        /\ \A i \in 1..Len(queue) : queue'[i] = queue[i]
        /\ queue'[Len(queue) + 1] = W(submitted)
    BY <1>3, <1>q, AppendAt
  <2>3. CASE k \in 1..Len(queue)
    <3>1. \A l \in 1..(k - 1) : queue'[l] = queue[l]
      BY <2>2, <2>3, <1>q
    <3> QED BY SMTT(60), <1>3, <1>n, <1>o, <2>2, <2>3, <3>1, BoundsAssumption
  <2>4. CASE k = Len(queue) + 1
    <3>1. r = submitted
      BY <1>w, <2>1, <2>2, <2>4
    <3>2. \A l \in 1..(k - 1) : queue'[l] = queue[l] /\ l \in 1..Len(queue)
      BY <2>2, <2>4, <1>q
    <3>3. \A i \in 1..Len(file') : file'[i] < r
      BY <1>3, <1>l, <1>n, <3>1, <2>1
    <3>4. \A q \in 1..MaxRecords : hand' = W(q) => q < r
      BY <1>3, <1>h, <1>n, <3>1, <2>1, BoundsAssumption
    <3>5. \A q \in 1..MaxRecords : \A l \in 1..(k - 1) : queue'[l] = W(q) => q < r
      BY <1>3, <1>o, <1>n, <3>1, <3>2, <2>1, BoundsAssumption
    <3> QED BY <1>3, <1>n, <3>1, <3>3, <3>4, <3>5
  <2> QED BY <2>2, <2>3, <2>4, <1>q
<1>4. ASSUME NEW t \in Threads, queue' = Append(queue, <<"flush", t>>), UNCHANGED <<hand, file>>
      PROVE  Ordered(r, k)
  <2> DEFINE b == <<"flush", t>>
  <2>1. b # W(r)
    OBVIOUS
  <2> HIDE DEF n, m, W, b
  <2>2. /\ Len(queue') = Len(queue) + 1
        /\ \A i \in 1..Len(queue) : queue'[i] = queue[i]
        /\ queue'[Len(queue) + 1] = b
    BY <1>4, <1>q, AppendAt DEF b
  <2>3. k \in 1..Len(queue)
    BY <2>1, <2>2, <1>q
  <2>4. \A l \in 1..(k - 1) : queue'[l] = queue[l]
    BY <2>2, <2>3, <1>q
  <2> QED BY <1>4, <1>n, <1>o, <2>2, <2>3, <2>4, BoundsAssumption
<1>5. CASE Receive /\ UNCHANGED file
  <2> HIDE DEF n, m, W
  <2>1. /\ Len(queue') = Len(queue) - 1
        /\ \A i \in 1..Len(queue') : queue'[i] = queue[i + 1] /\ i + 1 \in 1..Len(queue)
        /\ hand' = queue[1] /\ 1 \in 1..Len(queue)
    BY <1>5, <1>q, TailAt DEF Receive
  <2>2. queue[k + 1] = W(r) /\ k + 1 \in 1..Len(queue)
    BY <2>1
  <2>3. \A l \in 1..(k - 1) : queue'[l] = queue[l + 1] /\ l + 1 \in 1..((k + 1) - 1)
    BY <2>1, <1>q
  <2>4. \A q \in 1..MaxRecords : \A l \in 1..(k - 1) : queue'[l] = W(q) => q < r
    BY <1>o, <2>2, <2>3
  <2>5. \A q \in 1..MaxRecords : hand' = W(q) => q < r
    <3>1. 1 \in 1..((k + 1) - 1)
      BY <2>1, <1>q
    <3> QED BY <1>o, <2>1, <2>2, <3>1
  <2>6. r <= n /\ \A i \in 1..Len(file) : file[i] < r
    BY <1>o, <2>2
  <2> QED BY <1>5, <1>n, <2>4, <2>5, <2>6
<1>6. CASE hand' = NoMessage /\ UNCHANGED <<queue, file>>
  <2> HIDE DEF n, m, W
  <2> QED BY <1>6, <1>n, <1>o, <1>z, BoundsAssumption
<1>7. ASSUME NEW s \in 1..MaxRecords, hand = W(s), hand' = NoMessage,
             file' = Append(file, s), UNCHANGED queue
      PROVE  Ordered(r, k)
  <2> HIDE DEF n, m, W
  <2>1. s < r /\ r <= n /\ \A i \in 1..Len(file) : file[i] < r
    BY <1>7, <1>o
  <2>2. /\ \A i \in 1..Len(file) : file'[i] = file[i]
        /\ file'[Len(file) + 1] = s
        /\ \A i \in 1..Len(file') : i \in 1..Len(file) \/ i = Len(file) + 1
    BY <1>7, <1>f, AppendAt
  <2>3. \A i \in 1..Len(file') : file'[i] < r
    BY <2>1, <2>2
  <2> QED BY <1>7, <1>n, <1>o, <1>z, <2>1, <2>3, BoundsAssumption
<1> HIDE DEF Ordered
<1> QED BY <1>1, <1>2, <1>3, <1>4, <1>5, <1>6, <1>7, Moves

\* What is in the file or counted stays so.
LEMMA CoveredGrows == ASSUME TypeOK, LocksHeld, ChannelKept, Next PROVE Covered \subseteq Covered'
<1>1. dropped \cup noticed \subseteq (dropped \cup noticed)'
  BY DEF Next, Call, Step, WorkerStep, Retain, Release, Write, Flush, EnsureInitialized,
         StartWorker, BeginShutdown, CloseQueue, JoinWorker, CheckActive, ReadMode, Send,
         CountDropped, FallBack, WriteDirectly, LockFlush, SendBarrier, Flushed, Receive,
         Handle, Timeout, WorkerExit, Notice, recordVars
<1>2. file \in Seq(1..MaxRecords) /\ submitted \in 0..MaxRecords
  BY DEF TypeOK
<1>3. \A r \in 1..MaxRecords : ToSet(file) \subseteq ToSet(Append(file, r))
  <2>1. \A r \in 1..MaxRecords : ToSet(Append(file, r)) = ToSet(file) \cup {r}
    BY <1>2, SetOf
  <2> QED BY <2>1
<1>4. ToSet(file) \subseteq ToSet(file')
  <2>1. Newest \in 0..MaxRecords /\ (Newest < submitted => submitted \in 1..MaxRecords)
    BY <1>2, Moves, BoundsAssumption
  <2> QED BY <1>3, <2>1, Moves DEF Receive, recordVars
<1> QED BY <1>1, <1>4 DEF Covered

\* What is on its way to the file stays so until it is there.
LEMMA ComingStep ==
  ASSUME TypeOK, LocksHeld, ChannelKept, ModeKept, Next, NEW r \in 1..MaxRecords, Coming(r)
  PROVE  Coming(r)' \/ r \in Covered'
<1> DEFINE w == <<"write", r>>
<1>q. queue \in Seq(Messages) /\ file \in Seq(1..MaxRecords)
  BY DEF TypeOK
<1>c. hand = w \/ w \in ToSet(queue)
  BY DEF Coming
<1>1. CASE UNCHANGED <<queue, hand>>
  BY <1>1, <1>c DEF Coming
<1>2. ASSUME NEW e \in Messages, queue' = Append(queue, e), hand' = hand PROVE Coming(r)'
  <2>1. ToSet(queue') = ToSet(queue) \cup {e}
    BY <1>2, <1>q, SetOf
  <2> QED BY <1>2, <1>c, <2>1 DEF Coming
<1>3. CASE Receive
  <2>1. hand = NoMessage /\ hand' = Head(queue) /\ queue' = Tail(queue) /\ queue # <<>>
    BY <1>3 DEF Receive
  <2>2. ToSet(queue) = {hand'} \cup ToSet(queue')
    BY <2>1, <1>q, SetOf
  <2>3. hand # w
    BY <2>1, MessageTypes
  <2> QED BY <2>2, <2>3, <1>c DEF Coming
<1>4. ASSUME NEW t \in Threads, hand = <<"flush", t>>, UNCHANGED queue PROVE Coming(r)'
  <2>1. hand # w
    BY <1>4
  <2> QED BY <1>4, <2>1, <1>c DEF Coming
<1>5. ASSUME NEW s \in 1..MaxRecords, hand = <<"write", s>>, file' = Append(file, s),
             UNCHANGED queue
      PROVE  Coming(r)' \/ r \in Covered'
  <2>1. hand = w => r = s
    BY <1>5
  <2>2. s \in ToSet(file')
    <3>1. \A e \in 1..MaxRecords : ToSet(Append(file, e)) = ToSet(file) \cup {e}
      BY <1>q, SetOf
    <3> QED BY <1>5, <3>1
  <2> QED BY <1>5, <2>1, <2>2, <1>c DEF Coming, Covered
<1>6. ASSUME NEW e, e = <<"write", submitted>>, Newest < submitted PROVE e \in Messages
  <2>1. submitted \in 1..MaxRecords
    BY <1>6, Moves, BoundsAssumption DEF TypeOK
  <2> QED BY <1>6, <2>1, MessageTypes
<1>7. \A t \in Threads : <<"flush", t>> \in Messages
  BY MessageTypes
<1> HIDE DEF w
<1> QED BY <1>1, <1>2, <1>3, <1>4, <1>5, <1>6, <1>7, Moves

\* A record is in the file, counted or on its way.
LEMMA LostStep ==
  ASSUME TypeOK, LocksHeld, Opened, ChannelKept, ModeKept, NothingLost, Next
  PROVE  NothingLost'
<1> SUFFICES ASSUME NEW r \in 1..submitted'
             PROVE  (pipe' # NoThread /\ r = submitted') \/ r \in Covered' \/ Coming(r)'
  BY DEF NothingLost, Covered, Coming
<1>t. submitted \in 0..MaxRecords /\ submitted' \in 0..MaxRecords
  BY BoundsAssumption DEF TypeOK, Next, Call, Step, WorkerStep, Retain, Release, Write, Flush,
     EnsureInitialized, StartWorker, BeginShutdown, CloseQueue, JoinWorker, CheckActive,
     ReadMode, Send, CountDropped, FallBack, WriteDirectly, LockFlush, SendBarrier, Flushed,
     Receive, Handle, Timeout, WorkerExit
<1>r. r \in 1..MaxRecords
  BY <1>t, BoundsAssumption
<1>c. r \in Covered => r \in Covered'
  BY CoveredGrows
<1>m. Coming(r) => Coming(r)' \/ r \in Covered'
  BY <1>r, ComingStep
<1>1. ASSUME NEW t \in Threads, Write(t), r = submitted'
      PROVE  pipe' # NoThread
  BY <1>1, ThreadsAssumption DEF Write
<1>2. \/ submitted' = submitted
      \/ \E t \in Threads : Write(t) /\ submitted' = submitted + 1 /\ pipe = NoThread
  BY DEF Next, Call, Step, WorkerStep, Retain, Release, Write, Flush, EnsureInitialized,
     StartWorker, BeginShutdown, CloseQueue, JoinWorker, CheckActive, ReadMode, Send,
     CountDropped, FallBack, WriteDirectly, LockFlush, SendBarrier, Flushed, Receive, Handle,
     Timeout, WorkerExit
<1>3. CASE r \in 1..submitted /\ ~ (pipe # NoThread /\ r = submitted)
  BY <1>3, <1>c, <1>m DEF NothingLost, Covered, Coming
<1>4. CASE r \in 1..submitted /\ pipe # NoThread /\ r = submitted
  <2>1. submitted' = submitted
    BY <1>2, <1>4
  <2>2. ASSUME NEW t \in Threads, Send(t), pipe' = NoThread PROVE Coming(r)'
    <3>1. queue' = Append(queue, <<"write", r>>)
      BY <1>4, <2>2 DEF Send
    <3>2. ToSet(Append(queue, <<"write", r>>)) = ToSet(queue) \cup {<<"write", r>>}
      BY <1>r, MessageTypes, SetOf DEF TypeOK
    <3> QED BY <3>1, <3>2 DEF Coming
  <2>3. ASSUME NEW t \in Threads, CountDropped(t) PROVE r \in Covered'
    BY <1>4, <2>3 DEF CountDropped, Covered
  <2>4. ASSUME NEW t \in Threads, WriteDirectly(t) PROVE r \in Covered'
    <3>1. file' = Append(file, r)
      BY <1>4, <2>4 DEF WriteDirectly, Opened, WritePhases
    <3>2. \A e \in 1..MaxRecords : ToSet(Append(file, e)) = ToSet(file) \cup {e}
      BY SetOf DEF TypeOK
    <3> QED BY <1>r, <3>1, <3>2 DEF Covered
  <2>5. \/ pipe' # NoThread
        \/ \E t \in Threads : (Send(t) \/ CountDropped(t) \/ WriteDirectly(t)) /\ pipe' = NoThread
    BY <1>4 DEF Next, Call, Step, WorkerStep, Retain, Release, Write, Flush, EnsureInitialized,
       StartWorker, BeginShutdown, CloseQueue, JoinWorker, CheckActive, ReadMode, Send,
       CountDropped, FallBack, WriteDirectly, LockFlush, SendBarrier, Flushed, Receive,
       Handle, Timeout, WorkerExit, Written, locks
  <2> QED BY <1>4, <2>1, <2>2, <2>3, <2>4, <2>5
<1>5. CASE r \notin 1..submitted
  <2>1. PICK t \in Threads : Write(t) /\ submitted' = submitted + 1
    BY <1>2, <1>5
  <2>2. r = submitted'
    BY <2>1, <1>5, <1>t
  <2> QED BY <2>1, <2>2, <1>1
<1> QED BY <1>3, <1>4, <1>5

\* A mark changes when its thread asks for a flush and when the flush is over.
LEMMA MarkMoves ==
  ASSUME TypeOK, Next, NEW t \in Threads
  PROVE  \/ mark'[t] = mark[t]
         \/ mark'[t] = {}
         \/ pc[t] = "idle" /\ pc'[t] = "flushInit" /\ mark'[t] = 1..Newest /\ Newest' = Newest
<1>1. ASSUME NEW u \in Threads, Flush(u)
      PROVE  \/ mark'[t] = mark[t]
             \/ pc[t] = "idle" /\ pc'[t] = "flushInit" /\ mark'[t] = 1..Newest /\ Newest' = Newest
  <2>1. 1..submitted \ (IF pipe = NoThread THEN {} ELSE {submitted}) = 1..Newest
    BY DEF Newest, TypeOK
  <2>2. Newest' = Newest
    BY <1>1 DEF Flush, Newest, locks
  <2> QED BY <1>1, <2>1, <2>2 DEF Flush, Goto, TypeOK
<1>2. ASSUME NEW u \in Threads, Flushed(u) PROVE mark'[t] = mark[t] \/ mark'[t] = {}
  BY <1>2 DEF Flushed, TypeOK
<1> QED BY <1>1, <1>2
        DEF Next, Call, Step, WorkerStep, Retain, Release, Write, EnsureInitialized,
            StartWorker, BeginShutdown, CloseQueue, JoinWorker, CheckActive, ReadMode, Send,
            CountDropped, FallBack, WriteDirectly, LockFlush, SendBarrier, Receive, Handle,
            Timeout, WorkerExit

\* A flush finds its records covered when its barrier is handled.
LEMMA MarksStep ==
  ASSUME TypeOK, LocksHeld, ChannelKept, BarriersAwaited, ModeKept, NothingLost, MarksKept, Next,
         TypeOK', BarriersAwaited'
  PROVE  MarksKept'
<1> SUFFICES ASSUME NEW t \in Threads
             PROVE  /\ mark'[t] \subseteq 1..Newest'
                    /\ pc'[t] = "flushed" \/ hand' = <<"flush", t>> => mark'[t] \subseteq Covered'
                    /\ \A p \in 1..Len(queue') : queue'[p] = <<"flush", t>> =>
                         \A r \in mark'[t] : \/ r \in Covered' \/ hand' = <<"write", r>>
                                             \/ \E k \in 1..(p - 1) : queue'[k] = <<"write", r>>
  BY DEF MarksKept
<1> DEFINE b == <<"flush", t>>
           W(r) == <<"write", r>>
<1>n. /\ Newest \in 0..MaxRecords /\ Newest' \in 0..MaxRecords /\ Newest <= Newest'
      /\ Newest <= submitted
  BY Moves
<1>m. /\ mark[t] \subseteq 1..Newest
      /\ pc[t] = "flushed" \/ hand = b => mark[t] \subseteq Covered
      /\ \A p \in 1..Len(queue) : queue[p] = b =>
           \A r \in mark[t] : \/ r \in Covered \/ hand = W(r)
                              \/ \E k \in 1..(p - 1) : queue[k] = W(r)
  BY DEF MarksKept
<1>c. Covered \subseteq Covered'
  BY CoveredGrows
<1>1. CASE mark'[t] = {}
  BY <1>1
<1>2. CASE pc[t] = "idle" /\ pc'[t] = "flushInit" /\ mark'[t] = 1..Newest /\ Newest' = Newest
  BY <1>2 DEF BarriersAwaited
<1>3. ASSUME mark'[t] = mark[t] PROVE mark'[t] \subseteq 1..Newest'
  BY <1>3, <1>n, <1>m
<1>k. \A r \in mark[t] : r \in Covered \/ hand = W(r) \/ \E k \in 1..Len(queue) : queue[k] = W(r)
  <2> SUFFICES ASSUME NEW r \in mark[t], r \notin Covered, hand # W(r)
               PROVE  \E k \in 1..Len(queue) : queue[k] = W(r)
    OBVIOUS
  <2>1. r \in 1..submitted /\ (pipe # NoThread => r # submitted)
    BY SMTT(60), <1>m, <1>n, BoundsAssumption DEF Newest, TypeOK
  <2>2. W(r) \in ToSet(queue)
    BY <2>1 DEF NothingLost, Covered
  <2>3. ToSet(queue) = {queue[k] : k \in 1..Len(queue)}
    BY SetOf DEF TypeOK
  <2> HIDE DEF W
  <2> QED BY <2>2, <2>3
<1>w. /\ \A r : W(r) # b
      /\ \A r \in 1..MaxRecords : W(r) # NoMessage
      /\ \A r, q : W(r) = W(q) => r = q
  BY MessageTypes
<1>b. b # NoMessage /\ \A u \in Threads : <<"flush", u>> = b => u = t
  BY MessageTypes
<1>r. mark[t] \subseteq 1..MaxRecords
  BY DEF TypeOK
<1>q. queue \in Seq(Messages) /\ Len(queue) \in Nat
  BY DEF TypeOK
<1>4. ASSUME mark'[t] = mark[t], pc'[t] = "flushed" \/ hand' = b PROVE mark'[t] \subseteq Covered'
  <2>1. CASE pc[t] = "flushed" \/ hand = b
    BY <1>4, <1>m, <1>c, <2>1
  <2>2. CASE LockFlush(t) /\ pc'[t] = "flushed"
    <3>1. ~ sender /\ ~ Draining
      BY <2>2, ThreadsAssumption
         DEF LockFlush, Goto, TypeOK, Draining, LocksHeld, ShutdownPhases
    <3>2. queue = <<>> /\ hand = NoMessage
      BY <3>1 DEF ChannelKept, Draining
    <3>3. \A r \in mark[t] : hand # W(r) /\ \A k \in 1..Len(queue) : queue[k] # W(r)
      BY <3>2, <1>w, <1>r
    <3> QED BY <1>4, <1>k, <1>c, <3>3
  <2>3. CASE Receive /\ hand' = b
    <3>1. hand = NoMessage /\ hand' = queue[1] /\ 1 \in 1..Len(queue)
      BY <2>3, <1>q, TailAt DEF Receive
    <3>2. \A r \in mark[t] : r \in Covered
      <4>1. \A k \in 1..(1 - 1) : FALSE
        OBVIOUS
      <4>2. queue[1] = b /\ \A r \in mark[t] : hand # W(r)
        BY <3>1, <2>3, <1>w, <1>r
      <4> HIDE DEF W, b
      <4> QED BY <3>1, <4>1, <4>2, <1>m
    <3> QED BY <1>4, <1>c, <3>2
  <2>4. pc'[t] = "flushed" => pc[t] = "flushed" \/ hand = b \/ LockFlush(t)
    <3>1. ASSUME NEW u \in Threads, Call(u) \/ Step(u), pc'[t] = "flushed"
          PROVE  pc[t] = "flushed" \/ LockFlush(t)
      <4>1. CASE u = t
        BY <3>1, <4>1 DEF Call, Step, Goto, Written, TypeOK, Retain, Release, Write, Flush,
           EnsureInitialized, StartWorker, BeginShutdown, CloseQueue, JoinWorker, CheckActive,
           ReadMode, Send, CountDropped, FallBack, WriteDirectly, SendBarrier, Flushed
      <4> QED BY <3>1, <4>1, OneMoves
    <3> QED BY <3>1, WorkerMoves DEF Next
  <2>5. hand' = b => hand = b \/ Receive
    BY <1>b, Moves
  <2> QED BY <1>4, <2>1, <2>2, <2>3, <2>4, <2>5
<1>5. ASSUME mark'[t] = mark[t], NEW p \in 1..Len(queue'), queue'[p] = b, NEW r \in mark[t]
      PROVE  \/ r \in Covered' \/ hand' = W(r)
             \/ \E k \in 1..(p - 1) : queue'[k] = W(r)
  <2> DEFINE Kept == \/ r \in Covered' \/ hand' = W(r)
                     \/ \E k \in 1..(p - 1) : queue'[k] = W(r)
  <2> SUFFICES Kept
    OBVIOUS
  <2>1. CASE UNCHANGED <<queue, hand>>
    <3> HIDE DEF W, b
    <3> QED BY <1>5, <1>m, <1>c, <2>1
  <2>2. ASSUME NEW e \in Messages, queue' = Append(queue, e), hand' = hand, p \in 1..Len(queue)
        PROVE  Kept
    <3> HIDE DEF W, b
    <3>1. \A i \in 1..Len(queue) : queue'[i] = queue[i]
      BY <2>2, <1>q, AppendAt
    <3>2. \A k \in 1..(p - 1) : k \in 1..Len(queue)
      BY <2>2, <1>q
    <3> QED BY <1>5, <1>m, <1>c, <2>2, <3>1, <3>2
  <2>3. ASSUME NEW e \in Messages, queue' = Append(queue, e), hand' = hand, p \notin 1..Len(queue)
        PROVE  e = b /\ Kept
    <3> HIDE DEF W, b
    <3>1. /\ \A i \in 1..Len(queue) : queue'[i] = queue[i]
          /\ queue'[Len(queue) + 1] = e
          /\ \A i \in 1..Len(queue') : i \in 1..Len(queue) \/ i = Len(queue) + 1
      BY <2>3, <1>q, AppendAt
    <3>2. p = Len(queue) + 1
      BY <2>3, <3>1
    <3>3. \A k \in 1..Len(queue) : k \in 1..(p - 1)
      BY <3>2, <1>q
    <3> QED BY <1>5, <1>k, <1>c, <2>3, <3>1, <3>2, <3>3
  <2>4. CASE Receive
    <3> HIDE DEF W, b
    <3>1. /\ hand = NoMessage /\ hand' = queue[1]
          /\ \A i \in 1..Len(queue') : queue'[i] = queue[i + 1] /\ i + 1 \in 1..Len(queue)
          /\ \A i \in 2..Len(queue) : i - 1 \in 1..Len(queue') /\ queue'[i - 1] = queue[i]
      BY <2>4, <1>q, TailAt DEF Receive
    <3>2. queue[p + 1] = b /\ p + 1 \in 1..Len(queue)
      BY <3>1, <1>5
    <3>3. hand # W(r)
      BY <3>1, <1>w, <1>r
    <3>4. CASE r \in Covered
      BY <3>4, <1>c
    <3>5. ASSUME NEW k \in 1..((p + 1) - 1), queue[k] = W(r) PROVE Kept
      <4>1. CASE k = 1
        BY <3>1, <3>5, <4>1
      <4>2. CASE k # 1
        <5>1. k - 1 \in 1..(p - 1) /\ k \in 2..Len(queue)
          BY <3>2, <4>2, <1>q
        <5> QED BY <3>1, <3>5, <5>1
      <4> QED BY <4>1, <4>2
    <3> HIDE DEF Kept
    <3>6. Kept
      BY <1>5, <1>m, <3>2, <3>3, <3>4, <3>5 DEF Kept
    <3> QED BY <3>6
  <2>5. ASSUME NEW u \in Threads, hand = <<"flush", u>>, hand' = NoMessage, UNCHANGED queue
        PROVE  Kept
    <3>1. hand # W(r)
      BY <2>5
    <3> HIDE DEF W, b
    <3> QED BY <1>5, <1>m, <1>c, <2>5, <3>1
  <2>6. ASSUME NEW s \in 1..MaxRecords, hand = W(s), hand' = NoMessage,
               file' = Append(file, s), UNCHANGED queue
        PROVE  Kept
    <3> HIDE DEF W, b
    <3>1. \A e \in 1..MaxRecords : ToSet(Append(file, e)) = ToSet(file) \cup {e}
      BY SetOf DEF TypeOK
    <3>2. s \in Covered'
      BY <2>6, <3>1 DEF Covered
    <3>3. hand = W(r) => r = s
      BY <2>6, <1>w
    <3> QED BY <1>5, <1>m, <1>c, <2>6, <3>2, <3>3
  <2>7. ASSUME Newest < submitted PROVE <<"write", submitted>> \in Messages
    <3>1. submitted \in 1..MaxRecords
      BY <2>7, <1>n, BoundsAssumption DEF TypeOK
    <3> QED BY <3>1, MessageTypes
  <2>8. \A u \in Threads : <<"flush", u>> \in Messages
    BY MessageTypes
  <2> HIDE DEF Kept
  <2> QED BY <2>1, <2>2, <2>3, <2>4, <2>5, <2>6, <2>7, <2>8, Moves
<1> QED BY <1>1, <1>2, <1>3, <1>4, <1>5, MarkMoves
-----------------------------------------------------------------------------
\* The invariant of the file logger, from its parts.
LEMMA FileInvInit == Init => FileInv
<1> SUFFICES ASSUME Init PROVE FileInv
  OBVIOUS
<1>1. TypeOK
  BY TypeInit
<1>2. LocksHeld /\ Opened
  BY ThreadsAssumption DEF Init, LocksHeld, Opened, ShutdownPhases, WritePhases
<1>3. GuardsCounted /\ ChannelKept
  BY DEF Init, GuardsCounted, ChannelKept
<1>4. queue = <<>> /\ Len(queue) = 0 /\ hand = NoMessage /\ file = <<>> /\ Len(file) = 0
  BY DEF Init
<1>5. BarriersAwaited /\ ModeKept
  BY <1>4, MessageTypes DEF Init, BarriersAwaited, ModeKept, NoWrites
<1>6. OrderKept
  BY <1>4, MessageTypes DEF OrderKept, FileOrdered, HandOrdered, QueueOrdered, FileKeepsOrder
<1>7. NothingLost
  BY DEF Init, NothingLost
<1>8. MarksKept
  BY <1>4 DEF Init, MarksKept
<1> QED BY <1>1, <1>2, <1>3, <1>5, <1>6, <1>7, <1>8 DEF FileInv

LEMMA FileInvStep == ASSUME FileInv, Next PROVE FileInv'
<1> USE DEF FileInv
<1>1. TypeOK'
  BY CallTypes, StepTypes, WorkerTypes DEF Next
<1>2. LocksHeld' /\ GuardsCounted' /\ Opened' /\ ChannelKept'
  BY LocksStep, CountedStep, OpenedStep, ChannelStep
<1>3. BarriersAwaited' /\ ModeKept'
  BY BarriersStep, ModeStep
<1>4. OrderKept'
  BY FileOrderStep, HandOrderStep, QueueOrderStep DEF OrderKept
<1>5. NothingLost'
  BY LostStep
<1>6. MarksKept'
  BY <1>1, <1>3, MarksStep
<1> QED BY <1>1, <1>2, <1>3, <1>4, <1>5, <1>6

LEMMA FileInvStutter == ASSUME FileInv, UNCHANGED vars PROVE FileInv'
<1> USE DEF vars, locks, channel, guardVars, recordVars, FileInv
<1>1. TypeOK' /\ LocksHeld' /\ GuardsCounted' /\ Opened'
  BY DEF TypeOK, LocksHeld, GuardsCounted, Opened
<1>2. ChannelKept' /\ BarriersAwaited' /\ ModeKept'
  BY DEF ChannelKept, BarriersAwaited, ModeKept, NoWrites, Draining
<1>3. OrderKept'
  BY DEF OrderKept, FileOrdered, HandOrdered, QueueOrdered, FileKeepsOrder, Newest
<1>4. Covered' = Covered /\ Newest' = Newest
  BY DEF Covered, Newest
<1>5. NothingLost'
  BY DEF NothingLost
<1>6. MarksKept'
  <2> SUFFICES ASSUME NEW t \in Threads
      PROVE  /\ mark'[t] \subseteq 1..Newest'
             /\ pc'[t] = "flushed" \/ hand' = <<"flush", t>> => mark'[t] \subseteq Covered'
             /\ \A p \in 1..Len(queue') : queue'[p] = <<"flush", t>> =>
                  \A r \in mark'[t] : \/ r \in Covered' \/ hand' = <<"write", r>>
                                      \/ \E k \in 1..(p - 1) : queue'[k] = <<"write", r>>
    BY DEF MarksKept
  <2>1. mark' = mark /\ pc' = pc /\ hand' = hand /\ queue' = queue
    OBVIOUS
  <2>2. MarksKept
    OBVIOUS
  <2> HIDE DEF FileInv
  <2>3. mark'[t] \subseteq 1..Newest'
    BY <1>4, <2>1, <2>2 DEF MarksKept
  <2>4. pc'[t] = "flushed" \/ hand' = <<"flush", t>> => mark'[t] \subseteq Covered'
    BY <1>4, <2>1, <2>2 DEF MarksKept
  <2>5. \A p \in 1..Len(queue') : queue'[p] = <<"flush", t>> =>
                  \A r \in mark'[t] : \/ r \in Covered' \/ hand' = <<"write", r>>
                                      \/ \E k \in 1..(p - 1) : queue'[k] = <<"write", r>>
    <3> SUFFICES ASSUME NEW p \in 1..Len(queue'), queue'[p] = <<"flush", t>>, NEW r \in mark'[t]
                 PROVE  \/ r \in Covered' \/ hand' = <<"write", r>>
                        \/ \E k \in 1..(p - 1) : queue'[k] = <<"write", r>>
      OBVIOUS
    <3>1. p \in 1..Len(queue) /\ queue[p] = <<"flush", t>> /\ r \in mark[t]
      BY <2>1
    <3>2. \/ r \in Covered \/ hand = <<"write", r>>
          \/ \E k \in 1..(p - 1) : queue[k] = <<"write", r>>
      BY <2>2, <3>1 DEF MarksKept
    <3> QED BY <1>4, <2>1, <3>2
  <2> QED BY <2>3, <2>4, <2>5
<1> QED BY <1>1, <1>2, <1>3, <1>5, <1>6

LEMMA FileInvariant == LoggingSpec => []FileInv
<1>1. LoggingInit => FileInv
  BY FileInvInit DEF LoggingInit
<1>2. FileInv /\ [LoggingNext]_loggingVars => FileInv'
  <2> SUFFICES ASSUME FileInv, [LoggingNext]_loggingVars PROVE FileInv'
    OBVIOUS
  <2>1. CASE OfLogger(LoggerNext)
    BY <2>1, FileInvStep DEF OfLogger, LoggerNext, Next
  <2>2. CASE OfRing(Ring!Next) \/ UNCHANGED loggingVars
    BY <2>2, FileInvStutter DEF OfRing, loggingVars
  <2> QED BY <2>1, <2>2 DEF LoggingNext
<1> QED BY <1>1, <1>2, PTL DEF LoggingSpec

\* The file keeps the order of the log calls, whatever mixes the queue and the direct writes; a
\* record that is not in the file is counted in a notice or still to be; and a flush that returns
\* has found the earlier calls' records there: LazyFileWriter of async_logger.rs, for every
\* number of threads, every queue capacity, with and without a failing spawn.
THEOREM FileLogSafety == LoggingSpec => []FileLogKept
<1>1. FileInv => FileLogKept
  BY DEF FileInv, FileLogKept, OrderKept, FileOrdered, MarksKept, FlushIsBarrier, Covered
<1> QED BY <1>1, FileInvariant, PTL
-----------------------------------------------------------------------------
(* The realtime ring. *)

InFlight(w) == rt_pc[w] \in {"count", "clear", "half 1", "half 2", "publish"}

Reading == {"half 1", "half 2", "again"}
Walking == {"tag", "store"} \cup Reading

\* The sequence number the drains have reached.
Drained == IF rt_worker \in Walking THEN drained_until ELSE drain_sequence

\* The worker does not drain while a start discards.
ServiceFits ==
  /\ service = "off" => rt_worker = "none"
  /\ service \in {"total", "forget", "reset", "accept"} => rt_worker = "idle"
  /\ service = "forget" => drain_sequence <= discard_total /\ discard_total <= next_sequence

DrainFits ==
  /\ total <= next_sequence
  /\ rt_worker = "start" => drain_sequence <= total
  /\ rt_worker \in {"notice"} \cup Walking => drain_sequence <= start /\ start <= total
  /\ rt_worker \in Walking => start <= drained_until /\ drained_until <= total
  /\ rt_worker \in {"tag"} \cup Reading => drained_until < total

\* No two writers work on one slot.
WritersApart ==
  /\ \A w \in Writers : InFlight(w) =>
       /\ sequence[w] < next_sequence /\ next_sequence <= sequence[w] + Capacity
       /\ \A v \in Writers : InFlight(v) /\ v # w => sequence[v] # sequence[w]
       /\ \A i \in 0..(Capacity - 1) : slots[i].tag # sequence[w] + 1
  /\ \A i \in 0..(Capacity - 1) : slots[i].tag <= next_sequence

\* A slot with a tag holds the record the tag names.
SlotsWhole ==
  /\ \A w \in Writers :
       LET slot == slots[Ring!Slot(sequence[w])]
       IN  /\ rt_pc[w] \in {"half 1", "half 2", "publish"} => slot.tag = 0
           /\ rt_pc[w] \in {"half 2", "publish"} => slot.half[1] = sequence[w]
           /\ rt_pc[w] = "publish" => slot.half[2] = sequence[w]
  /\ \A i \in 0..(Capacity - 1) : \A h \in 1..2 :
       slots[i].tag # 0 => slots[i].half[h] = slots[i].tag - 1

\* What the reader has copied is the record, if its tag still stands.
CopyWhole ==
  rt_worker \in Reading =>
    /\ \A w \in Writers : InFlight(w) => sequence[w] # drained_until
    /\ slots[Ring!Slot(drained_until)].tag = drained_until + 1 =>
         /\ rt_worker # "half 1" => copy[1] = drained_until
         /\ rt_worker = "again" => copy[2] = drained_until

SunkInOrder ==
  /\ Ring!SequenceOrder /\ Ring!RecordsWhole
  /\ \A i \in 1..Len(sink) : sink[i].sequence < Drained

AccountedFor ==
  \A s \in 0..(Drained - 1) :
    s \in skipped \cup discarded \/ \E i \in 1..Len(sink) : sink[i].sequence = s

Counting == {w \in Writers : rt_pc[w] = "count"}

\* A record is counted as overwritten at most once.
CountedOnce == rt_dropped + Cardinality(Counting) <= next_sequence

RingInv ==
  /\ Ring!TypeOK /\ ServiceFits /\ DrainFits /\ WritersApart /\ SlotsWhole /\ CopyWhole
  /\ SunkInOrder /\ AccountedFor /\ CountedOnce
-----------------------------------------------------------------------------
\* The remainder and its quotient.
LEMMA Remainder ==
  ASSUME NEW C \in Nat \ {0}, NEW a \in Nat, NEW q, q = a \div C
  PROVE  q \in Int /\ a % C = a - C * q /\ a % C \in 0..(C - 1)
<1>1. q \in Int
  OBVIOUS
<1> QED BY <1>1, SMTT(30)

\* Sequence numbers less than Capacity apart have slots of their own.
LEMMA SlotsApart ==
  ASSUME NEW a \in Nat, NEW b \in Nat, a < b, b < a + Capacity
  PROVE  Ring!Slot(a) # Ring!Slot(b)
<1> DEFINE p == a \div Capacity
           q == b \div Capacity
<1>1. p \in Int /\ a % Capacity = a - Capacity * p
  BY Remainder, CapacityAssumption
<1>2. q \in Int /\ b % Capacity = b - Capacity * q
  BY Remainder, CapacityAssumption
<1> HIDE DEF p, q
<1>3. ASSUME a % Capacity = b % Capacity PROVE FALSE
  <2>1. b - a = Capacity * (q - p)
    BY <1>1, <1>2, <1>3, CapacityAssumption
  <2>2. CASE q - p >= 1
    <3>1. Capacity * (q - p) >= Capacity
      BY <1>1, <1>2, <2>2, CapacityAssumption
    <3> QED BY <2>1, <3>1, CapacityAssumption
  <2>3. CASE q - p <= 0
    <3>1. Capacity * (q - p) <= 0
      BY <1>1, <1>2, <2>3, CapacityAssumption
    <3> QED BY <2>1, <3>1
  <2> QED BY <1>1, <1>2, <2>2, <2>3
<1> QED BY <1>3 DEF Ring!Slot

LEMMA SlotTypes == \A s \in Nat : Ring!Slot(s) \in 0..(Capacity - 1)
BY CapacityAssumption DEF Ring!Slot

\* The numbers of the ring are naturals.
LEMMA RingNumbers ==
  ASSUME Ring!TypeOK
  PROVE  /\ next_sequence \in Nat /\ next_sequence <= MaxRecords
         /\ drain_sequence \in Nat /\ drain_sequence <= next_sequence
         /\ discard_total \in Nat /\ total \in Nat /\ start \in Nat /\ drained_until \in Nat
         /\ rt_dropped \in Nat
         /\ \A w \in Writers : sequence[w] \in Nat
         /\ \A i \in 0..(Capacity - 1) : slots[i].tag \in Nat
<1>1. next_sequence \in 0..MaxRecords /\ drain_sequence \in 0..next_sequence
  BY DEF Ring!TypeOK
<1>2. next_sequence \in Nat /\ next_sequence <= MaxRecords
  BY <1>1, BoundsAssumption
<1>3. drain_sequence \in Nat /\ drain_sequence <= next_sequence
  BY <1>1, <1>2
<1>4. total \in 0..MaxRecords /\ start \in 0..MaxRecords /\ drained_until \in 0..MaxRecords
  BY DEF Ring!TypeOK
<1>5. rt_dropped \in 0..MaxRecords /\ discard_total \in 0..MaxRecords
  BY DEF Ring!TypeOK
<1>6. \A w \in Writers : sequence[w] \in Nat
  <2>1. sequence \in [Writers -> Ring!Sequences]
    BY DEF Ring!TypeOK
  <2>2. Ring!Sequences \subseteq Nat
    BY BoundsAssumption DEF Ring!Sequences
  <2> QED BY <2>1, <2>2
<1>7. \A i \in 0..(Capacity - 1) : slots[i].tag \in Nat
  <2> DEFINE Halves == [1..2 -> Ring!Sequences \cup {Ring!NoRecord}]
  <2>1. slots \in [0..(Capacity - 1) -> [tag : 0..MaxRecords, half : Halves]]
    BY DEF Ring!TypeOK
  <2> HIDE DEF Halves
  <2>2. \A i \in 0..(Capacity - 1) : slots[i].tag \in 0..MaxRecords
    BY <2>1
  <2> QED BY <2>2, BoundsAssumption
<1> QED BY <1>2, <1>3, <1>4, <1>5, <1>6, <1>7, BoundsAssumption

\* Two writers in flight are in two slots.
LEMMA WritersSlots ==
  ASSUME Ring!TypeOK, WritersApart, NEW v \in Writers, NEW w \in Writers,
         InFlight(v), InFlight(w), v # w
  PROVE  Ring!Slot(sequence[v]) # Ring!Slot(sequence[w])
<1> DEFINE a == sequence[v]
           b == sequence[w]
<1>1. /\ a \in Nat /\ b \in Nat /\ a # b
      /\ a < next_sequence /\ next_sequence <= b + Capacity
      /\ b < next_sequence /\ next_sequence <= a + Capacity
      /\ next_sequence \in Nat
  BY RingNumbers DEF WritersApart
<1> HIDE DEF a, b
<1>2. CASE a < b
  <2>1. b < a + Capacity
    BY <1>1, CapacityAssumption
  <2>2. Ring!Slot(a) # Ring!Slot(b)
    BY <1>1, <1>2, <2>1, SlotsApart
  <2> QED BY <2>2 DEF a, b
<1>3. CASE b < a
  <2>1. a < b + Capacity
    BY <1>1, CapacityAssumption
  <2>2. Ring!Slot(b) # Ring!Slot(a)
    BY <1>1, <1>3, <2>1, SlotsApart
  <2> QED BY <2>2 DEF a, b
<1> QED BY <1>1, <1>2, <1>3

\* A start discards while its worker is idle.
LEMMA ServiceStep ==
  ASSUME PromptStart, Ring!TypeOK, ServiceFits, Ring!Next
  PROVE  ServiceFits'
<1> USE DEF Ring!ringVars, Ring!serviceVars, Ring!drainVars
<1>1. ASSUME NEW w \in Writers, Ring!Write(w) PROVE ServiceFits'
  <2>1. UNCHANGED <<service, rt_worker, drain_sequence, discard_total>>
    BY <1>1 DEF Ring!Write, Ring!CheckAccepting, Ring!Reserve, Ring!CountOverwritten,
            Ring!ClearTag, Ring!WriteHalf, Ring!Publish
  <2>2. next_sequence' = next_sequence \/ next_sequence' = next_sequence + 1
    BY <1>1 DEF Ring!Write, Ring!CheckAccepting, Ring!Reserve, Ring!CountOverwritten,
            Ring!ClearTag, Ring!WriteHalf, Ring!Publish
  <2>3. next_sequence \in Nat /\ discard_total \in Nat
    BY RingNumbers
  <2> QED BY <2>1, <2>2, <2>3 DEF ServiceFits
<1>2. CASE Ring!Service
  BY <1>2, RingNumbers DEF Ring!Service, Ring!Spawn, Ring!DiscardTotal, Ring!Forget,
     Ring!ResetDropped, Ring!Accept, Ring!Stop, Ring!Join, ServiceFits
<1>3. CASE Ring!Drain
  <2>1. UNCHANGED <<service, next_sequence, discard_total>> /\ rt_worker # "none"
    BY <1>3 DEF Ring!Drain, Ring!BeginDrain, Ring!ChooseStart, Ring!Report, Ring!ReadTag,
            Ring!ReadHalf, Ring!ReadTagAgain, Ring!EndDrain
  <2>2. rt_worker # "idle" \/ service \in {"on", "stopping"}
    BY <1>3 DEF Ring!Drain, Ring!BeginDrain, Ring!ChooseStart, Ring!Report, Ring!ReadTag,
            Ring!ReadHalf, Ring!ReadTagAgain, Ring!EndDrain
  <2> QED BY <2>1, <2>2 DEF ServiceFits
<1> QED BY <1>1, <1>2, <1>3 DEF Ring!Next

\* A drain stays between what was drained and what was reserved when it began.
LEMMA DrainStep ==
  ASSUME Ring!TypeOK, ServiceFits, DrainFits, Ring!Next
  PROVE  DrainFits'
<1> USE DEF Ring!ringVars, Ring!serviceVars, Ring!drainVars
<1>t. /\ next_sequence \in Nat /\ drain_sequence \in Nat /\ total \in Nat /\ start \in Nat
      /\ drained_until \in Nat /\ drain_sequence <= next_sequence
  BY RingNumbers
<1>1. ASSUME NEW w \in Writers, Ring!Write(w) PROVE DrainFits'
  <2>1. UNCHANGED <<rt_worker, drain_sequence, total, start, drained_until>>
    BY <1>1 DEF Ring!Write, Ring!CheckAccepting, Ring!Reserve, Ring!CountOverwritten,
            Ring!ClearTag, Ring!WriteHalf, Ring!Publish
  <2>2. next_sequence' = next_sequence \/ next_sequence' = next_sequence + 1
    BY <1>1 DEF Ring!Write, Ring!CheckAccepting, Ring!Reserve, Ring!CountOverwritten,
            Ring!ClearTag, Ring!WriteHalf, Ring!Publish
  <2> QED BY <1>t, <2>1, <2>2 DEF DrainFits
<1>2. CASE Ring!Service
  <2>1. UNCHANGED <<next_sequence, total, start, drained_until>>
    BY <1>2 DEF Ring!Service, Ring!Spawn, Ring!DiscardTotal, Ring!Forget, Ring!ResetDropped,
            Ring!Accept, Ring!Stop, Ring!Join
  <2>2. \/ UNCHANGED <<rt_worker, drain_sequence>>
        \/ rt_worker' = "idle"
    BY <1>2 DEF Ring!Service, Ring!Spawn, Ring!DiscardTotal, Ring!Forget, Ring!ResetDropped,
            Ring!Accept, Ring!Stop, Ring!Join, ServiceFits
  <2> QED BY <2>1, <2>2 DEF DrainFits, Walking, Reading
<1> USE DEF DrainFits, Walking, Reading
<1>3. CASE Ring!BeginDrain
  BY <1>3, <1>t DEF Ring!BeginDrain
<1>4. CASE Ring!ChooseStart
  <2>1. start' = drain_sequence \/ start' = 0 \/ start' = total - Capacity
    BY <1>4 DEF Ring!ChooseStart, Ring!RetainedStart, Ring!Larger
  <2>2. start' >= drain_sequence /\ start' <= total
    BY <1>4, <1>t, CapacityAssumption
       DEF Ring!ChooseStart, Ring!RetainedStart, Ring!Larger
  <2> QED BY <1>4, <1>t, <2>2 DEF Ring!ChooseStart
<1>5. CASE Ring!Report
  BY <1>5, <1>t DEF Ring!Report
<1>6. CASE Ring!ReadTag
  BY <1>6, <1>t DEF Ring!ReadTag
<1>7. ASSUME NEW h, Ring!ReadHalf(h) PROVE DrainFits'
  BY <1>7, <1>t DEF Ring!ReadHalf
<1>8. CASE Ring!ReadTagAgain
  <2>1. /\ rt_worker = "again"
        /\ UNCHANGED <<next_sequence, drain_sequence, total, start>>
        /\ \/ /\ drained_until' = drained_until + 1
              /\ rt_worker' = "store" \/ (rt_worker' = "tag" /\ drained_until + 1 < total)
           \/ rt_worker' = "store" /\ drained_until' = drained_until
    BY <1>8 DEF Ring!ReadTagAgain
  <2>2. drained_until < total /\ drain_sequence <= start /\ start <= drained_until /\ total <= next_sequence
    BY <2>1
  <2>3. CASE rt_worker' = "store"
    BY <1>t, <2>1, <2>2, <2>3
  <2>4. CASE rt_worker' = "tag"
    BY <1>t, <2>1, <2>2, <2>4
  <2> QED BY <2>1, <2>3, <2>4
<1>9. CASE Ring!EndDrain
  BY <1>9, <1>t DEF Ring!EndDrain
<1> QED BY <1>1, <1>2, <1>3, <1>4, <1>5, <1>6, <1>7, <1>8, <1>9 DEF Ring!Next, Ring!Drain

\* A step leaves a writer alone, or moves it, and only its own step moves it.
LEMMA WriterFrame ==
  ASSUME Ring!TypeOK, NEW w \in Writers, Ring!Write(w)
  PROVE  /\ UNCHANGED <<drain_sequence, service, discard_total, rt_worker, total, start,
                        drained_until, copy, sink, skipped, discarded>>
         /\ \A v \in Writers : v # w => rt_pc'[v] = rt_pc[v] /\ sequence'[v] = sequence[v]
         /\ Ring!Reserve(w) \/ UNCHANGED <<next_sequence, sequence>>
         /\ Ring!CountOverwritten(w) \/ UNCHANGED rt_dropped
BY DEF Ring!Write, Ring!CheckAccepting, Ring!Reserve, Ring!CountOverwritten, Ring!ClearTag,
       Ring!WriteHalf, Ring!Publish, Ring!Goto, Ring!TypeOK, Ring!ringVars, Ring!serviceVars,
       Ring!drainVars, Ring!history

\* The service and the worker leave the writers and the slots alone.
LEMMA ServiceFrame ==
  ASSUME Ring!Service \/ Ring!Drain
  PROVE  UNCHANGED <<next_sequence, slots, rt_pc, sequence>>
BY DEF Ring!Service, Ring!Spawn, Ring!DiscardTotal, Ring!Forget, Ring!ResetDropped,
       Ring!Accept, Ring!Stop, Ring!Join, Ring!Drain, Ring!BeginDrain, Ring!ChooseStart,
       Ring!Report, Ring!ReadTag, Ring!ReadHalf, Ring!ReadTagAgain, Ring!EndDrain,
       Ring!ringVars, Ring!writerVars

\* How a writer's step moves it and changes its slot.
LEMMA WriterMoves ==
  ASSUME Ring!TypeOK, NEW w \in Writers, Ring!Write(w)
  PROVE  LET s == sequence[w]
             k == Ring!Slot(s)
             I == 0..(Capacity - 1)
         IN  /\ k \in I
             /\ slots' = slots \/ \A i \in I : i # k => slots'[i] = slots[i]
             /\ \/ /\ rt_pc[w] = "idle" /\ rt_pc'[w] = "reserve"
                   /\ UNCHANGED <<next_sequence, sequence, slots>>
                \/ /\ Ring!Reserve(w) /\ rt_pc[w] = "reserve" /\ rt_pc'[w] = "count"
                   /\ sequence'[w] = next_sequence /\ next_sequence' = next_sequence + 1
                   /\ UNCHANGED slots
                \/ /\ rt_pc[w] = "count" /\ rt_pc'[w] = "clear"
                   /\ UNCHANGED <<next_sequence, sequence, slots>>
                \/ /\ rt_pc[w] = "clear" /\ rt_pc'[w] = "half 1"
                   /\ slots'[k].tag = 0 /\ slots'[k].half = slots[k].half
                   /\ UNCHANGED <<next_sequence, sequence>>
                \/ /\ rt_pc[w] = "half 1" /\ rt_pc'[w] = "half 2"
                   /\ slots'[k].tag = slots[k].tag /\ slots'[k].half[1] = s
                   /\ UNCHANGED <<next_sequence, sequence>>
                \/ /\ rt_pc[w] = "half 2" /\ rt_pc'[w] = "publish"
                   /\ slots'[k].tag = slots[k].tag
                   /\ slots'[k].half[1] = slots[k].half[1] /\ slots'[k].half[2] = s
                   /\ UNCHANGED <<next_sequence, sequence>>
                \/ /\ rt_pc[w] = "publish" /\ rt_pc'[w] = "idle"
                   /\ slots'[k].tag = s + 1 /\ slots'[k].half = slots[k].half
                   /\ UNCHANGED <<next_sequence, sequence>>
<1> USE DEF Ring!Goto, Ring!At, Ring!ringVars
<1> DEFINE s == sequence[w]
           k == Ring!Slot(s)
           I == 0..(Capacity - 1)
           Halves == [1..2 -> Ring!Sequences \cup {Ring!NoRecord}]
<1>0. /\ rt_pc \in [Writers -> {"idle", "reserve", "count", "clear", "half 1", "half 2",
                              "publish"}]
      /\ sequence \in [Writers -> Ring!Sequences]
      /\ slots \in [I -> [tag : 0..MaxRecords, half : Halves]]
  BY DEF Ring!TypeOK
<1>k. k \in I
  BY RingNumbers, SlotTypes
<1>h. slots[k].half \in Halves
  <2> HIDE DEF Halves, k, I
  <2> QED BY <1>0, <1>k
<1> HIDE DEF I, k, s, Halves
<1>1. Ring!CheckAccepting(w) =>
        /\ rt_pc[w] = "idle" /\ rt_pc'[w] = "reserve"
        /\ UNCHANGED <<next_sequence, sequence, slots>>
  BY <1>0 DEF Ring!CheckAccepting
<1>2. Ring!Reserve(w) =>
        /\ rt_pc[w] = "reserve" /\ rt_pc'[w] = "count"
        /\ sequence'[w] = next_sequence /\ next_sequence' = next_sequence + 1
        /\ UNCHANGED slots
  BY <1>0 DEF Ring!Reserve
<1>3. Ring!CountOverwritten(w) =>
        /\ rt_pc[w] = "count" /\ rt_pc'[w] = "clear"
        /\ UNCHANGED <<next_sequence, sequence, slots>>
  BY <1>0 DEF Ring!CountOverwritten
<1>4. Ring!ClearTag(w) =>
        /\ rt_pc[w] = "clear" /\ rt_pc'[w] = "half 1"
        /\ slots' = [slots EXCEPT ![k].tag = 0]
        /\ UNCHANGED <<next_sequence, sequence>>
  BY <1>0 DEF Ring!ClearTag, Ring!TagCleared, k, s
<1>g. 1 \in 1..2 /\ 2 \in 1..2 /\ 2 # 1
  OBVIOUS
<1>5. Ring!WriteHalf(w, 1) =>
        /\ rt_pc[w] = "half 1" /\ rt_pc'[w] = "half 2"
        /\ slots' = [slots EXCEPT ![k].half[1] = s]
        /\ UNCHANGED <<next_sequence, sequence>>
  BY <1>0 DEF Ring!WriteHalf, k, s
<1>6. Ring!WriteHalf(w, 2) =>
        /\ rt_pc[w] = "half 2" /\ rt_pc'[w] = "publish"
        /\ slots' = [slots EXCEPT ![k].half[2] = s]
        /\ UNCHANGED <<next_sequence, sequence>>
  BY <1>0, <1>g DEF Ring!WriteHalf, k, s
<1>7. Ring!Publish(w) =>
        /\ rt_pc[w] = "publish" /\ rt_pc'[w] = "idle"
        /\ slots' = [slots EXCEPT ![k].tag = s + 1]
        /\ UNCHANGED <<next_sequence, sequence>>
  BY <1>0 DEF Ring!Publish, k, s
<1>8. ASSUME NEW e, slots' = [slots EXCEPT ![k].tag = e]
      PROVE  /\ \A i \in I : i # k => slots'[i] = slots[i]
             /\ slots'[k].tag = e /\ slots'[k].half = slots[k].half
  BY <1>0, <1>k, <1>8
<1>9. ASSUME NEW e, NEW g \in 1..2, slots' = [slots EXCEPT ![k].half[g] = e]
      PROVE  /\ \A i \in I : i # k => slots'[i] = slots[i]
             /\ slots'[k].tag = slots[k].tag /\ slots'[k].half = [slots[k].half EXCEPT ![g] = e]
  BY <1>0, <1>k, <1>9
<1>10. ASSUME NEW e
       PROVE  /\ [slots[k].half EXCEPT ![1] = e][1] = e
              /\ [slots[k].half EXCEPT ![2] = e][2] = e
              /\ [slots[k].half EXCEPT ![2] = e][1] = slots[k].half[1]
  BY <1>h DEF Halves
<1>11. Ring!ClearTag(w) =>
         slots'[k].tag = 0 /\ slots'[k].half = slots[k].half /\ \A i \in I : i # k => slots'[i] = slots[i]
  BY <1>4, <1>8
<1>12. Ring!Publish(w) =>
         slots'[k].tag = s + 1 /\ slots'[k].half = slots[k].half /\ \A i \in I : i # k => slots'[i] = slots[i]
  BY <1>7, <1>8
<1>13. ASSUME Ring!WriteHalf(w, 1)
       PROVE  /\ slots'[k].tag = slots[k].tag /\ slots'[k].half[1] = s
              /\ \A i \in I : i # k => slots'[i] = slots[i]
  <2>1. slots' = [slots EXCEPT ![k].half[1] = s]
    BY <1>5, <1>13
  <2>2. /\ \A i \in I : i # k => slots'[i] = slots[i]
        /\ slots'[k].tag = slots[k].tag /\ slots'[k].half = [slots[k].half EXCEPT ![1] = s]
    BY <1>9, <1>g, <2>1
  <2> QED BY <1>10, <2>2
<1>14. ASSUME Ring!WriteHalf(w, 2)
       PROVE  /\ slots'[k].tag = slots[k].tag
              /\ slots'[k].half[1] = slots[k].half[1] /\ slots'[k].half[2] = s
              /\ \A i \in I : i # k => slots'[i] = slots[i]
  <2>1. slots' = [slots EXCEPT ![k].half[2] = s]
    BY <1>6, <1>14
  <2>2. /\ \A i \in I : i # k => slots'[i] = slots[i]
        /\ slots'[k].tag = slots[k].tag /\ slots'[k].half = [slots[k].half EXCEPT ![2] = s]
    BY <1>9, <1>g, <2>1
  <2> QED BY <1>10, <2>2
<1> QED BY <1>k, <1>1, <1>2, <1>3, <1>4, <1>5, <1>6, <1>7, <1>11, <1>12, <1>13, <1>14
        DEF Ring!Write, I, k, s

\* A reservation gets a slot no writer works on.
LEMMA ApartStep ==
  ASSUME Ring!TypeOK, WritersApart, Ring!Next
  PROVE  WritersApart'
<1>1. CASE Ring!Service \/ Ring!Drain
  BY <1>1, ServiceFrame DEF WritersApart, InFlight
<1>2. ASSUME NEW w \in Writers, Ring!Write(w) PROVE WritersApart'
  <2> DEFINE n == next_sequence
             I == 0..(Capacity - 1)
  <2>n. /\ n \in Nat /\ \A v \in Writers : sequence[v] \in Nat
        /\ \A i \in I : slots[i].tag \in Nat /\ slots[i].tag <= n
    BY RingNumbers DEF WritersApart
  <2>f. \A v \in Writers : v # w => rt_pc'[v] = rt_pc[v] /\ sequence'[v] = sequence[v]
    BY <1>2, WriterFrame
  <2>a. \A u \in Writers : InFlight(u) =>
          /\ sequence[u] < n /\ n <= sequence[u] + Capacity
          /\ \A v \in Writers : InFlight(v) /\ v # u => sequence[v] # sequence[u]
          /\ \A i \in I : slots[i].tag # sequence[u] + 1
    BY DEF WritersApart
  <2> DEFINE Apart(u) ==
               /\ sequence'[u] < next_sequence' /\ next_sequence' <= sequence'[u] + Capacity
               /\ \A v \in Writers : InFlight(v)' /\ v # u => sequence'[v] # sequence'[u]
               /\ \A i \in I : slots'[i].tag # sequence'[u] + 1
  <2>1. CASE Ring!Reserve(w) /\ rt_pc'[w] = "count" /\ sequence'[w] = n /\ next_sequence' = n + 1
             /\ UNCHANGED slots
    <3>1. \A v \in Writers : InFlight(v) => n < sequence[v] + Capacity
      BY <2>1 DEF Ring!Reserve, Ring!NotLapped, InFlight
    <3>2. \A v \in Writers : v # w => (InFlight(v)' = InFlight(v)) /\ sequence'[v] = sequence[v]
      BY <2>f DEF InFlight
    <3>3. Apart(w)
      BY <2>1, <2>n, <2>a, <3>2, CapacityAssumption
    <3>4. ASSUME NEW u \in Writers, u # w, InFlight(u)' PROVE Apart(u)
      <4>1. InFlight(u) /\ sequence'[u] = sequence[u]
        BY <3>2, <3>4
      <4> QED BY <2>1, <2>n, <2>a, <3>1, <3>2, <4>1, CapacityAssumption
    <3>5. \A i \in I : slots'[i].tag <= next_sequence'
      BY <2>1, <2>n
    <3> HIDE DEF Apart
    <3>6. \A u \in Writers : InFlight(u)' => Apart(u)
      BY <3>3, <3>4
    <3> QED BY <3>5, <3>6 DEF WritersApart, Apart
  <2>4. ASSUME UNCHANGED <<next_sequence, sequence>>,
               \A u \in Writers : InFlight(u)' => InFlight(u),
               \A i \in I : slots'[i].tag \in {slots[i].tag, 0}
        PROVE  WritersApart'
    <3>1. \A u \in Writers : InFlight(u)' => Apart(u)
      BY <2>4, <2>n, <2>a
    <3>2. \A i \in I : slots'[i].tag <= next_sequence'
      BY <2>4, <2>n
    <3> QED BY <3>1, <3>2 DEF WritersApart
  <2>5. ASSUME UNCHANGED <<next_sequence, sequence>>, InFlight(w), ~ InFlight(w)',
               \A u \in Writers : InFlight(u)' => InFlight(u),
               \A i \in I : slots'[i].tag \in {slots[i].tag, sequence[w] + 1}
        PROVE  WritersApart'
    <3>1. \A u \in Writers : InFlight(u)' => Apart(u)
      BY <2>5, <2>n, <2>a
    <3>2. \A i \in I : slots'[i].tag <= next_sequence'
      BY <2>5, <2>n, <2>a
    <3> QED BY <3>1, <3>2 DEF WritersApart
  <2>6. ASSUME InFlight(w)' => InFlight(w)
        PROVE  \A u \in Writers : InFlight(u)' => InFlight(u)
    BY <2>6, <2>f DEF InFlight
  <2>9. \/ Ring!Reserve(w) /\ rt_pc'[w] = "count" /\ sequence'[w] = n /\ next_sequence' = n + 1
             /\ UNCHANGED slots
        \/ /\ UNCHANGED <<next_sequence, sequence>>
           /\ InFlight(w)' => InFlight(w)
           /\ \/ \A i \in I : slots'[i].tag \in {slots[i].tag, 0}
              \/ /\ InFlight(w) /\ ~ InFlight(w)'
                 /\ \A i \in I : slots'[i].tag \in {slots[i].tag, sequence[w] + 1}
    BY <1>2, WriterMoves DEF InFlight
  <2> HIDE DEF I, n
  <2> QED BY <2>1, <2>4, <2>5, <2>6, <2>9
<1> QED BY <1>1, <1>2 DEF Ring!Next

\* A record is whole when its tag is published.
LEMMA SlotsStep ==
  ASSUME Ring!TypeOK, WritersApart, SlotsWhole, Ring!Next
  PROVE  SlotsWhole'
<1>1. CASE Ring!Service \/ Ring!Drain
  BY <1>1, ServiceFrame DEF SlotsWhole
<1>2. ASSUME NEW w \in Writers, Ring!Write(w) PROVE SlotsWhole'
  <2> DEFINE I == 0..(Capacity - 1)
             K(v) == Ring!Slot(sequence[v])
             Filled(v) ==
               /\ rt_pc[v] \in {"half 1", "half 2", "publish"} => slots[K(v)].tag = 0
               /\ rt_pc[v] \in {"half 2", "publish"} => slots[K(v)].half[1] = sequence[v]
               /\ rt_pc[v] = "publish" => slots[K(v)].half[2] = sequence[v]
             Whole(i, h) == slots[i].tag # 0 => slots[i].half[h] = slots[i].tag - 1
  <2>f. \A v \in Writers : v # w => rt_pc'[v] = rt_pc[v] /\ sequence'[v] = sequence[v]
    BY <1>2, WriterFrame
  <2>i. (\A v \in Writers : Filled(v)) /\ \A i \in I : \A h \in 1..2 : Whole(i, h)
    BY DEF SlotsWhole
  <2>k. \A v \in Writers : K(v) \in I
    BY RingNumbers, SlotTypes
  <2>m. sequence[w] \in Nat /\ sequence[w] # -1
    BY RingNumbers
  <2>1. ASSUME NEW v \in Writers, v # w PROVE Filled(v)'
    <3>1. rt_pc[v] \in {"half 1", "half 2", "publish"} => slots'[K(v)] = slots[K(v)]
      <4>1. CASE InFlight(w) /\ InFlight(v)
        <5>1. K(v) # K(w)
          BY <2>1, <4>1, WritersSlots
        <5> HIDE DEF K
        <5> QED BY <1>2, <2>k, <5>1, WriterMoves DEF K
      <4>2. CASE ~ InFlight(w)
        <5>1. slots' = slots
          BY <1>2, <4>2, WriterMoves DEF InFlight
        <5> QED BY <5>1
      <4> QED BY <4>1, <4>2 DEF InFlight
    <3>2. K(v)' = K(v)
      BY <2>f, <2>1
    <3>3. Filled(v) /\ rt_pc'[v] = rt_pc[v] /\ sequence'[v] = sequence[v]
      BY <2>f, <2>i, <2>1
    <3> HIDE DEF K
    <3> QED BY <3>1, <3>2, <3>3
  <2>2. Filled(w)'
    <3>1. CASE rt_pc'[w] \in {"half 1", "half 2", "publish"}
      <4>1. sequence' = sequence /\ K(w)' = K(w)
        BY <1>2, <3>1, WriterMoves
      <4>2. /\ slots'[K(w)].tag = 0
            /\ rt_pc'[w] \in {"half 2", "publish"} => slots'[K(w)].half[1] = sequence[w]
            /\ rt_pc'[w] = "publish" => slots'[K(w)].half[2] = sequence[w]
        BY <1>2, <2>i, <3>1, WriterMoves
      <4> HIDE DEF K
      <4> QED BY <4>1, <4>2
    <3>2. CASE rt_pc'[w] \notin {"half 1", "half 2", "publish"}
      BY <3>2
    <3> QED BY <3>1, <3>2
  <2>3. ASSUME NEW i \in I, NEW h \in 1..2 PROVE Whole(i, h)'
    <3>1. CASE slots'[i] = slots[i]
      BY <2>i, <3>1
    <3>2. CASE i = K(w) /\ slots' # slots
      <4>1. \/ slots'[i].tag = 0
            \/ /\ rt_pc[w] = "publish" /\ slots'[i].tag = sequence[w] + 1
               /\ slots'[i].half = slots[i].half
        BY <1>2, <2>i, <3>2, WriterMoves
      <4>2. rt_pc[w] = "publish" => slots[i].half[h] = sequence[w]
        <5>1. h = 1 \/ h = 2
          OBVIOUS
        <5> HIDE DEF K
        <5> QED BY <2>i, <3>2, <5>1
      <4> QED BY <2>m, <4>1, <4>2
    <3> QED BY <1>2, <3>1, <3>2, WriterMoves
  <2> HIDE DEF Filled, Whole
  <2>4. (\A v \in Writers : Filled(v)') /\ \A i \in I : \A h \in 1..2 : Whole(i, h)'
    BY <2>1, <2>2, <2>3
  <2> QED BY <2>4 DEF SlotsWhole, Filled, Whole
<1> QED BY <1>1, <1>2 DEF Ring!Next

\* What is copied while the tag stands is one record.
LEMMA CopyStep ==
  ASSUME Ring!TypeOK, DrainFits, WritersApart, SlotsWhole, CopyWhole, Ring!Next
  PROVE  CopyWhole'
<1> DEFINE u == drained_until
           k == Ring!Slot(u)
<1>k. u \in Nat /\ k \in 0..(Capacity - 1)
  BY RingNumbers, SlotTypes
<1>1. ASSUME NEW w \in Writers, Ring!Write(w) PROVE CopyWhole'
  <2>1. UNCHANGED <<rt_worker, drained_until, copy>>
    BY <1>1, WriterFrame
  <2>2. SUFFICES ASSUME rt_worker \in Reading
                 PROVE  /\ \A v \in Writers : InFlight(v)' => sequence'[v] # u
                        /\ slots'[k].tag = u + 1 => slots[k].tag = u + 1
    BY <2>1 DEF CopyWhole
  <2>3. \A v \in Writers : InFlight(v) => sequence[v] # u
    BY <2>2 DEF CopyWhole
  <2>4. next_sequence # u
    <3>1. u < total /\ total <= next_sequence
      BY <2>2 DEF DrainFits
    <3>2. u \in Nat /\ total \in Nat /\ next_sequence \in Nat
      BY RingNumbers
    <3> QED BY <3>1, <3>2
  <2>5. \A v \in Writers : InFlight(v)' => sequence'[v] = next_sequence \/ (InFlight(v) /\ sequence'[v] = sequence[v])
    BY <1>1, WriterFrame, WriterMoves DEF InFlight
  <2>6. slots'[k].tag = u + 1 => slots[k].tag = u + 1
    <3>1. CASE slots'[k] = slots[k]
      BY <3>1
    <3>2. CASE k = Ring!Slot(sequence[w]) /\ slots' # slots
      <4>1. \/ slots'[k].tag \in {slots[k].tag, 0}
            \/ InFlight(w) /\ slots'[k].tag = sequence[w] + 1
        BY <1>1, <3>2, WriterMoves DEF InFlight
      <4>2. sequence[w] \in Nat
        BY RingNumbers
      <4> HIDE DEF k, u
      <4> QED BY <1>k, <2>3, <4>1, <4>2
    <3> QED BY <1>1, <1>k, <3>1, <3>2, WriterMoves
  <2> QED BY <2>3, <2>4, <2>5, <2>6
<1>2. CASE Ring!Service
  <2>1. UNCHANGED <<slots, rt_pc, sequence, copy, drained_until>>
    BY <1>2, ServiceFrame DEF Ring!Service, Ring!Spawn, Ring!DiscardTotal, Ring!Forget,
       Ring!ResetDropped, Ring!Accept, Ring!Stop, Ring!Join, Ring!drainVars
  <2>2. rt_worker' = rt_worker \/ rt_worker' = "idle"
    BY <1>2 DEF Ring!Service, Ring!Spawn, Ring!DiscardTotal, Ring!Forget,
       Ring!ResetDropped, Ring!Accept, Ring!Stop, Ring!Join, Ring!drainVars
  <2> QED BY <2>1, <2>2 DEF CopyWhole, Reading, InFlight
<1>3. CASE Ring!ReadTag
  <2>1. /\ UNCHANGED <<slots, rt_pc, sequence, copy, drained_until>>
        /\ rt_worker' = "store" \/ (rt_worker' = "half 1" /\ slots[k].tag = u + 1)
    BY <1>3 DEF Ring!ReadTag, Ring!Published, Ring!ringVars, Ring!writerVars
  <2>2. slots[k].tag = u + 1 => \A w \in Writers : InFlight(w) => sequence[w] # u
    BY <1>k DEF WritersApart
  <2> QED BY <2>1, <2>2 DEF CopyWhole, Reading, InFlight
<1>4. ASSUME NEW h \in 1..2, Ring!ReadHalf(h) PROVE CopyWhole'
  <2>1. /\ UNCHANGED <<slots, rt_pc, sequence, drained_until>>
        /\ IF h = 1 THEN rt_worker = "half 1" /\ rt_worker' = "half 2"
                    ELSE rt_worker = "half 2" /\ rt_worker' = "again"
        /\ copy' = [copy EXCEPT ![h] = slots[k].half[h]]
    BY <1>4 DEF Ring!ReadHalf, Ring!ringVars, Ring!writerVars
  <2>2. copy \in [1..2 -> Ring!Sequences \cup {Ring!NoRecord}]
    BY DEF Ring!TypeOK
  <2>3. slots[k].tag = u + 1 => slots[k].half[h] = u
    <3> HIDE DEF k, u
    <3>1. slots[k].tag # 0 => slots[k].half[h] = slots[k].tag - 1
      BY <1>k DEF SlotsWhole
    <3>2. u + 1 # 0 /\ (u + 1) - 1 = u
      BY <1>k
    <3> QED BY <3>1, <3>2
  <2>4. copy'[h] = slots[k].half[h] /\ (h = 2 => copy'[1] = copy[1])
    <3> DEFINE e == slots[k].half[h]
    <3> HIDE DEF e
    <3>1. copy' = [copy EXCEPT ![h] = e]
      BY <2>1 DEF e
    <3>2. copy'[h] = e /\ (h = 2 => copy'[1] = copy[1])
      BY <2>2, <3>1
    <3> QED BY <3>2 DEF e
  <2>5. (h = 1 \/ h = 2) /\ 1 # 2
    OBVIOUS
  <2>6. /\ rt_worker \in Reading
        /\ h = 1 => rt_worker = "half 1" /\ rt_worker' = "half 2"
        /\ h = 2 => rt_worker = "half 2" /\ rt_worker' = "again"
    BY <2>1, <2>5 DEF Reading
  <2>7. \A w \in Writers : InFlight(w)' => sequence'[w] # drained_until'
    BY <2>1, <2>6 DEF CopyWhole, InFlight
  <2>8. slots'[k].tag = u + 1 => /\ rt_worker' # "half 1" => copy'[1] = u
                                 /\ rt_worker' = "again" => copy'[2] = u
    <3> HIDE DEF k, u
    <3>1. slots[k].tag = u + 1 /\ rt_worker = "half 2" => copy[1] = u
      BY <2>6 DEF CopyWhole, u, k
    <3> QED BY <2>1, <2>3, <2>4, <2>5, <2>6, <3>1
  <2> QED BY <2>1, <2>7, <2>8 DEF CopyWhole
<1>5. CASE Ring!BeginDrain \/ Ring!ChooseStart \/ Ring!Report \/ Ring!ReadTagAgain \/ Ring!EndDrain
  <2>1. rt_worker' \notin Reading
    BY <1>5 DEF Ring!BeginDrain, Ring!ChooseStart, Ring!Report, Ring!ReadTagAgain,
       Ring!EndDrain, Reading
  <2> QED BY <2>1 DEF CopyWhole
<1> QED BY <1>1, <1>2, <1>3, <1>4, <1>5 DEF Ring!Next, Ring!Drain

\* The worker's steps and a start that discards: what they write, and how far they get.
LEMMA DrainMoves ==
  ASSUME PromptStart, Ring!TypeOK, ServiceFits, DrainFits, CopyWhole, Ring!Next
  PROVE  \/ /\ UNCHANGED sink
            /\ skipped \subseteq skipped' /\ discarded \subseteq discarded'
            /\ \/ Drained' = Drained
               \/ /\ Drained' \in Nat /\ Drained <= Drained' /\ Drained' <= next_sequence
                  /\ Drained..(Drained' - 1) \subseteq skipped' \cup discarded'
         \/ /\ Drained < next_sequence /\ Drained' = Drained + 1
            /\ sink' = Append(sink, [sequence |-> Drained, half |-> copy])
            /\ copy[1] = Drained /\ copy[2] = Drained
            /\ UNCHANGED <<skipped, discarded>>
<1> USE DEF Ring!ringVars, Ring!serviceVars, Ring!drainVars, Ring!history
<1>n. /\ next_sequence \in Nat /\ drain_sequence \in Nat /\ drained_until \in Nat
      /\ total \in Nat /\ start \in Nat /\ discard_total \in Nat
      /\ drain_sequence <= next_sequence
  BY RingNumbers
<1>1. ASSUME NEW w \in Writers, Ring!Write(w)
      PROVE  UNCHANGED <<sink, skipped, discarded>> /\ Drained' = Drained
  BY <1>1, WriterFrame DEF Drained
<1>2. CASE Ring!Forget
  <2>1. rt_worker = "idle" /\ drain_sequence <= discard_total /\ discard_total <= next_sequence
    BY <1>2 DEF Ring!Forget, ServiceFits
  <2>2. Drained = drain_sequence /\ Drained' = discard_total
    BY <1>2, <2>1 DEF Ring!Forget, Drained, Walking, Reading
  <2> QED BY <1>2, <1>n, <2>1, <2>2 DEF Ring!Forget
<1>3. CASE Ring!Spawn \/ Ring!DiscardTotal \/ Ring!ResetDropped \/ Ring!Accept \/ Ring!Stop \/ Ring!Join
  <2>1. UNCHANGED <<sink, skipped, discarded, drain_sequence, drained_until>>
    BY <1>3 DEF Ring!Spawn, Ring!DiscardTotal, Ring!ResetDropped, Ring!Accept, Ring!Stop,
       Ring!Join
  <2>2. rt_worker' = rt_worker \/ (rt_worker = "none" /\ rt_worker' = "idle")
    BY <1>3 DEF Ring!Spawn, Ring!DiscardTotal, Ring!ResetDropped, Ring!Accept, Ring!Stop,
       Ring!Join, ServiceFits
  <2> QED BY <2>1, <2>2 DEF Drained, Walking, Reading
<1>4. CASE Ring!BeginDrain \/ Ring!ChooseStart \/ Ring!ReadTag \/ Ring!ReadHalf(1) \/ Ring!ReadHalf(2)
  <2>1. UNCHANGED <<sink, skipped, discarded, drain_sequence, drained_until>>
    BY <1>4 DEF Ring!BeginDrain, Ring!ChooseStart, Ring!ReadTag, Ring!ReadHalf
  <2>2. rt_worker \in Walking <=> rt_worker' \in Walking
    BY <1>4 DEF Ring!BeginDrain, Ring!ChooseStart, Ring!ReadTag, Ring!ReadHalf, Walking, Reading
  <2> QED BY <2>1, <2>2 DEF Drained
<1>5. CASE Ring!Report
  <2>1. /\ rt_worker = "notice" /\ rt_worker' \in {"tag", "store"} /\ drained_until' = start
        /\ skipped' = skipped \cup drain_sequence..(start - 1)
        /\ UNCHANGED <<sink, discarded>>
    BY <1>5 DEF Ring!Report, Ring!ReportedSkip
  <2>2. Drained = drain_sequence /\ Drained' = start
    BY <2>1 DEF Drained, Walking, Reading
  <2>3. drain_sequence <= start /\ start <= next_sequence
    <3>1. drain_sequence <= start /\ start <= total /\ total <= next_sequence
      BY <2>1 DEF DrainFits
    <3> QED BY <1>n, <3>1
  <2> QED BY <1>n, <2>1, <2>2, <2>3
<1>6. CASE Ring!ReadTagAgain
  <2>1. /\ rt_worker = "again" /\ rt_worker' \in {"tag", "store"}
        /\ UNCHANGED <<skipped, discarded>>
        /\ \/ UNCHANGED <<sink, drained_until>>
           \/ /\ slots[Ring!Slot(drained_until)].tag = drained_until + 1
              /\ sink' = Append(sink, [sequence |-> drained_until, half |-> copy])
              /\ drained_until' = drained_until + 1
    BY <1>6 DEF Ring!ReadTagAgain, Ring!Published
  <2>2. Drained = drained_until /\ Drained' = drained_until'
    BY <2>1 DEF Drained, Walking, Reading
  <2>3. drained_until < next_sequence
    <3>1. drained_until < total /\ total <= next_sequence
      BY <2>1 DEF DrainFits, Reading
    <3> QED BY <1>n, <3>1
  <2>4. slots[Ring!Slot(drained_until)].tag = drained_until + 1 =>
          copy[1] = drained_until /\ copy[2] = drained_until
    BY <2>1 DEF CopyWhole, Reading
  <2> QED BY <2>1, <2>2, <2>3, <2>4
<1>7. CASE Ring!EndDrain
  <2>1. /\ rt_worker = "store" /\ rt_worker' \in {"none", "idle"}
        /\ drain_sequence' = drained_until /\ UNCHANGED <<sink, skipped, discarded>>
    BY <1>7 DEF Ring!EndDrain, Ring!StopAtGap
  <2> QED BY <2>1 DEF Drained, Walking, Reading
<1> QED BY <1>1, <1>2, <1>3, <1>4, <1>5, <1>6, <1>7
        DEF Ring!Next, Ring!Service, Ring!Drain

\* How far the drains have got lies between the stored and the reserved number.
LEMMA DrainedTypes ==
  ASSUME Ring!TypeOK, DrainFits
  PROVE  Drained \in Nat /\ drain_sequence <= Drained /\ Drained <= next_sequence
<1>n. /\ next_sequence \in Nat /\ drain_sequence \in Nat /\ drained_until \in Nat
      /\ total \in Nat /\ start \in Nat /\ drain_sequence <= next_sequence
  BY RingNumbers
<1>1. CASE rt_worker \in Walking
  <2>1. /\ drain_sequence <= start /\ start <= drained_until /\ drained_until <= total
        /\ total <= next_sequence
    BY <1>1 DEF DrainFits
  <2> QED BY <1>n, <1>1, <2>1 DEF Drained
<1>2. CASE rt_worker \notin Walking
  BY <1>n, <1>2 DEF Drained
<1> QED BY <1>1, <1>2

Sunk == [sequence : Ring!Sequences, half : [1..2 -> Ring!Sequences]]

LEMMA Between ==
  ASSUME NEW a \in Nat, NEW b \in Int, NEW s \in 0..(b - 1), s \notin 0..(a - 1)
  PROVE  s \in a..(b - 1) /\ b # a
OBVIOUS

\* The file grows by the record the drains have reached.
LEMMA SunkStep ==
  ASSUME PromptStart, Ring!TypeOK, ServiceFits, DrainFits, CopyWhole, SunkInOrder, AccountedFor,
         Ring!Next
  PROVE  SunkInOrder' /\ AccountedFor' /\ sink' \in Seq(Sunk)
<1> DEFINE d == Drained
           e == [sequence |-> d, half |-> copy]
<1>d. d \in Nat /\ d <= next_sequence /\ next_sequence \in Nat /\ next_sequence <= MaxRecords
  BY DrainedTypes, RingNumbers
<1>s. sink \in Seq(Sunk) /\ Len(sink) \in Nat
  <2>1. sink \in Seq(Sunk)
    BY DEF Ring!TypeOK, Sunk
  <2> QED BY <2>1
<1>n. \A i \in 1..Len(sink) : sink[i].sequence \in Nat
  <2>1. Ring!Sequences \subseteq Nat
    BY BoundsAssumption DEF Ring!Sequences
  <2>2. \A i \in 1..Len(sink) : sink[i] \in Sunk
    BY <1>s
  <2>3. \A r \in Sunk : r.sequence \in Ring!Sequences
    BY DEF Sunk
  <2> QED BY <2>1, <2>2, <2>3
<1>o. /\ \A i, j \in 1..Len(sink) : i < j => sink[i].sequence < sink[j].sequence
      /\ \A i \in 1..Len(sink) : \A h \in 1..2 : sink[i].half[h] = sink[i].sequence
      /\ \A i \in 1..Len(sink) : sink[i].sequence < d
  BY DEF SunkInOrder, Ring!SequenceOrder, Ring!RecordsWhole
<1>a. \A s \in 0..(d - 1) : s \in skipped \cup discarded \/ \E i \in 1..Len(sink) : sink[i].sequence = s
  BY DEF AccountedFor
<1>1. ASSUME UNCHANGED sink, skipped \subseteq skipped', discarded \subseteq discarded',
             \/ Drained' = d
             \/ /\ Drained' \in Nat /\ d <= Drained' /\ Drained' <= next_sequence
                /\ d..(Drained' - 1) \subseteq skipped' \cup discarded'
      PROVE  SunkInOrder' /\ AccountedFor' /\ sink' \in Seq(Sunk)
  <2>1. Drained' \in Int /\ d <= Drained'
    BY <1>d, <1>1
  <2> HIDE DEF d
  <2>2. SunkInOrder'
    <3>1. \A i \in 1..Len(sink') : sink'[i].sequence < Drained'
      BY <1>1, <1>d, <1>n, <1>o, <2>1
    <3> QED BY <1>1, <1>o, <3>1 DEF SunkInOrder, Ring!SequenceOrder, Ring!RecordsWhole
  <2>3. AccountedFor'
    <3> SUFFICES ASSUME NEW s \in 0..(Drained' - 1)
                 PROVE  s \in skipped' \cup discarded' \/ \E i \in 1..Len(sink') : sink'[i].sequence = s
      BY DEF AccountedFor
    <3>1. CASE s \in 0..(d - 1)
      BY <1>1, <1>a, <3>1
    <3>2. CASE s \notin 0..(d - 1)
      <4>1. s \in d..(Drained' - 1) /\ Drained' # d
        BY <1>d, <2>1, <3>2, Between
      <4> QED BY <1>1, <4>1
    <3> QED BY <3>1, <3>2
  <2> QED BY <1>1, <1>s, <2>2, <2>3
<1>2. ASSUME d < next_sequence, Drained' = d + 1, sink' = Append(sink, e),
             copy[1] = d, copy[2] = d, UNCHANGED <<skipped, discarded>>
      PROVE  SunkInOrder' /\ AccountedFor' /\ sink' \in Seq(Sunk)
  <2>1. e \in Sunk
    <3>1. d \in Ring!Sequences
      BY <1>d, <1>2, BoundsAssumption DEF Ring!Sequences
    <3>2. \A h \in 1..2 : h = 1 \/ h = 2
      OBVIOUS
    <3>3. copy \in [1..2 -> Ring!Sequences \cup {Ring!NoRecord}]
      BY DEF Ring!TypeOK
    <3> HIDE DEF d
    <3>4. copy \in [1..2 -> Ring!Sequences]
      BY <1>2, <3>1, <3>2, <3>3
    <3> QED BY <3>1, <3>4 DEF Sunk
  <2>2. e.sequence = d /\ \A h \in 1..2 : e.half[h] = d
    <3>1. \A h \in 1..2 : h = 1 \/ h = 2
      OBVIOUS
    <3> QED BY <1>2, <3>1
  <2> HIDE DEF e, d
  <2>3. /\ sink' \in Seq(Sunk) /\ Len(sink') = Len(sink) + 1
        /\ \A i \in 1..Len(sink) : sink'[i] = sink[i]
        /\ sink'[Len(sink) + 1] = e
        /\ \A i \in 1..Len(sink') : i \in 1..Len(sink) \/ i = Len(sink) + 1
    BY <1>2, <1>s, <2>1, AppendAt
  <2>4. \A i, j \in 1..Len(sink') : i < j => sink'[i].sequence < sink'[j].sequence
    <3> SUFFICES ASSUME NEW i \in 1..Len(sink'), NEW j \in 1..Len(sink'), i < j
                 PROVE  sink'[i].sequence < sink'[j].sequence
      OBVIOUS
    <3>1. i \in 1..Len(sink)
      BY <2>3, <1>s
    <3>2. CASE j \in 1..Len(sink)
      BY <3>1, <3>2, <2>3, <1>o
    <3>3. CASE j = Len(sink) + 1
      BY <3>1, <3>3, <2>2, <2>3, <1>o
    <3> QED BY <3>2, <3>3, <2>3
  <2>5. \A i \in 1..Len(sink') : \A h \in 1..2 : sink'[i].half[h] = sink'[i].sequence
    BY <1>o, <2>2, <2>3
  <2>6. \A i \in 1..Len(sink') : sink'[i].sequence < Drained'
    BY <1>2, <1>d, <1>n, <1>o, <2>2, <2>3
  <2>7. AccountedFor'
    <3> SUFFICES ASSUME NEW s \in 0..(Drained' - 1)
                 PROVE  s \in skipped' \cup discarded' \/ \E i \in 1..Len(sink') : sink'[i].sequence = s
      BY DEF AccountedFor
    <3>1. CASE s = d
      <4>1. Len(sink) + 1 \in 1..Len(sink')
        BY <1>s, <2>3
      <4> QED BY <2>2, <2>3, <3>1, <4>1
    <3>2. CASE s # d
      <4>1. s \in 0..(d - 1)
        BY <1>2, <1>d, <3>2
      <4>2. \A i \in 1..Len(sink) : i \in 1..Len(sink')
        BY <1>s, <2>3
      <4> QED BY <1>2, <1>a, <2>3, <4>1, <4>2
    <3> QED BY <3>1, <3>2
  <2> QED BY <2>3, <2>4, <2>5, <2>6, <2>7 DEF SunkInOrder, Ring!SequenceOrder, Ring!RecordsWhole
<1> QED BY <1>1, <1>2, DrainMoves

\* A record is counted as overwritten before its tag is cleared, once.
LEMMA CountStep ==
  ASSUME Ring!TypeOK, CountedOnce, Ring!Next
  PROVE  CountedOnce' /\ rt_dropped' \in Nat
<1> DEFINE C == Counting
           c == Cardinality(C)
<1>1. IsFiniteSet(C) /\ c \in Nat
  BY RingAssumption, FS_Subset, FS_CardinalityType DEF Counting
<1>2. next_sequence \in Nat /\ rt_dropped \in Nat /\ rt_dropped + c <= next_sequence
  BY RingNumbers DEF CountedOnce
<1>3. CASE Ring!Service \/ Ring!Drain
  <2>1. Counting' = C /\ next_sequence' = next_sequence
    BY <1>3, ServiceFrame DEF Counting
  <2>2. rt_dropped' = rt_dropped \/ rt_dropped' = 0
    BY <1>3 DEF Ring!Service, Ring!Spawn, Ring!DiscardTotal, Ring!Forget, Ring!ResetDropped,
       Ring!Accept, Ring!Stop, Ring!Join, Ring!Drain, Ring!BeginDrain, Ring!ChooseStart,
       Ring!Report, Ring!ReadTag, Ring!ReadHalf, Ring!ReadTagAgain, Ring!EndDrain,
       Ring!ringVars
  <2> QED BY <1>1, <1>2, <2>1, <2>2 DEF CountedOnce
<1>4. ASSUME NEW w \in Writers, Ring!Write(w) PROVE CountedOnce' /\ rt_dropped' \in Nat
  <2>f. \A v \in Writers : v # w => rt_pc'[v] = rt_pc[v]
    BY <1>4, WriterFrame
  <2>1. CASE Ring!Reserve(w)
    <3>1. rt_pc[w] = "reserve" /\ rt_pc'[w] = "count" /\ next_sequence' = next_sequence + 1
          /\ rt_dropped' = rt_dropped
      BY <2>1, <1>4, WriterMoves DEF Ring!Reserve, Ring!At, Ring!Goto, Ring!TypeOK
    <3>2. Counting' = C \cup {w} /\ w \notin C
      BY <2>f, <3>1 DEF Counting
    <3>3. Cardinality(C \cup {w}) = c + 1
      BY <1>1, <3>2, FS_AddElement
    <3> QED BY <1>1, <1>2, <3>1, <3>2, <3>3 DEF CountedOnce
  <2>2. CASE Ring!CountOverwritten(w)
    <3>1. rt_pc[w] = "count" /\ rt_pc'[w] = "clear" /\ next_sequence' = next_sequence
          /\ (rt_dropped' = rt_dropped \/ rt_dropped' = rt_dropped + 1)
      BY <2>2 DEF Ring!CountOverwritten, Ring!At, Ring!Goto, Ring!TypeOK
    <3>2. Counting' = C \ {w} /\ w \in C
      BY <2>f, <3>1 DEF Counting
    <3>3. Cardinality(C \ {w}) = c - 1
      BY <1>1, <3>2, FS_RemoveElement
    <3> QED BY <1>1, <1>2, <3>1, <3>2, <3>3 DEF CountedOnce
  <2>3. CASE ~ Ring!Reserve(w) /\ ~ Ring!CountOverwritten(w)
    <3>1. UNCHANGED <<next_sequence, rt_dropped>>
      BY <1>4, <2>3, WriterFrame
    <3>2. rt_pc'[w] = "count" <=> rt_pc[w] = "count"
      BY <1>4, <2>3 DEF Ring!Write, Ring!CheckAccepting, Ring!ClearTag, Ring!WriteHalf,
         Ring!Publish, Ring!At, Ring!Goto, Ring!TypeOK
    <3>3. Counting' = C
      BY <2>f, <3>2 DEF Counting
    <3> QED BY <1>1, <1>2, <3>1, <3>3 DEF CountedOnce
  <2> QED BY <2>1, <2>2, <2>3
<1> QED BY <1>3, <1>4 DEF Ring!Next

Halves == [1..2 -> Ring!Sequences \cup {Ring!NoRecord}]
Tagged == [0..(Capacity - 1) -> [tag : 0..MaxRecords, half : Halves]]

\* Types, by who changes the variable.
LEMMA WriterTypes ==
  ASSUME Ring!TypeOK, WritersApart, NEW w \in Writers, Ring!Write(w)
  PROVE  /\ next_sequence' \in 0..MaxRecords /\ drain_sequence' \in 0..next_sequence'
         /\ slots' \in Tagged
         /\ rt_pc' \in [Writers -> {"idle", "reserve", "count", "clear", "half 1", "half 2",
                                    "publish"}]
         /\ sequence' \in [Writers -> Ring!Sequences]
<1> DEFINE k == Ring!Slot(sequence[w])
<1>1. /\ next_sequence \in 0..MaxRecords /\ drain_sequence \in 0..next_sequence
      /\ slots \in Tagged /\ sequence \in [Writers -> Ring!Sequences]
      /\ rt_pc \in [Writers -> {"idle", "reserve", "count", "clear", "half 1", "half 2",
                                "publish"}]
  BY DEF Ring!TypeOK, Tagged, Halves
<1>2. /\ next_sequence \in Nat /\ drain_sequence \in Nat /\ drain_sequence <= next_sequence
      /\ sequence[w] \in Nat /\ k \in 0..(Capacity - 1)
  BY RingNumbers, SlotTypes
<1>3. drain_sequence' = drain_sequence
  BY WriterFrame
<1>4. \/ next_sequence' = next_sequence /\ sequence' = sequence
      \/ /\ next_sequence < MaxRecords /\ next_sequence' = next_sequence + 1
         /\ sequence' = [sequence EXCEPT ![w] = next_sequence]
  BY WriterFrame DEF Ring!Reserve
<1>5. next_sequence' \in 0..MaxRecords /\ drain_sequence' \in 0..next_sequence'
  <2>1. next_sequence <= MaxRecords
    BY RingNumbers
  <2>2. next_sequence' \in Nat /\ next_sequence <= next_sequence' /\ next_sequence' <= MaxRecords
    <3>1. \/ next_sequence' = next_sequence
          \/ next_sequence < MaxRecords /\ next_sequence' = next_sequence + 1
      BY <1>4
    <3> QED BY <3>1, <2>1, <1>2, BoundsAssumption
  <2>3. next_sequence' \in 0..MaxRecords
    BY <2>2, BoundsAssumption
  <2>4. drain_sequence' \in 0..next_sequence'
    BY <1>2, <1>3, <2>2
  <2> QED BY <2>3, <2>4
<1>6. sequence' \in [Writers -> Ring!Sequences]
  <2>1. CASE sequence' = sequence
    BY <1>1, <2>1
  <2>2. CASE next_sequence < MaxRecords /\ sequence' = [sequence EXCEPT ![w] = next_sequence]
    <3>1. next_sequence \in Ring!Sequences
      BY <1>2, <2>2, BoundsAssumption DEF Ring!Sequences
    <3> QED BY <1>1, <2>2, <3>1
  <2> QED BY <1>4, <2>1, <2>2
<1>7. rt_pc' \in [Writers -> {"idle", "reserve", "count", "clear", "half 1", "half 2",
                             "publish"}]
  BY <1>1 DEF Ring!Write, Ring!CheckAccepting, Ring!Reserve, Ring!CountOverwritten,
     Ring!ClearTag, Ring!WriteHalf, Ring!Publish, Ring!Goto
<1>8. \/ slots' = slots
      \/ \E e \in 0..MaxRecords : slots' = [slots EXCEPT ![k].tag = e]
      \/ \E h \in 1..2 : slots' = [slots EXCEPT ![k].half[h] = sequence[w]]
  <2>1. ASSUME Ring!Publish(w) PROVE sequence[w] + 1 \in 0..MaxRecords
    <3>1. sequence[w] < next_sequence
      BY <2>1 DEF Ring!Publish, Ring!At, WritersApart, InFlight
    <3>2. next_sequence <= MaxRecords
      BY RingNumbers
    <3> DEFINE q == sequence[w]
    <3>3. q \in Nat /\ q < next_sequence
      BY <1>2, <3>1
    <3> HIDE DEF q
    <3>4. q + 1 \in 0..MaxRecords
      BY <3>2, <3>3, <1>2, BoundsAssumption
    <3> QED BY <3>4 DEF q
  <2>2. 0 \in 0..MaxRecords /\ 1 \in 1..2 /\ 2 \in 1..2
    BY BoundsAssumption
  <2> QED BY <2>1, <2>2 DEF Ring!Write, Ring!CheckAccepting, Ring!Reserve,
     Ring!CountOverwritten, Ring!ClearTag, Ring!TagCleared, Ring!WriteHalf, Ring!Publish,
     Ring!ringVars
<1>9. slots' \in Tagged
  <2> DEFINE I == 0..(Capacity - 1)
  <2>0. slots \in [I -> [tag : 0..MaxRecords, half : Halves]] /\ k \in I
    BY <1>1, <1>2 DEF Tagged
  <2>1. \A h \in 1..2 : \A f \in Halves : [f EXCEPT ![h] = sequence[w]] \in Halves
    BY <1>1 DEF Halves
  <2> HIDE DEF I, k
  <2>2. slots[k] \in [tag : 0..MaxRecords, half : Halves] /\ slots[k].half \in Halves
    BY <2>0
  <2>3. ASSUME NEW e \in 0..MaxRecords, slots' = [slots EXCEPT ![k].tag = e]
        PROVE  slots' \in [I -> [tag : 0..MaxRecords, half : Halves]]
    BY <2>0, <2>2, <2>3
  <2>4. ASSUME NEW h \in 1..2, slots' = [slots EXCEPT ![k].half[h] = sequence[w]]
        PROVE  slots' \in [I -> [tag : 0..MaxRecords, half : Halves]]
    <3> DEFINE g == [slots[k].half EXCEPT ![h] = sequence[w]]
    <3>1. g \in Halves
      BY <2>1, <2>2
    <3>2. slots' = [slots EXCEPT ![k].half = g]
      BY <2>4, <2>0
    <3> HIDE DEF g
    <3> QED BY <2>0, <2>2, <3>1, <3>2
  <2>5. slots' \in [I -> [tag : 0..MaxRecords, half : Halves]]
    BY <1>8, <2>0, <2>3, <2>4
  <2> QED BY <2>5 DEF Tagged, I
<1> QED BY <1>5, <1>6, <1>7, <1>9

LEMMA ServiceTypes ==
  ASSUME Ring!TypeOK, ServiceFits, DrainFits, Ring!Service \/ Ring!Drain
  PROVE  /\ drain_sequence' \in 0..next_sequence' /\ discard_total' \in 0..MaxRecords
         /\ {total', start', drained_until'} \subseteq 0..MaxRecords
         /\ copy' \in Halves
         /\ skipped' \subseteq Ring!Sequences /\ discarded' \subseteq Ring!Sequences
<1> USE DEF Ring!ringVars, Ring!serviceVars, Ring!drainVars, Ring!history
<1>1. /\ next_sequence \in Nat /\ next_sequence <= MaxRecords
      /\ drain_sequence \in Nat /\ drain_sequence <= next_sequence
      /\ discard_total \in Nat /\ total \in Nat /\ start \in Nat /\ drained_until \in Nat
  BY RingNumbers
<1>2. /\ discard_total \in 0..MaxRecords /\ {total, start, drained_until} \subseteq 0..MaxRecords
      /\ skipped \subseteq Ring!Sequences /\ discarded \subseteq Ring!Sequences
      /\ copy \in Halves
  BY DEF Ring!TypeOK, Halves
<1>3. next_sequence' = next_sequence
  BY ServiceFrame
<1>4. drain_sequence' \in 0..next_sequence'
  <2>1. CASE Ring!Forget
    <3>1. drain_sequence' = discard_total /\ discard_total <= next_sequence
      BY <2>1 DEF Ring!Forget, ServiceFits
    <3> QED BY <1>1, <1>3, <3>1
  <2>2. CASE Ring!EndDrain
    <3>1. /\ drain_sequence' = drained_until /\ drained_until <= total
          /\ total <= next_sequence
      BY <2>2 DEF Ring!EndDrain, Ring!StopAtGap, DrainFits, Walking
    <3> QED BY <1>1, <1>3, <3>1
  <2>3. CASE ~ Ring!Forget /\ ~ Ring!EndDrain
    <3>1. drain_sequence' = drain_sequence
      BY <2>3 DEF Ring!Service, Ring!Spawn, Ring!DiscardTotal, Ring!ResetDropped, Ring!Accept,
         Ring!Stop, Ring!Join, Ring!Drain, Ring!BeginDrain, Ring!ChooseStart, Ring!Report,
         Ring!ReadTag, Ring!ReadHalf, Ring!ReadTagAgain
    <3> QED BY <1>1, <1>3, <3>1
  <2> QED BY <2>1, <2>2, <2>3
<1>5. discard_total' \in 0..MaxRecords
  <2>1. discard_total' = discard_total \/ discard_total' = next_sequence
    BY DEF Ring!Service, Ring!Spawn, Ring!DiscardTotal, Ring!Forget, Ring!ResetDropped,
       Ring!Accept, Ring!Stop, Ring!Join, Ring!Drain, Ring!BeginDrain, Ring!ChooseStart,
       Ring!Report, Ring!ReadTag, Ring!ReadHalf, Ring!ReadTagAgain, Ring!EndDrain
  <2>2. next_sequence \in 0..MaxRecords
    BY DEF Ring!TypeOK
  <2> QED BY <1>2, <2>1, <2>2
<1>6. {total', start', drained_until'} \subseteq 0..MaxRecords
  <2>1. /\ total' = total \/ total' = next_sequence
        /\ start' = start \/ (Ring!ChooseStart /\ start' \in Int)
        /\ \/ drained_until' = drained_until
           \/ rt_worker' \in Walking /\ drained_until' \in {start, drained_until + 1}
    <3>1. CASE Ring!ChooseStart
      <4>1. start' = drain_sequence \/ start' = 0 \/ start' = total - Capacity
        BY <3>1 DEF Ring!ChooseStart, Ring!RetainedStart, Ring!Larger
      <4> QED BY <1>1, <3>1, <4>1, CapacityAssumption DEF Ring!ChooseStart
    <3>2. CASE Ring!Report \/ Ring!ReadTagAgain
      <4>1. rt_worker' \in {"tag", "store"} /\ UNCHANGED <<total, start>>
        BY <3>2 DEF Ring!Report, Ring!ReadTagAgain
      <4>2. drained_until' = drained_until \/ drained_until' \in {start, drained_until + 1}
        BY <3>2 DEF Ring!Report, Ring!ReadTagAgain
      <4> QED BY <4>1, <4>2 DEF Walking
    <3>3. CASE ~ Ring!ChooseStart /\ ~ Ring!Report /\ ~ Ring!ReadTagAgain
      BY <3>3 DEF Ring!Service, Ring!Spawn, Ring!DiscardTotal, Ring!Forget, Ring!ResetDropped,
         Ring!Accept, Ring!Stop, Ring!Join, Ring!Drain, Ring!BeginDrain, Ring!ReadTag,
         Ring!ReadHalf, Ring!EndDrain
    <3> QED BY <3>1, <3>2, <3>3
  <2>2. DrainFits'
    BY DrainStep DEF Ring!Next
  <2>3. total' \in Nat /\ total' <= MaxRecords
    BY <1>1, <1>2, <2>1, BoundsAssumption
  <2>4. start' \in Nat /\ start' <= MaxRecords
    <3>1. CASE start' = start
      BY <1>2, <3>1, BoundsAssumption
    <3>2. CASE Ring!ChooseStart /\ start' \in Int
      <4>1. rt_worker' = "notice" /\ drain_sequence' = drain_sequence
        BY <3>2 DEF Ring!ChooseStart
      <4>2. drain_sequence' <= start' /\ start' <= total'
        BY <4>1, <2>2 DEF DrainFits
      <4> QED BY <1>1, <2>3, <3>2, <4>1, <4>2, BoundsAssumption
    <3> QED BY <2>1, <3>1, <3>2
  <2>5. drained_until' \in Nat /\ drained_until' <= MaxRecords
    <3>1. CASE drained_until' = drained_until
      BY <1>2, <3>1, BoundsAssumption
    <3>2. CASE rt_worker' \in Walking /\ drained_until' \in {start, drained_until + 1}
      <4>1. drained_until' <= total'
        BY <2>2, <3>2 DEF DrainFits
      <4>2. drained_until' \in Nat
        BY <1>1, <3>2
      <4> QED BY <2>3, <4>1, <4>2, BoundsAssumption
    <3> QED BY <2>1, <3>1, <3>2
  <2> QED BY <2>3, <2>4, <2>5, BoundsAssumption
<1>7. copy' \in Halves
  <2>1. \/ copy' = copy
        \/ \E h \in 1..2 : copy' = [copy EXCEPT ![h] = slots[Ring!Slot(drained_until)].half[h]]
    <3>1. 1 \in 1..2 /\ 2 \in 1..2
      OBVIOUS
    <3> QED BY <3>1 DEF Ring!Service, Ring!Spawn, Ring!DiscardTotal, Ring!Forget,
       Ring!ResetDropped, Ring!Accept, Ring!Stop, Ring!Join, Ring!Drain, Ring!BeginDrain,
       Ring!ChooseStart, Ring!Report, Ring!ReadTag, Ring!ReadHalf, Ring!ReadTagAgain,
       Ring!EndDrain
  <2> DEFINE k == Ring!Slot(drained_until)
             I == 0..(Capacity - 1)
  <2>2. k \in I /\ slots \in [I -> [tag : 0..MaxRecords, half : Halves]]
    BY <1>1, SlotTypes DEF Ring!TypeOK, Halves
  <2> HIDE DEF k, I
  <2>3. slots[k].half \in Halves
    BY <2>2
  <2>4. \A h \in 1..2 : [copy EXCEPT ![h] = slots[k].half[h]] \in Halves
    BY <1>2, <2>3 DEF Halves
  <2> QED BY <1>2, <2>1, <2>4 DEF k
<1>8. skipped' \subseteq Ring!Sequences /\ discarded' \subseteq Ring!Sequences
  <2>1. CASE Ring!Forget
    <3>1. /\ skipped' = skipped /\ discard_total <= next_sequence
          /\ discarded' = discarded \cup (drain_sequence..(discard_total - 1))
      BY <2>1 DEF Ring!Forget, ServiceFits
    <3>2. drain_sequence..(discard_total - 1) \subseteq 0..(MaxRecords - 1)
      BY <1>1, <3>1, BoundsAssumption
    <3> QED BY <1>2, <3>1, <3>2 DEF Ring!Sequences
  <2>2. CASE Ring!Report
    <3>1. /\ discarded' = discarded /\ start <= total /\ total <= next_sequence
          /\ skipped' = skipped \cup (drain_sequence..(start - 1))
      BY <2>2 DEF Ring!Report, Ring!ReportedSkip, DrainFits
    <3>2. drain_sequence..(start - 1) \subseteq 0..(MaxRecords - 1)
      BY <1>1, <3>1, BoundsAssumption
    <3> QED BY <1>2, <3>1, <3>2 DEF Ring!Sequences
  <2>3. CASE ~ Ring!Forget /\ ~ Ring!Report
    <3>1. UNCHANGED <<skipped, discarded>>
      BY <2>3 DEF Ring!Service, Ring!Spawn, Ring!DiscardTotal, Ring!ResetDropped, Ring!Accept,
         Ring!Stop, Ring!Join, Ring!Drain, Ring!BeginDrain, Ring!ChooseStart, Ring!ReadTag,
         Ring!ReadHalf, Ring!ReadTagAgain, Ring!EndDrain
    <3> QED BY <1>2, <3>1
  <2> QED BY <2>1, <2>2, <2>3
<1> QED BY <1>4, <1>5, <1>6, <1>7, <1>8

\* What neither lemma above covers takes finitely many values.
LEMMA OtherTypes ==
  ASSUME Ring!TypeOK, Ring!Next
  PROVE  /\ accepting' \in BOOLEAN /\ last' \in BOOLEAN /\ starts' \in 0..MaxStarts
         /\ service' \in {"off", "total", "forget", "reset", "accept", "on", "stopping"}
         /\ rt_worker' \in {"none", "idle", "start", "notice", "tag", "half 1", "half 2", "again",
                            "store"}
<1> USE DEF Ring!ringVars, Ring!serviceVars, Ring!drainVars
<1>1. /\ accepting \in BOOLEAN /\ last \in BOOLEAN /\ starts \in 0..MaxStarts
      /\ service \in {"off", "total", "forget", "reset", "accept", "on", "stopping"}
      /\ rt_worker \in {"none", "idle", "start", "notice", "tag", "half 1", "half 2", "again",
                         "store"}
  BY DEF Ring!TypeOK
<1>2. ASSUME NEW w \in Writers, Ring!Write(w)
      PROVE  UNCHANGED <<accepting, last, starts, service, rt_worker>>
  BY <1>2 DEF Ring!Write, Ring!CheckAccepting, Ring!Reserve, Ring!CountOverwritten,
     Ring!ClearTag, Ring!WriteHalf, Ring!Publish
<1>3. CASE Ring!Service
  <2>1. /\ starts' = starts \/ (starts < MaxStarts /\ starts' = starts + 1)
        /\ rt_worker' \in {rt_worker, "idle"} /\ accepting' \in {accepting, TRUE, FALSE}
        /\ last' = last
        /\ service' \in {"off", "total", "forget", "reset", "accept", "on", "stopping"}
    BY <1>3 DEF Ring!Service, Ring!Spawn, Ring!DiscardTotal, Ring!Forget, Ring!ResetDropped,
       Ring!Accept, Ring!Stop, Ring!Join
  <2>2. starts' \in 0..MaxStarts
    <3>1. starts \in 0..MaxStarts /\ MaxStarts \in Nat
      BY <1>1, RingAssumption
    <3>2. starts' = starts \/ (starts < MaxStarts /\ starts' = starts + 1)
      BY <2>1
    <3> QED BY <3>1, <3>2
  <2> QED BY <1>1, <2>1, <2>2
<1>4. CASE Ring!Drain
  <2>1. UNCHANGED <<accepting, starts, service>>
    BY <1>4 DEF Ring!Drain, Ring!BeginDrain, Ring!ChooseStart, Ring!Report, Ring!ReadTag,
       Ring!ReadHalf, Ring!ReadTagAgain, Ring!EndDrain
  <2>2. last' = last \/ last' \in BOOLEAN
    BY <1>4 DEF Ring!Drain, Ring!BeginDrain, Ring!ChooseStart, Ring!Report, Ring!ReadTag,
       Ring!ReadHalf, Ring!ReadTagAgain, Ring!EndDrain
  <2>3. rt_worker' \in {"none", "idle", "start", "notice", "tag", "half 1", "half 2", "again",
                         "store"}
    BY <1>4 DEF Ring!Drain, Ring!BeginDrain, Ring!ChooseStart, Ring!Report, Ring!ReadTag,
       Ring!ReadHalf, Ring!ReadTagAgain, Ring!EndDrain
  <2> QED BY <1>1, <2>1, <2>2, <2>3
<1> QED BY <1>1, <1>2, <1>3, <1>4 DEF Ring!Next
-----------------------------------------------------------------------------
\* The invariant of the ring, from its parts.
LEMMA RingTypes == ASSUME PromptStart, RingInv, Ring!Next PROVE Ring!TypeOK'
<1> USE DEF RingInv
<1>1. /\ rt_dropped' \in Nat /\ CountedOnce'
      /\ sink' \in Seq([sequence : Ring!Sequences, half : [1..2 -> Ring!Sequences]])
  BY CountStep, SunkStep DEF Sunk
<1>2. /\ next_sequence' \in 0..MaxRecords /\ drain_sequence' \in 0..next_sequence'
      /\ slots' \in Tagged
      /\ rt_pc' \in [Writers -> {"idle", "reserve", "count", "clear", "half 1", "half 2",
                                 "publish"}]
      /\ sequence' \in [Writers -> Ring!Sequences]
  <2>1. ASSUME NEW w \in Writers, Ring!Write(w) PROVE <1>2
    BY <2>1, WriterTypes
  <2>2. CASE Ring!Service \/ Ring!Drain
    BY <2>2, ServiceFrame, ServiceTypes DEF Ring!TypeOK, Tagged, Halves
  <2> QED BY <2>1, <2>2 DEF Ring!Next
<1>3. /\ discard_total' \in 0..MaxRecords
      /\ {total', start', drained_until'} \subseteq 0..MaxRecords
      /\ copy' \in Halves
      /\ skipped' \subseteq Ring!Sequences /\ discarded' \subseteq Ring!Sequences
  <2>1. ASSUME NEW w \in Writers, Ring!Write(w) PROVE <1>3
    BY <2>1, WriterFrame DEF Ring!TypeOK, Halves
  <2>2. CASE Ring!Service \/ Ring!Drain
    BY <2>2, ServiceTypes
  <2> QED BY <2>1, <2>2 DEF Ring!Next
<1>4. rt_dropped' \in 0..MaxRecords
  <2>1. Counting' \subseteq Writers
    BY DEF Counting
  <2>2. Cardinality(Counting') \in Nat
    BY <2>1, RingAssumption, FS_Subset, FS_CardinalityType
  <2>3. rt_dropped' + Cardinality(Counting') <= next_sequence'
    BY <1>1 DEF CountedOnce
  <2>4. next_sequence' \in Nat /\ next_sequence' <= MaxRecords
    <3>1. next_sequence' \in 0..MaxRecords
      BY <1>2
    <3> QED BY <3>1, BoundsAssumption
  <2> QED BY <1>1, <2>2, <2>3, <2>4, BoundsAssumption
<1>5. /\ accepting' \in BOOLEAN /\ last' \in BOOLEAN /\ starts' \in 0..MaxStarts
      /\ service' \in {"off", "total", "forget", "reset", "accept", "on", "stopping"}
      /\ rt_worker' \in {"none", "idle", "start", "notice", "tag", "half 1", "half 2", "again",
                         "store"}
  BY OtherTypes
<1> HIDE DEF RingInv
<1> QED BY <1>1, <1>2, <1>3, <1>4, <1>5 DEF Ring!TypeOK, Tagged, Halves

LEMMA RingInvInit == Ring!Init => RingInv
<1> SUFFICES ASSUME Ring!Init PROVE RingInv
  OBVIOUS
<1> USE DEF Ring!Init
<1>1. Ring!TypeOK
  <2>1. 0 \in 0..MaxRecords /\ 0 \in 0..MaxStarts /\ 0 \in Ring!Sequences /\ 0 \in 0..0
    BY BoundsAssumption, RingAssumption DEF Ring!Sequences
  <2> DEFINE empty == [tag |-> 0, half |-> [h \in 1..2 |-> Ring!NoRecord]]
  <2>2. empty \in [tag : 0..MaxRecords, half : [1..2 -> Ring!Sequences \cup {Ring!NoRecord}]]
    BY <2>1
  <2>3. slots = [i \in 0..(Capacity - 1) |-> empty]
    OBVIOUS
  <2>4. rt_pc \in [Writers -> {"idle", "reserve", "count", "clear", "half 1", "half 2",
                               "publish"}]
    OBVIOUS
  <2>5. sequence \in [Writers -> Ring!Sequences]
    BY <2>1
  <2>6. sink \in Seq([sequence : Ring!Sequences, half : [1..2 -> Ring!Sequences]])
    OBVIOUS
  <2> HIDE DEF empty
  <2>7. slots \in [0..(Capacity - 1) ->
                     [tag : 0..MaxRecords, half : [1..2 -> Ring!Sequences \cup {Ring!NoRecord}]]]
    BY <2>2, <2>3
  <2> QED BY <2>1, <2>4, <2>5, <2>6, <2>7 DEF Ring!TypeOK
<1>2. ServiceFits /\ DrainFits
  BY DEF ServiceFits, DrainFits, Walking, Reading
<1>3. \A i \in 0..(Capacity - 1) : slots[i].tag = 0
  OBVIOUS
<1>4. \A w \in Writers : rt_pc[w] = "idle"
  OBVIOUS
<1>5. WritersApart /\ SlotsWhole /\ CopyWhole
  BY <1>3, <1>4 DEF WritersApart, SlotsWhole, CopyWhole, InFlight, Reading
<1>6. Drained = 0 /\ Len(sink) = 0
  BY DEF Drained, Walking, Reading
<1>7. SunkInOrder /\ AccountedFor
  BY <1>6 DEF SunkInOrder, AccountedFor, Ring!SequenceOrder, Ring!RecordsWhole
<1>8. CountedOnce
  <2>1. Counting = {}
    BY <1>4 DEF Counting
  <2> QED BY <2>1, FS_EmptySet DEF CountedOnce
<1> QED BY <1>1, <1>2, <1>5, <1>7, <1>8 DEF RingInv

LEMMA RingInvStep == ASSUME PromptStart, RingInv, Ring!Next PROVE RingInv'
<1>1. Ring!TypeOK'
  BY RingTypes
<1> USE DEF RingInv
<1>2. ServiceFits' /\ DrainFits'
  BY ServiceStep, DrainStep
<1>3. WritersApart' /\ SlotsWhole'
  BY ApartStep, SlotsStep
<1>4. CopyWhole'
  BY CopyStep
<1>5. SunkInOrder' /\ AccountedFor' /\ CountedOnce'
  BY SunkStep, CountStep
<1> QED BY <1>1, <1>2, <1>3, <1>4, <1>5

LEMMA RingInvStutter == ASSUME RingInv, UNCHANGED rtVars PROVE RingInv'
<1> USE DEF rtVars, RingInv
<1>1. Ring!TypeOK'
  BY DEF Ring!TypeOK
<1>2. ServiceFits' /\ DrainFits' /\ WritersApart'
  BY DEF ServiceFits, DrainFits, WritersApart, InFlight
<1>3. SlotsWhole' /\ CopyWhole'
  BY DEF SlotsWhole, CopyWhole, InFlight
<1>4. Drained' = Drained /\ Counting' = Counting
  BY DEF Drained, Counting
<1>5. SunkInOrder' /\ AccountedFor' /\ CountedOnce'
  BY <1>4 DEF SunkInOrder, AccountedFor, CountedOnce, Ring!SequenceOrder, Ring!RecordsWhole
<1> QED BY <1>1, <1>2, <1>3, <1>5

LEMMA RingInvariant ==
  ASSUME PromptStart
  PROVE  LoggingSpec => []RingInv
<1>1. LoggingInit => RingInv
  BY RingInvInit DEF LoggingInit
<1>2. RingInv /\ [LoggingNext]_loggingVars => RingInv'
  <2> SUFFICES ASSUME RingInv, [LoggingNext]_loggingVars PROVE RingInv'
    OBVIOUS
  <2>1. CASE OfRing(Ring!Next)
    BY <2>1, RingInvStep DEF OfRing
  <2>2. CASE OfLogger(LoggerNext) \/ UNCHANGED loggingVars
    BY <2>2, RingInvStutter DEF OfLogger, loggingVars
  <2> QED BY <2>1, <2>2 DEF LoggingNext
<1> QED BY <1>1, <1>2, PTL DEF LoggingSpec

\* A record of the realtime ring gets to the file whole, at most once and in sequence order, and
\* what the drains have passed was written, reported or discarded: rt.rs, for every capacity and
\* number of writers, where a start of the service resets the ring before its worker drains.
THEOREM RingSafety ==
  ASSUME PromptStart
  PROVE  LoggingSpec => []RingKept
<1>1. RingInv => RingKept
  <2> SUFFICES ASSUME RingInv PROVE Ring!NoSilentLoss
    BY DEF RingKept, RingInv, SunkInOrder
  <2>1. Drained \in Nat /\ drain_sequence \in Nat /\ drain_sequence <= Drained
    BY DrainedTypes, RingNumbers DEF RingInv
  <2>2. \A s \in 0..(drain_sequence - 1) : s \in 0..(Drained - 1)
    BY <2>1
  <2> QED BY <2>2 DEF RingInv, AccountedFor, Ring!NoSilentLoss
<1> QED BY <1>1, RingInvariant, PTL

\* Every variable of the two logs keeps its type; in particular the count of overwritten records
\* never exceeds the records reserved, so it cannot wrap.
THEOREM LogsTypes ==
  ASSUME PromptStart
  PROVE  LoggingSpec => []LogsTypeOK
<1>1. FileInv /\ RingInv => LogsTypeOK
  BY DEF FileInv, RingInv, LogsTypeOK
<1> QED BY <1>1, FileInvariant, RingInvariant, PTL
=============================================================================
