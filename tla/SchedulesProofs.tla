--------------------------- MODULE SchedulesProofs ---------------------------
(***************************************************************************)
(* Proofs about the parts of the wrappers whose threads wait for one       *)
(* another.  The parts share no state, so each has an invariant of its     *)
(* own, which the others' steps leave alone:                               *)
(*                                                                         *)
(*   AuInv  the Audio Unit: the door to Render() is open only in a unit    *)
(*          that is up and processing, one adapter at most holds edits,    *)
(*          and the value that is to win is the last one queued or is in   *)
(*          the plugin already (AuWinner);                                 *)
(*   ThInv  the VST3 wrapper's threads: who is where owns the locks it     *)
(*          took there, and the helper is out before a component is        *)
(*          attached or detached;                                          *)
(*   IxInv  the preset index: a live listener's instance has not left, an  *)
(*          instance has one token at most, and a call in progress is to   *)
(*          an instance whose removal has not returned;                    *)
(*   MdInv  the standalone's MIDI out: a thread that has ended left no     *)
(*          note on, and the ports change only while there is no thread.   *)
(***************************************************************************)
EXTENDS MCSchedules, SequenceTheorems, WellFoundedInduction, TLAPS

-----------------------------------------------------------------------------
(* The Audio Unit. *)

AuPlaces == {"idle", "closing", "stopping", "activating", "starting", "loading", "serve", "flush"}
AuNext == {"none", "initialized", "cleanedUp", "reactivate", "serve", "flush"}
AuEdits == [value : AuValues, time : {0}, stale : {FALSE}]
AuAdapters == [there : BOOLEAN, events : Seq(AuEdits), gestures : Nat, recall : BOOLEAN, before : Nat]

AuTypes ==
  /\ au \in [up : BOOLEAN, open : BOOLEAN, state : {"off", "active", "processing"},
             main : AuPlaces, after : AuNext, rendering : BOOLEAN]
  /\ pending \in [process : AuAdapters, flush : AuAdapters]
  /\ asked \in [flush : BOOLEAN, restart : BOOLEAN, process : BOOLEAN, dirty : BOOLEAN, held : 0..MaxHeld]
  /\ clap \in [value : AuValues \cup {SavedValue}, gesture : BOOLEAN, open : Nat]
  /\ writes \in Nat /\ inForce \in AuValues \cup {SavedValue}

\* Who is let in: the door is open only in a unit that is up and processing.
AuDoor ==
  /\ au.rendering => au.open
  /\ au.open => au.state = "processing" /\ au.up /\ pending.process.there
  /\ pending.process.there => au.open \/ au.main \in {"starting", "closing"}
  /\ au.main \in {"stopping", "activating", "starting"} => ~ au.open
  /\ au.main = "starting" => pending.process.there
  /\ au.main \in {"closing", "stopping"} =>
       au.after # "none" /\ (au.after # "initialized" => au.up)
  /\ au.main \in {"activating", "starting"} =>
       au.after \in {"initialized", "serve", "flush"} /\ (au.after # "initialized" => au.up)

\* Only one of the adapters holds edits, and a recall is under way on the first.
AuQueues ==
  /\ IF pending.process.there THEN pending.flush.events = <<>> ELSE pending.process.events = <<>>
  /\ pending.flush.there \/ pending.flush.events = <<>>
  /\ pending.process.recall <=> au.main = "loading"
  /\ ~ pending.flush.recall
  /\ pending.process.recall => pending.process.there /\ pending.process.before <= Len(pending.process.events)

\* The value that is to win is the last one queued, or is there.
Winner(q, v) == IF q = <<>> THEN v ELSE q[Len(q)].value
AuWinner == inForce = Winner(Queued, clap.value)
AuGestures == pending.process.gestures + pending.flush.gestures <= clap.open

AuInv == AuTypes /\ AuDoor /\ AuQueues /\ AuWinner /\ AuGestures

\* The unit as it is made.
LEMMA AuInitInv == AuUnitInit => AuInv
<1> SUFFICES ASSUME AuUnitInit PROVE AuInv
  OBVIOUS
<1>1. AuTypes
  BY AuAssumption DEF AuUnitInit, AuTypes, AuPlaces, AuNext, AuAdapters, NoAdapter, SavedValue
<1>2. AuDoor /\ AuQueues /\ AuWinner /\ AuGestures
  BY DEF AuUnitInit, AuDoor, AuQueues, AuWinner, AuGestures, Winner, Queued, NoAdapter, SavedValue
<1> QED
  BY <1>1, <1>2 DEF AuInv

\* Steps that leave the queues alone.
LEMMA AuQuiet ==
  ASSUME AuInv, UNCHANGED <<pending, clap, writes, inForce>>,
         Initialize \/ Cleanup \/ DeactivateEnds \/ ActivateEnds \/ RenderBegins \/ Request
           \/ Idle \/ ServeProcess
  PROVE  AuInv'
<1>a. AuTypes /\ AuDoor /\ AuQueues
  BY DEF AuInv
<1>1. AuWinner' /\ AuGestures'
  BY DEF AuInv, AuWinner, AuGestures, Winner, Queued
<1>2. CASE Initialize
  <2>1. AuTypes'
    BY <1>a, <1>2, AuAssumption DEF AuTypes, AuDoor, AuPlaces, AuNext, Initialize, MainIs
  <2>2. AuDoor'
    BY <1>a, <1>2 DEF AuTypes, AuDoor, AuPlaces, AuNext, Initialize, MainIs, LockFree
  <2>3. AuQueues'
    BY <1>a, <1>2 DEF AuTypes, AuDoor, AuQueues, AuPlaces, AuNext, Initialize, MainIs
  <2> QED
    BY <1>1, <2>1, <2>2, <2>3 DEF AuInv
<1>3. CASE Cleanup
  <2>1. AuTypes'
    BY <1>a, <1>3, AuAssumption DEF AuTypes, AuDoor, AuPlaces, AuNext, Cleanup, MainIs
  <2>2. AuDoor'
    BY <1>a, <1>3 DEF AuTypes, AuDoor, AuPlaces, AuNext, Cleanup, MainIs, LockFree
  <2>3. AuQueues'
    BY <1>a, <1>3 DEF AuTypes, AuDoor, AuQueues, AuPlaces, AuNext, Cleanup, MainIs
  <2> QED
    BY <1>1, <2>1, <2>2, <2>3 DEF AuInv
<1>4. CASE DeactivateEnds
  <2>1. AuTypes'
    BY <1>a, <1>4, AuAssumption DEF AuTypes, AuDoor, AuPlaces, AuNext, DeactivateEnds, MainIs
  <2>2. AuDoor'
    BY <1>a, <1>4 DEF AuTypes, AuDoor, AuPlaces, AuNext, DeactivateEnds, MainIs, LockFree
  <2>3. AuQueues'
    BY <1>a, <1>4 DEF AuTypes, AuDoor, AuQueues, AuPlaces, AuNext, DeactivateEnds, MainIs
  <2> QED
    BY <1>1, <2>1, <2>2, <2>3 DEF AuInv
<1>5. CASE ActivateEnds
  <2>1. AuTypes'
    <3>1. MainIs("starting")
      BY <1>5 DEF ActivateEnds
    <3>2. CASE au' = [au EXCEPT !.state = "processing", !.open = TRUE,
                         !.up = @ \/ au.after = "initialized",
                         !.main = IF au.after = "initialized" THEN "idle" ELSE au.after,
                         !.after = "none"]
      <4> DEFINE Goes_on == IF au.after = "initialized" THEN "idle" ELSE au.after
      <4>1. au.after \in {"initialized", "serve", "flush"}
        BY <1>a, <3>1 DEF AuDoor, MainIs
      <4>2. Goes_on \in AuPlaces /\ "none" \in AuNext /\ (au.up \/ au.after = "initialized") \in BOOLEAN
        BY <1>a, <4>1 DEF AuPlaces, AuNext, AuTypes
      <4> HIDE DEF Goes_on
      <4>3. au' \in [up : BOOLEAN, open : BOOLEAN, state : {"off", "active", "processing"},
             main : AuPlaces, after : AuNext, rendering : BOOLEAN]
        BY <1>a, <3>2, <4>2 DEF AuTypes, Goes_on
      <4> QED
        BY <1>a, <1>5, <4>3 DEF AuTypes, ActivateEnds
    <3>3. CASE \E reached \in {"off", "active"} : au' = [au EXCEPT !.state = reached, !.main = "closing"]
      BY ZenonT(60), <1>a, <1>5, <3>1, <3>3 DEF AuTypes, AuDoor, AuPlaces, AuNext, MainIs, ActivateEnds
    <3> QED
      BY <1>5, <3>2, <3>3 DEF ActivateEnds
  <2>2. AuDoor'
    <3>1. MainIs("starting") /\ pending.process.there /\ ~ au.rendering
      BY <1>a, <1>5 DEF AuDoor, AuQueues, ActivateEnds, MainIs
    <3>2. CASE au' = [au EXCEPT !.state = "processing", !.open = TRUE,
                         !.up = @ \/ au.after = "initialized",
                         !.main = IF au.after = "initialized" THEN "idle" ELSE au.after,
                         !.after = "none"]
      BY <1>a, <3>1, <3>2 DEF AuTypes, AuDoor, AuPlaces, AuNext, MainIs
    <3>3. CASE \E reached \in {"off", "active"} : au' = [au EXCEPT !.state = reached, !.main = "closing"]
      BY <1>a, <3>1, <3>3 DEF AuTypes, AuDoor, AuPlaces, AuNext, MainIs
    <3> QED
      BY <1>5, <3>2, <3>3 DEF ActivateEnds
  <2>3. AuQueues'
    BY <1>a, <1>5 DEF AuTypes, AuDoor, AuQueues, AuPlaces, AuNext, ActivateEnds, MainIs
  <2> QED
    BY <1>1, <2>1, <2>2, <2>3 DEF AuInv
<1>6. CASE RenderBegins
  <2>1. AuTypes'
    BY <1>a, <1>6, AuAssumption DEF AuTypes, AuDoor, AuPlaces, AuNext, RenderBegins, MainIs
  <2>2. AuDoor'
    BY <1>a, <1>6 DEF AuTypes, AuDoor, AuPlaces, AuNext, RenderBegins, MainIs, LockFree
  <2>3. AuQueues'
    BY <1>a, <1>6 DEF AuTypes, AuDoor, AuQueues, AuPlaces, AuNext, RenderBegins, MainIs
  <2> QED
    BY <1>1, <2>1, <2>2, <2>3 DEF AuInv
<1>7. CASE Request
  <2>1. AuTypes'
    <3>1. PICK x \in {"restart", "process", "flush", "dirty"} : asked' = [asked EXCEPT ![x] = TRUE]
      BY <1>7 DEF Request
    <3>2. asked' \in [flush : BOOLEAN, restart : BOOLEAN, process : BOOLEAN, dirty : BOOLEAN, held : 0..MaxHeld]
      <4>1. CASE x = "restart"
        BY <1>a, <3>1, <4>1 DEF AuTypes
      <4>2. CASE x = "process"
        BY <1>a, <3>1, <4>2 DEF AuTypes
      <4>3. CASE x = "flush"
        BY <1>a, <3>1, <4>3 DEF AuTypes
      <4>4. CASE x = "dirty"
        BY <1>a, <3>1, <4>4 DEF AuTypes
      <4> QED
        BY <4>1, <4>2, <4>3, <4>4
    <3> QED
      BY <1>a, <1>7, <3>2 DEF AuTypes, Request
  <2>2. AuDoor'
    BY <1>a, <1>7 DEF AuTypes, AuDoor, AuPlaces, AuNext, Request, MainIs, LockFree
  <2>3. AuQueues'
    BY <1>a, <1>7 DEF AuTypes, AuDoor, AuQueues, AuPlaces, AuNext, Request, MainIs
  <2> QED
    BY <1>1, <2>1, <2>2, <2>3 DEF AuInv
<1>8. CASE Idle
  <2>1. AuTypes'
    <3> DEFINE Later == [asked EXCEPT !.held = IF @ < MaxHeld THEN @ + 1 ELSE @]
               Said == [asked EXCEPT !.dirty = FALSE, !.held = 0]
               Noticed == IF ~ asked.dirty THEN [asked EXCEPT !.held = 0]
                          ELSE IF DirtyHeld THEN Later ELSE Said
               Asking == [flush : BOOLEAN, restart : BOOLEAN, process : BOOLEAN, dirty : BOOLEAN, held : 0..MaxHeld]
    <3>1. asked \in Asking /\ asked.held \in 0..MaxHeld
      BY <1>a DEF AuTypes
    <3>2. Said \in Asking /\ [asked EXCEPT !.held = 0] \in Asking
      <4>1. 0 \in 0..MaxHeld
        BY AuAssumption
      <4>2. Said \in Asking
        BY <3>1, <4>1
      <4> QED
        BY <3>1, <4>1, <4>2
    <3>7. Later \in Asking
      <4>1. CASE asked.held < MaxHeld
        <5>1. asked.held + 1 \in 0..MaxHeld /\ Later = [asked EXCEPT !.held = asked.held + 1]
          BY <3>1, <4>1, AuAssumption
        <5> QED
          BY <3>1, <5>1
      <4>2. CASE ~ (asked.held < MaxHeld)
        BY <3>1, <4>2
      <4> QED
        BY <4>1, <4>2
    <3>3. Noticed \in Asking
      BY <3>2, <3>7
    <3>4. asked' = [Noticed EXCEPT !.restart = FALSE]
      BY <1>8 DEF Idle
    <3> HIDE DEF Noticed
    <3>5. asked' \in Asking
      BY <3>3, <3>4
    <3>6. au' \in [up : BOOLEAN, open : BOOLEAN, state : {"off", "active", "processing"},
             main : AuPlaces, after : AuNext, rendering : BOOLEAN]
      BY <1>a, <1>8 DEF AuTypes, AuPlaces, AuNext, Idle
    <3> QED
      BY <1>a, <1>8, <3>5, <3>6 DEF AuTypes, Idle
  <2>2. AuDoor'
    BY <1>a, <1>8 DEF AuTypes, AuDoor, AuPlaces, AuNext, Idle, MainIs, LockFree
  <2>3. AuQueues'
    BY <1>a, <1>8 DEF AuTypes, AuDoor, AuQueues, AuPlaces, AuNext, Idle, MainIs
  <2> QED
    BY <1>1, <2>1, <2>2, <2>3 DEF AuInv
<1>9. CASE ServeProcess
  <2>1. AuTypes'
    BY <1>a, <1>9, AuAssumption DEF AuTypes, AuDoor, AuPlaces, AuNext, ServeProcess, MainIs
  <2>2. AuDoor'
    BY <1>a, <1>9 DEF AuTypes, AuDoor, AuPlaces, AuNext, ServeProcess, MainIs, LockFree
  <2>3. AuQueues'
    BY <1>a, <1>9 DEF AuTypes, AuDoor, AuQueues, AuPlaces, AuNext, ServeProcess, MainIs
  <2> QED
    BY <1>1, <2>1, <2>2, <2>3 DEF AuInv
<1> QED
  BY <1>2, <1>3, <1>4, <1>5, <1>6, <1>7, <1>8, <1>9

-----------------------------------------------------------------------------
\* All edits have offset 0, so the last one sorted is the last one queued.
LEMMA LastIs ==
  ASSUME NEW q \in Seq(AuEdits), q # <<>>
  PROVE  LastOf(q) = q[Len(q)] /\ q[Len(q)] \in AuEdits /\ Len(q) \in DOMAIN q
<1> DEFINE IsLast(i) == \A j \in DOMAIN q :
                \/ q[j].time < q[i].time
                \/ q[j].time = q[i].time /\ j <= i
<1>1. Len(q) \in Nat \ {0} /\ DOMAIN q = 1..Len(q)
  BY EmptySeq, LenProperties
<1>2. \A i \in DOMAIN q : q[i] \in AuEdits
  BY <1>1, ElementOfSeq
<1>3. \A i \in DOMAIN q : q[i].time = 0
  BY <1>2 DEF AuEdits
<1>4. Len(q) \in DOMAIN q /\ IsLast(Len(q))
  BY <1>1, <1>3
<1>5. \A i \in DOMAIN q : IsLast(i) => i = Len(q)
  BY <1>1, <1>3, <1>4
<1>6. (CHOOSE i \in DOMAIN q : IsLast(i)) = Len(q)
  <2> HIDE DEF IsLast
  <2> QED
    BY <1>4, <1>5
<1> QED
  BY <1>2, <1>4, <1>6 DEF LastOf

\* What the plugin says of gestures on an adapter keeps that adapter's edits and the account
\* of both adapters.
LEMMA SaysKept ==
  ASSUME NEW a \in AuAdapters, NEW g \in Nat, clap.open \in Nat, clap.gesture \in BOOLEAN,
         a.gestures + g <= clap.open, NEW said \in Says(a)
  PROVE  /\ said.adapter \in AuAdapters
         /\ said.adapter.events = a.events /\ said.adapter.there = a.there
         /\ said.adapter.recall = a.recall /\ said.adapter.before = a.before
         /\ said.gesture \in BOOLEAN /\ said.open \in Nat
         /\ said.adapter.gestures + g <= said.open
<1>1. a.gestures \in Nat
  BY DEF AuAdapters
<1>2. CASE said = [adapter |-> a, gesture |-> clap.gesture, open |-> clap.open]
  BY <1>1, <1>2
<1>3. CASE said = [adapter |-> [a EXCEPT !.gestures = 0], gesture |-> FALSE,
                   open |-> IF a.gestures > 0 THEN clap.open - 1 ELSE clap.open]
  BY SMTT(30), <1>1, <1>3 DEF AuAdapters
<1>4. CASE said = [adapter |-> [a EXCEPT !.gestures = @ + 1], gesture |-> TRUE, open |-> clap.open + 1]
  BY SMTT(30), <1>1, <1>4 DEF AuAdapters
<1> QED
  BY <1>2, <1>3, <1>4 DEF Says

\* An adapter that is not there, and one that was just made.
LEMMA NewFits ==
  /\ NoAdapter \in AuAdapters /\ NewAdapter \in AuAdapters
  /\ NoAdapter = [there |-> FALSE, events |-> <<>>, gestures |-> 0, recall |-> FALSE, before |-> 0]
  /\ NewAdapter = [there |-> TRUE, events |-> <<>>, gestures |-> 0, recall |-> FALSE, before |-> 0]
<1>1. NoAdapter = [there |-> FALSE, events |-> <<>>, gestures |-> 0, recall |-> FALSE, before |-> 0]
  BY DEF NoAdapter
<1>2. NewAdapter = [there |-> TRUE, events |-> <<>>, gestures |-> 0, recall |-> FALSE, before |-> 0]
  <2> DEFINE none == [there |-> FALSE, events |-> <<>>, gestures |-> 0, recall |-> FALSE, before |-> 0]
  <2>1. NewAdapter = [none EXCEPT !.there = TRUE]
    BY <1>1 DEF NewAdapter
  <2> QED
    BY <2>1
<1> QED
  BY <1>1, <1>2 DEF AuAdapters

\* The flush adapter, made where there was none.
LEMMA Ensured ==
  ASSUME AuTypes, AuQueues, AuGestures
  PROVE  /\ EnsuredFlush \in AuAdapters /\ ~ EnsuredFlush.recall
         /\ EnsuredFlush.events = pending.flush.events /\ EnsuredFlush.there
         /\ EnsuredFlush.gestures \in Nat
         /\ pending.process.gestures + EnsuredFlush.gestures <= clap.open
<1>1. pending.process \in AuAdapters /\ pending.flush \in AuAdapters /\ clap.open \in Nat
  BY DEF AuTypes
<1>2. pending.process.gestures \in Nat /\ pending.flush.gestures \in Nat
  BY <1>1 DEF AuAdapters
<1> QED
  BY <1>1, <1>2, NewFits DEF EnsuredFlush, AuQueues, AuGestures

AuValueSet == AuValues \cup {SavedValue}

\* What reaches the plugin of an adapter's edits.
LEMMA Reached ==
  ASSUME NEW a \in AuAdapters, NEW v \in AuValueSet
  PROVE  /\ AfterDelivery(a) \in AuAdapters /\ AfterDelivery(a).gestures = a.gestures
         /\ AfterDelivery(a).recall = a.recall /\ AfterDelivery(a).there = a.there
         /\ AfterDelivery(a).before = a.before
         /\ AfterDelivery(a).events = IF a.recall THEN a.events ELSE <<>>
         /\ Reaches(a, v) \in AuValueSet
         /\ Reaches(a, v) = IF a.recall THEN v ELSE Winner(a.events, v)
<1>1. a.events \in Seq(AuEdits) /\ <<>> \in Seq(AuEdits)
  BY DEF AuAdapters
<1>2. AfterDelivery(a) \in AuAdapters /\ AfterDelivery(a).gestures = a.gestures
         /\ AfterDelivery(a).recall = a.recall /\ AfterDelivery(a).there = a.there
         /\ AfterDelivery(a).before = a.before
         /\ AfterDelivery(a).events = IF a.recall THEN a.events ELSE <<>>
  BY <1>1 DEF AfterDelivery, AuAdapters
<1>3. CASE a.recall \/ a.events = <<>>
  BY <1>2, <1>3 DEF Reaches, Winner
<1>4. CASE ~ (a.recall \/ a.events = <<>>)
  <2>1. LastOf(a.events) = a.events[Len(a.events)] /\ a.events[Len(a.events)] \in AuEdits
    BY <1>1, <1>4, LastIs
  <2>2. Reaches(a, v) = a.events[Len(a.events)].value
    BY <1>4, <2>1 DEF Reaches
  <2>3. a.events[Len(a.events)].value \in AuValues
    BY <2>1 DEF AuEdits
  <2> QED
    BY <1>2, <1>4, <2>2, <2>3 DEF AuValueSet, Winner
<1> QED
  BY <1>3, <1>4

\* One round trip keeps what the adapters say, and the plugin is left with the value to win.
LEMMA ExchangeKept ==
  ASSUME AuTypes, AuQueues, AuWinner, AuGestures, inForce' = inForce,
         NEW w \in {"process", "flush"}, NEW a \in AuAdapters,
         w = "process" => a = pending.process /\ pending.process.there,
         w = "flush" => a = EnsuredFlush,
         Exchange(w, a)
  PROVE  /\ pending' \in [process : AuAdapters, flush : AuAdapters]
         /\ clap' \in [value : AuValueSet, gesture : BOOLEAN, open : Nat]
         /\ pending'.process.there = pending.process.there
         /\ pending'.process.recall = pending.process.recall
         /\ (au'.main = "loading" <=> au.main = "loading") => AuQueues'
         /\ AuWinner' /\ AuGestures'
<1>1. pending \in [process : AuAdapters, flush : AuAdapters] /\ clap.open \in Nat
      /\ clap.gesture \in BOOLEAN /\ clap.value \in AuValueSet
  BY DEF AuTypes, AuValueSet
<1>2. /\ EnsuredFlush \in AuAdapters /\ ~ EnsuredFlush.recall
      /\ EnsuredFlush.events = pending.flush.events /\ EnsuredFlush.there
      /\ pending.process.gestures + EnsuredFlush.gestures <= clap.open
  BY Ensured
<1>3. PICK said \in Says(AfterDelivery(a)) :
         /\ pending' = [pending EXCEPT ![w] = said.adapter]
         /\ clap' = [value |-> Reaches(a, clap.value), gesture |-> said.gesture, open |-> said.open]
  BY DEF Exchange
<1> DEFINE d == AfterDelivery(a)
<1>4. /\ d \in AuAdapters /\ d.gestures = a.gestures /\ d.recall = a.recall /\ d.there = a.there
      /\ d.before = a.before /\ d.events = IF a.recall THEN a.events ELSE <<>>
      /\ Reaches(a, clap.value) \in AuValueSet
      /\ Reaches(a, clap.value) = IF a.recall THEN clap.value ELSE Winner(a.events, clap.value)
  BY <1>1, Reached
<1> HIDE DEF d
<1>5. CASE w = "process"
  <2>1. a = pending.process /\ a.there /\ pending.flush.events = <<>>
    BY <1>5 DEF AuQueues
  <2>2. pending.flush.gestures \in Nat /\ d.gestures + pending.flush.gestures <= clap.open
    BY <1>1, <1>4, <2>1 DEF AuAdapters, AuGestures
  <2>3. /\ said.adapter \in AuAdapters
        /\ said.adapter.events = d.events /\ said.adapter.there = d.there
        /\ said.adapter.recall = d.recall /\ said.adapter.before = d.before
        /\ said.gesture \in BOOLEAN /\ said.open \in Nat
        /\ said.adapter.gestures + pending.flush.gestures <= said.open
    BY <1>1, <1>3, <1>4, <2>2, SaysKept DEF d
  <2>4. pending' = [process |-> said.adapter, flush |-> pending.flush]
    BY <1>1, <1>3, <1>5
  <2>5. pending' \in [process : AuAdapters, flush : AuAdapters]
    BY <1>1, <2>3, <2>4
  <2>6. /\ clap' \in [value : AuValueSet, gesture : BOOLEAN, open : Nat]
        /\ clap'.value = Reaches(a, clap.value) /\ clap'.open = said.open
    BY <1>3, <1>4, <2>3
  <2>7. /\ pending'.process.there = pending.process.there
        /\ pending'.process.recall = pending.process.recall
        /\ pending'.process.events = (IF a.recall THEN a.events ELSE <<>>)
        /\ pending'.process.before = a.before /\ pending'.flush = pending.flush
        /\ pending'.process.gestures = said.adapter.gestures
    BY <1>4, <2>1, <2>3, <2>4
  <2>8. ASSUME au'.main = "loading" <=> au.main = "loading" PROVE AuQueues'
    BY <2>1, <2>7, <2>8 DEF AuQueues
  <2>9. Queued = a.events /\ Queued' = pending'.process.events
    <3>1. a.events \in Seq(AuEdits) /\ pending'.process.events \in Seq(AuEdits)
      BY <1>4, <2>5 DEF AuAdapters
    <3>2. a.events \o <<>> = a.events /\ pending'.process.events \o <<>> = pending'.process.events
      BY <3>1, ConcatEmptySeq
    <3> QED
      BY <2>1, <2>7, <3>2 DEF Queued
  <2>10. AuWinner'
    <3>1. inForce = Winner(a.events, clap.value)
      BY <2>9 DEF AuWinner
    <3>2. CASE a.recall
      BY <1>4, <2>6, <2>7, <2>9, <3>1, <3>2 DEF AuWinner
    <3>3. CASE ~ a.recall
      <4>1. Queued' = <<>> /\ clap'.value = Winner(a.events, clap.value)
        BY <1>4, <2>6, <2>7, <2>9, <3>3
      <4> QED
        BY <3>1, <4>1 DEF AuWinner, Winner
    <3> QED
      BY <3>2, <3>3
  <2>11. AuGestures'
    BY <2>3, <2>6, <2>7 DEF AuGestures
  <2> QED
    BY <2>5, <2>6, <2>7, <2>8, <2>10, <2>11
<1>6. CASE w = "flush"
  <2>1. a = EnsuredFlush /\ ~ a.recall /\ a.events = pending.flush.events /\ a.there
    BY <1>2, <1>6
  <2>2. pending.process.gestures \in Nat /\ d.gestures + pending.process.gestures <= clap.open
    BY <1>1, <1>2, <1>4, <2>1 DEF AuAdapters
  <2>3. /\ said.adapter \in AuAdapters
        /\ said.adapter.events = <<>> /\ said.adapter.there /\ ~ said.adapter.recall
        /\ said.gesture \in BOOLEAN /\ said.open \in Nat
        /\ said.adapter.gestures + pending.process.gestures <= said.open
    <3>1. d.events = <<>> /\ d.there /\ ~ d.recall
      BY <1>4, <2>1
    <3>2. /\ said.adapter \in AuAdapters
          /\ said.adapter.events = d.events /\ said.adapter.there = d.there
          /\ said.adapter.recall = d.recall
          /\ said.gesture \in BOOLEAN /\ said.open \in Nat
          /\ said.adapter.gestures + pending.process.gestures <= said.open
      BY <1>1, <1>3, <1>4, <2>2, SaysKept DEF d
    <3> QED
      BY <3>1, <3>2
  <2>4. pending' = [process |-> pending.process, flush |-> said.adapter]
    BY <1>1, <1>3, <1>6
  <2>5. pending' \in [process : AuAdapters, flush : AuAdapters]
    BY <1>1, <2>3, <2>4
  <2>6. /\ clap' \in [value : AuValueSet, gesture : BOOLEAN, open : Nat]
        /\ clap'.value = Winner(pending.flush.events, clap.value) /\ clap'.open = said.open
    BY <1>3, <1>4, <2>1, <2>3
  <2>7. /\ pending'.process = pending.process
        /\ pending'.flush.events = <<>> /\ ~ pending'.flush.recall /\ pending'.flush.there
        /\ pending'.flush.gestures = said.adapter.gestures
    BY <2>3, <2>4
  <2>8. ASSUME au'.main = "loading" <=> au.main = "loading" PROVE AuQueues'
    BY <2>7, <2>8 DEF AuQueues
  <2>9. pending.process.events \in Seq(AuEdits) /\ pending.flush.events \in Seq(AuEdits)
    BY <1>1 DEF AuAdapters
  <2>10. AuWinner'
    <3>1. CASE pending.flush.events = <<>>
      <4>1. Queued' = Queued /\ clap'.value = clap.value
        BY <2>6, <2>7, <3>1 DEF Queued, Winner
      <4> QED
        BY <4>1 DEF AuWinner
    <3>2. CASE pending.flush.events # <<>>
      <4>1. pending.process.events = <<>>
        BY <3>2 DEF AuQueues
      <4>2. Queued = pending.flush.events /\ Queued' = <<>>
        BY <2>7, <2>9, <4>1, ConcatEmptySeq DEF Queued
      <4> QED
        BY <2>6, <4>2 DEF AuWinner, Winner
    <3> QED
      BY <3>1, <3>2
  <2>11. AuGestures'
    <3>1. said.adapter.gestures \in Nat
      BY <2>3 DEF AuAdapters
    <3> QED
      BY <2>2, <2>3, <2>6, <2>7, <3>1 DEF AuGestures
  <2> QED
    BY <2>5, <2>6, <2>7, <2>8, <2>10, <2>11
<1> QED
  BY <1>5, <1>6

-----------------------------------------------------------------------------
\* Steps on the adapters.
LEMMA AuSet == ASSUME AuInv, AuOffsets \subseteq {0}, SetParameter PROVE AuInv'
<1>a. AuTypes /\ AuDoor /\ AuQueues /\ AuWinner /\ AuGestures
  BY DEF AuInv
<1>1. PICK v \in AuValues, t \in AuOffsets :
       /\ pending' = IF pending.process.there
                     THEN [pending EXCEPT !.process.events = Append(@, [value |-> v, time |-> t, stale |-> FALSE])]
                     ELSE [pending EXCEPT !.flush = [EnsuredFlush EXCEPT
                             !.events = Append(@, [value |-> v, time |-> t, stale |-> FALSE])]]
       /\ inForce' = v
  BY DEF SetParameter
<1> DEFINE e == [value |-> v, time |-> t, stale |-> FALSE]
<1>2. e \in AuEdits /\ e.value = v
  BY DEF AuEdits
<1> HIDE DEF e
<1>3. /\ pending.process \in AuAdapters /\ EnsuredFlush \in AuAdapters /\ ~ EnsuredFlush.recall
      /\ EnsuredFlush.events = pending.flush.events /\ EnsuredFlush.there
      /\ pending.process.gestures + EnsuredFlush.gestures <= clap.open
      /\ pending.flush \in AuAdapters
  BY <1>a, Ensured DEF AuTypes
<1>4. pending.process.events \in Seq(AuEdits) /\ pending.flush.events \in Seq(AuEdits)
  BY <1>3 DEF AuAdapters
<1>5. /\ UNCHANGED <<au, clap>> /\ writes' = writes + 1 /\ asked' = [asked EXCEPT !.flush = TRUE]
      /\ inForce' = e.value /\ inForce' \in AuValueSet
  BY <1>1, <1>2 DEF SetParameter, AuValueSet
<1>6. /\ writes' \in Nat
      /\ asked' \in [flush : BOOLEAN, restart : BOOLEAN, process : BOOLEAN, dirty : BOOLEAN, held : 0..MaxHeld]
  <2>1. writes \in Nat
    BY <1>a DEF AuTypes
  <2>2. writes' \in Nat
    BY <1>5, <2>1
  <2> QED
    BY <1>a, <1>5, <2>2 DEF AuTypes
<1>7. CASE pending.process.there
  <2> DEFINE q == Append(pending.process.events, e)
  <2>1. q \in Seq(AuEdits) /\ q # <<>> /\ Len(q) = Len(pending.process.events) + 1 /\ q[Len(q)] = e
    BY <1>2, <1>4, AppendProperties
  <2> HIDE DEF q
  <2>2. pending' = [process |-> [pending.process EXCEPT !.events = q], flush |-> pending.flush]
    BY <1>a, <1>1, <1>7 DEF AuTypes, q, e
  <2>3. [pending.process EXCEPT !.events = q] \in AuAdapters
    BY <1>3, <2>1 DEF AuAdapters
  <2>4. AuTypes'
    BY <1>a, <1>3, <1>5, <1>6, <2>2, <2>3 DEF AuTypes, AuValueSet
  <2>5. /\ pending'.process.events = q /\ pending'.process.there = pending.process.there
        /\ pending'.process.recall = pending.process.recall
        /\ pending'.process.before = pending.process.before
        /\ pending'.process.gestures = pending.process.gestures
        /\ pending'.flush = pending.flush
    BY <1>3, <2>2 DEF AuAdapters
  <2>6. pending.process.before \in Nat /\ Len(pending.process.events) \in Nat
    BY <1>3, <1>4, LenProperties DEF AuAdapters
  <2>7. AuDoor' /\ AuGestures'
    BY <1>a, <1>5, <2>5 DEF AuDoor, AuGestures
  <2>8. AuQueues'
    BY <1>a, <1>5, <1>7, <2>1, <2>5, <2>6 DEF AuQueues
  <2>9. Queued' = q
    BY <1>a, <1>7, <2>1, <2>5, ConcatEmptySeq DEF Queued, AuQueues
  <2> QED
    BY <1>5, <2>1, <2>4, <2>7, <2>8, <2>9 DEF AuInv, AuWinner, Winner
<1>8. CASE ~ pending.process.there
  <2> DEFINE q == Append(pending.flush.events, e)
  <2>1. q \in Seq(AuEdits) /\ q # <<>> /\ q[Len(q)] = e
    BY <1>2, <1>4, AppendProperties
  <2> HIDE DEF q
  <2>2. pending' = [process |-> pending.process, flush |-> [EnsuredFlush EXCEPT !.events = q]]
    BY <1>a, <1>1, <1>3, <1>8 DEF AuTypes, q, e
  <2>3. [EnsuredFlush EXCEPT !.events = q] \in AuAdapters
    BY <1>3, <2>1 DEF AuAdapters
  <2>4. AuTypes'
    BY <1>a, <1>3, <1>5, <1>6, <2>2, <2>3 DEF AuTypes, AuValueSet
  <2>5. /\ pending'.process = pending.process /\ pending'.flush.events = q
        /\ pending'.flush.there /\ ~ pending'.flush.recall
        /\ pending'.flush.gestures = EnsuredFlush.gestures
    BY <1>3, <2>2 DEF AuAdapters
  <2>7. AuDoor' /\ AuGestures'
    BY <1>a, <1>3, <1>5, <2>5 DEF AuDoor, AuGestures
  <2>8. AuQueues'
    BY <1>a, <1>5, <1>8, <2>5 DEF AuQueues
  <2>9. Queued' = q
    BY <1>a, <1>8, <2>1, <2>5, ConcatEmptySeq DEF Queued, AuQueues
  <2> QED
    BY <1>5, <2>1, <2>4, <2>7, <2>8, <2>9 DEF AuInv, AuWinner, Winner
<1> QED
  BY <1>7, <1>8

\* An edit that already has offset 0 is handed over as it is.
LEMMA HandedOver ==
  ASSUME NEW q \in Seq(AuEdits)
  PROVE  [i \in DOMAIN q |-> [q[i] EXCEPT !.time = 0]] = q
<1>1. q = [i \in DOMAIN q |-> q[i]]
  BY SeqDef
<1>2. \A i \in DOMAIN q : q[i] \in AuEdits
  BY ElementOfSeq, LenProperties
<1>3. \A i \in DOMAIN q : [q[i] EXCEPT !.time = 0] = q[i]
  BY <1>2 DEF AuEdits
<1> QED
  BY <1>1, <1>3

\* What the process adapter held moves to the other one, and stays last in line.
LEMMA AuTakenDown == ASSUME AuInv, DeactivateBegins PROVE AuInv'
<1>a. AuTypes /\ AuDoor /\ AuQueues /\ AuWinner /\ AuGestures
  BY DEF AuInv
<1>1. MainIs("closing") /\ ~ au.rendering /\ UNCHANGED <<clap, writes, inForce>>
      /\ au' = [au EXCEPT !.open = FALSE, !.main = "stopping"]
      /\ asked' = [asked EXCEPT !.flush = @ \/ pending.process.events # <<>>]
  BY DEF DeactivateBegins, DoorClosed, LockFree
<1>2. au' \in [up : BOOLEAN, open : BOOLEAN, state : {"off", "active", "processing"},
             main : AuPlaces, after : AuNext, rendering : BOOLEAN]
  BY <1>a, <1>1 DEF AuTypes, AuPlaces
<1>3. asked' \in [flush : BOOLEAN, restart : BOOLEAN, process : BOOLEAN, dirty : BOOLEAN, held : 0..MaxHeld]
  BY <1>a, <1>1 DEF AuTypes
<1>4. /\ pending.process \in AuAdapters /\ EnsuredFlush \in AuAdapters /\ ~ EnsuredFlush.recall
      /\ EnsuredFlush.events = pending.flush.events /\ EnsuredFlush.there
      /\ pending.process.gestures + EnsuredFlush.gestures <= clap.open
      /\ pending.flush \in AuAdapters /\ EnsuredFlush.gestures \in Nat
  BY <1>a, Ensured DEF AuTypes
<1>5. pending.process.events \in Seq(AuEdits) /\ pending.flush.events \in Seq(AuEdits)
  BY <1>4 DEF AuAdapters
<1> DEFINE f == IF pending.process.there THEN Transferred(pending.process, EnsuredFlush) ELSE EnsuredFlush
<1>6. f \in AuAdapters /\ f.events = Queued /\ ~ f.recall /\ f.there /\ f.gestures = EnsuredFlush.gestures
  <2>1. CASE pending.process.there
    <3>1. EnsuredFlush.events = <<>> /\ pending.flush.events = <<>>
      BY <1>a, <1>4, <2>1 DEF AuQueues
    <3>2. Transferred(pending.process, EnsuredFlush) = [EnsuredFlush EXCEPT !.events = <<>> \o pending.process.events]
      BY <1>5, <3>1, HandedOver DEF Transferred
    <3>3. <<>> \o pending.process.events = pending.process.events /\ Queued = pending.process.events
      BY <1>5, <3>1, ConcatEmptySeq DEF Queued
    <3> QED
      BY <1>4, <1>5, <2>1, <3>2, <3>3 DEF AuAdapters
  <2>2. CASE ~ pending.process.there
    <3>1. Queued = pending.flush.events
      BY <1>a, <1>5, <2>2, ConcatEmptySeq DEF Queued, AuQueues
    <3> QED
      BY <1>4, <2>2, <3>1
  <2> QED
    BY <2>1, <2>2
<1> HIDE DEF f
<1>7. pending' = [process |-> NoAdapter, flush |-> f]
  BY DEF DeactivateBegins, f
<1>8. AuTypes'
  BY <1>a, <1>1, <1>2, <1>3, <1>6, <1>7, NewFits DEF AuTypes
<1>9. /\ pending'.process.events = <<>> /\ ~ pending'.process.there /\ ~ pending'.process.recall
      /\ pending'.process.gestures = 0 /\ pending'.flush = f
  BY <1>7, NewFits
<1>10. /\ au'.main = "stopping" /\ ~ au'.open /\ ~ au'.rendering /\ au'.after = au.after /\ au'.up = au.up
  BY <1>a, <1>1 DEF AuTypes
<1>11. AuDoor' /\ AuQueues'
  BY <1>a, <1>1, <1>6, <1>9, <1>10 DEF AuDoor, AuQueues, MainIs
<1>12. AuGestures'
  <2>1. pending.process.gestures \in Nat /\ clap.open \in Nat
    BY <1>a, <1>4 DEF AuTypes, AuAdapters
  <2>2. 0 + EnsuredFlush.gestures <= clap.open
    BY <1>4, <2>1
  <2> QED
    BY <1>1, <1>6, <1>9, <2>2 DEF AuGestures
<1>13. Queued' = Queued
  <2>1. f.events \in Seq(AuEdits)
    BY <1>6 DEF AuAdapters
  <2> QED
    BY <1>6, <1>9, <2>1, ConcatEmptySeq DEF Queued
<1>14. AuWinner'
  BY <1>a, <1>1, <1>13 DEF AuWinner
<1> QED
  BY <1>8, <1>11, <1>12, <1>14 DEF AuInv

\* What was set meanwhile is delivered before the plugin is active.
LEMMA AuTakenUp == ASSUME AuInv, ActivateBegins PROVE AuInv'
<1>a. AuTypes /\ AuDoor /\ AuQueues /\ AuWinner /\ AuGestures
  BY DEF AuInv
<1>1. MainIs("activating") /\ ~ au.rendering /\ UNCHANGED <<asked, writes, inForce>>
  BY DEF ActivateBegins, LockFree
<1>2. ~ au.open /\ au.after \in {"initialized", "serve", "flush"}
  BY <1>a, <1>1 DEF AuDoor, MainIs
<1>3. /\ pending.process \in AuAdapters /\ pending.flush \in AuAdapters /\ ~ pending.flush.recall
      /\ ~ pending.process.recall
      /\ pending.flush.gestures \in Nat /\ pending.process.gestures \in Nat
      /\ clap.open \in Nat /\ clap.gesture \in BOOLEAN /\ clap.value \in AuValueSet
      /\ 0 + pending.flush.gestures <= clap.open
  <2>1. /\ pending.process \in AuAdapters /\ pending.flush \in AuAdapters
        /\ clap.open \in Nat /\ clap.gesture \in BOOLEAN /\ clap.value \in AuValueSet
    BY <1>a DEF AuTypes, AuValueSet
  <2>2. pending.flush.gestures \in Nat /\ pending.process.gestures \in Nat
    BY <2>1 DEF AuAdapters
  <2>3. ~ pending.flush.recall /\ ~ pending.process.recall
    BY <1>a, <1>1 DEF AuQueues, MainIs
  <2> QED
    BY <1>a, <2>1, <2>2, <2>3 DEF AuGestures
<1>4. pending.process.events \in Seq(AuEdits) /\ pending.flush.events \in Seq(AuEdits)
  BY <1>3 DEF AuAdapters
<1>5. CASE /\ au' = [au EXCEPT !.main = IF au.after = "initialized" THEN "idle" ELSE au.after,
                               !.after = "none"]
           /\ UNCHANGED <<pending, clap>>
  <2> DEFINE to == IF au.after = "initialized" THEN "idle" ELSE au.after
  <2>1. to \in {"idle", "serve", "flush"}
    BY <1>2
  <2> HIDE DEF to
  <2>2. au' = [au EXCEPT !.main = to, !.after = "none"]
    BY <1>5 DEF to
  <2>3. au' \in [up : BOOLEAN, open : BOOLEAN, state : {"off", "active", "processing"},
             main : AuPlaces, after : AuNext, rendering : BOOLEAN]
        /\ au'.main = to /\ au'.open = au.open /\ au'.rendering = au.rendering
    BY <1>a, <2>1, <2>2 DEF AuTypes, AuPlaces, AuNext
  <2>4. AuTypes'
    BY <1>a, <1>1, <1>5, <2>3 DEF AuTypes
  <2>5. AuDoor' /\ AuQueues'
    BY <1>a, <1>1, <1>2, <1>5, <2>1, <2>3 DEF AuDoor, AuQueues, MainIs
  <2>6. AuWinner' /\ AuGestures'
    BY <1>a, <1>1, <1>5 DEF AuWinner, AuGestures, Queued
  <2> QED
    BY <2>4, <2>5, <2>6 DEF AuInv
<1>6. CASE /\ au' = [au EXCEPT !.main = "starting"]
           /\ IF pending.flush.there
              THEN \E said \in Says(AfterDelivery(pending.flush)) :
                     /\ pending' = [process |-> NewAdapter, flush |-> NoAdapter]
                     /\ clap' = [value |-> Reaches(pending.flush, clap.value),
                                 gesture |-> said.gesture, open |-> said.open]
              ELSE pending' = [process |-> NewAdapter, flush |-> NoAdapter] /\ UNCHANGED clap
  <2>1. pending' = [process |-> NewAdapter, flush |-> NoAdapter]
    BY <1>6
  <2>2. /\ pending' \in [process : AuAdapters, flush : AuAdapters]
        /\ pending'.process.there /\ pending'.process.events = <<>> /\ ~ pending'.process.recall
        /\ ~ pending'.flush.recall /\ pending'.flush.events = <<>>
        /\ pending'.process.gestures = 0 /\ pending'.flush.gestures = 0
    BY <2>1, NewFits
  <2>3. /\ clap' \in [value : AuValueSet, gesture : BOOLEAN, open : Nat]
        /\ clap'.value = Winner(pending.flush.events, clap.value)
    <3>1. CASE pending.flush.there
      <4>1. PICK said \in Says(AfterDelivery(pending.flush)) :
              clap' = [value |-> Reaches(pending.flush, clap.value),
                       gesture |-> said.gesture, open |-> said.open]
        BY <1>6, <3>1
      <4> DEFINE d == AfterDelivery(pending.flush)
      <4>2. /\ d \in AuAdapters /\ d.gestures = pending.flush.gestures
            /\ Reaches(pending.flush, clap.value) \in AuValueSet
            /\ Reaches(pending.flush, clap.value) = Winner(pending.flush.events, clap.value)
        BY <1>3, Reached
      <4> HIDE DEF d
      <4>3. d.gestures + 0 <= clap.open
        BY <1>3, <4>2
      <4>4. said.gesture \in BOOLEAN /\ said.open \in Nat
        BY <1>3, <4>1, <4>2, <4>3, SaysKept DEF d
      <4> QED
        BY <4>1, <4>2, <4>4
    <3>2. CASE ~ pending.flush.there
      BY <1>a, <1>6, <3>2 DEF AuTypes, AuQueues, Winner, AuValueSet
    <3> QED
      BY <3>1, <3>2
  <2>4. /\ au' \in [up : BOOLEAN, open : BOOLEAN, state : {"off", "active", "processing"},
             main : AuPlaces, after : AuNext, rendering : BOOLEAN]
        /\ au'.main = "starting" /\ ~ au'.open /\ ~ au'.rendering /\ au'.after = au.after /\ au'.up = au.up
    BY <1>a, <1>1, <1>2, <1>6 DEF AuTypes, AuPlaces
  <2>5. AuTypes'
    BY <1>a, <1>1, <2>2, <2>3, <2>4 DEF AuTypes, AuValueSet
  <2>6. AuDoor' /\ AuQueues'
    BY <1>a, <1>1, <1>2, <2>2, <2>4 DEF AuDoor, AuQueues, MainIs
  <2>7. Queued' = <<>>
    BY <2>2 DEF Queued
  <2>8. inForce = Winner(pending.flush.events, clap.value)
    <3>1. ~ pending.process.there
      BY <1>a, <1>1, <1>2 DEF AuDoor, MainIs
    <3> QED
      BY <1>a, <1>4, <3>1, ConcatEmptySeq DEF AuWinner, AuQueues, Queued
  <2>9. AuWinner'
    BY <1>1, <2>3, <2>7, <2>8 DEF AuWinner, Winner
  <2>10. AuGestures'
    BY <2>2, <2>3 DEF AuGestures
  <2> QED
    BY <2>5, <2>6, <2>9, <2>10 DEF AuInv
<1> QED
  BY <1>5, <1>6 DEF ActivateBegins

\* What a recall leaves.
LeftOf(q, n) == SubSeq(Marked(q, n), n + 1, Len(Marked(q, n)))

\* The places after the first x of N.
LEMMA RestIs ==
  ASSUME NEW N \in Nat, NEW x \in 0..N
  PROVE  /\ (IF x < N THEN N - x ELSE 0) = 0 <=> ~ (x < N)
         /\ \A k \in Nat : k = (IF x < N THEN N - x ELSE 0) =>
               \A i \in 1..k : x + i \in 1..N /\ x < x + i /\ x + 1 + i - 1 = x + i
<1>1. CASE x < N
  BY <1>1
<1>2. CASE ~ (x < N)
  BY <1>2
<1> QED
  BY <1>1, <1>2

\* A recall leaves the edits from after it began, with the same one last.
LEMMA LeftIs ==
  ASSUME NEW q \in Seq(AuEdits), NEW n \in 0..Len(q)
  PROVE  /\ LeftOf(q, n) \in Seq(AuEdits)
         /\ (LeftOf(q, n) = <<>> <=> ~ (n < Len(q)))
         /\ LeftOf(q, n) # <<>> => LeftOf(q, n)[Len(LeftOf(q, n))] = q[Len(q)] /\ q # <<>>
<1> DEFINE m == Marked(q, n)
           left == LeftOf(q, n)
<1>0. left = SubSeq(m, n + 1, Len(m)) /\ m = Marked(q, n)
  BY DEF LeftOf
<1> HIDE DEF m, left
<1>1. Len(q) \in Nat /\ DOMAIN q = 1..Len(q) /\ \A i \in 1..Len(q) : q[i] \in AuEdits
  BY LenProperties, ElementOfSeq
<1>2. DOMAIN m = 1..Len(q) /\ \A i \in 1..Len(q) : n < i => m[i] = q[i]
  BY <1>0, <1>1 DEF Marked
<1>i. \A k \in Nat : k = (IF n < Len(q) THEN Len(q) - n ELSE 0) =>
        \A i \in 1..k : n + i \in 1..Len(q) /\ n < n + i /\ n + 1 + i - 1 = n + i
  BY <1>1, RestIs
<1> DEFINE All == [value : AuValues, time : {0}, stale : BOOLEAN]
<1>3. \A i \in 1..Len(q) : m[i] \in All
  BY <1>0, <1>1 DEF Marked, AuEdits
<1>4. m = [i \in 1..Len(q) |-> m[i]]
  BY <1>0, <1>1, <1>2 DEF Marked
<1>5. m \in Seq(All) /\ Len(m) = Len(q)
  <2> HIDE DEF All
  <2>1. m \in [1..Len(q) -> All]
    BY <1>3, <1>4
  <2>2. m \in Seq(All)
    <3>1. m \in UNION {[1..k -> All] : k \in Nat}
      BY <1>1, <2>1
    <3> QED
      BY <3>1, SeqDef
  <2> QED
    BY <1>1, <1>2, <2>2, LenProperties
<1> HIDE DEF All
<1>6. /\ Len(left) = (IF n < Len(q) THEN Len(q) - n ELSE 0)
      /\ \A i \in 1..Len(left) : left[i] = q[n + i]
      /\ left \in Seq(All)
  <2>1. n + 1 \in 1..(Len(q) + 1) /\ Len(q) \in 0..Len(q)
    BY <1>1
  <2>2. /\ left \in Seq(All)
        /\ Len(left) = IF n + 1 <= Len(q) THEN Len(q) - (n + 1) + 1 ELSE 0
        /\ \A i \in 1..Len(left) : left[i] = m[n + 1 + i - 1]
    BY <1>0, <1>1, <1>5, <2>1, SubSeqProperties
  <2>3. Len(left) = (IF n < Len(q) THEN Len(q) - n ELSE 0)
    BY <1>1, <2>2
  <2>4. ASSUME NEW i \in 1..Len(left) PROVE left[i] = q[n + i]
    <3>1. n + i \in 1..Len(q) /\ n < n + i /\ n + 1 + i - 1 = n + i
      <4>1. Len(left) \in Nat
        BY <2>2, LenProperties
      <4> QED
        BY <1>i, <2>3, <4>1
    <3> QED
      BY <1>2, <2>2, <3>1
  <2> QED
    BY <2>2, <2>3, <2>4
<1>7. left \in Seq(AuEdits)
  <2>1. Len(left) \in Nat /\ left \in [1..Len(left) -> All]
    BY <1>6, LenProperties
  <2>2. \A i \in 1..Len(left) : n + i \in 1..Len(q)
    BY <1>i, <1>6, <2>1
  <2>3. \A i \in 1..Len(left) : left[i] \in AuEdits
    BY <1>1, <1>6, <2>2
  <2>4. left \in [1..Len(left) -> AuEdits]
    BY <2>1, <2>3
  <2> QED
    <3>1. left \in UNION {[1..k -> AuEdits] : k \in Nat}
      BY <2>1, <2>4
    <3> QED
      BY <3>1, SeqDef
<1>8. left = <<>> <=> Len(left) = 0
  BY <1>7, EmptySeq
<1>9. left = <<>> <=> ~ (n < Len(q))
  <2>1. (IF n < Len(q) THEN Len(q) - n ELSE 0) = 0 <=> ~ (n < Len(q))
    BY <1>1, RestIs
  <2> QED
    BY <1>6, <1>8, <2>1
<1>10. ASSUME left # <<>> PROVE left[Len(left)] = q[Len(q)] /\ q # <<>>
  <2>1. n < Len(q) /\ Len(left) = Len(q) - n
    BY <1>6, <1>9, <1>10
  <2>0. n \in Nat /\ Len(q) \in Nat
    BY <1>1
  <2>2. Len(left) \in 1..Len(left) /\ n + Len(left) = Len(q)
    BY <2>0, <2>1
  <2>3. q # <<>>
    <3>1. Len(q) # 0
      BY <2>0, <2>1
    <3> QED
      BY <3>1, EmptySeq
  <2> QED
    BY <1>6, <2>2, <2>3
<1> QED
  BY <1>7, <1>9, <1>10 DEF left

\* A recall begins on the process adapter: it notes what was queued before.
LEMMA AuRecallBegins == ASSUME AuInv, ~ RecallWhileDown, RestoreBegins PROVE AuInv'
<1>a. AuTypes /\ AuDoor /\ AuQueues /\ AuWinner /\ AuGestures
  BY DEF AuInv
<1>1. /\ MainIs("idle") /\ ~ au.rendering /\ pending.process.there
      /\ pending' = [pending EXCEPT !.process.recall = TRUE, !.process.before = Len(pending.process.events)]
      /\ au' = [au EXCEPT !.main = "loading"]
      /\ UNCHANGED <<asked, clap, writes, inForce>>
  BY DEF RestoreBegins, LockFree
<1>2. pending.process \in AuAdapters /\ pending.flush \in AuAdapters
  BY <1>a DEF AuTypes
<1>3. pending.process.events \in Seq(AuEdits) /\ Len(pending.process.events) \in Nat
  BY <1>2, LenProperties DEF AuAdapters
<1> DEFINE a == [pending.process EXCEPT !.recall = TRUE, !.before = Len(pending.process.events)]
<1>4. /\ a \in AuAdapters /\ a.recall /\ a.before = Len(pending.process.events) /\ a.there
      /\ a.events = pending.process.events /\ a.gestures = pending.process.gestures
  BY <1>1, <1>2, <1>3 DEF AuAdapters
<1> HIDE DEF a
<1>5. pending' = [process |-> a, flush |-> pending.flush]
  BY <1>a, <1>1 DEF AuTypes, a
<1>6. /\ au' \in [up : BOOLEAN, open : BOOLEAN, state : {"off", "active", "processing"},
             main : AuPlaces, after : AuNext, rendering : BOOLEAN]
      /\ au'.main = "loading" /\ au'.open = au.open /\ au'.rendering = au.rendering
      /\ au'.up = au.up /\ au'.state = au.state
  BY <1>a, <1>1 DEF AuTypes, AuPlaces
<1>e. pending'.process = a /\ pending'.flush = pending.flush
  BY <1>5
<1>7. AuTypes'
  <2>1. pending' \in [process : AuAdapters, flush : AuAdapters]
    BY <1>2, <1>4, <1>5
  <2> QED
    BY <1>a, <1>1, <1>6, <2>1 DEF AuTypes
<1>8. AuDoor'
  BY <1>a, <1>1, <1>4, <1>e, <1>6 DEF AuDoor, MainIs
<1>9. AuQueues'
  <2>1. Len(pending.process.events) <= Len(pending.process.events)
    BY <1>3
  <2> QED
    BY <1>a, <1>1, <1>4, <1>e, <1>6, <2>1 DEF AuQueues
<1>10. AuWinner' /\ AuGestures'
  <2>1. Queued' = Queued
    BY <1>4, <1>e DEF Queued
  <2> QED
    BY <1>a, <1>1, <1>4, <1>e, <2>1 DEF AuWinner, AuGestures
<1> QED
  BY <1>7, <1>8, <1>9, <1>10 DEF AuInv

\* A recall that loads wins over all that was queued before it, and one that fails over nothing.
LEMMA AuRecallEnds == ASSUME AuInv, RestoreEnds PROVE AuInv'
<1>a. AuTypes /\ AuDoor /\ AuQueues /\ AuWinner /\ AuGestures
  BY DEF AuInv
<1>1. /\ MainIs("loading") /\ ~ au.rendering
      /\ asked' = [asked EXCEPT !.flush = TRUE] /\ au' = [au EXCEPT !.main = "idle"] /\ UNCHANGED writes
  BY DEF RestoreEnds, LockFree
<1>2. pending.process.there /\ pending.process.recall /\ pending.flush.events = <<>>
      /\ pending.process.before <= Len(pending.process.events)
  BY <1>a, <1>1 DEF AuQueues, MainIs
<1>3. pending.process \in AuAdapters /\ pending.flush \in AuAdapters
  BY <1>a DEF AuTypes
<1> DEFINE q == pending.process.events
           n == pending.process.before
           p == [pending.process EXCEPT !.recall = FALSE, !.before = 0]
           a == [pending.process EXCEPT !.events = Marked(@, pending.process.before)]
           left == LeftByRecall(a)
<1>4. q \in Seq(AuEdits) /\ Len(q) \in Nat /\ n \in 0..Len(q)
  BY <1>2, <1>3, LenProperties DEF AuAdapters
<1>5. a.events = Marked(q, n) /\ a.before = n
  BY <1>3 DEF AuAdapters
<1>6. /\ left \in Seq(AuEdits) /\ (left = <<>> <=> ~ (n < Len(q)))
      /\ left # <<>> => left[Len(left)] = q[Len(q)] /\ q # <<>>
  <2>1. left = LeftOf(q, n)
    BY <1>5 DEF LeftByRecall, LeftOf
  <2> HIDE DEF q, n, left, a
  <2> QED
    BY <1>4, <2>1, LeftIs
<1>7. \/ /\ clap' = [clap EXCEPT !.value = SavedValue]
         /\ pending' = [pending EXCEPT !.process = [p EXCEPT !.events = left]]
         /\ inForce' = IF n < Len(q) THEN inForce ELSE SavedValue
      \/ pending' = [pending EXCEPT !.process = p] /\ UNCHANGED <<clap, inForce>>
  BY <1>2 DEF RestoreEnds
<1>8. /\ au' \in [up : BOOLEAN, open : BOOLEAN, state : {"off", "active", "processing"},
             main : AuPlaces, after : AuNext, rendering : BOOLEAN]
      /\ au'.main = "idle" /\ au'.open = au.open /\ au'.rendering = au.rendering
      /\ au'.up = au.up /\ au'.state = au.state
  BY <1>a, <1>1 DEF AuTypes, AuPlaces
<1>9. asked' \in [flush : BOOLEAN, restart : BOOLEAN, process : BOOLEAN, dirty : BOOLEAN, held : 0..MaxHeld]
      /\ writes' \in Nat
  BY <1>a, <1>1 DEF AuTypes
<1>10. p \in AuAdapters /\ p.events = q /\ p.there /\ ~ p.recall /\ p.gestures = pending.process.gestures
  BY <1>2, <1>3 DEF AuAdapters
<1>11. /\ [p EXCEPT !.events = left] \in AuAdapters /\ [p EXCEPT !.events = left].events = left
       /\ [p EXCEPT !.events = left].there /\ ~ [p EXCEPT !.events = left].recall
       /\ [p EXCEPT !.events = left].gestures = pending.process.gestures
  <2> HIDE DEF p, left
  <2>1. left \in Seq(AuEdits)
    BY <1>6
  <2>2. p \in AuAdapters
    BY <1>10
  <2>3. [p EXCEPT !.events = left] \in AuAdapters
    BY <2>1, <2>2 DEF AuAdapters
  <2> QED
    BY <1>10, <2>2, <2>3 DEF AuAdapters
<1>q. Queued = q
  BY <1>2, <1>4, ConcatEmptySeq DEF Queued
<1> DEFINE r == [p EXCEPT !.events = left]
<1> HIDE DEF p, a, left, r
<1>12. CASE pending' = [pending EXCEPT !.process = p] /\ UNCHANGED <<clap, inForce>>
  <2>1. pending' = [process |-> p, flush |-> pending.flush]
    BY <1>a, <1>12 DEF AuTypes
  <2>2. AuTypes'
    BY <1>a, <1>3, <1>8, <1>9, <1>10, <1>12, <2>1 DEF AuTypes
  <2>3. AuDoor' /\ AuQueues'
    BY <1>a, <1>1, <1>2, <1>8, <1>10, <2>1 DEF AuDoor, AuQueues, MainIs
  <2>4. Queued' = Queued
    BY <1>10, <2>1 DEF Queued
  <2>5. AuWinner' /\ AuGestures'
    BY <1>a, <1>10, <1>12, <2>1, <2>4 DEF AuWinner, AuGestures
  <2> QED
    BY <2>2, <2>3, <2>5 DEF AuInv
<1>13. CASE /\ clap' = [clap EXCEPT !.value = SavedValue]
            /\ pending' = [pending EXCEPT !.process = [p EXCEPT !.events = left]]
            /\ inForce' = IF n < Len(q) THEN inForce ELSE SavedValue
  <2>1. pending' = [process |-> r, flush |-> pending.flush]
    BY <1>a, <1>13 DEF AuTypes, r
  <2>2. r \in AuAdapters /\ r.events = left /\ r.there /\ ~ r.recall /\ r.gestures = pending.process.gestures
    BY <1>11 DEF r
  <2>3. /\ clap' \in [value : AuValueSet, gesture : BOOLEAN, open : Nat]
        /\ clap'.value = SavedValue /\ clap'.open = clap.open
    BY <1>a, <1>13 DEF AuTypes, AuValueSet
  <2>4. inForce' \in AuValueSet
    BY <1>a, <1>13 DEF AuTypes, AuValueSet
  <2>5. AuTypes'
    BY <1>3, <1>8, <1>9, <2>1, <2>2, <2>3, <2>4 DEF AuTypes, AuValueSet
  <2>6. AuDoor' /\ AuQueues'
    BY <1>a, <1>1, <1>2, <1>8, <2>1, <2>2 DEF AuDoor, AuQueues, MainIs
  <2>7. Queued' = left
    <3>1. left \o <<>> = left
      BY <1>6, ConcatEmptySeq
    <3>2. pending'.process.events = left /\ pending'.flush.events = <<>>
      BY <1>2, <2>1, <2>2
    <3> QED
      BY <3>1, <3>2 DEF Queued
  <2>8. AuWinner'
    <3>1. CASE n < Len(q)
      <4>1. left # <<>> /\ left[Len(left)] = q[Len(q)] /\ q # <<>> /\ inForce' = inForce
        BY <1>6, <1>13, <3>1
      <4> QED
        BY <1>a, <1>q, <2>7, <4>1 DEF AuWinner, Winner
    <3>2. CASE ~ (n < Len(q))
      <4>1. left = <<>> /\ inForce' = SavedValue
        BY <1>6, <1>13, <3>2
      <4> QED
        BY <2>3, <2>7, <4>1 DEF AuWinner, Winner
    <3> QED
      BY <3>1, <3>2
  <2>9. AuGestures'
    BY <1>a, <2>1, <2>2, <2>3 DEF AuGestures
  <2> QED
    BY <2>5, <2>6, <2>8, <2>9 DEF AuInv
<1> QED
  BY <1>7, <1>12, <1>13

\* A render exchanges with the process adapter.
LEMMA AuRendered == ASSUME AuInv, RenderEnds PROVE AuInv'
<1>a. AuTypes /\ AuDoor /\ AuQueues /\ AuWinner /\ AuGestures
  BY DEF AuInv
<1>1. /\ au.rendering /\ Exchange("process", pending.process)
      /\ au' = [au EXCEPT !.rendering = FALSE] /\ UNCHANGED <<asked, writes, inForce>>
  BY DEF RenderEnds
<1>2. pending.process.there /\ pending.process \in AuAdapters
  BY <1>a, <1>1 DEF AuDoor, AuTypes
<1>3. /\ au' \in [up : BOOLEAN, open : BOOLEAN, state : {"off", "active", "processing"},
             main : AuPlaces, after : AuNext, rendering : BOOLEAN]
      /\ au'.main = au.main /\ au'.open = au.open /\ ~ au'.rendering
      /\ au'.up = au.up /\ au'.state = au.state /\ au'.after = au.after
  BY <1>a, <1>1 DEF AuTypes
<1>4. /\ pending' \in [process : AuAdapters, flush : AuAdapters]
      /\ clap' \in [value : AuValueSet, gesture : BOOLEAN, open : Nat]
      /\ pending'.process.there = pending.process.there
      /\ pending'.process.recall = pending.process.recall
      /\ AuQueues' /\ AuWinner' /\ AuGestures'
  BY <1>a, <1>1, <1>2, <1>3, ExchangeKept
<1>5. AuTypes'
  BY <1>a, <1>1, <1>3, <1>4 DEF AuTypes, AuValueSet
<1>6. AuDoor'
  BY <1>a, <1>3, <1>4 DEF AuDoor
<1> QED
  BY <1>4, <1>5, <1>6 DEF AuInv

\* A flush exchanges with whichever adapter is there.
LEMMA AuFlushed == ASSUME AuInv, FlushEnds PROVE AuInv'
<1>a. AuTypes /\ AuDoor /\ AuQueues /\ AuWinner /\ AuGestures
  BY DEF AuInv
<1>1. MainIs("flush") /\ au' = [au EXCEPT !.main = "idle"] /\ UNCHANGED <<writes, inForce>>
  BY DEF FlushEnds
<1>2. /\ au' \in [up : BOOLEAN, open : BOOLEAN, state : {"off", "active", "processing"},
             main : AuPlaces, after : AuNext, rendering : BOOLEAN]
      /\ au'.main = "idle" /\ au'.open = au.open /\ au'.rendering = au.rendering
      /\ au'.up = au.up /\ au'.state = au.state /\ (au'.main = "loading" <=> au.main = "loading")
  BY <1>a, <1>1 DEF AuTypes, AuPlaces, MainIs
<1>3. \/ UNCHANGED <<asked, pending, clap>>
      \/ /\ asked' = [asked EXCEPT !.flush = FALSE]
         /\ \/ pending.process.there /\ Exchange("process", pending.process)
            \/ Exchange("flush", EnsuredFlush)
  BY DEF FlushEnds
<1>4. CASE UNCHANGED <<asked, pending, clap>>
  <2>1. AuTypes'
    BY <1>a, <1>1, <1>2, <1>4 DEF AuTypes
  <2>2. AuDoor' /\ AuQueues'
    BY <1>a, <1>1, <1>2, <1>4 DEF AuDoor, AuQueues, MainIs
  <2>3. AuWinner' /\ AuGestures'
    BY <1>a, <1>1, <1>4 DEF AuWinner, AuGestures, Queued
  <2> QED
    BY <2>1, <2>2, <2>3 DEF AuInv
<1>5. CASE /\ asked' = [asked EXCEPT !.flush = FALSE]
           /\ \/ pending.process.there /\ Exchange("process", pending.process)
              \/ Exchange("flush", EnsuredFlush)
  <2>1. pending.process \in AuAdapters /\ EnsuredFlush \in AuAdapters
    BY <1>a, Ensured DEF AuTypes
  <2> DEFINE Kept == /\ pending' \in [process : AuAdapters, flush : AuAdapters]
                     /\ clap' \in [value : AuValueSet, gesture : BOOLEAN, open : Nat]
                     /\ pending'.process.there = pending.process.there
                     /\ AuQueues' /\ AuWinner' /\ AuGestures'
  <2>2. ASSUME pending.process.there, Exchange("process", pending.process) PROVE Kept
    BY <1>a, <1>1, <1>2, <2>1, <2>2, ExchangeKept
  <2>3. ASSUME Exchange("flush", EnsuredFlush) PROVE Kept
    BY <1>a, <1>1, <1>2, <2>1, <2>3, ExchangeKept
  <2>4. Kept
    BY <1>5, <2>2, <2>3
  <2>5. asked' \in [flush : BOOLEAN, restart : BOOLEAN, process : BOOLEAN, dirty : BOOLEAN, held : 0..MaxHeld]
    BY <1>a, <1>5 DEF AuTypes
  <2>6. AuTypes'
    BY <1>a, <1>1, <1>2, <2>4, <2>5 DEF AuTypes, AuValueSet
  <2>7. AuDoor'
    BY <1>a, <1>1, <1>2, <2>4 DEF AuDoor, MainIs
  <2> QED
    BY <2>4, <2>6, <2>7 DEF AuInv
<1> QED
  BY <1>3, <1>4, <1>5

\* Whatever the unit does next, and whatever it does not.
LEMMA AuStep ==
  ASSUME AuInv, AuOffsets \subseteq {0}, ~ RecallWhileDown, AuUnitNext \/ UNCHANGED auVars
  PROVE  AuInv'
<1>1. CASE UNCHANGED auVars
  <2>1. UNCHANGED au /\ UNCHANGED pending /\ UNCHANGED asked /\ UNCHANGED clap
        /\ UNCHANGED writes /\ UNCHANGED inForce
    BY <1>1 DEF auVars
  <2> QED
    BY <2>1 DEF AuInv, AuTypes, AuDoor, AuQueues, AuWinner, AuGestures, Queued
<1>2. CASE Initialize \/ Cleanup \/ DeactivateEnds \/ ActivateEnds \/ RenderBegins \/ Request
           \/ Idle \/ ServeProcess
  <2>1. UNCHANGED <<pending, clap, writes, inForce>>
    BY <1>2 DEF Initialize, Cleanup, DeactivateEnds, ActivateEnds, RenderBegins, Request, Idle, ServeProcess
  <2> QED
    BY <1>2, <2>1, AuQuiet
<1> QED
  BY <1>1, <1>2, AuSet, AuTakenDown, AuTakenUp, AuRecallBegins, AuRecallEnds, AuRendered, AuFlushed
     DEF AuUnitNext

\* What the invariant says of rendering, of edits and of recalls.
LEMMA AuInvSafe == AuInv => AuUnitIsSafe
<1> SUFFICES ASSUME AuInv PROVE AuUnitIsSafe
  OBVIOUS
<1>1. pending.process.events \in Seq(AuEdits) /\ pending.flush.events \in Seq(AuEdits)
  BY DEF AuInv, AuTypes, AuAdapters
<1>2. Queued \in Seq(AuEdits)
  BY <1>1, ConcatProperties DEF Queued
<1>3. RenderOnlyWhileProcessing /\ EditsReachThePlugin
  BY DEF AuInv, AuDoor, AuWinner, Winner, RenderOnlyWhileProcessing, EditsReachThePlugin
<1>4. RecallWins
  <2>1. \A i \in DOMAIN Queued : Queued[i] \in AuEdits
    BY <1>2, ElementOfSeq, LenProperties
  <2> QED
    BY <2>1 DEF RecallWins, AuEdits
<1> QED
  BY <1>3, <1>4 DEF AuUnitIsSafe

(***************************************************************************)
(* The Audio Unit renders into a processing plugin only, each edit of the  *)
(* host reaches it once, and a recall is not undone by edits from before   *)
(* it: whatever its restarts, requests and renders do in between.  The two *)
(* hypotheses are the edges the README shows: ScheduleParameter() at other *)
(* offsets than 0, and a recall while the plugin is down.                  *)
(***************************************************************************)
THEOREM TheUnitIsSafe ==
  ASSUME AuOffsets \subseteq {0}, ~ RecallWhileDown
  PROVE  Spec => []AuUnitIsSafe
<1>1. Init => AuInv
  BY AuInitInv DEF Init
<1>2. AuInv /\ [Next]_partsVars => AuInv'
  <2> SUFFICES ASSUME AuInv, [Next]_partsVars PROVE AuInv'
    OBVIOUS
  <2>1. AuUnitNext \/ UNCHANGED auVars
    BY DEF Next, partsVars, OfIndex, OfThreads, OfUnit, OfAax, OfMidi
  <2> QED
    BY <2>1, AuStep
<1> QED
  BY <1>1, <1>2, AuInvSafe, PTL DEF Spec

-----------------------------------------------------------------------------
(* The preset index: a live listener's instance has not left, and an       *)
(* instance has one token at most.                                         *)
IxPlaces == {"none", "provider", "location", "directory", "append", "sort", "complete",
             "ceiling", "pick", "call", "return", "done"}
IxWrappers == {"before", "holding", "registered", "told", "removing", "removed"}

IxTypes ==
  /\ library \in Libraries /\ disk \in Disks
  /\ "at" \in DOMAIN crawl /\ crawl.at \in IxPlaces
  /\ complete \in BOOLEAN /\ abandon \in BOOLEAN /\ cached \in BOOLEAN
  /\ listeners \in Seq([of : Instances, live : BOOLEAN])
  /\ last \in Nat /\ ceiling \in Nat /\ last <= ceiling /\ ceiling <= Len(listeners)
  /\ inCall \in Instances \cup {NoCall}
  /\ wrapper \in [Instances -> IxWrappers]
  /\ resetting \in {"no", "joining", "done"}

IxTokens ==
  /\ \A n \in 1..Len(listeners) : wrapper[listeners[n].of] \notin {"before", "holding"}
  /\ \A n \in 1..Len(listeners) :
       listeners[n].live => wrapper[listeners[n].of] \in {"registered", "told"}
  /\ \A m, n \in 1..Len(listeners) : listeners[m].of = listeners[n].of => m = n
  /\ \A i \in Instances :
       wrapper[i] \in {"registered", "told"} => \E n \in 1..Len(listeners) : listeners[n].of = i

IxCall ==
  /\ inCall # NoCall => crawl.at \in {"call", "return"} /\ wrapper[inCall] # "removed"
  /\ crawl.at # "none" => cached

IxInv == IxTypes /\ IxTokens /\ IxCall

-----------------------------------------------------------------------------
(* The VST3 wrapper's threads: who is where holds the lock it took.        *)
ThPlaces == {"out", "activating", "deactivating", "entry", "changed", "idle", "lock", "flush",
             "callback", "timers", "process", "start", "stop", "tick", "idled"}
ThTypes ==
  /\ active \in BOOLEAN /\ processing \in BOOLEAN /\ processEverCalled \in BOOLEAN
  /\ attached \in BOOLEAN /\ runLoop \in BOOLEAN /\ parked \in BOOLEAN
  /\ mainThreadLock \in Threads \cup {free} /\ processOrFlushLock \in Threads \cup {free}
  /\ processingLock \in Threads \cup {free} /\ standInLock \in Threads \cup {free}
  /\ requested \subseteq Requests
  /\ at \in [Threads -> ThPlaces]

Idling == {"idle", "lock", "flush", "callback", "timers"}
ThLocks ==
  /\ mainThreadLock = "host" <=> at["host"] \in Idling \cup {"entry"}
  /\ mainThreadLock = "helper" <=> at["helper"] \in Idling
  /\ at["helper"] # "out" => standInLock = "helper" /\ attached
  /\ at["helper"] \in {"out", "tick", "idled"} \cup Idling
  /\ \A t \in {"host", "helper"} :
       /\ processOrFlushLock = t <=> at[t] \in {"lock", "flush"}
       /\ processingLock = t <=> at[t] = "flush"
  /\ processOrFlushLock = "audio" <=> at["audio"] = "process"
  /\ processingLock = "audio" <=> at["audio"] \in {"start", "stop"}
  /\ at["audio"] \in {"out", "process", "start", "stop"}

ThRoles ==
  /\ attached => active
  /\ at["host"] = "activating" => ~ active
  /\ at["host"] = "deactivating" => ~ attached
  /\ \A t \in {"host", "helper"} : at[t] = "flush" => ~ (processing /\ processEverCalled)

ThInv == ThTypes /\ ThLocks /\ ThRoles

-----------------------------------------------------------------------------
(* The standalone's MIDI out: a thread that has ended, or not begun, has   *)
(* left no note on, and the ports change only while there is none.         *)
MdInv ==
  /\ sender \in {"none", "running", "ended"} /\ sentNoteOn \in BOOLEAN
  /\ ports \subseteq OutPorts \cup {Virtual} /\ sounding \subseteq ports
  /\ work \in [do : {"none", "stop", "join", "ports", "start"}, wanted : SUBSET (OutPorts \cup {Virtual})]
  /\ sender # "running" \/ ~ sentNoteOn => sounding = {}
  /\ work.do \in {"ports", "start"} => sender = "none"

-----------------------------------------------------------------------------
\* Nobody is anywhere, and no lock is taken.
LEMMA ThInit == ThreadsInit => ThInv
  BY DEF ThreadsInit, ThInv, ThTypes, ThLocks, ThRoles, ThPlaces, Threads, Requests, free, Idling

\* One case per step of the three threads: the place a thread leaves gives up the lock it had.
LEMMA ThStep == ASSUME ThInv, ThreadsNext PROVE ThInv'
<1>a. ThTypes /\ ThLocks /\ ThRoles
  BY DEF ThInv
<1>1. CASE SetActiveOn
  <2>1. ThTypes'
    <3>1. at' \in [Threads -> ThPlaces]
      BY <1>a, <1>1 DEF ThTypes, ThPlaces, Threads, Goes, SetActiveOn
    <3> QED
      BY <1>a, <1>1, <3>1 DEF ThTypes, flags, locks, Threads, Requests, free, SetActiveOn
  <2>2. ThLocks'
    BY <1>a, <1>1 DEF ThTypes, ThLocks, ThRoles, Idling, Goes, flags, locks, Threads, free, SetActiveOn
  <2>3. ThRoles'
    BY <1>a, <1>1 DEF ThTypes, ThLocks, ThRoles, Idling, Goes, flags, locks, Threads, free, SetActiveOn
  <2> QED
    BY <2>1, <2>2, <2>3 DEF ThInv
<1>2. CASE Attach
  <2>1. ThTypes'
    <3>1. at' \in [Threads -> ThPlaces]
      BY <1>a, <1>2 DEF ThTypes, ThPlaces, Threads, Goes, Attach
    <3> QED
      BY <1>a, <1>2, <3>1 DEF ThTypes, flags, locks, Threads, Requests, free, Attach
  <2>2. ThLocks'
    BY <1>a, <1>2 DEF ThTypes, ThLocks, ThRoles, Idling, Goes, flags, locks, Threads, free, Attach
  <2>3. ThRoles'
    BY <1>a, <1>2 DEF ThTypes, ThLocks, ThRoles, Idling, Goes, flags, locks, Threads, free, Attach
  <2> QED
    BY <2>1, <2>2, <2>3 DEF ThInv
<1>3. CASE Detach
  <2>1. ThTypes'
    <3>1. at' \in [Threads -> ThPlaces]
      BY <1>a, <1>3 DEF ThTypes, ThPlaces, Threads, Goes, Detach, DetachWaits
    <3> QED
      BY <1>a, <1>3, <3>1 DEF ThTypes, flags, locks, Threads, Requests, free, Detach, DetachWaits
  <2>2. ThLocks'
    BY <1>a, <1>3 DEF ThTypes, ThLocks, ThRoles, Idling, Goes, flags, locks, Threads, free, Detach, DetachWaits
  <2>3. ThRoles'
    BY <1>a, <1>3 DEF ThTypes, ThLocks, ThRoles, Idling, Goes, flags, locks, Threads, free, Detach, DetachWaits
  <2> QED
    BY <2>1, <2>2, <2>3 DEF ThInv
<1>4. CASE SetActiveOff
  <2>1. ThTypes'
    <3>1. at' \in [Threads -> ThPlaces]
      BY <1>a, <1>4 DEF ThTypes, ThPlaces, Threads, Goes, SetActiveOff
    <3>2. active' \in BOOLEAN
      BY <1>4 DEF SetActiveOff
    <3> QED
      BY <1>a, <1>4, <3>1, <3>2 DEF ThTypes, flags, locks, Threads, Requests, free, SetActiveOff
  <2>2. ThLocks'
    BY <1>a, <1>4 DEF ThTypes, ThLocks, ThRoles, Idling, Goes, flags, locks, Threads, free, SetActiveOff
  <2>3. ThRoles'
    BY <1>a, <1>4 DEF ThTypes, ThLocks, ThRoles, Idling, Goes, flags, locks, Threads, free, SetActiveOff
  <2> QED
    BY <2>1, <2>2, <2>3 DEF ThInv
<1>5. CASE EnterLocked
  <2>1. ThTypes'
    <3>1. at' \in [Threads -> ThPlaces]
      BY <1>a, <1>5 DEF ThTypes, ThPlaces, Threads, Goes, EnterLocked
    <3> QED
      BY <1>a, <1>5, <3>1 DEF ThTypes, flags, locks, Threads, Requests, free, EnterLocked
  <2>2. ThLocks'
    BY <1>a, <1>5 DEF ThTypes, ThLocks, ThRoles, Idling, Goes, flags, locks, Threads, free, EnterLocked
  <2>3. ThRoles'
    BY <1>a, <1>5 DEF ThTypes, ThLocks, ThRoles, Idling, Goes, flags, locks, Threads, free, EnterLocked
  <2> QED
    BY <2>1, <2>2, <2>3 DEF ThInv
<1>6. CASE LeaveLocked
  <2>1. ThTypes'
    <3>1. at' \in [Threads -> ThPlaces]
      BY <1>a, <1>6 DEF ThTypes, ThPlaces, Threads, Goes, LeaveLocked
    <3> QED
      BY <1>a, <1>6, <3>1 DEF ThTypes, flags, locks, Threads, Requests, free, LeaveLocked
  <2>2. ThLocks'
    BY <1>a, <1>6 DEF ThTypes, ThLocks, ThRoles, Idling, Goes, flags, locks, Threads, free, LeaveLocked
  <2>3. ThRoles'
    BY <1>a, <1>6 DEF ThTypes, ThLocks, ThRoles, Idling, Goes, flags, locks, Threads, free, LeaveLocked
  <2> QED
    BY <2>1, <2>2, <2>3 DEF ThInv
<1>7. CASE AttachTimers
  <2>1. ThTypes'
    <3>1. at' \in [Threads -> ThPlaces]
      BY <1>a, <1>7 DEF ThTypes, ThPlaces, Threads, Goes, AttachTimers
    <3> QED
      BY <1>a, <1>7, <3>1 DEF ThTypes, flags, locks, Threads, Requests, free, AttachTimers
  <2>2. ThLocks'
    BY <1>a, <1>7 DEF ThTypes, ThLocks, ThRoles, Idling, Goes, flags, locks, Threads, free, AttachTimers
  <2>3. ThRoles'
    BY <1>a, <1>7 DEF ThTypes, ThLocks, ThRoles, Idling, Goes, flags, locks, Threads, free, AttachTimers
  <2> QED
    BY <2>1, <2>2, <2>3 DEF ThInv
<1>8. CASE DetachTimers
  <2>1. ThTypes'
    <3>1. at' \in [Threads -> ThPlaces]
      BY <1>a, <1>8 DEF ThTypes, ThPlaces, Threads, Goes, DetachTimers
    <3>2. runLoop' \in BOOLEAN
      BY <1>8 DEF DetachTimers
    <3> QED
      BY <1>a, <1>8, <3>1, <3>2 DEF ThTypes, flags, locks, Threads, Requests, free, DetachTimers
  <2>2. ThLocks'
    BY <1>a, <1>8 DEF ThTypes, ThLocks, ThRoles, Idling, Goes, flags, locks, Threads, free, DetachTimers
  <2>3. ThRoles'
    BY <1>a, <1>8 DEF ThTypes, ThLocks, ThRoles, Idling, Goes, flags, locks, Threads, free, DetachTimers
  <2> QED
    BY <2>1, <2>2, <2>3 DEF ThInv
<1>9. CASE IdleSourceChanged
  <2>1. ThTypes'
    <3>1. at' \in [Threads -> ThPlaces]
      BY <1>a, <1>9 DEF ThTypes, ThPlaces, Threads, Goes, IdleSourceChanged, WaitsOutIdle, Notified
    <3> QED
      BY ZenonT(60), <1>a, <1>9, <3>1 DEF ThTypes, flags, locks, Threads, Requests, free, IdleSourceChanged, WaitsOutIdle, Notified
  <2>2. ThLocks'
    BY <1>a, <1>9 DEF ThTypes, ThLocks, ThRoles, Idling, Goes, flags, locks, Threads, free, IdleSourceChanged, WaitsOutIdle, Notified
  <2>3. ThRoles'
    BY <1>a, <1>9 DEF ThTypes, ThLocks, ThRoles, Idling, Goes, flags, locks, Threads, free, IdleSourceChanged, WaitsOutIdle, Notified
  <2> QED
    BY <2>1, <2>2, <2>3 DEF ThInv
<1>10. CASE RegisterTimer
  <2>1. ThTypes'
    <3>1. at' \in [Threads -> ThPlaces]
      BY <1>a, <1>10 DEF ThTypes, ThPlaces, Threads, Goes, RegisterTimer
    <3> QED
      BY <1>a, <1>10, <3>1 DEF ThTypes, flags, locks, Threads, Requests, free, RegisterTimer
  <2>2. ThLocks'
    BY <1>a, <1>10 DEF ThTypes, ThLocks, ThRoles, Idling, Goes, flags, locks, Threads, free, RegisterTimer
  <2>3. ThRoles'
    BY <1>a, <1>10 DEF ThTypes, ThLocks, ThRoles, Idling, Goes, flags, locks, Threads, free, RegisterTimer
  <2> QED
    BY <2>1, <2>2, <2>3 DEF ThInv
<1>11. CASE UnregisterTimer
  <2>1. ThTypes'
    <3>1. at' \in [Threads -> ThPlaces]
      BY <1>a, <1>11 DEF ThTypes, ThPlaces, Threads, Goes, UnregisterTimer
    <3> QED
      BY <1>a, <1>11, <3>1 DEF ThTypes, flags, locks, Threads, Requests, free, UnregisterTimer
  <2>2. ThLocks'
    BY <1>a, <1>11 DEF ThTypes, ThLocks, ThRoles, Idling, Goes, flags, locks, Threads, free, UnregisterTimer
  <2>3. ThRoles'
    BY <1>a, <1>11 DEF ThTypes, ThLocks, ThRoles, Idling, Goes, flags, locks, Threads, free, UnregisterTimer
  <2> QED
    BY <2>1, <2>2, <2>3 DEF ThInv
<1>12. CASE TimerDue
  <2>1. ThTypes'
    <3>1. at' \in [Threads -> ThPlaces]
      BY <1>a, <1>12 DEF ThTypes, ThPlaces, Threads, Goes, TimerDue
    <3> QED
      BY <1>a, <1>12, <3>1 DEF ThTypes, flags, locks, Threads, Requests, free, TimerDue
  <2>2. ThLocks'
    BY <1>a, <1>12 DEF ThTypes, ThLocks, ThRoles, Idling, Goes, flags, locks, Threads, free, TimerDue
  <2>3. ThRoles'
    BY <1>a, <1>12 DEF ThTypes, ThLocks, ThRoles, Idling, Goes, flags, locks, Threads, free, TimerDue
  <2> QED
    BY <2>1, <2>2, <2>3 DEF ThInv
<1>13. CASE FireTimer
  <2>1. ThTypes'
    <3>1. at' \in [Threads -> ThPlaces]
      BY <1>a, <1>13 DEF ThTypes, ThPlaces, Threads, Goes, FireTimer
    <3> QED
      BY <1>a, <1>13, <3>1 DEF ThTypes, flags, locks, Threads, Requests, free, FireTimer
  <2>2. ThLocks'
    BY <1>a, <1>13 DEF ThTypes, ThLocks, ThRoles, Idling, Goes, flags, locks, Threads, free, FireTimer
  <2>3. ThRoles'
    BY <1>a, <1>13 DEF ThTypes, ThLocks, ThRoles, Idling, Goes, flags, locks, Threads, free, FireTimer
  <2> QED
    BY <2>1, <2>2, <2>3 DEF ThInv
<1>14. CASE EnterProcess
  <2>1. ThTypes'
    <3>1. at' \in [Threads -> ThPlaces]
      BY <1>a, <1>14 DEF ThTypes, ThPlaces, Threads, Goes, EnterProcess
    <3> QED
      BY <1>a, <1>14, <3>1 DEF ThTypes, flags, locks, Threads, Requests, free, EnterProcess
  <2>2. ThLocks'
    BY <1>a, <1>14 DEF ThTypes, ThLocks, ThRoles, Idling, Goes, flags, locks, Threads, free, EnterProcess
  <2>3. ThRoles'
    BY <1>a, <1>14 DEF ThTypes, ThLocks, ThRoles, Idling, Goes, flags, locks, Threads, free, EnterProcess
  <2> QED
    BY <2>1, <2>2, <2>3 DEF ThInv
<1>15. CASE LeaveProcess
  <2>1. ThTypes'
    <3>1. at' \in [Threads -> ThPlaces]
      BY <1>a, <1>15 DEF ThTypes, ThPlaces, Threads, Goes, LeaveProcess
    <3> QED
      BY <1>a, <1>15, <3>1 DEF ThTypes, flags, locks, Threads, Requests, free, LeaveProcess
  <2>2. ThLocks'
    BY <1>a, <1>15 DEF ThTypes, ThLocks, ThRoles, Idling, Goes, flags, locks, Threads, free, LeaveProcess
  <2>3. ThRoles'
    BY <1>a, <1>15 DEF ThTypes, ThLocks, ThRoles, Idling, Goes, flags, locks, Threads, free, LeaveProcess
  <2> QED
    BY <2>1, <2>2, <2>3 DEF ThInv
<1>16. CASE SetProcessing
  <2>1. ThTypes'
    <3>1. at' \in [Threads -> ThPlaces]
      BY <1>a, <1>16 DEF ThTypes, ThPlaces, Threads, Goes, SetProcessing
    <3> QED
      BY ZenonT(60), <1>a, <1>16, <3>1 DEF ThTypes, flags, locks, Threads, Requests, free, SetProcessing
  <2>2. ThLocks'
    BY <1>a, <1>16 DEF ThTypes, ThLocks, ThRoles, Idling, Goes, flags, locks, Threads, free, SetProcessing
  <2>3. ThRoles'
    BY <1>a, <1>16 DEF ThTypes, ThLocks, ThRoles, Idling, Goes, flags, locks, Threads, free, SetProcessing
  <2> QED
    BY <2>1, <2>2, <2>3 DEF ThInv
<1>17. CASE ProcessingStarted
  <2>1. ThTypes'
    <3>1. at' \in [Threads -> ThPlaces]
      BY <1>a, <1>17 DEF ThTypes, ThPlaces, Threads, Goes, ProcessingStarted
    <3> QED
      BY <1>a, <1>17, <3>1 DEF ThTypes, flags, locks, Threads, Requests, free, ProcessingStarted
  <2>2. ThLocks'
    BY <1>a, <1>17 DEF ThTypes, ThLocks, ThRoles, Idling, Goes, flags, locks, Threads, free, ProcessingStarted
  <2>3. ThRoles'
    BY <1>a, <1>17 DEF ThTypes, ThLocks, ThRoles, Idling, Goes, flags, locks, Threads, free, ProcessingStarted
  <2> QED
    BY <2>1, <2>2, <2>3 DEF ThInv
<1>18. CASE Stopped
  <2>1. ThTypes'
    <3>1. at' \in [Threads -> ThPlaces]
      BY <1>a, <1>18 DEF ThTypes, ThPlaces, Threads, Goes, Stopped
    <3> QED
      BY <1>a, <1>18, <3>1 DEF ThTypes, flags, locks, Threads, Requests, free, Stopped
  <2>2. ThLocks'
    BY <1>a, <1>18 DEF ThTypes, ThLocks, ThRoles, Idling, Goes, flags, locks, Threads, free, Stopped
  <2>3. ThRoles'
    BY <1>a, <1>18 DEF ThTypes, ThLocks, ThRoles, Idling, Goes, flags, locks, Threads, free, Stopped
  <2> QED
    BY <2>1, <2>2, <2>3 DEF ThInv
<1>19. CASE Park
  <2>1. ThTypes'
    <3>1. at' \in [Threads -> ThPlaces]
      BY <1>a, <1>19 DEF ThTypes, ThPlaces, Threads, Goes, Park, AnyoneWantsTicking
    <3> QED
      BY <1>a, <1>19, <3>1 DEF ThTypes, flags, locks, Threads, Requests, free, Park, AnyoneWantsTicking
  <2>2. ThLocks'
    BY <1>a, <1>19 DEF ThTypes, ThLocks, ThRoles, Idling, Goes, flags, locks, Threads, free, Park, AnyoneWantsTicking
  <2>3. ThRoles'
    BY <1>a, <1>19 DEF ThTypes, ThLocks, ThRoles, Idling, Goes, flags, locks, Threads, free, Park, AnyoneWantsTicking
  <2> QED
    BY <2>1, <2>2, <2>3 DEF ThInv
<1>20. CASE HelperTick
  <2>1. ThTypes'
    <3>1. at' \in [Threads -> ThPlaces]
      BY <1>a, <1>20 DEF ThTypes, ThPlaces, Threads, Goes, HelperTick, AnyoneWantsTicking
    <3> QED
      BY <1>a, <1>20, <3>1 DEF ThTypes, flags, locks, Threads, Requests, free, HelperTick, AnyoneWantsTicking
  <2>2. ThLocks'
    BY <1>a, <1>20 DEF ThTypes, ThLocks, ThRoles, Idling, Goes, flags, locks, Threads, free, HelperTick, AnyoneWantsTicking
  <2>3. ThRoles'
    BY <1>a, <1>20 DEF ThTypes, ThLocks, ThRoles, Idling, Goes, flags, locks, Threads, free, HelperTick, AnyoneWantsTicking
  <2> QED
    BY <2>1, <2>2, <2>3 DEF ThInv
<1>21. CASE HelperIdle
  <2>1. ThTypes'
    <3>1. at' \in [Threads -> ThPlaces]
      BY <1>a, <1>21 DEF ThTypes, ThPlaces, Threads, Goes, HelperIdle, TryLock
    <3> QED
      BY <1>a, <1>21, <3>1 DEF ThTypes, flags, locks, Threads, Requests, free, HelperIdle, TryLock
  <2>2. ThLocks'
    BY <1>a, <1>21 DEF ThTypes, ThLocks, ThRoles, Idling, Goes, flags, locks, Threads, free, HelperIdle, TryLock
  <2>3. ThRoles'
    BY <1>a, <1>21 DEF ThTypes, ThLocks, ThRoles, Idling, Goes, flags, locks, Threads, free, HelperIdle, TryLock
  <2> QED
    BY <2>1, <2>2, <2>3 DEF ThInv
<1>22. CASE HelperDone
  <2>1. ThTypes'
    <3>1. at' \in [Threads -> ThPlaces]
      BY <1>a, <1>22 DEF ThTypes, ThPlaces, Threads, Goes, HelperDone
    <3> QED
      BY <1>a, <1>22, <3>1 DEF ThTypes, flags, locks, Threads, Requests, free, HelperDone
  <2>2. ThLocks'
    BY <1>a, <1>22 DEF ThTypes, ThLocks, ThRoles, Idling, Goes, flags, locks, Threads, free, HelperDone
  <2>3. ThRoles'
    BY <1>a, <1>22 DEF ThTypes, ThLocks, ThRoles, Idling, Goes, flags, locks, Threads, free, HelperDone
  <2> QED
    BY <2>1, <2>2, <2>3 DEF ThInv
<1>23. CASE RunLoopIdle
  <2>1. ThTypes'
    <3>1. at' \in [Threads -> ThPlaces]
      BY <1>a, <1>23 DEF ThTypes, ThPlaces, Threads, Goes, RunLoopIdle, TryLock
    <3> QED
      BY <1>a, <1>23, <3>1 DEF ThTypes, flags, locks, Threads, Requests, free, RunLoopIdle, TryLock
  <2>2. ThLocks'
    BY <1>a, <1>23 DEF ThTypes, ThLocks, ThRoles, Idling, Goes, flags, locks, Threads, free, RunLoopIdle, TryLock
  <2>3. ThRoles'
    BY <1>a, <1>23 DEF ThTypes, ThLocks, ThRoles, Idling, Goes, flags, locks, Threads, free, RunLoopIdle, TryLock
  <2> QED
    BY <2>1, <2>2, <2>3 DEF ThInv
<1>24. ASSUME NEW r \in Requests, RequestCallback(r) PROVE ThInv'
  BY <1>a, <1>24 DEF ThInv, ThTypes, ThLocks, ThRoles, Idling, Goes, flags, locks, Threads, free, Requests, RequestCallback
<1>25. CASE RequestedFlush("host")
  <2>1. ThTypes'
    <3>1. at' \in [Threads -> ThPlaces]
      BY <1>a, <1>25 DEF ThTypes, ThPlaces, Threads, Goes, RequestedFlush
    <3>2. requested' = requested /\ processOrFlushLock' \in Threads \cup {free}
      BY <1>a, <1>25 DEF ThTypes, Threads, RequestedFlush
    <3>3. UNCHANGED <<active, processing, processEverCalled, attached, runLoop, parked,
                      mainThreadLock, processingLock, standInLock>>
      BY <1>25 DEF RequestedFlush, flags
    <3> QED
      BY <1>a, <3>1, <3>2, <3>3 DEF ThTypes
  <2>2. ThLocks'
    BY <1>a, <1>25 DEF ThTypes, ThLocks, ThRoles, Idling, Goes, flags, locks, Threads, free, RequestedFlush
  <2>3. ThRoles'
    BY <1>a, <1>25 DEF ThTypes, ThLocks, ThRoles, Idling, Goes, flags, locks, Threads, free, RequestedFlush
  <2> QED
    BY <2>1, <2>2, <2>3 DEF ThInv
<1>26. CASE RequestedFlush("helper")
  <2>1. ThTypes'
    <3>1. at' \in [Threads -> ThPlaces]
      BY <1>a, <1>26 DEF ThTypes, ThPlaces, Threads, Goes, RequestedFlush
    <3>2. requested' = requested /\ processOrFlushLock' \in Threads \cup {free}
      BY <1>a, <1>26 DEF ThTypes, Threads, RequestedFlush
    <3>3. UNCHANGED <<active, processing, processEverCalled, attached, runLoop, parked,
                      mainThreadLock, processingLock, standInLock>>
      BY <1>26 DEF RequestedFlush, flags
    <3> QED
      BY <1>a, <3>1, <3>2, <3>3 DEF ThTypes
  <2>2. ThLocks'
    BY <1>a, <1>26 DEF ThTypes, ThLocks, ThRoles, Idling, Goes, flags, locks, Threads, free, RequestedFlush
  <2>3. ThRoles'
    BY <1>a, <1>26 DEF ThTypes, ThLocks, ThRoles, Idling, Goes, flags, locks, Threads, free, RequestedFlush
  <2> QED
    BY <2>1, <2>2, <2>3 DEF ThInv
<1>27. CASE LockProcessing("host")
  <2>1. ThTypes'
    <3>1. at' \in [Threads -> ThPlaces]
      BY <1>a, <1>27 DEF ThTypes, ThPlaces, Threads, Goes, LockProcessing, MayFlush
    <3> QED
      BY <1>a, <1>27, <3>1 DEF ThTypes, flags, locks, Threads, Requests, free, LockProcessing, MayFlush
  <2>2. ThLocks'
    BY <1>a, <1>27 DEF ThTypes, ThLocks, ThRoles, Idling, Goes, flags, locks, Threads, free, LockProcessing, MayFlush
  <2>3. ThRoles'
    BY <1>a, <1>27 DEF ThTypes, ThLocks, ThRoles, Idling, Goes, flags, locks, Threads, free, LockProcessing, MayFlush
  <2> QED
    BY <2>1, <2>2, <2>3 DEF ThInv
<1>28. CASE LockProcessing("helper")
  <2>1. ThTypes'
    <3>1. at' \in [Threads -> ThPlaces]
      BY <1>a, <1>28 DEF ThTypes, ThPlaces, Threads, Goes, LockProcessing, MayFlush
    <3> QED
      BY <1>a, <1>28, <3>1 DEF ThTypes, flags, locks, Threads, Requests, free, LockProcessing, MayFlush
  <2>2. ThLocks'
    BY <1>a, <1>28 DEF ThTypes, ThLocks, ThRoles, Idling, Goes, flags, locks, Threads, free, LockProcessing, MayFlush
  <2>3. ThRoles'
    BY <1>a, <1>28 DEF ThTypes, ThLocks, ThRoles, Idling, Goes, flags, locks, Threads, free, LockProcessing, MayFlush
  <2> QED
    BY <2>1, <2>2, <2>3 DEF ThInv
<1>29. CASE Flushed("host")
  <2>1. ThTypes'
    <3>1. at' \in [Threads -> ThPlaces]
      BY <1>a, <1>29 DEF ThTypes, ThPlaces, Threads, Goes, Flushed
    <3> QED
      BY <1>a, <1>29, <3>1 DEF ThTypes, flags, locks, Threads, Requests, free, Flushed
  <2>2. ThLocks'
    BY <1>a, <1>29 DEF ThTypes, ThLocks, ThRoles, Idling, Goes, flags, locks, Threads, free, Flushed
  <2>3. ThRoles'
    BY <1>a, <1>29 DEF ThTypes, ThLocks, ThRoles, Idling, Goes, flags, locks, Threads, free, Flushed
  <2> QED
    BY <2>1, <2>2, <2>3 DEF ThInv
<1>30. CASE Flushed("helper")
  <2>1. ThTypes'
    <3>1. at' \in [Threads -> ThPlaces]
      BY <1>a, <1>30 DEF ThTypes, ThPlaces, Threads, Goes, Flushed
    <3> QED
      BY <1>a, <1>30, <3>1 DEF ThTypes, flags, locks, Threads, Requests, free, Flushed
  <2>2. ThLocks'
    BY <1>a, <1>30 DEF ThTypes, ThLocks, ThRoles, Idling, Goes, flags, locks, Threads, free, Flushed
  <2>3. ThRoles'
    BY <1>a, <1>30 DEF ThTypes, ThLocks, ThRoles, Idling, Goes, flags, locks, Threads, free, Flushed
  <2> QED
    BY <2>1, <2>2, <2>3 DEF ThInv
<1>31. CASE OnMainThread("host")
  <2>1. ThTypes'
    <3>1. at' \in [Threads -> ThPlaces]
      BY <1>a, <1>31 DEF ThTypes, ThPlaces, Threads, Goes, OnMainThread
    <3> QED
      BY <1>a, <1>31, <3>1 DEF ThTypes, flags, locks, Threads, Requests, free, OnMainThread
  <2>2. ThLocks'
    BY <1>a, <1>31 DEF ThTypes, ThLocks, ThRoles, Idling, Goes, flags, locks, Threads, free, OnMainThread
  <2>3. ThRoles'
    BY <1>a, <1>31 DEF ThTypes, ThLocks, ThRoles, Idling, Goes, flags, locks, Threads, free, OnMainThread
  <2> QED
    BY <2>1, <2>2, <2>3 DEF ThInv
<1>32. CASE OnMainThread("helper")
  <2>1. ThTypes'
    <3>1. at' \in [Threads -> ThPlaces]
      BY <1>a, <1>32 DEF ThTypes, ThPlaces, Threads, Goes, OnMainThread
    <3> QED
      BY <1>a, <1>32, <3>1 DEF ThTypes, flags, locks, Threads, Requests, free, OnMainThread
  <2>2. ThLocks'
    BY <1>a, <1>32 DEF ThTypes, ThLocks, ThRoles, Idling, Goes, flags, locks, Threads, free, OnMainThread
  <2>3. ThRoles'
    BY <1>a, <1>32 DEF ThTypes, ThLocks, ThRoles, Idling, Goes, flags, locks, Threads, free, OnMainThread
  <2> QED
    BY <2>1, <2>2, <2>3 DEF ThInv
<1>33. CASE OnTimers("host")
  <2>1. ThTypes'
    <3>1. at' \in [Threads -> ThPlaces]
      BY <1>a, <1>33 DEF ThTypes, ThPlaces, Threads, Goes, OnTimers
    <3> QED
      BY <1>a, <1>33, <3>1 DEF ThTypes, flags, locks, Threads, Requests, free, OnTimers
  <2>2. ThLocks'
    BY <1>a, <1>33 DEF ThTypes, ThLocks, ThRoles, Idling, Goes, flags, locks, Threads, free, OnTimers
  <2>3. ThRoles'
    BY <1>a, <1>33 DEF ThTypes, ThLocks, ThRoles, Idling, Goes, flags, locks, Threads, free, OnTimers
  <2> QED
    BY <2>1, <2>2, <2>3 DEF ThInv
<1>34. CASE OnTimers("helper")
  <2>1. ThTypes'
    <3>1. at' \in [Threads -> ThPlaces]
      BY <1>a, <1>34 DEF ThTypes, ThPlaces, Threads, Goes, OnTimers
    <3> QED
      BY <1>a, <1>34, <3>1 DEF ThTypes, flags, locks, Threads, Requests, free, OnTimers
  <2>2. ThLocks'
    BY <1>a, <1>34 DEF ThTypes, ThLocks, ThRoles, Idling, Goes, flags, locks, Threads, free, OnTimers
  <2>3. ThRoles'
    BY <1>a, <1>34 DEF ThTypes, ThLocks, ThRoles, Idling, Goes, flags, locks, Threads, free, OnTimers
  <2> QED
    BY <2>1, <2>2, <2>3 DEF ThInv
<1> QED
  BY <1>1, <1>2, <1>3, <1>4, <1>5, <1>6, <1>7, <1>8, <1>9, <1>10, <1>11, <1>12, <1>13, <1>14, <1>15, <1>16, <1>17, <1>18, <1>19, <1>20, <1>21, <1>22, <1>23, <1>24, <1>25, <1>26, <1>27, <1>28, <1>29, <1>30, <1>31, <1>32, <1>33, <1>34
     DEF ThreadsNext, HostStep, HostReturns, Audio, AudioReturns, Helper, OnIdle

\* The steps of the other parts.
LEMMA ThQuiet == ASSUME ThInv, UNCHANGED threadVars PROVE ThInv'
  BY DEF ThInv, ThTypes, ThLocks, ThRoles, threadVars

\* No port is open and no thread is running.
LEMMA MdInit == MidiInit => MdInv
<1> SUFFICES ASSUME MidiInit PROVE MdInv
  OBVIOUS
<1>1. work \in [do : {"none", "stop", "join", "ports", "start"}, wanted : SUBSET (OutPorts \cup {Virtual})]
  BY DEF MidiInit
<1> QED
  BY <1>1 DEF MidiInit, MdInv

\* The sending thread ends with the notes off, and the ports change between two threads.
LEMMA MdStep == ASSUME MdInv, InNext \/ OutNext \/ UNCHANGED midiVars PROVE MdInv'
<1>1. CASE OutputEventPush
  BY <1>1 DEF MdInv, OutputEventPush
<1>2. CASE Pushed
  BY <1>2 DEF MdInv, Pushed
<1>3. CASE SendToAll
  BY <1>3 DEF MdInv, SendToAll
<1>4. CASE MidiOutputLoopEnds
  BY <1>4 DEF MdInv, MidiOutputLoopEnds
<1>5. CASE StopMidiOutputThread
  BY <1>5 DEF MdInv, StopMidiOutputThread
<1>6. CASE JoinMidiOutputThread
  BY <1>6 DEF MdInv, JoinMidiOutputThread, Joinable
<1>7. CASE PortsOpened
  BY <1>7 DEF MdInv, PortsOpened
<1>8. CASE StartMidiOutputThreadIfNeeded
  BY <1>8 DEF MdInv, StartMidiOutputThreadIfNeeded
<1>9. CASE OpenMidiOutputPorts
  BY <1>9 DEF MdInv, OpenMidiOutputPorts
<1>10. CASE SetVirtualMidiOutput
  BY <1>10 DEF MdInv, SetVirtualMidiOutput
<1>11. CASE CloseMidiOutputPorts
  BY <1>11 DEF MdInv, CloseMidiOutputPorts
<1>12. CASE InNext \/ UNCHANGED midiVars
  <2>1. UNCHANGED outVars
    BY <1>12 DEF InNext, ProcessMIDIMessage, BeginBlock, TakeInput, EndBlock, midiVars
  <2> QED
    BY <2>1 DEF MdInv, outVars
<1> QED
  BY <1>1, <1>2, <1>3, <1>4, <1>5, <1>6, <1>7, <1>8, <1>9, <1>10, <1>11, <1>12 DEF OutNext

-----------------------------------------------------------------------------
\* No instance holds the index yet.
LEMMA IxBegins == ASSUME NoCall \notin Instances, IndexInit PROVE IxInv
<1>1. listeners = <<>> /\ Len(listeners) = 0
  BY DEF IndexInit
<1>2. IxTypes
  <2>1. "at" \in DOMAIN crawl /\ crawl.at \in IxPlaces
    BY DEF IndexInit, IndexIdle, IxPlaces
  <2>2. listeners \in Seq([of : Instances, live : BOOLEAN])
    BY <1>1
  <2>3. wrapper \in [Instances -> IxWrappers]
    BY DEF IndexInit, IxWrappers
  <2>4. last \in Nat /\ ceiling \in Nat /\ last <= ceiling /\ ceiling <= Len(listeners)
    BY <1>1 DEF IndexInit
  <2>5. complete \in BOOLEAN /\ abandon \in BOOLEAN /\ cached \in BOOLEAN
    BY DEF IndexInit
  <2> QED
    BY <2>1, <2>2, <2>3, <2>4, <2>5 DEF IxTypes, IndexInit
<1>3. IxTokens
  BY <1>1 DEF IxTokens, IndexInit
<1> QED
  BY <1>2, <1>3 DEF IxInv, IxCall, IndexInit, IndexIdle

\* The crawl until its list is complete.
LEMMA IxCrawls ==
  ASSUME IxInv, inCall' = inCall, UNCHANGED <<library, disk, cached, wrapper, resetting, listeners, abandon>>,
         complete' \in BOOLEAN, "at" \in DOMAIN crawl', crawl'.at \in IxPlaces,
         crawl.at \notin {"none", "call", "return"},
         last' \in Nat, ceiling' \in Nat, last' <= ceiling', ceiling' <= Len(listeners)
  PROVE  IxInv'
  BY DEF IxInv, IxTypes, IxTokens, IxCall

\* The steps of the crawl that are not among its listeners.
LEMMA IxCrawlStep == ASSUME IxInv, CrawlStep \/ CrawlThrows, ~ CallListener, ~ PickListener, ~ EndCall PROVE IxInv'
<1>a. IxTypes
  BY DEF IxInv
<1>b. last \in Nat /\ ceiling \in Nat /\ last <= ceiling /\ ceiling <= Len(listeners) /\ Len(listeners) \in Nat
      /\ complete \in BOOLEAN
  BY <1>a, LenProperties DEF IxTypes
<1> DEFINE Else == UNCHANGED <<library, disk, cached, wrapper, resetting, listeners, abandon, inCall>>
           There == "at" \in DOMAIN crawl' /\ crawl'.at \in IxPlaces
           Bounds == last' \in Nat /\ ceiling' \in Nat /\ last' <= ceiling' /\ ceiling' <= Len(listeners)
<1>1. CASE NextProvider
  <2>1. There
    BY <1>a, <1>1 DEF IxTypes, NextProvider, Crawling, IxPlaces
  <2>2. Else /\ UNCHANGED <<complete, ceiling, last>> /\ crawl.at = "provider"
    BY <1>1 DEF NextProvider, Crawling, fixed
  <2> QED
    BY <1>b, <2>1, <2>2, IxCrawls
<1>2. CASE NextLocation
  <2>1. There
    <3>1. crawl.at = "location"
      BY <1>2 DEF NextLocation, Crawling
    <3>2. ASSUME NEW more PROVE "at" \in DOMAIN Collect(more) /\ Collect(more).at = "location"
      BY <1>a, <3>1 DEF IxTypes, Collect
    <3> DEFINE loc == Locations(Provider)[crawl.l]
               Inside == Collect(GetMetadata(1, 0, Provider.inside))
               OfFile == Collect(GetMetadata(0, loc.path, disk[loc.path].content))
               OfFolder == [crawl EXCEPT !.at = "directory", !.todo = disk[loc.path].files, !.seen = 0]
    <3>3. crawl' \in {[crawl EXCEPT !.at = "append"], Inside, OfFile, OfFolder, Collect(<<>>)}
      <4>1. CASE crawl.l > Len(Locations(Provider)) \/ abandon
        BY <1>2, <4>1 DEF NextLocation
      <4>2. CASE ~ (crawl.l > Len(Locations(Provider)) \/ abandon)
        <5>1. crawl' = CASE loc.kind = 1 -> Inside
                         [] loc.kind = 0 /\ disk[loc.path].is = "file" -> OfFile
                         [] loc.kind = 0 /\ disk[loc.path].is = "directory" -> OfFolder
                         [] OTHER -> Collect(<<>>)
          BY <1>2, <4>2 DEF NextLocation
        <5> HIDE DEF loc, Inside, OfFile, OfFolder
        <5> QED
          BY <5>1
      <4> QED
        BY <4>1, <4>2
    <3>4. ASSUME NEW c \in {[crawl EXCEPT !.at = "append"], OfFolder} PROVE "at" \in DOMAIN c /\ c.at \in IxPlaces
      BY <1>a DEF IxTypes, IxPlaces
    <3>5. ASSUME NEW c \in {Inside, OfFile, Collect(<<>>)} PROVE "at" \in DOMAIN c /\ c.at \in IxPlaces
      BY <3>2 DEF IxPlaces
    <3> QED
      BY <3>3, <3>4, <3>5
  <2>2. Else /\ UNCHANGED <<complete, ceiling, last>> /\ crawl.at = "location"
    BY <1>2 DEF NextLocation, Crawling, fixed
  <2> QED
    BY <1>b, <2>1, <2>2, IxCrawls
<1>3. CASE NextFile
  <2>1. There
    BY <1>a, <1>3 DEF IxTypes, NextFile, Crawling, IxPlaces
  <2>2. Else /\ UNCHANGED <<complete, ceiling, last>> /\ crawl.at = "directory"
    BY <1>3 DEF NextFile, Crawling, fixed
  <2> QED
    BY <1>b, <2>1, <2>2, IxCrawls
<1>4. CASE EndProvider
  <2>1. There
    BY <1>a, <1>4 DEF IxTypes, EndProvider, Crawling, IxPlaces
  <2>2. Else /\ UNCHANGED <<complete, ceiling, last>> /\ crawl.at = "append"
    BY <1>4 DEF EndProvider, Crawling, fixed
  <2> QED
    BY <1>b, <2>1, <2>2, IxCrawls
<1>5. CASE SortPresets
  <2>1. There
    BY <1>a, <1>5 DEF IxTypes, SortPresets, Crawling, IxPlaces
  <2>2. Else /\ UNCHANGED <<complete, ceiling, last>> /\ crawl.at = "sort"
    BY <1>5 DEF SortPresets, Crawling, fixed
  <2> QED
    BY <1>b, <2>1, <2>2, IxCrawls
<1>6. CASE Complete
  <2>1. There
    BY <1>a, <1>6 DEF IxTypes, Complete, Crawling, IxPlaces
  <2>2. Else /\ UNCHANGED <<ceiling, last>> /\ crawl.at = "complete" /\ complete' \in BOOLEAN
    BY <1>6 DEF Complete, Crawling, fixed
  <2> QED
    BY <1>b, <2>1, <2>2, IxCrawls
<1>7. CASE ReadCeiling
  <2>1. There
    BY <1>a, <1>7 DEF IxTypes, ReadCeiling, Crawling, IxPlaces
  <2>2. Else /\ UNCHANGED <<complete, last>> /\ crawl.at = "ceiling" /\ ceiling' = Len(listeners)
    BY <1>7 DEF ReadCeiling, Crawling, fixed
  <2>3. Bounds
    BY <1>b, <2>2
  <2> QED
    BY <1>b, <2>1, <2>2, <2>3, IxCrawls
<1>8. CASE CrawlThrows
  <2>1. There
    BY <1>8 DEF CrawlThrows, IndexIdle, IxPlaces
  <2>2. Else /\ UNCHANGED <<complete, ceiling, last>> /\ crawl.at \in {"provider", "location", "directory"}
    BY <1>8 DEF CrawlThrows, Crawling, fixed
  <2> QED
    BY <1>b, <2>1, <2>2, IxCrawls
<1> QED
  BY <1>1, <1>2, <1>3, <1>4, <1>5, <1>6, <1>7, <1>8 DEF CrawlStep

\* A set of numbers has a smallest one.
LEMMA SmallestIs ==
  ASSUME NEW S \in SUBSET Nat, S # {}
  PROVE  \E k \in S : \A j \in S : k <= j
<1>1. PICK k \in S : \A j \in S : ~ (<<j, k>> \in OpToRel(<, Nat))
  BY NatLessThanWellFounded, WFMin
<1>2. ASSUME NEW j \in S PROVE k <= j
  <2>1. OpToRel(<, Nat) = {p \in Nat \X Nat : p[1] < p[2]}
    BY Zenon DEF OpToRel
  <2>2. ~ (<<j, k>> \in {p \in Nat \X Nat : p[1] < p[2]})
    BY <1>1, <2>1, Zenon
  <2>3. j \in Nat /\ k \in Nat
    OBVIOUS
  <2> QED
    BY <2>2, <2>3
<1> QED
  BY <1>2

\* The crawl among its listeners.
LEMMA IxTells ==
  ASSUME IxInv, NoCall \notin Instances, PickListener \/ CallListener \/ EndCall
  PROVE  IxInv'
<1>a. IxTypes /\ IxTokens /\ IxCall
  BY DEF IxInv
<1>b. /\ last \in Nat /\ ceiling \in Nat /\ last <= ceiling /\ ceiling <= Len(listeners) /\ Len(listeners) \in Nat
      /\ \A n \in 1..Len(listeners) : listeners[n] \in [of : Instances, live : BOOLEAN]
  BY <1>a, LenProperties, ElementOfSeq DEF IxTypes
<1>1. CASE PickListener
  <2> DEFINE due == {n \in 1 .. Len(listeners) : Pickable(n)}
  <2>0. crawl.at = "pick" /\ UNCHANGED <<library, disk, cached, wrapper, resetting, listeners, abandon, complete, ceiling>>
    BY <1>1 DEF PickListener, Crawling, fixed
  <2>1. CASE due = {}
    <3>1. crawl' = [crawl EXCEPT !.at = "done"] /\ UNCHANGED <<last, inCall>>
      BY <1>1, <2>1 DEF PickListener
    <3> QED
      BY <1>a, <2>0, <3>1 DEF IxInv, IxTypes, IxTokens, IxCall, IxPlaces
  <2>2. CASE due # {}
    <3> DEFINE n == CHOOSE k \in due : \A j \in due : k <= j
    <3>1. last' = n /\ inCall' = listeners[n].of /\ crawl' = [crawl EXCEPT !.at = "call"]
      BY <1>1, <2>2 DEF PickListener
    <3>2. \E k \in due : \A j \in due : k <= j
      <4>1. due \subseteq Nat
        OBVIOUS
      <4> HIDE DEF due
      <4> QED
        BY <2>2, <4>1, SmallestIs
    <3>3. n \in due
      <4> HIDE DEF due
      <4> QED
        BY <3>2
    <3> HIDE DEF n
    <3>4. n \in 1..Len(listeners) /\ n <= ceiling /\ listeners[n].live
      BY <3>3 DEF Pickable
    <3>5. listeners[n].of \in Instances /\ wrapper[listeners[n].of] \in {"registered", "told"}
      BY <1>a, <1>b, <3>4 DEF IxTokens
    <3>6. last' \in Nat /\ last' <= ceiling /\ inCall' \in Instances /\ wrapper[inCall'] # "removed"
      BY <1>b, <3>1, <3>4, <3>5
    <3>7. "at" \in DOMAIN crawl' /\ crawl'.at = "call"
      BY <1>a, <3>1 DEF IxTypes
    <3>8. IxTypes'
      BY <1>a, <2>0, <3>6, <3>7 DEF IxTypes, IxPlaces
    <3>9. IxTokens' /\ IxCall'
      BY <1>a, <2>0, <3>6, <3>7 DEF IxTokens, IxCall
    <3> QED
      BY <3>8, <3>9 DEF IxInv
  <2> QED
    BY <2>1, <2>2
<1>2. CASE CallListener
  <2>1. /\ wrapper' = [wrapper EXCEPT ![inCall] = IF @ = "registered" THEN "told" ELSE @]
        /\ crawl' = [crawl EXCEPT !.at = "return"] /\ crawl.at = "call"
        /\ UNCHANGED <<library, disk, complete, abandon, cached, listeners, ceiling, last, inCall, resetting>>
    BY <1>2 DEF CallListener, fixed
  <2>2. /\ wrapper' \in [Instances -> IxWrappers]
        /\ \A i \in Instances : wrapper'[i] = wrapper[i] \/ (wrapper[i] = "registered" /\ wrapper'[i] = "told")
    BY <1>a, <2>1 DEF IxTypes, IxWrappers
  <2>3. "at" \in DOMAIN crawl' /\ crawl'.at = "return"
    BY <1>a, <2>1 DEF IxTypes
  <2>4. IxTypes'
    BY <1>a, <2>1, <2>2, <2>3 DEF IxTypes, IxPlaces
  <2>5. IxTokens'
    BY <1>a, <1>b, <2>1, <2>2 DEF IxTokens
  <2>6. IxCall'
    BY <1>a, <2>1, <2>2, <2>3 DEF IxCall, IxTypes
  <2> QED
    BY <2>4, <2>5, <2>6 DEF IxInv
<1>3. CASE EndCall
  <2>1. /\ crawl' = [crawl EXCEPT !.at = "pick"] /\ inCall' = NoCall /\ crawl.at = "return"
        /\ UNCHANGED <<library, disk, complete, abandon, cached, listeners, ceiling, last, resetting, wrapper>>
    BY <1>3 DEF EndCall, Crawling, fixed
  <2>2. "at" \in DOMAIN crawl' /\ crawl'.at = "pick" /\ cached
    BY <1>a, <2>1 DEF IxTypes, IxCall
  <2>3. IxTypes'
    BY <1>a, <2>1, <2>2 DEF IxTypes, IxPlaces
  <2>4. IxTokens' /\ IxCall'
    BY <1>a, <2>1, <2>2 DEF IxTokens, IxCall
  <2> QED
    BY <2>3, <2>4 DEF IxInv
<1> QED
  BY <1>1, <1>2, <1>3

\* The instances, and the cache.
LEMMA IxInstances ==
  ASSUME IxInv, NoCall \notin Instances, NEW i \in Instances,
         ForPlugin(i) \/ AddCompletionListener(i) \/ TellLate(i) \/ RemovalReturns(i)
           \/ RemoveCompletionListener(i)
  PROVE  IxInv'
<1>a. IxTypes /\ IxTokens /\ IxCall
  BY DEF IxInv
<1> DEFINE L == Len(listeners)
           Entry == [of : Instances, live : BOOLEAN]
<1>b. /\ L \in Nat /\ listeners \in Seq(Entry) /\ DOMAIN listeners = 1..L
      /\ \A n \in 1..L : listeners[n] \in Entry
  BY <1>a, LenProperties, ElementOfSeq DEF IxTypes
<1>c. \A n \in 1..L : listeners[n].of \in Instances /\ listeners[n].live \in BOOLEAN
  BY <1>b
<1>1. CASE ForPlugin(i)
  <2>1. /\ wrapper[i] = "before" /\ wrapper' = [wrapper EXCEPT ![i] = "holding"] /\ cached' = TRUE
        /\ crawl' = IF cached THEN crawl ELSE [IndexIdle EXCEPT !.at = "provider", !.p = 1]
        /\ UNCHANGED <<library, disk, complete, abandon, listeners, ceiling, last, inCall, resetting>>
    BY <1>1 DEF ForPlugin, fixed
  <2>2. wrapper' \in [Instances -> IxWrappers] /\ \A j \in Instances : j # i => wrapper'[j] = wrapper[j]
    BY <1>a, <2>1 DEF IxTypes, IxWrappers
  <2>3. "at" \in DOMAIN crawl' /\ crawl'.at \in IxPlaces
    BY <1>a, <2>1 DEF IxTypes, IxPlaces, IndexIdle
  <2>4. wrapper'[i] = "holding" /\ \A n \in 1..L : listeners[n].of # i
    BY <1>a, <2>1 DEF IxTokens, IxTypes
  <2>5. IxTypes'
    <3>1. cached' \in BOOLEAN
      BY <2>1
    <3> QED
      BY <1>a, <2>1, <2>2, <2>3, <3>1 DEF IxTypes
  <2>6. IxTokens'
    BY <1>a, <1>c, <2>1, <2>2, <2>4 DEF IxTokens
  <2>7. IxCall'
    BY <1>a, <2>1, <2>2, <2>4 DEF IxCall, IxTypes
  <2> QED
    BY <2>5, <2>6, <2>7 DEF IxInv
<1>2. CASE AddCompletionListener(i)
  <2> DEFINE e == [of |-> i, live |-> TRUE]
  <2>1. /\ wrapper[i] = "holding" /\ wrapper' = [wrapper EXCEPT ![i] = "registered"]
        /\ listeners' = Append(listeners, e)
        /\ UNCHANGED <<library, disk, crawl, complete, abandon, cached, ceiling, last, inCall, resetting>>
    BY <1>2 DEF AddCompletionListener, Outside, fixed
  <2>2. /\ wrapper' \in [Instances -> IxWrappers] /\ wrapper'[i] = "registered"
        /\ \A j \in Instances : j # i => wrapper'[j] = wrapper[j]
    BY <1>a, <2>1 DEF IxTypes, IxWrappers
  <2>3. e \in Entry /\ e.of = i
    OBVIOUS
  <2> HIDE DEF e
  <2>4. /\ listeners' \in Seq(Entry) /\ Len(listeners') = L + 1 /\ listeners'[L + 1] = e
        /\ \A n \in 1..L : listeners'[n] = listeners[n]
    BY <1>b, <2>1, <2>3, AppendProperties
  <2>5. \A n \in 1..L : listeners[n].of # i
    BY <1>a, <2>1 DEF IxTokens, IxTypes
  <2>6. \A n \in 1..Len(listeners') : n \in 1..L \/ n = L + 1
    BY <1>b, <2>4
  <2>7. IxTypes'
    <3>1. ceiling <= Len(listeners')
      BY <1>a, <1>b, <2>4 DEF IxTypes
    <3> QED
      BY <1>a, <2>1, <2>2, <2>4, <3>1 DEF IxTypes
  <2>8. IxTokens'
    <3>1. \A n \in 1..Len(listeners') : wrapper'[listeners'[n].of] \notin {"before", "holding"}
      BY <1>a, <1>c, <2>2, <2>3, <2>4, <2>5, <2>6 DEF IxTokens
    <3>2. \A n \in 1..Len(listeners') : listeners'[n].live => wrapper'[listeners'[n].of] \in {"registered", "told"}
      BY <1>a, <1>c, <2>2, <2>3, <2>4, <2>5, <2>6 DEF IxTokens
    <3>3. \A m, n \in 1..Len(listeners') : listeners'[m].of = listeners'[n].of => m = n
      BY <1>a, <2>3, <2>4, <2>5, <2>6 DEF IxTokens
    <3>4. \A j \in Instances :
            wrapper'[j] \in {"registered", "told"} => \E n \in 1..Len(listeners') : listeners'[n].of = j
      <4>1. L + 1 \in 1..Len(listeners') /\ \A n \in 1..L : n \in 1..Len(listeners')
        BY <1>b, <2>4
      <4>2. ASSUME NEW j \in Instances, j # i, wrapper'[j] \in {"registered", "told"}
            PROVE  \E n \in 1..Len(listeners') : listeners'[n].of = j
        <5>1. PICK n \in 1..L : listeners[n].of = j
          BY <1>a, <2>2, <4>2 DEF IxTokens
        <5> QED
          BY <2>4, <4>1, <5>1
      <4> QED
        BY <2>3, <2>4, <4>1, <4>2
    <3> QED
      BY <3>1, <3>2, <3>3, <3>4 DEF IxTokens
  <2>9. IxCall'
    BY <1>a, <2>1, <2>2 DEF IxCall, IxTypes
  <2> QED
    BY <2>7, <2>8, <2>9 DEF IxInv
<1>3. CASE TellLate(i)
  <2>1. /\ wrapper[i] = "registered" /\ wrapper' = [wrapper EXCEPT ![i] = "told"]
        /\ UNCHANGED <<library, disk, crawl, complete, abandon, cached, listeners, ceiling, last, inCall, resetting>>
    BY <1>3 DEF TellLate, Outside, fixed
  <2>2. /\ wrapper' \in [Instances -> IxWrappers] /\ wrapper'[i] = "told"
        /\ \A j \in Instances : j # i => wrapper'[j] = wrapper[j]
    BY <1>a, <2>1 DEF IxTypes, IxWrappers
  <2>3. IxTypes'
    BY <1>a, <2>1, <2>2 DEF IxTypes
  <2>4. IxTokens'
    BY <1>a, <1>c, <2>1, <2>2 DEF IxTokens
  <2>5. IxCall'
    BY <1>a, <2>1, <2>2 DEF IxCall, IxTypes
  <2> QED
    BY <2>3, <2>4, <2>5 DEF IxInv
<1>4. CASE RemovalReturns(i)
  <2>1. /\ wrapper[i] = "removing" /\ inCall # i /\ wrapper' = [wrapper EXCEPT ![i] = "removed"]
        /\ UNCHANGED <<library, disk, crawl, complete, abandon, cached, listeners, ceiling, last, inCall, resetting>>
    BY <1>4 DEF RemovalReturns, MayReturn, Outside, fixed
  <2>2. /\ wrapper' \in [Instances -> IxWrappers] /\ wrapper'[i] = "removed"
        /\ \A j \in Instances : j # i => wrapper'[j] = wrapper[j]
    BY <1>a, <2>1 DEF IxTypes, IxWrappers
  <2>3. IxTypes'
    BY <1>a, <2>1, <2>2 DEF IxTypes
  <2>4. IxTokens'
    BY <1>a, <1>c, <2>1, <2>2 DEF IxTokens
  <2>5. IxCall'
    BY <1>a, <2>1, <2>2 DEF IxCall, IxTypes
  <2> QED
    BY <2>3, <2>4, <2>5 DEF IxInv
<1>5. CASE RemoveCompletionListener(i)
  <2> DEFINE k == Token(i)
  <2>1. /\ wrapper[i] \in {"registered", "told"} /\ wrapper' = [wrapper EXCEPT ![i] = "removing"]
        /\ listeners' = [listeners EXCEPT ![k].live = FALSE]
        /\ UNCHANGED <<library, disk, crawl, complete, abandon, cached, ceiling, last, inCall, resetting>>
    BY <1>5 DEF RemoveCompletionListener, Outside, fixed
  <2>2. /\ wrapper' \in [Instances -> IxWrappers] /\ wrapper'[i] = "removing"
        /\ \A j \in Instances : j # i => wrapper'[j] = wrapper[j]
    BY <1>a, <2>1 DEF IxTypes, IxWrappers
  <2>3. k \in 1..L /\ listeners[k].of = i
    BY <1>a, <2>1 DEF IxTokens, Token
  <2> HIDE DEF k
  <2>4. listeners' = [listeners EXCEPT ![k] = [listeners[k] EXCEPT !.live = FALSE]]
    BY <2>1
  <2> DEFINE e == [listeners[k] EXCEPT !.live = FALSE]
  <2>5. e \in Entry /\ e.of = i /\ e.live = FALSE
    <3>1. listeners[k] \in Entry
      BY <1>b, <2>3
    <3> QED
      BY <2>3, <3>1
  <2> HIDE DEF e
  <2>6. listeners' \in Seq(Entry) /\ Len(listeners') = L
    <3>1. listeners' = [listeners EXCEPT ![k] = e]
      BY <2>4 DEF e
    <3> QED
      BY <1>b, <2>3, <2>5, <3>1, ExceptSeq
  <2>7. listeners'[k] = e /\ \A n \in 1..L : n # k => listeners'[n] = listeners[n]
    BY <1>b, <2>3, <2>4 DEF e
  <2>8. \A n \in 1..L : listeners'[n].of = listeners[n].of
    BY <2>3, <2>5, <2>7
  <2>9. IxTypes'
    BY <1>a, <2>1, <2>2, <2>6 DEF IxTypes
  <2>10. IxTokens'
    <3>1. \A n \in 1..L : wrapper'[listeners'[n].of] \notin {"before", "holding"}
      BY <1>a, <1>c, <2>2, <2>8 DEF IxTokens
    <3>2. \A n \in 1..L : listeners'[n].live => wrapper'[listeners'[n].of] \in {"registered", "told"}
      <4>1. ASSUME NEW n \in 1..L, n # k PROVE listeners'[n] = listeners[n] /\ listeners[n].of # i
        BY <1>a, <2>3, <2>7, <4>1 DEF IxTokens
      <4> QED
        BY <1>a, <1>c, <2>2, <2>5, <2>7, <4>1 DEF IxTokens
    <3>3. \A m, n \in 1..L : listeners'[m].of = listeners'[n].of => m = n
      BY <1>a, <2>8 DEF IxTokens
    <3>4. \A j \in Instances :
            wrapper'[j] \in {"registered", "told"} => \E n \in 1..L : listeners'[n].of = j
      BY <1>a, <2>2, <2>8 DEF IxTokens
    <3> QED
      BY <2>6, <3>1, <3>2, <3>3, <3>4 DEF IxTokens
  <2>11. IxCall'
    BY <1>a, <2>1, <2>2 DEF IxCall, IxTypes
  <2> QED
    BY <2>9, <2>10, <2>11 DEF IxInv
<1> QED
  BY <1>1, <1>2, <1>3, <1>4, <1>5

\* Whatever happens to the index.
LEMMA IxStep ==
  ASSUME IxInv, NoCall \notin Instances, IndexNext \/ UNCHANGED indexVars
  PROVE  IxInv'
<1>1. CASE ResetCache \/ ResetReturns \/ (\E i \in Instances : ReadPresets(i)) \/ UNCHANGED indexVars
  <2>1. /\ UNCHANGED <<library, disk, crawl, complete, cached, listeners, ceiling, last, inCall, wrapper>>
        /\ (abandon' = abandon \/ abandon' = TRUE) /\ (resetting' = resetting \/ resetting' \in {"joining", "done"})
    BY <1>1 DEF ResetCache, ResetReturns, ReadPresets, Outside, fixed, indexVars
  <2>2. abandon' \in BOOLEAN
    BY <2>1 DEF IxInv, IxTypes
  <2> QED
    BY <2>1, <2>2 DEF IxInv, IxTypes, IxTokens, IxCall
<1> QED
  BY <1>1, IxCrawlStep, IxTells, IxInstances DEF IndexNext, CrawlStep

(***************************************************************************)
(* A listener hears nothing once its removal has returned; the VST3        *)
(* wrapper has one main thread at a time, and one thread inside flush();   *)
(* and a MIDI port that is closed holds no note: for any number of         *)
(* instances, libraries, ports and messages.                               *)
(***************************************************************************)
THEOREM RolesKeptApart ==
  ASSUME NoCall \notin Instances, AuOffsets \subseteq {0}, ~ RecallWhileDown
  PROVE  Spec => []RolesAreExclusive
<1> DEFINE All == IxInv /\ ThInv /\ AuInv /\ MdInv
<1>1. Init => All
  BY IxBegins, ThInit, AuInitInv, MdInit DEF Init
<1>2. All /\ [Next]_partsVars => All'
  <2> SUFFICES ASSUME IxInv, ThInv, AuInv, MdInv, [Next]_partsVars PROVE All'
    OBVIOUS
  <2>1. IndexNext \/ UNCHANGED indexVars
    BY DEF Next, partsVars, OfIndex, OfThreads, OfUnit, OfAax, OfMidi
  <2>2. ThreadsNext \/ UNCHANGED threadVars
    BY DEF Next, partsVars, OfIndex, OfThreads, OfUnit, OfAax, OfMidi
  <2>3. AuUnitNext \/ UNCHANGED auVars
    BY DEF Next, partsVars, OfIndex, OfThreads, OfUnit, OfAax, OfMidi
  <2>4. InNext \/ OutNext \/ UNCHANGED midiVars
    BY DEF Next, partsVars, OfIndex, OfThreads, OfUnit, OfAax, OfMidi
  <2> QED
    BY <2>1, <2>2, <2>3, <2>4, IxStep, ThStep, ThQuiet, AuStep, MdStep
<1>3. All => RolesAreExclusive
  <2> SUFFICES ASSUME IxInv, ThInv, AuInv, MdInv PROVE RolesAreExclusive
    OBVIOUS
  <2>1. NoCallAfterRemoval
    BY DEF IxInv, IxCall, NoCallAfterRemoval
  <2>2. OneMainThread
    BY DEF ThInv, ThLocks, ThRoles, OneMainThread, InMain, Idling
  <2>3. FlushAlone
    BY DEF ThInv, ThLocks, ThRoles, FlushAlone, Idling
  <2>4. NoHungNote /\ MidiTypeOK
    BY DEF MdInv, NoHungNote, MidiTypeOK
  <2>5. PresetTypeOK
    <3>1. \A n \in 1..Len(listeners) : listeners[n] \in [of : Instances, live : BOOLEAN]
      BY ElementOfSeq, LenProperties DEF IxInv, IxTypes
    <3> QED
      BY <3>1 DEF IxInv, IxTypes, IxPlaces, IxWrappers, PresetTypeOK
  <2>6. ThreadsTypeOK
    BY DEF ThInv, ThTypes, ThreadsTypeOK
  <2>7. AuUnitTypeOK
    BY DEF AuInv, AuTypes, AuDoor, AuPlaces, AuUnitTypeOK
  <2> QED
    BY <2>1, <2>2, <2>3, <2>4, <2>5, <2>6, <2>7 DEF RolesAreExclusive, SchedulesTypeOK
<1> QED
  BY <1>1, <1>2, <1>3, PTL DEF Spec
=============================================================================
