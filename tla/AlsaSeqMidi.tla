----------------------------- MODULE AlsaSeqMidi -----------------------------
(***************************************************************************)
(* The standalone's ALSA sequencer backend                                 *)
(* (detail/standalone/linux/alsaseq_midi_backend.cpp): subscriptions made  *)
(* by the main thread and, as ports come and go, by the reader; sysex put  *)
(* together from pieces; and sends to destinations that may be full.       *)
(*                                                                         *)
(* Each sequencer call is under the lock, and list() and the rest of       *)
(* subscribe() take it one after the other: they are two steps.            *)
(***************************************************************************)
EXTENDS Integers, Sequences, FiniteSets

CONSTANTS
  Ids,           \* MidiPort::id of the ports there may be
  Addresses,     \* client:port
  Asked,       \* bound: what openInputs() and openOutputs() are asked
  QueueSize,     \* events the kernel keeps for us
  Sources, MaxMessages, MaxBytes,  \* bounds: of what the sources send
  MaxSysex,      \* maxSysex, in bytes
  Destinations,  \* in the order they are sent to; the last is the virtual port's subscribers
  Room,          \* events a destination keeps
  StaleLists,    \* whether a port may come or go between the main thread's list() and its
                 \* subscriptions
  LosesNews      \* whether the queue may overflow with an announcement in it

VARIABLES alsaPorts, alsaIn, alsaOut
alsaVars == <<alsaPorts, alsaIn, alsaOut>>

Directions == {"in", "out"}
Nowhere == 0
AtRest == [at |-> "idle", dir |-> "in", seen |-> [id \in Ids |-> Nowhere]]
-----------------------------------------------------------------------------
(* Subscriptions.  there: where a port is; subs: what the kernel has; the  *)
(* rest is ours.                                                           *)

PortsInit ==
  alsaPorts = [there |-> [id \in Ids |-> Nowhere], announced |-> FALSE,
               wanted |-> [d \in Directions |-> {}],
               connected |-> [d \in Directions |-> [id \in Ids |-> Nowhere]],
               subs |-> [d \in Directions |-> {}], main |-> AtRest, reader |-> AtRest]

Used(p) == {p.there[id] : id \in Ids} \ {Nowhere}
PortsMayChange == StaleLists \/ alsaPorts.main.at = "idle"

\* At the address of another port that went, too.
PortStarts ==
  /\ PortsMayChange
  /\ \E id \in Ids, address \in Addresses \ Used(alsaPorts) :
       /\ alsaPorts.there[id] = Nowhere
       /\ alsaPorts' = [alsaPorts EXCEPT !.there[id] = address, !.announced = TRUE]

PortExits ==
  /\ PortsMayChange
  /\ \E id \in Ids :
       /\ alsaPorts.there[id] # Nowhere
       /\ alsaPorts' = [alsaPorts EXCEPT
            !.there[id] = Nowhere, !.announced = TRUE,
            !.subs = [d \in Directions |-> @[d] \ {alsaPorts.there[id]}]]

\* openInputs(), openOutputs(): what is wanted, then list().
OpenPorts ==
  /\ alsaPorts.main.at = "idle"
  /\ \E d \in Directions, ids \in Asked :
       alsaPorts' = [alsaPorts EXCEPT !.wanted[d] = ids,
                       !.main = [at |-> "list", dir |-> d, seen |-> @.seen]]

\* An announcement: subscribe(true), then subscribe(false).
HandleAnnouncement ==
  /\ alsaPorts.reader.at = "idle" /\ alsaPorts.announced
  /\ alsaPorts' = [alsaPorts EXCEPT !.announced = FALSE, !.reader.at = "list"]

List(who) ==
  /\ alsaPorts[who].at = "list"
  /\ alsaPorts' = [alsaPorts EXCEPT ![who].at = "subscribe", ![who].seen = alsaPorts.there]

\* Mutant: a subscription to an address that another port has now is kept.
KeepsById(p, d, seen) ==
  {id \in p.wanted[d] : p.connected[d][id] # Nowhere /\ seen[id] # Nowhere}

\* What stays of the subscriptions: wanted, there, and where it was.
Keeps(p, d, seen) ==
  {id \in p.wanted[d] : p.connected[d][id] # Nowhere /\ seen[id] = p.connected[d][id]}

\* The rest is let go, and every wanted port that was seen is subscribed to: one that is gone
\* by now is not, and one that still was answers -EBUSY.
Subscribed(p, d, seen) ==
  LET kept == Keeps(p, d, seen)
      gone == {p.connected[d][id] : id \in Ids \ kept}
      connects == {id \in p.wanted[d] : seen[id] \in Used(p)} IN
  [p EXCEPT
     !.subs[d] = (@ \ gone) \cup {seen[id] : id \in connects},
     !.connected[d] = [id \in Ids |-> IF id \in connects THEN seen[id]
                                      ELSE IF id \in kept THEN @[id] ELSE Nowhere]]

NextOf(who, step) ==
  IF who = "reader" /\ step.dir = "in" THEN [AtRest EXCEPT !.at = "list", !.dir = "out"] ELSE AtRest

Subscribe(who) ==
  /\ alsaPorts[who].at = "subscribe"
  /\ alsaPorts' = [Subscribed(alsaPorts, alsaPorts[who].dir, alsaPorts[who].seen) EXCEPT
                     ![who] = NextOf(who, @)]

\* -ENOSPC: what was announced is lost with what was played.
OverflowWithNews ==
  /\ LosesNews /\ alsaPorts.announced
  /\ alsaPorts' = [alsaPorts EXCEPT !.announced = FALSE]

PortsNext ==
  \/ PortStarts \/ PortExits \/ OpenPorts \/ HandleAnnouncement \/ OverflowWithNews
  \/ \E who \in {"main", "reader"} : List(who) \/ Subscribe(who)
-----------------------------------------------------------------------------
(* Sysex in.  An event is one byte of a source: [source, kind, message,    *)
(* place].                                                                 *)

Nothing == <<>>
InInit ==
  alsaIn = [queue |-> <<>>, overflow |-> FALSE, handed |-> Nothing,
            partial |-> [s \in Sources |-> Nothing],
            source |-> [s \in Sources |-> [message |-> 0, place |-> 0]]]

\* A byte the kernel has room for, or not.
Queued(i, byte) ==
  IF Len(i.queue) < QueueSize THEN [i EXCEPT !.queue = Append(@, byte)] ELSE [i EXCEPT !.overflow = TRUE]

\* A source begins a message, even within one; goes on; ends it; or breaks it off.
SourceSends ==
  \E s \in Sources, kind \in {"F0", "data", "F7", "status", "realtime"} :
    LET at == alsaIn.source[s]
        next == [message |-> IF kind = "F0" THEN at.message + 1 ELSE at.message,
                 place |-> IF kind = "F0" THEN 1 ELSE IF kind = "realtime" THEN at.place
                           ELSE at.place + 1] IN
    /\ kind = "F0" => at.message < MaxMessages
    /\ kind # "F0" => at.place \in 1 .. MaxBytes
    /\ alsaIn' = Queued([alsaIn EXCEPT
                    !.source[s] = IF kind \in {"F7", "status"} THEN [next EXCEPT !.place = 0] ELSE next],
                  [source |-> s, kind |-> kind, message |-> next.message, place |-> next.place])

\* The queue was emptied: what was being put together has a gap.
\* Mutant: it goes on as if nothing was lost.
GapIgnored(partial) == partial

AfterGap(partial) == [s \in Sources |-> Nothing]

ReadOverflow ==
  /\ alsaIn.overflow
  /\ alsaIn' = [alsaIn EXCEPT !.overflow = FALSE, !.queue = <<>>, !.handed = Nothing,
                              !.partial = AfterGap(@)]

\* sysex(): what a byte leaves of the message it is in.
After(partial, byte) ==
  CASE byte.kind = "realtime" -> partial
    [] byte.kind = "F0" -> <<byte>>
    [] byte.kind \in {"F7", "status"} -> Nothing
    [] OTHER -> IF partial = Nothing \/ Len(partial) >= MaxSysex THEN Nothing ELSE Append(partial, byte)

ReadByte ==
  /\ ~alsaIn.overflow /\ alsaIn.queue # <<>>
  /\ LET byte == Head(alsaIn.queue)
         partial == alsaIn.partial[byte.source] IN
     alsaIn' = [alsaIn EXCEPT
       !.queue = Tail(@), !.partial[byte.source] = After(@, byte),
       !.handed = IF byte.kind = "F7" /\ partial # Nothing THEN Append(partial, byte) ELSE Nothing]

AlsaInNext == SourceSends \/ ReadOverflow \/ ReadByte
-----------------------------------------------------------------------------
(* Sends. *)

OutInit ==
  alsaOut = [room |-> [i \in DOMAIN Destinations |-> Room], chunks |-> 0, to |-> 0, done |-> 0,
             late |-> FALSE, cut |-> FALSE, got |-> [i \in DOMAIN Destinations |-> "whole"]]

IsSubscribers(i) == i = Len(Destinations)

\* A message of so many events: a short message is one.
Send ==
  /\ alsaOut.to = 0
  /\ \E n \in 1 .. 3 : alsaOut' = [alsaOut EXCEPT !.chunks = n, !.to = 1, !.done = 0, !.late = FALSE,
                                     !.got = [i \in DOMAIN Destinations |-> "nothing"]]

DestinationTakes ==
  \E i \in DOMAIN Destinations :
    /\ alsaOut.room[i] < Room
    /\ alsaOut' = [alsaOut EXCEPT !.room[i] = @ + 1]

\* The patience is the whole send()'s.
Deadline ==
  /\ alsaOut.to # 0 /\ ~alsaOut.late
  /\ alsaOut' = [alsaOut EXCEPT !.late = TRUE]

ToNext(o) ==
  [o EXCEPT !.to = IF @ = Len(Destinations) THEN 0 ELSE @ + 1, !.done = 0, !.cut = FALSE]

Output ==
  /\ alsaOut.to # 0 /\ ~alsaOut.cut /\ alsaOut.room[alsaOut.to] > 0
  /\ LET o == [alsaOut EXCEPT !.room[alsaOut.to] = @ - 1, !.done = @ + 1,
                 !.got[alsaOut.to] = IF alsaOut.done + 1 = alsaOut.chunks THEN "whole" ELSE "begun"] IN
     alsaOut' = IF o.done = o.chunks THEN ToNext(o) ELSE o

\* Mutant: the rest is dropped, and that is all.
NotEnded(o) == ToNext(o)

\* The rest is dropped; a message begun is ended, if there is room for that.
GivesUp(o) == IF o.done > 0 THEN [o EXCEPT !.cut = TRUE] ELSE ToNext(o)

OutputFails ==
  /\ alsaOut.to # 0 /\ ~alsaOut.cut /\ alsaOut.room[alsaOut.to] = 0
  /\ alsaOut.late \/ IsSubscribers(alsaOut.to)
  /\ alsaOut' = GivesUp(alsaOut)

\* A destination is waited for as long as there is patience, the subscribers are not.
OutputEnd ==
  /\ alsaOut.to # 0 /\ alsaOut.cut
  /\ alsaOut.room[alsaOut.to] > 0 \/ alsaOut.late \/ IsSubscribers(alsaOut.to)
  /\ alsaOut' = ToNext(IF alsaOut.room[alsaOut.to] > 0
                       THEN [alsaOut EXCEPT !.room[alsaOut.to] = @ - 1, !.got[alsaOut.to] = "ended"]
                       ELSE [alsaOut EXCEPT !.got[alsaOut.to] = "full"])

AlsaOutNext == Send \/ DestinationTakes \/ Deadline \/ Output \/ OutputFails \/ OutputEnd
-----------------------------------------------------------------------------
AlsaInit == PortsInit /\ InInit /\ OutInit

AlsaNext ==
  \/ PortsNext /\ UNCHANGED <<alsaIn, alsaOut>>
  \/ AlsaInNext /\ UNCHANGED <<alsaPorts, alsaOut>>
  \/ AlsaOutNext /\ UNCHANGED <<alsaPorts, alsaIn>>
-----------------------------------------------------------------------------
AlsaTypeOK ==
  /\ alsaPorts.there \in [Ids -> Addresses \cup {Nowhere}]
  /\ \A d \in Directions : alsaPorts.wanted[d] \subseteq Ids /\ alsaPorts.subs[d] \subseteq Used(alsaPorts)
  /\ Len(alsaIn.queue) <= QueueSize /\ \A s \in Sources : Len(alsaIn.partial[s]) <= MaxSysex
  /\ alsaOut.to \in 0 .. Len(Destinations) /\ alsaOut.done <= alsaOut.chunks
  /\ \A i \in DOMAIN Destinations : alsaOut.room[i] \in 0 .. Room

(***************************************************************************)
(* Once the announcements are read, what is chosen and there is what the   *)
(* kernel delivers from and to, at its present address, and nothing else.  *)
(***************************************************************************)
AlsaConnectsTheChosen ==
  ~alsaPorts.announced /\ alsaPorts.main.at = "idle" /\ alsaPorts.reader.at = "idle" =>
    \A d \in Directions :
      LET now == [id \in Ids |-> IF id \in alsaPorts.wanted[d] THEN alsaPorts.there[id] ELSE Nowhere] IN
      /\ alsaPorts.connected[d] = now
      /\ alsaPorts.subs[d] = {now[id] : id \in Ids} \ {Nowhere}

(***************************************************************************)
(* A sysex the host is handed is one source's message from its F0 to its   *)
(* F7, whatever other sources sent meanwhile and whatever was lost.        *)
(***************************************************************************)
AlsaHandsWholeSysex ==
  \A i \in DOMAIN alsaIn.handed :
    /\ alsaIn.handed[i].place = i
    /\ alsaIn.handed[i].source = alsaIn.handed[1].source /\ alsaIn.handed[i].message = alsaIn.handed[1].message
    /\ (alsaIn.handed[i].kind = "F7") = (i = Len(alsaIn.handed))

(***************************************************************************)
(* When send() returns, no destination is left in the middle of a message: *)
(* it has it whole, has none of it, has its end, or had no room for that.  *)
(***************************************************************************)
AlsaSendsWhole ==
  alsaOut.to = 0 => \A i \in DOMAIN Destinations : alsaOut.got[i] # "begun"

AlsaIsSafe == AlsaConnectsTheChosen /\ AlsaHandsWholeSysex /\ AlsaSendsWhole
=============================================================================
