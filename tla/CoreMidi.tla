------------------------------ MODULE CoreMidi -------------------------------
(***************************************************************************)
(* The standalone's CoreMIDI backend                                       *)
(* (detail/standalone/macos/coremidi_backend.cpp): sources connected and   *)
(* let go under the read blocks, destinations replaced under the sender,   *)
(* and the parser that makes messages of a source's packets.               *)
(***************************************************************************)
EXTENDS Integers, Sequences, FiniteSets

CONSTANTS
  Endpoints,     \* a number each, the same as a source and as a destination; 0 is our own virtual one
  MaxParsers,    \* bound: parsers made
  MaxMessages,   \* bound: messages of a source
  MaxBytes,      \* bound: bytes of one of its sysex
  MaxSysex       \* MidiParser::maxSysex

VARIABLES coreMidi, coreIn
coreMidiVars == <<coreMidi, coreIn>>

Own == 0
NoParser == 0
-----------------------------------------------------------------------------
(* Ports.  connected: a source's parser; reading: parsers a read block is  *)
(* in; out, sending: as the sender has them under outputLock.              *)

PortsInit ==
  coreMidi = [there |-> Endpoints, virtual |-> FALSE, opened |-> {}, made |-> 0, retired |-> {},
              connected |-> [e \in Endpoints |-> NoParser], reading |-> {}, listed |-> Endpoints,
              news |-> FALSE, out |-> {}, sending |-> {}, main |-> "idle", wanted |-> {}]

Parsers == {coreMidi.connected[e] : e \in Endpoints} \ {NoParser}
Unlocked == coreMidi.sending = {}

\* An endpoint goes, or comes; the client's notification is run on the main thread.
SetupChanges ==
  /\ \E e \in Endpoints :
       coreMidi' = [coreMidi EXCEPT
         !.there = IF e \in @ THEN @ \ {e} ELSE @ \cup {e}, !.news = TRUE]

\* Mutant: what other applications see of us is listed as well.
AllEndpoints == coreMidi.there \cup (IF coreMidi.virtual THEN {Own} ELSE {})

Others == coreMidi.there

List ==
  /\ coreMidi.main = "idle" /\ coreMidi.news
  /\ coreMidi' = [coreMidi EXCEPT !.news = FALSE, !.listed = Others]

\* A read block may still be running on a parser: it is kept, not freed.
\* Mutant: it is freed.
Freed == {}

Retired == Parsers

\* openInputs(): every source is let go, then the wanted ones that are there are connected, each
\* to a parser of its own.
OpenInputs ==
  /\ coreMidi.main = "idle"
  /\ \E wanted \in SUBSET coreMidi.listed :
       LET open == (wanted \cap coreMidi.there) \ {Own} IN
       /\ coreMidi.made + Cardinality(open) <= MaxParsers
       /\ \E numbers \in [Endpoints -> 0 .. MaxParsers] :
            /\ \A e \in Endpoints : numbers[e] = IF e \in open
                                      THEN coreMidi.made + Cardinality({d \in open : d <= e}) ELSE NoParser
            /\ coreMidi' = [coreMidi EXCEPT !.opened = open, !.connected = numbers,
                              !.made = @ + Cardinality(open), !.retired = @ \cup Retired]

Receive ==
  \E p \in Parsers \ coreMidi.reading :
    /\ \E e \in coreMidi.there : coreMidi.connected[e] = p
    /\ coreMidi' = [coreMidi EXCEPT !.reading = @ \cup {p}]

Received ==
  \E p \in coreMidi.reading : coreMidi' = [coreMidi EXCEPT !.reading = @ \ {p}]

\* openOutputs(): the endpoints are found, then replaced under the lock.
FindOutputs ==
  /\ coreMidi.main = "idle"
  /\ \E wanted \in SUBSET coreMidi.listed :
       coreMidi' = [coreMidi EXCEPT !.main = "replacing", !.wanted = (wanted \cap coreMidi.there) \ {Own}]

\* Mutant: the list is replaced beside a send.
Beside == TRUE

LockIsFree == Unlocked

OpenOutputs ==
  /\ coreMidi.main = "replacing" /\ LockIsFree
  /\ coreMidi' = [coreMidi EXCEPT !.main = "idle", !.out = (@ \cap {Own}) \cup coreMidi.wanted, !.wanted = {}]

\* setVirtualInput() and setVirtualOutput().
SetVirtual ==
  /\ coreMidi.main = "idle" /\ LockIsFree
  /\ \E on \in BOOLEAN :
       coreMidi' = [coreMidi EXCEPT !.virtual = on, !.out = IF on THEN @ \cup {Own} ELSE @ \ {Own},
                                    !.news = TRUE]

\* send(): the lock is kept over every destination.
Send ==
  /\ Unlocked
  /\ coreMidi' = [coreMidi EXCEPT !.sending = coreMidi.out]

MidiSend ==
  /\ \E e \in coreMidi.sending : coreMidi' = [coreMidi EXCEPT !.sending = @ \ {e}]

CorePortsNext ==
  \/ SetupChanges \/ List \/ OpenInputs \/ Receive \/ Received
  \/ FindOutputs \/ OpenOutputs \/ SetVirtual \/ Send \/ MidiSend
-----------------------------------------------------------------------------
(* A source's packets.  A byte is [kind, message, place]: a status byte of *)
(* kind "on" or "off", "F0", "F7", "clock", "tune" (a system common), or   *)
(* "data".                                                                 *)

Short == {"on", "off"}
Idle == [kind |-> "none", message |-> 0, place |-> 0]
NewParser == [running |-> "none", message |-> <<>>, inSysex |-> FALSE, tooLong |-> FALSE, sysex |-> <<>>]

\* wire: the status a receiver would run on; cut: the parser is new since the message, or its
\* running status, began.
InInit ==
  coreIn = [parser |-> NewParser, source |-> Idle, sent |-> 0, wire |-> "none", cut |-> FALSE,
            handed |-> <<>>, complete |-> <<>>]

Size(kind) == IF kind \in Short THEN 3 ELSE 1

Byte(kind, message, place) == [kind |-> kind, message |-> message, place |-> place]

\* A status byte outside sysex: a message of one byte is handed on, a longer one begins.
Status(p, byte) ==
  LET left == [p EXCEPT !.inSysex = FALSE, !.sysex = <<>>] IN
  CASE byte.kind = "F0" ->
         [parser |-> [left EXCEPT !.inSysex = TRUE, !.tooLong = FALSE, !.sysex = <<byte>>, !.running = "none"],
          out |-> <<>>]
    [] byte.kind \in Short ->
         [parser |-> [left EXCEPT !.running = byte.kind, !.message = <<byte>>], out |-> <<>>]
    [] OTHER ->
         [parser |-> [left EXCEPT !.running = "none", !.message = <<>>],
          out |-> IF byte.kind = "tune" THEN <<byte>> ELSE <<>>]

\* Within sysex: a data byte, the end, or a status that ends what never got its F7.
InSysex(p, byte) ==
  CASE byte.kind = "data" ->
         [parser |-> IF Len(p.sysex) < MaxSysex THEN [p EXCEPT !.sysex = Append(@, byte)]
                     ELSE [p EXCEPT !.tooLong = TRUE], out |-> <<>>]
    [] byte.kind = "F7" ->
         [parser |-> [p EXCEPT !.inSysex = FALSE, !.sysex = <<>>],
          out |-> IF p.tooLong THEN <<>> ELSE Append(p.sysex, byte)]
    [] OTHER -> Status(p, byte)

\* Mutant: a data byte that no status came before begins a message.
AnyData(p) == TRUE

HasStatus(p) == p.message # <<>> \/ p.running # "none"

Data(p, byte) ==
  LET begun == IF p.message # <<>> THEN p.message
               ELSE <<Byte(p.running, byte.message, 1)>>
      grown == Append(begun, byte) IN
  IF ~HasStatus(p) THEN [parser |-> p, out |-> <<>>]
  ELSE IF Len(grown) >= Size(begun[1].kind)
  THEN [parser |-> [p EXCEPT !.message = <<>>], out |-> grown]
  ELSE [parser |-> [p EXCEPT !.message = grown], out |-> <<>>]

Feed(p, byte) ==
  IF byte.kind = "clock" THEN [parser |-> p, out |-> <<byte>>]
  ELSE IF p.inSysex THEN InSysex(p, byte)
  ELSE IF byte.kind = "data" THEN Data(p, byte) ELSE Status(p, byte)

Arrives(i, byte, complete) ==
  LET fed == Feed(i.parser, byte) IN
  [i EXCEPT !.parser = fed.parser, !.handed = fed.out, !.complete = complete]

\* What the source begins may break off what it was in.
SourceBegins ==
  /\ coreIn.sent < MaxMessages
  /\ \E kind \in Short \cup {"F0", "tune"} :
       LET n == coreIn.sent + 1
           byte == Byte(kind, n, 1) IN
       coreIn' = Arrives([coreIn EXCEPT !.sent = n, !.cut = FALSE,
                            !.source = IF kind = "tune" THEN Idle ELSE byte,
                            !.wire = IF kind \in Short THEN kind ELSE "none"],
                         byte, IF kind = "tune" THEN <<byte>> ELSE <<>>)

\* A message under the running status: its status byte is left out.
SourceRuns ==
  /\ coreIn.sent < MaxMessages /\ coreIn.source = Idle /\ coreIn.wire # "none"
  /\ LET n == coreIn.sent + 1 IN
     coreIn' = Arrives([coreIn EXCEPT !.sent = n, !.source = Byte(coreIn.wire, n, 2)], Byte("data", n, 2), <<>>)

SourceGoesOn ==
  /\ coreIn.source # Idle
  /\ LET s == coreIn.source
         last == s.kind \in Short /\ s.place + 1 = Size(s.kind) IN
     /\ s.kind = "F0" => s.place < MaxBytes
     /\ coreIn' = Arrives([coreIn EXCEPT !.source = IF last THEN Idle ELSE [s EXCEPT !.place = @ + 1]],
                          Byte("data", s.message, s.place + 1),
                          IF last THEN <<Byte(s.kind, s.message, 1)>> ELSE <<>>)

SourceEndsSysex ==
  /\ coreIn.source.kind = "F0"
  /\ LET s == coreIn.source IN
     coreIn' = Arrives([coreIn EXCEPT !.source = Idle], Byte("F7", s.message, s.place + 1),
                       IF s.place <= MaxSysex THEN <<Byte("F0", s.message, 1)>> ELSE <<>>)

Clock == coreIn' = Arrives(coreIn, Byte("clock", 0, 1), <<Byte("clock", 0, 1)>>)

\* openInputs(): the source goes on into a new parser.
Reopened ==
  coreIn' = [coreIn EXCEPT !.parser = NewParser, !.cut = coreIn.source # Idle \/ coreIn.wire # "none",
                           !.handed = <<>>, !.complete = <<>>]

CoreInNext ==
  SourceBegins \/ SourceRuns \/ SourceGoesOn \/ SourceEndsSysex \/ Clock \/ Reopened
-----------------------------------------------------------------------------
CoreMidiInit == PortsInit /\ InInit

CoreMidiNext ==
  \/ CorePortsNext /\ UNCHANGED coreIn
  \/ CoreInNext /\ UNCHANGED coreMidi
-----------------------------------------------------------------------------
CoreMidiTypeOK ==
  /\ coreMidi.there \subseteq Endpoints /\ coreMidi.made \in 0 .. MaxParsers
  /\ coreMidi.reading \subseteq 1 .. MaxParsers /\ coreMidi.main \in {"idle", "replacing"}
  /\ coreIn.sent \in 0 .. MaxMessages /\ Len(coreIn.parser.message) < 3
  /\ Len(coreIn.parser.sysex) <= MaxSysex

(***************************************************************************)
(* A read block only ever runs in a parser that is still there, and no two *)
(* sources share one.                                                      *)
(***************************************************************************)
CoreParsersLive ==
  /\ coreMidi.reading \subseteq Parsers \cup coreMidi.retired
  /\ \A d, e \in coreMidi.opened : coreMidi.connected[d] = coreMidi.connected[e] => d = e

(***************************************************************************)
(* Once openOutputs() or setVirtualOutput() has returned, nothing is sent  *)
(* to an output it closed; and what is listed is never our own port, which *)
(* would loop the plugin's output into it.                                 *)
(***************************************************************************)
CoreOutputsAreTheOpened ==
  /\ coreMidi.main = "idle" => coreMidi.sending \subseteq coreMidi.out
  /\ Own \notin coreMidi.listed \cup coreMidi.opened

(***************************************************************************)
(* What the parser hands on is one message of the source, whole and with   *)
(* its status, whatever was left out, broken off or sent in between; and a *)
(* message that came whole into one parser is handed on.                   *)
(***************************************************************************)
CoreHandsWhole ==
  LET h == coreIn.handed IN
  /\ \A i \in DOMAIN h : h[i].message = h[1].message /\ h[i].place = i
  /\ h # <<>> => /\ h[1].kind = "F0" => h[Len(h)].kind = "F7" /\ Len(h) > 1
                 /\ h[1].kind # "F0" => Len(h) = Size(h[1].kind)
  /\ coreIn.complete # <<>> /\ ~coreIn.cut => h # <<>> /\ h[1] = coreIn.complete[1]

CoreMidiIsSafe == CoreParsersLive /\ CoreOutputsAreTheOpened /\ CoreHandsWhole
=============================================================================
