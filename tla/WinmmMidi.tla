------------------------------ MODULE WinmmMidi ------------------------------
(***************************************************************************)
(* The standalone's WinMM MIDI backend                                     *)
(* (detail/standalone/windows/winmm_midi_backend.cpp): an input's sysex    *)
(* buffers between the driver, the callback and the port's end, and sends  *)
(* of sysex, which wait for the driver under outputMutex.                  *)
(*                                                                         *)
(* A buffer is where it is: with the driver, filled and queued for the     *)
(* callback, in the callback, or back with us.                             *)
(***************************************************************************)
EXTENDS Integers, Sequences, FiniteSets, SequencesExt

CONSTANTS
  Buffers,       \* sysexBuffers
  Outputs,       \* in the order they are sent to
  MaxPieces,     \* bound: pieces of sysex while a port is open
  ResetWaits,    \* whether midiInReset() waits for a callback that is running
  EmptyErrors    \* whether a sysex that fails may come back without a byte

VARIABLES winIn, winOut
winVars == <<winIn, winOut>>

NoBuffer == 0
NoPiece == [buffer |-> NoBuffer, kind |-> "reset", message |-> 0, place |-> 0]
-----------------------------------------------------------------------------
(* An input.  source: the sysex being played; sysex, handed: the pieces of *)
(* the one put together, and of the one handed on.                         *)

ClosedInput == [at |-> "closed", closing |-> FALSE, driver |-> {}, filled |-> <<>>, callback |-> NoPiece,
                step |-> "out", pieces |-> 0, source |-> <<0, 0>>, inSysex |-> FALSE, sysex |-> <<>>,
                handed |-> <<>>]

\* Every header prepared and added, then started; on a failure closeInput() undoes it.
OpenInput ==
  /\ winIn.at = "closed" /\ winIn.step = "out"
  /\ \E added \in {Buffers} \cup {{b} : b \in Buffers} :
       winIn' = [ClosedInput EXCEPT !.at = IF added = Buffers THEN "open" ELSE "closing",
                                    !.closing = added # Buffers, !.driver = added]

\* The driver fills a buffer: a message begins, goes on, ends, or a piece of it fails.
Filled(kind, at) ==
  \E b \in winIn.driver :
    winIn' = [winIn EXCEPT
      !.driver = @ \ {b}, !.pieces = @ + 1, !.source = IF kind = "end" THEN <<at[1], 0>> ELSE at,
      !.filled = Append(@, [buffer |-> b, kind |-> kind, message |-> at[1], place |-> at[2]])]

DriverFills ==
  /\ winIn.at = "open" /\ winIn.pieces < MaxPieces
  /\ LET s == winIn.source IN
     \/ s[2] = 0 /\ Filled("begin", <<s[1] + 1, 1>>)
     \/ s[2] > 0 /\ \E kind \in {"more", "end", "error"} : Filled(kind, <<s[1], s[2] + 1>>)
     \/ s[2] > 0 /\ EmptyErrors /\ Filled("empty error", <<s[1], s[2] + 1>>)

CallbackBegins ==
  /\ winIn.step = "out" /\ winIn.filled # <<>>
  /\ winIn' = [winIn EXCEPT !.step = "taking", !.callback = Head(winIn.filled), !.filled = Tail(@)]

\* Mutant: a sysex that failed is gone on with.
NoError(i, piece) == [i EXCEPT !.handed = <<>>]

Broken(i, piece) == [i EXCEPT !.inSysex = FALSE, !.handed = <<>>]

\* takeSysex(), or the error.
Takes(i, piece) ==
  LET grown == Append(i.sysex, piece) IN
  CASE piece.kind = "begin" -> [i EXCEPT !.inSysex = TRUE, !.sysex = <<piece>>, !.handed = <<>>]
    [] piece.kind = "more" /\ i.inSysex -> [i EXCEPT !.sysex = grown, !.handed = <<>>]
    [] piece.kind = "end" /\ i.inSysex -> [i EXCEPT !.inSysex = FALSE, !.sysex = <<>>, !.handed = grown]
    [] piece.kind \in {"error", "empty error"} -> Broken(i, piece)
    [] OTHER -> [i EXCEPT !.handed = <<>>]

\* Mutant: the port's end is not looked at.
GoesBackAnyway(i) == TRUE

\* A buffer the port's end returned, or one after it, stays.
GoesBack(i) == ~i.closing /\ i.callback.kind \notin {"reset", "empty error"}

CallbackTakes ==
  /\ winIn.step = "taking"
  /\ winIn' = [Takes(winIn, winIn.callback) EXCEPT !.step = IF GoesBack(winIn) THEN "putting back" ELSE "out",
                 !.callback = IF GoesBack(winIn) THEN @ ELSE NoPiece]

AddBuffer ==
  /\ winIn.step = "putting back"
  /\ winIn' = [winIn EXCEPT !.step = "out", !.driver = @ \cup {winIn.callback.buffer}, !.callback = NoPiece]

\* closeInput(): closing, and midiInStop().
CloseInput ==
  /\ winIn.at = "open"
  /\ winIn' = [winIn EXCEPT !.at = "closing", !.closing = TRUE]

\* midiInReset() gives every buffer back through the callback, empty.
Reset ==
  /\ winIn.at = "closing"
  /\ ResetWaits => winIn.step = "out" /\ winIn.filled = <<>>
  /\ winIn' = [winIn EXCEPT !.at = "reset", !.driver = {},
                 !.filled = @ \o SetToSeq({[NoPiece EXCEPT !.buffer = b] : b \in winIn.driver})]

\* The headers are unprepared, the handle closed, the port freed.
Closed ==
  /\ winIn.at = "reset" /\ winIn.step # "taking" /\ winIn.filled = <<>>
  /\ winIn' = [winIn EXCEPT !.at = "closed"]

WinInNext ==
  \/ OpenInput \/ DriverFills \/ CallbackBegins \/ CallbackTakes \/ AddBuffer
  \/ CloseInput \/ Reset \/ Closed
-----------------------------------------------------------------------------
(* Outputs.  driver: whose driver reads the message, of send()'s own       *)
(* memory; to: the outputs it is still for.                                *)

OutInit == winOut = [open |-> {}, to |-> <<>>, holds |-> FALSE, driver |-> {}, stuck |-> {}]

Sending == winOut.holds

\* openOutputs(), under the mutex send() holds; closeOutput() resets.
OpenOutputs ==
  /\ ~Sending
  /\ \E outputs \in SUBSET Range(Outputs) :
       winOut' = [winOut EXCEPT !.open = outputs, !.driver = @ \cap outputs, !.stuck = {}]

SendSysex ==
  /\ ~Sending
  /\ winOut' = [winOut EXCEPT !.holds = TRUE, !.to = SelectSeq(Outputs, LAMBDA o : o \in winOut.open)]

\* The driver takes the message, or the call fails.
LongMessage ==
  /\ Sending /\ winOut.to # <<>> /\ winOut.driver \cap {Head(winOut.to)} = {}
  /\ \/ winOut' = [winOut EXCEPT !.driver = @ \cup {Head(winOut.to)}]
     \/ winOut' = [winOut EXCEPT !.to = Tail(@)]

DriverSticks ==
  /\ \E o \in winOut.driver \ winOut.stuck : winOut' = [winOut EXCEPT !.stuck = @ \cup {o}]

\* MHDR_DONE.
DriverDone ==
  /\ \E o \in winOut.driver \ winOut.stuck :
       winOut' = [winOut EXCEPT !.driver = @ \ {o},
                                !.to = IF Sending /\ @ # <<>> /\ Head(@) = o THEN Tail(@) ELSE @]

\* Mutant: the message is left with the driver.
LeftThere(o) == [winOut EXCEPT !.to = Tail(@)]

\* midiOutReset() ends what the driver was at.
ResetOutput(o) == [winOut EXCEPT !.driver = @ \ {o}, !.stuck = @ \ {o}, !.to = Tail(@)]

Limit ==
  /\ Sending /\ winOut.to # <<>> /\ Head(winOut.to) \in winOut.driver
  /\ winOut' = ResetOutput(Head(winOut.to))

Sent ==
  /\ Sending /\ winOut.to = <<>>
  /\ winOut' = [winOut EXCEPT !.holds = FALSE]

WinOutNext ==
  OpenOutputs \/ SendSysex \/ LongMessage \/ DriverSticks \/ DriverDone \/ Limit \/ Sent
-----------------------------------------------------------------------------
WinInit == winIn = ClosedInput /\ OutInit

WinNext ==
  \/ WinInNext /\ UNCHANGED winOut
  \/ WinOutNext /\ UNCHANGED winIn
-----------------------------------------------------------------------------
WinTypeOK ==
  /\ winIn.at \in {"closed", "open", "closing", "reset"}
  /\ winIn.step \in {"out", "taking", "putting back"}
  /\ winIn.driver \subseteq Buffers /\ winOut.stuck \subseteq winOut.driver

(***************************************************************************)
(* A port that is closed has nothing with the driver and nobody in its     *)
(* callback: its buffers are about to be freed.                            *)
(***************************************************************************)
WinClosesClean ==
  winIn.at = "closed" => winIn.driver = {} /\ winIn.filled = <<>> /\ winIn.step = "out"

(***************************************************************************)
(* An open port keeps its buffers going: none is lost to it but at its end.*)
(***************************************************************************)
WinKeepsItsBuffers ==
  winIn.at = "open" =>
    Buffers = winIn.driver \cup {winIn.filled[i].buffer : i \in DOMAIN winIn.filled}
                \cup ({winIn.callback.buffer} \ {NoBuffer})

(***************************************************************************)
(* A sysex handed on is the pieces of one message, from first to last.     *)
(***************************************************************************)
WinHandsWhole ==
  \A i \in DOMAIN winIn.handed :
    winIn.handed[i].message = winIn.handed[1].message /\ winIn.handed[i].place = i

(***************************************************************************)
(* When send() returns no driver reads its message any more, also one that *)
(* stopped taking it; and only outputs that are open have it.              *)
(***************************************************************************)
WinSendsAndLetsGo ==
  (~Sending => winOut.driver = {}) /\ winOut.driver \subseteq winOut.open

WinMidiIsSafe == WinClosesClean /\ WinKeepsItsBuffers /\ WinHandsWhole /\ WinSendsAndLetsGo
=============================================================================
