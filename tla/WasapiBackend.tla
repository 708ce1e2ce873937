---------------------------- MODULE WasapiBackend ----------------------------
(***************************************************************************)
(* The standalone's WASAPI backend                                         *)
(* (detail/standalone/windows/wasapi_backend.cpp): the main thread's calls,*)
(* the stream's own thread, which reads the capture into a ring and makes  *)
(* the process() calls, and Windows' notifications of devices.             *)
(*                                                                         *)
(* A frame is its number in the order it was captured.                     *)
(***************************************************************************)
EXTENDS Integers

CONSTANTS
  CaptureSize,   \* input.bufferSize: frames the engine's capture buffer holds
  BlockSize,     \* bufferFrames
  MaxCaptured    \* bound: frames captured while a stream runs

VARIABLES
  wasapi,        \* the main thread's and the stream's state
  ringBuffer     \* the input's ring: buffer, read, fill

wasapiVars == <<wasapi, ringBuffer>>

RingCapacity == CaptureSize + 4 * BlockSize
Endpoints == {"in", "out"}

\* wasapi.present: the endpoints that are active; list: as listed; uses: the stream's sides;
\* captured, unread: frames, and those the thread has not read; heard: the last frame a
\* process() call was given; block: the frames of the call being made.
EmptyRing == [frames |-> [i \in 0 .. RingCapacity - 1 |-> 0], read |-> 0, fill |-> 0]

WasapiInit ==
  /\ wasapi = [present |-> Endpoints, list |-> {}, news |-> TRUE, notifier |-> "out",
               attached |-> TRUE, main |-> "idle", opened |-> FALSE, uses |-> {}, running |-> FALSE,
               stopEvent |-> FALSE, thread |-> "none", room |-> 0,
               captured |-> 0, unread |-> 0, heard |-> 0, block |-> <<>>]
  /\ ringBuffer = EmptyRing

TakesInput == "in" \in wasapi.uses
GivesOutput == "out" \in wasapi.uses
SidesThere == wasapi.uses \subseteq wasapi.present
-----------------------------------------------------------------------------
(* Devices. *)

\* The notification calls onEvent under the client's mutex.
EndpointChanges ==
  /\ wasapi.notifier = "out"
  /\ \E e \in Endpoints :
       LET present == IF e \in wasapi.present THEN wasapi.present \ {e} ELSE wasapi.present \cup {e} IN
       wasapi' = [wasapi EXCEPT !.present = present, !.notifier = IF @ = "out" /\ wasapi.attached
                                                                 THEN "calling" ELSE "out"]
  /\ UNCHANGED ringBuffer

Notified ==
  /\ wasapi.notifier = "calling"
  /\ wasapi' = [wasapi EXCEPT !.notifier = "out", !.news = TRUE]
  /\ UNCHANGED ringBuffer

\* refreshDevices(), devices(): the endpoints that are active and answer.
List ==
  /\ wasapi.main = "idle" /\ wasapi.news
  /\ wasapi' = [wasapi EXCEPT !.news = FALSE, !.list = wasapi.present]
  /\ UNCHANGED ringBuffer

\* Mutant: the destructor does not wait for a notification that is being delivered.
DetachedAtOnce == TRUE

MutexFree == wasapi.notifier = "out"

Destroy ==
  /\ wasapi.main = "idle" /\ wasapi.thread = "none" /\ ~wasapi.opened /\ MutexFree
  /\ wasapi' = [wasapi EXCEPT !.main = "destroyed", !.attached = FALSE]
  /\ UNCHANGED ringBuffer
-----------------------------------------------------------------------------
(* The main thread's stream. *)

\* stop(), open()'s own included: the thread is told and waited for, then the sides close.
Stop ==
  /\ wasapi.main = "idle" /\ wasapi.opened
  /\ wasapi' = [wasapi EXCEPT !.main = "joining", !.stopEvent = wasapi.thread # "none"]
  /\ UNCHANGED ringBuffer

Joined == wasapi.thread \in {"none", "ended"}

Closed(w) == [w EXCEPT !.running = FALSE, !.opened = FALSE, !.uses = {}, !.thread = "none",
                       !.captured = 0, !.unread = 0, !.heard = 0]

Stopped ==
  /\ wasapi.main = "joining" /\ Joined
  /\ wasapi' = [Closed(wasapi) EXCEPT !.main = "idle"]
  /\ ringBuffer' = EmptyRing

\* Every side acquired, initialized and served, or none is left open; the ring begins empty.
Open ==
  /\ wasapi.main = "idle" /\ ~wasapi.opened
  /\ \E sides \in SUBSET wasapi.list \ {{}} :
       /\ sides \subseteq wasapi.present
       /\ wasapi' = [wasapi EXCEPT !.opened = TRUE, !.uses = sides]
  /\ UNCHANGED ringBuffer

\* The output begins with silence, the clients start; a client that does not closes all.
StartClients ==
  /\ wasapi.main = "idle" /\ wasapi.opened /\ wasapi.thread = "none"
  /\ \/ SidesThere /\ wasapi' = [wasapi EXCEPT !.stopEvent = FALSE, !.main = "starting"]
     \/ wasapi' = Closed(wasapi)
  /\ UNCHANGED ringBuffer

\* Mutant: the thread is made first.
ThreadFirst(w) == IF w.thread = "none" THEN [w EXCEPT !.thread = "waiting"] ELSE [w EXCEPT !.running = TRUE]

\* running, and only then the thread that may take it back.
NextOfStart(w) == IF w.running THEN [w EXCEPT !.thread = "waiting"] ELSE [w EXCEPT !.running = TRUE]

Started == wasapi.running /\ wasapi.thread # "none"

MakeThread ==
  /\ wasapi.main = "starting" /\ ~Started
  /\ LET next == NextOfStart(wasapi) IN
     wasapi' = [next EXCEPT !.main = IF next.running /\ next.thread # "none" THEN "idle" ELSE "starting"]
  /\ UNCHANGED ringBuffer
-----------------------------------------------------------------------------
(* The engine, and the stream's thread. *)

Captures ==
  /\ wasapi.running /\ TakesInput /\ "in" \in wasapi.present
  /\ wasapi.unread < CaptureSize /\ wasapi.captured < MaxCaptured
  /\ wasapi' = [wasapi EXCEPT !.captured = @ + 1, !.unread = @ + 1]
  /\ UNCHANGED ringBuffer

\* stop() wins over the device's event.
LeaveLoop ==
  /\ wasapi.thread = "waiting" /\ wasapi.stopEvent
  /\ wasapi' = [wasapi EXCEPT !.thread = "ended"]
  /\ UNCHANGED ringBuffer

\* Two seconds without an event, or a call that fails, in a cycle too.
Fails ==
  /\ \/ wasapi.thread = "waiting" /\ ~wasapi.stopEvent
     \/ wasapi.thread = "cycling" /\ ~SidesThere
  /\ wasapi' = [wasapi EXCEPT !.thread = "ended", !.running = FALSE]
  /\ UNCHANGED ringBuffer

\* How far behind the first free place i is.
Ahead(i) == (i + 2 * RingCapacity - ringBuffer.read - ringBuffer.fill) % RingCapacity

\* The capture's packets; what does not fit is dropped.
ReadCapture ==
  LET free == RingCapacity - ringBuffer.fill
      take == IF wasapi.unread < free THEN wasapi.unread ELSE free
      first == wasapi.captured - wasapi.unread + 1 IN
  [ringBuffer EXCEPT
     !.frames = [i \in 0 .. RingCapacity - 1 |-> IF Ahead(i) < take THEN first + Ahead(i) ELSE @[i]],
     !.fill = @ + take]

\* The event: the capture is read, and there is room for so many blocks.
Cycle ==
  /\ wasapi.thread = "waiting" /\ ~wasapi.stopEvent /\ SidesThere
  /\ ringBuffer' = ReadCapture
  /\ \E room \in IF GivesOutput THEN 0 .. 2 ELSE {ringBuffer'.fill \div BlockSize} :
       wasapi' = [wasapi EXCEPT !.thread = "cycling", !.unread = 0, !.room = room]

Advanced(rb, n) == [rb EXCEPT !.read = (@ + n) % RingCapacity, !.fill = @ - n]

\* Beside an output, with more than half a capture buffer and two blocks the oldest go.
High == CaptureSize \div 2 + 2 * BlockSize
BalanceRing ==
  IF GivesOutput /\ ringBuffer.fill > High
  THEN Advanced(ringBuffer, ringBuffer.fill - (High - BlockSize)) ELSE ringBuffer

\* One process() call: its input from the ring, or silence and the ring is kept.
ProcessBuffer ==
  /\ wasapi.thread = "cycling" /\ wasapi.room > 0
  /\ LET balanced == BalanceRing
         given == IF TakesInput /\ balanced.fill >= BlockSize THEN BlockSize ELSE 0 IN
     /\ ringBuffer' = Advanced(balanced, given)
     /\ wasapi' = [wasapi EXCEPT !.thread = "calling", !.room = @ - 1,
                     !.block = [i \in 1 .. given |-> balanced.frames[(balanced.read + i - 1) % RingCapacity]]]

Processed ==
  /\ wasapi.thread = "calling"
  /\ wasapi' = [wasapi EXCEPT !.thread = "cycling", !.block = <<>>,
                  !.heard = IF wasapi.block = <<>> THEN @ ELSE wasapi.block[BlockSize]]
  /\ UNCHANGED ringBuffer

CycleEnds ==
  /\ wasapi.thread = "cycling" /\ wasapi.room = 0
  /\ wasapi' = [wasapi EXCEPT !.thread = "waiting"]
  /\ UNCHANGED ringBuffer

WasapiNext ==
  \/ EndpointChanges \/ Notified \/ List \/ Destroy
  \/ Stop \/ Stopped \/ Open \/ StartClients \/ MakeThread
  \/ Captures \/ LeaveLoop \/ Fails \/ Cycle \/ ProcessBuffer \/ Processed \/ CycleEnds

WasapiSpec == WasapiInit /\ [][WasapiNext]_wasapiVars
-----------------------------------------------------------------------------
WasapiTypeOK ==
  /\ wasapi.main \in {"idle", "joining", "starting", "destroyed"}
  /\ wasapi.thread \in {"none", "waiting", "cycling", "calling", "ended"}
  /\ ringBuffer.read \in 0 .. RingCapacity - 1 /\ ringBuffer.fill \in 0 .. RingCapacity

(***************************************************************************)
(* No process() call runs once stop() has returned, and the stream only    *)
(* says that it runs while its thread does.                                *)
(***************************************************************************)
WasapiPromise == INSTANCE AudioBackend WITH
  stream <- IF ~wasapi.opened THEN "closed" ELSE IF wasapi.thread = "none" THEN "open"
            ELSE IF wasapi.running THEN "running" ELSE "stopped",
  calling <- wasapi.thread = "calling"

WasapiKeepsThePromise == WasapiPromise!BackendSpec

(***************************************************************************)
(* The frames the plugin is given were captured in that order, after those *)
(* it was given before, and beside an output they are recent ones.         *)
(***************************************************************************)
WasapiInputInOrder ==
  wasapi.thread = "calling" /\ wasapi.block # <<>> =>
    /\ wasapi.block[1] > wasapi.heard
    /\ \A i \in 1 .. BlockSize - 1 : wasapi.block[i] < wasapi.block[i + 1]
    /\ GivesOutput => ringBuffer.fill <= High

(***************************************************************************)
(* A stream that ended on its own does not say that it runs, nobody is     *)
(* told of devices by a backend that is gone, and the devices listed are   *)
(* the ones there or the host is about to hear.                            *)
(***************************************************************************)
WasapiSaysHowItIs ==
  /\ wasapi.thread = "ended" /\ ~wasapi.stopEvent => ~wasapi.running
  /\ wasapi.main = "destroyed" => wasapi.notifier = "out"
  /\ wasapi.main # "destroyed" =>
       wasapi.list = wasapi.present \/ wasapi.news \/ wasapi.notifier = "calling"
=============================================================================
