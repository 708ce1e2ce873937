------------------------------ MODULE GainEdits ------------------------------
(***************************************************************************)
(* How WRAC Gain tells the host of an edit made in its page: gestures of    *)
(* the page (main.ts), WebView commands on the main thread (commands.rs),   *)
(* the queue of events for the host (params.rs), and process and            *)
(* params.flush, which empty it (audio.rs).  The main thread and the audio  *)
(* thread meet at the shared parameters and at the queue's TryLock.         *)
(*                                                                          *)
(* A gain is one of the amplitudes 0, 1, 2 (silence, unity, +6 dB); hosts   *)
(* see it in percent of the range.  Only the gain has a control.            *)
(***************************************************************************)
EXTENDS Integers, Sequences

CONSTANTS
  Overlapping,    \* FALSE: the user ends one input before starting the next
  MaxCalls,       \* bound on user inputs and on host calls of its own accord
  MaxRefused      \* bound on output events the host refuses

ASSUME OverlappingAssumption == Overlapping \in BOOLEAN
ASSUME BoundsAssumption      == MaxCalls \in Nat /\ MaxRefused \in Nat

Parameters == {"bypass", "gain"}
Levels     == 0..2                       \* MIN_GAIN .. MAX_GAIN

HostUnscaled(p, h) == h                  \* mutant: the host's value is stored as is

\* plain_to_host and host_to_plain; bypass is a switch at one half.
plain_to_host(p, v) == IF p = "gain" THEN 50 * v ELSE IF v >= 1 THEN 100 ELSE 0
host_to_plain(p, h) == IF p = "gain" THEN h \div 50 ELSE IF h >= 50 THEN 1 ELSE 0

Events == [kind : {"begin", "end"}] \cup [kind : {"value"}, value : 0..100]
GestureBegin == [kind |-> "begin"]
GestureEnd   == [kind |-> "end"]
ParamValue(v) == [kind |-> "value", value |-> plain_to_host("gain", v)]

VARIABLES
  params,                  \* SharedState: plain value of each parameter
  processor,               \* an ActiveProcessor exists
  pending, pending_lock,   \* WracGainParamOutputQueue
  cmd,                     \* steps left of the command being handled
  call,                    \* the host's process or params.flush, and where in it
  flush_requested,         \* the host owes the plugin a params.flush
  host_value,              \* the host's idea of each parameter
  ui, knob,                \* the page: its input state, the gain it displays
  invokes,                 \* commands the page has sent
  edits, delivered,        \* history: events pushed, events the host took
  mixed,                   \* history: host and page wrote the gain at once
  calls, refused           \* counters of the bounds

queue == <<pending, pending_lock>>
page  == <<ui, knob, invokes>>
history == <<edits, delivered, mixed>>
vars == <<params, processor, queue, cmd, call, flush_requested, host_value, page,
          history, calls, refused>>

NoCall == [kind |-> "none", at |-> "none", input |-> <<>>]
UiIdle == [gesture |-> FALSE, dragging |-> FALSE, wheel |-> FALSE, text |-> FALSE]

TypeOK ==
  /\ params.gain \in Levels /\ params.bypass \in 0..1
  /\ processor \in BOOLEAN
  /\ pending \in Seq(Events) /\ pending_lock \in {"free", "main", "audio"}
  /\ call.kind \in {"none", "process", "flush"}
  /\ call.at \in {"none", "drain", "moving", "input"}
  /\ flush_requested \in BOOLEAN
  /\ host_value \in [Parameters -> 0..100]
  /\ ui \in [gesture : BOOLEAN, dragging : BOOLEAN, wheel : BOOLEAN, text : BOOLEAN]
  /\ knob \in Levels
  /\ edits \in Seq(Events) /\ delivered \in Seq(Events)
  /\ mixed \in BOOLEAN /\ calls \in 0..MaxCalls /\ refused \in 0..MaxRefused

Init ==
  /\ params = [gain |-> 1, bypass |-> 0] /\ processor = FALSE
  /\ pending = <<>> /\ pending_lock = "free" /\ cmd = <<>> /\ call = NoCall
  /\ flush_requested = FALSE
  /\ host_value = [gain |-> 50, bypass |-> 0]
  /\ ui = UiIdle /\ knob = 1 /\ invokes = <<>>
  /\ edits = <<>> /\ delivered = <<>> /\ mixed = FALSE /\ calls = 0 /\ refused = 0

Counted == calls < MaxCalls /\ calls' = calls + 1

\* The main thread handles one thing at a time; a params.flush without an
\* active processor is one of them.
MainIdle == cmd = <<>> /\ (call.kind = "none" \/ processor)
-----------------------------------------------------------------------------
(* The page (main.ts). *)

BeginAlways == <<[name |-> "begin"]>>    \* mutant: the flag is not looked at

\* beginGesture and endGesture send one command per change of gestureActive.
BeginGesture == IF ui.gesture THEN <<>> ELSE <<[name |-> "begin"]>>
EndGesture   == IF ui.gesture THEN <<[name |-> "end"]>> ELSE <<>>

Send(s) == invokes' = invokes \o s

\* applyGain renders at once and sends the value; the knob turns to another level.
Turned == (knob + 1) % 3
SendGain == <<[name |-> "set", value |-> Turned]>>

\* The wheel's 120 ms have passed, the knob is free, the text field is closed.
InputFree == Overlapping \/ (~ ui.wheel /\ ~ ui.dragging /\ ~ ui.text)

PointerDown ==
  /\ InputFree /\ ~ ui.dragging
  /\ Send(BeginGesture)
  /\ ui' = [ui EXCEPT !.dragging = TRUE, !.gesture = TRUE]
  /\ UNCHANGED knob

PointerMove ==
  /\ ui.dragging
  /\ Send(SendGain) /\ knob' = Turned
  /\ UNCHANGED ui

PointerUp ==
  /\ ui.dragging
  /\ Send(EndGesture)
  /\ ui' = [ui EXCEPT !.dragging = FALSE, !.gesture = FALSE]
  /\ UNCHANGED knob

Wheel ==
  /\ InputFree \/ (ui.wheel /\ ~ ui.dragging /\ ~ ui.text)
  /\ Send(BeginGesture \o SendGain) /\ knob' = Turned
  /\ ui' = [ui EXCEPT !.wheel = TRUE, !.gesture = TRUE]

WheelTimeout ==
  /\ ui.wheel
  /\ Send(EndGesture)
  /\ ui' = [ui EXCEPT !.wheel = FALSE, !.gesture = FALSE]
  /\ UNCHANGED knob

EnterText ==
  /\ InputFree /\ ~ ui.text
  /\ ui' = [ui EXCEPT !.text = TRUE]
  /\ UNCHANGED <<invokes, knob>>

\* Enter in the text field, or the blur when another control is pressed; the
\* value comes back with the response.
CommitText ==
  /\ ui.text
  /\ Send(<<[name |-> "edit", value |-> 0]>>) /\ knob' = 0
  /\ ui' = [ui EXCEPT !.text = FALSE]

\* Escape in the text field.
CancelText ==
  /\ ui.text
  /\ ui' = [ui EXCEPT !.text = FALSE]
  /\ UNCHANGED <<invokes, knob>>

\* A double click resets the gain to its default.
DoubleClick ==
  /\ InputFree /\ ~ ui.dragging
  /\ Send(<<[name |-> "edit", value |-> 1]>>) /\ knob' = 1
  /\ UNCHANGED ui

\* beforeunload.
Unload ==
  /\ Send(EndGesture)
  /\ ui' = UiIdle
  /\ UNCHANGED knob

\* Inputs a user repeats at will are counted; the others end what was begun.
UserInput ==
  /\ \/ /\ Counted
        /\ PointerDown \/ PointerMove \/ Wheel \/ EnterText \/ DoubleClick \/ Unload
     \/ UNCHANGED calls /\ (PointerUp \/ WheelTimeout \/ CommitText \/ CancelText)
  /\ UNCHANGED <<params, processor, queue, cmd, call, flush_requested, host_value,
                 history, refused>>
-----------------------------------------------------------------------------
(* WebView commands (commands.rs), on the main thread. *)

Push(e) == [do |-> "push", event |-> e]
Set(v)  == [do |-> "set", value |-> v]

ProgramStoresLast(i) ==                  \* mutant: the host hears the old value
  CASE i.name = "begin" -> <<Push(GestureBegin)>>
    [] i.name = "end" -> <<Push(GestureEnd)>>
    [] i.name = "set" -> <<Push(ParamValue(params.gain)), Set(i.value)>>
    [] i.name = "edit" -> <<Push(GestureBegin), Push(ParamValue(params.gain)),
                            Set(i.value), Push(GestureEnd)>>

\* begin_parameter_gesture, end_parameter_gesture, set_parameter_value; and
\* set_parameter_text or reset_parameter_to_default.
Program(i) ==
  CASE i.name = "begin" -> <<Push(GestureBegin)>>
    [] i.name = "end" -> <<Push(GestureEnd)>>
    [] i.name = "set" -> <<Set(i.value), Push(ParamValue(i.value))>>
    [] i.name = "edit" -> <<Push(GestureBegin), Set(i.value),
                            Push(ParamValue(i.value)), Push(GestureEnd)>>

Handle ==
  /\ MainIdle /\ invokes # <<>>
  /\ invokes' = Tail(invokes)
  /\ cmd' = Program(Head(invokes))
  /\ UNCHANGED <<params, processor, queue, call, flush_requested, host_value, ui, knob,
                 history, calls, refused>>

Doing(what) == cmd # <<>> /\ Head(cmd).do = what

\* SharedState::set_parameter_value.
StoreValue ==
  /\ Doing("set")
  /\ params' = [params EXCEPT !.gain = Head(cmd).value]
  /\ cmd' = Tail(cmd)
  /\ UNCHANGED <<processor, queue, call, flush_requested, host_value, page, history,
                 calls, refused>>

\* WracGainParamOutputQueue::push: try_lock until it succeeds, push_back, unlock,
\* and ask the host for a flush.
LockQueue ==
  /\ Doing("push") /\ pending_lock = "free"
  /\ pending_lock' = "main"
  /\ UNCHANGED <<params, processor, pending, cmd, call, flush_requested, host_value,
                 page, history, calls, refused>>

Enqueue ==
  /\ pending_lock = "main"
  /\ pending' = Append(pending, Head(cmd).event) /\ pending_lock' = "free"
  /\ edits' = Append(edits, Head(cmd).event)
  /\ cmd' = [cmd EXCEPT ![1] = [do |-> "request"]]
  /\ UNCHANGED <<params, processor, call, flush_requested, host_value, page, delivered,
                 mixed, calls, refused>>

AskForNothing == UNCHANGED flush_requested     \* mutant: no request_flush

AskForFlush == flush_requested' = TRUE

RequestFlush ==
  /\ Doing("request")
  /\ AskForFlush
  /\ cmd' = Tail(cmd)
  /\ UNCHANGED <<params, processor, queue, call, host_value, page, history, calls, refused>>
-----------------------------------------------------------------------------
(* process and params.flush (audio.rs, params.rs). *)

\* An edit of the gain that the host has not been told of.
EditInFlight ==
  \/ \E i \in 1..Len(pending) : pending[i].kind = "value"
  \/ \E i \in 1..Len(cmd) :
       cmd[i].do = "set" \/ (cmd[i].do = "push" /\ cmd[i].event.kind = "value")

InputEvents == {[param |-> "gain", value |-> 0], [param |-> "gain", value |-> 100],
                [param |-> "bypass", value |-> 100]}

FirstOf(kind) == IF kind = "process" THEN "drain" ELSE "input"

\* Blocks that would carry nothing are left out; params.flush comes when the
\* plugin asked for it or the host has an event.
BeginCall(kind, input) ==
  /\ call.kind = "none" /\ (processor \/ MainIdle)
  /\ kind = "process" => processor
  /\ call' = [kind |-> kind, input |-> input, at |-> FirstOf(kind)]
  /\ flush_requested' = FALSE
  /\ UNCHANGED <<params, processor, queue, cmd, host_value, page, history, refused>>

CallWithoutInput ==
  /\ UNCHANGED calls
  /\ \E kind \in {"process", "flush"} :
       /\ flush_requested \/ (kind = "process" /\ pending # <<>>)
       /\ BeginCall(kind, <<>>)

CallWithInput ==
  /\ Counted
  /\ \E kind \in {"process", "flush"}, e \in InputEvents : BeginCall(kind, <<e>>)

\* process drains first and then applies its input; params.flush the reverse.
AfterDrain == IF call.kind = "process" THEN [call EXCEPT !.at = "input"] ELSE NoCall
AfterInput == IF call.kind = "flush" THEN [call EXCEPT !.at = "drain"] ELSE NoCall

\* apply_realtime_param_event, apply_param_input_events.
ApplyInput ==
  /\ call.at = "input"
  /\ call' = AfterInput
  /\ IF call.input = <<>> THEN UNCHANGED <<params, host_value, mixed>>
     ELSE LET e == Head(call.input) IN
       /\ params' = [params EXCEPT ![e.param] = host_to_plain(e.param, e.value)]
       /\ host_value' = [host_value EXCEPT ![e.param] = e.value]
       /\ mixed' = (mixed \/ (e.param = "gain" /\ EditInFlight))
  /\ UNCHANGED <<processor, queue, cmd, flush_requested, page, edits, delivered, calls,
                 refused>>

\* drain: one attempt at the lock.
TryDrain ==
  /\ call.at = "drain"
  /\ IF pending_lock = "free"
     THEN pending_lock' = "audio" /\ call' = [call EXCEPT !.at = "moving"]
     ELSE call' = AfterDrain /\ UNCHANGED pending_lock
  /\ UNCHANGED <<params, processor, pending, cmd, flush_requested, host_value, page,
                 history, calls, refused>>

PutBackLast == Append(Tail(pending), Head(pending))   \* mutant: push_back

\* After a refused try_push, push_front leaves the queue as it was.
PutBack == pending

Learn(e) == host_value' = IF e.kind = "value" THEN [host_value EXCEPT !.gain = e.value]
                          ELSE host_value

MoveEvent ==
  /\ call.at = "moving" /\ pending # <<>>
  /\ pending' = Tail(pending)
  /\ delivered' = Append(delivered, Head(pending))
  /\ Learn(Head(pending))
  /\ UNCHANGED <<params, processor, pending_lock, cmd, call, flush_requested, page,
                 edits, mixed, calls, refused>>

\* The host's output queue is full; a host that refused an event calls again.
Refuse ==
  /\ call.at = "moving" /\ pending # <<>>
  /\ refused < MaxRefused /\ refused' = refused + 1
  /\ pending' = PutBack /\ pending_lock' = "free" /\ call' = AfterDrain
  /\ flush_requested' = TRUE
  /\ UNCHANGED <<params, processor, cmd, host_value, page, history, calls>>

EndDrain ==
  /\ call.at = "moving" /\ pending = <<>>
  /\ pending_lock' = "free" /\ call' = AfterDrain
  /\ UNCHANGED <<params, processor, pending, cmd, flush_requested, host_value, page,
                 history, calls, refused>>
-----------------------------------------------------------------------------
(* Host callbacks on the main thread. *)

Activate ==
  /\ MainIdle /\ call.kind = "none" /\ ~ processor
  /\ processor' = TRUE
  /\ UNCHANGED <<params, queue, cmd, call, flush_requested, host_value, page, history,
                 calls, refused>>

Deactivate ==
  /\ MainIdle /\ call.kind = "none" /\ processor /\ Counted
  /\ processor' = FALSE
  /\ UNCHANGED <<params, queue, cmd, call, flush_requested, host_value, page, history,
                 refused>>

\* restore_parameters of a project with gain 2, and the adapter's rescan_values.
Restore ==
  /\ MainIdle /\ Counted
  /\ params' = [gain |-> 2, bypass |-> 0]
  /\ host_value' = [p \in Parameters |-> plain_to_host(p, params'[p])]
  /\ mixed' = (mixed \/ EditInFlight)
  /\ UNCHANGED <<processor, queue, cmd, call, flush_requested, page, edits, delivered,
                 refused>>
-----------------------------------------------------------------------------
Command == StoreValue \/ LockQueue \/ Enqueue \/ RequestFlush
InCall  == ApplyInput \/ TryDrain \/ MoveEvent \/ Refuse \/ EndDrain

Quiet == /\ MainIdle /\ call.kind = "none" /\ ~ flush_requested
         /\ pending = <<>> /\ invokes = <<>>

\* Nothing is under way and no call is left.
Rest == Quiet /\ calls = MaxCalls /\ UNCHANGED vars

Next == \/ UserInput \/ Handle \/ Command \/ CallWithoutInput \/ CallWithInput
        \/ InCall \/ Activate \/ Deactivate \/ Restore \/ Rest

\* Both threads run, and the host answers a flush request.
Spec == /\ Init /\ [][Next]_vars
        /\ WF_vars(Handle) /\ WF_vars(Command)
        /\ WF_vars(CallWithoutInput) /\ WF_vars(InCall)
-----------------------------------------------------------------------------
(* Properties. *)

\* What the host received, followed by what waits for it, is what the editor
\* pushed: no event is lost, doubled or overtaken by a refused push, a busy
\* lock, or the change from one processor to the other.
EditsInOrder == delivered \o pending = edits

\* A gesture is open before event i of s.
InGesture(s, i) ==
  \E j \in 1..(i - 1) :
    s[j].kind = "begin" /\ \A k \in (j + 1)..(i - 1) : s[k].kind # "end"

\* main.ts: "CLAP parameter changes must be wrapped in a gesture begin/end
\* pair."  Gestures do not nest, values and ends lie inside one, and when no
\* input is under way none is left open.
ValuesInGestures ==
  /\ \A i \in 1..Len(edits) : edits[i].kind = "begin" <=> ~ InGesture(edits, i)
  /\ cmd = <<>> /\ invokes = <<>> /\ ~ ui.gesture => ~ InGesture(edits, Len(edits) + 1)

\* When all is quiet the host's value of the gain is the plugin's, unless the
\* host wrote it while an edit was on its way.
HostAgrees ==
  Quiet /\ ~ mixed => host_value.gain = plain_to_host("gain", params.gain)

\* Every edit reaches the host, although process and params.flush give up on a
\* busy queue and the host may refuse an event.
EveryEditDelivered == pending # <<>> ~> pending = <<>>
=============================================================================
