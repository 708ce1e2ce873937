--------------------------- MODULE GainEditsProofs ---------------------------
(***************************************************************************)
(* Proofs about GainEdits, for any number of inputs, host calls and refused *)
(* events.  Order and agreement hold with overlapping inputs or without;   *)
(* gestures pair up when one input ends before the next begins, the case   *)
(* the model check covers: two at once share the page's one gesture flag.  *)
(***************************************************************************)
EXTENDS GainEdits, SequenceTheorems, TLAPS

(* The inductive invariant. *)

Steps == [do : {"push"}, event : Events] \cup [do : {"set"}, value : Levels]
           \cup [do : {"request"}]
Commands == [name : {"begin", "end"}] \cup [name : {"set", "edit"}, value : Levels]
Inputs == {<<>>} \cup {<<e>> : e \in InputEvents}

\* What TypeOK leaves open: the shapes of records, and the messages on their way.
Shapes ==
  /\ params \in [gain : Levels, bypass : 0..1]
  /\ cmd \in Seq(Steps)
  /\ invokes \in Seq(Commands)
  /\ call \in [kind : {"none", "process", "flush"},
               at : {"none", "drain", "moving", "input"}, input : Inputs]

\* The main thread holds the queue only inside push.
LockedInPush == pending_lock = "main" => cmd # <<>> /\ Head(cmd).do = "push"

IInv == TypeOK /\ Shapes /\ LockedInPush /\ EditsInOrder
-----------------------------------------------------------------------------
(* Lemmas about the operators. *)

\* What push is given is an event.
LEMMA EventTypes ==
  /\ GestureBegin \in Events /\ GestureEnd \in Events
  /\ \A v \in Levels : ParamValue(v) \in Events
BY DEF GestureBegin, GestureEnd, ParamValue, Events, plain_to_host, Levels

\* One element makes a sequence.
LEMMA SingletonSeq == ASSUME NEW S, NEW e \in S PROVE <<e>> \in Seq(S)
OBVIOUS

\* The steps of a command are steps.
LEMMA ProgramType == ASSUME NEW i \in Commands PROVE Program(i) \in Seq(Steps)
<1>1. /\ Push(GestureBegin) \in Steps /\ Push(GestureEnd) \in Steps
      /\ \A v \in Levels : Set(v) \in Steps /\ Push(ParamValue(v)) \in Steps
  BY EventTypes DEF Push, Set, Steps
<1>2. i.name \in {"set", "edit"} => i.value \in Levels
  BY DEF Commands
<1> HIDE DEF Steps
<1>3. CASE i.name = "begin"
  BY <1>1, <1>3 DEF Program
<1>4. CASE i.name = "end"
  BY <1>1, <1>4 DEF Program
<1>5. CASE i.name = "set"
  BY <1>1, <1>2, <1>5 DEF Program
<1>6. CASE i.name = "edit"
  BY <1>1, <1>2, <1>6 DEF Program
<1> QED BY <1>3, <1>4, <1>5, <1>6 DEF Commands

\* Moving the first event of the queue to the end of what was delivered.
LEMMA MoveKeepsConcat ==
  ASSUME NEW S, NEW s \in Seq(S), NEW t \in Seq(S), t # <<>>
  PROVE  Append(s, Head(t)) \o Tail(t) = s \o t
<1>1. Head(t) \in S /\ Tail(t) \in Seq(S)
  BY HeadTailProperties
<1>2. Append(s, Head(t)) = s \o <<Head(t)>>
  BY <1>1, AppendIsConcat
<1>3. (s \o <<Head(t)>>) \o Tail(t) = s \o (<<Head(t)>> \o Tail(t))
  BY <1>1, ConcatAssociative
<1>4. <<Head(t)>> \o Tail(t) = t
  BY <1>1
<1> QED BY <1>2, <1>3, <1>4

\* Pushing at the end of the queue is pushing at the end of the history.
LEMMA AppendKeepsConcat ==
  ASSUME NEW S, NEW s \in Seq(S), NEW t \in Seq(S), NEW e \in S
  PROVE  s \o Append(t, e) = Append(s \o t, e)
<1>1. s \o t \in Seq(S) /\ <<e>> \in Seq(S)
  BY ConcatProperties
<1> QED BY <1>1, AppendIsConcat, ConcatAssociative
-----------------------------------------------------------------------------
\* The initial state.
LEMMA InitInv == Init => IInv
<1> SUFFICES ASSUME Init PROVE IInv
  OBVIOUS
<1>1. TypeOK
  <2>1. /\ host_value \in [Parameters -> 0..100]
        /\ params.gain \in Levels /\ params.bypass \in 0..1 /\ knob \in Levels
    BY DEF Init, Levels, Parameters
  <2>2. pending \in Seq(Events) /\ edits \in Seq(Events) /\ delivered \in Seq(Events)
    BY DEF Init
  <2>3. calls \in 0..MaxCalls /\ refused \in 0..MaxRefused
    BY BoundsAssumption DEF Init
  <2> QED BY <2>1, <2>2, <2>3 DEF Init, UiIdle, NoCall, TypeOK
<1>2. Shapes /\ LockedInPush
  BY DEF Init, NoCall, Shapes, Levels, Steps, Commands, Inputs, LockedInPush
<1>3. EditsInOrder
  BY DEF Init, EditsInOrder
<1> QED BY <1>1, <1>2, <1>3 DEF IInv

\* What the page's inputs send and leave behind.
LEMMA InputInv == ASSUME IInv, UserInput PROVE IInv'
<1>1. /\ UNCHANGED <<params, processor, queue, cmd, call, flush_requested, host_value,
                    history, refused>>
      /\ calls' \in 0..MaxCalls
  BY BoundsAssumption DEF UserInput, Counted, IInv, TypeOK
<1>2. Turned \in Levels
  BY DEF Turned, IInv, TypeOK, Levels
<1>3. /\ [name |-> "begin"] \in Commands /\ [name |-> "end"] \in Commands
      /\ \A v \in Levels : /\ [name |-> "set", value |-> v] \in Commands
                           /\ [name |-> "edit", value |-> v] \in Commands
  BY DEF Commands
<1>4. 0 \in Levels /\ 1 \in Levels
  BY DEF Levels
<1>5. knob' \in Levels /\ \E s \in Seq(Commands) : invokes' = invokes \o s
  <2>1. /\ BeginGesture \in Seq(Commands) /\ EndGesture \in Seq(Commands)
        /\ <<>> \in Seq(Commands)
    BY <1>3 DEF BeginGesture, EndGesture
  <2>2. SendGain \in Seq(Commands)
    BY <1>2, <1>3, SingletonSeq DEF SendGain
  <2>3. BeginGesture \o SendGain \in Seq(Commands)
    BY <2>1, <2>2, ConcatProperties
  <2>4. \A v \in Levels : <<[name |-> "edit", value |-> v]>> \in Seq(Commands)
    BY <1>3, SingletonSeq
  <2>5. invokes = invokes \o <<>>
    BY ConcatEmptySeq DEF IInv, Shapes
  <2>6. knob \in Levels
    BY DEF IInv, TypeOK
  <2> HIDE DEF Commands
  <2>7. CASE EnterText \/ CancelText
    BY <2>1, <2>5, <2>6, <2>7 DEF EnterText, CancelText
  <2>8. CASE PointerDown \/ PointerUp \/ WheelTimeout \/ Unload
    BY <2>1, <2>6, <2>8 DEF PointerDown, PointerUp, WheelTimeout, Unload, Send
  <2>9. CASE PointerMove \/ Wheel
    BY <1>2, <2>2, <2>3, <2>9 DEF PointerMove, Wheel, Send
  <2>10. CASE CommitText \/ DoubleClick
    BY <1>4, <2>4, <2>10 DEF CommitText, DoubleClick, Send
  <2> QED BY <2>7, <2>8, <2>9, <2>10 DEF UserInput
<1>6. invokes' \in Seq(Commands)
  BY <1>5, ConcatProperties DEF IInv, Shapes
<1>7. ui' \in [gesture : BOOLEAN, dragging : BOOLEAN, wheel : BOOLEAN, text : BOOLEAN]
  <2> USE DEF IInv, TypeOK
  <2>1. CASE PointerDown \/ PointerUp
    BY <2>1 DEF PointerDown, PointerUp
  <2>2. CASE Wheel \/ WheelTimeout
    BY <2>2 DEF Wheel, WheelTimeout
  <2>3. CASE EnterText \/ CommitText \/ CancelText
    BY <2>3 DEF EnterText, CommitText, CancelText
  <2>4. CASE PointerMove \/ DoubleClick
    BY <2>4 DEF PointerMove, DoubleClick
  <2>5. CASE Unload
    BY <2>5 DEF Unload, UiIdle
  <2> QED BY <2>1, <2>2, <2>3, <2>4, <2>5 DEF UserInput
<1> QED BY <1>1, <1>5, <1>6, <1>7
        DEF IInv, TypeOK, Shapes, LockedInPush, EditsInOrder, queue, history

\* The handling of a command, from the page's message to the flush request.
LEMMA CommandInv == ASSUME IInv, Handle \/ Command PROVE IInv'
<1> USE DEF IInv
<1>1. CASE Handle
  <2>1. Head(invokes) \in Commands /\ Tail(invokes) \in Seq(Commands)
    BY <1>1, HeadTailProperties DEF Handle, Shapes
  <2>2. cmd' \in Seq(Steps) /\ invokes' \in Seq(Commands)
    BY <1>1, <2>1, ProgramType DEF Handle
  <2>3. pending_lock # "main"
    BY <1>1 DEF Handle, MainIdle, LockedInPush
  <2> QED BY <1>1, <2>2, <2>3
          DEF Handle, TypeOK, Shapes, LockedInPush, EditsInOrder, queue, history
<1>2. ASSUME cmd # <<>>
      PROVE  Head(cmd) \in Steps /\ Tail(cmd) \in Seq(Steps)
  BY <1>2, HeadTailProperties DEF Shapes
<1>3. CASE StoreValue
  <2>1. Head(cmd).value \in Levels
    BY <1>2, <1>3 DEF StoreValue, Doing, Steps
  <2>2. params' \in [gain : Levels, bypass : 0..1] /\ cmd' \in Seq(Steps)
    BY <1>2, <1>3, <2>1 DEF StoreValue, Doing, Shapes
  <2>3. pending_lock # "main"
    BY <1>3 DEF StoreValue, Doing, LockedInPush
  <2> QED BY <1>3, <2>2, <2>3
          DEF StoreValue, TypeOK, Shapes, LockedInPush, EditsInOrder, queue, page, history
<1>4. CASE LockQueue
  <2>1. TypeOK'
    BY <1>4 DEF LockQueue, Doing, TypeOK, page, history
  <2>2. Shapes'
    BY <1>4 DEF LockQueue, Doing, Shapes, page, history
  <2>3. LockedInPush' /\ EditsInOrder'
    BY <1>4 DEF LockQueue, Doing, LockedInPush, EditsInOrder, page, history
  <2> QED BY <2>1, <2>2, <2>3
<1>5. CASE Enqueue
  <2>1. cmd # <<>> /\ Head(cmd).event \in Events
    BY <1>2, <1>5 DEF Enqueue, LockedInPush, Steps
  <2>2. /\ pending' \in Seq(Events) /\ edits' \in Seq(Events)
        /\ delivered' \o pending' = edits'
    BY SMTT(30), <1>5, <2>1, AppendProperties, AppendKeepsConcat
       DEF Enqueue, TypeOK, EditsInOrder
  <2>3. cmd' \in Seq(Steps)
    <3>1. 1 \in 1..Len(cmd) /\ [do |-> "request"] \in Steps
      BY <2>1, EmptySeq DEF Shapes, Steps
    <3> QED BY <1>5, <3>1, ExceptSeq DEF Enqueue, Shapes
  <2>4. TypeOK'
    BY <1>5, <2>2, <2>3 DEF Enqueue, TypeOK, page
  <2>5. Shapes'
    BY <1>5, <2>2, <2>3 DEF Enqueue, Shapes, page
  <2>6. LockedInPush' /\ EditsInOrder'
    BY <1>5, <2>2, <2>3 DEF Enqueue, LockedInPush, EditsInOrder, page
  <2> QED BY <2>4, <2>5, <2>6
<1>6. CASE RequestFlush
  <2>1. pending_lock # "main"
    BY <1>6 DEF RequestFlush, Doing, LockedInPush
  <2> QED BY <1>2, <1>6, <2>1
          DEF RequestFlush, Doing, AskForFlush, TypeOK, Shapes, LockedInPush,
              EditsInOrder, queue, page, history
<1> QED BY <1>1, <1>3, <1>4, <1>5, <1>6 DEF Command

\* The host enters process or params.flush.
LEMMA BeginCallInv == ASSUME IInv, CallWithoutInput \/ CallWithInput PROVE IInv'
<1>1. PICK kind \in {"process", "flush"}, input \in Inputs : BeginCall(kind, input)
  BY DEF CallWithoutInput, CallWithInput, Inputs
<1>2. calls' \in 0..MaxCalls
  BY BoundsAssumption DEF CallWithoutInput, CallWithInput, Counted, IInv, TypeOK
<1>3. call' \in [kind : {"none", "process", "flush"},
                 at : {"none", "drain", "moving", "input"}, input : Inputs]
  BY <1>1 DEF BeginCall, FirstOf
<1> QED BY <1>1, <1>2, <1>3
        DEF BeginCall, IInv, TypeOK, Shapes, LockedInPush, EditsInOrder, queue, page,
            history

\* The steps of process and params.flush.
LEMMA InCallInv == ASSUME IInv, InCall PROVE IInv'
<1> DEFINE CallShape == [kind : {"none", "process", "flush"},
                         at : {"none", "drain", "moving", "input"}, input : Inputs]
<1> USE DEF IInv
<1>1. AfterDrain \in CallShape /\ AfterInput \in CallShape
  BY DEF AfterDrain, AfterInput, NoCall, Inputs, Shapes
<1>2. CASE ApplyInput
  <2>1. /\ params' \in [gain : Levels, bypass : 0..1]
        /\ host_value' \in [Parameters -> 0..100]
        /\ mixed' \in BOOLEAN
    <3>1. CASE call.input = <<>>
      BY <1>2, <3>1 DEF ApplyInput, Shapes, TypeOK
    <3>2. CASE call.input # <<>>
      <4>1. PICK e \in InputEvents : call.input = <<e>>
        BY <3>2 DEF Shapes, Inputs
      <4>2. /\ params' = [params EXCEPT ![e.param] = host_to_plain(e.param, e.value)]
            /\ host_value' = [host_value EXCEPT ![e.param] = e.value]
            /\ mixed' = (mixed \/ (e.param = "gain" /\ EditInFlight))
        BY <1>2, <4>1 DEF ApplyInput
      <4>3. CASE e.param = "gain"
        <5>1. host_to_plain(e.param, e.value) \in Levels /\ e.value \in 0..100
          BY <4>3 DEF InputEvents, host_to_plain, Levels
        <5> QED BY <4>2, <4>3, <5>1 DEF Shapes, TypeOK, Parameters, EditInFlight
      <4>4. CASE e.param = "bypass"
        <5>1. host_to_plain(e.param, e.value) \in 0..1 /\ e.value \in 0..100
          BY <4>4 DEF InputEvents, host_to_plain
        <5> QED BY <4>2, <4>4, <5>1 DEF Shapes, TypeOK, Parameters, EditInFlight
      <4> QED BY <4>3, <4>4 DEF InputEvents
    <3> QED BY <3>1, <3>2
  <2> QED BY <1>1, <1>2, <2>1
          DEF ApplyInput, TypeOK, Shapes, LockedInPush, EditsInOrder, queue, page
<1>3. CASE TryDrain
  <2>1. call' \in CallShape
    BY <1>1, <1>3 DEF TryDrain, Shapes
  <2> QED BY ZenonT(40), <1>3, <2>1
          DEF TryDrain, TypeOK, Shapes, LockedInPush, EditsInOrder, page, history
<1>4. CASE MoveEvent
  <2>1. Head(pending) \in Events /\ Tail(pending) \in Seq(Events)
    BY <1>4, HeadTailProperties DEF MoveEvent, TypeOK
  <2>2. delivered' \in Seq(Events) /\ pending' \in Seq(Events)
    BY <1>4, <2>1, AppendProperties DEF MoveEvent, TypeOK
  <2>3. delivered' \o pending' = edits'
    <3>1. Append(delivered, Head(pending)) \o Tail(pending) = delivered \o pending
      <4>1. delivered \in Seq(Events) /\ pending \in Seq(Events) /\ pending # <<>>
        BY <1>4 DEF MoveEvent, TypeOK
      <4> QED BY <4>1, MoveKeepsConcat
    <3> QED BY <1>4, <3>1 DEF MoveEvent, EditsInOrder
  <2>4. host_value' \in [Parameters -> 0..100]
    BY <1>4, <2>1 DEF MoveEvent, Learn, Events, TypeOK, Parameters
  <2>5. TypeOK'
    BY ZenonT(60), <1>4, <2>2, <2>3, <2>4 DEF MoveEvent, TypeOK, page
  <2>6. Shapes'
    BY <1>4, <2>2, <2>3, <2>4 DEF MoveEvent, Shapes, page
  <2>7. LockedInPush' /\ EditsInOrder'
    BY <1>4, <2>2, <2>3, <2>4 DEF MoveEvent, LockedInPush, EditsInOrder, page
  <2> QED BY <2>5, <2>6, <2>7
<1>5. CASE Refuse
  <2>1. refused' \in 0..MaxRefused
    BY <1>5, BoundsAssumption DEF Refuse, TypeOK
  <2> QED BY ZenonT(60), <1>1, <1>5, <2>1
          DEF Refuse, PutBack, TypeOK, Shapes, LockedInPush, EditsInOrder, page, history
<1>6. CASE EndDrain
  BY <1>1, <1>6 DEF EndDrain, TypeOK, Shapes, LockedInPush, EditsInOrder, page, history
<1> QED BY <1>2, <1>3, <1>4, <1>5, <1>6 DEF InCall

\* The host's main-thread callbacks.
LEMMA HostInv == ASSUME IInv, Activate \/ Deactivate \/ Restore PROVE IInv'
<1> USE DEF IInv
<1>1. CASE Activate
  BY ZenonT(60), <1>1
     DEF Activate, TypeOK, Shapes, LockedInPush, EditsInOrder, queue, page, history
<1>2. CASE Deactivate
  <2>1. calls' \in 0..MaxCalls
    BY <1>2, BoundsAssumption DEF Deactivate, Counted, TypeOK
  <2>2. TypeOK'
    BY <1>2, <2>1 DEF Deactivate, TypeOK, queue, page, history
  <2>3. Shapes'
    BY <1>2, <2>1 DEF Deactivate, Shapes, queue, page, history
  <2>4. LockedInPush' /\ EditsInOrder'
    BY <1>2, <2>1 DEF Deactivate, LockedInPush, EditsInOrder, queue, page, history
  <2> QED BY <2>2, <2>3, <2>4
<1>3. CASE Restore
  <2>1. params' \in [gain : Levels, bypass : 0..1] /\ mixed' \in BOOLEAN
    BY <1>3 DEF Restore, Levels, EditInFlight, TypeOK
  <2>2. host_value' \in [Parameters -> 0..100]
    BY <1>3 DEF Restore, Parameters, plain_to_host
  <2>3. calls' \in 0..MaxCalls
    BY <1>3, BoundsAssumption DEF Restore, Counted, TypeOK
  <2>4. TypeOK'
    BY <1>3, <2>1, <2>2, <2>3 DEF Restore, TypeOK, queue, page
  <2>5. Shapes'
    BY <1>3, <2>1, <2>2, <2>3 DEF Restore, Shapes, queue, page
  <2>6. LockedInPush' /\ EditsInOrder'
    BY <1>3, <2>1, <2>2, <2>3 DEF Restore, LockedInPush, EditsInOrder, queue, page
  <2> QED BY <2>4, <2>5, <2>6
<1> QED BY <1>1, <1>2, <1>3

\* IInv is inductive.
LEMMA NextInv == IInv /\ [Next]_vars => IInv'
<1>1. IInv /\ UNCHANGED vars => IInv'
  BY DEF vars, queue, page, history, IInv, TypeOK, Shapes, LockedInPush, EditsInOrder
<1> QED BY <1>1, InputInv, CommandInv, BeginCallInv, InCallInv, HostInv DEF Next, Rest

\* The inductive invariant holds throughout.
THEOREM InductiveInvariant == Spec => []IInv
BY InitInv, NextInv, PTL DEF Spec

\* The types of the edit path, whatever the page and the host do.
THEOREM EditTypes == Spec => []TypeOK
<1>1. IInv => TypeOK
  BY DEF IInv
<1> QED BY <1>1, InductiveInvariant, PTL

\* params.rs: whatever the host refuses, and however process, params.flush and
\* the editor meet at the queue, the host gets the editor's events in order,
\* each once.
THEOREM EditsKeepOrder == Spec => []EditsInOrder
<1>1. IInv => EditsInOrder
  BY DEF IInv
<1> QED BY <1>1, InductiveInvariant, PTL
-----------------------------------------------------------------------------
(* Gestures.  Each command and each step of one needs the gesture open or closed, *)
(* and leaves it open or closed: what is on its way fits together, from the last  *)
(* event pushed to the state of the page.                                         *)

\* A step that pushes a value; the gesture a step needs open, and leaves open.
ValueStep(s)     == s.do = "push" /\ s.event.kind = "value"
StepNeeds(s)     == s.do = "set" \/ s.event.kind # "begin"
StepLeaves(s)    == s.do = "set" \/ s.event.kind # "end"
\* The same of a command of the page.
CommandNeeds(i)  == i.name \in {"set", "end"}
CommandLeaves(i) == i.name \in {"set", "begin"}

\* From gesture state a (open?) the steps of s, in order, lead to b.
StepsFit(s, a, b) ==
  /\ s = <<>> => (a <=> b)
  /\ s # <<>> => (StepNeeds(s[1]) <=> a) /\ (StepLeaves(s[Len(s)]) <=> b)
  /\ \A i \in 1..(Len(s) - 1) : StepLeaves(s[i]) <=> StepNeeds(s[i + 1])

\* From gesture state a the commands of s lead to b.
CommandsFit(s, a, b) ==
  /\ s = <<>> => (a <=> b)
  /\ s # <<>> => (CommandNeeds(s[1]) <=> a) /\ (CommandLeaves(s[Len(s)]) <=> b)
  /\ \A i \in 1..(Len(s) - 1) : CommandLeaves(s[i]) <=> CommandNeeds(s[i + 1])

\* The steps that push or store: a pushed event still has its flush to request.
Unrequested == IF cmd # <<>> /\ Head(cmd).do = "request" THEN Tail(cmd) ELSE cmd

\* A gesture is open after the events of s.
Open(s) == InGesture(s, Len(s) + 1)

\* Every stored value is pushed right after, and nothing else is a value.
CommandShape ==
  /\ \A i \in 2..Len(cmd) :
       cmd[i].do # "request" /\ (ValueStep(cmd[i]) => cmd[i - 1].do = "set")
  /\ \A i \in 1..Len(cmd) : cmd[i].do = "set" =>
        i < Len(cmd) /\ cmd[i + 1] = Push(ParamValue(cmd[i].value))

\* With the inputs one after another: a gesture is a drag or a turn of the wheel.
InputsApart ==
  /\ ui.gesture <=> ui.dragging \/ ui.wheel
  /\ ~ (ui.dragging /\ ui.wheel) /\ ~ (ui.text /\ (ui.dragging \/ ui.wheel))

\* The events pushed, the steps to come, the commands to come and the page.
GesturesFit ==
  \E m \in BOOLEAN : StepsFit(Unrequested, Open(edits), m) /\ CommandsFit(invokes, m, ui.gesture)

\* Gestures do not nest, and values and ends lie inside one.
GesturesPaired == \A i \in 1..Len(edits) : edits[i].kind = "begin" <=> ~ InGesture(edits, i)

GInv == InputsApart /\ CommandShape /\ GesturesFit /\ GesturesPaired

\* Without its first step, what is left starts where that step leaves the gesture.
LEMMA StepsFitTail ==
  ASSUME NEW s \in Seq(Steps), s # <<>>, NEW a \in BOOLEAN, NEW b \in BOOLEAN,
         StepsFit(s, a, b)
  PROVE  StepsFit(Tail(s), StepLeaves(s[1]), b)
<1> DEFINE t == Tail(s)
<1>1. /\ t \in Seq(Steps) /\ Len(t) = Len(s) - 1 /\ Len(s) \in Nat /\ Len(s) > 0
      /\ \A i \in 1..(Len(s) - 1) : t[i] = s[i + 1]
  OBVIOUS
<1> HIDE DEF t
<1>2. t = <<>> <=> Len(t) = 0
  BY <1>1, EmptySeq
<1>3. StepsFit(t, StepLeaves(s[1]), b)
  BY <1>1, <1>2 DEF StepsFit
<1> QED BY <1>3 DEF t

\* The same for the commands still to be handled.
LEMMA CommandsFitTail ==
  ASSUME NEW s \in Seq(Commands), s # <<>>, NEW a \in BOOLEAN, NEW b \in BOOLEAN,
         CommandsFit(s, a, b)
  PROVE  CommandsFit(Tail(s), CommandLeaves(s[1]), b)
<1> DEFINE t == Tail(s)
<1>1. /\ t \in Seq(Commands) /\ Len(t) = Len(s) - 1 /\ Len(s) \in Nat /\ Len(s) > 0
      /\ \A i \in 1..(Len(s) - 1) : t[i] = s[i + 1]
  OBVIOUS
<1> HIDE DEF t
<1>2. t = <<>> <=> Len(t) = 0
  BY <1>1, EmptySeq
<1>3. CommandsFit(t, CommandLeaves(s[1]), b)
  BY <1>1, <1>2 DEF CommandsFit
<1> QED BY <1>3 DEF t

\* A command sent next must need what the last one leaves.
LEMMA CommandsFitAppend ==
  ASSUME NEW s \in Seq(Commands), NEW e \in Commands, NEW a \in BOOLEAN, NEW b \in BOOLEAN,
         CommandsFit(s, a, b), CommandNeeds(e) <=> b
  PROVE  CommandsFit(Append(s, e), a, CommandLeaves(e))
  BY DEF CommandsFit

\* One more event changes only what comes after it.
LEMMA InGestureAppend ==
  ASSUME NEW s \in Seq(Events), NEW e \in Events
  PROVE  /\ \A i \in 1..(Len(s) + 1) : InGesture(Append(s, e), i) <=> InGesture(s, i)
         /\ Open(Append(s, e)) <=> e.kind = "begin" \/ (Open(s) /\ e.kind # "end")
  BY SMTT(30) DEF InGesture, Open

\* Every command begins and ends in the gesture state it needs and leaves.
LEMMA ProgramFits ==
  ASSUME NEW i \in Commands
  PROVE  StepsFit(Program(i), CommandNeeds(i), CommandLeaves(i))
<1>1. CASE i.name = "begin"
  BY <1>1 DEF Program, Push, GestureBegin, StepsFit, StepNeeds, StepLeaves,
              CommandNeeds, CommandLeaves
<1>2. CASE i.name = "end"
  BY <1>2 DEF Program, Push, GestureEnd, StepsFit, StepNeeds, StepLeaves,
              CommandNeeds, CommandLeaves
<1>3. CASE i.name = "set"
  BY <1>3 DEF Program, Push, Set, ParamValue, StepsFit, StepNeeds, StepLeaves,
              CommandNeeds, CommandLeaves
<1>4. CASE i.name = "edit"
  BY <1>4 DEF Program, Push, Set, GestureBegin, GestureEnd, ParamValue, StepsFit,
              StepNeeds, StepLeaves, CommandNeeds, CommandLeaves
<1> QED BY <1>1, <1>2, <1>3, <1>4 DEF Commands

\* A command stores before it pushes, and never starts with a pushed value.
LEMMA ProgramShape ==
  ASSUME NEW i \in Commands, cmd' = Program(i)
  PROVE  CommandShape' /\ cmd' # <<>> /\ Head(cmd').do # "request" /\ ~ ValueStep(cmd'[1])
<1>1. CASE i.name = "begin"
  BY <1>1 DEF Program, Push, GestureBegin, CommandShape, ValueStep
<1>2. CASE i.name = "end"
  BY <1>2 DEF Program, Push, GestureEnd, CommandShape, ValueStep
<1>3. CASE i.name = "set"
  BY <1>3 DEF Program, Push, Set, ParamValue, CommandShape, ValueStep
<1>4. CASE i.name = "edit"
  BY <1>4 DEF Program, Push, Set, GestureBegin, GestureEnd, ParamValue, CommandShape,
              ValueStep
<1> QED BY <1>1, <1>2, <1>3, <1>4 DEF Commands

\* CommandShape is inductive.
LEMMA ShapeStep == ASSUME IInv, CommandShape, [Next]_vars PROVE CommandShape'
<1> USE DEF IInv
<1>1. CASE Handle
  <2>1. Head(invokes) \in Commands
    BY <1>1, HeadTailProperties DEF Handle, Shapes
  <2> QED BY <1>1, <2>1, ProgramShape DEF Handle
<1>2. CASE StoreValue \/ RequestFlush
  <2> DEFINE t == Tail(cmd)
  <2>1. /\ Len(t) = Len(cmd) - 1 /\ Len(cmd) \in Nat /\ Len(cmd) > 0
        /\ \A i \in 1..(Len(cmd) - 1) : t[i] = cmd[i + 1]
    BY <1>2 DEF StoreValue, RequestFlush, Doing, Shapes
  <2>2. cmd' = t
    BY <1>2 DEF StoreValue, RequestFlush
  <2> HIDE DEF t
  <2>3. \A i \in 2..Len(t) :
          /\ t[i].do # "request"
          /\ ValueStep(t[i]) => t[i - 1].do = "set"
    <3> SUFFICES ASSUME NEW i \in 2..Len(t)
                 PROVE  t[i].do # "request" /\ (ValueStep(t[i]) => t[i - 1].do = "set")
      OBVIOUS
    <3>1. i + 1 \in 2..Len(cmd) /\ t[i] = cmd[i + 1] /\ t[i - 1] = cmd[(i + 1) - 1]
      BY <2>1
    <3> QED BY <3>1 DEF CommandShape
  <2>4. \A i \in 1..Len(t) : t[i].do = "set" =>
           i < Len(t) /\ t[i + 1] = Push(ParamValue(t[i].value))
    <3> SUFFICES ASSUME NEW i \in 1..Len(t), t[i].do = "set"
                 PROVE  i < Len(t) /\ t[i + 1] = Push(ParamValue(t[i].value))
      OBVIOUS
    <3>1. i + 1 \in 1..Len(cmd) /\ t[i] = cmd[i + 1]
      BY <2>1
    <3>2. i + 1 < Len(cmd) /\ cmd[(i + 1) + 1] = Push(ParamValue(t[i].value))
      BY <3>1 DEF CommandShape
    <3> QED BY <2>1, <3>2
  <2> QED BY <2>2, <2>3, <2>4 DEF CommandShape
<1>3. CASE Enqueue
  <2>1. cmd \in Seq(Steps) /\ cmd # <<>> /\ cmd[1].do = "push"
    BY <1>3 DEF Enqueue, LockedInPush, Shapes
  <2>2. /\ Len(cmd') = Len(cmd) /\ Len(cmd) \in Nat /\ cmd'[1] = [do |-> "request"]
        /\ \A i \in 2..Len(cmd) : cmd'[i] = cmd[i]
    BY <1>3, <2>1 DEF Enqueue
  <2>3. \A i \in 1..Len(cmd) : cmd'[i].do = "set" => i \in 2..Len(cmd)
    BY <2>2
  <2>4. \A i \in 2..Len(cmd) : ValueStep(cmd[i]) => i # 2
    BY <2>1 DEF CommandShape
  <2> QED BY <2>1, <2>2, <2>3, <2>4 DEF CommandShape
<1>4. CASE ~ (Handle \/ StoreValue \/ RequestFlush \/ Enqueue)
  <2>1. cmd' = cmd
    BY <1>4 DEF Next, vars, queue, page, history, UserInput, Command, LockQueue,
                CallWithoutInput, CallWithInput, BeginCall, InCall, ApplyInput, TryDrain,
                MoveEvent, Refuse, EndDrain, Activate, Deactivate, Restore, Rest
  <2> QED BY <2>1 DEF CommandShape
<1> QED BY <1>1, <1>2, <1>3, <1>4

\* Without Overlapping, no two inputs are under way at once.
LEMMA ApartStep == ASSUME ~ Overlapping, IInv, InputsApart, UserInput PROVE InputsApart'
<1> USE DEF InputsApart, IInv, TypeOK
<1>1. CASE PointerDown \/ PointerMove \/ PointerUp
  BY <1>1 DEF PointerDown, PointerMove, PointerUp, InputFree
<1>2. CASE Wheel \/ WheelTimeout
  BY <1>2 DEF Wheel, WheelTimeout, InputFree
<1>3. CASE EnterText \/ CommitText \/ CancelText \/ DoubleClick
  BY <1>3 DEF EnterText, CommitText, CancelText, DoubleClick, InputFree
<1>4. CASE Unload
  BY <1>4 DEF Unload, UiIdle
<1> QED BY <1>1, <1>2, <1>3, <1>4 DEF UserInput

\* What an input sends fits the gesture before it and leaves the one after it.
LEMMA InputFits ==
  ASSUME ~ Overlapping, IInv, InputsApart, UserInput,
         NEW m \in BOOLEAN, CommandsFit(invokes, m, ui.gesture)
  PROVE  CommandsFit(invokes', m, ui'.gesture)
<1> USE DEF IInv, InputsApart
<1>1. /\ invokes \in Seq(Commands)
      /\ ui \in [gesture : BOOLEAN, dragging : BOOLEAN, wheel : BOOLEAN, text : BOOLEAN]
  BY DEF Shapes, TypeOK
<1>2. /\ [name |-> "begin"] \in Commands /\ [name |-> "end"] \in Commands
      /\ \A v \in Levels : /\ [name |-> "set", value |-> v] \in Commands
                           /\ [name |-> "edit", value |-> v] \in Commands
      /\ Turned \in Levels /\ 0 \in Levels /\ 1 \in Levels
  BY DEF Commands, Turned, TypeOK, Levels
<1>3. /\ invokes \o <<>> = invokes
      /\ \A e \in Commands : invokes \o <<e>> = Append(invokes, e)
  BY <1>1
<1>4. \A e \in Commands : (CommandNeeds(e) <=> ui.gesture) =>
         /\ Append(invokes, e) \in Seq(Commands)
         /\ CommandsFit(Append(invokes, e), m, CommandLeaves(e))
  BY <1>1, CommandsFitAppend
<1>5. /\ ~ CommandNeeds([name |-> "begin"]) /\ CommandNeeds([name |-> "end"])
      /\ CommandLeaves([name |-> "begin"]) = TRUE /\ CommandLeaves([name |-> "end"]) = FALSE
      /\ \A v \in Levels : /\ ~ CommandNeeds([name |-> "edit", value |-> v])
                           /\ CommandLeaves([name |-> "edit", value |-> v]) = FALSE
  BY DEF CommandNeeds, CommandLeaves
<1>down. CASE PointerDown
  BY <1>1, <1>2, <1>3, <1>4, <1>down
     DEF PointerDown, InputFree, Send, BeginGesture, CommandNeeds, CommandLeaves
<1>6. CASE PointerMove
  BY <1>1, <1>2, <1>3, <1>4, <1>6 DEF PointerMove, Send, SendGain, CommandNeeds,
                    CommandLeaves
<1>7. CASE PointerUp \/ WheelTimeout
  <2>1. ui.gesture /\ ui'.gesture = FALSE
    BY <1>1, <1>7 DEF PointerUp, WheelTimeout
  <2>2. invokes' = Append(invokes, [name |-> "end"])
    BY <1>2, <1>3, <1>7, <2>1 DEF PointerUp, WheelTimeout, Send, EndGesture
  <2> QED BY <1>2, <1>4, <1>5, <2>1, <2>2
<1>8. CASE Wheel
  <2> DEFINE b == [name |-> "begin"]  e == [name |-> "set", value |-> Turned]
  <2>1. ui'.gesture = TRUE
    BY <1>1, <1>8 DEF Wheel
  <2>2. CASE ui.gesture
    <3>1. invokes' = Append(invokes, e)
      BY <1>1, <1>2, <1>3, <1>8, <2>2 DEF Wheel, Send, BeginGesture, SendGain
    <3> QED BY <1>1, <1>2, <1>4, <2>1, <2>2, <3>1 DEF CommandNeeds, CommandLeaves
  <2>3. CASE ~ ui.gesture
    <3>1. invokes' = Append(Append(invokes, b), e)
      BY <1>1, <1>2, <1>8, <2>3 DEF Wheel, Send, BeginGesture, SendGain
    <3>2. Append(invokes, b) \in Seq(Commands) /\ CommandsFit(Append(invokes, b), m, TRUE)
      BY <1>1, <1>2, <1>4, <2>3 DEF CommandNeeds, CommandLeaves
    <3>3. CommandNeeds(e) <=> TRUE
      BY DEF CommandNeeds
    <3>4. CommandLeaves(e) <=> TRUE
      BY DEF CommandLeaves
    <3>5. CommandsFit(Append(Append(invokes, b), e), m, CommandLeaves(e))
      BY <1>2, <3>2, <3>3, CommandsFitAppend
    <3> QED BY <2>1, <3>1, <3>4, <3>5
  <2> QED BY <1>1, <2>2, <2>3
<1>9. CASE EnterText \/ CancelText
  BY <1>1, <1>9 DEF EnterText, CancelText
<1>10. CASE CommitText \/ DoubleClick
  <2>1. ui.gesture = FALSE /\ ui'.gesture = FALSE
    BY <1>1, <1>10 DEF CommitText, DoubleClick, InputFree
  <2>2. PICK v \in Levels : invokes' = Append(invokes, [name |-> "edit", value |-> v])
    BY <1>2, <1>3, <1>10 DEF CommitText, DoubleClick, Send
  <2> QED BY <1>2, <1>4, <1>5, <2>1, <2>2
<1>11. CASE Unload
  <2>1. ui'.gesture = FALSE
    BY <1>11 DEF Unload, UiIdle
  <2>2. CASE ui.gesture
    <3>1. invokes' = Append(invokes, [name |-> "end"])
      BY <1>2, <1>3, <1>11, <2>2 DEF Unload, Send, EndGesture
    <3> QED BY <1>2, <1>4, <1>5, <2>1, <2>2, <3>1
  <2>3. CASE ~ ui.gesture
    <3>1. invokes' = invokes /\ ui.gesture = FALSE
      BY <1>1, <1>3, <1>11, <2>3 DEF Unload, Send, EndGesture
    <3> QED BY <2>1, <3>1
  <2> QED BY <2>2, <2>3
<1> QED BY <1>down, <1>6, <1>7, <1>8, <1>9, <1>10, <1>11 DEF UserInput

\* The initial state has no gesture open.
LEMMA GInvInit == Init => GInv
<1> SUFFICES ASSUME Init PROVE GInv
  OBVIOUS
<1>1. Open(edits) = FALSE
  BY DEF Init, Open, InGesture
<1>2. StepsFit(Unrequested, FALSE, FALSE) /\ CommandsFit(invokes, FALSE, FALSE)
  BY DEF Init, Unrequested, StepsFit, CommandsFit
<1>3. GesturesFit
  <2>1. ui.gesture = FALSE
    BY DEF Init, UiIdle
  <2> QED BY <1>1, <1>2, <2>1 DEF GesturesFit
<1> QED BY <1>3 DEF GInv, InputsApart, CommandShape, GesturesPaired, Init, UiIdle

\* GInv is inductive.
LEMMA GInvStep == ASSUME ~ Overlapping, IInv, GInv, [Next]_vars PROVE GInv'
<1> USE DEF IInv, GInv
<1>1. CommandShape'
  BY ShapeStep
<1> PICK m \in BOOLEAN : /\ StepsFit(Unrequested, Open(edits), m)
                         /\ CommandsFit(invokes, m, ui.gesture)
  BY DEF GesturesFit
<1>2. Open(edits) \in BOOLEAN /\ cmd \in Seq(Steps) /\ invokes \in Seq(Commands)
      /\ ui.gesture \in BOOLEAN
  BY DEF Open, InGesture, Shapes, TypeOK
<1>open. Open(edits)' \in BOOLEAN /\ Open(edits)' = Open(edits')
  BY DEF Open, InGesture
<1>flags. \A st : StepLeaves(st) \in BOOLEAN /\ StepNeeds(st) \in BOOLEAN
  BY DEF StepLeaves, StepNeeds
<1>3. CASE UserInput
  <2>1. UNCHANGED <<cmd, edits>>
    BY <1>3 DEF UserInput, history
  <2>2. GesturesFit'
    BY <1>3, <2>1, InputFits DEF GesturesFit, Unrequested
  <2> QED BY <1>1, <1>3, <2>1, <2>2, ApartStep DEF GesturesPaired
<1>4. CASE Handle
  <2> DEFINE i == Head(invokes)
  <2>1. invokes # <<>> /\ i \in Commands /\ i = invokes[1]
    BY <1>4, <1>2, HeadTailProperties DEF Handle
  <2>2. UNCHANGED <<edits, ui>> /\ cmd = <<>> /\ cmd' = Program(i) /\ invokes' = Tail(invokes)
    BY <1>4 DEF Handle, MainIdle, history
  <2> HIDE DEF i
  <2>3. /\ Open(edits) <=> m
        /\ CommandNeeds(i) <=> m
    BY <2>1, <2>2 DEF Unrequested, StepsFit, CommandsFit
  <2>4. Unrequested' = Program(i)
    BY <2>1, <2>2, ProgramShape DEF Unrequested
  <2>5. StepsFit(Program(i), m, CommandLeaves(i))
    BY <2>1, <2>3, ProgramFits DEF CommandNeeds
  <2>6. CommandsFit(Tail(invokes), CommandLeaves(i), ui.gesture)
    BY <1>2, <2>1, CommandsFitTail
  <2>7. CommandLeaves(i) \in BOOLEAN
    BY DEF CommandLeaves
  <2>8. GesturesFit'
    BY <1>2, <1>open, <2>2, <2>3, <2>4, <2>5, <2>6, <2>7 DEF GesturesFit
  <2> QED BY <1>1, <2>2, <2>8 DEF GesturesPaired, InputsApart
<1>5. CASE StoreValue
  <2>1. /\ cmd # <<>> /\ cmd[1].do = "set" /\ cmd' = Tail(cmd)
        /\ UNCHANGED <<edits, ui, invokes>>
    BY <1>5 DEF StoreValue, Doing, page, history
  <2>2. Unrequested = cmd
    BY <2>1 DEF Unrequested
  <2>3. Unrequested' = Tail(cmd)
    BY <1>1, <1>2, <2>1 DEF Unrequested, CommandShape
  <2>4. StepsFit(Tail(cmd), StepLeaves(cmd[1]), m)
    BY <1>2, <2>1, <2>2, StepsFitTail
  <2>5. StepLeaves(cmd[1]) <=> Open(edits)
    BY <2>1, <2>2 DEF StepsFit, StepLeaves, StepNeeds
  <2>6. GesturesFit'
    BY <1>2, <1>open, <1>flags, <2>1, <2>3, <2>4, <2>5 DEF GesturesFit
  <2> QED BY <1>1, <2>1, <2>6 DEF GesturesPaired, InputsApart
<1>6. CASE Enqueue
  <2> DEFINE e == Head(cmd).event
  <2>1. cmd # <<>> /\ cmd[1].do = "push" /\ e \in Events /\ e = cmd[1].event
    <3>1. cmd # <<>> /\ cmd[1].do = "push" /\ cmd[1] \in Steps
      BY <1>2, <1>6 DEF Enqueue, LockedInPush
    <3> QED BY <3>1 DEF Steps
  <2>2. /\ edits' = Append(edits, e) /\ UNCHANGED <<ui, invokes>>
        /\ cmd' = [cmd EXCEPT ![1] = [do |-> "request"]]
    BY <1>6 DEF Enqueue, page
  <2>3. edits \in Seq(Events)
    BY DEF TypeOK
  <2> HIDE DEF e
  <2>4. Unrequested = cmd
    BY <2>1 DEF Unrequested
  <2>5. Unrequested' = Tail(cmd)
    <3>1. cmd' # <<>> /\ Head(cmd') = [do |-> "request"] /\ Tail(cmd') = Tail(cmd)
      BY <1>2, <2>1, <2>2
    <3> QED BY <3>1 DEF Unrequested
  <2>6. StepsFit(Tail(cmd), StepLeaves(cmd[1]), m)
    BY <1>2, <2>1, <2>4, StepsFitTail
  <2>7. e.kind # "begin" <=> Open(edits)
    BY <2>1, <2>4 DEF StepsFit, StepNeeds
  <2>8. Open(edits') <=> e.kind # "end"
    BY <2>1, <2>2, <2>3, <2>7, InGestureAppend
  <2>9. StepLeaves(cmd[1]) <=> Open(edits')
    BY <2>1, <2>8 DEF StepLeaves
  <2>10. GesturesFit'
    BY <1>2, <1>open, <1>flags, <2>2, <2>5, <2>6, <2>9 DEF GesturesFit
  <2>11. GesturesPaired'
    <3>1. Len(edits') = Len(edits) + 1 /\ Len(edits) \in Nat
      BY <2>1, <2>2, <2>3
    <3>2. \A j \in 1..(Len(edits) + 1) : InGesture(edits', j) <=> InGesture(edits, j)
      BY <2>1, <2>2, <2>3, InGestureAppend
    <3>3. /\ edits'[Len(edits) + 1] = e
          /\ \A j \in 1..Len(edits) : edits'[j] = edits[j]
      BY <2>1, <2>2, <2>3
    <3>4. InGesture(edits', Len(edits) + 1) <=> Open(edits)
      BY <3>1, <3>2 DEF Open
    <3> QED BY <2>7, <3>1, <3>2, <3>3, <3>4 DEF GesturesPaired
  <2> QED BY <1>1, <2>2, <2>10, <2>11 DEF InputsApart
<1>7. CASE RequestFlush
  <2>1. /\ cmd # <<>> /\ Head(cmd).do = "request" /\ cmd' = Tail(cmd)
        /\ UNCHANGED <<edits, ui, invokes>>
    BY <1>7 DEF RequestFlush, Doing, page, history
  <2>2. Unrequested = Tail(cmd)
    BY <2>1 DEF Unrequested
  <2>3. Unrequested' = Tail(cmd)
    BY <1>1, <1>2, <2>1 DEF Unrequested, CommandShape
  <2>4. GesturesFit'
    BY <2>1, <2>2, <2>3 DEF GesturesFit
  <2> QED BY <1>1, <2>1, <2>4 DEF GesturesPaired, InputsApart
<1>8. CASE ~ (UserInput \/ Handle \/ StoreValue \/ Enqueue \/ RequestFlush)
  <2>1. UNCHANGED <<cmd, edits, ui, invokes>>
    BY <1>8 DEF Next, vars, queue, page, history, Command, LockQueue,
                CallWithoutInput, CallWithInput, BeginCall, InCall, ApplyInput, TryDrain,
                MoveEvent, Refuse, EndDrain, Activate, Deactivate, Restore, Rest
  <2> QED BY <1>1, <2>1 DEF GesturesFit, Unrequested, GesturesPaired, InputsApart
<1> QED BY <1>3, <1>4, <1>5, <1>6, <1>7, <1>8

\* main.ts: with one input after another, gestures do not nest, values and ends
\* lie inside one, and none stays open when nothing is under way.
THEOREM GesturesHold == ASSUME ~ Overlapping PROVE Spec => []ValuesInGestures
<1>1. IInv /\ GInv => ValuesInGestures
  <2> SUFFICES ASSUME IInv, GInv PROVE ValuesInGestures
    OBVIOUS
  <2>1. ASSUME cmd = <<>>, invokes = <<>>, ~ ui.gesture
        PROVE  ~ InGesture(edits, Len(edits) + 1)
    BY <2>1 DEF GInv, GesturesFit, Unrequested, StepsFit, CommandsFit, Open
  <2> QED BY <2>1 DEF GInv, GesturesPaired, ValuesInGestures
<1>2. IInv /\ GInv /\ [Next]_vars => (IInv /\ GInv)'
  BY GInvStep, NextInv
<1>3. Init => IInv /\ GInv
  BY InitInv, GInvInit
<1> QED BY <1>1, <1>2, <1>3, PTL DEF Spec
-----------------------------------------------------------------------------
(* The gain the host knows: what it was told last, or what is stored and about *)
(* to be pushed.                                                               *)

\* No value is among the events.
NoValue(s) == \A i \in 1..Len(s) : s[i].kind # "value"

\* With the events in pending the host will have learned x.
Told(x) ==
  /\ NoValue(pending) => host_value.gain = x
  /\ \A i \in 1..Len(pending) :
       /\ pending[i].kind = "value"
       /\ \A j \in (i + 1)..Len(pending) : pending[j].kind # "value"
       => pending[i].value = x

\* The plugin's gain, as the host counts.
Gain == plain_to_host("gain", params.gain)

\* A value about to be pushed, or the host told and to be told, is the gain stored.
Agree ==
  ~ mixed => IF cmd # <<>> /\ ValueStep(cmd[1]) THEN cmd[1].event.value = Gain ELSE Told(Gain)

\* An event pushed leaves the host to be told its value, or what it was to be told.
LEMMA ToldAppend ==
  ASSUME IInv, NEW e \in Events, pending' = Append(pending, e), NEW x,
         UNCHANGED host_value,
         IF e.kind = "value" THEN e.value = x ELSE Told(x)
  PROVE  Told(x)'
<1>1. /\ Len(pending') = Len(pending) + 1 /\ Len(pending) \in Nat
      /\ pending'[Len(pending) + 1] = e
      /\ \A i \in 1..Len(pending) : pending'[i] = pending[i]
  BY DEF IInv, TypeOK
<1>2. CASE e.kind = "value"
  BY <1>1, <1>2 DEF Told, NoValue
<1>3. CASE e.kind # "value"
  <2>1. NoValue(pending)' <=> NoValue(pending)
    BY <1>1, <1>3 DEF NoValue
  <2> QED BY <1>1, <1>3, <2>1 DEF Told
<1> QED BY <1>2, <1>3

\* An event taken by the host leaves it to be told the same value.
LEMMA ToldMove ==
  ASSUME IInv, MoveEvent, NEW x, Told(x)
  PROVE  Told(x)'
<1> DEFINE t == Tail(pending)
<1>1. /\ Len(t) = Len(pending) - 1 /\ Len(pending) \in Nat /\ Len(pending) > 0
      /\ \A i \in 1..(Len(pending) - 1) : t[i] = pending[i + 1]
      /\ Head(pending) = pending[1]
  BY DEF MoveEvent, IInv, TypeOK
<1>2. pending' = t
  BY DEF MoveEvent
<1> HIDE DEF t
<1>3. \A i \in 1..Len(t) : i + 1 \in 2..Len(pending) /\ t[i] = pending[i + 1]
  BY <1>1
<1>4. \A i \in 2..Len(pending) : i - 1 \in 1..Len(t) /\ t[i - 1] = pending[i]
  BY <1>1
<1>5. NoValue(t) <=> \A i \in 2..Len(pending) : pending[i].kind # "value"
  BY <1>3, <1>4 DEF NoValue
<1>6. NoValue(t) => host_value'.gain = x
  <2> SUFFICES ASSUME NoValue(t) PROVE host_value'.gain = x
    OBVIOUS
  <2>1. \A i \in 2..Len(pending) : pending[i].kind # "value"
    BY <1>5
  <2>2. CASE pending[1].kind = "value"
    <3>1. pending[1].value = x
      BY <1>1, <2>1, <2>2 DEF Told
    <3> QED BY <1>1, <2>2, <3>1 DEF MoveEvent, Learn, IInv, TypeOK, Parameters
  <2>3. CASE pending[1].kind # "value"
    <3>1. NoValue(pending)
      BY <1>1, <2>1, <2>3 DEF NoValue
    <3> QED BY <1>1, <2>3, <3>1 DEF MoveEvent, Learn, Told
  <2> QED BY <2>2, <2>3
<1>7. ASSUME NEW i \in 1..Len(t), t[i].kind = "value",
             \A j \in (i + 1)..Len(t) : t[j].kind # "value"
      PROVE  t[i].value = x
  <2>1. \A j \in ((i + 1) + 1)..Len(pending) : pending[j].kind # "value"
    <3> SUFFICES ASSUME NEW j \in ((i + 1) + 1)..Len(pending) PROVE pending[j].kind # "value"
      OBVIOUS
    <3>1. j - 1 \in (i + 1)..Len(t) /\ t[j - 1] = pending[j]
      BY <1>1, <1>4
    <3> QED BY <1>7, <3>1
  <2> QED BY <1>1, <1>3, <1>7, <2>1 DEF Told
<1> QED BY <1>2, <1>6, <1>7 DEF Told, NoValue

\* The host's value of a gain, back and forth.
LEMMA RoundTrip ==
  ASSUME NEW e \in InputEvents, e.param = "gain"
  PROVE  plain_to_host("gain", host_to_plain("gain", e.value)) = e.value
BY DEF InputEvents, plain_to_host, host_to_plain

\* At the start the host knows the default.
LEMMA AgreeInit == Init => Agree
BY DEF Init, Agree, Told, NoValue, Gain, plain_to_host, Levels

\* The host writes the gain, and no edit is on its way.
LEMMA ToldAnew ==
  ASSUME IInv, ~ EditInFlight, UNCHANGED <<pending, cmd>>, host_value'.gain = Gain'
  PROVE  Agree'
<1>1. NoValue(pending) /\ ~ (cmd # <<>> /\ ValueStep(cmd[1]))
  <2>1. cmd # <<>> => 1 \in 1..Len(cmd)
    BY DEF IInv, Shapes
  <2> QED BY <2>1 DEF EditInFlight, NoValue, ValueStep
<1>2. Told(Gain)'
  BY <1>1 DEF Told, NoValue
<1> QED BY <1>1, <1>2 DEF Agree, ValueStep

\* Agree is inductive.
LEMMA AgreeStep == ASSUME IInv, CommandShape, Agree, [Next]_vars PROVE Agree'
<1> USE DEF IInv
<1>1. cmd \in Seq(Steps)
  BY DEF Shapes
<1>2. CASE Handle
  <2>1. Head(invokes) \in Commands
    BY <1>2, HeadTailProperties DEF Handle, Shapes
  <2>2. ~ ValueStep(cmd'[1]) /\ cmd = <<>>
    BY <1>2, <2>1, ProgramShape DEF Handle, MainIdle
  <2>3. UNCHANGED <<pending, host_value, params, mixed>>
    BY <1>2 DEF Handle, queue, history
  <2> QED BY <2>2, <2>3 DEF Agree, Told, NoValue, Gain
<1>3. CASE StoreValue
  <2>1. /\ cmd[1].do = "set" /\ cmd' = Tail(cmd) /\ cmd # <<>> /\ params'.gain = cmd[1].value
    BY <1>3 DEF StoreValue, Doing, Shapes
  <2>2. 1 < Len(cmd) /\ cmd[2] = Push(ParamValue(cmd[1].value))
    BY <1>1, <2>1 DEF CommandShape
  <2>3. cmd' # <<>> /\ cmd'[1] = cmd[2]
    BY <1>1, <2>1, <2>2
  <2>4. ValueStep(cmd'[1]) /\ cmd'[1].event.value = Gain'
    BY <2>1, <2>2, <2>3 DEF ValueStep, Push, ParamValue, Gain
  <2> QED BY <2>3, <2>4 DEF Agree
<1>4. CASE Enqueue
  <2> DEFINE e == Head(cmd).event
  <2>1. cmd # <<>> /\ cmd[1].do = "push" /\ e \in Events /\ e = cmd[1].event
    <3>1. cmd # <<>> /\ cmd[1].do = "push" /\ cmd[1] \in Steps
      BY <1>1, <1>4 DEF Enqueue, LockedInPush
    <3> QED BY <3>1 DEF Steps
  <2>2. /\ pending' = Append(pending, e) /\ UNCHANGED <<host_value, params, mixed>>
        /\ cmd'[1].do = "request"
    BY <1>1, <1>4, <2>1 DEF Enqueue
  <2> HIDE DEF e
  <2>3. SUFFICES ASSUME ~ mixed PROVE Told(Gain)'
    BY <2>2 DEF Agree, ValueStep
  <2>4. IF e.kind = "value" THEN e.value = Gain ELSE Told(Gain)
    BY <2>1, <2>3 DEF Agree, ValueStep
  <2> QED BY <2>1, <2>2, <2>4, ToldAppend DEF Gain
<1>5. CASE RequestFlush
  <2>1. /\ cmd # <<>> /\ cmd[1].do = "request" /\ cmd' = Tail(cmd)
        /\ UNCHANGED <<pending, host_value, params, mixed>>
    BY <1>1, <1>5 DEF RequestFlush, Doing, queue, history
  <2>2. cmd' # <<>> => cmd'[1] = cmd[2] /\ 2 \in 2..Len(cmd)
    BY <1>1, <2>1
  <2>3. cmd' # <<>> => ~ ValueStep(cmd'[1])
    BY <2>1, <2>2 DEF CommandShape
  <2> QED BY <2>1, <2>3 DEF Agree, ValueStep, Told, NoValue, Gain
<1>6. CASE MoveEvent
  <2>1. UNCHANGED <<cmd, params, mixed>>
    BY <1>6 DEF MoveEvent
  <2> QED BY <1>6, <2>1, ToldMove DEF Agree, Gain
<1>7. CASE ApplyInput
  <2>1. UNCHANGED <<pending, cmd>>
    BY <1>7 DEF ApplyInput, queue
  <2>2. CASE call.input = <<>>
    BY <1>7, <2>1, <2>2 DEF ApplyInput, Agree, Told, NoValue, Gain
  <2>3. CASE call.input # <<>>
    <3>1. PICK e \in InputEvents : call.input = <<e>>
      BY <2>3 DEF Shapes, Inputs
    <3>2. /\ params' = [params EXCEPT ![e.param] = host_to_plain(e.param, e.value)]
          /\ host_value' = [host_value EXCEPT ![e.param] = e.value]
          /\ mixed' = (mixed \/ (e.param = "gain" /\ EditInFlight))
      BY <1>7, <3>1 DEF ApplyInput
    <3>3. CASE e.param = "gain"
      <4>1. host_value'.gain = Gain'
        BY <3>2, <3>3, RoundTrip DEF Gain, Shapes, TypeOK, Parameters
      <4> QED BY <2>1, <3>2, <3>3, <4>1, ToldAnew DEF Agree
    <3>4. CASE e.param = "bypass"
      <4>1. host_value'.gain = host_value.gain /\ params'.gain = params.gain /\ mixed' = mixed
        BY <3>2, <3>4 DEF Shapes, TypeOK, Parameters
      <4> QED BY <2>1, <4>1 DEF Agree, Told, NoValue, Gain
    <3> QED BY <3>3, <3>4 DEF InputEvents
  <2> QED BY <2>2, <2>3
<1>8. CASE Restore
  <2>1. UNCHANGED <<pending, cmd>> /\ mixed' = (mixed \/ EditInFlight)
    BY <1>8 DEF Restore, queue
  <2>2. host_value'.gain = Gain'
    BY <1>8 DEF Restore, Gain, Parameters
  <2> QED BY <2>1, <2>2, ToldAnew DEF Agree
<1>9. CASE ~ (Handle \/ StoreValue \/ Enqueue \/ RequestFlush \/ MoveEvent
              \/ ApplyInput \/ Restore)
  <2>1. UNCHANGED <<pending, cmd, params, host_value, mixed>>
    BY <1>9 DEF Next, vars, queue, page, history, UserInput, Command, LockQueue,
                CallWithoutInput, CallWithInput, BeginCall, InCall, TryDrain,
                Refuse, PutBack, EndDrain, Activate, Deactivate, Rest
  <2> QED BY <2>1 DEF Agree, Told, NoValue, Gain
<1> QED BY <1>2, <1>3, <1>4, <1>5, <1>6, <1>7, <1>8, <1>9

\* When the page, the queue and the host are quiet, the host's gain is the
\* plugin's, unless the host wrote it while an edit was on its way.
THEOREM HostAgreesWithPlugin == Spec => []HostAgrees
<1>1. IInv /\ Agree => HostAgrees
  BY DEF Agree, Told, NoValue, Gain, HostAgrees, Quiet, MainIdle
<1>2. Init => CommandShape
  BY DEF Init, CommandShape
<1>3. /\ Init => IInv /\ CommandShape /\ Agree
      /\ IInv /\ CommandShape /\ Agree /\ [Next]_vars => (IInv /\ CommandShape /\ Agree)'
  BY <1>2, InitInv, AgreeInit, NextInv, ShapeStep, AgreeStep
<1> QED BY <1>1, <1>3, PTL DEF Spec

=============================================================================
