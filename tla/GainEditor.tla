----------------------------- MODULE GainEditor -----------------------------
(***************************************************************************)
(* WRAC Gain's project state and the editor page that displays it: the      *)
(* latency that is selected, reported and saved (latency.rs), state save    *)
(* and restore (plugin/state.rs), the WebView commands (commands.rs), the   *)
(* notifier's posts and the 33 ms timer (notifier.rs, runtime.rs), and the  *)
(* page's start and handlers (main.ts).  All of it runs on the main thread  *)
(* except host automation, which writes the gain from the audio thread.     *)
(***************************************************************************)
EXTENDS Integers, Sequences

CONSTANTS
  Frames,             \* LATENCY_FRAME_CHOICES
  NotAChoice,         \* a latency some saved state holds and no choice is
  LoadWhileOpening,   \* TRUE: the host may load a state while the page starts
  MaxCalls            \* bound on user inputs and on the host's calls

ASSUME FramesAssumption ==
  Frames \subseteq Nat /\ 0 \in Frames /\ NotAChoice \in Nat \ Frames
ASSUME LoadAssumption  == LoadWhileOpening \in BOOLEAN
ASSUME BoundAssumption == MaxCalls \in Nat

Levels == 0..2                          \* MIN_GAIN .. MAX_GAIN, default 1
Pages  == {"controls", "settings"}      \* About is another page like Settings
Kinds  == {"gain", "page", "latency"}   \* GuiSubscriptionKind

States == [gain : Levels, page : Pages, latency : Frames]
Fresh  == [gain |-> 1, page |-> "controls", latency |-> 0]

VARIABLES
  state,               \* SharedState, ProjectStateStore, selected_frames
  active_frames,       \* the latency reported to the host
  processor,           \* an ActiveProcessor exists
  restart_requested,   \* the host was asked for a restart it has not done
  dirty, saved,        \* the host's project: modified?, its copy of the state
  editor, visible,     \* the GUI runtime exists; its timer runs
  boot,                \* replies the start of the page has received
  subscriptions,       \* kinds the page is subscribed to
  invokes, posts,      \* to the main thread, and from it to the page
  shown,               \* what the page displays
  calls                \* counter of the bound

project == <<dirty, saved>>
report  == <<active_frames, processor, restart_requested>>
gui     == <<editor, visible, boot, subscriptions, invokes, posts, shown>>
vars    == <<state, report, project, gui, calls>>

Counted == calls < MaxCalls /\ calls' = calls + 1

Init ==
  /\ state = Fresh /\ active_frames = 0
  /\ processor = FALSE /\ restart_requested = FALSE
  /\ dirty = FALSE /\ saved = Fresh
  /\ editor = FALSE /\ visible = FALSE /\ boot = 0
  /\ subscriptions = {} /\ invokes = <<>> /\ posts = <<>> /\ shown = Fresh
  /\ calls = 0
-----------------------------------------------------------------------------
(* Messages.  A message gives the page the value of a kind, or none;        *)
(* "starts" marks the replies that the start of the page awaits.            *)

Message(k, v, starts) == [kind |-> k, value |-> v, starts |-> starts]
Notice(s, k) == Message(k, s[k], FALSE)

\* GuiStateNotifier::notify: one post for each subscription of the kind.
Notify(s, k) == IF k \in subscriptions THEN <<Notice(s, k)>> ELSE <<>>

\* The start of the page: fetch, then subscribe, kind by kind.
BootScript ==
  <<[name |-> "get", kind |-> "gain"], [name |-> "subscribe", kind |-> "gain"],
    [name |-> "get", kind |-> "page"], [name |-> "subscribe", kind |-> "page"],
    [name |-> "get", kind |-> "latency"], [name |-> "subscribe", kind |-> "latency"]>>

Started == boot = Len(BootScript)

Display(k, v) == [shown EXCEPT ![k] = v]
-----------------------------------------------------------------------------
(* The page (main.ts). *)

\* WracGainGuiRuntime::create: the WebView loads the page and the timer starts.
Open ==
  /\ ~ editor
  /\ editor' = TRUE /\ visible' = TRUE /\ boot' = 0
  /\ invokes' = <<BootScript[1]>> /\ posts' = <<>> /\ shown' = Fresh
  /\ UNCHANGED <<state, report, project, subscriptions, calls>>

\* setEditorPage and applyGain render before they invoke; the select element
\* shows the choice by itself.
Choose(k, v) ==
  /\ visible /\ Counted
  /\ shown' = Display(k, v)
  /\ invokes' = Append(invokes, [name |-> "set", kind |-> k, value |-> v])
  /\ UNCHANGED <<state, report, project, editor, visible, boot, subscriptions, posts>>

SetEditorPage == \E p \in Pages \ {shown.page} : Choose("page", p)
ApplyGain     == \E g \in Levels \ {shown.gain} : Choose("gain", g)

\* The choices come with the reply to get_latency.
SelectLatency ==
  /\ boot >= 5 /\ shown.page = "settings"
  /\ \E f \in Frames \ {shown.latency} : Choose("latency", f)

\* A reply or a notification reaches the page, and the start goes on.
Deliver ==
  /\ posts # <<>>
  /\ shown' = IF Head(posts).kind = "none" THEN shown
              ELSE Display(Head(posts).kind, Head(posts).value)
  /\ posts' = Tail(posts)
  /\ IF Head(posts).starts
     THEN /\ boot' = boot + 1
          /\ invokes' = IF boot' < Len(BootScript)
                        THEN Append(invokes, BootScript[boot' + 1]) ELSE invokes
     ELSE UNCHANGED <<boot, invokes>>
  /\ UNCHANGED <<state, report, project, editor, visible, subscriptions, calls>>
-----------------------------------------------------------------------------
(* LatencyStore. *)

NoRequest(f) == UNCHANGED restart_requested      \* mutant: select without restart

\* Asks for a restart unless the reported latency is the selected one.
RequestRestart(f) ==
  restart_requested' = (restart_requested \/ f # active_frames)

\* mutant: compares with the reported latency
DirtyIfUnreported(f) == dirty' = (dirty \/ f # active_frames)

\* select_latency_from_gui: mark_dirty when the selection changed.
MarkDirty(f) == dirty' = (dirty \/ f # state.latency)
-----------------------------------------------------------------------------
(* Commands (commands.rs), run one at a time. *)

Command(name) == invokes # <<>> /\ Head(invokes).name = name
HandleNext(replies) == invokes' = Tail(invokes) /\ posts' = posts \o replies

\* get_parameter_state, get_editor_page, get_latency.
Get ==
  /\ Command("get")
  /\ HandleNext(<<Message(Head(invokes).kind, state[Head(invokes).kind], TRUE)>>)
  /\ UNCHANGED <<state, report, project, editor, visible, boot, subscriptions, shown,
                 calls>>

\* subscribe_parameters, subscribe_editor_page, subscribe_latency.
Subscribe ==
  /\ Command("subscribe")
  /\ subscriptions' = subscriptions \cup {Head(invokes).kind}
  /\ HandleNext(<<Message("none", 0, TRUE)>>)
  /\ UNCHANGED <<state, report, project, editor, visible, boot, shown, calls>>

\* set_editor_page, set_latency, set_parameter_value; main.ts drops the reply
\* to the last.
Set ==
  /\ Command("set")
  /\ LET kind  == Head(invokes).kind
         value == Head(invokes).value
         reply == IF kind = "gain" THEN <<>> ELSE <<Message(kind, value, FALSE)>>
     IN /\ state' = [state EXCEPT ![kind] = value]
        /\ HandleNext(Notify(state', kind) \o reply)
        /\ IF kind = "latency" THEN RequestRestart(value) /\ MarkDirty(value)
           ELSE UNCHANGED <<restart_requested, dirty>>
  /\ UNCHANGED <<active_frames, processor, saved, editor, visible, boot, subscriptions,
                 shown, calls>>

Handle == Get \/ Subscribe \/ Set
-----------------------------------------------------------------------------
(* The timer. *)

TickSendsDefault == Fresh                \* mutant: not the current value

TickValue == state

\* The timer's next turn comes after its last post was delivered.
Tick ==
  /\ visible
  /\ \A i \in 1..Len(posts) : posts[i].kind # "gain"
  /\ "gain" \in subscriptions
  /\ posts' = Append(posts, Notice(TickValue, "gain"))
  /\ UNCHANGED <<state, report, project, editor, visible, boot, subscriptions, invokes,
                 shown, calls>>
-----------------------------------------------------------------------------
(* Host calls. *)

Activate ==
  /\ ~ processor
  /\ processor' = TRUE /\ active_frames' = state.latency /\ restart_requested' = FALSE
  /\ UNCHANGED <<state, project, gui, calls>>

Deactivate ==
  /\ processor /\ Counted
  /\ processor' = FALSE
  /\ UNCHANGED <<state, active_frames, restart_requested, project, gui>>

\* set_parameter_value from an event of process or params.flush.
Automate ==
  /\ Counted
  /\ \E g \in Levels \ {state.gain} : state' = [state EXCEPT !.gain = g]
  /\ UNCHANGED <<report, project, gui>>

\* save_state; the host's project is then as the plugin's state is.
Save ==
  /\ dirty \/ saved # state
  /\ saved' = state /\ dirty' = FALSE
  /\ UNCHANGED <<state, report, gui, calls>>

SavedStates ==
  {[gain |-> 2, page |-> "settings", latency |-> f] : f \in Frames \cup {NotAChoice}}
    \cup {[gain |-> 3, page |-> "controls", latency |-> 0]}

AnyLatency(blob) == TRUE                 \* mutant: the latency is not looked at
Loadable(blob) == blob.latency \in Frames

CommittedFirst(blob) == [state EXCEPT !.page = blob.page]  \* mutant: page, then check
Rejected(blob) == state

clamp_gain(g) == IF g > 2 THEN 2 ELSE g

\* restore_state.
Load ==
  /\ LoadWhileOpening \/ ~ editor \/ Started
  /\ Counted
  /\ \E blob \in SavedStates :
       IF Loadable(blob)
       THEN /\ state' = [blob EXCEPT !.gain = clamp_gain(@)]
            /\ RequestRestart(blob.latency)
            /\ posts' = posts \o Notify(state', "gain") \o Notify(state', "page")
                          \o Notify(state', "latency")
            /\ saved' = state' /\ dirty' = FALSE
       ELSE /\ state' = Rejected(blob)
            /\ UNCHANGED <<restart_requested, posts, project>>
  /\ UNCHANGED <<active_frames, processor, editor, visible, boot, subscriptions,
                 invokes, shown>>

Show ==
  /\ editor /\ ~ visible
  /\ visible' = TRUE
  /\ UNCHANGED <<state, report, project, editor, boot, subscriptions, invokes, posts,
                 shown, calls>>

Hide ==
  /\ visible /\ Counted
  /\ visible' = FALSE
  /\ UNCHANGED <<state, report, project, editor, boot, subscriptions, invokes, posts,
                 shown>>

\* Drop of WracGainGuiRuntime: every subscription goes, and what was on its way
\* to or from the page with the WebView.
Close ==
  /\ editor /\ Counted
  /\ editor' = FALSE /\ visible' = FALSE /\ boot' = 0
  /\ subscriptions' = {} /\ invokes' = <<>> /\ posts' = <<>>
  /\ UNCHANGED <<state, report, project, shown>>
-----------------------------------------------------------------------------
Input == SetEditorPage \/ ApplyGain \/ SelectLatency
Host  == Activate \/ Deactivate \/ Automate \/ Save \/ Load \/ Show \/ Hide \/ Close

Next == Open \/ Input \/ Deliver \/ Handle \/ Tick \/ Host

\* The run loop turns: commands, posts and the timer have their turn.
Spec == Init /\ [][Next]_vars /\ WF_vars(Deliver) /\ WF_vars(Handle) /\ WF_vars(Tick)
-----------------------------------------------------------------------------
(* Properties. *)

TypeOK ==
  /\ state \in States /\ saved \in States /\ shown \in States
  /\ active_frames \in Frames
  /\ {processor, restart_requested, dirty, editor, visible} \subseteq BOOLEAN
  /\ boot \in 0..Len(BootScript)
  /\ subscriptions \subseteq Kinds
  /\ calls \in 0..MaxCalls

\* latency.rs: the report follows the selection through the reactivation the
\* store asks for.  While the audio is delayed by another amount than the
\* host compensates, a restart is on its way, whoever chose the delay.
ReportFollows ==
  processor /\ active_frames # state.latency => restart_requested

\* select_latency_from_gui: an unsaved choice of the delay leaves the project
\* modified, through saves, loads and activations in between.
UnsavedDelayIsDirty == dirty \/ saved.latency = state.latency

\* What the open editor displays once nothing is on its way is the project's
\* page and delay, although clicks, replies, notifications and a restored
\* state cross each other, and a rejected state changes nothing.
PageShowsState ==
  editor /\ Started /\ invokes = <<>> /\ posts = <<>> =>
    shown.page = state.page /\ shown.latency = state.latency

\* The gain the host automates, with no callback to the GUI, reaches the
\* display of a visible editor.
DisplaySettles == <>[](visible => shown.gain = state.gain)
=============================================================================
