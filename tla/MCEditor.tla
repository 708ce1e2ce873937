------------------------------ MODULE MCEditor ------------------------------
(***************************************************************************)
(* The editor on small instances: WRAC Gain's page and project state, and  *)
(* the controller of the WebView it runs in.  What is modelled of them     *)
(* apart shares no state, so a behaviour exercises one of them, `part'.    *)
(***************************************************************************)
EXTENDS GainEditor

CONSTANTS Threads, NoThread, Parents, NoParent, Scales, NoSession, MayFail, DropsPosts,
  MaxGuiCalls

VARIABLES part, session, generation, is_creating_runtime, creating_generation,
  pending_creation_generation, destroy_requested_while_creating, destroyed_before, scale,
  runtimes, next_id, ref_count, owner, queue, job, call, gui_thread, dropped, calls_left

controllerVars == <<session, generation, is_creating_runtime, creating_generation,
  pending_creation_generation, destroy_requested_while_creating, destroyed_before, scale,
  runtimes, next_id, ref_count, owner, queue, job, call, gui_thread, dropped, calls_left>>

Gui == INSTANCE GuiController WITH MaxCalls <- MaxGuiCalls

ASSUME GuiAssumption ==
  /\ NoThread \notin Threads /\ NoParent \notin Parents /\ NoSession \notin Gui!Sessions
  /\ MaxGuiCalls \in Nat

OfPage(step) == part = "page" /\ step /\ UNCHANGED <<part, controllerVars>>
OfController(step) == part = "controller" /\ step /\ UNCHANGED <<part, vars>>

EditorInit == part \in {"page", "controller"} /\ Init /\ Gui!Init
EditorNext == OfPage(Next) \/ OfController(Gui!Next)
editorVars == <<part, vars, controllerVars>>

\* The run loop turns: commands, posts and the timer of the page have their turn, and what
\* the host began and what was posted to the controller runs on.  A condition on one part is
\* vacuous in the behaviours of the other, so they are stated together.
EditorSpec ==
  /\ EditorInit /\ [][EditorNext]_editorVars
  /\ WF_editorVars(OfPage(Deliver) \/ OfController(Gui!HostStep))
  /\ WF_editorVars(OfPage(Handle) \/ OfController(Gui!RunLoopStep))
  /\ WF_editorVars(OfPage(Tick))
-----------------------------------------------------------------------------
EditorTypeOK == TypeOK /\ Gui!TypeOK

\* One WebView at a time: one that no session shows is on its way out, one that a session
\* shows is the session's own, on its thread and with its scale and visibility, and the
\* GUI thread is leased exactly as often as it is used; and the page in it shows the state
\* that the plugin has, whatever was saved, loaded and clicked meanwhile.
WebViewKept ==
  /\ PageShowsState
  /\ Gui!OneWebView /\ Gui!NoOrphan /\ Gui!AttachedIsCurrent
  /\ Gui!ShowsWhatIsAsked /\ Gui!LeasesCounted

\* The gain that the host automates reaches a visible display, and a GUI thread that no
\* session holds is freed for another.
AtRest ==
  IF part = "page" THEN visible => shown.gain = state.gain
  ELSE session # NoSession \/ owner = NoThread

EditorSettles == []<>AtRest
=============================================================================
