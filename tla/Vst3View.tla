------------------------------ MODULE Vst3View ------------------------------
(***************************************************************************)
(* The editor of a ClapAsVst3: the WrappedView the host holds, the GUI of   *)
(* the plug-in behind it, the run loop its frame brings on Linux with the   *)
(* timers and file descriptors registered there, a resize the plug-in asks  *)
(* for, and the host's context menu.  One thread: the host's main thread.   *)
(***************************************************************************)
EXTENDS Integers, Sequences, FiniteSets
CONSTANTS
  Frames,            \* frames of the host, each with its own run loop
  FrameToFrame,      \* the host may go from one frame to another directly
  DropsUnseen,       \* it may release a view that has a frame but was never asked for its GUI
  Fds, Sizes,
  Smallest, MaxSize  \* adjust_size() never goes below Smallest; a bound: a view attached again grows by one

VARIABLES
  view,              \* _wrappedview
  created, viewShown,    \* _created, _attached
  frame, viewLoop,   \* _plugFrame, _runLoop of the view
  iRunLoop,          \* _iRunLoop
  idleOn,            \* run loops with an IdleHandler of ours
  timerOn, fdOn,     \* timer or descriptor -> where its handler is; absent: not registered
  gui,               \* the plug-in's GUI: "none", "created", "parented"
  rect, guiSize,     \* _rect, what the plug-in has
  resizeRequest,     \* _gui_resize_request
  menu, menuItems    \* vst3ContextMenu, contextmenuitems
loopVars == <<iRunLoop, idleOn, timerOn, fdOn>>
sizeVars == <<rect, guiSize, resizeRequest>>
menuVars == <<menu, menuItems>>
viewVars == <<view, created, viewShown, frame, viewLoop, loopVars, gui, sizeVars, menuVars>>

NoFrame == "none"
ASSUME ViewAssumption == NoFrame \notin Frames
Smaller(a, b) == IF a < b THEN a ELSE b
AdjustSize(s) == IF s < Smallest THEN Smallest ELSE s

ViewInit ==
  /\ view = FALSE /\ created = FALSE /\ viewShown = FALSE /\ frame = NoFrame /\ viewLoop = NoFrame
  /\ iRunLoop = NoFrame /\ idleOn = {} /\ timerOn = <<>> /\ fdOn = <<>>
  /\ gui = "none" /\ rect = 0 /\ guiSize = Smallest /\ resizeRequest = -1
  /\ menu = 0 /\ menuItems = {}

ClearContextMenu == menu' = 0 /\ menuItems' = {}

----------------------------------------------------------------------------
(* Handlers on a run loop.                                                  *)
Registered(on, loop) == [x \in DOMAIN on |-> IF on[x] = NoFrame THEN loop ELSE on[x]]
OnlyForgotten(on, loop) == on
Unregistered(on, loop) == [x \in DOMAIN on |-> NoFrame]

AttachRunLoop(loop) ==
  /\ iRunLoop' = loop
  /\ idleOn' = idleOn \cup {loop}
  /\ timerOn' = Registered(timerOn, loop) /\ fdOn' = Registered(fdOn, loop)

\* detachTimers() and detachPosixFD(), for the run loop they were given.
DetachRunLoop(loop) ==
  /\ iRunLoop' = NoFrame
  /\ IF loop # NoFrame /\ loop = iRunLoop
     THEN idleOn' = idleOn \ {loop} /\ timerOn' = Unregistered(timerOn, loop) /\ fdOn' = Unregistered(fdOn, loop)
     ELSE UNCHANGED <<idleOn, timerOn, fdOn>>

\* register_timer(), register_fd(): at once on the run loop there is.
AddTimer(t) ==
  /\ t \notin DOMAIN timerOn
  /\ timerOn' = [x \in DOMAIN timerOn \cup {t} |-> IF x = t THEN iRunLoop ELSE timerOn[x]]
  /\ UNCHANGED <<view, created, viewShown, frame, viewLoop, iRunLoop, idleOn, fdOn, gui, sizeVars, menuVars>>

RegisterFd(fd) ==
  /\ fd \notin DOMAIN fdOn
  /\ fdOn' = [x \in DOMAIN fdOn \cup {fd} |-> IF x = fd THEN iRunLoop ELSE fdOn[x]]
  /\ UNCHANGED <<view, created, viewShown, frame, viewLoop, iRunLoop, idleOn, timerOn, gui, sizeVars, menuVars>>

UnregisterFd(fd) ==
  /\ fd \in DOMAIN fdOn
  /\ fdOn' = [x \in DOMAIN fdOn \ {fd} |-> fdOn[x]]
  /\ UNCHANGED <<view, created, viewShown, frame, viewLoop, iRunLoop, idleOn, timerOn, gui, sizeVars, menuVars>>

----------------------------------------------------------------------------
CreateView ==
  /\ ~ view /\ view' = TRUE /\ ClearContextMenu
  /\ rect' = 0 /\ UNCHANGED <<created, viewShown, frame, viewLoop, loopVars, gui, guiSize, resizeRequest>>

EnsureUi == created' = TRUE /\ gui' = IF created THEN gui ELSE "created"

\* attached(): the GUI is created, parented and given the view's size.
Attached ==
  /\ view /\ ~ viewShown /\ rect <= MaxSize
  /\ created' = TRUE /\ gui' = "parented" /\ viewShown' = TRUE
  /\ LET s == AdjustSize(rect) IN guiSize' = s /\ rect' = s + 1
  /\ UNCHANGED <<view, frame, viewLoop, loopVars, resizeRequest, menuVars>>

Removed ==
  /\ view /\ viewShown /\ viewShown' = FALSE /\ ClearContextMenu
  /\ UNCHANGED <<view, created, frame, viewLoop, loopVars, gui, sizeVars>>

GetSize ==
  /\ view /\ EnsureUi /\ rect' = guiSize
  /\ UNCHANGED <<view, viewShown, frame, viewLoop, loopVars, guiSize, resizeRequest, menuVars>>

\* canResize(), checkSizeConstraint() and setContentScaleFactor() create the GUI as well.
AsksTheGui ==
  /\ view /\ EnsureUi
  /\ UNCHANGED <<view, viewShown, frame, viewLoop, loopVars, sizeVars, menuVars>>

OnSize(s) ==
  /\ view
  /\ IF created /\ viewShown THEN rect' = AdjustSize(s) /\ guiSize' = AdjustSize(s)
     ELSE rect' = s /\ UNCHANGED guiSize
  /\ UNCHANGED <<view, created, viewShown, frame, viewLoop, loopVars, gui, resizeRequest, menuVars>>

OnFocusLost ==
  /\ view /\ ClearContextMenu
  /\ UNCHANGED <<view, created, viewShown, frame, viewLoop, loopVars, gui, sizeVars>>

SetFrame(f) ==
  /\ view /\ ClearContextMenu /\ frame' = f /\ viewLoop' = f
  /\ f = NoFrame \/ frame = NoFrame \/ FrameToFrame
  /\ CASE f = viewLoop -> UNCHANGED loopVars
       [] f # viewLoop /\ f # NoFrame -> AttachRunLoop(f)
       [] f # viewLoop /\ f = NoFrame -> IF iRunLoop # NoFrame THEN DetachRunLoop(iRunLoop) ELSE UNCHANGED loopVars
  /\ UNCHANGED <<view, created, viewShown, gui, sizeVars>>

\* ~WrappedView() and drop_ui(): a GUI that was never created is only forgotten.
DropUi ==
  /\ view /\ (created \/ frame = NoFrame \/ DropsUnseen) /\ view' = FALSE /\ viewShown' = FALSE /\ created' = FALSE /\ frame' = NoFrame /\ viewLoop' = NoFrame
  /\ IF created THEN DetachRunLoop(viewLoop) /\ ClearContextMenu ELSE UNCHANGED <<loopVars, menuVars>>
  /\ gui' = "none"
  /\ UNCHANGED sizeVars

----------------------------------------------------------------------------
(* A resize the plug-in asks for: at once, or packed for the next idle.     *)
ResizeView(s) == frame # NoFrame /\ rect' = AdjustSize(s) /\ guiSize' = AdjustSize(s)

GuiRequestResize(s, onMain) ==
  /\ IF ~ onMain
     THEN resizeRequest' = s /\ UNCHANGED <<rect, guiSize>>
     ELSE UNCHANGED resizeRequest /\ view /\ created /\ viewShown /\ ResizeView(s)
  /\ UNCHANGED <<view, created, viewShown, frame, viewLoop, loopVars, gui, menuVars>>

IdleResizes ==
  /\ view /\ resizeRequest # -1 /\ resizeRequest' = -1
  /\ IF created /\ viewShown /\ frame # NoFrame THEN ResizeView(resizeRequest) ELSE UNCHANGED <<rect, guiSize>>
  /\ UNCHANGED <<view, created, viewShown, frame, viewLoop, loopVars, gui, menuVars>>

----------------------------------------------------------------------------
(* The host's context menu: its items become the plug-in's, by their index. *)
ItemKind(flags) ==
  CASE "groupStart" \in flags -> "beginSubmenu"
    [] "groupEnd" \in flags -> "endSubmenu"
    [] "separator" \in flags -> "separator"
    [] "checked" \in flags -> "checkEntry"
    [] OTHER -> "entry"

ContextMenuPopulate(given, flags) ==
  /\ menu < 2
  /\ menu' = IF given THEN menu + 1 ELSE 0
  /\ menuItems' = IF given THEN {[of |-> menu + 1, action |-> 0, kind |-> ItemKind(flags)]} ELSE menuItems
  /\ UNCHANGED <<view, created, viewShown, frame, viewLoop, loopVars, gui, sizeVars>>

\* An action that is no item of the menu is refused.
ContextMenuPerform(action) ==
  /\ \E item \in menuItems : item.action = action
  /\ ClearContextMenu
  /\ UNCHANGED <<view, created, viewShown, frame, viewLoop, loopVars, gui, sizeVars>>

ViewNext ==
  \/ CreateView \/ Attached \/ Removed \/ GetSize \/ AsksTheGui \/ OnFocusLost \/ DropUi \/ IdleResizes
  \/ \E s \in Sizes : OnSize(s) \/ GuiRequestResize(s, TRUE) \/ GuiRequestResize(s, FALSE)
  \/ \E f \in Frames \cup {NoFrame} : SetFrame(f)
  \/ AddTimer("timer") \/ \E fd \in Fds : RegisterFd(fd) \/ UnregisterFd(fd)
  \/ \E given \in BOOLEAN : ContextMenuPopulate(given, {"checked"})
  \/ ContextMenuPerform(0)

ViewSpec == ViewInit /\ [][ViewNext]_viewVars
----------------------------------------------------------------------------
ViewTypeOK ==
  /\ {view, created, viewShown} \subseteq BOOLEAN /\ {frame, viewLoop, iRunLoop} \subseteq Frames \cup {NoFrame}
  /\ gui \in {"none", "created", "parented"} /\ rect \in Nat /\ guiSize \in Nat

(* With a run loop the timers and descriptors of the plug-in and the idle   *)
(* are registered on it; when the host takes it back, or the view goes,     *)
(* nothing of ours stays behind on it.                                      *)
HandlersFollowRunLoop ==
  LET loop == IF view THEN viewLoop ELSE NoFrame IN
  /\ iRunLoop = loop /\ idleOn = {loop} \ {NoFrame}
  /\ \A t \in DOMAIN timerOn : timerOn[t] = loop
  /\ \A fd \in DOMAIN fdOn : fdOn[fd] = loop

(* A GUI of the plug-in is never left parented to a view that is gone, and  *)
(* while a view shows it the two agree on its size, to the pixel that       *)
(* attached() adds.                                                         *)
GuiGoesWithView ==
  /\ gui # "none" <=> created
  /\ created => view
  /\ viewShown /\ rect # guiSize => rect = guiSize + 1
=============================================================================
