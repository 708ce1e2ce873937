SPECIFICATION EditorSpec
CONSTANTS
  Frames = {0, 64}
  NotAChoice = 65
  LoadWhileOpening = FALSE
  MaxCalls = 3
  Threads = {t1, t2}
  NoThread = NoThread
  Parents = {p1, p2}
  NoParent = NoParent
  Scales = {1, 2}
  NoSession = NoSession
  MayFail = TRUE
  DropsPosts = {TRUE, FALSE}
  MaxGuiCalls = 5
CHECK_DEADLOCK FALSE
INVARIANTS EditorTypeOK WebViewKept ReportFollows UnsavedDelayIsDirty
PROPERTY EditorSettles
