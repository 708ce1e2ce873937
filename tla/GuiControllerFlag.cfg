SPECIFICATION Spec
CONSTANTS
  Threads = {t1, t2}
  NoThread = NoThread
  Parents = {p1}
  NoParent = NoParent
  Scales = {1}
  NoSession = NoSession
  MayFail = FALSE
  DropsPosts = {FALSE}
  MaxCalls = 5
CHECK_DEADLOCK FALSE
INVARIANT CreationFlagIsHonest
