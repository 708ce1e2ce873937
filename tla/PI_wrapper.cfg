SPECIFICATION Spec
CONSTANTS
  NoThread = NoThread
  NoCall = NoCall
  Threads = {t1, t2, t3}
  MainThread = t1
  Nesting = 1
  Callbacks = {"init", "activate", "deactivate", "destroy", "process", "flush", "load", "apply", "on_main_thread"}
  Reentrant = {}
  BlockSizes = {1}
  Layouts = {1, 2}
INVARIANTS TypeOK BorrowExclusive OneProcessor IdleFlushBypassesNothing LayoutStable
  ProxiesLiveOnlyWhenFrozen
PROPERTY ImplementsOwnership
