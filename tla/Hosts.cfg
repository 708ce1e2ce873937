SPECIFICATION HostsSpec
CONSTANTS
  t1 = t1
  t2 = t2
  NoThread = NoThread
  NoCall = NoCall
  Threads = {t1, t2}
  MainThread = t1
  Nesting = 2
  Budget = 5
  ReentrantCallbacks = {"init", "activate", "deactivate", "destroy", "process", "flush", "reset", "load", "apply", "gui_create", "gui_destroy"}
  Callbacks = {"init", "activate", "deactivate", "destroy", "process", "flush", "reset", "start_processing", "load", "apply", "on_main_thread", "gui_create", "gui_destroy", "gui_show"}
  Reentrant = {"process", "flush", "reset", "load", "apply", "gui_destroy"}
  BlockSizes = {1, 2}
  ReentrantSizes = {1}
  Layouts = {1, 2}
CHECK_DEADLOCK FALSE
INVARIANTS RealtimeStaysRealtime NoRestoreInRealtime ConformingHostServed
PROPERTY GuiOnOneThread 
