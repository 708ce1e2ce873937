SPECIFICATION Spec
CONSTANTS
  Instances = {i1, i2}
  Libraries <- MCLibraries
  Disks <- MCDisks
  OurId = "ours"
  kMaxPresetsPerLocation = 2
  kMaxCrawlDepth = 8
  AuValues = {1, 2}
  AuOffsets = {0}
  MaxWrites = 2
  MaxHeld = 1
  MaxOpen = 2
  RecallWhileDown = FALSE
  Messages <- MCMessages
  OutPorts = {"a"}
  Virtual = "virtual"
  RingSize = 16
  HeaderSize = 2
  EventsPerCycle = 2
  ArenaSize = 6
  MaxIn = 3
  MaxOut = 2
  AaxWishes = {"restart"}
  QueueCapacity = 1
  MaxAaxEdits = 0
  MaxToggles = 0
  FlushMeetsHost = FALSE
  RecallMeetsEvents = FALSE
CHECK_DEADLOCK FALSE
INVARIANTS RolesAreExclusive AuUnitIsSafe
 
