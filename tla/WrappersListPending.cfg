SPECIFICATION Spec
CONSTANTS
  Parts = {"presets"}
  FoundOrder <- MCFound
  FinalOrder <- MCFinal
  BlockInFlight = FALSE
  ListPending = TRUE
  Params = {"p"}
  Keys = {"k"}
  NotePorts <- MCNotePorts
  QueueSize = 4
  SysexCapacity = 3
  SysexSizes = {2}
  Contexts <- MCContexts
  MaxNotes = 2
  MaxOutputs = 2
  ParamLists <- MCParamLists
  Values = {0, 1}
  MidiChannels = 2
  Controllers = 2
  MidiBase = 16
  SelectorBase = 22
  HighBit = 64
  HasPresets = TRUE
  kSpeakers <- MCSpeakers
  Ambisonic = {{32, 33, 34, 35}}
  Mono = {3}
  Stereo = {1, 2}
  Arrangements = {{3}, {1, 2}, {1, 2, 4, 8}, {2, 4, 8}, {1, 2, 16}, {32, 33, 34, 35}}
  Frames = {"f1", "f2"}
  FrameToFrame = FALSE
  DropsUnseen = FALSE
  Fds = {1}
  Sizes = {1, 3}
  Smallest = 2
  MaxSize = 4
  PortPlugins <- MCPlugins
  MaxProbed = 2
  FacadeChannels = 2
  FormatChannels = {1, 2, 3}
  Dialects = {"clap", "midi", "midi2"}
  OutPortIds <- MCOutPortIds
  ListSize = 1
  MaxEvents = 3
  MaxPushed = 2
  ParamOrders <- MCOrders
  ParamCount = 2
  RescanWhileQueued = FALSE
  AuViews = {"v1", "v2"}
  StaleViewsStay = FALSE
  AaxWishes = {"flush", "restart"}
  QueueCapacity = 1
  MaxAaxEdits = 1
  MaxToggles = 1
  FlushMeetsHost = FALSE
  RecallMeetsEvents = FALSE
  AaxPlugins <- MCAaxPlugins
  StemFormats = {1, 2, 3, 4}
  MaxTimers = 3
  MaxWritten = 4
  RegistersInTimer = FALSE
  LoadsBetweenCalls = FALSE
  WakesWithoutView = FALSE
  PacketLists <- MCPackets
  ChangeLists <- MCChanges
  TransportAnswers <- MCAnswers
  MaxPosted = 1
CHECK_DEADLOCK FALSE
PROPERTY RestoredStateSurvives
