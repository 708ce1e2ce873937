SPECIFICATION Spec
CONSTANTS
  Parts = {"screen", "callback", "settings", "pipewire",
           "jack", "wasapi", "coreaudio", "rtaudio",
           "alsa ports", "alsa in", "alsa out", "coremidi", "coremidi in",
           "winmm in", "winmm out"}
  Devices <- MCDevices
  Apis <- MCApis
  HasInput = TRUE
  HasOutput = TRUE
  AllowInput = TRUE
  OfferedSizes = {512}
  DefaultSize = 512
  Requests <- MCRequests
  Saved <- MCSaved
  NoFile = NoFile
  RetryLimit = 1
  MaxNews = 3
  Ports = {1, 2, 3}
  Device <- MCDevice
  LostWhileOpening = FALSE
  CaptureSize = 1
  BlockSize = 1
  MaxCaptured = 6
  CoreDevices <- MCCoreDevices
  NoUid = "none"
  CoreRequests <- MCCoreRequests
  AlsaIds = {"keys", "pads"}
  Addresses = {1, 2}
  Asked = {{}, {"keys"}}
  QueueSize = 1
  Sources = {1, 2}
  Destinations <- MCDestinations
  Room = 2
  AlsaMessages = 2
  AlsaBytes = 2
  AlsaSysex = 2
  CoreEndpoints = {1, 2}
  MaxParsers = 2
  CoreMessages = 4
  CoreBytes = 3
  CoreSysex = 2
  Buffers = {1, 2}
  Outputs <- MCDestinations
  MaxPieces = 4
CHECK_DEADLOCK FALSE
INVARIANTS StreamsAreSafe BackendsSayHowItIs MidiBackendsAreSafe
PROPERTIES  BackendsKeepThePromise
