SPECIFICATION DecoderSpec
CONSTANTS
  Packets <- MCPackets
  Streams <- MCStreams
  PreSkip = 1
  Capacities = {0, 1, 9}
  Buffer = 1
  DrainsEachFeed = TRUE
  r1 = r1
  r2 = r2
  r3 = r3
  Restorers = {r1, r2, r3}
  MaxRestores = 4
  GateStream <- MCGateStream
INVARIANTS
  HeardIsTheSound
  EofMeansComplete
  GoodStreamsAccepted
  PauseHolds
PROPERTIES
  Answered
  ResumeReleases
CHECK_DEADLOCK FALSE
