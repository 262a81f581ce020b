SPECIFICATION ConsumerSpec
CONSTANTS
  Packets <- MCPackets
  Streams <- MCStreams
  PreSkip = 1
  Capacities = {1, 9}
  Buffer = 9
  DrainsEachFeed = FALSE
INVARIANTS
  GoodStreamsAccepted
CHECK_DEADLOCK FALSE
