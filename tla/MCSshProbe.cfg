SPECIFICATION FairSpec
CONSTANTS
  connect_timeout = 2
  banner_timeout = 3
  kMaxBannerBytes = 4
  ChunkSize = 3
  Identification <- MCIdentification
  Streams <- MCStreams
  IntMax = 7
  Resolution = 2
  MaxClock = 20
INVARIANTS TypeOK NeverBlocksLonger SocketReleased VerdictMatchesStream BufferBounded
PROPERTY ProbeEnds
