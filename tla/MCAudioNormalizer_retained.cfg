SPECIFICATION Spec
CONSTANTS
  Sources <- MCSources
  PageLimits = {1, 4, 5, 7, 8, 9, 12, 13}
  kOggPageHeaderSize = 1
  kOggMaxSegments = 4
  kSegment = 3
  kMaxPageLimit = 12
  TagsSize = 2
  CommentSize = 2
  kOpusFrameSize = 2
  Lookahead = 1
  kNormalizedSampleRate = 2
INVARIANTS
  SupportedOpusRetained
CHECK_DEADLOCK FALSE
