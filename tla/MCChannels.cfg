SPECIFICATION Spec
CONSTANTS
  programme = programme
  object = object
  nested = nested
  unused = unused
  Documents <- TwoDocuments
  Uids = {1, 2, 3, 4}
  FileChannels = 4
  FileFrames = 3
  BlockSize = 2
  Sharing = FALSE
  MaxRows = 4
INVARIANTS
  TracksKeepSamples
  UsedTracksKept
  NoUnusedChannels
CHECK_DEADLOCK FALSE
