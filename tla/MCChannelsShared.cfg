SPECIFICATION Spec
CONSTANTS
  programme = programme
  object = object
  nested = nested
  unused = unused
  Documents <- TwoDocuments
  Uids = {1, 2, 3, 4}
  FileChannels = 2
  FileFrames = 3
  BlockSize = 2
  Sharing = TRUE
  MaxRows = 4
INVARIANTS
  UsedTracksKept
CHECK_DEADLOCK FALSE
