SPECIFICATION RendererSpec
CONSTANTS
  None = None
  NoStream = NoStream
  NoRefs = NoRefs
  MaxResults = 2
  MaxTracks = 4
  Documents <- TwoWaysOnly
  Starts <- TwoWaysStarts
  Problems <- NoProblems
  Packs <- MCPacks
  Formats <- MCFormats
  Timings <- NotRendered
  InputBlocks <- SomeInput
  SampleRate = 48000
  BlockSize = 2
  Decorrelation = 3
  MaxSamples = 8
INVARIANT EveryTrackRendered
