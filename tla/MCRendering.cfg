SPECIFICATION RendererSpec
CONSTANTS
  None = None
  NoStream = NoStream
  NoRefs = NoRefs
  MaxResults = 2
  MaxTracks = 4
  Documents <- AllDocuments
  Starts <- AllStarts
  Problems <- NoProblems
  Packs <- MCPacks
  Formats <- MCFormats
  Timings <- AllTimings
  InputBlocks <- SomeInput
  SampleRate = 48000
  BlockSize = 2
  Decorrelation = 3
  MaxSamples = 8
INVARIANTS
  AllocationsFound
  NeverOvercommits
  EveryTrackRendered
  RenderedInStep
