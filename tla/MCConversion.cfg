SPECIFICATION Spec
CONSTANTS
  c1 = c1
  c2 = c2
  tm = tm
  tn = tn
  tl = tl
  tr = tr
  silent = silent
  Inputs <- AllInputs
  PackChannels <- MCPackChannels
  OnlyObjects <- MCOnlyObjects
  MaxObjectsDepth = 1
  Coordinates <- MCCoordinates
  InteractionConfig <- MCConfig
INVARIANT
  ConversionConforms
PROPERTIES
  TimesKept
  StructureKept
  InteractionLimited
  SilentTracksAreSilent
