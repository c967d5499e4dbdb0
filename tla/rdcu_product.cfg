CONSTANTS
  W = 256
  SramSize = 32
  RegMax = 63
  Modes <- MCModes
  Places <- MCPlaces
  HomePlaces <- MCHomePlaces
  Params <- MCParams
  Bits = {0, 1, 31, 33, 48, 64}
  Types = {1, 2, 5, 24}
  RoundRaw = FALSE
  MaxSets = 2
  ChunkCfgs <- MCChunkCfgs
  Times <- MCTimes
SPECIFICATION Spec
INVARIANTS
  AreasApart
  FieldsKept
  GroundDecodes
