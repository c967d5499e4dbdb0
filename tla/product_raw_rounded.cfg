CONSTANTS
  W = 256
  SramSize = 32
  RegMax = 63
  Modes <- MCModes
  Places <- MCHomePlaces
  HomePlaces <- MCHomePlaces
  Params <- MCParams
  Bits = {0, 1, 31, 33, 48, 64}
  Types = {1, 2, 5, 24}
  RoundRaw = TRUE
  MaxSets = 0
  ChunkCfgs <- MCChunkCfgs
  Times <- MCTimes
SPECIFICATION Spec
INVARIANTS
  GroundDecodes
