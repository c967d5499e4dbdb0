SPECIFICATION CodecSpec
CONSTANTS
  ByteBits = 4
  NULL = NULL
  GENERIC_HEADER_SIZE = 4
  NON_IMAGETTE_HEADER_SIZE = 8
  COLLECTION_HDR_SIZE = 4
  Values = {0, 127, 255}
  SampleNumbers = {1, 3}
  Settings <- MCSettings
  BufferLengths = {2, 6}
  Fills = {15}
  MaxCalls = 2
  Layouts <- MCLayouts
  Contents <- MCContents
  Pars <- MCPars
INVARIANT RoundTrip
INVARIANT ModelsInStep
INVARIANT OnlyBufferFails
INVARIANT AdaptiveSizesRight
INVARIANT DryRunAgrees
INVARIANT BoundSuffices
CHECK_DEADLOCK FALSE
