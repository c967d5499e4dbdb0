CONSTANTS
  NULL = NULL
  Slots = {0, 63}
  Depth = 2
  MaxSets = 2
  Noise <- MCNoise
  Patterns <- MCPatterns
  Keys = {0, 209}
  Registers <- MCRegisters
  Untouched = {}
  Unread = {}
  AdcIds = {1, 2, 3, 4}
SPECIFICATION WireSpec
INVARIANT AsDocumented
