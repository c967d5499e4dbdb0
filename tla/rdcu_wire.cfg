CONSTANTS
  NULL = NULL
  Slots = {0, 63}
  Depth = 2
  MaxSets = 2
  Noise <- MCNoise
  Patterns <- MCPatterns
  Keys = {0, 209}
  Registers <- MCRegisters
  Untouched <- MCUntouched
  Unread <- MCUnread
  AdcIds <- MCAdcIds
SPECIFICATION WireSpec
INVARIANTS
  Understood
  FieldsIndependent
  ReadBack
  RouterAsCalled
PROPERTY BringUpCompletes
