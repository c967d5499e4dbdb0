CONSTANTS
  NTx = 3
  NRx = 3
  Line = 1
  Ids = {1, 2}
  Skips = {0, 1, 2}
  Answers = {1, 2}
  Modes = {"tx", "paths", "rx", "both", "errors"}
SPECIFICATION Spec
INVARIANTS
  RingsInStep
  PeekedStays
PROPERTIES
  ImplementsFifo
  Flows
