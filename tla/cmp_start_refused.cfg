SPECIFICATION CSpec
CONSTANTS
  TRANS_LOG_SIZE = 2
  SramWords = 3
  RdRegs = {5, 7}
  WrRegs = {3, 4, 6}
  MemWords = 8
  TxDescriptors = 2
  RxDescriptors = 2
  MaxBlock = 1
  Value = {0, 1, 2, 3, 4, 5, 6, 7, 8, 9, 10, 11, 12, 13, 14, 15}
  Value0 = 0
  NULL = NULL
  Faults = {}
  Addrs = {0, 4}
  Sizes = {4}
  Mtus = {4}
  MaxReadPending = 1
  CTRL = 6
  STATUS = 7
  ConfigRegs <- MCConfigRegs
  InfoRegs <- MCInfoRegs
  DataAddr = 0
  CmpAddr = 4
  ModelAddr = 8
  NewModelAddr = 8
  Mtu = 4
  SyncRetries = 0
  Compressed <- MCCompressed
  Updated <- MCUpdated
  Scenarios <- MCSlow
PROPERTY StartsOnlyByStart
