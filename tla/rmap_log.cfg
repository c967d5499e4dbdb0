SPECIFICATION HistorySpec
CONSTANTS
  TRANS_LOG_SIZE = 2
  SramWords = 1
  RdRegs = {1}
  WrRegs = {2}
  MemWords = 3
  TxDescriptors = 2
  RxDescriptors = 2
  MaxBlock = 1
  Value = {0, 1}
  Value0 = 0
  NULL = NULL
  Faults = {"tx", "garble", "bad_len", "bad_crc", "rx_alloc"}
INVARIANT TypeOK
INVARIANT PendingCountsSlots
INVARIANT ReplyIsExpected
INVARIANT SyncComplete
PROPERTY ImplementsChannel
