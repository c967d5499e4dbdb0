SPECIFICATION LiveSpec
CONSTANTS
  TRANS_LOG_SIZE = 2
  SramWords = 3
  RdRegs = {}
  WrRegs = {3}
  MemWords = 4
  TxDescriptors = 2
  RxDescriptors = 2
  MaxBlock = 2
  Value = {0, 1}
  Value0 = 0
  NULL = NULL
  Faults = {"create", "tx", "lose_cmd", "lose_reply", "garble", "reject", "bad_crc"}
  Addrs = {0, 4}
  Sizes = {0, 4, 8, 12}
  Mtus = {4, 6, 8}
  MaxReadPending = 1
INVARIANT XTypeOK
INVARIANT XferInBlock
INVARIANT BlockMoved
INVARIANT NothingBeside
PROPERTY ReturnsUnlessLeaked
PROPERTY SlotsComeBack
