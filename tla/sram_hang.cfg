SPECIFICATION XFairSpec
CONSTANTS
  TRANS_LOG_SIZE = 2
  SramWords = 3
  RdRegs = {}
  WrRegs = {3}
  MemWords = 4
  TxDescriptors = 2
  RxDescriptors = 2
  MaxBlock = 2
  Value = {0}
  Value0 = 0
  NULL = NULL
  Faults = {"tx"}
  Addrs = {0, 4}
  Sizes = {12}
  Mtus = {4}
  MaxReadPending = 1
PROPERTY TransferReturns
