SPECIFICATION FairSpec
CONSTANTS
  MemMap <- MCMemMap
  Value <- MCValue
  Zero = "nop"
  Decode <- MCDecode
  PcSize = 7
  Vector = 5
  Irq = {TRUE, FALSE}
  Program <- MCProgram
  Transfer <- MCTransfer
  UartEnable = {"on"}
  UartReset = {}
  Status <- MCStatus
  RxWord = "rx"
  UartCtrl = {"on"}
INVARIANTS
  StoreDelivered
  NoDoubleStore
PROPERTIES
  ExecutesInOrder
  CpuKeepsRunning
  HandlerReturns
