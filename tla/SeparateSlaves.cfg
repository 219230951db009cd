SPECIFICATION FairSpec
CONSTANTS
  MemMap <- MCMemMap
  Value <- MCValue
  Zero = "nop"
  Decode <- MCDecode
  PcSize = 3
  Vector = 0
  Irq = {FALSE}
  Program <- ShortLoops
  Transfer <- OnUart
  UartEnable = {"on"}
  UartReset = {}
  Status <- MCStatus
  RxWord = "rx"
  UartCtrl = {"on"}
INVARIANTS
  TypeOK
  CpuGetsWhatItAddressed
  HpsGetsWhatItAddressed
PROPERTIES
  HpsServed
