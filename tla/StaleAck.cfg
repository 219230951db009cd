SPECIFICATION Spec
CONSTANTS
  MemMap <- MCMemMap
  Value <- MCValue
  Zero = "nop"
  Decode <- MCDecode
  PcSize = 3
  Vector = 0
  Irq = {FALSE}
  Program <- MemoryLoops
  Transfer <- OnMemory
  UartEnable = {"on"}
  UartReset = {}
  Status <- MCStatus
  RxWord = "rx"
  UartCtrl = {"nop"}
INVARIANTS
  CpuGetsWhatItAddressed
