SPECIFICATION FairSpec
CONSTANTS
  UartBits = 3
  CountValue = 12
  Average = 3
  Drift = 1
  Driver <- MCDriver
  SpiBits = 3
  Divisor = 3
  SpiMaster = {"cpu", "hps"}
  Words <- MCWords
  Width = 5
  First <- MCFirst
  Later <- MCLater
  MaxIssued = 2
  Value = {"zero", "x"}
  Zero = "zero"
  Modulus = 16
  Ticks <- MCTicks
  Reloads = {2, 3, 4}
  Gap = 2
  Data = {{}, {0}}
  Masks = {{}, {2}}
  Controls = {{}, {0}, {2}}
  Inputs = {{}, {2}}
  GpioMaster = {"cpu", "hps"}
INVARIANTS
  ProductsRight
  QuotientsRight
  ExpiresOnTime
  PinsAsWritten
  InterruptsAsMasked
PROPERTIES
  OncePerWrite
  FramesOnTheLine
  ImplementsSlaveUart
  TransmissionEnds
  EachCharacterOnce
  ReadOnce
  WordsExchanged
  AccessesEnd
  TransferredOnce
  CommandHeld
  TransfersEnd
