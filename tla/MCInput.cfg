CONSTANTS
  Codes <- MCCodes
  MAX_TYPED = 3
  Devices <- MCDevices
  Faults <- MCFaults
  NMI = TRUE
SPECIFICATION FairSpec
INVARIANTS
  TypeOK
  ByteForEveryIrq
  NothingLeftInService
  ReportsCause
  IrqsReachStub
PROPERTIES
  InOrderOnce
  ResumesExactly
  KeyboardAlive
  KeyPolled
