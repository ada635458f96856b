SPECIFICATION Spec
CONSTANTS
  Commands <- MCCommands
  Missing = Missing
  NoCommand = NoCommand
  Inherited <- AnyStandard
  Dispositions = {"default", "ignored"}
  BufSize = 3
  PipeCap = 3
INVARIANTS
  TypeOK
  ReleasesEverything
  PipeEndsConfined
  CommandIsConnected
  SingleWriteIsCaptured
PROPERTIES
  ImplementsCapture
  CaptureReturns
