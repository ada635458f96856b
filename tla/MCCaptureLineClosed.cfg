SPECIFICATION Spec
CONSTANTS
  Commands <- MCCommands
  Missing = Missing
  NoCommand = NoCommand
  Inherited <- OnlyStandardOutput
  Dispositions = {"default"}
  BufSize = 3
  PipeCap = 3
INVARIANTS
  CapturedWithAnyDescriptors
