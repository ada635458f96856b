SPECIFICATION Spec
CONSTANTS
  Commands <- MCCommands
  Missing = Missing
  NoCommand = NoCommand
  Inherited <- AllStandard
  Dispositions = {"default"}
  BufSize = 3
  PipeCap = 3
INVARIANTS
  CommandThatSucceedsIsCaptured
