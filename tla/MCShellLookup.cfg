SPECIFICATION Spec
CONSTANTS
  Name = {bash, fish}
  ReaperName = init
  SelfName = textfetch
  NoName = NoName
  NoCommand = NoCommand
  Envs <- MCEnvs
  Lines <- MCLines
  MaxMoves = 2
INVARIANTS
  TypeOK
  AsksAParent
  ShownIsAnswerOrFallback
  NameAndVersion
