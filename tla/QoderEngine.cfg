CONSTANTS
  MaxEvents = 4
  MaxLines = 4
  MaxCliLines = 2
  Pieces = {a, b}
  MaxPieces = 2
  MaxWrites = 3
SPECIFICATION EngineSpec
CHECK_DEADLOCK FALSE
INVARIANTS
  VerdictOfCli
  TerminalMeansTrusted
PROPERTIES
  ReadIsCurrent
  ImplementsContract
  StoppedRunSettles
