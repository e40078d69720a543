CONSTANTS
  position = position
  Turns = {t1, t2}
  Positions = {position}
  PositionOf <- OnePosition
  None = None
SPECIFICATION Spec
INVARIANTS
  RunningTurnIsCancellable
