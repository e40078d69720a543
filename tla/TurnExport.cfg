CONSTANTS
  position = position
  Turns = {t1, t2}
  SessionTurns = {t1}
  Opens = {open}
  Positions = {position}
  PositionOf <- OnePosition
  None = None
  MaxJobs = 2
SPECIFICATION FairSpecWithExport
CONSTRAINT Focus
INVARIANTS
  CancelledIsIndeterminate
  PublishedIsDurable
  DoneMeansDistilled
PROPERTIES
  TurnsAreAnswered
  RetriesConverge
