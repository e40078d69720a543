CONSTANTS
  Positions = {p1}
  Sessions = {s1, s2, s3}
  Creators = {c1}
  Rotators = {r1, r2}
  Posters = {t1, t2}
  MaxSessions = 2
  None = None
SPECIFICATION FairSpec
INVARIANTS
  PositionStatesValid
  RunningTurnHasActiveSession
  OneSuccessor
PROPERTIES
  SessionsNeverLost
  CallsEnd
