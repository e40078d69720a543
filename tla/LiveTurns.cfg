SPECIFICATION FairLiveSpec
CONSTANTS
  None = None
  u1 = u1
  g1 = g1
  g2 = g2
  m1 = m1
  p1 = p1
  p2 = p2
  p3 = p3
  PersonalTurns = {u1}
  GroupTurns = {g1, g2}
  Messages = {m1}
  FirstMembers = {p1}
  Joining = {p2, p3}
  Mentions <- TheMentions
  PositionOf <- ThePositions
  MaxDeltas = 3
  ForwardCap = 3
  MaxReads = 2
  MaxFaults = 1
  LiveCap = 2
  SettledCap = 2
CONSTRAINT Focus
INVARIANTS
  ForwardedComplete
  TextOfItsRun
PROPERTIES
  GroupRunsSettle
  GroupRunsConverge
CHECK_DEADLOCK FALSE
