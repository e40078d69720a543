CONSTANTS
  p = p
  s = s
  None = None
  Turns <- MCTurns
  Conversations = {p, s}
  Sessions = {s}
  PositionOf <- MCPositionOf
  Uuids = {u1, u2}
  PerTask = 2
  Results <- MCResults
  MaxCrashes = 1
  MaxAudits = 1
  MaxEvents = 4
  MaxStream = 3
  Moments = {24, 1463, 1464}
  Zones <- MCZones
  Runs = {r1, r2}
  x = x
  y = y
  Refs = {g1, g2}
  Rosters <- MCRosters
  People = {z, w}
  Calls = {c1, c2}
  MaxGroups = 1
  MaxMembers = 3
  MaxMessages = 1
SPECIFICATION MCSpec
CHECK_DEADLOCK FALSE
CONSTRAINTS
  UntilAnswered
  InOrder
  OneAdditionAtATime
SYMMETRY Symmetry
INVARIANTS
  
  RecordsOfTheirConversation
  ReportIsTrue
  MembersStay
PROPERTIES
  RefusedForAReason
