SPECIFICATION MCSpec
CONSTANTS
  Root = Root
  None = None
  boss = boss
  a = a
  b = b
  d = d
  Alphabet <- TheIds
  MaxDepth = 3
  Owner = boss
  FirstDirs <- TheDirs
  Newcomers <- TheNewcomers
  CallCount = 2
  HearCount = 2
  MaxFaults = 1
  Wanted = {b, d}
  MaxPosts = 2
  NoId = None
  Seats = {a, b}
  Rooms = {r1, r2, r3}
  r1 = r1
  FirstChains <- TheChains
  MaxAsks = 4
  Nobody = Nobody
CONSTRAINT BeforeFaults
SYMMETRY Symmetry
CHECK_DEADLOCK FALSE
PROPERTIES
  DropMovesTheDragged
INVARIANTS
  
  WaitIsWatched
  
