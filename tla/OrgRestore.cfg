SPECIFICATION MCSpec
CONSTANTS
  Root = Root
  None = None
  boss = boss
  a = a
  b = b
  w1 = w1
  w2 = w2
  Requests = {r1, r2, r3}
  Workspaces = {w1, w2}
  MaxDepth = 3
  MaxOpens = 2
  Alphabet <- TheIds
  Owner <- TheOwner
  FirstDirs <- TheDirs
  Manifests <- TheManifests
  Hires <- TheHires
  Restores <- TheRestores
  f1 = f1
  f2 = f2
  Assets = {a1, a2}
  Docs = {d}
  Folders <- TheFolders
  Clients = {k1, k2}
  MaxAssets = 2
  MaxLedger = 1
CONSTRAINTS
  TwoAfterReopening
  NothingMisplaced
SYMMETRY Symmetry
INVARIANT OnePlacePerPosition
