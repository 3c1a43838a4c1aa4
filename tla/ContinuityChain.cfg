SPECIFICATION ChainSpec
CONSTANTS
  a = a
  b = b
  c1 = c1
  c2 = c2
  v1 = v1
  v2 = v2
  None = None
  Shots = {1, 2, 3}
  Drawn = {2}
  FirstShots = {1, 2}
  Facts = {a, b}
  Versions = {v1, v2}
  Clients = {c1, c2}
  MaxOps = 3
  MaxImages = 1
  MaxFailures = 1
INVARIANTS
  
  ReadyImagesAreCurrent
SYMMETRY ChainSymmetry
CHECK_DEADLOCK FALSE
