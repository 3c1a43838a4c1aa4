SPECIFICATION TreeSpec
CONSTANTS
  p = p
  e1 = e1
  e2 = e2
  s1 = s1
  h1 = h1
  h2 = h2
  k1 = k1
  c1 = c1
  c2 = c2
  NoRow = NoRow
  Projects = {p}
  Episodes = {e1}
  Scenes = {s1}
  Shots = {h1, h2}
  Library = {k1}
  Above <- MCAbove
  Given = {4}
  TreeClients = {c1, c2}
  MaxClock = 2
INVARIANTS
  OnlyKnownOrphans
  RestoreNeverRaises
PROPERTIES
  RestoreUndoesItsDelete
SYMMETRY TreeSymmetry
CHECK_DEADLOCK FALSE
