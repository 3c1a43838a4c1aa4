SPECIFICATION TimelineSpec
CONSTANTS
  c1 = c1
  c2 = c2
  t1 = t1
  t2 = t2
  m1 = m1
  m2 = m2
  x1 = x1
  x2 = x2
  NoText = NoText
  Clips = {c1, c2}
  Media = {m1, m2}
  Texts = {x1, x2}
  Threads = {t1, t2}
  MaxOps = 4
  MaxRows = 2
  MaxCrashes = 1
INVARIANT ClipsHaveTracks
PROPERTY GuardedEditsSee
SYMMETRY TimelineSymmetry
CHECK_DEADLOCK FALSE
