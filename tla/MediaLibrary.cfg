SPECIFICATION LibrarySpec
CONSTANTS
  a1 = a1
  a2 = a2
  t1 = t1
  t2 = t2
  None = None
  Assets = {a1, a2}
  Threads = {t1, t2}
  MaxSeq = 2
  MaxOps = 6
  MaxCrashes = 1
INVARIANTS
  FilesOfLiveAssets
  
SYMMETRY LibrarySymmetry
CHECK_DEADLOCK FALSE
