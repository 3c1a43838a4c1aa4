SPECIFICATION SettingsSpec
CONSTANTS
  p1 = p1
  k1 = k1
  k2 = k2
  t1 = t1
  t2 = t2
  Nobody = Nobody
  Torn = Torn
  Added = {p1}
  Conns = {k1, k2}
  Env = k1
  Tasks = {"director"}
  Threads = {t1, t2}
  MaxOps = 4
  MaxCrashes = 1
INVARIANTS
  RegistryIsConsistent
  CallsUseWhatTheyResolved
  ImageProviderIsCurrent
SYMMETRY SettingsSymmetry
CHECK_DEADLOCK FALSE
