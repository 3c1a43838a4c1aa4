SPECIFICATION ReviewSpec
CONSTANTS
  a = a
  b = b
  p1 = p1
  p2 = p2
  r1 = r1
  r2 = r2
  NoValue = NoValue
  Values = {a, b}
  Proposals = {p1, p2}
  ToolChoices <- MCToolChoices
  Patch <- MCPatch
  UserPatches <- MCUserPatches
  Reviewers = {r1, r2}
  MaxRevision = 3
  MaxChangeSets = 2
  Initials = {b}
INVARIANTS
  EditAppliedOnce
  FixedMeansApplied
PROPERTIES
  AppliesToReviewedShot
  UndoOverwritesNothing
SYMMETRY ReviewerSymmetry
CHECK_DEADLOCK FALSE
