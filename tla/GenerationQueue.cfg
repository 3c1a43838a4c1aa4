SPECIFICATION FairSpec
CONSTANTS
  image = image
  render = render
  c1 = c1
  c2 = c2
  NoSlot = NoSlot
  NumGen = 2
  GuardedSlots = {image}
  OpenSlots = {render}
  Budgets = {1, 2}
  Clients = {c1}
  MaxCrashes = 1
  MaxAborts = 1
INVARIANTS
  IInv
  OneVersionPerCompletion
  WorkerHoldsItsRow
  RunsWithinBudget
  RetriesFollowFinishedRows
PROPERTIES
  CancelIsFinal
  HonoursContract
  EveryRowFinishes
