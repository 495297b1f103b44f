CONSTANTS
  t1 = t1
  t2 = t2
  Transactions <- TwoTransactions
  Lists <- SmallLists
  MaxRuns = 5

SPECIFICATION Spec
INVARIANT TracesAttributed
INVARIANT TracedAreCommitted
INVARIANT HookSeesPredecessors
\* The bound on executions ends the exploration.
CHECK_DEADLOCK FALSE
