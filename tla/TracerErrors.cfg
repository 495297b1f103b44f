CONSTANTS
  t1 = t1
  t2 = t2
  Transactions <- TwoTransactions
  Lists <- SmallLists
  MaxRuns = 4

SPECIFICATION Spec
INVARIANT TraceManyComplete
\* The bound on executions ends the exploration.
CHECK_DEADLOCK FALSE
