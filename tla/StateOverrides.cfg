CONSTANTS
  contract = contract
  absent = absent
  noCode = noCode
  code = code
  badCode = badCode
  Accounts <- TwoAccounts
  Slots <- TwoSlots
  MaxWord = 3
  StateOverride <- Requests
  ValidCode = {code}
  EmptyCode = noCode
  Hash <- KeccakOf
  Backing <- BackingAccounts
  BlockEnv <- TheBlock
  BlockOverrides <- BlockRequests
  MaxFee = 3
  MaxCalls = 2

SPECIFICATION Spec
INVARIANT AllOrNothing
INVARIANT LastOverrideWins
\* The last call returns and no other is made.
CHECK_DEADLOCK FALSE
