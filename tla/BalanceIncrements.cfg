CONSTANTS
  alice = alice
  bob = bob
  Inputs <- SmallBlocks
  Payees <- BothPayees
  EthToWei = 32
  GweiToWei = 3
  U64 = 10000

SPECIFICATION DuesSpec
INVARIANT IncrementsMatchDues
