CONSTANTS
  history = history
  beacon = beacon
  withdrawals = withdrawals
  consolidations = consolidations
  deposits = deposits
  alice = alice
  miner = miner
  fresh = fresh
  dao = dao
  theDao = theDao
  root = root
  zeroRoot = zeroRoot
  noRoot = noRoot
  Addresses <- AllAddresses
  HistoryContract = history
  BeaconContract = beacon
  WithdrawalContract = withdrawals
  ConsolidationContract = consolidations
  DepositContract = deposits
  DaoAccounts <- DaoSet
  DaoBeneficiary = theDao
  InitialState <- ParentState
  NoRoot = noRoot
  ZeroRoot = zeroRoot
  IntrinsicGas = 1
  MaxRequests = 2
  EthToWei = 32
  GweiToWei = 3
  U64 = 10000
  Blocks <- SeismicBlocks
  Transactions <- PlainTxs
  Bodies <- EmptyBody
  TimestampInSeconds = FALSE

SPECIFICATION Spec
INVARIANT WithdrawalsPaid
\* A block that is done, or failed, stays so.
CHECK_DEADLOCK FALSE
