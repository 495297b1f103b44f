CONSTANTS
  history = history
  beacon = beacon
  withdrawals = withdrawals
  consolidations = consolidations
  deposits = deposits
  alice = alice
  bob = bob
  miner = miner
  create2 = create2
  code = code
  root = root
  noRoot = noRoot
  Addresses <- AllAddresses
  HistoryContract = history
  BeaconContract = beacon
  WithdrawalContract = withdrawals
  ConsolidationContract = consolidations
  DepositContract = deposits
  DaoAccounts <- NoDao
  DaoBeneficiary = miner
  InitialState <- ParentState
  Blocks <- RegolithBlocks
  Transactions <- AllTxs
  Bodies <- AllBodies
  IntrinsicGas = 1
  MaxRequests = 2
  NoRoot = noRoot
  ZeroRoot = root
  TimestampInSeconds = TRUE
  U64 = 10000
  EthToWei = 32
  GweiToWei = 3
  Create2Deployer = create2
  Create2Code <- DeployerCode

SPECIFICATION OpSpec
INVARIANT OpTypeOK
INVARIANT OpGasWithinLimit
INVARIANT DepositNonces
INVARIANT Create2DeployedAtTransition
INVARIANT OpHookMirrorsState
PROPERTY ImplementsTrait
\* A block that is done, or failed, stays so.
CHECK_DEADLOCK FALSE
