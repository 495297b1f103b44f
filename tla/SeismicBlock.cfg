CONSTANTS
  history = history
  beacon = beacon
  withdrawals = withdrawals
  consolidations = consolidations
  deposits = deposits
  alice = alice
  miner = miner
  root = root
  zeroRoot = zeroRoot
  noRoot = noRoot
  txIo = txIo
  stale = stale
  none = none
  Envelopes <- SentEnvelopes
  EnvelopeBodies <- AllBodies
  TxIoKey = txIo
  NoKey = none
  Addresses <- AllAddresses
  HistoryContract = history
  BeaconContract = beacon
  WithdrawalContract = withdrawals
  ConsolidationContract = consolidations
  DepositContract = deposits
  DaoAccounts <- NoDao
  DaoBeneficiary = miner
  InitialState <- ParentState
  Blocks <- SomeBlocks
  IntrinsicGas = 1
  MaxRequests = 2
  NoRoot = noRoot
  ZeroRoot = zeroRoot
  TimestampInSeconds = FALSE
  U64 = 10000
  EthToWei = 32
  GweiToWei = 3

SPECIFICATION Spec
INVARIANT OnlyPlaintextsExecuted
INVARIANT UndecryptableFailsBlock
PROPERTY ImplementsEthBlockExecutor
\* A block that is done, or failed, stays so.
CHECK_DEADLOCK FALSE
