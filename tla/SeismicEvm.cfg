CONSTANTS
  history = history
  queue = queue
  system = system
  alice = alice
  Addresses <- AllAddresses
  Contracts <- SystemContracts
  SystemAddress = system
  Beneficiary = queue
  Transactions <- UserTransactions
  Environments <- BlockEnvironments
  SystemGas = 5
  MaxNonce = 2

SPECIFICATION Spec
INVARIANT TypeOK
INVARIANT EnvRestored
INVARIANT SystemCallAdmitted
INVARIANT TransactionsChecked
PROPERTY NoncesSequential
PROPERTY ImplementsEvm
\* finish ends the life of the EVM.
CHECK_DEADLOCK FALSE
