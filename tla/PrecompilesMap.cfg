CONSTANTS
  sha = sha
  identity = identity
  other = other
  Addresses <- AllAddresses
  Builtin <- RevmPrecompiles
  Lookups <- AllLookups
  Gas <- SomeGas
  Cost = 2

SPECIFICATION Spec
INVARIANT WarmIffServedByMap
PROPERTY OnlyPureCached
PROPERTY ImplementsTable
\* A panic ends the program.
CHECK_DEADLOCK FALSE
