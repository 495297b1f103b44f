# A specification of seismic-evm

seismic-evm is the block-execution layer of Seismic, a fork of alloy-evm: it
wraps revm in an `Evm` trait, drives it through a block with a `BlockExecutor`,
and adds encrypted transactions. Three crates: `evm` (the traits, the Ethereum
executor, system calls, tracing, precompiles), `seismic-evm` and `op-evm`.

All of it is sequential code without threads, files or network. What makes it
hard is of another kind: methods made of many steps, each of which reports to a
hook, commits to a database the caller owns, and may return early with an
error; an environment swapped out and back around a call; unchecked `u64`
arithmetic on gas; two units of time; two callers (`execute_block`, and a block
builder that calls the methods itself, declines to commit, and goes on after an
error). The specification models those steps one by one, checks them with TLC
on small instances and proves the safety properties with TLAPS.

revm (with its `State` and `CacheDB`), alloy-hardforks, op-revm, seismic-revm
and the enclave's ciphers are outside the repository. They appear as operators
marked external, modelled from how the code here uses them.

## 1. Inventory

| Part | State | Operations | Modules |
|---|---|---|---|
| trait `BlockExecutor` (`evm/src/block/mod.rs`) | | `apply_pre_execution_changes`, `execute_transaction*`, `finish`, `set_state_hook`, `execute_block` | `BlockExecutor` (the contract) |
| Ethereum executor (`evm/src/eth/block.rs`) | EVM and database, receipts, gas used, hook | the same, each in steps | `EthBlockExecutor` |
| system calls, hook (`evm/src/block/system_calls`, `state_hook.rs`) | optional hook | EIP-2935, 4788, 7002, 7251; report and commit | `EthBlockExecutor` |
| balance changes (`calc.rs`, `state_changes.rs`, `dao_fork.rs`) | | rewards, ommers, withdrawals, DAO drain | `BalanceIncrements`, `BalanceDues`, `EthBlockExecutor` |
| deposits, receipts (`eip6110.rs`, `*/receipt_builder.rs`) | | collecting deposit logs; building receipts | `EthBlockExecutor`, `OpBlockExecutor` |
| fork schedules (`seismic-evm/src/hardfork.rs`, `spec.rs`) | | activation at a block or timestamp | `Hardforks` |
| EVM wrappers (`evm/src/evm.rs`, `eth/mod.rs`, `either.rs`, `op-evm/src/lib.rs`) | context, inspector and its switch, database | the trait `Evm`: `transact`, `transact_system_call`, `transact_commit`, `set_inspector_enabled`, `finish` | `EthEvm`, `Revm` |
| Seismic EVM, factory (`seismic-evm/src/lib.rs`) | the same, the context swapped during a system call | the same, `create_evm` | `SeismicEvm` |
| Seismic executor (`seismic-evm/src/block/mod.rs`) | the Ethereum executor, keys | the same methods, after decryption | `SeismicBlockExecutor` |
| OP executor (`op-evm/src/block`) | as Ethereum's, `is_regolith` | the same methods, deposits, create2 deployer | `OpBlockExecutor` |
| tracer (`evm/src/tracing.rs`) | EVM, fused inspector; an iterator with two flags | `trace`, `trace_many`, `next`, `take_inspector` | `TxTracer` |
| precompiles (`evm/src/precompiles.rs`) | builtin or dynamic map, addresses, lookup | map, add, remove, look up, run | `PrecompilesMap`, `PrecompileTable` |
| overrides (`evm/src/overrides.rs`) | a caching database, a block environment | `apply_state_overrides`, `apply_block_overrides` | `StateOverrides` |
| transaction conversion (`tx.rs`, `call.rs`) | | `into_tx_env` with and without the encoding, for 3 networks; `caller_gas_allowance` | `TxConversion` |
| EVM environment (`env.rs`) | block and config environment | setters of one field | the context of `EthEvm` |
| precompile internals, errors (`traits.rs`, `error.rs`, `block/error.rs`) | | delegation, classification | not modelled |

How they interact. A block executor owns an EVM, which owns (a reference to)
the database; the caller lends both and may look at them after every call. The
executor calls the EVM (`transact`, `transact_system_call`), then the hook, then
`commit` on the database. `execute_block` drives the executor to the end; a
builder calls the methods in the order it likes. The Seismic executor wraps the
Ethereum one and calls it with a decrypted copy of the transaction. The tracer
uses an EVM directly. The EVM calls the precompiles map in the middle of a
transaction. Before any of this a transaction with its signer becomes the
environment an EVM executes, and an RPC may override parts of the state and of
the block, and ask how much gas a caller can pay for.

What makes each correct, in a sentence:

- executor: the receipts, the gas, the requests and the hook all tell the story
  of the database, through every skipped, refused or failed step;
- balance changes: each account gets the sum of what is due to it, once;
- Seismic EVM: to its users it is an Ethereum EVM, whose system calls change
  their contract only; the environment swapped out is back before anyone looks;
- Seismic executor: only plaintexts run, and to the rest of the system an
  undecryptable transaction is a refused one;
- OP executor: deposits follow the rules of their fork and the contract of the
  trait still holds;
- tracer: a trace is of its own transaction, on top of its predecessors;
- precompiles: switching representation is invisible, warm means served;
- overrides: an account reads as requested or as before, never a mixture, and
  a field of the block as the last override that named it;
- conversion: whoever executes a transaction, by whatever path, charges what was
  signed and runs what was signed.

PROJECT.json lists the hazards behind these sentences, each at its line.

## 2. The modules

**`Hardforks`** – fork conditions as records, the three queries made of them, the
Seismic schedule, and the conversion from milliseconds to seconds.

**`BalanceIncrements`** – `post_block_balance_increments` as folds over ommers
and withdrawals with `u64` wrap-around in `ommer_reward`. Rewards are stated in
ether and withdrawals in gwei; both are converted to wei, which is the unit of the
increments, by the constants `EthToWei` and `GweiToWei` (`AmountWei`). **`BalanceDues`** is its
reference: what is due to one account at a time (`Due`, `MatchesDues`), with no
loop and no map. `MCBalanceIncrements` compares the two on every small block.

**`BlockExecutor`** – the abstract specification: pre-execution, transactions one
by one, post-execution; a transaction leaves one receipt and its changes, or no
trace; a finished block does not change. The database is left open.

**`EthBlockExecutor`** – the detailed one. `phase` is where the executor stands;
the actions, in order:

| Action | Code |
|---|---|
| `ApplyBlockhashesContractCall`, `ApplyBeaconRootContractCall` | `apply_pre_execution_changes`: gate, call, report, commit, or error |
| `CommitTransaction` | `execute_transaction_with_commit_condition` to its end |
| `RejectTransaction` | it does not fit or the EVM returns an error |
| `SkipTransaction` | the closure answers `CommitChanges::No` |
| `StartFinish` | `finish`: deposits of the receipts, or none before Prague |
| `ApplyWithdrawalRequestsContractCall`, `ApplyConsolidation...` | request calls: report and commit first, then look at the result |
| `CollectBalanceIncrements`, `IncrementBalances`, `ReportBalanceIncrements` | the rest of `finish`, DAO drain included, each may fail half way |
| `SetStateHook` | `set_state_hook`, between two calls |

`caller` tells `execute_block` (which drains `todo` and stops at an error) from
a builder. `mirror` is what a hook knows that applies what it is told; it is the
observer that makes "the hook sees every change" checkable. Fees are left out
(gas price 0): they move balances inside revm only.

**`Revm`** – the EVM both wrappers have inside, external: what a context admits,
what a changeset names, what an inspector hears, what a commit does.

**`EthEvm`** – the trait `Evm` as its users see it and `EthEvm` has it: each
method one step. The context never changes.

**`SeismicEvm`** – `transact` and `transact_system_call` with the three swaps
before the call, the call, and the three swaps back, as separate steps; revm
admits a transaction against the environment it then finds, and may fail. It
*implements* `EthEvm`: entering a system call drops the last result, running it
stutters, and leaving it is the abstract system call. In the mapping the last
result is hidden while a system call is under way, and what the inspector hears
of system calls (an `EthEvm` inspector hears nothing of them) is left out.

**`SeismicBlockExecutor`** – *composes* the wrapper with the inner executor: it
instantiates `EthBlockExecutor` with `Plaintexts(body)` and `Plaintexts(todo)`
for its lists and uses its actions. `FailToDecrypt` is the wrapper's own. As it
implements the inner specification, the inner type invariant is also its own.

**`OpBlockExecutor`** – extends `EthBlockExecutor`, reuses its system calls,
increments and hook, and replaces the execution of transactions and `finish`.
A block also has the time of its parent, which the code never sees: the property
`Create2DeployedAtTransition` measures its two-second guess against it.

**`TxTracer`** – executions are numbered, an inspector is the sequence of
executions it recorded since it was fused, a trace records what the hook saw. It
also remembers, as history, whether it was of the last transaction of its list
and whether the caller had asked for that one to be committed.

**`PrecompileTable`**, **`PrecompilesMap`** – what the map is to its users (one
table and a lookup) and what it is (borrowed until modified, then a map and a
set of addresses kept beside it), with the refinement between them.

**`StateOverrides`** – the state: the accounts of a request visited in any order (it is a hash
map), each refused with one of three errors or committed; a full state is two
commits, destroy and create. `Storage` and `Committed` are the caching database
as the comments of `overrides.rs` describe it. The variable `before` is history:
what could be read before the call. The block: the fields an override names are
set, the base fee saturated to a `u64`, and the database's map of block hashes
is extended; `asked` is history.

**`TxConversion`** – a submission is a transaction with its signer and, perhaps,
its encoding; one operator per `FromRecoveredTx` implementation turns it into an
environment. The EVM (external) then admits the environment or not, and charges
and runs what it finds in it; `executed` is history. `SignedCharge` says what the
signature authorizes without going through an environment. The conversion has no
state, its users do: the same transaction is converted, asked about, executed,
and converted again on another path.

The `MC...` modules instantiate the ones above for TLC. An operator commented
"Mutant" is a plausible slip in the definition that follows it; each property
is known to catch at least one.

## 3. What the runs show

| Run | Question | Bounds |
|---|---|---|
| `balance_increments` | is each account due exactly what it gets? | 2 accounts, 2 ommers of three ages, 2 withdrawals, three reward schedules; a gwei is 3 wei, an ether 32, so that a missing conversion shows |
| `eth_block` | gas, receipts, requests, ether, hook and gates; does `execute_block` run all or fail, return, and refine the trait? | 12 blocks with timestamps in milliseconds: on both sides of each fork second, genesis, missing or zero root, DAO; gas limit 3, so 0 to 3 transactions; 7 kinds of transaction; 5 bodies of up to 3; hook set at any point |
| `seismic_evm` | environment, admission, replay; is it an `EthEvm`? | 2 contracts (one is the beneficiary), 4 transactions, 3 environments, nonces and system calls up to 2 |
| `seismic_block` | does the wrapper implement the inner executor on plaintexts? | 4 envelopes (plain, sealed, sealed for another key), 5 bodies, a timestamp in milliseconds |
| `op_regolith` | gas, deposit nonces, create2 deployer, hook, trait | 2 senders, deposits before and after a transaction of the same sender, blocks at 4 to 7, Canyon at 5, parents one to three seconds older, before Canyon and after |
| `tx_tracer` | attribution, commits, what the hook sees | 2 transactions, lists of up to 3, 5 executions |
| `precompiles_map` | warm addresses, caching, refinement of the table | 2 builtin precompiles, 3 addresses, 3 lookups, gas below and above the cost |
| `state_overrides` | is an account overridden as requested, or not at all; does the last block override win? | 2 calls of either kind, a contract with storage and an absent account, 2 slots, words of 2 bits, 15 overrides per account, 16 of the block |
| `tx_conversion` | is what is charged and run what was signed, on every path; is the allowance what can be paid? | 3 networks, 7 transaction types with each optional part present and absent, fees 0 to 2 around base fees 0 and 1, right and wrong encodings, balances below and above the value |
| `eth_millis` *(violation)* | are fork checks in seconds? | blocks at 2999 and 3000 ms, Prague at second 3 |
| `eth_seismic_forks` *(violation)* | does a Seismic block pay withdrawals? | one empty block |
| `tracer_errors` *(violation)* | one outcome per transaction? | as `tx_tracer`, 4 executions |

The bounds are chosen so that the cases in question occur: a block with room
for some but not all transactions; two recipients that coincide; a contract
queue longer than what one block hands out; a system call that needs more gas
than the block has; a tracer list abandoned in the middle and followed by
another. `U64` is 10000 in the passing runs, above every sum that can arise, so
that a wrap-around shows as an absurd value rather than an accident.

Deadlock is not checked (`CHECK_DEADLOCK FALSE`) where the system stops: a block
that is done or failed, a tracer at its bound of executions, an EVM taken apart
by `finish`, overrides at their bound of calls, a process that panicked.

**Fairness.** Only `eth_block` needs any: `WF_vars(Execute)`, the steps
of the executor itself. A Rust method runs to its end once called and each of
its steps is a call that returns; nothing else has to be assumed, and
`SetStateHook`, the caller's, has no fairness.

**The three findings.**

- `finish` asks `is_prague_active_at_timestamp` of the raw block timestamp. With
  the feature `timestamp-in-seconds` off this is in milliseconds, while the
  pre-block calls convert it ("Fork activation checks always use seconds"). A
  block before Prague then makes the post-block request calls.
- `SeismicChainHardforks` answers every fork before Prague with `Block(0)`,
  which is never active *at a timestamp*. "All forks before Prague activated" is
  the comment; Shanghai and Cancun are never active to the executor, so
  withdrawals are not paid and the beacon root is not stored.
- `TracerIter::next` returns `None` when the EVM returns an error: the error is
  dropped and the iterator looks exhausted. It may still be advanced, and the
  inspector keeps the remains of the failed execution.

More places where the code is narrower than a comment suggests are written
into the properties as exceptions: the hook does not hear of the accounts the
DAO transition drains (`HookMirrorsState`), nor of the create2 deployer
(`OpHookMirrorsState`), and before Regolith deposits may take a block above its
gas limit, after which the gas left wraps around (`OpGasWithinLimit`). The
two-second heuristic of `ensure_create2_deployer` deploys again in a block one
second after a Canyon block, and may not deploy at all if the parent of the first
Canyon block is more than two seconds older (`Create2DeployedAtTransition`). And
`PrecompilesMap::run` asserts that gas cannot underflow, which nothing
guarantees of a user's closure (the one in the documentation of
`set_precompile_lookup` charges a fixed 100): the result `panic` of `Run`. A
Seismic environment drops access lists and dynamic fees, so that EIP-1559
transactions run for nothing if the base fee is zero and are refused otherwise,
and blobs and authorizations, whose transactions are always refused
(`AdmittedAsSigned`; comments in `tx.rs` say the conversion is for tests).

## 4. What is proved

One module `..._proofs` for each of `EthBlockExecutor`, `SeismicBlockExecutor`,
`OpBlockExecutor`, `SeismicEvm`, `TxConversion`, `StateOverrides`,
`PrecompilesMap` and `TxTracer`, checked by TLAPS for every value of the constants that satisfies the named
assumptions: blocks, lists and bodies of any length, any accounts and requests.

| Theorem | Statement | Inductive invariant, and why |
|---|---|---|
| `GasSafety` | `Spec => []GasWithinLimit` | `GasInv`: also that `todo` holds known transactions and the gas is a natural number, so that `Fits` bounds what is added and the `u64` operations do not wrap |
| `CumulativeGas` | `Spec => []ReceiptsAccountForGas` | `ReceiptsInv`, on top of `GasInv` |
| `HookIsFaithful` | `Spec => []HookMirrorsState` | `HookInv`: mirror and database also agree in the phases in which the increments are collected, and differ by exactly the credited accounts while a report is due (`AwaitsReport`) |
| `TypeCorrect` | `Spec => []TypeOK` | `FieldsInv`, `GasInv`, `HookInv` |
| `NoncesCountReceipts` | `Spec => []ReceiptPerCommit` | the property itself on `LedgerInv` (the database holds accounts, the increments are amounts): `TxResultMoves` says what one transaction moves, and the sum of the nonces grows with the receipts |
| `EtherConserved` | `Spec => []BalanceConserved` | `BalanceInv`: also that nothing is created before the credit, and that between the collection and the credit what the DAO accounts lost is in the increments |
| `IncrementsAreDues` | `MatchesDues(b, accounts)` for a block that `PaysAccounts` and is `Scheduled` | no state: `SumOfMultiples` converts a sum of gwei, and `FoldCollects` says that a loop over the map of increments leaves for each account the sum of its steps, whatever their order |
| `EveryInputMatches` | `DuesSpec => []IncrementsMatchDues` | `IncrementsAreDues` at every block of any set that `InputsAssumption` admits |
| `PreBlockCalls` | `Spec => []PreBlockCallsGated` | the property itself on `LedgerInv`: only their own call changes the two contracts (`SystemCallKeeps`, and transactions touch the storage of the request predeploys alone) |
| `SourcesInOrder` | `Spec => []HookSourcesInOrder` | `SourcesInv`: what can have been heard in a phase (`Heard`), in strict order, so that whatever comes next is later than all of it |
| `ForkChecksInSeconds` | `Spec => []ForkChecksUseSeconds`, if `TimestampInSeconds` | `RequestsCallInv`: the hook has heard of the withdrawal call exactly when Prague is active at the raw timestamp. `eth_millis` shows that the hypothesis is needed |
| `RequestsAccounted` | `Spec => []RequestsConserved`, if types tell transactions apart (`TypesTellApart`, which TLC evaluates for the instance) | `RequestsInv`: which types there can be in a phase (`TypesAt`), that the queues hold accounts, and the deposits from `finish` on |
| `ExecutesAll` | `Spec => []ExecuteBlockComplete` | `CompleteInv`: also that nothing is left to execute from `finish` on; a commit moves the head of the list to the end of the receipts (`MoveHead`) |
| `Implementation` | `Spec => ImplementsBlockExecutor` | every step is a step of the trait or a stutter, by `StepImplementation`; `GasInv` bounds the gas |
| `Implementation` (`SeismicBlockExecutor_proofs`) | `Spec => ImplementsEthBlockExecutor` | `ListInv`, and `SubmittedToInner`: what is submitted and decrypts is submitted to the inner executor |
| `PlaintextsExecuted`, `UndecryptableFails` | `OnlyPlaintextsExecuted`, `UndecryptableFailsBlock` | `ReceiptsInv`: with `FrontInv`, the receipts belong to a prefix of the list that decrypts and `todo` is the rest of it |
| `SeismicGasSafety`, `SeismicCumulativeGas` | `Spec => []Inner!GasWithinLimit`, `Spec => []Inner!ReceiptsAccountForGas` | `GasInv` of the wrapper: only what decrypts is bound by an assumption, as nothing else reaches the inner executor (`CommitGas`) |
| `SeismicExecutesAll` | `Spec => []Inner!ExecuteBlockComplete` | `TypesInv`: receipt by receipt the plaintext of the list, with `FrontInv` |
| `OpGasSafety` | `OpSpec => []OpGasWithinLimit` | `OpGasInv`: the bound holds from Regolith on; before it a deposit is not bound and nothing is claimed |
| `OpHookIsFaithful` | `OpSpec => []OpHookMirrorsState` | `OpHookInv`: as `HookInv`, but for the accounts the hook is never told of (`Untold`) |
| `OpImplementation` | `OpSpec => ImplementsTrait`, if Regolith is active in every block | every step is a step of the trait or a stutter, by `OpStepImplementation`; `OpPhaseInv`: the deployer comes before transactions |
| `DepositNoncesRecorded` | `OpSpec => []DepositNonces` | `OpLedgerInv`, part `OpNonces`: an account has moved its nonce once for each of its receipts, so the nonce a receipt holds is the one before it, and every receipt of a deposit holds one (`DepositTypeAssumption`) |
| `Create2Deployment` | `OpSpec => []Create2DeployedAtTransition` | `OpLedgerInv`, part `OpDeployer`: no receipt before the pre-execution changes, and the code is the one of the transition from then on; then `TransitionByParent`: what the two-second guess says of the actual parent |
| `OpTypeCorrect` | `OpSpec => []OpTypeOK` | `OpFieldsInv`, with the invariants above |
| `OpCumulativeGas` | `OpSpec => [](Regolith => ReceiptsAccountForGas)` | the property itself on `OpGasInv`: a deposit, like any transaction, uses at least its intrinsic gas |
| `OpNoncesCountReceipts` | `OpSpec => []ReceiptPerCommit` | the property itself on `OpLedgerInv`: a deposit that halts moves its nonce too |
| `OpPreBlockCalls` | `OpSpec => []PreBlockCallsGated` | the property itself on `OpLedgerInv`: deposits and the deployer leave the two contracts alone (`OpStorageSteps`) |
| `OpSourcesInOrder` | `OpSpec => []HookSourcesInOrder` | the same `SourcesInv`: the deployer is not reported |
| `OpEtherConserved` | `OpSpec => []OpEtherMinted` | `OpEtherInv`: a list of committed transactions, one for each receipt and in the order of the body, whose mints are the ether created so far (`Mints`), to which the credit adds the increments. A transaction that was skipped or failed is not on it |
| `OpExecutesAll` | `OpSpec => []ExecuteBlockComplete` | the list of `OpEtherInv` again, with `todo` behind it, and that nothing is left from `finish` on |
| `EnvironmentRestored`, `SystemCallsAdmitted` | `EnvRestored`, `SystemCallAdmitted` | `SwapInv`: while a call is under way the frame holds the environment, and the context holds the one of a system call |
| `EveryTransactionChecked` | `TransactionsChecked` | `SwapInv`, and that the result of a running call is that of a system transaction (`CallInv`) |
| `TypeCorrect` (`SeismicEvm_proofs`) | `Spec => []TypeOK` | `FieldsInv`: also the type of the database |
| `NoTransactionReplayed` | `Spec => NoncesSequential` | `ChangesetInv`: a changeset waiting to be committed moves the nonce of its own caller by one, relative to the database it was made from, and no step may move that database in between |
| `Implementation` (`SeismicEvm_proofs`) | `Spec => ImplementsEvm` | `SwapInv` and `CallInv`: the context an `EthEvm` would use is the one in place when a transaction runs, and what `retain` leaves of an admitted call (`RetainedOutcome`) is an outcome of revm's own system call |
| `SignedCharges` | `Spec => []AdmittedAsSigned` | `ConversionInv`: every environment is a conversion of the submission and what was executed had been admitted; then `EnvelopeFields` and `SeismicFields` give each type its fields, `EnvelopeCharge` and `SeismicCharge` what they cost |
| `PathsConverge` | `Spec => []PathsAgree` | `ConversionInv` again: the encoding is one field of one network |
| `AllowanceExact` | `Spec => []AllowanceAffordable` | `AllowanceInv`, `Division` (the quotient is the largest number that fits), and `PriceBound`: no environment is charged more than the price in it |
| `OverridesAtomic` | `Spec => []AllOrNothing` | with `VisitInv`: the database holds sound accounts and those to be visited belong to a request; then `OverriddenView`: what the commits of an override leave reads as requested |
| `LastWins` | `Spec => []LastOverrideWins` | `BlockInv`: every field, and every hash in the map, is what the last of the overrides that names it says |
| `WarmIsServed` | `Spec => []WarmIffServedByMap` | `MapInv`: the set of addresses kept beside the map is its domain, and every precompile in it says whether it is cached |
| `CachedWhilePure` | `Spec => OnlyPureCached` | `MapInv` |
| `TableImplemented` | `Spec => ImplementsTable` | `MapInv`, and `ConversionInvisible`: what is served does not change when the map is converted |
| `Attribution` | `Spec => []TracesAttributed` | `TraceInv`: nothing recorded is newer than the last execution; and `InspectorFresh`: as long as inspectors are fused, the one in use holds nothing handed out |
| `CommitsTraced`, `HookBeforeCommit` | `TracedAreCommitted`, `HookSeesPredecessors` | `HistoryInv`: the two together, with the traces of an iterator a suffix of all traces (`TracedAppended`), and that nothing is left to trace behind the last of a list |

The six theorems `OpCumulativeGas` to `OpExecutesAll` state, for the OP executor,
definitions that it inherits from `EthBlockExecutor` and that `eth_block` checks
for the Ethereum one; ether alone needs a statement of its own
(`OpEtherMinted`), because deposits mint. `op_regolith` does not list them: they
hold of it as of every instance. `SeismicGasSafety` to `SeismicExecutesAll` do the same for
the wrapper, of its instance `Inner`. The other safety properties of the
Ethereum executor carry over to the Seismic one by `Implementation`, on the
plaintexts and under the assumptions of `EthBlockExecutor` about them; that
last inference is made here and not by TLAPS, which cannot cite a theorem
of a module that is instantiated.

Sums over accounts and lists are folds, which have no induction theorem the
provers can use. They are reasoned about once, in the section "Sums" of
`EthBlockExecutor_proofs`: induction over the number of elements, with a set
of natural numbers in place of a predicate (`NatSetInduction`), gives what a sum
is without one of its elements (`SumOfElement`), of zeroes, of two summands, over a subset or
a longer list; the theorems on ether, nonces, requests and increments cite these.

The assumptions say what the code takes for granted: system contracts are
distinct and the DAO beneficiary is not drained (`AddressAssumption`), a
transaction's gas limit covers its intrinsic gas, and it and a block's are
`u64`s (`GasAssumption`, and `PlaintextAssumption` for what decrypts), balances, nonces and timestamps are unsigned, the
storage of a request predeploy is its queue and there are finitely many accounts
(`StateAssumption`), whom a block rewards and pays are accounts and its numbers
are `u64`s (`BlockAssumption`; that its increments then are amounts of known
accounts is the lemma `IncrementsOfAccounts`), a deposit mints an amount
(`MintAssumption`) and is known by its type (`DepositTypeAssumption`), a block
comes after its parent and Canyon is activated by time (`ParentAssumption`), the create2 deployer is no system contract and no DAO
account (`Create2Assumption`), an ether and a gwei are whole numbers of wei, the
gwei not zero (`RewardAssumption`), user transactions are not sent by the system address
(`RevmAssumption`), fees, values and balances are
numbers and a network has only its own transaction types
(`ConversionAssumption`), a word is not its own complement (`WordAssumption`), an
account of the backing database has the hash of its code (`BackingAssumption`),
a storage override holds words (`RequestAssumption`), builtin precompiles have
addresses (`PrecompilesAssumption`), and what is to be executed or traced is a
sequence (`EnvelopesAssumption`, `ListsAssumption`), and there is a key to
decrypt with (`KeyAssumption`). TLC evaluates each in the
passing runs. `Scheduled`, under which increments are what is due, is what
networks have: forks up to Paris by number, Shanghai by time, ommers of at most
eight generations, and a reward unit that 32 divides (`RewardUnit`). TLC
evaluates it for every block of `balance_increments` (`InputsAssumption`, in `BalanceDues`). Under
the schedule of `eth_seismic_forks` it fails, as the finding says.

Only model-checked: liveness (`ExecuteBlockReturns`), which with its fairness is
beyond TLAPS. Every other property of a passing run is stated by a theorem.

## 5. What is not modelled

- The EVM: what a transaction does is a choice among outcomes that differ in
  what the executor can tell apart (success, gas, logs, touched accounts).
- Fees and blob gas, blooms and receipt envelopes, ABI layout of deposits.
- The classification of errors (`error.rs`, `block/error.rs`): where one is
  raised and what it leaves behind is modelled, not its class. `traits.rs`
  delegates call by call to revm's journal.
- The setters of `EvmEnv` (no caller here), the choice of precompiles by the
  builders and factories, and mutable access to the parts of an EVM: a caller with
  `ctx_mut` can change anything, the spec under the precompiles map included.
- How revm's `State` removes accounts that are touched and empty, which an
  override can make them: `StateOverrides` has a database that keeps what is
  committed, as `CacheDB` does.
- Validation and execution of a Seismic transaction by seismic-revm: a custom
  type is admitted whatever its fees and its chain are. The conversion hands it over
  with the chain it was signed for (`AdmittedAsSigned`).
- The cipher: an envelope decrypts or it does not.

## 6. Plan

Order of the work; what is done is marked.

1. The Ethereum executor against the trait, with proofs *(done)*.
2. Seismic EVM against the trait `Evm`, Seismic executor as a refinement, with
   proofs *(done)*.
3. Tracer, precompiles and OP executor, with proofs *(done)*.
4. Transaction conversion and the gas allowance, with proofs *(done)*.
5. State and block overrides, with proofs *(done)*; next the differences between
   revm's two databases for accounts that an override leaves empty.
6. Proofs of every safety property the runs check, `DepositNonces`, the gates
   of the pre-block calls and the sums over accounts and requests included, and
   of the properties the OP executor inherits *(done)*; for the Seismic executor
   the hook and the ledger are left to its refinement.
7. Composition of `EthEvm` with `EthBlockExecutor`: the changesets of system
   calls assumed by the executor are those of `Revm`.
