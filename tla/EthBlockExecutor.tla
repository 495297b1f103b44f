--------------------------- MODULE EthBlockExecutor ---------------------------
(***************************************************************************)
(* The Ethereum block executor: crates/evm/src/eth/block.rs with the system *)
(* calls (block/system_calls), balance increments (block/state_changes.rs), *)
(* deposit requests (eth/eip6110.rs), receipts (eth/receipt_builder.rs) and *)
(* state hook (block/state_hook.rs) it is made of.                          *)
(*                                                                          *)
(* The executor is sequential; what makes it hard is that each method is a  *)
(* series of steps that report to a hook, commit to a database the caller   *)
(* owns and can each return early with an error.  Every such step is an     *)
(* action; "phase" is where the executor stands in the series.              *)
(***************************************************************************)
EXTENDS BalanceIncrements

CONSTANTS
    Addresses,            \* every account the model knows
    HistoryContract,      \* EIP-2935 HISTORY_STORAGE_ADDRESS
    BeaconContract,       \* EIP-4788 BEACON_ROOTS_ADDRESS
    WithdrawalContract,   \* EIP-7002 predeploy
    ConsolidationContract,\* EIP-7251 predeploy
    DepositContract,      \* EIP-6110 deposit_contract_address, or mainnet's
    DaoAccounts,          \* DAO_HARDFORK_ACCOUNTS
    DaoBeneficiary,       \* DAO_HARDFORK_BENEFICIARY
    InitialState,         \* the parent block's state, Addresses -> account
    Blocks,               \* the block environments and contexts to execute
    Transactions,         \* what a builder may submit
    Bodies,               \* the transaction lists execute_block is given
    IntrinsicGas,         \* the least gas a transaction can use
    MaxRequests,          \* requests a predeploy dequeues per block
    NoRoot, ZeroRoot,     \* an absent and a zero parent beacon block root
    TimestampInSeconds    \* cargo feature "timestamp-in-seconds"

VARIABLES
    blk,         \* block environment and execution context, never changed
    caller,      \* "execute_block", or "builder": calls the methods itself
    body,        \* the transactions execute_block is given, never changed
    todo,        \* those of them it has still to execute
    phase,       \* the next step of the executor
    db,          \* State<DB>: what has been committed, Addresses -> account
    stateClear,  \* the EIP-161 state clear flag of db
    hook,        \* whether a state hook is installed
    mirror,      \* the hook's copy of db: db at installation, overlaid with
                 \* every changeset reported to it
    reported,    \* the StateChangeSources reported to the hook, in order
    receipts,
    gasUsed,
    requests,    \* EIP-7685 requests collected by finish
    increments   \* finish's local balance_increments

result == <<receipts, gasUsed, requests>>
hookVars == <<hook, mirror, reported>>
vars == <<blk, caller, body, todo, phase, db, stateClear, hookVars, result, increments>>

Phases == {"start", "beaconRoot", "txs", "withdrawalRequests",
           "consolidationRequests", "increments", "credit", "report",
           "done", "failed"}

-----------------------------------------------------------------------------
(***************************************************************************)
(* Accounts, changesets and the external database (revm's State).  An       *)
(* account of a system contract keeps in "storage" what the contract        *)
(* remembers: the parent hash, the beacon root, or its queue of requests.   *)
(***************************************************************************)
NoAccount == [exists |-> FALSE, nonce |-> 0, balance |-> 0, storage |-> <<>>]

\* An account is exactly its four fields.
IsAccount(x) == x = [exists |-> x.exists, nonce |-> x.nonce,
                     balance |-> x.balance, storage |-> x.storage]

\* EIP-161; an account that has storage has code.
IsEmpty(account) ==
    account.nonce = 0 /\ account.balance = 0 /\ account.storage = <<>>

\* DatabaseCommit::commit: a changeset is a function from touched addresses to
\* their new accounts; under the state clear flag a touched empty one is gone.
Commit(base, changes, clear) ==
    [a \in DOMAIN base |->
        IF a \notin DOMAIN changes THEN base[a]
        ELSE IF clear /\ IsEmpty(changes[a]) THEN NoAccount
        ELSE [exists |-> TRUE, nonce |-> changes[a].nonce,
              balance |-> changes[a].balance, storage |-> changes[a].storage]]

\* State::drain_balances, as far as it got.
Drain(base, accounts) ==
    [a \in DOMAIN base |->
        IF a \in accounts THEN [base[a] EXCEPT !.balance = 0, !.exists = TRUE]
        ELSE base[a]]

\* State::increment_balances: a zero increment touches nothing.
Credit(base, amounts, accounts) ==
    [a \in DOMAIN base |->
        IF a \in accounts \cap DOMAIN amounts /\ amounts[a] # 0
        THEN [base[a] EXCEPT !.balance = @ + amounts[a], !.exists = TRUE]
        ELSE base[a]]

TotalBalance(base, accounts) ==
    SumFunctionOnSet([a \in accounts |-> base[a].balance], accounts)

-----------------------------------------------------------------------------
(***************************************************************************)
(* The EVM, as the executor uses it.                                        *)
(***************************************************************************)

\* What executing tx may yield when the EVM does not reject it: at least the
\* intrinsic gas and at most the gas limit is used, the sender's nonce moves,
\* and only a success moves value, emits logs or runs the called contract.
\* A call to a request predeploy queues a request of the sender.
TxResults(tx, base) ==
    LET bumped == [base[tx.sender] EXCEPT !.nonce = @ + 1]
        runs(a) == a = tx.to /\ a \in {WithdrawalContract, ConsolidationContract}
        success ==
            [a \in {tx.sender, tx.to} |->
                [base[a] EXCEPT
                    !.nonce = @ + (IF a = tx.sender THEN 1 ELSE 0),
                    !.balance = @ - (IF a = tx.sender THEN tx.value ELSE 0)
                                  + (IF a = tx.to THEN tx.value ELSE 0),
                    !.storage = IF runs(a) THEN Append(@, tx.sender) ELSE @]]
    IN  IF base[tx.sender].balance < tx.value THEN {}
        ELSE [success : {TRUE}, gasUsed : {IntrinsicGas, tx.gasLimit},
              logs : {tx.logs}, state : {success}]
             \cup
             [success : {FALSE}, gasUsed : {tx.gasLimit},
              logs : {<<>>}, state : {[a \in {tx.sender} |-> bumped]}]

\* transact_system_call returns a changeset of the called contract only
\* (module SeismicEvm).  A revert or a halt leaves the contract as it was.
SystemCallResults(contract, storage, output) ==
    {[success |-> TRUE, output |-> output,
      state |-> [a \in {contract} |-> [db[a] EXCEPT !.storage = storage]]],
     [success |-> FALSE, output |-> <<>>,
      state |-> [a \in {contract} |-> db[a]]]}

\* A request predeploy hands out the head of its queue.
DequeueResults(contract) ==
    LET queue == db[contract].storage
        n     == Min({MaxRequests, Len(queue)})
    IN  SystemCallResults(contract, SubSeq(queue, n + 1, Len(queue)),
                          SubSeq(queue, 1, n))

-----------------------------------------------------------------------------
\* SystemCaller::on_state: reports a changeset, when a hook is installed.
OnState(source, changes, clear) ==
    IF hook
    THEN /\ mirror' = Commit(mirror, changes, clear)
         /\ reported' = Append(reported, source)
         /\ UNCHANGED hook
    ELSE UNCHANGED hookVars

\* Mutant: the index is read after the receipt was pushed.
TxSourceAfterPush(index) == <<"Transaction", index + 1>>

TxSource(index) == <<"Transaction", index>>
PreSource(call) == <<"PreBlock", call>>
PostSource(change) == <<"PostBlock", change>>

\* Report a changeset, then commit it: the hook sees it first.
ReportAndCommit(source, changes, clear) ==
    /\ OnState(source, changes, clear)
    /\ db' = Commit(db, changes, clear)

\* Mutant: milliseconds are compared with the seconds of the schedule.
RawTimestamp == blk.timestamp

ForkSeconds == TimestampSeconds(blk.timestamp, TimestampInSeconds)

-----------------------------------------------------------------------------
(***************************************************************************)
(* apply_pre_execution_changes                                              *)
(***************************************************************************)
CallsHistoryContract ==
    /\ ActiveAtTimestamp(blk.spec["Prague"], ForkSeconds)
    /\ blk.number # 0

ApplyBlockhashesContractCall ==
    /\ phase = "start"
    /\ stateClear' = ActiveAtBlock(blk.spec["SpuriousDragon"], blk.number)
    /\ \/ /\ ~CallsHistoryContract
          /\ phase' = "beaconRoot"
          /\ UNCHANGED <<db, hookVars>>
       \/ /\ CallsHistoryContract
          /\ phase' = "beaconRoot"
          /\ \E res \in SystemCallResults(HistoryContract, <<blk.parentHash>>, <<>>) :
                ReportAndCommit(PreSource("BlockHashesContract"), res.state, stateClear')
       \/ /\ CallsHistoryContract       \* the call itself failed
          /\ phase' = "failed"
          /\ UNCHANGED <<db, hookVars>>
    /\ UNCHANGED <<blk, caller, body, todo, result, increments>>

CancunActive == ActiveAtTimestamp(blk.spec["Cancun"], ForkSeconds)

\* The root must be there from Cancun on, and be zero in the genesis block.
BeaconRootValid ==
    /\ blk.parentBeaconRoot # NoRoot
    /\ blk.number = 0 => blk.parentBeaconRoot = ZeroRoot

CallsBeaconContract == CancunActive /\ BeaconRootValid /\ blk.number # 0

ApplyBeaconRootContractCall ==
    /\ phase = "beaconRoot"
    /\ \/ /\ ~CallsBeaconContract
          /\ phase' = IF CancunActive /\ ~BeaconRootValid THEN "failed" ELSE "txs"
          /\ UNCHANGED <<db, hookVars>>
       \/ /\ CallsBeaconContract
          /\ phase' = "txs"
          /\ \E res \in SystemCallResults(BeaconContract, <<blk.parentBeaconRoot>>, <<>>) :
                ReportAndCommit(PreSource("BeaconRootContract"), res.state, stateClear)
       \/ /\ CallsBeaconContract        \* the call itself failed
          /\ phase' = "failed"
          /\ UNCHANGED <<db, hookVars>>
    /\ UNCHANGED <<blk, caller, body, todo, stateClear, result, increments>>

-----------------------------------------------------------------------------
(***************************************************************************)
(* execute_transaction_with_commit_condition                                *)
(***************************************************************************)

\* execute_block hands over its transactions in order and always commits; a
\* builder picks any transaction and decides in a closure.
Submitted ==
    IF caller = "builder" THEN Transactions
    ELSE IF todo = <<>> THEN {} ELSE {Head(todo)}

BlockAvailableGas == WrapSub(blk.gasLimit, gasUsed)

\* Mutant: the gas already used is forgotten.
FitsEmptyBlock(tx) == tx.gasLimit <= blk.gasLimit

Fits(tx) == tx.gasLimit <= BlockAvailableGas

\* Mutant: a receipt carries its own gas instead of the running total.
BuildReceiptOwnGas(tx, res, cumulative) ==
    [type |-> tx.type, success |-> res.success,
     cumulativeGasUsed |-> res.gasUsed, logs |-> res.logs]

\* Mutant: a receipt carries what is left of the transaction's gas limit.
BuildReceiptGasLeft(tx, res, cumulative) ==
    [type |-> tx.type, success |-> res.success,
     cumulativeGasUsed |-> cumulative - tx.gasLimit, logs |-> res.logs]

BuildReceipt(tx, res, cumulative) ==
    [type |-> tx.type, success |-> res.success,
     cumulativeGasUsed |-> cumulative, logs |-> res.logs]

\* Ok(Some(gas)): tx was executed and committed.
Committed(tx) ==
    /\ phase = "txs"
    /\ Fits(tx)
    /\ \E res \in TxResults(tx, db) :
        /\ ReportAndCommit(TxSource(Len(receipts)), res.state, stateClear)
        /\ gasUsed' = WrapAdd(gasUsed, res.gasUsed)
        /\ receipts' = Append(receipts, BuildReceipt(tx, res, gasUsed'))
    /\ todo' = IF caller = "builder" THEN todo ELSE Tail(todo)
    /\ UNCHANGED <<blk, caller, body, phase, stateClear, requests, increments>>

CommitTransaction == \E tx \in Submitted : Committed(tx)

\* Mutant: execute_block drops a transaction that fails.
RejectTransactionDropping ==
    /\ phase = "txs"
    /\ Submitted # {}
    /\ todo' = IF caller = "builder" THEN todo ELSE Tail(todo)
    /\ UNCHANGED <<blk, caller, body, phase, db, stateClear, hookVars, result, increments>>

\* Mutant: execute_block tries a transaction that fails again.
RejectTransactionRetrying ==
    /\ phase = "txs"
    /\ Submitted # {}
    /\ UNCHANGED vars

\* Err: the transaction does not fit, or the EVM rejects it or fails.
\* execute_block gives up, a builder moves on to its next transaction.
RejectTransaction ==
    /\ phase = "txs"
    /\ Submitted # {}
    /\ phase' = IF caller = "builder" THEN phase ELSE "failed"
    /\ UNCHANGED <<blk, caller, body, todo, db, stateClear, hookVars, result, increments>>

\* Mutant: the changes are committed whatever the closure says.
SkipTransactionCommitting ==
    /\ phase = "txs"
    /\ caller = "builder"
    /\ \E tx \in Submitted : Fits(tx) /\ \E res \in TxResults(tx, db) :
          db' = Commit(db, res.state, stateClear)
    /\ UNCHANGED <<blk, caller, body, todo, phase, stateClear, hookVars, result,
                   increments>>

\* Mutant: the hook is called before the closure.
SkipTransactionReporting ==
    /\ phase = "txs"
    /\ caller = "builder"
    /\ \E tx \in Submitted : Fits(tx) /\ \E res \in TxResults(tx, db) :
          OnState(TxSource(Len(receipts)), res.state, stateClear)
    /\ UNCHANGED <<blk, caller, body, todo, phase, db, stateClear, result, increments>>

\* Ok(None): tx was executed, but the builder's closure returned
\* CommitChanges::No.
Skipped(tx) ==
    /\ phase = "txs"
    /\ caller = "builder"
    /\ Fits(tx) /\ TxResults(tx, db) # {}
    /\ UNCHANGED vars

SkipTransaction == \E tx \in Submitted : Skipped(tx)

-----------------------------------------------------------------------------
(***************************************************************************)
(* finish                                                                   *)
(***************************************************************************)
\* Mutant: the address of a log is not looked at.
IsDepositOfAnyone(log) == log.topic = "DepositEvent"

IsDeposit(log) == log.address = DepositContract /\ log.topic = "DepositEvent"

\* accumulate_deposits_from_logs
DepositsOf(logs) ==
    FlattenSeq([j \in DOMAIN logs |->
                   IF IsDeposit(logs[j]) THEN <<logs[j].data>> ELSE <<>>])

\* accumulate_deposits_from_receipts
DepositRequests ==
    FlattenSeq([i \in DOMAIN receipts |-> DepositsOf(receipts[i].logs)])

Malformed == "malformed"

\* Requests::push_request_with_type behind the caller's is_empty check.
PushRequest(list, type, data) ==
    IF data = <<>> THEN list ELSE Append(list, [type |-> type, data |-> data])

\* Here, and for Shanghai, the raw timestamp of the block decides.
PragueActiveAtFinish == ActiveAtTimestamp(blk.spec["Prague"], blk.timestamp)

StartFinish ==
    /\ phase = "txs"
    /\ todo = <<>>
    /\ IF ~PragueActiveAtFinish
       THEN phase' = "increments" /\ UNCHANGED requests
       ELSE IF \E i \in DOMAIN DepositRequests : DepositRequests[i] = Malformed
       THEN phase' = "failed" /\ UNCHANGED requests
       ELSE /\ phase' = "withdrawalRequests"
            /\ requests' = PushRequest(<<>>, 0, DepositRequests)
    /\ UNCHANGED <<blk, caller, body, todo, db, stateClear, hookVars, receipts, gasUsed,
                   increments>>

\* The call is reported and committed before its outcome is looked at, and
\* finish returns the error of a call that reverted or halted.
RequestsCall(contract, source, type, next) ==
    /\ \/ \E res \in DequeueResults(contract) :
            /\ ReportAndCommit(PostSource(source), res.state, stateClear)
            /\ phase' = IF res.success THEN next ELSE "failed"
            /\ requests' = PushRequest(requests, type, res.output)
       \/ /\ phase' = "failed"          \* the call itself failed
          /\ UNCHANGED <<db, hookVars, requests>>
    /\ UNCHANGED <<blk, caller, body, todo, stateClear, receipts, gasUsed, increments>>

ApplyWithdrawalRequestsContractCall ==
    /\ phase = "withdrawalRequests"
    /\ RequestsCall(WithdrawalContract, "WithdrawalRequestsContract", 1,
                    "consolidationRequests")

ApplyConsolidationRequestsContractCall ==
    /\ phase = "consolidationRequests"
    /\ RequestsCall(ConsolidationContract, "ConsolidationRequestsContract", 2,
                    "increments")

DaoTransition == TransitionsAtBlock(blk.spec["Dao"], blk.number)

\* Mutant: the balances are summed up after the drain.
DaoIncrementsAfterDrain(base) == Bump(base, DaoBeneficiary, 0)

DaoIncrements(base) == Bump(base, DaoBeneficiary, TotalBalance(db, DaoAccounts))

\* Collects the increments and, in the DAO block, drains the DAO's accounts in
\* favour of the beneficiary.  An account that cannot be loaded ends it with
\* some of them drained.
CollectBalanceIncrements ==
    /\ phase = "increments"
    /\ LET base == PostBlockBalanceIncrements(blk) IN
       \/ /\ ~DaoTransition
          /\ phase' = "credit"
          /\ increments' = base
          /\ UNCHANGED db
       \/ /\ DaoTransition
          /\ phase' = "credit"
          /\ increments' = DaoIncrements(base)
          /\ db' = Drain(db, DaoAccounts)
       \/ /\ DaoTransition
          /\ phase' = "failed"
          /\ \E some \in SUBSET DaoAccounts :
                some # DaoAccounts /\ db' = Drain(db, some)
          /\ UNCHANGED increments
    /\ UNCHANGED <<blk, caller, body, todo, stateClear, hookVars, result>>

\* Again an account that cannot be loaded stops it halfway; the increments
\* are a HashMap, so any of them may have been applied.
IncrementBalances ==
    /\ phase = "credit"
    /\ \/ /\ phase' = "report"
          /\ db' = Credit(db, increments, Addresses)
       \/ /\ phase' = "failed"
          /\ \E some \in SUBSET DOMAIN increments :
                some # DOMAIN increments /\ db' = Credit(db, increments, some)
    /\ UNCHANGED <<blk, caller, body, todo, stateClear, hookVars, result, increments>>

\* balance_increment_state: the accounts whose increment is not zero; the
\* reported accounts carry no storage.  Computed only when there is a hook.
Incremented == {a \in DOMAIN increments : increments[a] # 0}

ReportBalanceIncrements ==
    /\ phase = "report"
    /\ IF hook /\ \A a \in Incremented : db[a].exists
       THEN /\ mirror' = [a \in Addresses |->
                            IF a \in Incremented
                            THEN [db[a] EXCEPT !.storage = mirror[a].storage]
                            ELSE mirror[a]]
            /\ reported' = Append(reported, PostSource("BalanceIncrements"))
       ELSE UNCHANGED <<mirror, reported>>
    /\ phase' = IF hook => \A a \in Incremented : db[a].exists
                THEN "done" ELSE "failed"
    /\ UNCHANGED <<blk, caller, body, todo, db, stateClear, hook, result, increments>>

-----------------------------------------------------------------------------
\* set_state_hook: before execute_block takes the executor, or, for a builder,
\* also between transactions.  A new hook starts from the current database.
SetStateHook ==
    /\ phase = "start" \/ (phase = "txs" /\ caller = "builder")
    /\ hook' \in BOOLEAN
    /\ mirror' = IF hook' THEN db ELSE <<>>
    /\ reported' = <<>>
    /\ UNCHANGED <<blk, caller, body, todo, phase, db, stateClear, result, increments>>

Init ==
    /\ blk \in Blocks
    /\ \/ caller = "builder" /\ body = <<>>
       \/ caller = "execute_block" /\ body \in Bodies
    /\ todo = body
    /\ phase = "start"
    /\ db = InitialState
    /\ stateClear = FALSE
    /\ hook = FALSE
    /\ mirror = <<>>
    /\ reported = <<>>
    /\ receipts = <<>>
    /\ gasUsed = 0
    /\ requests = <<>>
    /\ increments = NoIncrements

\* The steps of the executor itself.
Execute ==
    \/ ApplyBlockhashesContractCall
    \/ ApplyBeaconRootContractCall
    \/ CommitTransaction
    \/ RejectTransaction
    \/ SkipTransaction
    \/ StartFinish
    \/ ApplyWithdrawalRequestsContractCall
    \/ ApplyConsolidationRequestsContractCall
    \/ CollectBalanceIncrements
    \/ IncrementBalances
    \/ ReportBalanceIncrements

Next == Execute \/ SetStateHook

Spec == Init /\ [][Next]_vars

\* A method call runs to its end: the executor is ordinary sequential code.
FairSpec == Spec /\ WF_vars(Execute)

-----------------------------------------------------------------------------
(***************************************************************************)
(* Assumptions on the constants.                                            *)
(***************************************************************************)
SystemContracts == {HistoryContract, BeaconContract, WithdrawalContract,
                    ConsolidationContract, DepositContract}

ASSUME AddressAssumption ==
    /\ Cardinality(SystemContracts) = 5
    /\ SystemContracts \cup DaoAccounts \cup {DaoBeneficiary} \subseteq Addresses
    /\ DaoBeneficiary \notin DaoAccounts
    /\ InitialState = [a \in Addresses |-> InitialState[a]]
    /\ \A a \in Addresses : IsAccount(InitialState[a])

\* A transaction cannot ask for less than the gas it uses anyway.
AllTransactions == Transactions \cup UNION {Range(list) : list \in Bodies}

ASSUME GasAssumption ==
    /\ IntrinsicGas \in Nat \ {0}
    /\ \A tx \in AllTransactions :
          tx.gasLimit \in Nat /\ tx.gasLimit < U64 /\ IntrinsicGas <= tx.gasLimit
    /\ \A list \in Bodies : list \in Seq(AllTransactions)
    /\ \A b \in Blocks : b.gasLimit \in Nat /\ b.gasLimit < U64

\* The parent state and the blocks hold values of their types: balances,
\* nonces and timestamps are unsigned, a predeploy's storage is its queue.
ASSUME StateAssumption ==
    /\ IsFiniteSet(Addresses)
    /\ \A a \in Addresses :
          InitialState[a].nonce \in Nat /\ InitialState[a].balance \in Nat
    /\ \A a \in {WithdrawalContract, ConsolidationContract} :
          InitialState[a].storage \in Seq(Addresses)
    /\ \A tx \in AllTransactions :
          /\ tx.sender \in Addresses /\ tx.to \in Addresses /\ tx.value \in Nat
          /\ tx.logs \in Seq(Range(tx.logs))
    /\ \A b \in Blocks :
          b.number \in Nat /\ b.timestamp \in Nat /\ b.parentHash # NoRoot
    /\ MaxRequests \in Nat

\* Who is rewarded and paid by a block are accounts, and numbers fit their types.
ASSUME BlockAssumption ==
    \A b \in Blocks :
        /\ {"number", "beneficiary", "ommers", "withdrawals"} \subseteq DOMAIN b
        /\ PaysAccounts(b, Addresses)

-----------------------------------------------------------------------------
(***************************************************************************)
(* Properties                                                               *)
(***************************************************************************)

Receipt == [type : {tx.type : tx \in AllTransactions}, success : BOOLEAN,
            cumulativeGasUsed : Nat,
            logs : {tx.logs : tx \in AllTransactions} \cup {<<>>}]

\* The types of the executor's own fields, and the domains of the maps it
\* keeps: the database, the hook's copy of it and the balance increments.
TypeOK ==
    /\ blk \in Blocks
    /\ caller \in {"builder", "execute_block"}
    /\ phase \in Phases
    /\ body \in Seq(AllTransactions) /\ todo \in Seq(AllTransactions)
    /\ stateClear \in BOOLEAN /\ hook \in BOOLEAN
    /\ DOMAIN db = Addresses
    /\ DOMAIN mirror = IF hook THEN Addresses ELSE {}
    /\ gasUsed \in 0 .. U64 - 1
    /\ receipts \in Seq(Receipt)
    /\ DOMAIN increments \subseteq Addresses

\* The gas the block has used never exceeds its limit, so that the unchecked
\* u64 subtraction gas_limit - gas_used of the next transaction cannot wrap
\* around and admit a transaction of any size.
GasWithinLimit ==
    /\ gasUsed <= blk.gasLimit
    /\ BlockAvailableGas = blk.gasLimit - gasUsed

\* Receipts carry the running total of the gas: each adds at least the
\* intrinsic gas to the one before it, and the last one is the block's total.
ReceiptsAccountForGas ==
    /\ gasUsed = IF receipts = <<>> THEN 0
                 ELSE receipts[Len(receipts)].cumulativeGasUsed
    /\ \A i \in 1 .. Len(receipts) :
        LET before == IF i = 1 THEN 0 ELSE receipts[i - 1].cumulativeGasUsed
        IN  receipts[i].cumulativeGasUsed >= before + IntrinsicGas

\* One receipt per committed transaction: the nonces moved in the database
\* count exactly the receipts, through every error and skipped transaction.
ReceiptPerCommit ==
    SumFunction([a \in Addresses |-> db[a].nonce - InitialState[a].nonce])
        = Len(receipts)

\* A hook that applies what it is told holds the executor's database whenever
\* the caller can look: nothing is committed unreported, nothing is reported
\* that is not committed.  Left aside are the DAO block, a block that ended
\* with some increments applied, and the instant between increment and report.
HookMirrorsState ==
    (/\ hook
     /\ phase # "report"
     /\ ~DaoTransition
     /\ phase = "failed" => increments = NoIncrements)
    => mirror = db

Rank(source) == CASE source[1] = "PreBlock" -> 0
                  [] source[1] = "Transaction" -> 1
                  [] source[1] = "PostBlock" -> 2

\* The hook hears pre-block changes, then transactions, numbered like their
\* receipts and without a gap, then post-block changes; nothing twice.
HookSourcesInOrder ==
    LET last == Len(reported)
        TxAt(i) == i <= last /\ Rank(reported[i]) = 1
    IN  /\ \A i \in 1 .. last - 1 : Rank(reported[i]) <= Rank(reported[i + 1])
        /\ IsInjective(reported)
        /\ \A i \in 1 .. last : TxAt(i) =>
              reported[i][2] = IF TxAt(i + 1) THEN reported[i + 1][2] - 1
                                              ELSE Len(receipts) - 1

\* How many requests of a type the lists hold.
Requested(lists, type) ==
    SumFunction([i \in DOMAIN lists |->
                    IF lists[i].type = type THEN Len(lists[i].data) ELSE 0])

\* Transactions are told apart by their type in the model.
TypesTellApart ==
    \A t, u \in AllTransactions : t.type = u.type => t.to = u.to

SuccessfulCalls(contract) ==
    Cardinality({i \in DOMAIN receipts :
        /\ receipts[i].success
        /\ \E tx \in AllTransactions :
              tx.type = receipts[i].type /\ tx.to = contract})

\* The deposit events the deposit contract itself emitted in the block.
DepositEvents ==
    SumFunction([i \in DOMAIN receipts |->
        Cardinality({j \in DOMAIN receipts[i].logs :
            LET log == receipts[i].logs[j]
            IN  log.address = DepositContract /\ log.topic = "DepositEvent"})])

\* No request is lost or made up: what the block returns and what is still
\* queued are the requests queued before the block and those its successful
\* transactions made; deposits are returned in the block that logs them.  The
\* lists are in the order of their types (EIP-7685), one of each, none empty.
RequestsConserved ==
    /\ \A call \in {<<1, WithdrawalContract>>, <<2, ConsolidationContract>>} :
          Requested(requests, call[1]) + Len(db[call[2]].storage)
              = Len(InitialState[call[2]].storage) + SuccessfulCalls(call[2])
    /\ phase = "done" /\ PragueActiveAtFinish => Requested(requests, 0) = DepositEvents
    /\ \A i, j \in DOMAIN requests : i < j => requests[i].type < requests[j].type
    /\ \A i \in DOMAIN requests : requests[i].data # <<>>

\* Ether is created by the block's increments alone, each applied once, and
\* destroyed by nothing: transactions and the DAO drain only move it.
BalanceConserved ==
    LET minted == SumFunction(PostBlockBalanceIncrements(blk))
        total  == TotalBalance(db, Addresses) - TotalBalance(InitialState, Addresses)
    IN  /\ phase \in {"report", "done"} => total = minted
        /\ phase \notin {"credit", "report", "done", "failed"} => total = 0

\* When the block was made, in the unit forks are scheduled in.
BlockSeconds ==
    IF TimestampInSeconds THEN blk.timestamp ELSE blk.timestamp \div 1000

\* The history and beacon contracts hold the parent's hash and root only when
\* their fork is active, in seconds, and the block is not the genesis block.
PreBlockCallsGated ==
    \A call \in {<<HistoryContract, "Prague", <<blk.parentHash>>>>,
                 <<BeaconContract, "Cancun", <<blk.parentBeaconRoot>>>>} :
        db[call[1]].storage # InitialState[call[1]].storage =>
            /\ db[call[1]].storage = call[3]
            /\ blk.number > 0
            /\ ActiveAtTimestamp(blk.spec[call[2]], BlockSeconds)
            /\ call[3] # <<NoRoot>>

\* execute_block executes the whole list in order or fails: it never returns
\* Ok with a transaction missing.
ExecuteBlockComplete ==
    caller = "execute_block" =>
        /\ [i \in DOMAIN receipts |-> receipts[i].type]
               \o [i \in DOMAIN todo |-> todo[i].type]
           = [i \in DOMAIN body |-> body[i].type]
        /\ phase = "done" => todo = <<>>

\* eip2935.rs:32 and eip4788.rs:29: "Fork activation checks always use
\* seconds", so the post-block request calls are made exactly when Prague is
\* active at the block's time in seconds.
ForkChecksUseSeconds ==
    caller = "execute_block" /\ hook /\ phase = "done" =>
        (PostSource("WithdrawalRequestsContract") \in Range(reported)
            <=> ActiveAtTimestamp(blk.spec["Prague"], BlockSeconds))

\* hardfork.rs:59: "Seismic chains were launched with all forks before Prague
\* activated", so a block pays its withdrawals (Shanghai).
WithdrawalsPaid ==
    phase = "done" /\ caller = "execute_block" /\ body = <<>> =>
        \A i \in DOMAIN blk.withdrawals :
            LET w == blk.withdrawals[i]
            IN  db[w.address].balance >= InitialState[w.address].balance + AmountWei(w)

\* execute_block returns: with a result or with an error, never not at all.
ExecuteBlockReturns ==
    caller = "execute_block" => <>(phase \in {"done", "failed"})

\* Where the trait sees the executor stand.
Stage == IF phase \in {"start", "beaconRoot"} THEN "pre"
         ELSE IF phase \in {"txs", "done", "failed"} THEN phase
         ELSE "post"

Abstract == INSTANCE BlockExecutor WITH
    gasLimit <- blk.gasLimit, stage <- Stage, state <- db

\* The trait's contract (module BlockExecutor): order of the steps, one receipt
\* and one commit per transaction, no trace of a failed one, a final result.
ImplementsBlockExecutor == Abstract!Spec

=============================================================================
