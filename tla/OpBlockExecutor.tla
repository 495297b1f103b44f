---------------------------- MODULE OpBlockExecutor ----------------------------
(***************************************************************************)
(* The OP-stack block executor (crates/op-evm/src/block): the pre-block      *)
(* system calls of the Ethereum one, then the Canyon create2 deployer, then *)
(* deposits and ordinary transactions, and a finish without requests.       *)
(*                                                                          *)
(* A transaction has two more fields here: whether it is a deposit, and the *)
(* value a deposit mints.  A block's spec has two more forks: "Regolith"    *)
(* and "Canyon".  A block also has the timestamp of its parent, which the   *)
(* executor is not told.  All timestamps are seconds on OP chains.          *)
(***************************************************************************)
EXTENDS EthBlockExecutor

CONSTANTS Create2Deployer,      \* CREATE_2_DEPLOYER_ADDR
          Create2Code           \* CREATE_2_DEPLOYER_BYTECODE

VARIABLE preExecuted   \* apply_pre_execution_changes has come to its end

opVars == <<vars, preExecuted>>

-----------------------------------------------------------------------------
(***************************************************************************)
(* apply_pre_execution_changes                                              *)
(***************************************************************************)
OpSystemCalls ==
    /\ ApplyBlockhashesContractCall \/ ApplyBeaconRootContractCall
    /\ UNCHANGED preExecuted

Minus2(time) == IF time < 2 THEN 0 ELSE time - 2

\* Mutant: the code is written in the blocks before Canyon as well.
NotYetCanyon(spec, time) == ~ActiveAtTimestamp(spec["Canyon"], Minus2(time))

CanyonTransition(spec, time) ==
    /\ ActiveAtTimestamp(spec["Canyon"], time)
    /\ ~ActiveAtTimestamp(spec["Canyon"], Minus2(time))

\* Committed without telling the hook.  An account with code is not empty.
EnsureCreate2Deployer ==
    /\ phase = "txs" /\ ~preExecuted
    /\ \/ /\ CanyonTransition(blk.spec, blk.timestamp)
          /\ db' = [db EXCEPT ![Create2Deployer].exists = TRUE,
                              ![Create2Deployer].storage = Create2Code]
          /\ preExecuted' = TRUE
          /\ UNCHANGED phase
       \/ /\ CanyonTransition(blk.spec, blk.timestamp)
          /\ phase' = "failed"          \* the account cannot be loaded
          /\ UNCHANGED <<db, preExecuted>>
       \/ /\ ~CanyonTransition(blk.spec, blk.timestamp)
          /\ preExecuted' = TRUE
          /\ UNCHANGED <<db, phase>>
    /\ UNCHANGED <<blk, caller, body, todo, stateClear, hookVars, result, increments>>

-----------------------------------------------------------------------------
(***************************************************************************)
(* execute_transaction_with_commit_condition                                *)
(***************************************************************************)
Regolith == ActiveAtTimestamp(blk.spec["Regolith"], blk.timestamp)

\* Mutant: deposits are exempt whatever the fork.
OpFitsDeposit(tx) == tx.gasLimit <= BlockAvailableGas \/ tx.deposit

\* Before Regolith a deposit is executed whatever gas is left.
OpFits(tx) ==
    tx.gasLimit <= BlockAvailableGas \/ (tx.deposit /\ ~Regolith)

\* op-revm: a deposit mints first, is never invalid, and moves the nonce of its
\* sender even when it fails.
OpTxResults(tx) ==
    LET minted == [db EXCEPT ![tx.sender].balance = @ + tx.mint]
        failed == [success |-> FALSE, gasUsed |-> tx.gasLimit, logs |-> <<>>,
                   state |-> [a \in {tx.sender} |->
                                [minted[a] EXCEPT !.nonce = @ + 1]]]
    IN  IF tx.deposit THEN TxResults(tx, minted) \cup {failed} ELSE TxResults(tx, db)

\* Mutant: the depositor is loaded after its transaction was committed.
DepositNonceAfter(tx) ==
    IF tx.deposit /\ Regolith THEN {db[tx.sender].nonce + 1} ELSE {}

\* The sender's nonce before the deposit, from Regolith on: an Option.
DepositNonce(tx) ==
    IF tx.deposit /\ Regolith THEN {db[tx.sender].nonce} ELSE {}

\* Mutant: the receipts of ordinary transactions are versioned as well.
VersionOfAnyReceipt(tx) ==
    IF ActiveAtTimestamp(blk.spec["Canyon"], blk.timestamp) THEN {1} ELSE {}

\* Versioned from Canyon on: an Option.
DepositReceiptVersion(tx) ==
    IF tx.deposit /\ ActiveAtTimestamp(blk.spec["Canyon"], blk.timestamp)
    THEN {1} ELSE {}

\* Mutant: a receipt's gas is what the transaction may use.
OpReceiptOfGasLimit(tx, res, cumulative) ==
    [type |-> tx.type, sender |-> tx.sender, success |-> res.success,
     cumulativeGasUsed |-> cumulative - res.gasUsed + tx.gasLimit, logs |-> res.logs,
     depositNonce |-> DepositNonce(tx), version |-> DepositReceiptVersion(tx)]

OpReceiptOf(tx, res, cumulative) ==
    [type |-> tx.type, sender |-> tx.sender, success |-> res.success,
     cumulativeGasUsed |-> cumulative, logs |-> res.logs,
     depositNonce |-> DepositNonce(tx), version |-> DepositReceiptVersion(tx)]

OpCommitTransaction ==
    /\ phase = "txs" /\ preExecuted
    /\ \E tx \in Submitted :
        /\ OpFits(tx)
        /\ \E res \in OpTxResults(tx) :
            /\ ReportAndCommit(TxSource(Len(receipts)), res.state, stateClear)
            /\ gasUsed' = WrapAdd(gasUsed, res.gasUsed)
            /\ receipts' = Append(receipts, OpReceiptOf(tx, res, gasUsed'))
    /\ todo' = IF caller = "builder" THEN todo ELSE Tail(todo)
    /\ UNCHANGED <<blk, caller, body, phase, stateClear, requests, increments,
                   preExecuted>>

\* It does not fit, the depositor cannot be loaded, or the EVM returns an error.
OpRejectTransaction ==
    /\ preExecuted
    /\ RejectTransaction
    /\ UNCHANGED preExecuted

\* Mutant: the hook hears of transactions that are not committed.
OpSkipTransactionReporting ==
    /\ phase = "txs" /\ preExecuted
    /\ caller = "builder"
    /\ \E tx \in Submitted : OpFits(tx) /\ \E res \in OpTxResults(tx) :
          OnState(TxSource(Len(receipts)), res.state, stateClear)
    /\ UNCHANGED <<blk, caller, body, todo, phase, db, stateClear, result, increments,
                   preExecuted>>

OpSkipTransaction ==
    /\ phase = "txs" /\ preExecuted
    /\ caller = "builder"
    /\ \E tx \in Submitted : OpFits(tx) /\ OpTxResults(tx) # {}
    /\ UNCHANGED opVars

-----------------------------------------------------------------------------
(***************************************************************************)
(* finish                                                                   *)
(***************************************************************************)

\* post_block_balance_increments without ommers and withdrawals.
OpBalanceIncrements(b) ==
    PostBlockBalanceIncrements([b EXCEPT !.ommers = <<>>, !.withdrawals = <<>>])

OpCollectBalanceIncrements ==
    /\ phase = "txs" /\ preExecuted
    /\ todo = <<>>
    /\ phase' = "credit"
    /\ increments' = OpBalanceIncrements(blk)
    /\ UNCHANGED <<blk, caller, body, todo, db, stateClear, hookVars, result, preExecuted>>

OpApplyBalanceIncrements ==
    /\ IncrementBalances \/ ReportBalanceIncrements
    /\ UNCHANGED preExecuted

\* set_state_hook, and OpBlockExecutor::new
OpSetStateHook ==
    /\ phase = "start" \/ (phase = "txs" /\ preExecuted)
    /\ SetStateHook
    /\ UNCHANGED preExecuted

OpInit == Init /\ preExecuted = FALSE

OpExecute ==
    \/ OpSystemCalls
    \/ EnsureCreate2Deployer
    \/ OpCommitTransaction
    \/ OpRejectTransaction
    \/ OpSkipTransaction
    \/ OpCollectBalanceIncrements
    \/ OpApplyBalanceIncrements

OpNext == OpExecute \/ OpSetStateHook

OpSpec == OpInit /\ [][OpNext]_opVars

ASSUME Create2Assumption ==
    Create2Deployer \in Addresses \ (SystemContracts \cup DaoAccounts)

\* Forks are activated at times, and a block comes after its parent.
ASSUME ParentAssumption ==
    \A b \in Blocks : /\ b.spec["Canyon"].at \in Nat
                      /\ b.parentTimestamp \in Nat
                      /\ b.parentTimestamp < b.timestamp

\* A deposit is known by its type (DEPOSIT_TRANSACTION_TYPE).
ASSUME DepositTypeAssumption ==
    \A t, u \in AllTransactions : t.type = u.type => t.deposit = u.deposit

\* What a deposit mints is an amount: unsigned.
ASSUME MintAssumption == \A tx \in AllTransactions : tx.mint \in Nat

-----------------------------------------------------------------------------
DepositTypes == {tx.type : tx \in {t \in AllTransactions : t.deposit}}

\* Only a deposit's receipt has a deposit nonce or a version.
OpTypeOK ==
    /\ blk \in Blocks
    /\ phase \in {"start", "beaconRoot", "txs", "credit", "report", "done", "failed"}
    /\ phase \in {"credit", "report", "done"} => preExecuted
    /\ DOMAIN db = Addresses
    /\ DOMAIN mirror = IF hook THEN Addresses ELSE {}
    /\ gasUsed \in 0 .. U64 - 1
    /\ requests = <<>>
    /\ \A i \in DOMAIN receipts :
          receipts[i].type \notin DepositTypes =>
              receipts[i].depositNonce = {} /\ receipts[i].version = {}

\* From Regolith on no transaction, deposit or not, takes the block above its
\* gas limit, so gas_limit - gas_used cannot wrap around.
OpGasWithinLimit ==
    Regolith => gasUsed <= blk.gasLimit /\ BlockAvailableGas = blk.gasLimit - gasUsed

\* From Regolith on every deposit receipt carries the nonce its sender had before
\* the deposit, in every interleaving of deposits and transactions of that
\* sender: its nonce before the block and one for each of its receipts so far.
DepositNonces ==
    Regolith =>
        \A i \in {j \in DOMAIN receipts : receipts[j].type \in DepositTypes} :
            receipts[i].depositNonce =
                {InitialState[receipts[i].sender].nonce
                 + Cardinality({j \in 1 .. i - 1 :
                                    receipts[j].sender = receipts[i].sender})}

\* The executor recognizes the first Canyon block by its own time, two seconds
\* standing for the time of the parent.  Against the parent's actual time: the
\* deployer's code is written in no block before Canyon, nor in one whose parent,
\* at least two seconds older, already was a Canyon block; and it is there before
\* the first transaction of a Canyon block whose parent was not one and is at
\* most two seconds older.  The first Canyon block after an older parent may go
\* without it, and a block a second after a Canyon block may write it again.
Create2DeployedAtTransition ==
    LET Canyon(time) == ActiveAtTimestamp(blk.spec["Canyon"], time)
        parent == blk.parentTimestamp
        gap == blk.timestamp - parent
        deployed == db[Create2Deployer].storage
    IN  /\ deployed # InitialState[Create2Deployer].storage =>
               Canyon(blk.timestamp) /\ (gap >= 2 => ~Canyon(parent))
        /\ receipts # <<>> /\ Canyon(blk.timestamp) /\ ~Canyon(parent) /\ gap <= 2 =>
               deployed = Create2Code

\* The hook holds the database, but for the create2 deployer in the block that
\* deploys it: that change is committed without telling the hook.
OpHookMirrorsState ==
    (/\ hook /\ phase # "report"
     /\ phase = "failed" => increments = NoIncrements)
    => \A a \in Addresses :
          mirror[a] # db[a] =>
              a = Create2Deployer /\ CanyonTransition(blk.spec, blk.timestamp)

OpStage == IF phase = "txs" /\ ~preExecuted THEN "pre" ELSE Stage

OpAbstract == INSTANCE BlockExecutor WITH
    gasLimit <- blk.gasLimit, stage <- OpStage, state <- db

\* From Regolith on the OP executor keeps the trait's contract (module
\* BlockExecutor): its blocks are within the gas limit, a skipped or failed
\* transaction leaves no trace, and the create2 deployer comes first.
ImplementsTrait == OpAbstract!Spec

=============================================================================
