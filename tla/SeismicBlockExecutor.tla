------------------------- MODULE SeismicBlockExecutor -------------------------
(***************************************************************************)
(* SeismicBlockExecutor (crates/seismic-evm/src/block/mod.rs): wraps the    *)
(* Ethereum block executor and decrypts the input of each transaction just  *)
(* before it is executed.  Everything else is the inner executor's, so its  *)
(* module is instantiated on the plaintexts.                                *)
(*                                                                          *)
(* An envelope is what a block carries: the transaction as it was sent, its *)
(* plaintext and the key its input was encrypted for, NoKey when it is of a *)
(* type without encryption.  Keys and ciphers are external.                 *)
(***************************************************************************)
EXTENDS SequencesExt, Naturals

CONSTANTS
    Envelopes,                      \* what a builder may submit
    EnvelopeBodies,                 \* the lists execute_block is given
    TxIoKey, NoKey,                 \* purpose_keys.tx_io_sk
    Addresses, HistoryContract, BeaconContract, WithdrawalContract,
    ConsolidationContract, DepositContract, DaoAccounts, DaoBeneficiary,
    InitialState, Blocks, IntrinsicGas, MaxRequests, NoRoot, ZeroRoot,
    TimestampInSeconds, U64, EthToWei, GweiToWei

VARIABLES
    body, todo,                     \* as the inner executor's, of envelopes
    blk, caller, phase, db, stateClear, hook, mirror, reported, receipts,
    gasUsed, requests, increments   \* the inner executor's

vars == <<body, todo, blk, caller, phase, db, stateClear, hook, mirror,
          reported, receipts, gasUsed, requests, increments>>

\* InputDecryptionElements::plaintext_copy succeeds.
Decrypts(envelope) == envelope.key \in {TxIoKey, NoKey}

\* Mutant: the transaction is executed as it was sent.
PlaintextAsSent(envelope) == envelope.sent

\* What plaintext_copy returns: the same transaction, its input in the clear.
\* The second case is only a placeholder: what does not decrypt is not executed.
Plaintext(envelope) ==
    IF Decrypts(envelope) THEN envelope.plaintext ELSE envelope.sent

Plaintexts(list) == [i \in DOMAIN list |-> Plaintext(list[i])]

Inner == INSTANCE EthBlockExecutor WITH
    Transactions <- {Plaintext(e) : e \in {e \in Envelopes : Decrypts(e)}},
    Bodies       <- {Plaintexts(list) : list \in EnvelopeBodies},
    body         <- Plaintexts(body),
    todo         <- Plaintexts(todo)

Submitted ==
    IF caller = "builder" THEN Envelopes
    ELSE IF todo = <<>> THEN {} ELSE {Head(todo)}

-----------------------------------------------------------------------------
(***************************************************************************)
(* execute_transaction_with_commit_condition, and with_result_closure which *)
(* is the same with a closure that commits.                                 *)
(***************************************************************************)
Commit ==
    /\ phase = "txs" /\ Submitted # {}
    /\ UNCHANGED body
    /\ todo' = IF caller = "builder" THEN todo ELSE Tail(todo)
    /\ \E e \in Submitted : Decrypts(e) /\ Inner!Committed(Plaintext(e))

Skip ==
    /\ UNCHANGED <<body, todo>>
    /\ \E e \in Submitted : Decrypts(e) /\ Inner!Skipped(Plaintext(e))

\* The inner executor returns an error.
Reject ==
    /\ UNCHANGED <<body, todo>>
    /\ \E e \in Submitted : Decrypts(e)
    /\ Inner!RejectTransaction

\* Mutant: execute_block goes on after a transaction it cannot decrypt.
FailToDecryptDropping ==
    /\ phase = "txs"
    /\ \E e \in Submitted : ~Decrypts(e)
    /\ todo' = IF caller = "builder" THEN todo ELSE Tail(todo)
    /\ UNCHANGED <<body, blk, caller, phase, db, stateClear, hook, mirror,
                   reported, receipts, gasUsed, requests, increments>>

\* Mutant: the error path gives up the state hook.
FailToDecryptUnhooking ==
    /\ phase = "txs"
    /\ \E e \in Submitted : ~Decrypts(e)
    /\ phase' = IF caller = "builder" THEN phase ELSE "failed"
    /\ hook' = FALSE
    /\ UNCHANGED <<body, todo, blk, caller, db, stateClear, mirror,
                   reported, receipts, gasUsed, requests, increments>>

\* Err(FailedToDecryptSeismicTx), before the inner executor is called: its gas
\* and its size do not matter, and it leaves no trace.
FailToDecrypt ==
    /\ phase = "txs"
    /\ \E e \in Submitted : ~Decrypts(e)
    /\ phase' = IF caller = "builder" THEN phase ELSE "failed"
    /\ UNCHANGED <<body, todo, blk, caller, db, stateClear, hook, mirror,
                   reported, receipts, gasUsed, requests, increments>>

\* apply_pre_execution_changes
PreExecution ==
    /\ UNCHANGED <<body, todo>>
    /\ Inner!ApplyBlockhashesContractCall \/ Inner!ApplyBeaconRootContractCall

\* finish
Finish ==
    /\ UNCHANGED <<body, todo>>
    /\ \/ Inner!StartFinish
       \/ Inner!ApplyWithdrawalRequestsContractCall
       \/ Inner!ApplyConsolidationRequestsContractCall
       \/ Inner!CollectBalanceIncrements
       \/ Inner!IncrementBalances
       \/ Inner!ReportBalanceIncrements

SetStateHook == UNCHANGED <<body, todo>> /\ Inner!SetStateHook

-----------------------------------------------------------------------------
\* SeismicBlockExecutor::new
Init ==
    /\ \/ caller = "builder" /\ body = <<>>
       \/ caller = "execute_block" /\ body \in EnvelopeBodies
    /\ todo = body
    /\ Inner!Init

Execute == PreExecution \/ Commit \/ Skip \/ Reject \/ FailToDecrypt \/ Finish

Next == Execute \/ SetStateHook

Spec == Init /\ [][Next]_vars

ASSUME KeyAssumption == TxIoKey # NoKey

AllEnvelopes == Envelopes \cup UNION {Range(list) : list \in EnvelopeBodies}

ASSUME EnvelopesAssumption == EnvelopeBodies \subseteq Seq(AllEnvelopes)

\* The gas limits of blocks and of what decrypts are u64s, and a transaction
\* cannot ask for less than the gas it uses anyway.
ASSUME PlaintextAssumption ==
    /\ U64 \in Nat /\ IntrinsicGas \in Nat \ {0}
    /\ \A e \in AllEnvelopes : Decrypts(e) =>
          /\ e.plaintext.gasLimit \in Nat /\ e.plaintext.gasLimit < U64
          /\ IntrinsicGas <= e.plaintext.gasLimit
    /\ \A b \in Blocks : b.gasLimit \in Nat /\ b.gasLimit < U64

-----------------------------------------------------------------------------
\* On the plaintexts the executor is the Ethereum one: decrypting is invisible
\* to the state, the hook, the receipts and the requests, and a transaction
\* that does not decrypt is to the block what one the EVM rejects is.  Its type
\* invariant is the inner executor's.
ImplementsEthBlockExecutor == Inner!Spec

\* Only plaintexts are executed: each receipt is that of the plaintext of a
\* transaction that decrypts, or of a failed one.
OnlyPlaintextsExecuted ==
    \A i \in DOMAIN receipts :
        \E e \in AllEnvelopes :
            /\ Decrypts(e)
            /\ receipts[i].type = e.plaintext.type
            /\ receipts[i].success => receipts[i].logs = e.plaintext.logs

\* A block with a transaction that does not decrypt is never executed to its
\* end, and nothing behind that transaction is executed.
UndecryptableFailsBlock ==
    caller = "execute_block" =>
        \A i \in DOMAIN body :
            ~Decrypts(body[i]) => phase # "done" /\ Len(receipts) < i

=============================================================================
