---------------------------- MODULE BlockExecutor ----------------------------
(***************************************************************************)
(* What the trait BlockExecutor (crates/evm/src/block/mod.rs) promises its   *)
(* callers, whatever chain implements it: pre-execution changes, then       *)
(* transactions one by one, then post-execution changes; a transaction      *)
(* either leaves one receipt and its state changes or leaves no trace; once *)
(* finished, a block does not change.  How the state itself changes before  *)
(* and after the transactions is left open.                                 *)
(***************************************************************************)
EXTENDS Naturals, Sequences

VARIABLES gasLimit,  \* the block's gas limit, which never changes
          stage,     \* "pre", "txs", "post", "done" or "failed"
          state,     \* the database the executor commits to
          receipts,  \* receipts of the committed transactions
          gasUsed    \* their gas

vars == <<gasLimit, stage, state, receipts, gasUsed>>

Init ==
    /\ stage = "pre"
    /\ receipts = <<>>
    /\ gasUsed = 0

\* A step of apply_pre_execution_changes.
PreExecution ==
    /\ stage = "pre"
    /\ stage' \in {"pre", "txs", "failed"}
    /\ UNCHANGED <<gasLimit, receipts, gasUsed>>

\* execute_transaction_with_commit_condition, committing.
CommitTransaction ==
    /\ stage = "txs"
    /\ Len(receipts') = Len(receipts) + 1
    /\ SubSeq(receipts', 1, Len(receipts)) = receipts
    /\ receipts'[Len(receipts')].cumulativeGasUsed = gasUsed'
    /\ gasUsed' >= gasUsed
    /\ gasUsed' <= gasLimit
    /\ UNCHANGED <<gasLimit, stage>>

\* An error that ends the block: execute_block returns it.  A caller that
\* carries on after an error, or a transaction that was not committed, is a
\* stuttering step.
AbortTransactions ==
    /\ stage = "txs"
    /\ stage' = "failed"
    /\ UNCHANGED <<gasLimit, state, receipts, gasUsed>>

\* A step of finish.
PostExecution ==
    /\ stage \in {"txs", "post"}
    /\ stage' \in {"post", "done", "failed"}
    /\ UNCHANGED <<gasLimit, receipts, gasUsed>>

Next == PreExecution \/ CommitTransaction \/ AbortTransactions \/ PostExecution

Spec == Init /\ [][Next]_vars

=============================================================================
