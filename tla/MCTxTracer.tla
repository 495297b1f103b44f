------------------------------ MODULE MCTxTracer ------------------------------
(***************************************************************************)
(* Two transactions, lists of up to three of them, five executions.         *)
(***************************************************************************)
EXTENDS TxTracer

CONSTANTS t1, t2

TwoTransactions == {t1, t2}
SmallLists == {<<>>, <<t1>>, <<t2, t1>>, <<t1, t2, t2>>}

=============================================================================
