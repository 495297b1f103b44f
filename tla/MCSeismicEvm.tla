----------------------------- MODULE MCSeismicEvm -----------------------------
(***************************************************************************)
(* Two contracts, one of them the block's beneficiary, and one user whose   *)
(* transactions are too large, too cheap, out of order, or fine.            *)
(***************************************************************************)
EXTENDS SeismicEvm

CONSTANTS history, queue, system, alice

AllAddresses == {history, queue, system, alice}
SystemContracts == {history, queue}

Tx(to, nonce, gasLimit, gasPrice) ==
    [caller |-> alice, to |-> to, nonce |-> nonce,
     gasLimit |-> gasLimit, gasPrice |-> gasPrice]

UserTransactions ==
    {Tx(queue, 0, 2, 1), Tx(history, 0, 4, 1), Tx(queue, 0, 2, 0), Tx(alice, 1, 1, 2)}

\* The gas limit of the system call is far above the block's, or below it.
BlockEnvironments ==
    {[gasLimit |-> 3, basefee |-> 1, disableNonceCheck |-> FALSE],
     [gasLimit |-> 9, basefee |-> 0, disableNonceCheck |-> FALSE],
     [gasLimit |-> 3, basefee |-> 1, disableNonceCheck |-> TRUE]}

=============================================================================
