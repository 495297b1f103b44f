------------------------ MODULE MCSeismicBlockExecutor ------------------------
(***************************************************************************)
(* Blocks of plain and encrypted transactions, one encrypted for a key the  *)
(* executor does not have.  As sent, the input of an encrypted call is noise *)
(* to the contract it calls, which then logs something else.                 *)
(***************************************************************************)
EXTENDS SeismicBlockExecutor, Hardforks

CONSTANTS history, beacon, withdrawals, consolidations, deposits,
          alice, miner, root, zeroRoot, noRoot, txIo, stale, none

AllAddresses == {history, beacon, withdrawals, consolidations, deposits,
                 alice, miner}

\* One request waits in the withdrawal queue.
ParentState ==
    [a \in AllAddresses |->
        [exists |-> TRUE, nonce |-> IF a \in {alice, miner} THEN 0 ELSE 1,
         balance |-> IF a = alice THEN 2 ELSE 0,
         storage |-> IF a = withdrawals THEN <<alice>> ELSE <<>>]]

\* The DAO's accounts: not on this chain.
NoDao == {}

\* Every fork from the start, unlike SeismicForks, where Prague never comes.
PragueForks ==
    [fork \in Forks |-> CASE fork = "Dao" -> Never
                          [] fork \in {"Shanghai", "Cancun", "Prague"} -> AtTime(0)
                          [] OTHER -> AtBlock(0)]

Log(data) == [address |-> deposits, topic |-> "DepositEvent", data |-> data]

Tx(type, to, gasLimit, logs) ==
    [type |-> type, sender |-> alice, to |-> to, value |-> 1,
     gasLimit |-> gasLimit, logs |-> logs]

Plain == LET tx == Tx("legacy", miner, 1, <<>>)
         IN  [sent |-> tx, plaintext |-> tx, key |-> none]

Sealed(key) ==
    [sent      |-> Tx("seismic", deposits, 1, <<Log("malformed")>>),
     plaintext |-> Tx("seismic", deposits, 1, <<Log("d1")>>), key |-> key]

SealedWithdrawal ==
    [sent      |-> Tx("withdraw", withdrawals, 2, <<Log("malformed")>>),
     plaintext |-> Tx("withdraw", withdrawals, 2, <<>>), key |-> txIo]

SentEnvelopes == {Plain, Sealed(txIo), Sealed(stale), SealedWithdrawal}

AllBodies == {<<>>, <<Plain, Sealed(txIo)>>, <<Sealed(txIo), SealedWithdrawal>>,
              <<Sealed(stale)>>, <<Plain, Sealed(stale), Sealed(txIo)>>}

Block(spec, number, gasLimit, parentRoot) ==
    [spec |-> spec, number |-> number, timestamp |-> 3000, gasLimit |-> gasLimit,
     beneficiary |-> miner, parentHash |-> <<"hash", number - 1>>,
     parentBeaconRoot |-> parentRoot, ommers |-> <<>>,
     withdrawals |-> <<[address |-> alice, amount |-> 1]>>]

SomeBlocks == {Block(PragueForks, 1, 3, root), Block(PragueForks, 1, 2, root),
               Block(SeismicForks, 1, 3, noRoot)}

=============================================================================
