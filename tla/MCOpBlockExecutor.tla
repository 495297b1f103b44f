-------------------------- MODULE MCOpBlockExecutor --------------------------
(***************************************************************************)
(* Deposits of two senders, one of whom also sends ordinary transactions,    *)
(* in blocks between Regolith and Canyon, at Canyon and after it.           *)
(***************************************************************************)
EXTENDS OpBlockExecutor

CONSTANTS history, beacon, withdrawals, consolidations, deposits,
          alice, bob, miner, create2, code, root, noRoot

AllAddresses == {history, beacon, withdrawals, consolidations, deposits,
                 alice, bob, miner, create2}

NoDao == {}
DeployerCode == <<code>>

ParentState ==
    [a \in AllAddresses |->
        IF a = create2 THEN NoAccount
        ELSE [exists |-> TRUE, nonce |-> 0, balance |-> 1, storage |-> <<>>]]

Tx(type, sender, to, value, gasLimit, deposit, mint) ==
    [type |-> type, sender |-> sender, to |-> to, value |-> value,
     gasLimit |-> gasLimit, logs |-> <<>>, deposit |-> deposit, mint |-> mint]

L1Info  == Tx("deposit", bob, miner, 0, 1, TRUE, 0)
Mint    == Tx("deposit", alice, miner, 3, 3, TRUE, 2)
Pay     == Tx("legacy", alice, miner, 1, 1, FALSE, 0)
Huge    == Tx("legacy", bob, miner, 0, 6, FALSE, 0)

AllTxs    == {L1Info, Mint, Pay, Huge}
AllBodies == {<<L1Info>>, <<L1Info, Mint, Pay>>, <<L1Info, Pay, Mint>>,
              <<Mint, Mint, Pay>>}

\* Regolith at second 2, Canyon and with it Shanghai at 5, Ecotone at 7.
OpForks ==
    [fork \in Forks \cup {"Regolith", "Canyon"} |->
        CASE fork = "Regolith" -> AtTime(2)
          [] fork \in {"Canyon", "Shanghai"} -> AtTime(5)
          [] fork = "Cancun" -> AtTime(7)
          [] fork \in {"Dao", "Prague"} -> Never
          [] fork = "Paris" -> AtMerge(0)
          [] OTHER -> AtBlock(0)]

Block(timestamp, parentTimestamp, parentRoot) ==
    [spec |-> OpForks, number |-> 1, timestamp |-> timestamp, gasLimit |-> 4,
     parentTimestamp |-> parentTimestamp,
     beneficiary |-> miner, parentHash |-> <<"hash", 0>>,
     parentBeaconRoot |-> parentRoot, ommers |-> <<>>, withdrawals |-> <<>>]

\* Parents one, two and three seconds older, on either side of Canyon: 6 after 5
\* is taken for the transition again, 7 after 4 is the transition unnoticed.
RegolithBlocks == {Block(4, 2, noRoot), Block(5, 3, noRoot), Block(5, 4, noRoot),
                   Block(6, 4, noRoot), Block(6, 5, noRoot), Block(7, 5, root),
                   Block(7, 4, root)}

=============================================================================
