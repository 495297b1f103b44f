------------------------- MODULE MCEthBlockExecutor -------------------------
(***************************************************************************)
(* Instances of EthBlockExecutor for TLC.  Timestamps are milliseconds, as  *)
(* the code is built by default, and forks are scheduled in seconds; one    *)
(* transaction type stands for each way a transaction can interact with the *)
(* rest of the block.                                                       *)
(***************************************************************************)
EXTENDS EthBlockExecutor

CONSTANTS history, beacon, withdrawals, consolidations, deposits,
          alice, miner, fresh, dao, theDao, root, zeroRoot, noRoot

AllAddresses == {history, beacon, withdrawals, consolidations, deposits,
                 alice, miner, fresh, dao, theDao}

DaoSet == {dao}

Account(nonce, balance, storage) ==
    [exists |-> TRUE, nonce |-> nonce, balance |-> balance, storage |-> storage]

\* Two withdrawal requests wait from earlier blocks; fresh does not exist.
ParentState ==
    [a \in AllAddresses |->
        CASE a = withdrawals -> Account(1, 0, <<dao, dao>>)
          [] a \in {history, beacon, consolidations, deposits} -> Account(1, 0, <<>>)
          [] a \in {alice, dao, theDao} -> Account(0, 2, <<>>)
          [] a = miner -> Account(0, 1, <<>>)
          [] a = fresh -> NoAccount]

Log(address, topic, data) == [address |-> address, topic |-> topic, data |-> data]

Tx(type, to, value, gasLimit, logs) ==
    [type |-> type, sender |-> alice, to |-> to, value |-> value,
     gasLimit |-> gasLimit, logs |-> logs]

Pay       == Tx("pay", miner, 1, 1, <<>>)
Touch     == Tx("touch", fresh, 0, 1, <<>>)
Heavy     == Tx("heavy", fresh, 1, 2, <<>>)
Withdraw  == Tx("withdraw", withdrawals, 0, 1,
                <<Log(withdrawals, "DepositEvent", "request")>>)
Consolidate == Tx("consolidate", consolidations, 0, 2, <<>>)
Deposit   == Tx("deposit", deposits, 1, 1,
                <<Log(deposits, "Other", "data"), Log(deposits, "DepositEvent", "d1")>>)
Garbage   == Tx("garbage", miner, 0, 1, <<Log(deposits, "DepositEvent", Malformed)>>)

RequestTxs == {Pay, Touch, Heavy, Withdraw, Consolidate, Deposit, Garbage}
PlainTxs   == {Pay, Touch, Heavy}

\* What the proof of RequestsConserved takes for granted of an instance.
ASSUME TransactionTypes == TypesTellApart

RequestBodies == {<<>>, <<Deposit, Withdraw>>, <<Pay, Consolidate>>,
                  <<Withdraw, Heavy, Pay>>, <<Deposit, Garbage>>}
PlainBodies   == {<<>>, <<Pay, Touch, Pay>>, <<Heavy, Heavy>>}
EmptyBody     == {<<>>}

-----------------------------------------------------------------------------
\* A post-merge chain: Shanghai, Cancun and Prague at seconds 1, 2 and 3.
ModernSpec ==
    [fork \in Forks |->
        CASE fork = "Shanghai" -> AtTime(1)
          [] fork = "Cancun" -> AtTime(2)
          [] fork = "Prague" -> AtTime(3)
          [] fork = "Paris" -> AtMerge(0)
          [] fork = "Dao" -> Never
          [] OTHER -> AtBlock(0)]

\* A chain before the merge, with the DAO fork at block 5.
OldSpec ==
    [fork \in Forks |->
        CASE fork = "Dao" -> AtBlock(5)
          [] fork = "SpuriousDragon" -> AtBlock(6)
          [] fork = "Byzantium" -> AtBlock(7)
          [] OTHER -> Never]

Withdrawal(a, n) == [address |-> a, amount |-> n]
Ommer(a, n) == [beneficiary |-> a, number |-> n]

Block(spec, number, timestamp, parentRoot) ==
    [spec |-> spec, number |-> number, timestamp |-> timestamp, gasLimit |-> 3,
     beneficiary |-> miner, parentHash |-> <<"hash", number - 1>>,
     parentBeaconRoot |-> parentRoot, ommers |-> <<>>,
     withdrawals |-> <<Withdrawal(fresh, 2), Withdrawal(alice, 0),
                       Withdrawal(fresh, 1)>>]

\* Timestamps in milliseconds: 2999 and 1999 are the last ones of seconds 2 and
\* 1, where Prague and Cancun are not active yet; 2 is in second 0.
ModernBlocks == {Block(ModernSpec, 1, 3000, root), Block(ModernSpec, 1, 3000, noRoot),
                 Block(ModernSpec, 1, 2999, root), Block(ModernSpec, 1, 2000, zeroRoot),
                 Block(ModernSpec, 1, 1999, noRoot), Block(ModernSpec, 1, 2, noRoot),
                 Block(ModernSpec, 0, 3000, zeroRoot), Block(ModernSpec, 0, 3000, root)}

OldBlock(number) ==
    [Block(OldSpec, number, 1, noRoot) EXCEPT
        !.ommers = <<Ommer(alice, number - 1), Ommer(miner, number - 2)>>]
OldBlocks == {OldBlock(4), OldBlock(5), OldBlock(6), OldBlock(7)}

AllBlocks == ModernBlocks \cup OldBlocks

\* Either side of Prague: the finding takes the second one.
PragueBlocks == {Block(ModernSpec, 1, 3000, root), Block(ModernSpec, 1, 2999, root)}

\* A block of a chain configured by SeismicChainHardforks.
SeismicBlocks == {Block(SeismicForks, 1, 5, root)}

=============================================================================
