------------------------- MODULE MCBalanceIncrements -------------------------
(***************************************************************************)
(* The balance increments of every small block, with ommers of three ages   *)
(* and payees that coincide.                                                *)
(***************************************************************************)
EXTENDS BalanceDues

CONSTANTS alice, bob

BothPayees == {alice, bob}

Ommers == [beneficiary : {alice, bob}, number : {0, 1, 5}]
Withdrawals == [address : {alice, bob}, amount : 0 .. 2]

SpecAt(byzantium, constantinople, paris) ==
    [fork \in Forks |->
        CASE fork = "Byzantium" -> AtBlock(byzantium)
          [] fork = "Constantinople" -> AtBlock(constantinople)
          [] fork = "Paris" -> AtMerge(paris)
          [] fork = "Shanghai" -> AtTime(10)
          [] OTHER -> Never]

SmallBlocks ==
    [spec : {SpecAt(6, 7, 8), SpecAt(0, 9, 9), SpecAt(0, 0, 6)},
     number : 5 .. 8, timestamp : {9, 10}, beneficiary : {alice},
     ommers : SeqOf(Ommers, 2), withdrawals : SeqOf(Withdrawals, 2)]

=============================================================================
