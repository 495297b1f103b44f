------------------------------ MODULE Hardforks ------------------------------
(***************************************************************************)
(* Hardfork activation as the block executors consult it.  A chain          *)
(* specification (trait EthereumHardforks, crate alloy-hardforks) is a      *)
(* function from fork names to conditions.  The crate itself is outside the *)
(* repository; ActiveAtBlock, ActiveAtTimestamp and TransitionsAtBlock      *)
(* model the three ForkCondition queries src/ makes of it.                  *)
(***************************************************************************)
EXTENDS Naturals

Forks == {"Dao", "SpuriousDragon", "Byzantium", "Constantinople", "Paris",
          "Shanghai", "Cancun", "Prague"}

\* The conditions a fork can have: a block height, a timestamp in seconds, or none.
AtBlock(n) == [kind |-> "Block", at |-> n]
AtTime(t)  == [kind |-> "Timestamp", at |-> t]
Never      == [kind |-> "Never", at |-> 0]

\* A merge fork (ForkCondition::TTD) answers block queries like AtBlock.
AtMerge(n) == [kind |-> "TTD", at |-> n]

ActiveAtBlock(condition, number) ==
    /\ condition.kind \in {"Block", "TTD"}
    /\ number >= condition.at

\* Only a Timestamp condition is ever active at a timestamp: a fork that was
\* activated by block number answers FALSE, however old it is.
ActiveAtTimestamp(condition, time) ==
    /\ condition.kind = "Timestamp"
    /\ time >= condition.at

TransitionsAtBlock(condition, number) ==
    /\ condition.kind = "Block"
    /\ number = condition.at

\* The system calls convert the EVM's millisecond timestamp before they ask.
MillisPerSecond == 1000

TimestampSeconds(timestamp, inSeconds) ==
    IF inSeconds THEN timestamp ELSE timestamp \div MillisPerSecond

\* SeismicChainHardforks::ethereum_fork_activation.
SeismicForks ==
    [fork \in Forks |-> IF fork # "Prague" THEN AtBlock(0) ELSE Never]

=============================================================================
