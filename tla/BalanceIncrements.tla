-------------------------- MODULE BalanceIncrements --------------------------
(***************************************************************************)
(* The balance changes a block makes outside its transactions: block and    *)
(* ommer rewards and withdrawals.  PostBlockBalanceIncrements translates    *)
(* the loops over a HashMap entry of crates/evm/src/block/state_changes.rs; *)
(* the rewards are crates/evm/src/block/calc.rs.  A block is a record whose *)
(* fields spec, number, timestamp, beneficiary, ommers and withdrawals are  *)
(* the ones the code reads.                                                 *)
(***************************************************************************)
EXTENDS Hardforks, Integers, SequencesExt

CONSTANTS EthToWei,   \* the unit of rewards, a multiple of 32 in the code
          GweiToWei,  \* the unit of the amounts of withdrawals, 10^9
          U64         \* 2^64: the first value a u64 cannot hold

ASSUME RewardAssumption ==
    EthToWei \in Nat /\ GweiToWei \in Nat \ {0} /\ U64 \in Nat \ {0}

\* Release-build u64 arithmetic on operands that are themselves u64 values.
WrapAdd(x, y) == IF x + y >= U64 THEN x + y - U64 ELSE x + y
WrapSub(x, y) == IF x < y THEN x - y + U64 ELSE x - y

\* base_block_reward is None from Paris on, the pre-merge reward before it.
HasBlockReward(spec, number) == ~ActiveAtBlock(spec["Paris"], number)

BaseBlockReward(spec, number) ==
    EthToWei * (IF ActiveAtBlock(spec["Constantinople"], number) THEN 2
                ELSE IF ActiveAtBlock(spec["Byzantium"], number) THEN 3
                ELSE 5)

BlockReward(base, ommers) == base + (base \div 32) * ommers

OmmerReward(base, number, ommerNumber) ==
    (WrapSub(WrapAdd(8, ommerNumber), number) * base) \div 8

NoIncrements == [a \in {} |-> 0]

\* *balance_increments.entry(a).or_default() += amount
Bump(increments, a, amount) ==
    [x \in DOMAIN increments \cup {a} |->
        (IF x \in DOMAIN increments THEN increments[x] ELSE 0)
            + (IF x = a THEN amount ELSE 0)]

\* Ommers first, then the beneficiary, who may be one of them.
RewardIncrements(blk) ==
    LET base == BaseBlockReward(blk.spec, blk.number)
        AddOmmer(m, o) ==
            Bump(m, o.beneficiary, OmmerReward(base, blk.number, o.number))
    IN  IF HasBlockReward(blk.spec, blk.number)
        THEN Bump(FoldLeft(AddOmmer, NoIncrements, blk.ommers),
                  blk.beneficiary, BlockReward(base, Len(blk.ommers)))
        ELSE NoIncrements

\* A withdrawal states its amount in gwei, the increments are in wei.
AmountWei(w) == w.amount * GweiToWei

\* Mutant: the amounts are added as they stand.
WithWithdrawalsInGwei(blk, increments) ==
    LET AddWithdrawal(m, w) ==
            IF w.amount > 0 THEN Bump(m, w.address, w.amount) ELSE m
    IN  IF ActiveAtTimestamp(blk.spec["Shanghai"], blk.timestamp)
        THEN FoldLeft(AddWithdrawal, increments, blk.withdrawals)
        ELSE increments

\* The timestamp is the raw one of the block environment, whatever its unit.
WithWithdrawals(blk, increments) ==
    LET AddWithdrawal(m, w) ==
            IF w.amount > 0 THEN Bump(m, w.address, AmountWei(w)) ELSE m
    IN  IF ActiveAtTimestamp(blk.spec["Shanghai"], blk.timestamp)
        THEN FoldLeft(AddWithdrawal, increments, blk.withdrawals)
        ELSE increments

PostBlockBalanceIncrements(blk) == WithWithdrawals(blk, RewardIncrements(blk))

\* What is assumed of a block: whom it pays are accounts of S, and its numbers
\* fit their types.
PaysAccounts(b, S) ==
    /\ b.number \in Nat /\ b.number < U64
    /\ b.beneficiary \in S
    /\ b.ommers \in Seq([beneficiary : S, number : 0 .. U64 - 1])
    /\ b.withdrawals \in Seq([address : S, amount : Nat])

=============================================================================
