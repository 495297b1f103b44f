----------------------------- MODULE BalanceDues -----------------------------
(***************************************************************************)
(* A reference for BalanceIncrements: what a block owes to one account at a *)
(* time, without the loops and the map the code accumulates increments in.  *)
(* The blocks of Inputs are compared with it one by one.                    *)
(***************************************************************************)
EXTENDS BalanceIncrements

CONSTANTS Inputs,    \* blocks
          Payees     \* the accounts they pay

VARIABLE input

DuesInit == input \in Inputs

DuesNext == UNCHANGED input

DuesSpec == DuesInit /\ [][DuesNext]_input

\* A schedule as the networks have it: forks up to Paris by number, Shanghai by
\* time; ommers no older than eight generations, whose age does not wrap.
Scheduled(b) ==
    /\ \A fork \in {"Byzantium", "Constantinople", "Paris"} :
          b.spec[fork].kind \in {"Block", "TTD"} /\ b.spec[fork].at \in Nat
    /\ b.spec["Shanghai"].kind = "Timestamp" /\ b.spec["Shanghai"].at \in Nat
    /\ b.timestamp \in Nat
    /\ \A i \in DOMAIN b.ommers :
          b.number <= b.ommers[i].number + 8 /\ b.ommers[i].number + 8 < U64

RewardUnit == EthToWei > 0 /\ EthToWei % 32 = 0

\* The blocks compared are such, and pay the accounts in question.
ASSUME InputsAssumption ==
    RewardUnit /\ \A b \in Inputs : PaysAccounts(b, Payees) /\ Scheduled(b)

-----------------------------------------------------------------------------
(***************************************************************************)
(* What is due to one account, for a specification whose forks up to Paris  *)
(* are activated by number and Shanghai by time: 8ths of the reward for     *)
(* each of its ommers by their age, the reward and a 32nd of it per ommer   *)
(* for the block, and the wei its withdrawals in gwei come to together.     *)
(***************************************************************************)
Merged(blk) == blk.number >= blk.spec["Paris"].at

StaticReward(blk) ==
    EthToWei * (IF blk.number >= blk.spec["Constantinople"].at THEN 2
                ELSE IF blk.number >= blk.spec["Byzantium"].at THEN 3 ELSE 5)

OmmersDue(blk, a) ==
    IF Merged(blk) THEN 0
    ELSE SumFunction([i \in {j \in DOMAIN blk.ommers : blk.ommers[j].beneficiary = a} |->
             (8 - (blk.number - blk.ommers[i].number)) * (StaticReward(blk) \div 8)])

BlockDue(blk, a) ==
    IF Merged(blk) \/ a # blk.beneficiary THEN 0
    ELSE StaticReward(blk) + Len(blk.ommers) * (StaticReward(blk) \div 32)

WithdrawalsDue(blk, a) ==
    IF blk.timestamp < blk.spec["Shanghai"].at THEN 0
    ELSE GweiToWei * SumFunction(
            [i \in {j \in DOMAIN blk.withdrawals : blk.withdrawals[j].address = a} |->
                blk.withdrawals[i].amount])

Due(blk, a) == OmmersDue(blk, a) + BlockDue(blk, a) + WithdrawalsDue(blk, a)

\* Whoever collides with whom, as ommer, beneficiary or recipient, an account
\* gets the sum of all that is due to it (calc.rs:94: "additions are applied
\* cumulatively"), and an account due nothing has no entry, unless it is the
\* beneficiary of an ommer too old to be worth anything.
MatchesDues(blk, accounts) ==
    LET increments == PostBlockBalanceIncrements(blk)
    IN  /\ \A a \in accounts :
              Due(blk, a) = IF a \in DOMAIN increments THEN increments[a] ELSE 0
        /\ \A a \in DOMAIN increments :
              increments[a] = 0 =>
                \E i \in DOMAIN blk.ommers : blk.ommers[i].beneficiary = a

\* The increments of a block are what is due to its accounts, for every input.
IncrementsMatchDues == MatchesDues(input, Payees)

=============================================================================
