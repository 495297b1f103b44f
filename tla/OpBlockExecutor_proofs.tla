------------------------ MODULE OpBlockExecutor_proofs ------------------------
(***************************************************************************)
(* Proofs about OpBlockExecutor, for every block, list of transactions and  *)
(* fork schedule.                                                           *)
(***************************************************************************)
EXTENDS OpBlockExecutor, EthBlockExecutor_proofs

-----------------------------------------------------------------------------
(***************************************************************************)
(* Gas.                                                                     *)
(***************************************************************************)

\* Deposits are bound by the gas limit only from Regolith on.
OpGasInv ==
    /\ blk \in Blocks
    /\ todo \in Seq(AllTransactions)
    /\ gasUsed \in Nat
    /\ Regolith => gasUsed <= blk.gasLimit
    /\ \E S : receipts \in Seq(S)

LEMMA OpOtherStepsKeepGas ==
    [OpNext]_opVars => \/ OpCommitTransaction
                       \/ UNCHANGED <<blk, body, todo, receipts, gasUsed>>
BY DEF OpNext, OpExecute, OpSystemCalls, ApplyBlockhashesContractCall,
       ApplyBeaconRootContractCall, EnsureCreate2Deployer, OpRejectTransaction,
       RejectTransaction, OpSkipTransaction, OpCollectBalanceIncrements,
       OpApplyBalanceIncrements, IncrementBalances, ReportBalanceIncrements,
       OpSetStateHook, SetStateHook, opVars, vars, result

\* An executed transaction, deposit or not, uses at least the intrinsic gas and
\* no more than its limit.
LEMMA OpGasOfResult ==
    ASSUME NEW tx \in AllTransactions, NEW res \in OpTxResults(tx)
    PROVE  res.gasUsed \in Nat /\ IntrinsicGas <= res.gasUsed /\ res.gasUsed <= tx.gasLimit
<1> DEFINE minted == [db EXCEPT ![tx.sender].balance = @ + tx.mint]
           failed == [success |-> FALSE, gasUsed |-> tx.gasLimit, logs |-> <<>>,
                      state |-> [a \in {tx.sender} |->
                                   [minted[a] EXCEPT !.nonce = @ + 1]]]
<1>a. ASSUME NEW base, NEW r \in TxResults(tx, base)
      PROVE  r.gasUsed \in {IntrinsicGas, tx.gasLimit}
  BY <1>a DEF TxResults
<1>b. failed.gasUsed = tx.gasLimit
  OBVIOUS
<1>c. res \in TxResults(tx, minted) \/ res \in TxResults(tx, db) \/ res = failed
  BY DEF OpTxResults
<1>1. res.gasUsed \in {IntrinsicGas, tx.gasLimit}
  <2> HIDE DEF minted, failed
  <2>1. QED
    BY <1>a, <1>b, <1>c
<1>2. /\ IntrinsicGas \in Nat /\ tx.gasLimit \in Nat
      /\ IntrinsicGas <= tx.gasLimit
  BY GasAssumption
<1>3. QED
  BY <1>1, <1>2

\* The gas and the receipt of a committed transaction.
OpReceipted(r) ==
    /\ receipts' = Append(receipts, r)
    /\ r.cumulativeGasUsed = gasUsed'
    /\ gasUsed' \in Nat
    /\ Regolith => gasUsed + IntrinsicGas <= gasUsed' /\ gasUsed' <= blk.gasLimit

LEMMA OpCommitEffect ==
    ASSUME OpGasInv, OpCommitTransaction
    PROVE  \E r : OpReceipted(r)
<1>1. PICK tx \in Submitted :
        /\ OpFits(tx)
        /\ \E res \in OpTxResults(tx) :
            /\ gasUsed' = WrapAdd(gasUsed, res.gasUsed)
            /\ receipts' = Append(receipts, OpReceiptOf(tx, res, gasUsed'))
  BY DEF OpCommitTransaction
<1>2. PICK res \in OpTxResults(tx) :
            /\ gasUsed' = WrapAdd(gasUsed, res.gasUsed)
            /\ receipts' = Append(receipts, OpReceiptOf(tx, res, gasUsed'))
  BY <1>1
<1>3. tx \in AllTransactions
  BY SubmittedTransactions DEF OpGasInv
<1>4. /\ res.gasUsed \in Nat /\ res.gasUsed <= tx.gasLimit /\ tx.gasLimit \in Nat
      /\ IntrinsicGas \in Nat /\ IntrinsicGas <= res.gasUsed
  BY <1>3, OpGasOfResult, GasAssumption
<1>5. /\ gasUsed \in Nat /\ U64 \in Nat
      /\ blk.gasLimit \in Nat /\ blk.gasLimit < U64
  BY GasAssumption, RewardAssumption DEF OpGasInv
<1>6. gasUsed' \in Nat
  BY <1>2, <1>4, <1>5 DEF WrapAdd
<1>7. ASSUME Regolith
      PROVE  gasUsed + IntrinsicGas <= gasUsed' /\ gasUsed' <= blk.gasLimit
  <2>1. gasUsed <= blk.gasLimit
    BY <1>7 DEF OpGasInv
  <2>2. BlockAvailableGas = blk.gasLimit - gasUsed
    BY <1>5, <2>1 DEF BlockAvailableGas, WrapSub
  <2>3. tx.gasLimit <= blk.gasLimit - gasUsed
    BY <1>1, <1>7, <2>2 DEF OpFits
  <2>4. gasUsed + res.gasUsed <= blk.gasLimit
    BY <1>4, <1>5, <2>1, <2>3
  <2>5. QED
    BY <1>2, <1>4, <1>5, <2>4 DEF WrapAdd
<1>8. OpReceiptOf(tx, res, gasUsed').cumulativeGasUsed = gasUsed'
  BY DEF OpReceiptOf
<1>9. QED
  BY <1>2, <1>6, <1>7, <1>8 DEF OpReceipted

\* Receipts are a sequence, of whatever was appended.
LEMMA OpReceiptAppended ==
    ASSUME OpGasInv, NEW r, OpReceipted(r)
    PROVE  /\ \E S : receipts' \in Seq(S)
           /\ Len(receipts') = Len(receipts) + 1
           /\ receipts'[Len(receipts')] = r
           /\ SubSeq(receipts', 1, Len(receipts)) = receipts
<1>1. PICK S : receipts \in Seq(S)
  BY DEF OpGasInv
<1>2. receipts \in Seq(S \cup {r}) /\ r \in S \cup {r}
  BY <1>1, SeqMonotonic
<1>3. /\ Append(receipts, r) \in Seq(S \cup {r})
      /\ Len(Append(receipts, r)) = Len(receipts) + 1
      /\ Append(receipts, r)[Len(receipts) + 1] = r
      /\ SubSeq(Append(receipts, r), 1, Len(receipts)) = receipts
  BY <1>2, SubSeqOfAppend, AppendProperties
<1>4. QED
  BY <1>3 DEF OpReceipted

LEMMA OpGasInvariant == OpSpec => []OpGasInv
<1>1. OpInit => OpGasInv
  <2> SUFFICES ASSUME OpInit PROVE OpGasInv
    OBVIOUS
  <2>1. blk.gasLimit \in Nat
    BY GasAssumption DEF OpInit, Init
  <2>2. todo \in Seq(AllTransactions)
    <3>1. CASE body = <<>>
      BY <3>1 DEF OpInit, Init
    <3>2. CASE body \in Bodies
      BY <3>2, GasAssumption DEF OpInit, Init
    <3>3. QED
      BY <3>1, <3>2 DEF OpInit, Init
  <2>3. receipts = <<>> /\ receipts \in Seq({})
    BY DEF OpInit, Init
  <2>4. QED
    BY <2>1, <2>2, <2>3 DEF OpInit, Init, OpGasInv
<1>2. OpGasInv /\ [OpNext]_opVars => OpGasInv'
  <2> SUFFICES ASSUME OpGasInv, [OpNext]_opVars PROVE OpGasInv'
    OBVIOUS
  <2>1. CASE OpCommitTransaction
    <3>1. blk' = blk /\ (todo' = todo \/ (todo # <<>> /\ todo' = Tail(todo)))
      BY <2>1 DEF OpCommitTransaction, Submitted
    <3>2. todo' \in Seq(AllTransactions)
      BY <3>1 DEF OpGasInv
    <3>3. PICK r : OpReceipted(r)
      BY <2>1, OpCommitEffect
    <3>4. \E S : receipts' \in Seq(S)
      BY <3>3, OpReceiptAppended
    <3>5. QED
      BY <3>1, <3>2, <3>3, <3>4 DEF OpGasInv, OpReceipted, Regolith
  <2>2. CASE UNCHANGED <<blk, body, todo, receipts, gasUsed>>
    BY <2>2 DEF OpGasInv, Regolith
  <2>3. QED
    BY <2>1, <2>2, OpOtherStepsKeepGas
<1>3. QED
  BY <1>1, <1>2, PTL DEF OpSpec

\* From Regolith on no transaction, deposit or not, takes a block above its gas
\* limit, and the subtraction of the next one does not wrap around.
THEOREM OpGasSafety == OpSpec => []OpGasWithinLimit
<1>1. OpGasInv => OpGasWithinLimit
  <2> SUFFICES ASSUME OpGasInv, Regolith
               PROVE  gasUsed <= blk.gasLimit /\ BlockAvailableGas = blk.gasLimit - gasUsed
    BY DEF OpGasWithinLimit
  <2>1. blk.gasLimit \in Nat /\ gasUsed \in Nat /\ gasUsed <= blk.gasLimit
    BY GasAssumption DEF OpGasInv
  <2>2. QED
    BY <2>1 DEF BlockAvailableGas, WrapSub
<1>2. QED
  BY <1>1, OpGasInvariant, PTL

-----------------------------------------------------------------------------
(***************************************************************************)
(* The state hook.                                                          *)
(***************************************************************************)

\* The hook is not told of the deployer in the block that deploys it.
Untold(a) == a = Create2Deployer /\ CanyonTransition(blk.spec, blk.timestamp)

OpHookInv ==
    /\ hook \in BOOLEAN
    /\ db = [a \in Addresses |-> db[a]]
    /\ \A a \in Addresses : IsAccount(db[a])
    /\ phase \notin {"credit", "report", "done", "failed"} => increments = NoIncrements
    /\ hook =>
        /\ DOMAIN mirror = Addresses
        /\ \A a \in Addresses : ~Untold(a) =>
            /\ phase \notin {"report", "failed"} => mirror[a] = db[a]
            /\ phase = "failed" /\ increments = NoIncrements => mirror[a] = db[a]
            /\ phase = "report" =>
                 IF a \in Incremented THEN mirror[a].storage = db[a].storage
                                      ELSE mirror[a] = db[a]

\* Reporting and committing a changeset leaves equal what was equal.
LEMMA ReportAndCommitPointwise ==
    ASSUME OpHookInv, NEW source, NEW changes, NEW clear,
           ReportAndCommit(source, changes, clear)
    PROVE  /\ hook' = hook
           /\ db' = [a \in Addresses |-> db'[a]]
           /\ \A a \in Addresses : IsAccount(db'[a])
           /\ hook => /\ DOMAIN mirror' = Addresses
                      /\ \A a \in Addresses : mirror[a] = db[a] => mirror'[a] = db'[a]
<1>1. db' = Commit(db, changes, clear)
  BY DEF ReportAndCommit
<1>2. /\ db' = [a \in Addresses |-> db'[a]]
      /\ \A a \in Addresses : IsAccount(db'[a])
  BY <1>1, CommitShape DEF OpHookInv
<1>3. CASE hook
  <2>1. hook' = hook /\ mirror' = Commit(mirror, changes, clear)
    BY <1>3 DEF ReportAndCommit, OnState
  <2>2. DOMAIN mirror = Addresses /\ DOMAIN db = Addresses
    BY <1>3 DEF OpHookInv
  <2>3. DOMAIN mirror' = Addresses
    BY <2>1, <2>2 DEF Commit
  <2>4. \A a \in Addresses : mirror[a] = db[a] => mirror'[a] = db'[a]
    BY <1>1, <2>1, <2>2 DEF Commit
  <2>5. QED
    BY <1>2, <2>1, <2>3, <2>4
<1>4. CASE ~hook
  BY <1>2, <1>4 DEF ReportAndCommit, OnState, hookVars
<1>5. QED
  BY <1>3, <1>4 DEF OpHookInv

\* A step before the increments whose changeset is reported and committed, or
\* that changes nothing the hook would hear of.
LEMMA ReportedStep ==
    ASSUME OpHookInv, UNCHANGED <<blk, increments>>,
           phase \in {"start", "beaconRoot", "txs"},
           phase' \in {"beaconRoot", "txs", "failed"},
           \/ UNCHANGED <<db, hookVars>>
           \/ \E source, changes, clear : ReportAndCommit(source, changes, clear)
    PROVE  OpHookInv'
<1>1. \A a \in Addresses : Untold(a)' <=> Untold(a)
  BY DEF Untold
<1>2. CASE UNCHANGED <<db, hookVars>>
  BY <1>1, <1>2 DEF OpHookInv, hookVars
<1>3. CASE \E source, changes, clear : ReportAndCommit(source, changes, clear)
  <2>1. /\ hook' = hook
        /\ db' = [a \in Addresses |-> db'[a]]
        /\ \A a \in Addresses : IsAccount(db'[a])
        /\ hook => /\ DOMAIN mirror' = Addresses
                   /\ \A a \in Addresses : mirror[a] = db[a] => mirror'[a] = db'[a]
    BY <1>3, ReportAndCommitPointwise
  <2>2. QED
    BY <1>1, <2>1 DEF OpHookInv
<1>4. QED
  BY <1>2, <1>3

LEMMA OpHookInvariant == OpSpec => []OpHookInv
<1>1. OpInit => OpHookInv
  BY AddressAssumption DEF OpInit, Init, OpHookInv
<1>2. OpHookInv /\ [OpNext]_opVars => OpHookInv'
  <2> SUFFICES ASSUME OpHookInv, [OpNext]_opVars PROVE OpHookInv'
    OBVIOUS
  <2>0. ASSUME blk' = blk PROVE \A a \in Addresses : Untold(a)' <=> Untold(a)
    BY <2>0 DEF Untold
  <2>1. CASE OpSystemCalls
    <3>1. /\ UNCHANGED <<blk, increments>> /\ phase \in {"start", "beaconRoot"}
          /\ phase' \in {"beaconRoot", "txs", "failed"}
          /\ \/ UNCHANGED <<db, hookVars>>
             \/ \E source, changes, clear : ReportAndCommit(source, changes, clear)
      BY <2>1 DEF OpSystemCalls, ApplyBlockhashesContractCall, ApplyBeaconRootContractCall
    <3>2. QED
      BY <3>1, ReportedStep
  <2>2. CASE EnsureCreate2Deployer
    <3>1. /\ UNCHANGED <<blk, increments, hookVars>> /\ phase = "txs"
          /\ phase' \in {"txs", "failed"}
      BY <2>2 DEF EnsureCreate2Deployer
    <3>2. CASE UNCHANGED db
      BY <3>1, <3>2, ReportedStep
    <3>3. CASE /\ CanyonTransition(blk.spec, blk.timestamp)
               /\ db' = [db EXCEPT ![Create2Deployer].exists = TRUE,
                                   ![Create2Deployer].storage = Create2Code]
      <4>1. Create2Deployer \in Addresses /\ DOMAIN db = Addresses
        BY Create2Assumption DEF OpHookInv
      <4>2. db' = [a \in Addresses |-> db'[a]]
        BY <3>3, <4>1
      <4>3. \A a \in Addresses : a # Create2Deployer => db'[a] = db[a]
        BY <3>3, <4>1
      <4>4. db'[Create2Deployer] =
              [[db[Create2Deployer] EXCEPT !.exists = TRUE] EXCEPT !.storage = Create2Code]
        BY <3>3, <4>1
      <4>5. IsAccount(db[Create2Deployer])
        BY <4>1 DEF OpHookInv
      <4>6. IsAccount(db'[Create2Deployer])
        BY <4>4, <4>5 DEF IsAccount
      <4>7. \A a \in Addresses : IsAccount(db'[a])
        BY <4>3, <4>6 DEF OpHookInv
      <4>8. \A a \in Addresses : ~Untold(a) => a # Create2Deployer
        BY <3>3 DEF Untold
      <4>9. QED
        BY <2>0, <3>1, <4>2, <4>3, <4>7, <4>8 DEF OpHookInv, hookVars
    <3>4. QED
      BY <2>2, <3>2, <3>3 DEF EnsureCreate2Deployer
  <2>3. CASE OpCommitTransaction
    <3>1. /\ UNCHANGED <<blk, increments>> /\ phase = "txs" /\ phase' = "txs"
          /\ \E source, changes, clear : ReportAndCommit(source, changes, clear)
      BY <2>3 DEF OpCommitTransaction
    <3>2. QED
      BY <3>1, ReportedStep
  <2>4. CASE OpRejectTransaction
    <3>1. /\ UNCHANGED <<blk, increments, db, hookVars>> /\ phase = "txs"
          /\ phase' \in {"txs", "failed"}
      BY <2>4 DEF OpRejectTransaction, RejectTransaction
    <3>2. QED
      BY <3>1, ReportedStep
  <2>5. CASE OpCollectBalanceIncrements
    <3>1. UNCHANGED <<blk, db, hookVars>> /\ phase = "txs" /\ phase' = "credit"
      BY <2>5 DEF OpCollectBalanceIncrements
    <3>2. QED
      BY <2>0, <3>1 DEF OpHookInv, hookVars
  <2>6. CASE IncrementBalances
    <3>1. /\ UNCHANGED <<blk, hookVars, increments>> /\ phase = "credit"
          /\ phase' \in {"report", "failed"}
      BY <2>6 DEF IncrementBalances
    <3>2. PICK some :
            /\ db' = Credit(db, increments, some)
            /\ phase' = "failed" => some # DOMAIN increments /\ some \subseteq DOMAIN increments
      BY <2>6 DEF IncrementBalances
    <3>3. db' = [a \in Addresses |-> db'[a]]
      BY <3>2 DEF Credit, OpHookInv
    <3>4. ASSUME NEW a \in Addresses
          PROVE  /\ IsAccount(db'[a])
                 /\ db'[a].storage = db[a].storage
                 /\ a \notin Incremented => db'[a] = db[a]
      <4>1. IsAccount(db[a]) /\ DOMAIN db = Addresses
        BY DEF OpHookInv
      <4>2. CASE a \in some /\ a \in Incremented
        <5>1. db'[a] = [db[a] EXCEPT !.balance = @ + increments[a], !.exists = TRUE]
          BY <3>2, <4>1, <4>2 DEF Credit, Incremented
        <5>2. db[a] = [exists |-> db[a].exists, nonce |-> db[a].nonce,
                       balance |-> db[a].balance, storage |-> db[a].storage]
          BY <4>1 DEF IsAccount
        <5>3. db'[a] = [exists |-> TRUE, nonce |-> db[a].nonce,
                        balance |-> db[a].balance + increments[a],
                        storage |-> db[a].storage]
          BY <5>1, <5>2
        <5>4. QED
          BY <4>2, <5>3 DEF IsAccount
      <4>3. CASE ~(a \in some /\ a \in Incremented)
        <5>1. db'[a] = db[a]
          BY <3>2, <4>1, <4>3 DEF Credit, Incremented
        <5>2. QED
          BY <4>1, <5>1
      <4>4. QED
        BY <4>2, <4>3
    <3>5. phase' = "failed" => increments # NoIncrements
      BY <3>2 DEF NoIncrements
    <3>6. Incremented' = Incremented
      BY <3>1 DEF Incremented
    <3>7. QED
      BY <2>0, <3>1, <3>3, <3>4, <3>5, <3>6 DEF OpHookInv, hookVars
  <2>7. CASE ReportBalanceIncrements
    <3>1. /\ UNCHANGED <<blk, db, hook, increments>> /\ phase = "report"
          /\ phase' \in {"done", "failed"}
      BY <2>7 DEF ReportBalanceIncrements
    <3>2. CASE hook /\ phase' = "done"
      <4>1. mirror' = [a \in Addresses |->
                            IF a \in Incremented
                            THEN [db[a] EXCEPT !.storage = mirror[a].storage]
                            ELSE mirror[a]]
        BY <2>7, <3>2 DEF ReportBalanceIncrements
      <4>2. ASSUME NEW a \in Addresses, ~Untold(a) PROVE mirror'[a] = db[a]
        <5>1. IF a \in Incremented THEN mirror[a].storage = db[a].storage
                                   ELSE mirror[a] = db[a]
          BY <3>1, <3>2, <4>2 DEF OpHookInv
        <5>2. CASE a \in Incremented
          <6>1. [db[a] EXCEPT !.storage = db[a].storage] = db[a]
            BY DEF OpHookInv, IsAccount
          <6>2. QED
            BY <4>1, <5>1, <5>2, <6>1
        <5>3. CASE a \notin Incremented
          BY <4>1, <5>1, <5>3
        <5>4. QED
          BY <5>2, <5>3
      <4>3. DOMAIN mirror' = Addresses
        BY <4>1
      <4>4. QED
        BY <2>0, <3>1, <3>2, <4>2, <4>3 DEF OpHookInv
    <3>3. CASE hook /\ phase' = "failed"
      <4>1. increments # NoIncrements /\ mirror' = mirror
        BY <2>7, <3>3 DEF ReportBalanceIncrements, Incremented, NoIncrements
      <4>2. QED
        BY <2>0, <3>1, <3>3, <4>1 DEF OpHookInv
    <3>4. CASE ~hook
      BY <3>1, <3>4 DEF OpHookInv
    <3>5. QED
      BY <3>1, <3>2, <3>3, <3>4
  <2>8. CASE OpSetStateHook
    <3>1. /\ UNCHANGED <<blk, db, phase, increments>> /\ phase \in {"start", "txs"}
          /\ hook' => mirror' = db
      BY <2>8 DEF OpSetStateHook, SetStateHook
    <3>2. /\ db' = [a \in Addresses |-> db'[a]]
          /\ \A a \in Addresses : IsAccount(db'[a])
          /\ increments' = NoIncrements
          /\ phase' \in {"start", "txs"}
      BY <3>1 DEF OpHookInv
    <3>3. hook' => /\ mirror' = db'
                   /\ DOMAIN mirror' = Addresses
      BY <3>1, <3>2
    <3>4. phase' \notin {"credit", "report", "done", "failed"}
      BY <3>2
    <3>5. ASSUME hook', NEW a \in Addresses
          PROVE  /\ mirror'[a] = db'[a]
                 /\ phase' # "report"
      BY <3>3, <3>4, <3>5
    <3>6. hook' \in BOOLEAN
      BY <2>8, Zenon DEF OpSetStateHook, SetStateHook
    <3>7. QED
      BY <3>2, <3>3, <3>5, <3>6 DEF OpHookInv
  <2>9. CASE OpSkipTransaction \/ UNCHANGED opVars
    <3>1. UNCHANGED <<blk, phase, db, increments, hook, mirror>>
      BY <2>9 DEF OpSkipTransaction, opVars, vars, hookVars
    <3>2. Incremented' = Incremented
      BY <3>1 DEF Incremented
    <3>3. QED
      BY <2>0, <3>1, <3>2 DEF OpHookInv
  <2>10. QED
    BY <2>1, <2>2, <2>3, <2>4, <2>5, <2>6, <2>7, <2>8, <2>9
    DEF OpNext, OpExecute, OpApplyBalanceIncrements
<1>3. QED
  BY <1>1, <1>2, PTL DEF OpSpec

\* A hook that applies what it is told holds the executor's database, but for
\* the create2 deployer in the block that deploys it.
THEOREM OpHookIsFaithful == OpSpec => []OpHookMirrorsState
<1>1. OpHookInv => OpHookMirrorsState
  BY DEF OpHookInv, OpHookMirrorsState, Untold
<1>2. QED
  BY <1>1, OpHookInvariant, PTL

-----------------------------------------------------------------------------
(***************************************************************************)
(* The executor implements the trait.                                       *)
(***************************************************************************)

\* Where the executor can stand, and that the deployer comes before transactions.
OpPhaseInv ==
    /\ phase \in {"start", "beaconRoot", "txs", "credit", "report", "done", "failed"}
    /\ preExecuted \in BOOLEAN
    /\ phase \in {"credit", "report", "done"} => preExecuted
    /\ phase \in {"start", "beaconRoot"} => ~preExecuted

LEMMA OpPhaseSteps ==
    [OpNext]_opVars =>
        \/ UNCHANGED <<phase, preExecuted>>
        \/ phase \in {"start", "beaconRoot"} /\ phase' \in {"beaconRoot", "txs", "failed"}
           /\ UNCHANGED preExecuted
        \/ phase = "txs" /\ phase' \in {"txs", "failed"} /\ preExecuted' \in {preExecuted, TRUE}
        \/ phase = "txs" /\ phase' = "credit" /\ preExecuted /\ UNCHANGED preExecuted
        \/ phase \in {"credit", "report"} /\ phase' \in {"report", "done", "failed"}
           /\ UNCHANGED preExecuted
BY DEF OpNext, OpExecute, OpSystemCalls, ApplyBlockhashesContractCall,
       ApplyBeaconRootContractCall, EnsureCreate2Deployer, OpCommitTransaction,
       OpRejectTransaction, RejectTransaction, OpSkipTransaction,
       OpCollectBalanceIncrements, OpApplyBalanceIncrements, IncrementBalances,
       ReportBalanceIncrements, OpSetStateHook, SetStateHook, opVars, vars

LEMMA OpPhaseInvariant == OpSpec => []OpPhaseInv
<1>1. OpInit => OpPhaseInv
  BY DEF OpInit, Init, OpPhaseInv
<1>2. OpPhaseInv /\ [OpNext]_opVars => OpPhaseInv'
  BY OpPhaseSteps DEF OpPhaseInv
<1>3. QED
  BY <1>1, <1>2, PTL DEF OpSpec

LEMMA OpStepImplementation ==
    ASSUME OpGasInv, OpPhaseInv, Regolith, OpNext
    PROVE  [OpAbstract!Next]_OpAbstract!vars
<1> USE DEF OpStage, Stage, OpAbstract!vars
<1>1. CASE OpSystemCalls \/ EnsureCreate2Deployer
  <2>1. /\ phase \in {"start", "beaconRoot"} \/ (phase = "txs" /\ ~preExecuted)
        /\ phase' \in {"beaconRoot", "txs", "failed"}
        /\ UNCHANGED <<blk, receipts, gasUsed>>
    BY <1>1 DEF OpSystemCalls, ApplyBlockhashesContractCall, ApplyBeaconRootContractCall,
                EnsureCreate2Deployer, result
  <2>2. OpAbstract!PreExecution
    BY <2>1 DEF OpAbstract!PreExecution
  <2>3. QED
    BY <2>2 DEF OpAbstract!Next
<1>2. CASE OpCommitTransaction
  <2>1. phase = "txs" /\ preExecuted /\ UNCHANGED <<blk, phase, preExecuted>>
    BY <1>2 DEF OpCommitTransaction
  <2>2. PICK r : OpReceipted(r)
    BY <1>2, OpCommitEffect
  <2>3. /\ Len(receipts') = Len(receipts) + 1
        /\ receipts'[Len(receipts')] = r
        /\ SubSeq(receipts', 1, Len(receipts)) = receipts
    BY <2>2, OpReceiptAppended
  <2>4. gasUsed' >= gasUsed /\ gasUsed' <= blk.gasLimit /\ r.cumulativeGasUsed = gasUsed'
    BY <2>2, GasAssumption DEF OpReceipted, OpGasInv
  <2>5. OpAbstract!CommitTransaction
    BY <2>1, <2>3, <2>4 DEF OpAbstract!CommitTransaction
  <2>6. QED
    BY <2>5 DEF OpAbstract!Next
<1>3. CASE OpRejectTransaction
  <2>1. /\ phase = "txs" /\ phase' \in {"txs", "failed"} /\ preExecuted
        /\ UNCHANGED <<blk, db, receipts, gasUsed, preExecuted>>
    BY <1>3 DEF OpRejectTransaction, RejectTransaction, result
  <2>2. CASE phase' = "txs"
    BY <2>1, <2>2
  <2>3. CASE phase' = "failed"
    <3>1. OpAbstract!AbortTransactions
      BY <2>1, <2>3 DEF OpAbstract!AbortTransactions
    <3>2. QED
      BY <3>1 DEF OpAbstract!Next
  <2>4. QED
    BY <2>1, <2>2, <2>3
<1>4. CASE OpCollectBalanceIncrements \/ OpApplyBalanceIncrements
  <2>1. /\ phase \in {"txs", "credit", "report"} /\ preExecuted
        /\ phase' \in {"credit", "report", "done", "failed"}
        /\ UNCHANGED <<blk, receipts, gasUsed, preExecuted>>
    BY <1>4 DEF OpCollectBalanceIncrements, OpApplyBalanceIncrements, IncrementBalances,
                ReportBalanceIncrements, result, OpPhaseInv
  <2>2. OpStage \in {"txs", "post"} /\ OpStage' \in {"post", "done", "failed"}
    BY <2>1
  <2>3. OpAbstract!PostExecution
    BY <2>1, <2>2 DEF OpAbstract!PostExecution
  <2>4. QED
    BY <2>3 DEF OpAbstract!Next
<1>5. CASE OpSkipTransaction \/ OpSetStateHook
  BY <1>5 DEF OpSkipTransaction, OpSetStateHook, SetStateHook, opVars, vars, result
<1>6. QED
  BY <1>1, <1>2, <1>3, <1>4, <1>5 DEF OpNext, OpExecute

\* From Regolith on the OP executor keeps the contract of the trait, although it
\* has deposits, a deployer and no requests.
THEOREM OpImplementation ==
    ASSUME \A b \in Blocks : ActiveAtTimestamp(b.spec["Regolith"], b.timestamp)
    PROVE  OpSpec => ImplementsTrait
<1>1. OpInit => OpAbstract!Init
  BY DEF OpInit, Init, OpAbstract!Init, OpStage, Stage
<1>2. OpGasInv /\ OpPhaseInv /\ [OpNext]_opVars => [OpAbstract!Next]_OpAbstract!vars
  <2> SUFFICES ASSUME OpGasInv, OpPhaseInv, [OpNext]_opVars
               PROVE  [OpAbstract!Next]_OpAbstract!vars
    OBVIOUS
  <2>1. Regolith
    BY DEF OpGasInv, Regolith
  <2>2. CASE OpNext
    BY <2>1, <2>2, OpStepImplementation
  <2>3. CASE UNCHANGED opVars
    BY <2>3 DEF opVars, vars, result, OpAbstract!vars, OpStage, Stage
  <2>4. QED
    BY <2>2, <2>3
<1>3. QED
  BY <1>1, <1>2, OpGasInvariant, OpPhaseInvariant, PTL
  DEF OpSpec, ImplementsTrait, OpAbstract!Spec

-----------------------------------------------------------------------------
(***************************************************************************)
(* Nonces, deposits and the deployer's code.                                *)
(***************************************************************************)

\* What committing a transaction, deposit or not, does to the account a.
OpMoved(sender, before, after, a) ==
    /\ after[a].nonce = before[a].nonce + (IF a = sender THEN 1 ELSE 0)
    /\ after[a].balance \in Nat
    /\ a \notin {WithdrawalContract, ConsolidationContract} =>
          after[a].storage = before[a].storage

\* The database once a deposit has minted.
Minting(tx) == [db EXCEPT ![tx.sender].balance = @ + tx.mint]

LEMMA MintingLedger ==
    ASSUME NEW tx \in AllTransactions, Ledger(db)
    PROVE  /\ Ledger(Minting(tx))
           /\ \A a \in Addresses : /\ Minting(tx)[a].nonce = db[a].nonce
                                   /\ Minting(tx)[a].storage = db[a].storage
                                   /\ a # tx.sender => Minting(tx)[a] = db[a]
<1>1. tx.sender \in Addresses /\ tx.mint \in Nat /\ DOMAIN db = Addresses
  BY StateAssumption, MintAssumption DEF Ledger
<1>2. Minting(tx) = [a \in Addresses |-> Minting(tx)[a]]
  BY <1>1 DEF Minting
<1>3. ASSUME NEW a \in Addresses
      PROVE  /\ IsAccount(Minting(tx)[a])
             /\ Minting(tx)[a].nonce = db[a].nonce
             /\ Minting(tx)[a].storage = db[a].storage
             /\ Minting(tx)[a].balance \in Nat
             /\ a # tx.sender => Minting(tx)[a] = db[a]
  <2>0. IsAccount(db[a]) /\ db[a].balance \in Nat
    BY DEF Ledger
  <2>1. CASE a = tx.sender
    <3>1. Minting(tx)[a] = [db[a] EXCEPT !.balance = @ + tx.mint]
      BY <1>1, <2>1 DEF Minting
    <3>2. QED
      BY <1>1, <2>0, <2>1, <3>1 DEF IsAccount
  <2>2. CASE a # tx.sender
    BY <1>1, <2>0, <2>2 DEF Minting
  <2>3. QED
    BY <2>1, <2>2
<1>4. QED
  BY <1>2, <1>3 DEF Ledger

\* Whatever the base it was executed on, the sender is in the changeset.
LEMMA SenderTouched ==
    ASSUME NEW tx, NEW base, NEW res \in TxResults(tx, base)
    PROVE  tx.sender \in DOMAIN res.state
<1>1. DOMAIN res.state \in {{tx.sender, tx.to}, {tx.sender}}
  BY DEF TxResults
<1>2. QED
  BY <1>1

LEMMA OpTxResultMoves ==
    ASSUME NEW tx \in AllTransactions, Ledger(db), NEW clear,
           NEW res \in OpTxResults(tx), NEW a \in Addresses
    PROVE  OpMoved(tx.sender, db, Commit(db, res.state, clear), a)
<1> DEFINE minted == Minting(tx)
           after == Commit(db, res.state, clear)
           failed == [success |-> FALSE, gasUsed |-> tx.gasLimit, logs |-> <<>>,
                      state |-> [x \in {tx.sender} |-> [minted[x] EXCEPT !.nonce = @ + 1]]]
<1>0. /\ tx.sender \in Addresses /\ tx.value \in Nat
      /\ Ledger(minted) /\ DOMAIN db = Addresses /\ DOMAIN minted = Addresses
      /\ \A x \in Addresses : /\ minted[x].nonce = db[x].nonce
                              /\ minted[x].storage = db[x].storage
                              /\ x # tx.sender => minted[x] = db[x]
  BY StateAssumption, MintingLedger DEF Ledger
<1>1. res \in TxResults(tx, minted) \/ res \in TxResults(tx, db) \/ res = failed
  BY DEF OpTxResults, Minting
<1>2. ASSUME NEW base, Ledger(base), res \in TxResults(tx, base),
             \A x \in Addresses : /\ base[x].nonce = db[x].nonce
                                  /\ base[x].storage = db[x].storage
                                  /\ x # tx.sender => base[x] = db[x]
      PROVE  OpMoved(tx.sender, db, after, a)
  <2>1. /\ tx.value <= base[tx.sender].balance
        /\ Moved(tx, res.success, base, Commit(base, res.state, clear), a)
    BY <1>2, TxResultMoves
  <2>2. Commit(base, res.state, clear)[a] = after[a]
    <3>1. a = tx.sender => a \in DOMAIN res.state
      BY <1>2, SenderTouched
    <3>2. DOMAIN base = Addresses
      BY <1>2 DEF Ledger
    <3>3. QED
      BY <1>0, <1>2, <3>1, <3>2 DEF Commit
  <2>3. base[a].balance \in Nat /\ base[tx.sender].balance \in Nat
    BY <1>0, <1>2 DEF Ledger
  <2> HIDE DEF after
  <2>4. Moved(tx, res.success, base, after, a)
    BY <2>1, <2>2 DEF Moved
  <2>5. QED
    BY <1>0, <1>2, <2>1, <2>3, <2>4 DEF Moved, OpMoved
<1>3. CASE res = failed
  <2>1. CASE a = tx.sender
    <3>1. a \in DOMAIN res.state /\ res.state[a] = [minted[a] EXCEPT !.nonce = @ + 1]
      BY <1>3, <2>1
    <3>2. /\ IsAccount(minted[a]) /\ minted[a].balance \in Nat
      BY <1>0 DEF Ledger
    <3>3. /\ res.state[a].nonce = minted[a].nonce + 1
          /\ res.state[a].balance = minted[a].balance
          /\ res.state[a].storage = minted[a].storage
      <4> HIDE DEF minted
      <4> QED
        BY <3>1, <3>2 DEF IsAccount
    <3>4. /\ after[a].nonce = res.state[a].nonce
          /\ after[a].balance = res.state[a].balance
          /\ after[a].storage = res.state[a].storage
      <4>1. a \in DOMAIN res.state /\ DOMAIN db = Addresses
        BY <1>0, <3>1
      <4> HIDE DEF minted, failed
      <4>2. QED
        BY <4>1, CommitFields
    <3> HIDE DEF after, minted
    <3>5. OpMoved(tx.sender, db, after, a)
      BY <1>0, <2>1, <3>2, <3>3, <3>4 DEF OpMoved
    <3>6. QED
      BY <3>5 DEF after
  <2>2. CASE a # tx.sender
    <3>1. a \notin DOMAIN res.state
      BY <1>3, <2>2
    <3>2. after[a] = db[a]
      BY <1>0, <3>1 DEF Commit
    <3>3. db[a].nonce \in Nat /\ db[a].balance \in Nat
      BY DEF Ledger
    <3> HIDE DEF after
    <3>4. OpMoved(tx.sender, db, after, a)
      BY <2>2, <3>2, <3>3 DEF OpMoved
    <3>5. QED
      BY <3>4 DEF after
  <2>3. QED
    BY <2>1, <2>2
<1>4. QED
  <2>1. Ledger(minted) /\ \A x \in Addresses : /\ minted[x].nonce = db[x].nonce
                                               /\ minted[x].storage = db[x].storage
                                               /\ x # tx.sender => minted[x] = db[x]
    BY <1>0
  <2> HIDE DEF minted, after, failed
  <2>2. QED
    BY <1>1, <1>2, <1>3, <2>1 DEF after

\* What DepositNonces and Create2DeployedAtTransition need to know: an account
\* has moved its nonce once for each of its receipts, and the deployer's code
\* is written once the pre-execution changes of the transition block are.
OpNonces ==
    \A a \in Addresses :
        db[a].nonce = InitialState[a].nonce
                        + Cardinality({i \in DOMAIN receipts : receipts[i].sender = a})

OpDeployer ==
    /\ receipts # <<>> => preExecuted
    /\ IF preExecuted /\ CanyonTransition(blk.spec, blk.timestamp)
       THEN db[Create2Deployer].storage = Create2Code
       ELSE db[Create2Deployer].storage = InitialState[Create2Deployer].storage

OpLedgerInv ==
    /\ Ledger(db)
    /\ \A a \in DOMAIN increments : increments[a] \in Nat
    /\ \A i \in DOMAIN receipts : receipts[i].sender \in Addresses
    /\ OpNonces
    /\ OpDeployer
    /\ DepositNonces

\* The receipt of a committed transaction, and what it did to the accounts.
LEMMA OpCommitMoves ==
    ASSUME OpGasInv, Ledger(db), OpCommitTransaction
    PROVE  \E tx \in AllTransactions : \E r :
              /\ receipts' = Append(receipts, r)
              /\ r.sender = tx.sender /\ r.type = tx.type
              /\ r.depositNonce = DepositNonce(tx)
              /\ r.version = DepositReceiptVersion(tx)
              /\ \A a \in Addresses : OpMoved(tx.sender, db, db', a)
<1>1. PICK tx \in Submitted : \E res \in OpTxResults(tx) :
          /\ db' = Commit(db, res.state, stateClear)
          /\ receipts' = Append(receipts, OpReceiptOf(tx, res, gasUsed'))
  BY DEF OpCommitTransaction, ReportAndCommit
<1>2. tx \in AllTransactions
  BY SubmittedTransactions DEF OpGasInv
<1>3. PICK res \in OpTxResults(tx) :
          /\ db' = Commit(db, res.state, stateClear)
          /\ receipts' = Append(receipts, OpReceiptOf(tx, res, gasUsed'))
  BY <1>1
<1>4. \A a \in Addresses : OpMoved(tx.sender, db, db', a)
  BY <1>2, <1>3, OpTxResultMoves
<1> DEFINE r == OpReceiptOf(tx, res, gasUsed')
<1>5. /\ r.sender = tx.sender /\ r.type = tx.type
      /\ r.depositNonce = DepositNonce(tx)
      /\ r.version = DepositReceiptVersion(tx)
  BY DEF OpReceiptOf
<1> HIDE DEF r
<1>6. QED
  BY <1>2, <1>3, <1>4, <1>5 DEF r

\* The steps that are not a transaction keep every nonce and, but for the
\* deployment, the storage of every account that is no system contract.
LEMMA OpOtherMoves ==
    ASSUME Ledger(db), \A a \in DOMAIN increments : increments[a] \in Nat,
           [OpNext]_opVars, ~OpCommitTransaction, NEW a \in Addresses
    PROVE  /\ db'[a].nonce = db[a].nonce
           /\ db'[a].balance \in Nat
           /\ a \notin SystemContracts /\ db'[a].storage # db[a].storage =>
                 EnsureCreate2Deployer /\ a = Create2Deployer
<1>0. IsAccount(db[a]) /\ db[a].balance \in Nat /\ DOMAIN db = Addresses
  BY DEF Ledger
<1>1. CASE OpSystemCalls
  <2>1. CASE db' = db
    BY <1>0, <2>1
  <2>2. CASE \E storage, output, clear : \E contract \in SystemContracts :
               \E res \in SystemCallResults(contract, storage, output) :
                  db' = Commit(db, res.state, clear)
    <3>1. PICK storage, output, clear : \E contract \in SystemContracts :
               \E res \in SystemCallResults(contract, storage, output) :
                  db' = Commit(db, res.state, clear)
      BY <2>2
    <3>2. PICK contract \in SystemContracts :
               \E res \in SystemCallResults(contract, storage, output) :
                  db' = Commit(db, res.state, clear)
      BY <3>1
    <3>3. PICK res \in SystemCallResults(contract, storage, output) :
                  db' = Commit(db, res.state, clear)
      BY <3>2
    <3>4. Called(contract, storage, res.success, db, db', a)
      BY <3>3, SystemCallKeeps
    <3>5. QED
      BY <1>0, <3>4 DEF Called
  <2>3. HistoryContract \in SystemContracts /\ BeaconContract \in SystemContracts
    BY DEF SystemContracts
  <2>4. QED
    BY <1>1, <2>1, <2>2, <2>3 DEF OpSystemCalls, ApplyBlockhashesContractCall,
         ApplyBeaconRootContractCall, ReportAndCommit
<1>2. CASE EnsureCreate2Deployer
  <2>1. CASE db' = db
    BY <1>0, <2>1
  <2>2. CASE db' = [db EXCEPT ![Create2Deployer].exists = TRUE,
                              ![Create2Deployer].storage = Create2Code]
    <3>1. CASE a = Create2Deployer
      <4>1. db'[a] = [[db[a] EXCEPT !.exists = TRUE] EXCEPT !.storage = Create2Code]
        BY <1>0, <2>2, <3>1
      <4>2. QED
        BY <1>0, <1>2, <3>1, <4>1 DEF IsAccount
    <3>2. CASE a # Create2Deployer
      <4>1. db'[a] = db[a]
        BY <1>0, <2>2, <3>2
      <4>2. QED
        BY <1>0, <4>1
    <3>3. QED
      BY <3>1, <3>2
  <2>3. QED
    BY <1>2, <2>1, <2>2 DEF EnsureCreate2Deployer
<1>3. CASE IncrementBalances
  <2>1. PICK some : db' = Credit(db, increments, some)
    BY <1>3 DEF IncrementBalances
  <2>2. QED
    BY <1>0, <2>1, CreditFields
<1>4. CASE UNCHANGED db
  BY <1>0, <1>4
<1>5. QED
  BY <1>1, <1>2, <1>3, <1>4
  DEF OpNext, OpExecute, OpRejectTransaction, RejectTransaction, OpSkipTransaction,
      OpCollectBalanceIncrements, OpApplyBalanceIncrements, ReportBalanceIncrements,
      OpSetStateHook, SetStateHook, opVars, vars

LEMMA OpKeepsBlock == [OpNext]_opVars => blk' = blk
BY DEF OpNext, OpExecute, OpSystemCalls, ApplyBlockhashesContractCall,
       ApplyBeaconRootContractCall, EnsureCreate2Deployer, OpCommitTransaction,
       OpRejectTransaction, RejectTransaction, OpSkipTransaction,
       OpCollectBalanceIncrements, OpApplyBalanceIncrements, IncrementBalances,
       ReportBalanceIncrements, OpSetStateHook, SetStateHook, opVars, vars

\* One receipt more of an account, or of another.
LEMMA OpReceiptsOfSender ==
    ASSUME NEW S, receipts \in Seq(S), NEW r, receipts' = Append(receipts, r), NEW a
    PROVE  LET Of(list) == {i \in DOMAIN list : list[i].sender = a}
           IN  /\ Cardinality(Of(receipts)) \in Nat
               /\ Cardinality(Of(receipts'))
                    = Cardinality(Of(receipts)) + (IF r.sender = a THEN 1 ELSE 0)
<1> DEFINE n == Len(receipts)
           old == {i \in DOMAIN receipts : receipts[i].sender = a}
           new == {i \in DOMAIN receipts' : receipts'[i].sender = a}
<1>1. /\ n \in Nat /\ DOMAIN receipts = 1 .. n /\ DOMAIN receipts' = 1 .. n + 1
      /\ \A i \in 1 .. n : receipts'[i] = receipts[i]
      /\ receipts'[n + 1] = r
  <2>1. receipts \in Seq(S \cup {r}) /\ r \in S \cup {r}
    BY SeqMonotonic
  <2>2. QED
    BY <2>1, AppendProperties
<1>2. IsFiniteSet(old) /\ Cardinality(old) \in Nat
  <2>1. IsFiniteSet(1 .. n) /\ old \in SUBSET (1 .. n)
    BY <1>1, FS_Interval
  <2> HIDE DEF old
  <2>2. IsFiniteSet(old)
    BY <2>1, FS_Subset
  <2>3. QED
    BY <2>2, FS_CardinalityType
<1>3. n + 1 \notin old /\ new = IF r.sender = a THEN old \cup {n + 1} ELSE old
  BY <1>1
<1> HIDE DEF old, new, n
<1>4. Cardinality(new) = Cardinality(old) + (IF r.sender = a THEN 1 ELSE 0)
  <2>1. CASE r.sender = a
    <3>1. Cardinality(old \cup {n + 1}) = Cardinality(old) + 1
      BY <1>2, <1>3, FS_AddElement
    <3>2. QED
      BY <1>2, <1>3, <2>1, <3>1
  <2>2. CASE r.sender # a
    BY <1>2, <1>3, <2>2
  <2>3. QED
    BY <2>1, <2>2
<1>5. QED
  BY <1>2, <1>4 DEF old, new

\* What an OP block pays are amounts: those of the block without its ommers and
\* withdrawals.
LEMMA OpIncrementsOfAccounts ==
    ASSUME NEW b \in Blocks
    PROVE  AmountsOf(OpBalanceIncrements(b), Addresses)
<1> DEFINE c == [b EXCEPT !.ommers = <<>>, !.withdrawals = <<>>]
<1>1. /\ c.number = b.number /\ c.beneficiary = b.beneficiary
      /\ c.ommers = <<>> /\ c.withdrawals = <<>>
  BY BlockAssumption
<1>2. b.number \in Nat /\ b.number < U64 /\ b.beneficiary \in Addresses
  BY BlockAssumption DEF PaysAccounts
<1> HIDE DEF c
<1>3. /\ <<>> \in Seq([beneficiary : Addresses, number : 0 .. U64 - 1])
      /\ <<>> \in Seq([address : Addresses, amount : Nat])
  OBVIOUS
<1>4. PaysAccounts(c, Addresses)
  BY <1>1, <1>2, <1>3 DEF PaysAccounts
<1>5. AmountsOf(PostBlockBalanceIncrements(c), Addresses)
  BY <1>4, IncrementsAreAmounts
<1>6. QED
  BY <1>5 DEF OpBalanceIncrements, c

LEMMA OpLedgerInvariant == OpSpec => []OpLedgerInv
<1>1. OpInit => OpLedgerInv
  <2> SUFFICES ASSUME OpInit PROVE OpLedgerInv
    OBVIOUS
  <2>1. /\ db = InitialState /\ receipts = <<>> /\ preExecuted = FALSE
        /\ increments = NoIncrements
    BY DEF OpInit, Init
  <2>2. Ledger(db)
    BY <2>1, AddressAssumption, StateAssumption DEF Ledger
  <2>3. OpNonces
    <3> SUFFICES ASSUME NEW a \in Addresses
                 PROVE  db[a].nonce = InitialState[a].nonce
                          + Cardinality({i \in DOMAIN receipts : receipts[i].sender = a})
      BY DEF OpNonces
    <3>1. {i \in DOMAIN receipts : receipts[i].sender = a} = {}
      BY <2>1
    <3>2. Cardinality({i \in DOMAIN receipts : receipts[i].sender = a}) = 0
      BY <3>1, FS_EmptySet
    <3>3. QED
      BY <2>1, <3>2, StateAssumption
  <2>4. OpDeployer
    BY <2>1 DEF OpDeployer
  <2>5. DepositNonces
    BY <2>1 DEF DepositNonces
  <2>6. QED
    BY <2>1, <2>2, <2>3, <2>4, <2>5 DEF OpLedgerInv, NoIncrements
<1>2. OpGasInv /\ OpHookInv /\ OpHookInv' /\ OpPhaseInv /\ OpLedgerInv /\ [OpNext]_opVars
        => OpLedgerInv'
  <2> SUFFICES ASSUME OpGasInv, OpHookInv', OpPhaseInv, OpLedgerInv, [OpNext]_opVars
               PROVE  OpLedgerInv'
    OBVIOUS
  <2>0. /\ Ledger(db) /\ \A a \in DOMAIN increments : increments[a] \in Nat
        /\ OpNonces /\ OpDeployer /\ DepositNonces
        /\ \A i \in DOMAIN receipts : receipts[i].sender \in Addresses
        /\ db' = [a \in Addresses |-> db'[a]]
        /\ \A a \in Addresses : IsAccount(db'[a])
    BY DEF OpLedgerInv, OpHookInv
  <2>1. /\ blk' = blk
        /\ Create2Deployer \in Addresses
        /\ Create2Deployer \notin SystemContracts
        /\ Create2Deployer \notin {WithdrawalContract, ConsolidationContract}
        /\ \A a \in Addresses : InitialState[a].nonce \in Nat /\ db[a].nonce \in Nat
    BY <2>0, OpKeepsBlock, Create2Assumption, StateAssumption DEF Ledger, SystemContracts
  <2>2. CASE OpCommitTransaction
    <3>1. PICK tx \in AllTransactions : \E r :
              /\ receipts' = Append(receipts, r)
              /\ r.sender = tx.sender /\ r.type = tx.type
              /\ r.depositNonce = DepositNonce(tx)
              /\ \A a \in Addresses : OpMoved(tx.sender, db, db', a)
      BY <2>0, <2>2, OpCommitMoves
    <3>2. PICK r :
              /\ receipts' = Append(receipts, r)
              /\ r.sender = tx.sender /\ r.type = tx.type
              /\ r.depositNonce = DepositNonce(tx)
              /\ \A a \in Addresses : OpMoved(tx.sender, db, db', a)
      BY <3>1
    <3>3. tx.sender \in Addresses
      BY StateAssumption
    <3>4. PICK S : receipts \in Seq(S)
      BY DEF OpGasInv
    <3> DEFINE n == Len(receipts)
    <3>5. /\ n \in Nat /\ DOMAIN receipts = 1 .. n /\ DOMAIN receipts' = 1 .. n + 1
          /\ \A i \in 1 .. n : receipts'[i] = receipts[i]
          /\ receipts'[n + 1] = r
          /\ receipts' # <<>>
      <4>1. receipts \in Seq(S \cup {r}) /\ r \in S \cup {r}
        BY <3>4, SeqMonotonic
      <4>2. QED
        BY <3>2, <4>1, AppendProperties
    <3>6. Ledger(db)'
      <4>1. ASSUME NEW a \in Addresses
            PROVE  db'[a].nonce \in Nat /\ db'[a].balance \in Nat
        <5>1. OpMoved(tx.sender, db, db', a) /\ db[a].nonce \in Nat
          BY <2>1, <3>2
        <5>2. QED
          BY <5>1 DEF OpMoved
      <4>2. QED
        BY <2>0, <4>1 DEF Ledger
    <3>7. \A i \in DOMAIN receipts' : receipts'[i].sender \in Addresses
      BY <2>0, <3>2, <3>3, <3>5
    <3>8. OpNonces'
      <4> SUFFICES ASSUME NEW a \in Addresses
                   PROVE  db'[a].nonce = InitialState[a].nonce
                            + Cardinality({i \in DOMAIN receipts' : receipts'[i].sender = a})
        BY DEF OpNonces
      <4> DEFINE old == Cardinality({i \in DOMAIN receipts : receipts[i].sender = a})
                 new == Cardinality({i \in DOMAIN receipts' : receipts'[i].sender = a})
      <4>1. old \in Nat /\ new = old + (IF r.sender = a THEN 1 ELSE 0)
        BY <3>2, <3>4, OpReceiptsOfSender
      <4>2. db[a].nonce = InitialState[a].nonce + old
        BY <2>0 DEF OpNonces
      <4>3. db'[a].nonce = db[a].nonce + (IF a = tx.sender THEN 1 ELSE 0)
        BY <3>2 DEF OpMoved
      <4>4. r.sender = tx.sender
        BY <3>2
      <4>5. InitialState[a].nonce \in Nat
        BY <2>1
      <4> HIDE DEF old, new
      <4>6. CASE a = tx.sender
        <5>1. new = old + 1 /\ db'[a].nonce = db[a].nonce + 1
          BY <4>1, <4>3, <4>4, <4>6
        <5>2. QED
          BY <4>1, <4>2, <4>5, <5>1 DEF new
      <4>7. CASE a # tx.sender
        <5>1. new = old + 0 /\ db'[a].nonce = db[a].nonce + 0
          BY <4>1, <4>3, <4>4, <4>7
        <5>2. QED
          BY <4>1, <4>2, <4>5, <5>1 DEF new
      <4>8. QED
        BY <4>6, <4>7
    <3>9. OpDeployer'
      <4>1. preExecuted /\ preExecuted'
        BY <2>2 DEF OpCommitTransaction
      <4>2. db'[Create2Deployer].storage = db[Create2Deployer].storage
        BY <2>1, <3>2 DEF OpMoved
      <4>3. QED
        BY <2>0, <2>1, <4>1, <4>2 DEF OpDeployer
    <3>10. DepositNonces'
      <4> SUFFICES ASSUME Regolith, NEW i \in 1 .. n + 1,
                          receipts'[i].type \in DepositTypes
                   PROVE  receipts'[i].depositNonce =
                            {InitialState[receipts'[i].sender].nonce
                             + Cardinality({j \in 1 .. i - 1 :
                                    receipts'[j].sender = receipts'[i].sender})}
        BY <2>1, <3>5 DEF DepositNonces, Regolith
      <4>1. CASE i \in 1 .. n
        <5>1. {j \in 1 .. i - 1 : receipts'[j].sender = receipts'[i].sender}
                = {j \in 1 .. i - 1 : receipts[j].sender = receipts[i].sender}
          BY <3>5, <4>1
        <5>2. QED
          BY <2>0, <3>5, <4>1, <5>1 DEF DepositNonces
      <4>2. CASE i = n + 1
        <5>1. receipts'[i] = r /\ (n + 1) - 1 = n
          BY <3>5, <4>2
        <5>2. {j \in 1 .. i - 1 : receipts'[j].sender = receipts'[i].sender}
                = {j \in DOMAIN receipts : receipts[j].sender = tx.sender}
          BY <3>2, <3>5, <4>2, <5>1
        <5>3. db[tx.sender].nonce = InitialState[tx.sender].nonce
                + Cardinality({j \in DOMAIN receipts : receipts[j].sender = tx.sender})
          BY <2>0, <3>3 DEF OpNonces
        <5>4. receipts'[i].depositNonce = {db[tx.sender].nonce}
          <6>1. PICK t \in AllTransactions : t.deposit /\ t.type = r.type
            BY <5>1 DEF DepositTypes
          <6>2. tx.deposit
            BY <3>2, <6>1, DepositTypeAssumption
          <6>3. QED
            BY <3>2, <5>1, <6>2 DEF DepositNonce
        <5>5. receipts'[i].sender = tx.sender
          BY <3>2, <5>1
        <5>6. QED
          BY <5>2, <5>3, <5>4, <5>5
      <4>3. i \in 1 .. n \/ i = n + 1
        BY <3>5
      <4>4. QED
        BY <4>1, <4>2, <4>3
    <3>11. increments' = increments
      BY <2>2 DEF OpCommitTransaction
    <3>12. QED
      BY <2>0, <3>6, <3>7, <3>8, <3>9, <3>10, <3>11 DEF OpLedgerInv
  <2>3. CASE ~OpCommitTransaction
    <3>1. receipts' = receipts
      BY <2>3, OpOtherStepsKeepGas
    <3>2. \A a \in Addresses :
              /\ db'[a].nonce = db[a].nonce
              /\ db'[a].balance \in Nat
              /\ a \notin SystemContracts /\ db'[a].storage # db[a].storage =>
                    EnsureCreate2Deployer /\ a = Create2Deployer
      BY <2>0, <2>3, OpOtherMoves
    <3>3. Ledger(db)'
      BY <2>0, <2>1, <3>2 DEF Ledger
    <3>4. OpNonces'
      BY <2>0, <3>1, <3>2 DEF OpNonces
    <3>5. DepositNonces'
      <4>1. Regolith' = Regolith
        BY <2>1 DEF Regolith
      <4>2. DepositNonces
        BY <2>0
      <4>3. QED
        BY <3>1, <4>1, <4>2, Zenon DEF DepositNonces
    <3>6. OpDeployer'
      <4>1. CASE EnsureCreate2Deployer
        <5>1. ~preExecuted
          BY <4>1 DEF EnsureCreate2Deployer
        <5>2. db[Create2Deployer].storage = InitialState[Create2Deployer].storage
              /\ receipts = <<>>
          BY <2>0, <5>1 DEF OpDeployer
        <5>3. CASE /\ CanyonTransition(blk.spec, blk.timestamp) /\ preExecuted' = TRUE
                   /\ db' = [db EXCEPT ![Create2Deployer].exists = TRUE,
                                       ![Create2Deployer].storage = Create2Code]
          <6>1. db'[Create2Deployer] =
                  [[db[Create2Deployer] EXCEPT !.exists = TRUE] EXCEPT !.storage = Create2Code]
            BY <2>0, <2>1, <5>3 DEF Ledger
          <6>2. db'[Create2Deployer].storage = Create2Code
            BY <2>0, <2>1, <6>1 DEF Ledger, IsAccount
          <6>3. QED
            BY <2>1, <5>3, <6>2 DEF OpDeployer
        <5>4. CASE db' = db /\ (~CanyonTransition(blk.spec, blk.timestamp)
                                 \/ preExecuted' = preExecuted)
          BY <2>1, <3>1, <5>1, <5>2, <5>4 DEF OpDeployer
        <5>5. QED
          BY <4>1, <5>3, <5>4 DEF EnsureCreate2Deployer
      <4>2. CASE ~EnsureCreate2Deployer
        <5>1. db'[Create2Deployer].storage = db[Create2Deployer].storage
          BY <2>1, <3>2, <4>2
        <5>2. preExecuted' = preExecuted
          BY <4>2 DEF OpNext, OpExecute, OpSystemCalls, OpCommitTransaction,
             OpRejectTransaction, OpSkipTransaction, OpCollectBalanceIncrements,
             OpApplyBalanceIncrements, OpSetStateHook, opVars
        <5>3. QED
          BY <2>0, <2>1, <3>1, <5>1, <5>2 DEF OpDeployer
      <4>3. QED
        BY <4>1, <4>2
    <3>7. \A a \in DOMAIN increments' : increments'[a] \in Nat
      <4>1. increments' = increments \/ increments' = OpBalanceIncrements(blk)
        BY <2>3 DEF OpNext, OpExecute, OpSystemCalls, ApplyBlockhashesContractCall,
           ApplyBeaconRootContractCall, EnsureCreate2Deployer, OpRejectTransaction,
           RejectTransaction, OpSkipTransaction, OpCollectBalanceIncrements,
           OpApplyBalanceIncrements, IncrementBalances, ReportBalanceIncrements,
           OpSetStateHook, SetStateHook, opVars, vars
      <4>2. blk \in Blocks
        BY DEF OpGasInv
      <4>3. QED
        BY <2>0, <4>1, <4>2, OpIncrementsOfAccounts DEF AmountsOf
    <3>8. QED
      BY <2>0, <3>1, <3>3, <3>4, <3>5, <3>6, <3>7 DEF OpLedgerInv
  <2>4. QED
    BY <2>2, <2>3
<1>3. QED
  BY <1>1, <1>2, OpGasInvariant, OpHookInvariant, OpPhaseInvariant, PTL DEF OpSpec

\* From Regolith on a deposit receipt carries the nonce its sender had before the
\* deposit, however deposits and transactions of that sender interleave.
THEOREM DepositNoncesRecorded == OpSpec => []DepositNonces
<1>1. OpLedgerInv => DepositNonces
  BY DEF OpLedgerInv
<1>2. QED
  BY <1>1, OpLedgerInvariant, PTL

\* What the two seconds of the code say of the parent: the fork is active two
\* seconds before a block if it was at the parent, unless that is nearer.
LEMMA TransitionByParent ==
    ASSUME NEW b \in Blocks, b.timestamp \in Nat
    PROVE  LET Canyon(time) == ActiveAtTimestamp(b.spec["Canyon"], time)
               gap == b.timestamp - b.parentTimestamp
           IN  /\ CanyonTransition(b.spec, b.timestamp) =>
                     /\ Canyon(b.timestamp)
                     /\ gap >= 2 => ~Canyon(b.parentTimestamp)
               /\ Canyon(b.timestamp) /\ ~Canyon(b.parentTimestamp) /\ gap <= 2 =>
                     CanyonTransition(b.spec, b.timestamp)
<1> DEFINE fork == b.spec["Canyon"]
           at == fork.at
           time == b.timestamp
           parent == b.parentTimestamp
<1>1. at \in Nat /\ parent \in Nat /\ parent < time /\ time \in Nat
  BY ParentAssumption
<1>2. \A t : ActiveAtTimestamp(fork, t) <=> fork.kind = "Timestamp" /\ t >= at
  BY DEF ActiveAtTimestamp
<1>3. CanyonTransition(b.spec, time) <=>
          ActiveAtTimestamp(fork, time) /\ ~ActiveAtTimestamp(fork, Minus2(time))
  BY DEF CanyonTransition
<1> HIDE DEF at, time, parent
<1>4. /\ Minus2(time) \in Nat
      /\ time - parent >= 2 => parent <= Minus2(time)
      /\ time - parent <= 2 => Minus2(time) <= parent
  BY <1>1 DEF Minus2
<1>5. /\ parent >= at /\ parent <= Minus2(time) => Minus2(time) >= at
      /\ Minus2(time) >= at /\ Minus2(time) <= parent => parent >= at
  BY <1>1, <1>4
<1> HIDE DEF fork
<1>6. CanyonTransition(b.spec, time) =>
          /\ ActiveAtTimestamp(fork, time)
          /\ time - parent >= 2 => ~ActiveAtTimestamp(fork, parent)
  BY <1>2, <1>3, <1>4, <1>5
<1>7. ActiveAtTimestamp(fork, time) /\ ~ActiveAtTimestamp(fork, parent) /\ time - parent <= 2 =>
          CanyonTransition(b.spec, time)
  BY <1>2, <1>3, <1>4, <1>5
<1>8. QED
  BY <1>6, <1>7 DEF fork, time, parent

\* The create2 deployer is written in a Canyon block alone, never after a Canyon
\* parent at least two seconds older, and before the first transaction of the
\* first Canyon block if its parent is at most two seconds older.
THEOREM Create2Deployment == OpSpec => []Create2DeployedAtTransition
<1>1. OpGasInv /\ OpLedgerInv => Create2DeployedAtTransition
  <2> SUFFICES ASSUME OpGasInv, OpLedgerInv PROVE Create2DeployedAtTransition
    OBVIOUS
  <2>1. OpDeployer /\ blk \in Blocks /\ blk.timestamp \in Nat
    BY StateAssumption DEF OpLedgerInv, OpGasInv
  <2>2. db[Create2Deployer].storage # InitialState[Create2Deployer].storage =>
            CanyonTransition(blk.spec, blk.timestamp)
    BY <2>1 DEF OpDeployer
  <2>3. receipts # <<>> /\ CanyonTransition(blk.spec, blk.timestamp) =>
            db[Create2Deployer].storage = Create2Code
    BY <2>1 DEF OpDeployer
  <2>4. QED
    BY <2>1, <2>2, <2>3, TransitionByParent DEF Create2DeployedAtTransition
<1>2. QED
  BY <1>1, OpGasInvariant, OpLedgerInvariant, PTL

\* A receipt is added at the end, and the others stay where they are.
LEMMA OpReceiptAdded ==
    ASSUME NEW S, receipts \in Seq(S), NEW r, receipts' = Append(receipts, r)
    PROVE  /\ Len(receipts) \in Nat /\ Len(receipts') = Len(receipts) + 1
           /\ DOMAIN receipts = 1 .. Len(receipts)
           /\ DOMAIN receipts' = 1 .. Len(receipts) + 1
           /\ \A i \in 1 .. Len(receipts) : receipts'[i] = receipts[i]
           /\ receipts'[Len(receipts) + 1] = r
<1>1. receipts \in Seq(S \cup {r}) /\ r \in S \cup {r}
  BY SeqMonotonic
<1>2. QED
  BY <1>1, AppendProperties

-----------------------------------------------------------------------------
(***************************************************************************)
(* Receipts.                                                                *)
(***************************************************************************)

\* From Regolith on the receipts of an OP block are a running total of its gas,
\* deposits included, and end at the block's total: below it a deposit beyond
\* the gas limit lets the total wrap around.
THEOREM OpCumulativeGas == OpSpec => [](Regolith => ReceiptsAccountForGas)
<1> DEFINE Inv == Regolith => ReceiptsAccountForGas
<1>1. OpInit => Inv
  BY DEF OpInit, Init, ReceiptsAccountForGas
<1>2. OpGasInv /\ Inv /\ [OpNext]_opVars => Inv'
  <2> SUFFICES ASSUME OpGasInv, Inv, [OpNext]_opVars, Regolith'
               PROVE  ReceiptsAccountForGas'
    OBVIOUS
  <2>1. Regolith /\ ReceiptsAccountForGas
    BY OpKeepsBlock DEF Regolith
  <2>2. CASE OpCommitTransaction
    <3>1. PICK r : OpReceipted(r)
      BY <2>2, OpCommitEffect
    <3>2. /\ receipts' = Append(receipts, r)
          /\ r.cumulativeGasUsed = gasUsed'
          /\ gasUsed + IntrinsicGas <= gasUsed'
          /\ gasUsed \in Nat /\ gasUsed' \in Nat /\ IntrinsicGas \in Nat
      BY <2>1, <3>1, GasAssumption DEF OpReceipted, OpGasInv
    <3>3. PICK S : receipts \in Seq(S)
      BY DEF OpGasInv
    <3>4. /\ Len(receipts) \in Nat /\ Len(receipts') = Len(receipts) + 1
          /\ \A i \in 1 .. Len(receipts) : receipts'[i] = receipts[i]
          /\ receipts'[Len(receipts) + 1] = r
          /\ receipts' # <<>>
          /\ receipts = <<>> <=> Len(receipts) = 0
      BY <3>2, <3>3, OpReceiptAdded, EmptySeq
    <3>5. gasUsed' = receipts'[Len(receipts')].cumulativeGasUsed
      BY <3>2, <3>4
    <3>6. ASSUME NEW i \in 1 .. Len(receipts')
          PROVE  receipts'[i].cumulativeGasUsed
                    >= (IF i = 1 THEN 0 ELSE receipts'[i - 1].cumulativeGasUsed)
                       + IntrinsicGas
      <4>1. CASE i = Len(receipts) + 1
        <5>1. gasUsed = IF i = 1 THEN 0 ELSE receipts'[i - 1].cumulativeGasUsed
          BY <2>1, <3>4, <4>1 DEF ReceiptsAccountForGas
        <5>2. QED
          BY <3>2, <3>4, <4>1, <5>1
      <4>2. CASE i \in 1 .. Len(receipts)
        <5>1. receipts[i].cumulativeGasUsed
                >= (IF i = 1 THEN 0 ELSE receipts[i - 1].cumulativeGasUsed) + IntrinsicGas
          BY <2>1, <4>2 DEF ReceiptsAccountForGas
        <5>2. CASE i = 1
          BY <3>4, <4>2, <5>1, <5>2
        <5>3. CASE i # 1
          <6>1. i - 1 \in 1 .. Len(receipts)
            BY <3>4, <4>2, <5>3
          <6>2. QED
            BY <3>4, <4>2, <5>1, <5>3, <6>1
        <5>4. QED
          BY <5>2, <5>3
      <4>3. QED
        BY <3>4, <4>1, <4>2
    <3>7. QED
      BY <3>4, <3>5, <3>6 DEF ReceiptsAccountForGas
  <2>3. CASE UNCHANGED <<blk, body, todo, receipts, gasUsed>>
    BY <2>1, <2>3 DEF ReceiptsAccountForGas
  <2>4. QED
    BY <2>2, <2>3, OpOtherStepsKeepGas
<1>3. QED
  BY <1>1, <1>2, OpGasInvariant, PTL DEF OpSpec

\* One receipt per committed transaction of an OP block: the nonces moved in
\* the database count the receipts, those of failed deposits included.
THEOREM OpNoncesCountReceipts == OpSpec => []ReceiptPerCommit
<1> USE DEF NonceMoves
<1>0. /\ IsFiniteSet(Addresses)
      /\ \A a \in Addresses : InitialState[a].nonce \in Nat
  BY StateAssumption
<1>1. OpInit => ReceiptPerCommit
  <2> SUFFICES ASSUME OpInit PROVE SumFunctionOnSet(NonceMoves(db), Addresses) = Len(receipts)
    BY DEF ReceiptPerCommit, SumFunction
  <2>1. \A a \in Addresses : NonceMoves(db)[a] = 0
    BY <1>0 DEF OpInit, Init
  <2>2. receipts = <<>>
    BY DEF OpInit, Init
  <2> HIDE DEF NonceMoves
  <2>3. QED
    BY <1>0, <2>1, <2>2, SumOfZeroes
<1>2. OpGasInv /\ OpLedgerInv /\ OpLedgerInv' /\ ReceiptPerCommit /\ [OpNext]_opVars
          => ReceiptPerCommit'
  <2> SUFFICES ASSUME OpGasInv, OpLedgerInv, OpLedgerInv', [OpNext]_opVars,
                      SumFunctionOnSet(NonceMoves(db), Addresses) = Len(receipts)
               PROVE  SumFunctionOnSet(NonceMoves(db'), Addresses) = Len(receipts')
    BY DEF ReceiptPerCommit, SumFunction
  <2>0. /\ Ledger(db) /\ \A a \in DOMAIN increments : increments[a] \in Nat
        /\ \A a \in Addresses :
            /\ db[a].nonce \in Nat /\ db'[a].nonce \in Nat
            /\ NonceMoves(db)[a] \in Int /\ NonceMoves(db')[a] \in Int
    BY <1>0 DEF OpLedgerInv, Ledger
  <2>1. CASE OpCommitTransaction
    <3>1. PICK tx \in AllTransactions : \E r :
              /\ receipts' = Append(receipts, r)
              /\ \A a \in Addresses : OpMoved(tx.sender, db, db', a)
      BY <2>0, <2>1, OpCommitMoves
    <3>2. tx.sender \in Addresses
      BY StateAssumption
    <3>3. Len(receipts) \in Nat /\ Len(receipts') = Len(receipts) + 1
      BY <3>1, OpReceiptAdded DEF OpGasInv
    <3> DEFINE one == [a \in Addresses |-> IF a = tx.sender THEN 1 ELSE 0]
    <3>4. SumFunctionOnSet(one, Addresses) = 1
      <4>1. /\ one[tx.sender] = 1 /\ one[tx.sender] \in Int
            /\ \A a \in Addresses \ {tx.sender} : one[a] = 0
        BY <3>2
      <4> HIDE DEF one
      <4>2. QED
        BY <1>0, <3>2, <4>1, SumOfSingle
    <3>5. \A a \in Addresses :
            /\ NonceMoves(db)[a] \in Int /\ one[a] \in Int
            /\ NonceMoves(db')[a] = NonceMoves(db)[a] + one[a]
      BY <1>0, <2>0, <3>1 DEF OpMoved
    <3> HIDE DEF one, NonceMoves
    <3>6. SumFunctionOnSet(NonceMoves(db'), Addresses)
            = SumFunctionOnSet(NonceMoves(db), Addresses) + SumFunctionOnSet(one, Addresses)
      BY <1>0, <3>5, SumOfSums
    <3>7. QED
      BY <3>3, <3>4, <3>6
  <2>2. CASE ~OpCommitTransaction
    <3>1. receipts' = receipts /\ \A a \in Addresses : db'[a].nonce = db[a].nonce
      BY <2>0, <2>2, OpOtherStepsKeepGas, OpOtherMoves
    <3>2. \A a \in Addresses :
            NonceMoves(db)[a] \in Int /\ NonceMoves(db')[a] = NonceMoves(db)[a]
      BY <2>0, <3>1
    <3> HIDE DEF NonceMoves
    <3>3. QED
      BY <1>0, <3>1, <3>2, SumOfEquals
  <2>3. QED
    BY <2>1, <2>2
<1>3. QED
  BY <1>1, <1>2, OpGasInvariant, OpLedgerInvariant, PTL DEF OpSpec

-----------------------------------------------------------------------------
(***************************************************************************)
(* What the system contracts of the pre-block calls hold.                   *)
(***************************************************************************)

\* Which step changes what the history or the beacon contract holds.
LEMMA OpStorageSteps ==
    ASSUME OpGasInv, OpLedgerInv, [OpNext]_opVars,
           NEW a \in {HistoryContract, BeaconContract},
           db'[a].storage # db[a].storage
    PROVE  \/ /\ a = HistoryContract /\ CallsHistoryContract
              /\ db'[a].storage = <<blk.parentHash>>
           \/ /\ a = BeaconContract /\ CallsBeaconContract
              /\ db'[a].storage = <<blk.parentBeaconRoot>>
<1>0. /\ Ledger(db) /\ \A x \in DOMAIN increments : increments[x] \in Nat
      /\ a \in Addresses /\ a # Create2Deployer
      /\ a \notin {WithdrawalContract, ConsolidationContract}
  BY AddressAssumption, Create2Assumption, DistinctContracts
  DEF OpLedgerInv, SystemContracts
<1>1. ASSUME NEW contract, NEW storage, NEW clear,
             NEW res \in SystemCallResults(contract, storage, <<>>),
             db' = Commit(db, res.state, clear)
      PROVE  a = contract /\ db'[a].storage = storage
  <2>1. Called(contract, storage, res.success, db, db', a)
    BY <1>0, <1>1, SystemCallKeeps
  <2>2. QED
    BY <2>1 DEF Called
<1>2. CASE ApplyBlockhashesContractCall
  <2>1. CallsHistoryContract
        /\ \E res \in SystemCallResults(HistoryContract, <<blk.parentHash>>, <<>>) :
              db' = Commit(db, res.state, stateClear')
    BY <1>2 DEF ApplyBlockhashesContractCall, ReportAndCommit
  <2>2. QED
    BY <1>1, <2>1
<1>3. CASE ApplyBeaconRootContractCall
  <2>1. CallsBeaconContract
        /\ \E res \in SystemCallResults(BeaconContract, <<blk.parentBeaconRoot>>, <<>>) :
              db' = Commit(db, res.state, stateClear)
    BY <1>3 DEF ApplyBeaconRootContractCall, ReportAndCommit
  <2>2. QED
    BY <1>1, <2>1
<1>4. CASE EnsureCreate2Deployer
  <2>1. DOMAIN db = Addresses
    BY <1>0 DEF Ledger
  <2>2. db'[a] = db[a]
    BY <1>0, <1>4, <2>1 DEF EnsureCreate2Deployer
  <2>3. QED
    BY <2>2
<1>5. CASE OpCommitTransaction
  <2>1. PICK tx : OpMoved(tx.sender, db, db', a)
    BY <1>0, <1>5, OpCommitMoves
  <2>2. QED
    BY <1>0, <2>1 DEF OpMoved
<1>6. CASE IncrementBalances
  <2>1. \E some : db' = Credit(db, increments, some)
    BY <1>6 DEF IncrementBalances
  <2>2. QED
    BY <1>0, <2>1, CreditFields
<1>7. CASE db' = db
  BY <1>7
<1>8. QED
  BY <1>2, <1>3, <1>4, <1>5, <1>6, <1>7
  DEF OpNext, OpExecute, OpSystemCalls, OpRejectTransaction, RejectTransaction,
      OpSkipTransaction, OpCollectBalanceIncrements, OpApplyBalanceIncrements,
      ReportBalanceIncrements, OpSetStateHook, SetStateHook, opVars, vars

\* The history and beacon contracts of an OP chain are called only when their
\* fork is active, never in the genesis block, and nothing else, the create2
\* deployer and deposits included, changes what they hold.
THEOREM OpPreBlockCalls == OpSpec => []PreBlockCallsGated
<1>1. OpInit => PreBlockCallsGated
  BY DEF OpInit, Init, PreBlockCallsGated
<1>2. OpGasInv /\ OpLedgerInv /\ PreBlockCallsGated /\ [OpNext]_opVars => PreBlockCallsGated'
  <2> SUFFICES ASSUME OpGasInv, OpLedgerInv, PreBlockCallsGated, [OpNext]_opVars
               PROVE  PreBlockCallsGated'
    OBVIOUS
  <2> DEFINE Gated(contract, fork, word, storage) ==
                storage # InitialState[contract].storage =>
                    /\ storage = <<word>>
                    /\ blk.number > 0
                    /\ ActiveAtTimestamp(blk.spec[fork], BlockSeconds)
                    /\ <<word>> # <<NoRoot>>
  <2>1. /\ blk \in Blocks /\ blk.number \in Nat /\ blk.parentHash # NoRoot
        /\ HistoryContract # BeaconContract
        /\ blk' = blk
    BY StateAssumption, DistinctContracts, OpKeepsBlock DEF OpGasInv
  <2>2. ForkSeconds = BlockSeconds
    BY DEF ForkSeconds, BlockSeconds, TimestampSeconds, MillisPerSecond
  <2>3. Gated(HistoryContract, "Prague", blk.parentHash, db[HistoryContract].storage)'
    <3>1. CASE db'[HistoryContract].storage = db[HistoryContract].storage
      BY <2>1, <3>1 DEF PreBlockCallsGated, BlockSeconds
    <3>2. CASE db'[HistoryContract].storage # db[HistoryContract].storage
      <4>1. CallsHistoryContract /\ db'[HistoryContract].storage = <<blk.parentHash>>
        BY <2>1, <3>2, OpStorageSteps
      <4>2. QED
        BY <2>1, <2>2, <4>1 DEF CallsHistoryContract, BlockSeconds
    <3>3. QED
      BY <3>1, <3>2
  <2>4. Gated(BeaconContract, "Cancun", blk.parentBeaconRoot, db[BeaconContract].storage)'
    <3>1. CASE db'[BeaconContract].storage = db[BeaconContract].storage
      BY <2>1, <3>1 DEF PreBlockCallsGated, BlockSeconds
    <3>2. CASE db'[BeaconContract].storage # db[BeaconContract].storage
      <4>1. CallsBeaconContract /\ db'[BeaconContract].storage = <<blk.parentBeaconRoot>>
        BY <2>1, <3>2, OpStorageSteps
      <4>2. QED
        BY <2>1, <2>2, <4>1
        DEF CallsBeaconContract, CancunActive, BeaconRootValid, BlockSeconds
    <3>3. QED
      BY <3>1, <3>2
  <2>5. QED
    BY <2>3, <2>4 DEF PreBlockCallsGated
<1>3. QED
  BY <1>1, <1>2, OpGasInvariant, OpLedgerInvariant, PTL DEF OpSpec

-----------------------------------------------------------------------------
(***************************************************************************)
(* What the hook hears, in which order.                                     *)
(***************************************************************************)

\* Which source each step reports: an OP block has no request calls.
LEMMA OpReportedSteps ==
    ASSUME [OpNext]_opVars
    PROVE  \/ UNCHANGED <<reported, hook, receipts>>
           \/ SetStateHook
           \/ OpCommitTransaction
           \/ /\ UNCHANGED <<hook, receipts>> /\ hook
              /\ \/ /\ phase = "start" /\ phase' = "beaconRoot"
                    /\ reported' = Append(reported, PreSource("BlockHashesContract"))
                 \/ /\ phase = "beaconRoot" /\ phase' = "txs"
                    /\ reported' = Append(reported, PreSource("BeaconRootContract"))
                 \/ /\ phase = "report" /\ phase' = "done"
                    /\ reported' = Append(reported, PostSource("BalanceIncrements"))
<1> USE DEF hookVars, result
<1>1. CASE ApplyBlockhashesContractCall
  BY <1>1 DEF ApplyBlockhashesContractCall, ReportAndCommit, OnState
<1>2. CASE ApplyBeaconRootContractCall
  BY <1>2 DEF ApplyBeaconRootContractCall, ReportAndCommit, OnState
<1>3. CASE ReportBalanceIncrements
  BY <1>3 DEF ReportBalanceIncrements
<1>4. CASE \/ EnsureCreate2Deployer \/ RejectTransaction \/ OpSkipTransaction
           \/ OpCollectBalanceIncrements \/ IncrementBalances \/ UNCHANGED opVars
  BY <1>4 DEF EnsureCreate2Deployer, RejectTransaction, OpSkipTransaction,
       OpCollectBalanceIncrements, IncrementBalances, opVars, vars
<1>5. QED
  BY <1>1, <1>2, <1>3, <1>4 DEF OpNext, OpExecute, OpSystemCalls, OpRejectTransaction,
     OpApplyBalanceIncrements, OpSetStateHook

\* What the hook can have heard grows with the phases.
LEMMA OpHeardGrows ==
    ASSUME OpPhaseInv, [OpNext]_opVars, NEW n
    PROVE  Heard(phase, n) \subseteq Heard(phase', n)
<1>1. CASE phase' = "failed"
  BY <1>1, HeardAtFailure
<1>2. CASE phase' # "failed"
  <2>1. /\ PreHeard(phase) \subseteq PreHeard(phase')
        /\ PostHeard(phase) \subseteq PostHeard(phase')
    BY <1>2, OpPhaseSteps DEF OpPhaseInv, PreHeard, PostHeard
  <2>2. QED
    BY <2>1 DEF Heard
<1>3. QED
  BY <1>1, <1>2

LEMMA OpSourcesInvariant == OpSpec => []SourcesInv
<1>1. OpInit => SourcesInv
  BY DEF OpInit, Init, SourcesInv, Ordered, Consecutive
<1>2. OpGasInv /\ OpPhaseInv /\ SourcesInv /\ [OpNext]_opVars => SourcesInv'
  <2> SUFFICES ASSUME OpGasInv, OpPhaseInv, SourcesInv, [OpNext]_opVars
               PROVE  SourcesInv'
    OBVIOUS
  <2> DEFINE n == Len(receipts)
  <2>1. /\ n \in Nat
        /\ Ordered(reported, phase, n)
        /\ Heard(phase, n) \subseteq Heard(phase', n)
        /\ phase' \in {"start", "beaconRoot"} => phase \in {"start", "beaconRoot"}
    <3>1. n \in Nat
      BY DEF OpGasInv
    <3>2. Ordered(reported, phase, n)
      BY DEF SourcesInv
    <3>3. Heard(phase, n) \subseteq Heard(phase', n)
      BY OpHeardGrows
    <3>4. phase' \in {"start", "beaconRoot"} => phase \in {"start", "beaconRoot"}
      BY OpPhaseSteps
    <3>5. QED
      BY <3>1, <3>2, <3>3, <3>4
  <2>2. CASE UNCHANGED <<reported, hook, receipts>>
    <3>1. Ordered(reported, phase', n)
      BY <2>1, OrderedLater
    <3>2. QED
      BY <2>1, <2>2, <3>1 DEF SourcesInv
  <2>3. CASE SetStateHook
    <3>1. reported' = <<>> /\ phase' = phase /\ receipts' = receipts
      BY <2>3 DEF SetStateHook, result
    <3>2. Ordered(<<>>, phase', n)
      BY DEF Ordered, Consecutive
    <3>3. QED
      BY <3>1, <3>2 DEF SourcesInv
  <2>4. CASE OpCommitTransaction
    <3>1. /\ phase = "txs" /\ phase' = "txs" /\ hook' = hook
          /\ IF hook THEN reported' = Append(reported, TxSource(n)) ELSE reported' = reported
      BY <2>4 DEF OpCommitTransaction, ReportAndCommit, OnState, hookVars
    <3>2. Len(receipts') = n + 1
      <4>1. PICK r : receipts' = Append(receipts, r)
        BY <2>4 DEF OpCommitTransaction
      <4>2. QED
        BY <4>1, OpReceiptAdded DEF OpGasInv
    <3>3. Ordered(reported', "txs", n + 1)
      <4>1. CASE hook
        BY <2>1, <3>1, <4>1, TxAppend
      <4>2. CASE ~hook
        <5>1. reported' = <<>>
          BY <3>1, <4>2 DEF SourcesInv
        <5>2. QED
          BY <5>1 DEF Ordered, Consecutive
      <4>3. QED
        BY <4>1, <4>2
    <3>4. ~hook' => reported' = <<>>
      BY <3>1 DEF SourcesInv
    <3>5. QED
      BY <3>1, <3>2, <3>3, <3>4 DEF SourcesInv
  <2>5. CASE /\ UNCHANGED <<hook, receipts>> /\ hook
             /\ \/ /\ phase = "start" /\ phase' = "beaconRoot"
                   /\ reported' = Append(reported, PreSource("BlockHashesContract"))
                \/ /\ phase = "beaconRoot" /\ phase' = "txs"
                   /\ reported' = Append(reported, PreSource("BeaconRootContract"))
    <3>1. n = 0
      BY <2>5 DEF SourcesInv
    <3>2. Ordered(reported', phase', n)
      BY <2>1, <2>5, <3>1, PreAppend
    <3>3. QED
      BY <2>1, <2>5, <3>2 DEF SourcesInv
  <2>6. CASE /\ UNCHANGED <<hook, receipts>> /\ hook
             /\ phase = "report" /\ phase' = "done"
             /\ reported' = Append(reported, PostSource("BalanceIncrements"))
    <3>1. /\ PostSource("BalanceIncrements") \in PostHeard(phase')
          /\ \A s \in PostHeard(phase) :
                Rank(s) = 2 /\ Place(s) < Place(PostSource("BalanceIncrements"))
      BY <2>6, RankOfSource DEF PostHeard
    <3>2. Ordered(reported', phase', n)
      BY <2>1, <2>6, <3>1, PostAppend
    <3>3. QED
      BY <2>1, <2>6, <3>2 DEF SourcesInv
  <2>7. QED
    BY <2>2, <2>3, <2>4, <2>5, <2>6, OpReportedSteps
<1>3. QED
  BY <1>1, <1>2, OpGasInvariant, OpPhaseInvariant, PTL DEF OpSpec

\* The hook of the OP executor hears pre-block calls, then transactions and
\* deposits numbered like their receipts and without a gap, then the increments;
\* nothing twice, whenever it was installed.
THEOREM OpSourcesInOrder == OpSpec => []HookSourcesInOrder
<1>1. OpGasInv /\ SourcesInv => HookSourcesInOrder
  <2> SUFFICES ASSUME OpGasInv, SourcesInv PROVE HookSourcesInOrder
    OBVIOUS
  <2>1. Len(receipts) \in Nat
    BY DEF OpGasInv
  <2>2. QED
    BY <2>1, OrderedSources
<1>2. QED
  BY <1>1, OpGasInvariant, OpSourcesInvariant, PTL

-----------------------------------------------------------------------------
(***************************************************************************)
(* Completeness, and ether.                                                 *)
(***************************************************************************)

\* What executing tx creates: what a deposit mints, whether it fails or not.
MintOf(tx) == IF tx.deposit THEN tx.mint ELSE 0

Mints(txs) == SumFunction([i \in DOMAIN txs |-> MintOf(txs[i])])

\* txs are the transactions of the block so far, one for each receipt, which
\* execute_block takes from its list in order.
OpCommitted(txs) ==
    /\ txs \in Seq(AllTransactions) /\ Len(txs) = Len(receipts)
    /\ \A i \in DOMAIN txs : /\ receipts[i].type = txs[i].type
                             /\ receipts[i].sender = txs[i].sender
    /\ caller = "execute_block" => txs \o todo = body

\* Ether is created in an OP block by the deposits it executed, those that
\* failed included, and by its increments, each applied once.
OpEtherMinted ==
    \E txs : /\ OpCommitted(txs)
             /\ phase \notin {"credit", "report", "done", "failed"} => Created = Mints(txs)
             /\ phase \in {"report", "done"} =>
                    Created = Mints(txs) + SumFunction(OpBalanceIncrements(blk))

\* Its inductive strengthening, for each list of transactions.
OpEtherOf(txs) ==
    /\ OpCommitted(txs)
    /\ phase \in {"start", "beaconRoot", "txs", "credit"} => Created = Mints(txs)
    /\ phase = "credit" => increments = OpBalanceIncrements(blk)
    /\ phase \in {"report", "done"} =>
            Created = Mints(txs) + SumFunction(OpBalanceIncrements(blk))

OpEtherInv == \E txs : OpEtherOf(txs)

\* Minting adds to the balance of the depositor alone.
LEMMA MintingTotal ==
    ASSUME Ledger(db), NEW tx \in AllTransactions
    PROVE  TotalBalance(Minting(tx), Addresses) = TotalBalance(db, Addresses) + tx.mint
<1> DEFINE old == Balances(db, Addresses)
           new == Balances(Minting(tx), Addresses)
           added == [a \in Addresses |-> IF a = tx.sender THEN tx.mint ELSE 0]
<1>1. /\ tx.sender \in Addresses /\ tx.mint \in Nat /\ IsFiniteSet(Addresses)
      /\ Ledger(Minting(tx)) /\ DOMAIN db = Addresses
  BY StateAssumption, MintAssumption, MintingLedger DEF Ledger
<1>2. SumFunctionOnSet(added, Addresses) = tx.mint
  <2>1. added[tx.sender] = tx.mint /\ \A a \in Addresses \ {tx.sender} : added[a] = 0
    BY <1>1
  <2> HIDE DEF added
  <2>2. QED
    BY <1>1, <2>1, SumOfSingle
<1>3. ASSUME NEW a \in Addresses
      PROVE  old[a] \in Int /\ added[a] \in Int /\ new[a] = old[a] + added[a]
  <2>1. /\ old[a] = db[a].balance /\ new[a] = Minting(tx)[a].balance
        /\ added[a] = IF a = tx.sender THEN tx.mint ELSE 0
    BY DEF Balances
  <2>2. IsAccount(db[a]) /\ db[a].balance \in Nat
    BY DEF Ledger
  <2> HIDE DEF old, new, added
  <2>3. CASE a = tx.sender
    <3>1. Minting(tx)[a] = [db[a] EXCEPT !.balance = @ + tx.mint]
      BY <1>1, <2>3 DEF Minting
    <3>2. Minting(tx)[a].balance = db[a].balance + tx.mint
      BY <2>2, <3>1 DEF IsAccount
    <3>3. QED
      BY <1>1, <2>1, <2>2, <2>3, <3>2
  <2>4. CASE a # tx.sender
    <3>1. Minting(tx)[a] = db[a]
      BY <1>1, <2>4 DEF Minting
    <3>2. QED
      BY <2>1, <2>2, <2>4, <3>1
  <2>5. QED
    BY <2>3, <2>4
<1> HIDE DEF old, new, added
<1>4. SumFunctionOnSet(new, Addresses)
        = SumFunctionOnSet(old, Addresses) + SumFunctionOnSet(added, Addresses)
  BY <1>1, <1>3, SumOfSums
<1>5. QED
  BY <1>1, <1>2, <1>4, TotalBalanceType DEF old, new

\* Once a deposit has minted, a transaction of either kind only moves ether.
LEMMA OpTransactionConserves ==
    ASSUME Ledger(db), NEW tx \in AllTransactions, NEW clear,
           NEW res \in OpTxResults(tx), Ledger(Commit(db, res.state, clear))
    PROVE  TotalBalance(Commit(db, res.state, clear), Addresses)
              = TotalBalance(db, Addresses) + MintOf(tx)
<1> DEFINE minted == Minting(tx)
           after == Commit(db, res.state, clear)
           failed == [success |-> FALSE, gasUsed |-> tx.gasLimit, logs |-> <<>>,
                      state |-> [x \in {tx.sender} |-> [minted[x] EXCEPT !.nonce = @ + 1]]]
<1>0. /\ tx.sender \in Addresses /\ Ledger(minted) /\ DOMAIN db = Addresses
      /\ \A x \in Addresses : x # tx.sender => minted[x] = db[x]
      /\ TotalBalance(db, Addresses) \in Nat
  BY StateAssumption, MintingLedger, TotalBalanceType DEF Ledger
<1>1. ASSUME NEW base, Ledger(base), res \in TxResults(tx, base),
             \A x \in Addresses : x # tx.sender => base[x] = db[x]
      PROVE  TotalBalance(after, Addresses) = TotalBalance(base, Addresses)
  <2>1. ASSUME NEW a \in Addresses
        PROVE  Moved(tx, res.success, base, after, a)
    <3>1. Moved(tx, res.success, base, Commit(base, res.state, clear), a)
      BY <1>1, TxResultMoves
    <3>2. Commit(base, res.state, clear)[a] = after[a]
      <4>1. a = tx.sender => a \in DOMAIN res.state
        BY <1>1, SenderTouched
      <4>2. DOMAIN base = Addresses
        BY <1>1 DEF Ledger
      <4>3. QED
        BY <1>0, <1>1, <4>1, <4>2 DEF Commit
    <3> HIDE DEF after
    <3>3. QED
      BY <3>1, <3>2 DEF Moved
  <2> HIDE DEF after
  <2>2. Ledger(after)
    BY DEF after
  <2>3. QED
    BY <1>1, <2>1, <2>2, TransactionConserves
<1>2. CASE tx.deposit /\ res \in TxResults(tx, minted)
  <2>1. TotalBalance(after, Addresses) = TotalBalance(minted, Addresses)
    BY <1>0, <1>1, <1>2
  <2>2. QED
    BY <1>2, <2>1, MintingTotal DEF MintOf
<1>3. CASE tx.deposit /\ res = failed
  <2>1. ASSUME NEW a \in Addresses PROVE after[a].balance = minted[a].balance
    <3>1. CASE a = tx.sender
      <4>1. a \in DOMAIN res.state /\ res.state[a] = [minted[a] EXCEPT !.nonce = @ + 1]
        BY <1>3, <3>1
      <4>2. IsAccount(minted[a])
        BY <1>0 DEF Ledger
      <4>3. res.state[a].balance = minted[a].balance
        <5> HIDE DEF minted
        <5> QED
          BY <4>1, <4>2 DEF IsAccount
      <4>4. after[a].balance = res.state[a].balance
        <5>1. a \in DOMAIN res.state /\ DOMAIN db = Addresses
          BY <1>0, <4>1
        <5> HIDE DEF minted, failed
        <5>2. QED
          BY <5>1, CommitFields
      <4>5. QED
        BY <4>3, <4>4
    <3>2. CASE a # tx.sender
      <4>1. a \notin DOMAIN res.state
        BY <1>3, <3>2
      <4>2. after[a] = db[a]
        BY <1>0, <4>1 DEF Commit
      <4>3. QED
        BY <1>0, <3>2, <4>2
    <3>3. QED
      BY <3>1, <3>2
  <2>2. TotalBalance(after, Addresses) = TotalBalance(minted, Addresses)
    <3>1. Ledger(after)
      OBVIOUS
    <3> HIDE DEF after, minted, failed
    <3>2. QED
      BY <1>0, <2>1, <3>1, TotalOfEquals
  <2>3. QED
    BY <1>3, <2>2, MintingTotal DEF MintOf
<1>4. CASE ~tx.deposit
  <2>1. res \in TxResults(tx, db)
    BY <1>4 DEF OpTxResults
  <2>2. TotalBalance(after, Addresses) = TotalBalance(db, Addresses)
    BY <1>1, <2>1
  <2>3. QED
    BY <1>0, <1>4, <2>2 DEF MintOf
<1>5. QED
  BY <1>2, <1>3, <1>4 DEF OpTxResults, Minting

\* One transaction more creates what it mints.
LEMMA MintsAppended ==
    ASSUME NEW txs \in Seq(AllTransactions), NEW tx \in AllTransactions
    PROVE  /\ Mints(txs) \in Nat
           /\ Mints(Append(txs, tx)) = Mints(txs) + MintOf(tx)
<1> DEFINE n == Len(txs)
           f == [i \in 1 .. n |-> MintOf(txs[i])]
           g == [i \in 1 .. n + 1 |-> MintOf(Append(txs, tx)[i])]
<1>1. /\ n \in Nat /\ DOMAIN txs = 1 .. n /\ DOMAIN Append(txs, tx) = 1 .. n + 1
      /\ \A i \in 1 .. n : Append(txs, tx)[i] = txs[i] /\ txs[i] \in AllTransactions
      /\ Append(txs, tx)[n + 1] = tx
  BY AppendProperties
<1>2. \A t \in AllTransactions : MintOf(t) \in Nat
  BY MintAssumption DEF MintOf
<1>3. /\ \A i \in 1 .. n : f[i] \in Nat /\ g[i] = f[i]
      /\ \A i \in 1 .. n + 1 : g[i] \in Int
      /\ g[n + 1] = MintOf(tx)
  BY <1>1, <1>2
<1>4. /\ Mints(txs) = SumFunctionOnSet(f, 1 .. n)
      /\ Mints(Append(txs, tx)) = SumFunctionOnSet(g, 1 .. n + 1)
  BY <1>1 DEF Mints, SumFunction
<1> HIDE DEF n, f, g
<1>5. SumFunctionOnSet(f, 1 .. n) \in Nat
  BY <1>1, <1>3, IndicesFinite, SumType
<1>6. SumFunctionOnSet(g, 1 .. n + 1) = SumFunctionOnSet(f, 1 .. n) + g[n + 1]
  BY <1>1, <1>3, SumOfLonger
<1>7. QED
  BY <1>3, <1>4, <1>5, <1>6

\* A committed transaction: its receipt, the list it is taken from, and the ether.
LEMMA OpCommitCreates ==
    ASSUME OpGasInv, Ledger(db), Ledger(db'), OpCommitTransaction
    PROVE  \E tx \in AllTransactions : \E r :
              /\ receipts' = Append(receipts, r)
              /\ r.type = tx.type /\ r.sender = tx.sender
              /\ IF caller = "builder" THEN todo' = todo
                 ELSE todo # <<>> /\ tx = Head(todo) /\ todo' = Tail(todo)
              /\ TotalBalance(db', Addresses) = TotalBalance(db, Addresses) + MintOf(tx)
<1>1. PICK tx \in Submitted : \E res \in OpTxResults(tx) :
          /\ db' = Commit(db, res.state, stateClear)
          /\ receipts' = Append(receipts, OpReceiptOf(tx, res, gasUsed'))
  BY DEF OpCommitTransaction, ReportAndCommit
<1>2. tx \in AllTransactions
  BY SubmittedTransactions DEF OpGasInv
<1>3. PICK res \in OpTxResults(tx) :
          /\ db' = Commit(db, res.state, stateClear)
          /\ receipts' = Append(receipts, OpReceiptOf(tx, res, gasUsed'))
  BY <1>1
<1>4. TotalBalance(db', Addresses) = TotalBalance(db, Addresses) + MintOf(tx)
  <2>1. Ledger(Commit(db, res.state, stateClear))
    BY <1>3
  <2>2. TotalBalance(Commit(db, res.state, stateClear), Addresses)
          = TotalBalance(db, Addresses) + MintOf(tx)
    BY <1>2, <2>1, OpTransactionConserves
  <2>3. QED
    BY <1>3, <2>2
<1>5. IF caller = "builder" THEN todo' = todo
      ELSE todo # <<>> /\ tx = Head(todo) /\ todo' = Tail(todo)
  BY DEF OpCommitTransaction, Submitted
<1> DEFINE r == OpReceiptOf(tx, res, gasUsed')
<1>6. r.type = tx.type /\ r.sender = tx.sender
  BY DEF OpReceiptOf
<1> HIDE DEF r
<1>7. QED
  BY <1>2, <1>3, <1>4, <1>5, <1>6 DEF r

LEMMA OpKeepsCaller == [OpNext]_opVars => UNCHANGED <<caller, body>>
BY DEF OpNext, OpExecute, OpSystemCalls, ApplyBlockhashesContractCall,
       ApplyBeaconRootContractCall, EnsureCreate2Deployer, OpCommitTransaction,
       OpRejectTransaction, RejectTransaction, OpSkipTransaction,
       OpCollectBalanceIncrements, OpApplyBalanceIncrements, IncrementBalances,
       ReportBalanceIncrements, OpSetStateHook, SetStateHook, opVars, vars

\* The steps that neither commit a transaction nor credit leave every balance.
LEMMA OpQuietSteps ==
    ASSUME Ledger(db), [OpNext]_opVars, ~OpCommitTransaction, ~IncrementBalances,
           NEW a \in Addresses
    PROVE  db'[a].balance = db[a].balance
<1>0. DOMAIN db = Addresses /\ IsAccount(db[a])
  BY DEF Ledger
<1>1. ASSUME NEW contract, NEW storage, NEW clear,
             NEW res \in SystemCallResults(contract, storage, <<>>),
             db' = Commit(db, res.state, clear)
      PROVE  db'[a].balance = db[a].balance
  <2>1. Called(contract, storage, res.success, db, db', a)
    BY <1>1, SystemCallKeeps
  <2>2. QED
    BY <2>1 DEF Called
<1>2. CASE db' = db
  BY <1>2
<1>3. CASE ApplyBlockhashesContractCall
  <2>1. db' # db => \E res \in SystemCallResults(HistoryContract, <<blk.parentHash>>, <<>>) :
              db' = Commit(db, res.state, stateClear')
    BY <1>3 DEF ApplyBlockhashesContractCall, ReportAndCommit
  <2>2. QED
    BY <1>1, <1>2, <2>1
<1>4. CASE ApplyBeaconRootContractCall
  <2>1. db' # db => \E res \in SystemCallResults(BeaconContract, <<blk.parentBeaconRoot>>, <<>>) :
              db' = Commit(db, res.state, stateClear)
    BY <1>4 DEF ApplyBeaconRootContractCall, ReportAndCommit
  <2>2. QED
    BY <1>1, <1>2, <2>1
<1>5. CASE db' = [db EXCEPT ![Create2Deployer].exists = TRUE,
                            ![Create2Deployer].storage = Create2Code]
  <2>1. CASE a = Create2Deployer
    <3>1. db'[a] = [[db[a] EXCEPT !.exists = TRUE] EXCEPT !.storage = Create2Code]
      BY <1>0, <1>5, <2>1
    <3>2. QED
      BY <1>0, <3>1 DEF IsAccount
  <2>2. CASE a # Create2Deployer
    BY <1>0, <1>5, <2>2
  <2>3. QED
    BY <2>1, <2>2
<1>6. QED
  BY <1>2, <1>3, <1>4, <1>5
  DEF OpNext, OpExecute, OpSystemCalls, EnsureCreate2Deployer, OpRejectTransaction,
      RejectTransaction, OpSkipTransaction, OpCollectBalanceIncrements,
      OpApplyBalanceIncrements, ReportBalanceIncrements, OpSetStateHook, SetStateHook,
      opVars, vars

\* A list that was extended by the transaction of the last receipt.
LEMMA OpCommittedAppend ==
    ASSUME OpGasInv, NEW txs, OpCommitted(txs), NEW tx \in AllTransactions, NEW r,
           UNCHANGED <<caller, body>>,
           receipts' = Append(receipts, r), r.type = tx.type, r.sender = tx.sender,
           caller # "builder" => todo # <<>> /\ tx = Head(todo) /\ todo' = Tail(todo)
    PROVE  OpCommitted(Append(txs, tx))'
<1> DEFINE more == Append(txs, tx)
           n == Len(txs)
<1>1. /\ txs \in Seq(AllTransactions) /\ n \in Nat /\ n = Len(receipts)
      /\ more \in Seq(AllTransactions) /\ Len(more) = n + 1
      /\ DOMAIN more = 1 .. n + 1 /\ DOMAIN txs = 1 .. n
      /\ \A i \in 1 .. n : more[i] = txs[i]
      /\ more[n + 1] = tx
  BY AppendProperties DEF OpCommitted
<1>2. /\ Len(receipts') = n + 1
      /\ \A i \in 1 .. n : receipts'[i] = receipts[i]
      /\ receipts'[n + 1] = r
  BY <1>1, OpReceiptAdded DEF OpGasInv
<1> HIDE DEF more, n
<1>3. ASSUME NEW i \in 1 .. n + 1
      PROVE  receipts'[i].type = more[i].type /\ receipts'[i].sender = more[i].sender
  <2>1. CASE i \in 1 .. n
    BY <1>1, <1>2, <2>1 DEF OpCommitted
  <2>2. CASE i = n + 1
    BY <1>1, <1>2, <2>2
  <2>3. QED
    BY <1>1, <2>1, <2>2
<1>4. ASSUME caller' = "execute_block" PROVE more \o todo' = body'
  <2>1. caller = "execute_block" /\ body' = body
    BY <1>4
  <2>2. todo # <<>> /\ tx = Head(todo) /\ todo' = Tail(todo) /\ txs \o todo = body
    BY <2>1 DEF OpCommitted
  <2>3. todo \in Seq(AllTransactions)
    BY DEF OpGasInv
  <2>4. Append(txs, Head(todo)) \o Tail(todo) = txs \o todo
    BY <1>1, <2>2, <2>3, MoveHead
  <2>5. QED
    BY <2>1, <2>2, <2>4 DEF more
<1>5. OpCommitted(more)'
  BY <1>1, <1>2, <1>3, <1>4 DEF OpCommitted
<1>6. QED
  BY <1>5 DEF more

LEMMA OpEtherInvariant == OpSpec => []OpEtherInv
<1>1. OpInit => OpEtherInv
  <2> SUFFICES ASSUME OpInit PROVE OpEtherOf(<<>>)
    BY DEF OpEtherInv
  <2>1. /\ receipts = <<>> /\ todo = body /\ db = InitialState /\ phase = "start"
        /\ caller = "execute_block" => body \in Seq(AllTransactions)
    BY GasAssumption DEF OpInit, Init
  <2>2. OpCommitted(<<>>)
    BY <2>1, ConcatEmptySeq DEF OpCommitted
  <2>3. Created = 0
    <3>1. Ledger(InitialState)
      BY AddressAssumption, StateAssumption DEF Ledger
    <3>2. TotalBalance(InitialState, Addresses) \in Nat
      BY <3>1, TotalBalanceType
    <3>3. QED
      BY <2>1, <3>2 DEF Created
  <2>4. Mints(<<>>) = 0
    <3> DEFINE f == [i \in DOMAIN <<>> |-> MintOf(<<>>[i])]
    <3>1. DOMAIN f = {} /\ IsFiniteSet({})
      BY FS_EmptySet
    <3> HIDE DEF f
    <3>2. SumFunctionOnSet(f, {}) = 0
      BY <3>1, SumOfZeroes
    <3>3. QED
      BY <3>1, <3>2 DEF Mints, SumFunction, f
  <2>5. QED
    BY <2>1, <2>2, <2>3, <2>4 DEF OpEtherOf
<1>2. /\ OpGasInv /\ OpPhaseInv /\ OpLedgerInv /\ OpLedgerInv' /\ OpEtherInv
      /\ [OpNext]_opVars
      => OpEtherInv'
  <2> SUFFICES ASSUME OpGasInv, OpPhaseInv, OpLedgerInv, OpLedgerInv', [OpNext]_opVars,
                      NEW txs, OpEtherOf(txs)
               PROVE  OpEtherInv'
    BY DEF OpEtherInv
  <2> DEFINE total == TotalBalance(db, Addresses)
             after == TotalBalance(db', Addresses)
             initial == TotalBalance(InitialState, Addresses)
             paid == SumFunction(OpBalanceIncrements(blk))
  <2>1. /\ Ledger(db) /\ Ledger(db')
        /\ total \in Nat /\ after \in Nat /\ initial \in Nat
    <3>1. Ledger(db) /\ Ledger(db') /\ Ledger(InitialState)
      BY AddressAssumption, StateAssumption DEF OpLedgerInv, Ledger
    <3>2. QED
      BY <3>1, TotalBalanceType
  <2>2. /\ Created = total - initial /\ Created' = after - initial
        /\ blk' = blk /\ caller' = caller /\ body' = body
        /\ SumFunction(OpBalanceIncrements(blk))' = paid
    <3>1. blk' = blk /\ caller' = caller /\ body' = body
      BY OpKeepsBlock, OpKeepsCaller
    <3>2. QED
      BY <3>1 DEF Created
  <2>3. txs \in Seq(AllTransactions) /\ OpCommitted(txs)
    BY DEF OpEtherOf, OpCommitted
  <2> HIDE DEF total, after, initial, paid
  <2>4. CASE OpCommitTransaction
    <3>1. PICK tx \in AllTransactions : \E r :
              /\ receipts' = Append(receipts, r)
              /\ r.type = tx.type /\ r.sender = tx.sender
              /\ IF caller = "builder" THEN todo' = todo
                 ELSE todo # <<>> /\ tx = Head(todo) /\ todo' = Tail(todo)
              /\ TotalBalance(db', Addresses) = TotalBalance(db, Addresses) + MintOf(tx)
      BY <2>1, <2>4, OpCommitCreates
    <3>2. OpCommitted(Append(txs, tx))'
      BY <2>2, <2>3, <3>1, OpCommittedAppend
    <3>3. after = total + MintOf(tx)
      BY <3>1 DEF after, total
    <3>4. phase = "txs" /\ phase' = "txs"
      BY <2>4 DEF OpCommitTransaction
    <3>5. Created = Mints(txs)
      BY <3>4 DEF OpEtherOf
    <3>6. /\ Mints(txs) \in Nat /\ MintOf(tx) \in Nat
          /\ Mints(Append(txs, tx)) = Mints(txs) + MintOf(tx)
      BY <2>3, MintsAppended, MintAssumption DEF MintOf
    <3>7. Created' = Mints(Append(txs, tx))
      BY <2>1, <2>2, <3>3, <3>5, <3>6
    <3>8. OpEtherOf(Append(txs, tx))'
      BY <3>2, <3>4, <3>7 DEF OpEtherOf
    <3>9. QED
      BY <3>8 DEF OpEtherInv
  <2>5. CASE ~OpCommitTransaction
    <3>1. UNCHANGED <<receipts, todo>>
      BY <2>5, OpOtherStepsKeepGas
    <3>2. OpCommitted(txs)'
      BY <2>2, <2>3, <3>1 DEF OpCommitted
    <3> SUFFICES ASSUME OpCommitted(txs)'
                 PROVE  OpEtherOf(txs)'
      BY <3>2 DEF OpEtherInv
    <3>3. CASE IncrementBalances
      <4>1. /\ phase = "credit"
            /\ \/ phase' = "failed"
               \/ phase' = "report" /\ db' = Credit(db, increments, Addresses)
        BY <3>3 DEF IncrementBalances
      <4>2. CASE phase' = "failed"
        BY <4>2 DEF OpEtherOf
      <4>3. CASE phase' = "report" /\ db' = Credit(db, increments, Addresses)
        <5>1. increments = OpBalanceIncrements(blk) /\ Created = Mints(txs)
          BY <4>1 DEF OpEtherOf
        <5>2. blk \in Blocks
          BY DEF OpGasInv
        <5>3. /\ DOMAIN increments \in SUBSET Addresses
              /\ \A a \in DOMAIN increments : increments[a] \in Nat
          BY <5>1, <5>2, OpIncrementsOfAccounts DEF AmountsOf
        <5>4. after = total + paid
          <6>1. LedgerInv /\ Ledger(Credit(db, increments, Addresses))
            BY <2>1, <4>3, <5>3 DEF LedgerInv
          <6>2. TotalBalance(Credit(db, increments, Addresses), Addresses)
                  = TotalBalance(db, Addresses) + SumFunction(increments)
            BY <5>3, <6>1, CreditTotal
          <6>3. QED
            BY <4>3, <5>1, <6>2 DEF after, total, paid
        <5>5. paid \in Nat
          <6>1. IsFiniteSet(DOMAIN increments)
            BY <5>3, StateAssumption, FS_Subset
          <6>2. QED
            BY <5>1, <5>3, <6>1, SumType DEF SumFunction, paid
        <5>6. total - initial = Mints(txs)
          BY <2>2, <5>1
        <5>7. Created' = Mints(txs) + paid
          <6>1. after - initial = (total - initial) + paid
            BY <2>1, <5>4, <5>5
          <6>2. QED
            BY <2>2, <5>6, <6>1
        <5>8. QED
          BY <2>2, <4>3, <5>7 DEF OpEtherOf
      <4>4. QED
        BY <4>1, <4>2, <4>3
    <3>4. CASE ~IncrementBalances
      <4>1. after = total
        <5>1. \A a \in Addresses : db'[a].balance = db[a].balance
          BY <2>1, <2>5, <3>4, OpQuietSteps
        <5>2. QED
          BY <2>1, <5>1, TotalOfEquals DEF after, total
      <4>2. Created' = Created
        BY <2>2, <4>1
      <4>3. \/ phase' = "credit" /\ phase = "txs" /\ increments' = OpBalanceIncrements(blk)
            \/ phase' = phase /\ increments' = increments
            \/ phase \in {"start", "beaconRoot", "txs"} /\ phase' \in {"beaconRoot", "txs"}
            \/ phase = "report" /\ phase' = "done"
            \/ phase' = "failed"
        BY <2>5, <3>4
        DEF OpNext, OpExecute, OpSystemCalls, ApplyBlockhashesContractCall,
            ApplyBeaconRootContractCall, EnsureCreate2Deployer, OpRejectTransaction,
            RejectTransaction, OpSkipTransaction, OpCollectBalanceIncrements,
            OpApplyBalanceIncrements, ReportBalanceIncrements, OpSetStateHook,
            SetStateHook, opVars, vars
      <4>4. QED
        BY <2>2, <4>2, <4>3 DEF OpEtherOf
    <3>5. QED
      BY <3>3, <3>4
  <2>6. QED
    BY <2>4, <2>5
<1>3. QED
  BY <1>1, <1>2, OpGasInvariant, OpPhaseInvariant, OpLedgerInvariant, PTL DEF OpSpec

\* Ether is created in an OP block by its deposits alone, those that failed
\* included, and by its increments, each applied once; for any accounts, any
\* amounts and bodies of any length.
THEOREM OpEtherConserved == OpSpec => []OpEtherMinted
<1>1. OpPhaseInv /\ OpEtherInv => OpEtherMinted
  BY DEF OpPhaseInv, OpEtherInv, OpEtherOf, OpEtherMinted
<1>2. QED
  BY <1>1, OpPhaseInvariant, OpEtherInvariant, PTL

\* The types of two lists, one after the other.
LEMMA TypesOfConcat ==
    ASSUME NEW s \in Seq(AllTransactions), NEW t \in Seq(AllTransactions)
    PROVE  TypesOf(s \o t) = TypesOf(s) \o TypesOf(t)
<1> DEFINE both == s \o t
<1>1. /\ both \in Seq(AllTransactions) /\ Len(both) = Len(s) + Len(t)
      /\ \A i \in 1 .. Len(s) + Len(t) :
            both[i] = IF i <= Len(s) THEN s[i] ELSE t[i - Len(s)]
      /\ Len(s) \in Nat /\ Len(t) \in Nat
  BY ConcatProperties
<1>2. \A x \in AllTransactions : x.type \in TxTypes
  BY DEF TxTypes
<1> HIDE DEF both
<1>3. /\ TypesOf(both) \in Seq(TxTypes) /\ Len(TypesOf(both)) = Len(both)
      /\ \A i \in 1 .. Len(both) : TypesOf(both)[i] = both[i].type
  BY <1>1, <1>2, TypesOfSequence
<1>4. /\ TypesOf(s) \in Seq(TxTypes) /\ Len(TypesOf(s)) = Len(s)
      /\ \A i \in 1 .. Len(s) : TypesOf(s)[i] = s[i].type
  BY <1>2, TypesOfSequence
<1>5. /\ TypesOf(t) \in Seq(TxTypes) /\ Len(TypesOf(t)) = Len(t)
      /\ \A i \in 1 .. Len(t) : TypesOf(t)[i] = t[i].type
  BY <1>2, TypesOfSequence
<1>6. /\ TypesOf(s) \o TypesOf(t) \in Seq(TxTypes)
      /\ Len(TypesOf(s) \o TypesOf(t)) = Len(s) + Len(t)
      /\ \A i \in 1 .. Len(s) + Len(t) :
            (TypesOf(s) \o TypesOf(t))[i]
               = IF i <= Len(s) THEN TypesOf(s)[i] ELSE TypesOf(t)[i - Len(s)]
  <2> DEFINE u == TypesOf(s)
             v == TypesOf(t)
  <2>1. u \in Seq(TxTypes) /\ v \in Seq(TxTypes) /\ Len(u) = Len(s) /\ Len(v) = Len(t)
    BY <1>4, <1>5
  <2> HIDE DEF u, v
  <2>2. /\ u \o v \in Seq(TxTypes) /\ Len(u \o v) = Len(u) + Len(v)
        /\ \A i \in 1 .. Len(u) + Len(v) :
              (u \o v)[i] = IF i <= Len(u) THEN u[i] ELSE v[i - Len(u)]
    BY <2>1, ConcatProperties
  <2>3. QED
    BY <2>1, <2>2 DEF u, v
<1>7. ASSUME NEW i \in 1 .. Len(s) + Len(t)
      PROVE  TypesOf(both)[i] = (TypesOf(s) \o TypesOf(t))[i]
  <2>1. CASE i <= Len(s)
    <3>1. i \in 1 .. Len(s)
      BY <1>1, <2>1
    <3>2. QED
      BY <1>1, <1>3, <1>4, <1>6, <2>1, <3>1
  <2>2. CASE ~(i <= Len(s))
    <3>1. i - Len(s) \in 1 .. Len(t)
      BY <1>1, <2>2
    <3>2. QED
      BY <1>1, <1>3, <1>5, <1>6, <2>2, <3>1
  <2>3. QED
    BY <2>1, <2>2
<1>8. TypesOf(both) = TypesOf(s) \o TypesOf(t)
  BY <1>1, <1>3, <1>6, <1>7, SeqEqual
<1>9. QED
  BY <1>8 DEF both

\* From finish on there is nothing left of the list.
NothingLeft == phase \in {"credit", "report", "done"} => todo = <<>>

LEMMA OpNothingLeft == OpSpec => []NothingLeft
<1>1. OpInit => NothingLeft
  BY DEF OpInit, Init, NothingLeft
<1>2. NothingLeft /\ [OpNext]_opVars => NothingLeft'
  BY DEF NothingLeft, OpNext, OpExecute, OpSystemCalls, ApplyBlockhashesContractCall,
         ApplyBeaconRootContractCall, EnsureCreate2Deployer, OpCommitTransaction,
         OpRejectTransaction, RejectTransaction, OpSkipTransaction,
         OpCollectBalanceIncrements, OpApplyBalanceIncrements, IncrementBalances,
         ReportBalanceIncrements, OpSetStateHook, SetStateHook, opVars, vars
<1>3. QED
  BY <1>1, <1>2, PTL DEF OpSpec

\* execute_block executes the whole list of an OP block, deposits and ordinary
\* transactions in their order, or fails, however long the list is.
THEOREM OpExecutesAll == OpSpec => []ExecuteBlockComplete
<1>1. OpGasInv /\ OpEtherInv /\ NothingLeft => ExecuteBlockComplete
  <2> SUFFICES ASSUME OpGasInv, OpEtherInv, NothingLeft, caller = "execute_block"
               PROVE  /\ TypesOf(receipts) \o TypesOf(todo) = TypesOf(body)
                      /\ phase = "done" => todo = <<>>
    BY DEF ExecuteBlockComplete, TypesOf
  <2>1. PICK txs : OpCommitted(txs)
    BY DEF OpEtherInv, OpEtherOf
  <2>2. TypesOf(receipts) = TypesOf(txs)
    <3>1. /\ DOMAIN receipts = 1 .. Len(receipts) /\ DOMAIN txs = 1 .. Len(txs)
          /\ Len(txs) = Len(receipts)
      BY <2>1 DEF OpGasInv, OpCommitted
    <3>2. \A i \in DOMAIN txs : receipts[i].type = txs[i].type
      BY <2>1 DEF OpCommitted
    <3>3. QED
      BY <3>1, <3>2 DEF TypesOf
  <2>3. /\ txs \in Seq(AllTransactions) /\ todo \in Seq(AllTransactions)
        /\ txs \o todo = body
    BY <2>1 DEF OpGasInv, OpCommitted
  <2>4. TypesOf(txs \o todo) = TypesOf(txs) \o TypesOf(todo)
    BY <2>3, TypesOfConcat
  <2>5. QED
    BY <2>2, <2>3, <2>4 DEF NothingLeft
<1>2. QED
  BY <1>1, OpGasInvariant, OpEtherInvariant, OpNothingLeft, PTL

-----------------------------------------------------------------------------
(***************************************************************************)
(* Types.                                                                   *)
(***************************************************************************)

\* What the invariants above leave to say of OpTypeOK.
OpFieldsInv ==
    /\ gasUsed \in 0 .. U64 - 1
    /\ requests = <<>>
    /\ DOMAIN mirror = IF hook THEN Addresses ELSE {}
    /\ \A i \in DOMAIN receipts :
          receipts[i].type \notin DepositTypes =>
              receipts[i].depositNonce = {} /\ receipts[i].version = {}

LEMMA OpHookSteps ==
    [OpNext]_opVars => \/ SetStateHook
                       \/ ReportBalanceIncrements
                       \/ UNCHANGED hookVars
                       \/ \E source, changes, clear : OnState(source, changes, clear)
BY DEF OpNext, OpExecute, OpSystemCalls, ApplyBlockhashesContractCall,
       ApplyBeaconRootContractCall, EnsureCreate2Deployer, OpCommitTransaction,
       OpRejectTransaction, RejectTransaction, OpSkipTransaction,
       OpCollectBalanceIncrements, OpApplyBalanceIncrements, IncrementBalances,
       OpSetStateHook, ReportAndCommit, opVars, vars

LEMMA OpFieldsInvariant == OpSpec => []OpFieldsInv
<1>1. OpInit => OpFieldsInv
  <2> SUFFICES ASSUME OpInit PROVE OpFieldsInv
    OBVIOUS
  <2>1. DOMAIN mirror = IF hook THEN Addresses ELSE {}
    <3>1. mirror = <<>> /\ hook = FALSE
      BY DEF OpInit, Init
    <3>2. DOMAIN <<>> = {}
      OBVIOUS
    <3>3. QED
      BY <3>1, <3>2
  <2>2. gasUsed \in 0 .. U64 - 1
    BY RewardAssumption DEF OpInit, Init
  <2>3. QED
    BY <2>1, <2>2 DEF OpInit, Init, OpFieldsInv
<1>2. OpGasInv /\ OpHookInv /\ OpLedgerInv /\ OpFieldsInv /\ [OpNext]_opVars
        => OpFieldsInv'
  <2> SUFFICES ASSUME OpGasInv, OpHookInv, OpLedgerInv, OpFieldsInv, [OpNext]_opVars
               PROVE  OpFieldsInv'
    OBVIOUS
  <2>1. requests' = requests
    BY DEF OpNext, OpExecute, OpSystemCalls, ApplyBlockhashesContractCall,
       ApplyBeaconRootContractCall, EnsureCreate2Deployer, OpCommitTransaction,
       OpRejectTransaction, RejectTransaction, OpSkipTransaction,
       OpCollectBalanceIncrements, OpApplyBalanceIncrements, IncrementBalances,
       ReportBalanceIncrements, OpSetStateHook, SetStateHook, opVars, vars, result
  <2>2. DOMAIN mirror' = IF hook' THEN Addresses ELSE {}
    <3>0. DOMAIN mirror = (IF hook THEN Addresses ELSE {}) /\ hook \in BOOLEAN
          /\ DOMAIN db = Addresses
      BY DEF OpFieldsInv, OpHookInv
    <3>1. CASE SetStateHook
      BY <3>0, <3>1 DEF SetStateHook
    <3>2. CASE ReportBalanceIncrements
      BY <3>0, <3>2 DEF ReportBalanceIncrements
    <3>3. CASE UNCHANGED hookVars
      BY <3>0, <3>3 DEF hookVars
    <3>4. CASE hook /\ \E source, changes, clear : OnState(source, changes, clear)
      BY <3>0, <3>4 DEF OnState, Commit
    <3>5. CASE ~hook /\ \E source, changes, clear : OnState(source, changes, clear)
      BY <3>0, <3>5 DEF OnState, hookVars
    <3>6. QED
      BY <3>0, <3>1, <3>2, <3>3, <3>4, <3>5, OpHookSteps
  <2>3. CASE OpCommitTransaction
    <3>1. PICK tx \in AllTransactions : \E r :
              /\ receipts' = Append(receipts, r)
              /\ r.type = tx.type
              /\ r.depositNonce = DepositNonce(tx)
              /\ r.version = DepositReceiptVersion(tx)
      BY <2>3, OpCommitMoves DEF OpLedgerInv
    <3>2. PICK r :
              /\ receipts' = Append(receipts, r)
              /\ r.type = tx.type
              /\ r.depositNonce = DepositNonce(tx)
              /\ r.version = DepositReceiptVersion(tx)
      BY <3>1
    <3>3. PICK S : receipts \in Seq(S)
      BY DEF OpGasInv
    <3>4. ASSUME NEW i \in DOMAIN receipts', receipts'[i].type \notin DepositTypes
          PROVE  receipts'[i].depositNonce = {} /\ receipts'[i].version = {}
      <4>1. receipts \in Seq(S \cup {r}) /\ r \in S \cup {r}
        BY <3>3, SeqMonotonic
      <4>2. (i \in DOMAIN receipts /\ receipts'[i] = receipts[i]) \/ receipts'[i] = r
        BY <3>2, <3>4, <4>1, AppendProperties
      <4>3. CASE receipts'[i] = r
        <5>1. ~tx.deposit
          BY <3>2, <3>4, <4>3 DEF DepositTypes
        <5>2. QED
          BY <3>2, <4>3, <5>1 DEF DepositNonce, DepositReceiptVersion
      <4>4. QED
        BY <3>4, <4>2, <4>3 DEF OpFieldsInv
    <3>5. gasUsed' \in 0 .. U64 - 1
      <4>1. PICK t \in Submitted : \E res \in OpTxResults(t) :
                gasUsed' = WrapAdd(gasUsed, res.gasUsed)
        BY <2>3 DEF OpCommitTransaction
      <4>2. t \in AllTransactions
        BY SubmittedTransactions DEF OpGasInv
      <4>3. PICK g \in Nat : g < U64 /\ gasUsed' = WrapAdd(gasUsed, g)
        <5>1. t.gasLimit \in Nat /\ t.gasLimit < U64 /\ U64 \in Nat
          BY <4>2, GasAssumption, RewardAssumption
        <5>2. \A res \in OpTxResults(t) : res.gasUsed \in Nat /\ res.gasUsed <= t.gasLimit
          BY <4>2, OpGasOfResult
        <5>3. QED
          BY <4>1, <5>1, <5>2
      <4>4. gasUsed \in 0 .. U64 - 1 /\ U64 \in Nat
        BY RewardAssumption DEF OpFieldsInv
      <4>5. QED
        BY <4>3, <4>4 DEF WrapAdd
    <3>6. QED
      BY <2>1, <2>2, <3>4, <3>5 DEF OpFieldsInv
  <2>4. CASE ~OpCommitTransaction
    <3>1. receipts' = receipts /\ gasUsed' = gasUsed
      BY <2>4, OpOtherStepsKeepGas
    <3>2. QED
      BY <2>1, <2>2, <3>1 DEF OpFieldsInv
  <2>5. QED
    BY <2>3, <2>4
<1>3. QED
  BY <1>1, <1>2, OpGasInvariant, OpHookInvariant, OpLedgerInvariant, PTL DEF OpSpec

\* Every reachable state of the OP executor is well typed, and no receipt but a
\* deposit's has a deposit nonce or a version.
THEOREM OpTypeCorrect == OpSpec => []OpTypeOK
<1>1. OpGasInv /\ OpHookInv /\ OpPhaseInv /\ OpFieldsInv => OpTypeOK
  BY DEF OpGasInv, OpHookInv, OpPhaseInv, OpFieldsInv, OpTypeOK
<1>2. QED
  BY <1>1, OpGasInvariant, OpHookInvariant, OpPhaseInvariant, OpFieldsInvariant, PTL

=============================================================================
