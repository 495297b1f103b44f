--------------------- MODULE SeismicBlockExecutor_proofs ---------------------
(***************************************************************************)
(* Proofs about SeismicBlockExecutor: for all envelopes, keys and lists.    *)
(***************************************************************************)
EXTENDS SeismicBlockExecutor, SequenceTheorems, TLAPS

\* The steps of the inner executor that do not execute a transaction.
InnerStep ==
    \/ Inner!ApplyBlockhashesContractCall \/ Inner!ApplyBeaconRootContractCall
    \/ Inner!StartFinish
    \/ Inner!ApplyWithdrawalRequestsContractCall
    \/ Inner!ApplyConsolidationRequestsContractCall
    \/ Inner!CollectBalanceIncrements
    \/ Inner!IncrementBalances
    \/ Inner!ReportBalanceIncrements
    \/ Inner!SetStateHook

LEMMA InnerStepEffect ==
    ASSUME InnerStep
    PROVE  /\ UNCHANGED <<caller, receipts>>
           /\ \/ phase' \in {phase, "failed"}
              \/ phase' \in {"beaconRoot", "txs"} /\ phase \in {"start", "beaconRoot"}
              \/ phase = "txs" /\ Plaintexts(todo) = <<>>
              \/ phase \notin {"start", "beaconRoot", "txs", "failed"}
BY DEF InnerStep, Inner!ApplyBlockhashesContractCall, Inner!ApplyBeaconRootContractCall,
       Inner!StartFinish, Inner!RequestsCall, Inner!ApplyWithdrawalRequestsContractCall,
       Inner!ApplyConsolidationRequestsContractCall, Inner!CollectBalanceIncrements,
       Inner!IncrementBalances, Inner!ReportBalanceIncrements, Inner!SetStateHook,
       Inner!result

-----------------------------------------------------------------------------
(***************************************************************************)
(* The executor implements the Ethereum one.                                *)
(***************************************************************************)

ListInv == todo \in Seq(AllEnvelopes) /\ body \in Seq(AllEnvelopes)

LEMMA InitialList ==
    ASSUME Init PROVE body \in Seq(AllEnvelopes) /\ todo = body
<1>1. CASE body = <<>>
  BY <1>1 DEF Init
<1>2. CASE body \in EnvelopeBodies
  BY <1>2, EnvelopesAssumption DEF Init
<1>3. QED
  BY <1>1, <1>2 DEF Init

LEMMA ListInvariant == Spec => []ListInv
<1>1. Init => ListInv
  BY InitialList DEF ListInv
<1>2. ListInv /\ [Next]_vars => ListInv'
  <2> SUFFICES ASSUME ListInv, [Next]_vars PROVE ListInv'
    OBVIOUS
  <2>1. CASE Commit
    <3>1. body' = body /\ (todo' = todo \/ (todo # <<>> /\ todo' = Tail(todo)))
      BY <2>1 DEF Commit, Submitted
    <3>2. QED
      BY <3>1 DEF ListInv
  <2>2. CASE UNCHANGED <<body, todo>>
    BY <2>2 DEF ListInv
  <2>3. QED
    BY <2>1, <2>2 DEF Next, Execute, PreExecution, Skip, Reject, FailToDecrypt, Finish,
       SetStateHook, vars
<1>3. QED
  BY <1>1, <1>2, PTL DEF Spec

\* What is submitted here and decrypts is submitted to the inner executor; in
\* execute_block something always is.
LEMMA SubmittedToInner ==
    ASSUME ListInv, NEW e \in Submitted
    PROVE  /\ e \in AllEnvelopes
           /\ Decrypts(e) => Plaintext(e) \in Inner!Submitted
           /\ caller # "builder" => Inner!Submitted # {}
<1>1. CASE caller = "builder"
  BY <1>1 DEF Submitted, Inner!Submitted, AllEnvelopes
<1>2. CASE caller # "builder"
  <2>1. todo # <<>> /\ e = Head(todo)
    BY <1>2 DEF Submitted
  <2>2. e = todo[1] /\ 1 \in DOMAIN todo /\ e \in AllEnvelopes
    BY <2>1 DEF ListInv
  <2>3. Plaintexts(todo) # <<>> /\ Plaintexts(todo)[1] = Plaintext(e)
    BY <2>2 DEF Plaintexts
  <2>4. Head(Plaintexts(todo)) = Plaintext(e)
    BY <2>3
  <2>5. QED
    BY <1>2, <2>2, <2>3, <2>4 DEF Inner!Submitted
<1>3. QED
  BY <1>1, <1>2

\* On the plaintexts the executor is the Ethereum one: decryption is invisible
\* to it, and failing to decrypt is an error of the transaction.
THEOREM Implementation == Spec => ImplementsEthBlockExecutor
<1>1. Init => Inner!Init
  BY DEF Init
<1>2. ListInv /\ [Next]_vars => [Inner!Next]_Inner!vars
  <2> SUFFICES ASSUME ListInv, [Next]_vars PROVE [Inner!Next]_Inner!vars
    OBVIOUS
  <2>1. CASE Commit
    <3>1. Inner!CommitTransaction
      BY <2>1, SubmittedToInner DEF Commit, Inner!CommitTransaction
    <3>2. QED
      BY <3>1 DEF Inner!Next, Inner!Execute
  <2>2. CASE Skip
    <3>1. Inner!SkipTransaction
      BY <2>2, SubmittedToInner DEF Skip, Inner!SkipTransaction
    <3>2. QED
      BY <3>1 DEF Inner!Next, Inner!Execute
  <2>3. CASE Reject
    BY <2>3 DEF Reject, Inner!Next, Inner!Execute
  <2>4. CASE FailToDecrypt
    <3>1. UNCHANGED <<Plaintexts(body), Plaintexts(todo)>>
      BY <2>4 DEF FailToDecrypt, Plaintexts
    <3>2. CASE caller = "builder"
      BY <2>4, <3>1, <3>2
      DEF FailToDecrypt, Inner!vars, Inner!hookVars, Inner!result
    <3>3. CASE caller # "builder"
      <4>1. Inner!Submitted # {}
        BY <2>4, <3>3, SubmittedToInner DEF FailToDecrypt
      <4>2. Inner!RejectTransaction
        BY <2>4, <3>1, <3>3, <4>1
        DEF FailToDecrypt, Inner!RejectTransaction, Inner!hookVars, Inner!result
      <4>3. QED
        BY <4>2 DEF Inner!Next, Inner!Execute
    <3>4. QED
      BY <3>2, <3>3
  <2>5. CASE PreExecution \/ Finish \/ SetStateHook
    BY <2>5 DEF PreExecution, Finish, SetStateHook, Inner!Next, Inner!Execute
  <2>6. CASE UNCHANGED vars
    BY <2>6 DEF vars, Plaintexts, Inner!vars, Inner!hookVars, Inner!result
  <2>7. QED
    BY <2>1, <2>2, <2>3, <2>4, <2>5, <2>6 DEF Next, Execute
<1>3. QED
  BY <1>1, <1>2, ListInvariant, PTL DEF Spec, ImplementsEthBlockExecutor, Inner!Spec

-----------------------------------------------------------------------------
(***************************************************************************)
(* Only what decrypts is executed.                                          *)
(***************************************************************************)

\* The list is executed from the front, one receipt for each transaction that
\* is taken off it, and finish is called when it is empty.
FrontInv ==
    caller = "execute_block" =>
        /\ Len(receipts) + Len(todo) = Len(body)
        /\ \A i \in 1 .. Len(todo) : todo[i] = body[Len(receipts) + i]
        /\ \A i \in 1 .. Len(receipts) : Decrypts(body[i])
        /\ phase \notin {"start", "beaconRoot", "txs", "failed"} => todo = <<>>

ReceiptsInv ==
    /\ \E S : receipts \in Seq(S)
    /\ OnlyPlaintextsExecuted
    /\ FrontInv

\* The effect of a committed transaction.
Receipted(e, r) ==
    /\ Decrypts(e)
    /\ r.type = e.plaintext.type
    /\ r.success => r.logs = e.plaintext.logs
    /\ \E S : receipts \in Seq(S) /\ r \in S
    /\ receipts' = Append(receipts, r)
    /\ caller # "builder" =>
          todo # <<>> /\ e = Head(todo) /\ todo' = Tail(todo)
    /\ UNCHANGED <<caller, phase, body>> /\ phase = "txs"

LEMMA CommitEffect ==
    ASSUME ListInv, ReceiptsInv, Commit
    PROVE  \E e \in AllEnvelopes : \E r : Receipted(e, r)
<1>1. PICK e \in Submitted : Decrypts(e) /\ Inner!Committed(Plaintext(e))
  BY DEF Commit
<1>2. PICK res \in Inner!TxResults(Plaintext(e), db) :
        receipts' = Append(receipts, Inner!BuildReceipt(Plaintext(e), res, gasUsed'))
  BY <1>1 DEF Inner!Committed
<1> DEFINE r == Inner!BuildReceipt(Plaintext(e), res, gasUsed')
<1>3. Plaintext(e) = e.plaintext
  BY <1>1 DEF Plaintext
<1>4. res.success => res.logs = Plaintext(e).logs
  BY DEF Inner!TxResults
<1>5. r.type = e.plaintext.type /\ (r.success => r.logs = e.plaintext.logs)
  BY <1>3, <1>4 DEF Inner!BuildReceipt
<1>6. PICK T : receipts \in Seq(T)
  BY DEF ReceiptsInv
<1>7. receipts \in Seq(T \cup {r}) /\ r \in T \cup {r}
  BY <1>6, SeqMonotonic
<1>8. e \in AllEnvelopes
  BY SubmittedToInner
<1>9. caller # "builder" => todo # <<>> /\ e = Head(todo) /\ todo' = Tail(todo)
  BY DEF Commit, Submitted
<1>10. UNCHANGED <<caller, phase, body>> /\ phase = "txs"
  BY <1>1 DEF Commit, Inner!Committed
<1> HIDE DEF r
<1>11. QED
  BY <1>1, <1>2, <1>5, <1>7, <1>8, <1>9, <1>10 DEF r, Receipted

LEMMA ReceiptsInvariant == Spec => []ReceiptsInv
<1>1. Init => ReceiptsInv
  <2> SUFFICES ASSUME Init PROVE ReceiptsInv
    OBVIOUS
  <2>1. receipts = <<>> /\ phase = "start" /\ todo = body
    BY DEF Init, Inner!Init
  <2>2. body \in Seq(AllEnvelopes)
    BY InitialList
  <2>3. receipts \in Seq({}) /\ Len(receipts) = 0 /\ DOMAIN receipts = {}
    BY <2>1
  <2>4. QED
    BY <2>1, <2>2, <2>3 DEF ReceiptsInv, OnlyPlaintextsExecuted, FrontInv
<1>2. ListInv /\ ReceiptsInv /\ [Next]_vars => ReceiptsInv'
  <2> SUFFICES ASSUME ListInv, ReceiptsInv, [Next]_vars PROVE ReceiptsInv'
    OBVIOUS
  <2>1. CASE Commit
    <3>0. PICK e \in AllEnvelopes : \E r : Receipted(e, r)
      BY <2>1, CommitEffect
    <3>1. PICK r : Receipted(e, r)
      BY <3>0
    <3>2. PICK S : receipts \in Seq(S) /\ r \in S
      BY <3>1 DEF Receipted
    <3>3. /\ receipts' \in Seq(S) /\ Len(receipts) \in Nat
          /\ Len(receipts') = Len(receipts) + 1
          /\ DOMAIN receipts' = 1 .. Len(receipts) + 1
          /\ DOMAIN receipts = 1 .. Len(receipts)
          /\ \A i \in 1 .. Len(receipts) : receipts'[i] = receipts[i]
          /\ receipts'[Len(receipts) + 1] = r
      BY <3>1, <3>2, AppendProperties, LenProperties DEF Receipted
    <3>4. OnlyPlaintextsExecuted'
      <4>1. ASSUME NEW i \in 1 .. Len(receipts) + 1
            PROVE  \E x \in AllEnvelopes :
                      /\ Decrypts(x)
                      /\ receipts'[i].type = x.plaintext.type
                      /\ receipts'[i].success => receipts'[i].logs = x.plaintext.logs
        <5>1. CASE i = Len(receipts) + 1
          BY <3>1, <3>3, <5>1 DEF Receipted
        <5>2. CASE i \in 1 .. Len(receipts)
          BY <3>3, <5>2 DEF ReceiptsInv, OnlyPlaintextsExecuted
        <5>3. QED
          BY <3>3, <5>1, <5>2
      <4>2. QED
        BY <3>3, <4>1 DEF OnlyPlaintextsExecuted
    <3>5. FrontInv'
      <4> SUFFICES ASSUME caller' = "execute_block" PROVE FrontInv'
        BY DEF FrontInv
      <4>1. /\ caller = "execute_block" /\ todo # <<>> /\ e = Head(todo)
            /\ todo' = Tail(todo) /\ body' = body /\ phase' = "txs"
        BY <3>1 DEF Receipted
      <4>2. /\ todo \in Seq(AllEnvelopes) /\ Len(todo) \in Nat /\ Len(todo) > 0
            /\ e = todo[1] /\ Len(todo') = Len(todo) - 1
            /\ \A i \in 1 .. Len(todo) - 1 : todo'[i] = todo[i + 1]
        BY <4>1, HeadTailProperties, EmptySeq DEF ListInv
      <4>3. /\ Len(receipts) + Len(todo) = Len(body)
            /\ \A i \in 1 .. Len(todo) : todo[i] = body[Len(receipts) + i]
            /\ \A i \in 1 .. Len(receipts) : Decrypts(body[i])
        BY <4>1 DEF ReceiptsInv, FrontInv
      <4>4. Len(receipts') + Len(todo') = Len(body)
        <5>1. Len(receipts) + 1 + (Len(todo) - 1) = Len(receipts) + Len(todo)
          BY <3>3, <4>2
        <5>2. Len(receipts') = Len(receipts) + 1 /\ Len(todo') = Len(todo) - 1
          BY <3>3, <4>2
        <5>3. QED
          BY <4>3, <5>1, <5>2
      <4>5. \A i \in 1 .. Len(todo') : todo'[i] = body[Len(receipts') + i]
        <5>1. ASSUME NEW i \in 1 .. Len(todo')
              PROVE  todo'[i] = body[Len(receipts') + i]
          <6>1. i + 1 \in 1 .. Len(todo) /\ Len(receipts') + i = Len(receipts) + (i + 1)
            BY <3>3, <4>2
          <6>2. todo'[i] = todo[i + 1]
            BY <4>2
          <6>3. QED
            BY <4>3, <6>1, <6>2
        <5>2. QED
          BY <5>1
      <4>6. \A i \in 1 .. Len(receipts') : Decrypts(body[i])
        <5>1. body[Len(receipts) + 1] = e
          BY <4>2, <4>3
        <5>2. \A i \in 1 .. Len(receipts') : i \in 1 .. Len(receipts) \/ i = Len(receipts) + 1
          BY <3>3
        <5>3. QED
          BY <3>1, <4>3, <5>1, <5>2 DEF Receipted
      <4>7. QED
        BY <4>1, <4>4, <4>5, <4>6 DEF FrontInv, Decrypts
    <3>6. QED
      BY <3>3, <3>4, <3>5 DEF ReceiptsInv
  <2>2. CASE Skip \/ Reject \/ FailToDecrypt \/ UNCHANGED vars
    <3>1. /\ UNCHANGED <<caller, body, todo, receipts>>
          /\ phase' = phase \/ phase' = "failed"
      BY <2>2 DEF Skip, Reject, FailToDecrypt, vars, Inner!Skipped,
         Inner!RejectTransaction, Inner!vars, Inner!result
    <3>2. QED
      BY <3>1 DEF ReceiptsInv, OnlyPlaintextsExecuted, FrontInv, Decrypts
  <2>3. CASE PreExecution \/ Finish \/ SetStateHook
    <3>1. InnerStep /\ UNCHANGED <<body, todo>>
      BY <2>3 DEF PreExecution, Finish, SetStateHook, InnerStep
    <3>2. Plaintexts(todo) = <<>> => todo = <<>>
      <4>1. DOMAIN Plaintexts(todo) = DOMAIN todo
        BY DEF Plaintexts
      <4>2. DOMAIN todo = {} => todo = <<>>
        BY DEF ListInv
      <4>3. DOMAIN <<>> = {}
        OBVIOUS
      <4>4. QED
        BY <4>1, <4>2, <4>3
    <3>3. QED
      BY <3>1, <3>2, InnerStepEffect
      DEF ReceiptsInv, OnlyPlaintextsExecuted, FrontInv, Decrypts
  <2>4. QED
    BY <2>1, <2>2, <2>3 DEF Next, Execute
<1>3. QED
  BY <1>1, <1>2, ListInvariant, PTL DEF Spec

\* Each receipt is that of the plaintext of a transaction that decrypts.
THEOREM PlaintextsExecuted == Spec => []OnlyPlaintextsExecuted
BY ReceiptsInvariant, PTL DEF ReceiptsInv

\* A block with a transaction that does not decrypt never ends well, and nothing
\* behind that transaction is executed.
THEOREM UndecryptableFails == Spec => []UndecryptableFailsBlock
<1>1. ListInv /\ ReceiptsInv => UndecryptableFailsBlock
  <2> SUFFICES ASSUME ListInv, ReceiptsInv, caller = "execute_block",
                      NEW i \in DOMAIN body, ~Decrypts(body[i])
               PROVE  phase # "done" /\ Len(receipts) < i
    BY DEF UndecryptableFailsBlock
  <2>1. /\ i \in 1 .. Len(body) /\ Len(body) \in Nat
        /\ Len(receipts) + Len(todo) = Len(body)
        /\ i \notin 1 .. Len(receipts)
        /\ phase = "done" => todo = <<>>
    BY DEF ListInv, ReceiptsInv, FrontInv
  <2>2. Len(receipts) \in Nat
    BY DEF ReceiptsInv
  <2>3. phase = "done" => Len(todo) = 0
    BY <2>1
  <2>4. QED
    BY <2>1, <2>2, <2>3
<1>2. QED
  BY <1>1, ListInvariant, ReceiptsInvariant, PTL

-----------------------------------------------------------------------------
(***************************************************************************)
(* Gas and completeness: what is proved of the Ethereum executor, for the   *)
(* Seismic one and for any envelopes.  Nothing is assumed of a transaction  *)
(* that does not decrypt.                                                   *)
(***************************************************************************)

\* The gas used is within the limit and is the total of the receipts.
GasInv ==
    /\ blk \in Blocks
    /\ gasUsed \in Nat
    /\ gasUsed <= blk.gasLimit

\* A transaction that is executed decrypts, fits, and uses some gas but no more
\* than its plaintext's limit: nothing wraps around.
LEMMA CommitGas ==
    ASSUME ListInv, GasInv, Commit
    PROVE  \E r :
              /\ receipts' = Append(receipts, r)
              /\ r.cumulativeGasUsed = gasUsed'
              /\ gasUsed' \in Nat
              /\ gasUsed + IntrinsicGas <= gasUsed'
              /\ gasUsed' <= blk.gasLimit
<1>1. PICK e \in Submitted : Decrypts(e) /\ Inner!Committed(Plaintext(e))
  BY DEF Commit
<1> DEFINE tx == Plaintext(e)
<1>2. PICK res \in Inner!TxResults(tx, db) :
        /\ gasUsed' = Inner!WrapAdd(gasUsed, res.gasUsed)
        /\ receipts' = Append(receipts, Inner!BuildReceipt(tx, res, gasUsed'))
  BY <1>1 DEF Inner!Committed
<1>3. e \in AllEnvelopes /\ tx = e.plaintext
  BY <1>1, SubmittedToInner DEF Plaintext
<1>4. /\ tx.gasLimit \in Nat /\ IntrinsicGas \in Nat
      /\ IntrinsicGas <= tx.gasLimit
  BY <1>1, <1>3, PlaintextAssumption
<1>5. res.gasUsed \in {IntrinsicGas, tx.gasLimit}
  BY DEF Inner!TxResults
<1>6. Inner!Fits(tx)
  BY <1>1 DEF Inner!Committed
<1>7. Inner!BuildReceipt(tx, res, gasUsed').cumulativeGasUsed = gasUsed'
  BY DEF Inner!BuildReceipt
<1>8. /\ blk.gasLimit \in Nat /\ blk.gasLimit < U64 /\ U64 \in Nat
      /\ gasUsed \in Nat /\ gasUsed <= blk.gasLimit
  BY PlaintextAssumption DEF GasInv
<1> HIDE DEF tx
<1>9. tx.gasLimit <= blk.gasLimit - gasUsed
  BY <1>6, <1>8 DEF Inner!Fits, Inner!BlockAvailableGas, Inner!WrapSub
<1>10. /\ res.gasUsed \in Nat /\ IntrinsicGas <= res.gasUsed
       /\ gasUsed + res.gasUsed <= blk.gasLimit
  BY <1>4, <1>5, <1>8, <1>9
<1>11. gasUsed' = gasUsed + res.gasUsed
  BY <1>2, <1>8, <1>10 DEF Inner!WrapAdd
<1>12. gasUsed' \in Nat /\ gasUsed + IntrinsicGas <= gasUsed' /\ gasUsed' <= blk.gasLimit
  BY <1>4, <1>8, <1>10, <1>11
<1>13. QED
  BY <1>2, <1>7, <1>12

\* Only Commit touches the gas or the receipts.
LEMMA OtherStepsKeepGas ==
    [Next]_vars => UNCHANGED blk /\ (Commit \/ UNCHANGED <<gasUsed, receipts>>)
BY DEF Next, Execute, PreExecution, Commit, Skip, Reject, FailToDecrypt, Finish,
       SetStateHook, vars, Inner!Committed, Inner!Skipped, Inner!RejectTransaction,
       Inner!ApplyBlockhashesContractCall, Inner!ApplyBeaconRootContractCall,
       Inner!StartFinish, Inner!RequestsCall, Inner!ApplyWithdrawalRequestsContractCall,
       Inner!ApplyConsolidationRequestsContractCall, Inner!CollectBalanceIncrements,
       Inner!IncrementBalances, Inner!ReportBalanceIncrements, Inner!SetStateHook,
       Inner!vars, Inner!result

LEMMA GasInvariant == Spec => []GasInv
<1>1. Init => GasInv
  BY PlaintextAssumption DEF Init, Inner!Init, GasInv
<1>2. ListInv /\ GasInv /\ [Next]_vars => GasInv'
  BY CommitGas, OtherStepsKeepGas DEF GasInv
<1>3. QED
  BY <1>1, <1>2, ListInvariant, PTL DEF Spec

\* No block of envelopes uses more gas than its limit, and the gas left never
\* wraps around: the size of a transaction that does not decrypt is not looked at.
THEOREM SeismicGasSafety == Spec => []Inner!GasWithinLimit
<1>1. GasInv => Inner!GasWithinLimit
  <2> SUFFICES ASSUME GasInv PROVE Inner!GasWithinLimit
    OBVIOUS
  <2>1. blk.gasLimit \in Nat /\ gasUsed \in Nat /\ gasUsed <= blk.gasLimit
    BY PlaintextAssumption DEF GasInv
  <2>2. QED
    BY <2>1 DEF Inner!GasWithinLimit, Inner!BlockAvailableGas, Inner!WrapSub
<1>2. QED
  BY <1>1, GasInvariant, PTL

\* The receipts are a running total of the gas used: what is refused or does
\* not decrypt costs nothing.
THEOREM SeismicCumulativeGas == Spec => []Inner!ReceiptsAccountForGas
<1> DEFINE Total == Inner!ReceiptsAccountForGas
<1>1. Init => Total
  BY DEF Init, Inner!Init, Inner!ReceiptsAccountForGas
<1>2. ListInv /\ GasInv /\ ReceiptsInv /\ Total /\ [Next]_vars => Total'
  <2> SUFFICES ASSUME ListInv, GasInv, ReceiptsInv, Total, [Next]_vars PROVE Total'
    OBVIOUS
  <2>1. CASE Commit
    <3>1. PICK r :
              /\ receipts' = Append(receipts, r)
              /\ r.cumulativeGasUsed = gasUsed'
              /\ gasUsed + IntrinsicGas <= gasUsed'
      BY <2>1, CommitGas
    <3>2. PICK S : receipts \in Seq(S)
      BY DEF ReceiptsInv
    <3>3. receipts \in Seq(S \cup {r}) /\ r \in S \cup {r}
      BY <3>2, SeqMonotonic
    <3>4. /\ Len(receipts) \in Nat
          /\ Len(receipts') = Len(receipts) + 1
          /\ \A i \in 1 .. Len(receipts) : receipts'[i] = receipts[i]
          /\ receipts'[Len(receipts) + 1] = r
          /\ receipts' # <<>>
      BY <3>1, <3>3, AppendProperties, LenProperties
    <3>5. gasUsed' = receipts'[Len(receipts')].cumulativeGasUsed
      BY <3>1, <3>4
    <3>6. ASSUME NEW i \in 1 .. Len(receipts')
          PROVE  receipts'[i].cumulativeGasUsed
                    >= (IF i = 1 THEN 0 ELSE receipts'[i - 1].cumulativeGasUsed)
                       + IntrinsicGas
      <4>1. CASE i = Len(receipts) + 1
        <5>1. receipts = <<>> <=> Len(receipts) = 0
          BY <3>2, EmptySeq
        <5>2. gasUsed = IF i = 1 THEN 0 ELSE receipts[i - 1].cumulativeGasUsed
          BY <3>4, <4>1, <5>1 DEF Inner!ReceiptsAccountForGas
        <5>3. i # 1 => receipts'[i - 1] = receipts[i - 1]
          BY <3>4, <4>1
        <5>4. gasUsed \in Nat /\ gasUsed' \in Int /\ IntrinsicGas \in Nat
          BY <2>1, CommitGas, PlaintextAssumption DEF GasInv
        <5>5. QED
          BY <3>1, <3>4, <4>1, <5>2, <5>3, <5>4
      <4>2. CASE i \in 1 .. Len(receipts)
        <5>1. receipts[i].cumulativeGasUsed
                >= (IF i = 1 THEN 0 ELSE receipts[i - 1].cumulativeGasUsed) + IntrinsicGas
          BY <4>2 DEF Inner!ReceiptsAccountForGas
        <5>2. i # 1 => receipts'[i - 1] = receipts[i - 1]
          BY <3>4, <4>2
        <5>3. QED
          BY <3>4, <4>2, <5>1, <5>2
      <4>3. QED
        BY <3>4, <4>1, <4>2
    <3>7. QED
      BY <3>4, <3>5, <3>6 DEF Inner!ReceiptsAccountForGas
  <2>2. CASE UNCHANGED <<gasUsed, receipts>>
    BY <2>2 DEF Inner!ReceiptsAccountForGas
  <2>3. QED
    BY <2>1, <2>2, OtherStepsKeepGas
<1> HIDE DEF Total
<1>3. Spec => []Total
  BY <1>1, <1>2, ListInvariant, GasInvariant, ReceiptsInvariant, PTL DEF Spec
<1>4. QED
  BY <1>3 DEF Total

\* In execute_block the receipts are those of the plaintexts, one by one.
TypesInv ==
    caller = "execute_block" =>
        \A i \in 1 .. Len(receipts) : receipts[i].type = Plaintext(body[i]).type

LEMMA TypesInvariant == Spec => []TypesInv
<1>1. Init => TypesInv
  BY DEF Init, Inner!Init, TypesInv
<1>2. ListInv /\ ReceiptsInv /\ TypesInv /\ [Next]_vars => TypesInv'
  <2> SUFFICES ASSUME ListInv, ReceiptsInv, TypesInv, [Next]_vars,
                      caller' = "execute_block"
               PROVE  TypesInv'
    BY DEF TypesInv
  <2>1. CASE Commit
    <3>0. PICK e \in AllEnvelopes : \E r : Receipted(e, r)
      BY <2>1, CommitEffect
    <3>1. PICK r : Receipted(e, r)
      BY <3>0
    <3>2. /\ caller = "execute_block" /\ body' = body
          /\ todo # <<>> /\ e = Head(todo) /\ receipts' = Append(receipts, r)
          /\ r.type = Plaintext(e).type
      BY <3>1 DEF Receipted, Plaintext
    <3>3. PICK S : receipts \in Seq(S) /\ r \in S
      BY <3>1 DEF Receipted
    <3>4. /\ Len(receipts) \in Nat /\ Len(receipts') = Len(receipts) + 1
          /\ \A i \in 1 .. Len(receipts) : receipts'[i] = receipts[i]
          /\ receipts'[Len(receipts) + 1] = r
      BY <3>2, <3>3, AppendProperties, LenProperties
    <3>5. 1 \in 1 .. Len(todo) /\ e = todo[1]
      BY <3>2, HeadTailProperties, EmptySeq DEF ListInv
    <3>6. body[Len(receipts) + 1] = e
      BY <3>2, <3>4, <3>5 DEF ReceiptsInv, FrontInv
    <3>7. ASSUME NEW i \in 1 .. Len(receipts')
          PROVE  receipts'[i].type = Plaintext(body'[i]).type
      <4>1. CASE i = Len(receipts) + 1
        BY <3>2, <3>4, <3>6, <4>1
      <4>2. CASE i \in 1 .. Len(receipts)
        BY <3>2, <3>4, <4>2 DEF TypesInv
      <4>3. QED
        BY <3>4, <4>1, <4>2
    <3>8. QED
      BY <3>7 DEF TypesInv, Plaintext, Decrypts
  <2>2. CASE UNCHANGED <<caller, body, receipts>>
    BY <2>2 DEF TypesInv, Plaintext, Decrypts
  <2>3. QED
    BY <2>1, <2>2 DEF Next, Execute, PreExecution, Skip, Reject, FailToDecrypt, Finish,
       SetStateHook, vars, Inner!Skipped, Inner!RejectTransaction,
       Inner!ApplyBlockhashesContractCall, Inner!ApplyBeaconRootContractCall,
       Inner!StartFinish, Inner!RequestsCall, Inner!ApplyWithdrawalRequestsContractCall,
       Inner!ApplyConsolidationRequestsContractCall, Inner!CollectBalanceIncrements,
       Inner!IncrementBalances, Inner!ReportBalanceIncrements, Inner!SetStateHook,
       Inner!vars, Inner!result
<1>3. QED
  BY <1>1, <1>2, ListInvariant, ReceiptsInvariant, PTL DEF Spec

\* execute_block executes the plaintexts of its whole list, in order, or fails:
\* a transaction that does not decrypt is never passed over.
THEOREM SeismicExecutesAll == Spec => []Inner!ExecuteBlockComplete
<1>1. ListInv /\ ReceiptsInv /\ TypesInv => Inner!ExecuteBlockComplete
  <2> SUFFICES ASSUME ListInv, ReceiptsInv, TypesInv, caller = "execute_block"
               PROVE  Inner!ExecuteBlockComplete
    BY DEF Inner!ExecuteBlockComplete
  <2> DEFINE done == [i \in DOMAIN receipts |-> receipts[i].type]
             left == [i \in DOMAIN Plaintexts(todo) |-> Plaintexts(todo)[i].type]
             all  == [i \in DOMAIN Plaintexts(body) |-> Plaintexts(body)[i].type]
  <2>1. PICK S : receipts \in Seq(S)
    BY DEF ReceiptsInv
  <2>2. /\ DOMAIN receipts = 1 .. Len(receipts) /\ Len(receipts) \in Nat
        /\ DOMAIN todo = 1 .. Len(todo) /\ Len(todo) \in Nat
        /\ DOMAIN body = 1 .. Len(body) /\ Len(body) \in Nat
    BY <2>1, LenProperties DEF ListInv
  <2>3. /\ Len(receipts) + Len(todo) = Len(body)
        /\ \A i \in 1 .. Len(todo) : todo[i] = body[Len(receipts) + i]
        /\ phase = "done" => todo = <<>>
    BY DEF ReceiptsInv, FrontInv
  <2>4. /\ DOMAIN Plaintexts(todo) = 1 .. Len(todo)
        /\ DOMAIN Plaintexts(body) = 1 .. Len(body)
        /\ \A i \in 1 .. Len(todo) : Plaintexts(todo)[i] = Plaintext(todo[i])
        /\ \A i \in 1 .. Len(body) : Plaintexts(body)[i] = Plaintext(body[i])
    BY <2>2 DEF Plaintexts
  <2>5. /\ done = [i \in 1 .. Len(receipts) |-> receipts[i].type]
        /\ left = [i \in 1 .. Len(todo) |-> Plaintext(todo[i]).type]
        /\ all = [i \in 1 .. Len(body) |-> Plaintext(body[i]).type]
    BY <2>2, <2>4
  <2> DEFINE T == {receipts[i].type : i \in 1 .. Len(receipts)}
                  \cup {Plaintext(todo[i]).type : i \in 1 .. Len(todo)}
  <2>6. /\ done \in Seq(T) /\ Len(done) = Len(receipts)
        /\ left \in Seq(T) /\ Len(left) = Len(todo)
    BY <2>2, <2>5
  <2>7. \A i \in 1 .. Len(receipts) : done[i] = Plaintext(body[i]).type
    BY <2>5 DEF TypesInv
  <2>8. \A i \in 1 .. Len(todo) : left[i] = Plaintext(body[Len(receipts) + i]).type
    BY <2>3, <2>5
  <2> DEFINE cat == done \o left
  <2> HIDE DEF done, left, all, T
  <2>9. /\ cat \in Seq(T) /\ Len(cat) = Len(done) + Len(left)
        /\ \A i \in 1 .. Len(done) + Len(left) :
              cat[i] = IF i <= Len(done) THEN done[i] ELSE left[i - Len(done)]
    BY <2>6, ConcatProperties
  <2> HIDE DEF cat
  <2>10. cat = [i \in 1 .. Len(body) |-> cat[i]]
    <3>1. Len(cat) = Len(body)
      BY <2>3, <2>6, <2>9
    <3>2. QED
      BY <2>9, <3>1
  <2>11. ASSUME NEW i \in 1 .. Len(body)
         PROVE  cat[i] = Plaintext(body[i]).type
    <3>1. CASE i <= Len(receipts)
      BY <2>2, <2>3, <2>6, <2>7, <2>9, <3>1
    <3>2. CASE i > Len(receipts)
      <4>1. /\ i - Len(receipts) \in 1 .. Len(todo)
            /\ Len(receipts) + (i - Len(receipts)) = i /\ ~(i <= Len(receipts))
        BY <2>2, <2>3, <3>2
      <4>2. cat[i] = left[i - Len(receipts)]
        BY <2>2, <2>3, <2>6, <2>9, <4>1
      <4>3. QED
        BY <2>8, <4>1, <4>2
    <3>3. i \in Int /\ Len(receipts) \in Int
      BY <2>2
    <3>4. QED
      BY <3>1, <3>2, <3>3
  <2>12. cat = all
    BY <2>5, <2>10, <2>11
  <2>13. phase = "done" => Plaintexts(todo) = <<>>
    <3>1. ASSUME phase = "done" PROVE Plaintexts(todo) = <<>>
      BY <2>3, <3>1 DEF Plaintexts
    <3>2. QED
      BY <3>1
  <2>14. QED
    BY <2>12, <2>13 DEF done, left, all, cat, Inner!ExecuteBlockComplete
<1>2. QED
  BY <1>1, ListInvariant, ReceiptsInvariant, TypesInvariant, PTL

=============================================================================
