--------------------------- MODULE TxConversion_proofs ---------------------------
(***************************************************************************)
(* The properties of TxConversion for every set of submissions, fees and    *)
(* balances.                                                                *)
(***************************************************************************)
EXTENDS TxConversion, TLAPS

\* What a conversion of the submission returns, given its encoding or not.
Converted(given) ==
    IF given = {} THEN RecoveredToTxEnv(submission) ELSE EncodedToTxEnv(submission)

Forms == {{}, {submission.bytes}}

\* Every environment there is, or was, is a conversion of the submission, and
\* what was executed had been admitted.
ConversionInv ==
    /\ submission \in Submissions
    /\ basefee \in Nat /\ balance \in Nat
    /\ form \in Forms
    /\ \A e \in env : e = Converted(form)
    /\ \A x \in executed :
          /\ x.form \in Forms
          /\ x.env = Converted(x.form)
          /\ Admitted(x.env.base)
          /\ x.charge = Charge(x.env, submission.chain)

LEMMA ConversionInvariant == Spec => []ConversionInv
<1>1. Init => ConversionInv
  BY ConversionAssumption DEF Init, ConversionInv, Forms
<1>2. ConversionInv /\ [Next]_vars => ConversionInv'
  <2> SUFFICES ASSUME ConversionInv, [Next]_vars PROVE ConversionInv'
    OBVIOUS
  \* What is executed already is as it was, whatever is converted next.
  <2>0. ASSUME UNCHANGED <<submission, basefee, balance, executed>>,
               form' \in Forms, \A e \in env' : e = Converted(form')
        PROVE  ConversionInv'
    <3>1. \A b : Admitted(b)' = Admitted(b)
      BY <2>0 DEF Admitted
    <3>2. \A x, c : Charge(x, c)' = Charge(x, c)
      BY <2>0 DEF Charge, EffectiveGasPrice
    <3>3. \A given : Converted(given)' = Converted(given)
      BY <2>0 DEF Converted
    <3>4. Forms' = Forms
      BY <2>0 DEF Forms
    <3>5. QED
      BY <2>0, <3>1, <3>2, <3>3, <3>4 DEF ConversionInv
  <2>1. CASE ConvertRecovered
    <3>1. /\ UNCHANGED <<submission, basefee, balance, executed>>
          /\ form' = {} /\ env' = {RecoveredToTxEnv(submission)}
      BY <2>1 DEF ConvertRecovered
    <3>2. QED
      BY <2>0, <3>1 DEF Converted, Forms
  <2>2. CASE ConvertEncoded
    <3>1. /\ UNCHANGED <<submission, basefee, balance, executed>>
          /\ form' = {submission.bytes} /\ env' = {EncodedToTxEnv(submission)}
      BY <2>2 DEF ConvertEncoded
    <3>2. QED
      BY <2>0, <3>1 DEF Converted, Forms
  <2>3. CASE CallerGasAllowance
    <3>1. UNCHANGED <<submission, basefee, balance, executed, env, form>>
      BY <2>3 DEF CallerGasAllowance
    <3>2. QED
      BY <2>0, <3>1 DEF ConversionInv
  <2>4. CASE Transact
    <3> PICK e \in env :
          executed' = IF Admitted(e.base)
                      THEN executed \cup
                             {[form |-> form, env |-> e,
                               charge |-> Charge(e, submission.chain)]}
                      ELSE executed
      BY <2>4 DEF Transact
    <3>1. UNCHANGED <<submission, basefee, balance>> /\ env' = {} /\ form' = {}
      BY <2>4 DEF Transact
    <3>2. \A b : Admitted(b)' = Admitted(b)
      BY <3>1 DEF Admitted
    <3>3. \A x, c : Charge(x, c)' = Charge(x, c)
      BY <3>1 DEF Charge, EffectiveGasPrice
    <3>4. ASSUME NEW x \in executed', x \notin executed
          PROVE  x = [form |-> form, env |-> e, charge |-> Charge(e, submission.chain)]
                   /\ Admitted(e.base)
      BY <3>4
    <3>5. QED
      BY <3>1, <3>2, <3>3, <3>4 DEF ConversionInv, Forms, Converted
  <2>5. CASE UNCHANGED vars
    BY <2>0, <2>5 DEF vars, ConversionInv
  <2>6. QED
    BY <2>1, <2>2, <2>3, <2>4, <2>5 DEF Next
<1>3. QED
  BY <1>1, <1>2, PTL DEF Spec

-----------------------------------------------------------------------------
\* The price of a TxEnv with a priority fee.
LEMMA OneFee == \A fee : (CHOOSE f \in {fee} : TRUE) = fee
  OBVIOUS

\* The fields of what the Ethereum and OP envelopes become.
LEMMA EnvelopeFields ==
    ASSUME NEW s \in Submissions, s.chain \in {"eth", "op"}
    PROVE  LET tx   == s.tx
               base == FromRecoveredTx(tx, s.signer)
           IN  /\ base.tx_type = tx.type /\ base.caller = s.signer
               /\ base.gas_limit = tx.gas_limit /\ base.value = tx.value
               /\ base.kind = Kind(tx) /\ base.data = tx.input
               /\ base.nonce = IF tx.type = "Deposit" THEN 0 ELSE tx.nonce
               /\ base.blob_hashes = SignedBlobs(tx)
               /\ base.access_list = SignedAccessList(tx)
               /\ base.authorization_list = SignedAuthorizations(tx)
               /\ base.gas_price = CASE tx.type = "Deposit" -> 0
                                     [] tx.type \in DynamicFeeTypes -> tx.max_fee_per_gas
                                     [] OTHER -> tx.gas_price
               /\ base.gas_priority_fee = IF tx.type \in DynamicFeeTypes
                                          THEN {tx.max_priority_fee_per_gas} ELSE {}
<1> DEFINE tx == s.tx
<1> USE DEF FromRecoveredTx, Common, Default, SignedAccessList, SignedBlobs,
            SignedAuthorizations, DynamicFeeTypes
<1>1. CASE tx.type = "Legacy"
  BY <1>1 DEF FromLegacy
<1>2. CASE tx.type = "Eip2930"
  BY <1>2 DEF FromEip2930
<1>3. CASE tx.type = "Eip1559"
  BY <1>3 DEF FromEip1559
<1>4. CASE tx.type = "Eip4844"
  BY <1>4 DEF FromEip4844, FromEip1559
<1>5. CASE tx.type = "Eip7702"
  BY <1>5 DEF FromEip7702, FromEip1559
<1>6. CASE tx.type = "Deposit"
  BY <1>6 DEF FromDeposit
<1>7. QED
  BY <1>1, <1>2, <1>3, <1>4, <1>5, <1>6, ConversionAssumption DEF Types

\* They are charged as their transaction was signed.
LEMMA EnvelopeCharge ==
    ASSUME NEW s \in Submissions, s.chain \in {"eth", "op"}, NEW bytes,
           NEW e, e.base = FromRecoveredTx(s.tx, s.signer),
           s.chain = "op" => /\ e.enveloped_tx = bytes
                             /\ e.deposit = DepositParts(s.tx)
    PROVE  Charge(e, s.chain) = SignedCharge(s, bytes)
<1> DEFINE tx == s.tx
<1>1. EffectiveGasPrice(e.base) = SignedPrice(tx)
  <2>1. CASE tx.type \in DynamicFeeTypes
    <3>1. e.base.gas_priority_fee = {tx.max_priority_fee_per_gas}
      BY <2>1, EnvelopeFields
    <3>2. (CHOOSE fee \in e.base.gas_priority_fee : TRUE) = tx.max_priority_fee_per_gas
      BY <3>1, OneFee, Zenon
    <3>3. /\ e.base.tx_type \in DynamicFeeTypes
          /\ e.base.gas_price = tx.max_fee_per_gas
      BY <2>1, EnvelopeFields DEF DynamicFeeTypes
    <3>4. QED
      BY <2>1, <3>1, <3>2, <3>3 DEF EffectiveGasPrice, SignedPrice, DynamicFeeTypes
  <2>2. CASE tx.type \notin DynamicFeeTypes
    BY <2>2, EnvelopeFields DEF EffectiveGasPrice, SignedPrice
  <2>3. QED
    BY <2>1, <2>2
<1>2. e.base.tx_type = tx.type
  BY EnvelopeFields
<1>3. CASE s.chain = "eth"
  BY <1>1, <1>3, EnvelopeFields DEF Charge, SignedCharge, SignedFor,
                                            ChainCharge
<1>4. CASE s.chain = "op" /\ tx.type = "Deposit"
  <2>1. ChainCharge(e, s.chain) = {tx.mint}
    BY <1>2, <1>4 DEF ChainCharge, DepositParts
  <2>2. QED
    BY <1>1, <1>4, <2>1, EnvelopeFields DEF Charge, SignedCharge, SignedFor
<1>5. CASE s.chain = "op" /\ tx.type # "Deposit"
  <2>1. ChainCharge(e, s.chain) = bytes
    BY <1>2, <1>5 DEF ChainCharge
  <2>2. QED
    BY <1>1, <1>5, <2>1, EnvelopeFields DEF Charge, SignedCharge, SignedFor
<1>6. QED
  BY <1>3, <1>4, <1>5

\* They are for the chain the transaction was signed for.
LEMMA EnvelopeChain ==
    ASSUME NEW s \in Submissions, s.chain \in {"eth", "op"}, s.tx.type # "Deposit",
           Admitted(FromRecoveredTx(s.tx, s.signer))
    PROVE  SignedChain(s.tx) \subseteq {ChainId}
<1> DEFINE base == FromRecoveredTx(s.tx, s.signer)
<1>1. base.chain_id = SignedChain(s.tx) /\ base.tx_type = s.tx.type
  BY ConversionAssumption
  DEF Types, Common, Default, SignedChain, FromRecoveredTx, FromLegacy, FromEip2930,
      FromEip1559, FromEip4844, FromEip7702
<1>2. QED
  BY <1>1, ConversionAssumption DEF Admitted, Types

\* The fields of what Seismic envelopes become, where no type has a priority
\* fee, lists or blobs.
LEMMA SeismicFields ==
    ASSUME NEW s \in Submissions
    PROVE  LET tx   == s.tx
               base == SeismicFromRecoveredTx(tx, s.signer).base
           IN  /\ base.tx_type = tx.type /\ base.caller = s.signer
               /\ base.gas_limit = tx.gas_limit /\ base.value = tx.value
               /\ base.kind = Kind(tx) /\ base.data = tx.input
               /\ base.nonce = tx.nonce /\ base.chain_id = SignedChain(tx)
               /\ base.blob_hashes = <<>> /\ base.access_list = <<>>
               /\ base.authorization_list = <<>> /\ base.gas_priority_fee = {}
               /\ base.gas_price = IF tx.type \in DynamicFeeTypes THEN 0 ELSE tx.gas_price
  BY DEF SeismicFromRecoveredTx, Common, Default, GasPrice

\* A Seismic envelope is charged what was signed, or nothing in a block whose
\* base fee is zero.
LEMMA SeismicCharge ==
    ASSUME NEW s \in Submissions, s.chain = "seismic", basefee \in Nat, NEW bytes,
           NEW e, e.base = SeismicFromRecoveredTx(s.tx, s.signer).base, Admitted(e.base)
    PROVE  /\ s.tx.type # "Seismic" => SignedChain(s.tx) \subseteq {ChainId}
           /\ s.tx.type \in DynamicFeeTypes =>
                 basefee = 0 /\ Charge(e, s.chain) = SignedFor(s, bytes, 0, <<>>)
           /\ s.tx.type \notin DynamicFeeTypes =>
                 Charge(e, s.chain) = SignedFor(s, bytes, s.tx.gas_price, <<>>)
<1>1. /\ e.base.tx_type = s.tx.type /\ e.base.chain_id = SignedChain(s.tx)
      /\ e.base.caller = s.signer /\ e.base.gas_limit = s.tx.gas_limit
      /\ e.base.value = s.tx.value /\ e.base.kind = Kind(s.tx)
      /\ e.base.data = s.tx.input /\ e.base.nonce = s.tx.nonce
      /\ e.base.blob_hashes = <<>> /\ e.base.authorization_list = <<>>
      /\ e.base.access_list = <<>>
      /\ e.base.gas_price = IF s.tx.type \in DynamicFeeTypes THEN 0 ELSE s.tx.gas_price
  BY SeismicFields
<1>2. s.tx.type \in {"Legacy", "Eip2930", "Eip1559", "Eip4844", "Eip7702", "Seismic"}
  BY ConversionAssumption DEF Types
<1>3. s.tx.type \notin {"Eip4844", "Eip7702"}
  BY <1>1 DEF Admitted
<1>4. s.tx.type # "Seismic" => SignedChain(s.tx) \subseteq {ChainId}
  BY <1>1, <1>2 DEF Admitted
<1>5. s.tx.type \in DynamicFeeTypes => basefee = 0
  BY <1>1, <1>2 DEF Admitted, DynamicFeeTypes
<1>6. EffectiveGasPrice(e.base) = e.base.gas_price /\ ChainCharge(e, s.chain) = {}
  BY SeismicFields DEF EffectiveGasPrice, ChainCharge
<1>7. /\ SignedBlobs(s.tx) = <<>> /\ SignedAuthorizations(s.tx) = <<>>
      /\ s.tx.type # "Deposit"
  BY <1>2, <1>3 DEF SignedBlobs, SignedAuthorizations
<1>8. Charge(e, s.chain) = SignedFor(s, bytes, e.base.gas_price, <<>>)
  BY <1>1, <1>6, <1>7 DEF Charge, SignedFor
<1>9. QED
  BY <1>1, <1>4, <1>5, <1>8

-----------------------------------------------------------------------------
\* Whoever executes a transaction charges its signer what was signed.
THEOREM SignedCharges == Spec => []AdmittedAsSigned
<1>1. ConversionInv => AdmittedAsSigned
  <2> SUFFICES ASSUME ConversionInv, NEW x \in executed
               PROVE  LET tx    == submission.tx
                          bytes == IF x.form = {} THEN {Encode(tx)} ELSE x.form
                      IN  /\ tx.type \notin {"Deposit", "Seismic"} =>
                                SignedChain(tx) \subseteq {ChainId}
                          /\ tx.type = "Seismic" => x.env.base.chain_id = SignedChain(tx)
                          /\ submission.chain # "seismic" =>
                                x.charge = SignedCharge(submission, bytes)
                          /\ submission.chain = "seismic" =>
                                IF tx.type \in DynamicFeeTypes
                                THEN /\ basefee = 0
                                     /\ x.charge = SignedFor(submission, bytes, 0, <<>>)
                                ELSE x.charge =
                                       SignedFor(submission, bytes, tx.gas_price, <<>>)
    BY DEF AdmittedAsSigned
  <2> DEFINE bytes == IF x.form = {} THEN {Encode(submission.tx)} ELSE x.form
  <2>1. /\ submission \in Submissions /\ basefee \in Nat /\ x.form \in Forms
        /\ x.env = Converted(x.form) /\ Admitted(x.env.base)
        /\ x.charge = Charge(x.env, submission.chain)
    BY DEF ConversionInv
  <2>2. submission.chain \in {"eth", "op", "seismic"}
    BY <2>1, ConversionAssumption
  <2>3. CASE submission.chain \in {"eth", "op"}
    <3>1. x.env.base = FromRecoveredTx(submission.tx, submission.signer)
      BY <2>1, <2>3
      DEF Converted, RecoveredToTxEnv, EncodedToTxEnv, FromEncodedTx,
          OpFromRecoveredTx, OpFromEncodedTx
    <3>2. submission.chain = "op" => /\ x.env.enveloped_tx = bytes
                                     /\ x.env.deposit = DepositParts(submission.tx)
      BY <2>1 DEF Converted, Forms, RecoveredToTxEnv, EncodedToTxEnv,
                  OpFromRecoveredTx, OpFromEncodedTx
    <3>3. x.charge = SignedCharge(submission, bytes)
      BY <2>1, <2>3, <3>1, <3>2, EnvelopeCharge
    <3>4. submission.tx.type # "Deposit" => SignedChain(submission.tx) \subseteq {ChainId}
      BY <2>1, <2>3, <3>1, EnvelopeChain
    <3>5. submission.tx.type # "Seismic"
      BY <2>1, <2>3, ConversionAssumption DEF Types
    <3>6. QED
      BY <2>3, <3>3, <3>4, <3>5
  <2>4. CASE submission.chain = "seismic"
    <3>1. x.env.base = SeismicFromRecoveredTx(submission.tx, submission.signer).base
      BY <2>1, <2>4
      DEF Converted, RecoveredToTxEnv, EncodedToTxEnv, SeismicFromEncodedTx,
          SeismicFromRecoveredTx
    <3>2. x.env.base.chain_id = SignedChain(submission.tx)
      BY <2>1, <3>1, SeismicFields
    <3>3. QED
      BY <2>1, <2>4, <3>1, <3>2, SeismicCharge
  <2>5. QED
    BY <2>2, <2>3, <2>4
<1>2. QED
  BY <1>1, ConversionInvariant, PTL

\* A transaction is the same to the EVM with and without its encoding.
THEOREM PathsConverge == Spec => []PathsAgree
<1>1. ConversionInv => PathsAgree
  <2> SUFFICES ASSUME ConversionInv, NEW x \in executed, NEW e \in env
               PROVE  /\ e.base = x.env.base
                      /\ submission.chain # "op"
                         \/ submission.bytes = Encode(submission.tx) => e = x.env
    BY DEF PathsAgree
  <2>1. /\ submission.chain \in {"eth", "op", "seismic"}
        /\ e = Converted(form) /\ x.env = Converted(x.form)
        /\ form \in Forms /\ x.form \in Forms
    BY ConversionAssumption DEF ConversionInv
  <2>2. RecoveredToTxEnv(submission).base = EncodedToTxEnv(submission).base
    BY <2>1 DEF RecoveredToTxEnv, EncodedToTxEnv, FromEncodedTx, OpFromRecoveredTx,
                OpFromEncodedTx, SeismicFromEncodedTx, SeismicFromRecoveredTx
  <2>3. submission.chain # "op" \/ submission.bytes = Encode(submission.tx) =>
          RecoveredToTxEnv(submission) = EncodedToTxEnv(submission)
    BY <2>1 DEF RecoveredToTxEnv, EncodedToTxEnv, FromEncodedTx, OpFromRecoveredTx,
                SeismicFromEncodedTx, SeismicFromRecoveredTx
  <2>4. QED
    BY <2>1, <2>2, <2>3 DEF Converted
<1>2. QED
  BY <1>1, ConversionInvariant, PTL

-----------------------------------------------------------------------------
\* The arithmetic of an allowance.
LEMMA Division ==
    ASSUME NEW funds \in Nat, NEW price \in Nat \ {0}
    PROVE  LET n == funds \div price
           IN  /\ n \in Nat
               /\ n * price <= funds
               /\ (n + 1) * price > funds
  BY SMTT(30)

LEMMA Monotone ==
    ASSUME NEW m \in Nat, NEW n \in Nat, NEW price \in Nat, m <= n
    PROVE  /\ m * price <= n * price
           /\ price * m <= price * n
  BY SMTT(30)

\* No environment can be charged more than the price an allowance is computed
\* with.
LEMMA PriceBound ==
    ASSUME ConversionInv, NEW e \in env
    PROVE  /\ e.base.value \in Nat /\ e.base.gas_price \in Nat
           /\ EffectiveGasPrice(e.base) \in Nat
           /\ EffectiveGasPrice(e.base) <= e.base.gas_price
<1>1. /\ submission \in Submissions /\ basefee \in Nat /\ e = Converted(form)
      /\ submission.chain \in {"eth", "op", "seismic"}
      /\ submission.tx.value \in Nat
      /\ submission.tx.type \in Types(submission.chain)
  BY ConversionAssumption DEF ConversionInv
<1>2. CASE submission.chain \in {"eth", "op"}
  <2> DEFINE tx == submission.tx
  <2>1. e.base = FromRecoveredTx(tx, submission.signer)
    BY <1>1, <1>2
    DEF Converted, RecoveredToTxEnv, EncodedToTxEnv, FromEncodedTx,
        OpFromRecoveredTx, OpFromEncodedTx
  <2>2. /\ e.base.tx_type = tx.type /\ e.base.value = tx.value
        /\ e.base.gas_price = CASE tx.type = "Deposit" -> 0
                                [] tx.type \in DynamicFeeTypes -> tx.max_fee_per_gas
                                [] OTHER -> tx.gas_price
        /\ e.base.gas_priority_fee = IF tx.type \in DynamicFeeTypes
                                     THEN {tx.max_priority_fee_per_gas} ELSE {}
    BY <1>1, <1>2, <2>1, EnvelopeFields
  <2>3. CASE tx.type \in DynamicFeeTypes
    <3>1. /\ e.base.gas_price = tx.max_fee_per_gas
          /\ tx.max_fee_per_gas \in Nat /\ tx.max_priority_fee_per_gas \in Nat
      BY <1>1, <2>2, <2>3, ConversionAssumption DEF DynamicFeeTypes
    <3>2. (CHOOSE fee \in e.base.gas_priority_fee : TRUE) = tx.max_priority_fee_per_gas
      BY <2>2, <2>3, OneFee, Zenon
    <3>3. EffectiveGasPrice(e.base)
            = LowestOf(tx.max_fee_per_gas, basefee + tx.max_priority_fee_per_gas)
      BY <2>2, <2>3, <3>1, <3>2 DEF EffectiveGasPrice, DynamicFeeTypes
    <3>4. QED
      BY <1>1, <2>2, <3>1, <3>3 DEF LowestOf
  <2>4. CASE tx.type \notin DynamicFeeTypes
    BY <1>1, <1>2, <2>2, <2>4, ConversionAssumption
    DEF EffectiveGasPrice, Types, DynamicFeeTypes
  <2>5. QED
    BY <2>3, <2>4
<1>3. CASE submission.chain = "seismic"
  <2>1. e.base = SeismicFromRecoveredTx(submission.tx, submission.signer).base
    BY <1>1, <1>3
    DEF Converted, RecoveredToTxEnv, EncodedToTxEnv, SeismicFromEncodedTx,
        SeismicFromRecoveredTx
  <2>2. /\ e.base.value = submission.tx.value /\ e.base.gas_priority_fee = {}
        /\ e.base.gas_price = IF submission.tx.type \in DynamicFeeTypes THEN 0
                              ELSE submission.tx.gas_price
    BY <1>1, <2>1, SeismicFields
  <2>3. e.base.gas_price \in Nat
    BY <1>1, <1>3, <2>2, ConversionAssumption DEF Types, DynamicFeeTypes
  <2>4. QED
    BY <1>1, <2>2, <2>3 DEF EffectiveGasPrice
<1>4. QED
  BY <1>1, <1>2, <1>3

\* An allowance is that of the environment it was asked for.
AllowanceInv ==
    allowance.status = "Ok" =>
        \A e \in env : balance >= e.base.value /\ allowance.gas = Allowance(e.base)

LEMMA AllowanceInvariant == Spec => [](AllowanceInv /\ (env = {} => allowance = NoAllowance))
<1> DEFINE Inv == AllowanceInv /\ (env = {} => allowance = NoAllowance)
<1>1. Init => Inv
  BY DEF Init, AllowanceInv, NoAllowance
<1>2. Inv /\ ConversionInv /\ [Next]_vars => Inv'
  <2> SUFFICES ASSUME Inv, ConversionInv, [Next]_vars PROVE Inv'
    OBVIOUS
  <2> USE DEF AllowanceInv
  <2>1. CASE ConvertRecovered
    BY <2>1 DEF ConvertRecovered, NoAllowance
  <2>2. CASE ConvertEncoded
    BY <2>2 DEF ConvertEncoded, NoAllowance
  <2>3. CASE CallerGasAllowance
    <3>1. PICK e \in env :
            \/ allowance'.status # "Ok"
            \/ balance >= e.base.value /\ allowance'.gas = Allowance(e.base)
      BY <2>3 DEF CallerGasAllowance
    <3>2. \A other \in env : other = e
      BY DEF ConversionInv
    <3>3. UNCHANGED <<balance, env>>
      BY <2>3 DEF CallerGasAllowance
    <3>4. Allowance(e.base)' = Allowance(e'.base)
      BY <3>3 DEF Allowance
    <3>5. QED
      BY <3>1, <3>2, <3>3, <3>4
  <2>4. CASE Transact
    BY <2>4 DEF Transact
  <2>5. CASE UNCHANGED vars
    BY <2>5 DEF vars, Allowance
  <2>6. QED
    BY <2>1, <2>2, <2>3, <2>4, <2>5 DEF Next
<1>3. QED
  BY <1>1, <1>2, ConversionInvariant, PTL DEF Spec

\* The allowance is the most gas the caller can pay for, within a u64.
THEOREM AllowanceExact == Spec => []AllowanceAffordable
<1>1. AllowanceInv /\ ConversionInv => AllowanceAffordable
  <2> SUFFICES ASSUME AllowanceInv, ConversionInv, NEW e \in env, allowance.status = "Ok"
               PROVE  LET Cost(gas) == gas * e.base.gas_price + e.base.value
                      IN  /\ Cost(allowance.gas) <= balance
                          /\ allowance.gas * EffectiveGasPrice(e.base) + e.base.value
                               <= balance
                          /\ allowance.gas <= MaxU64
                          /\ e.base.gas_price > 0 /\ allowance.gas < MaxU64 =>
                                Cost(allowance.gas + 1) > balance
    BY DEF AllowanceAffordable
  <2> DEFINE price == e.base.gas_price
             effective == EffectiveGasPrice(e.base)
             value == e.base.value
             gas == allowance.gas
             funds == balance - value
  <2>1. /\ value \in Nat /\ price \in Nat /\ effective \in Nat /\ effective <= price
        /\ balance \in Nat /\ MaxU64 \in Nat
    BY PriceBound, ConversionAssumption DEF ConversionInv
  <2>2. value <= balance /\ gas = Allowance(e.base)
    BY <2>1 DEF AllowanceInv
  <2>3. funds \in Nat
    BY <2>1, <2>2
  <2>4. /\ gas \in Nat /\ gas <= MaxU64 /\ gas * price <= funds
        /\ price > 0 /\ gas < MaxU64 => (gas + 1) * price > funds
    <3>1. CASE price = 0
      BY <2>1, <2>2, <2>3, <3>1 DEF Allowance
    <3>2. CASE price # 0
      <4> DEFINE n == funds \div price
      <4>1. n \in Nat /\ n * price <= funds /\ (n + 1) * price > funds
        BY <2>1, <2>3, <3>2, Division
      <4>2. gas = LowestOf(n, MaxU64)
        BY <2>2, <3>2 DEF Allowance
      <4> HIDE DEF n, gas, price, funds
      <4>3. gas \in Nat /\ gas <= n /\ gas <= MaxU64 /\ (gas < MaxU64 => gas = n)
        BY <2>1, <4>1, <4>2 DEF LowestOf
      <4>4. gas * price <= n * price
        BY <2>1, <4>1, <4>3, Monotone
      <4>5. n * price \in Nat /\ gas * price \in Nat
        BY <2>1, <4>1, <4>3, SMTT(30)
      <4>6. gas * price <= funds
        BY <2>3, <4>1, <4>4, <4>5
      <4>7. QED
        BY <4>1, <4>3, <4>6
    <3>3. QED
      BY <3>1, <3>2
  <2> HIDE DEF gas, price, funds, value, effective
  <2>5. gas * effective <= gas * price
    BY <2>1, <2>4, Monotone
  <2>6. /\ gas * price \in Nat /\ gas * effective \in Nat /\ (gas + 1) * price \in Nat
    BY <2>1, <2>4, SMTT(30)
  <2>7. /\ gas * price + value <= balance
        /\ gas * effective + value <= balance
        /\ price > 0 /\ gas < MaxU64 => (gas + 1) * price + value > balance
    BY <2>1, <2>3, <2>4, <2>5, <2>6 DEF funds
  <2>8. QED
    BY <2>4, <2>7 DEF gas, price, value, effective
<1>2. QED
  BY <1>1, ConversionInvariant, AllowanceInvariant, PTL

=============================================================================
