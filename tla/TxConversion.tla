----------------------------- MODULE TxConversion -----------------------------
(***************************************************************************)
(* How a transaction becomes what an EVM executes: the traits IntoTxEnv,    *)
(* FromRecoveredTx and FromTxWithEncoded (crates/evm/src/tx.rs) with their  *)
(* implementations for Ethereum, OP and Seismic envelopes, and              *)
(* caller_gas_allowance (crates/evm/src/call.rs), which an RPC asks for     *)
(* before it runs the result.  The validation and the charge are revm's,    *)
(* external.                                                                *)
(*                                                                          *)
(* A transaction is a record of its fields with its type; an Option is a    *)
(* set.  References, Recovered and Either forward to what they wrap, so a   *)
(* submission is a transaction with its signer, and perhaps its encoding.   *)
(***************************************************************************)
EXTENDS Integers, Sequences

CONSTANTS
    Submissions,     \* [chain, tx, signer, bytes]
    BaseFees, BlobFee, ChainId,
    Balances,        \* of the signer
    Encode(_),       \* encoded_2718
    TxHash(_),
    Authority(_),    \* the signer of an authorization, if it can be recovered
    Zero,            \* Address::ZERO, which a default environment calls
    MaxU64

VARIABLES
    submission,
    basefee, balance,
    env,             \* {} or {what into_tx_env returned}
    form,            \* the encoding it was given with, if any
    allowance,       \* {} or {what caller_gas_allowance returned}
    executed         \* history: [form, env, charge] of what was admitted

vars == <<submission, basefee, balance, env, form, allowance, executed>>

Call(to) == <<"Call", to>>

DynamicFeeTypes == {"Eip1559", "Eip4844", "Eip7702"}

\* The envelopes: what can be submitted to an EVM of each chain.
Types(chain) ==
    {"Legacy", "Eip2930", "Eip1559", "Eip7702"} \cup
    CASE chain = "eth" -> {"Eip4844"}
      [] chain = "op" -> {"Deposit"}
      [] chain = "seismic" -> {"Eip4844", "Seismic"}

ASSUME ConversionAssumption ==
    /\ BaseFees \cup Balances \cup {MaxU64} \subseteq Nat
    /\ \A s \in Submissions :
          /\ s.chain \in {"eth", "op", "seismic"}
          /\ s.tx.type \in Types(s.chain)
          /\ s.tx.value \in Nat
          /\ s.tx.type \in DynamicFeeTypes =>
                {s.tx.max_fee_per_gas, s.tx.max_priority_fee_per_gas} \subseteq Nat
          /\ s.tx.type \in {"Legacy", "Eip2930", "Seismic"} => s.tx.gas_price \in Nat

\* alloy's Transaction trait: kind, gas_price and chain_id.
Kind(tx) == IF tx.type \in {"Eip4844", "Eip7702"} THEN Call(tx.to) ELSE tx.to

GasPrice(tx) == IF tx.type \in DynamicFeeTypes THEN {} ELSE {tx.gas_price}

SignedChain(tx) == IF tx.type = "Legacy" THEN tx.chain_id ELSE {tx.chain_id}

-----------------------------------------------------------------------------
(***************************************************************************)
(* TxEnv                                                                    *)
(***************************************************************************)
Default ==
    [tx_type |-> "Legacy", caller |-> Zero, gas_limit |-> 0, gas_price |-> 0,
     kind |-> Call(Zero), value |-> 0, data |-> <<>>, nonce |-> 0, chain_id |-> {1},
     access_list |-> <<>>, gas_priority_fee |-> {}, blob_hashes |-> <<>>,
     max_fee_per_blob_gas |-> 0, authorization_list |-> <<>>]

\* The fields every type sets alike.
Common(tx, caller) ==
    [Default EXCEPT !.tx_type = tx.type, !.caller = caller, !.gas_limit = tx.gas_limit,
                    !.kind = Kind(tx), !.value = tx.value, !.data = tx.input]

FromLegacy(tx, caller) ==
    [Common(tx, caller) EXCEPT !.nonce = tx.nonce, !.gas_price = tx.gas_price,
                               !.chain_id = tx.chain_id]

FromEip2930(tx, caller) ==
    [Common(tx, caller) EXCEPT !.nonce = tx.nonce, !.gas_price = tx.gas_price,
                               !.chain_id = {tx.chain_id},
                               !.access_list = tx.access_list]

FromEip1559(tx, caller) ==
    [Common(tx, caller) EXCEPT !.nonce = tx.nonce, !.gas_price = tx.max_fee_per_gas,
                               !.chain_id = {tx.chain_id},
                               !.gas_priority_fee = {tx.max_priority_fee_per_gas},
                               !.access_list = tx.access_list]

FromEip4844(tx, caller) ==
    [FromEip1559(tx, caller) EXCEPT !.blob_hashes = tx.blob_versioned_hashes,
                                    !.max_fee_per_blob_gas = tx.max_fee_per_blob_gas]

\* An authorization whose signer cannot be recovered keeps its place.
Recovered(auth) == [inner |-> auth, authority |-> Authority(auth)]

\* Mutant: it does not.
FromEip7702Dropping(tx, caller) ==
    LET valid == SelectSeq(tx.authorization_list, LAMBDA auth : Authority(auth) # {})
    IN  [FromEip1559(tx, caller) EXCEPT
           !.authorization_list = [i \in DOMAIN valid |-> Recovered(valid[i])]]

FromEip7702(tx, caller) ==
    [FromEip1559(tx, caller) EXCEPT
       !.authorization_list =
          [i \in DOMAIN tx.authorization_list |-> Recovered(tx.authorization_list[i])]]

\* No nonce, no fees: source_hash, mint and is_system_transaction are OpTransaction's.
FromDeposit(tx, caller) == Common(tx, caller)

\* The envelopes of Ethereum and OP.
FromRecoveredTx(tx, caller) ==
    CASE tx.type = "Legacy"  -> FromLegacy(tx, caller)
      [] tx.type = "Eip2930" -> FromEip2930(tx, caller)
      [] tx.type = "Eip1559" -> FromEip1559(tx, caller)
      [] tx.type = "Eip4844" -> FromEip4844(tx, caller)
      [] tx.type = "Eip7702" -> FromEip7702(tx, caller)
      [] tx.type = "Deposit" -> FromDeposit(tx, caller)

\* The encoding is of no use to Ethereum.
FromEncodedTx(tx, caller, encoded) == FromRecoveredTx(tx, caller)

-----------------------------------------------------------------------------
(***************************************************************************)
(* OpTransaction and SeismicTransaction                                     *)
(***************************************************************************)
DepositParts(tx) ==
    IF tx.type = "Deposit"
    THEN [source_hash |-> tx.source_hash, mint |-> {tx.mint},
          is_system_transaction |-> tx.is_system_transaction]
    ELSE [source_hash |-> 0, mint |-> {}, is_system_transaction |-> FALSE]

OpFromEncodedTx(tx, caller, encoded) ==
    [base |-> FromRecoveredTx(tx, caller), enveloped_tx |-> {encoded},
     deposit |-> DepositParts(tx)]

\* Mutant: what was not encoded stays so.
OpFromRecoveredTxBare(tx, caller) ==
    [base |-> FromRecoveredTx(tx, caller), enveloped_tx |-> {},
     deposit |-> DepositParts(tx)]

OpFromRecoveredTx(tx, caller) == OpFromEncodedTx(tx, caller, Encode(tx))

\* Whatever the type: gas_price().unwrap_or_default(), and no priority fee,
\* access list, blobs or authorizations.
SeismicFromRecoveredTx(tx, sender) ==
    [base |-> [Common(tx, sender) EXCEPT
                 !.nonce = tx.nonce,
                 !.gas_price = IF GasPrice(tx) = {} THEN 0 ELSE tx.gas_price,
                 !.chain_id = SignedChain(tx)],
     tx_hash |-> TxHash(tx), rng_mode |-> "Execution"]

SeismicFromEncodedTx(tx, sender, encoded) ==
    [SeismicFromRecoveredTx(tx, sender) EXCEPT !.rng_mode = "Execution"]

-----------------------------------------------------------------------------
(***************************************************************************)
(* into_tx_env of a Recovered, or of a WithEncoded<Recovered>               *)
(***************************************************************************)
RecoveredToTxEnv(s) ==
    CASE s.chain = "eth"     -> [base |-> FromRecoveredTx(s.tx, s.signer)]
      [] s.chain = "op"      -> OpFromRecoveredTx(s.tx, s.signer)
      [] s.chain = "seismic" -> SeismicFromRecoveredTx(s.tx, s.signer)

EncodedToTxEnv(s) ==
    CASE s.chain = "eth"     -> [base |-> FromEncodedTx(s.tx, s.signer, s.bytes)]
      [] s.chain = "op"      -> OpFromEncodedTx(s.tx, s.signer, s.bytes)
      [] s.chain = "seismic" -> SeismicFromEncodedTx(s.tx, s.signer, s.bytes)

-----------------------------------------------------------------------------
(***************************************************************************)
(* revm: validate_env, and what a transaction that passes it is charged and *)
(* runs with.  A deposit is not validated; a Seismic transaction (a custom  *)
(* type) is validated by seismic-revm, which may admit it.                  *)
(***************************************************************************)
Admitted(base) ==
    \/ base.tx_type \in {"Deposit", "Seismic"}
    \/ /\ base.tx_type = "Legacy" \/ base.chain_id # {}
       /\ base.chain_id \subseteq {ChainId}
       /\ base.gas_price >= basefee
       /\ \A fee \in base.gas_priority_fee : fee <= base.gas_price
       /\ base.tx_type = "Eip4844" =>
             base.blob_hashes # <<>> /\ base.max_fee_per_blob_gas >= BlobFee
       /\ base.tx_type = "Eip7702" => base.authorization_list # <<>>

LowestOf(a, b) == IF a <= b THEN a ELSE b

EffectiveGasPrice(base) ==
    IF base.tx_type \in {"Legacy", "Eip2930"} \/ base.gas_priority_fee = {}
    THEN base.gas_price
    ELSE LowestOf(base.gas_price, basefee + CHOOSE fee \in base.gas_priority_fee : TRUE)

\* op-revm charges the data of what is not a deposit, and mints for what is.
ChainCharge(e, chain) ==
    IF chain # "op" THEN {}
    ELSE IF e.base.tx_type = "Deposit" THEN e.deposit.mint ELSE e.enveloped_tx

Charge(e, chain) ==
    [price |-> EffectiveGasPrice(e.base), gas |-> e.base.gas_limit,
     value |-> e.base.value, caller |-> e.base.caller, nonce |-> e.base.nonce,
     kind |-> e.base.kind, data |-> e.base.data, blobs |-> e.base.blob_hashes,
     accessList |-> e.base.access_list, authorizations |-> e.base.authorization_list,
     chain |-> ChainCharge(e, chain)]

-----------------------------------------------------------------------------
(***************************************************************************)
(* caller_gas_allowance                                                     *)
(***************************************************************************)
\* Mutant: the value is forgotten.
AllowanceOfBalance(base) ==
    IF base.gas_price = 0 THEN 0 ELSE LowestOf(balance \div base.gas_price, MaxU64)

\* (balance - value) / gas_price, saturating, and zero for a price of zero.
Allowance(base) ==
    IF base.gas_price = 0 THEN 0
    ELSE LowestOf((balance - base.value) \div base.gas_price, MaxU64)

NoAllowance == [status |-> "none", gas |-> 0]

\* The caller's balance is zero if there is no such account.
CallerGasAllowance ==
    \E e \in env :
        /\ \/ allowance' = [status |-> "Database", gas |-> 0]
           \/ /\ balance < e.base.value
              /\ allowance' = [status |-> "InsufficientFunds", gas |-> 0]
           \/ /\ balance >= e.base.value
              /\ allowance' = [status |-> "Ok", gas |-> Allowance(e.base)]
        /\ UNCHANGED <<submission, basefee, balance, env, form, executed>>

-----------------------------------------------------------------------------
\* What a RecoveredTx has: its tx and its signer, and for WithEncoded its bytes.
Init ==
    /\ submission \in Submissions
    /\ basefee \in BaseFees
    /\ balance \in Balances
    /\ env = {} /\ form = {}
    /\ allowance = NoAllowance
    /\ executed = {}

\* The same transaction may be run many times, by an RPC and by blocks.
ConvertRecovered ==
    /\ env = {}
    /\ env' = {RecoveredToTxEnv(submission)} /\ form' = {}
    /\ UNCHANGED <<submission, basefee, balance, allowance, executed>>

ConvertEncoded ==
    /\ env = {}
    /\ env' = {EncodedToTxEnv(submission)} /\ form' = {submission.bytes}
    /\ UNCHANGED <<submission, basefee, balance, allowance, executed>>

\* transact_raw, which may refuse the transaction.
Transact ==
    /\ \E e \in env :
          executed' =
             IF Admitted(e.base)
             THEN executed \cup
                    {[form |-> form, env |-> e, charge |-> Charge(e, submission.chain)]}
             ELSE executed
    /\ env' = {} /\ form' = {} /\ allowance' = NoAllowance
    /\ UNCHANGED <<submission, basefee, balance>>

Next == ConvertRecovered \/ ConvertEncoded \/ CallerGasAllowance \/ Transact

Spec == Init /\ [][Next]_vars

-----------------------------------------------------------------------------
(***************************************************************************)
(* What a signature authorizes, at the present base fee: the transaction    *)
(* types' own rules, without a TxEnv.                                       *)
(***************************************************************************)
SignedPrice(tx) ==
    CASE tx.type = "Deposit" -> 0
      [] tx.type \in DynamicFeeTypes ->
            LowestOf(tx.max_fee_per_gas, basefee + tx.max_priority_fee_per_gas)
      [] OTHER -> tx.gas_price

\* What only some types sign is nothing in the others.
SignedAccessList(tx) ==
    IF tx.type \in {"Eip2930"} \cup DynamicFeeTypes THEN tx.access_list ELSE <<>>

SignedBlobs(tx) == IF tx.type = "Eip4844" THEN tx.blob_versioned_hashes ELSE <<>>

SignedAuthorizations(tx) ==
    IF tx.type = "Eip7702"
    THEN [i \in DOMAIN tx.authorization_list |-> Recovered(tx.authorization_list[i])]
    ELSE <<>>

\* What was signed, at some price and with some access list.
SignedFor(s, bytes, price, accessList) ==
    LET tx == s.tx
    IN  [price |-> price, gas |-> tx.gas_limit, value |-> tx.value,
         caller |-> s.signer, nonce |-> IF tx.type = "Deposit" THEN 0 ELSE tx.nonce,
         kind |-> Kind(tx), data |-> tx.input, blobs |-> SignedBlobs(tx),
         accessList |-> accessList, authorizations |-> SignedAuthorizations(tx),
         chain |-> CASE s.chain # "op" -> {}
                     [] s.chain = "op" /\ tx.type = "Deposit" -> {tx.mint}
                     [] OTHER -> bytes]

SignedCharge(s, bytes) ==
    SignedFor(s, bytes, SignedPrice(s.tx), SignedAccessList(s.tx))

\* Whoever executes a transaction, on whatever path it was converted, charges
\* its signer what was signed and runs what was signed: no blob, authorization
\* (its signer recoverable or not) or access list is lost.  None of Ethereum's
\* types is executed that was signed for another chain, and a Seismic
\* transaction keeps its chain for seismic-revm to check; a deposit has no chain
\* of its own.  Seismic environments have no access
\* lists and no dynamic fees: such a transaction runs for nothing if the base
\* fee is zero, and otherwise, like every blob and every authorization
\* transaction, not at all.
AdmittedAsSigned ==
    \A x \in executed :
        LET tx    == submission.tx
            bytes == IF x.form = {} THEN {Encode(tx)} ELSE x.form
        IN  /\ tx.type \notin {"Deposit", "Seismic"} => SignedChain(tx) \subseteq {ChainId}
            /\ tx.type = "Seismic" => x.env.base.chain_id = SignedChain(tx)
            /\ submission.chain # "seismic" => x.charge = SignedCharge(submission, bytes)
            /\ submission.chain = "seismic" =>
                  IF tx.type \in DynamicFeeTypes
                  THEN basefee = 0 /\ x.charge = SignedFor(submission, bytes, 0, <<>>)
                  ELSE x.charge = SignedFor(submission, bytes, tx.gas_price, <<>>)

\* A transaction is the same to the EVM with and without its encoding, the OP
\* data fee included: a block executes what was simulated.  Only a wrong
\* encoding can make a difference, and only to OP's data fee.
PathsAgree ==
    \A x \in executed, e \in env :
        /\ e.base = x.env.base
        /\ submission.chain # "op" \/ submission.bytes = Encode(submission.tx) => e = x.env

\* The allowance is the most gas the caller can pay for besides the value it
\* sends, at the highest price the transaction may be charged, within a u64.
AllowanceAffordable ==
    \A e \in env :
        LET Cost(gas) == gas * e.base.gas_price + e.base.value
        IN  allowance.status = "Ok" =>
              /\ Cost(allowance.gas) <= balance
              /\ allowance.gas * EffectiveGasPrice(e.base) + e.base.value <= balance
              /\ allowance.gas <= MaxU64
              /\ e.base.gas_price > 0 /\ allowance.gas < MaxU64 =>
                    Cost(allowance.gas + 1) > balance

=============================================================================
