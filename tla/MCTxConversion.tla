---------------------------- MODULE MCTxConversion ----------------------------
(***************************************************************************)
(* Transactions of every type and of three networks, for the network's own  *)
(* chain and another, with fees below, at and above the base fee, with and  *)
(* without what their type is for, and with their encoding or another.      *)
(***************************************************************************)
EXTENDS TxConversion

CONSTANTS signer, receiver, zero

\* The bytes and the hash of a transaction are as good as the transaction.
EncodingOf(tx) == <<"2718", tx>>
HashOf(tx) == <<"keccak256", tx>>
AuthorityOf(auth) == IF auth = "unrecoverable" THEN {} ELSE {receiver}

\* Every field has a value of its own, so that no two can be mistaken.
Body(type, chains) ==
    [type : {type}, gas_limit : {7}, value : {3}, input : {<<"input">>}, nonce : {5},
     chain_id : chains]

Chains == {1, 2}
Lists == {<<>>, <<"slot">>}

Extended(bodies, fields) ==
    {[f \in DOMAIN b \cup DOMAIN x |-> IF f \in DOMAIN b THEN b[f] ELSE x[f]] :
        b \in bodies, x \in fields}

Kinds == {Call(receiver), <<"Create">>}

Legacy == Extended(Body("Legacy", {{}, {1}, {2}}), [to : Kinds, gas_price : 0 .. 2])

Eip2930 ==
    Extended(Body("Eip2930", Chains), [to : Kinds, gas_price : 0 .. 2, access_list : Lists])

Fees == [max_fee_per_gas : 0 .. 2, max_priority_fee_per_gas : 0 .. 2, access_list : Lists]

Eip1559 == Extended(Extended(Body("Eip1559", Chains), Fees), [to : Kinds])

Eip4844 ==
    Extended(Extended(Body("Eip4844", {1}), Fees),
             [to : {receiver}, blob_versioned_hashes : {<<>>, <<"blob">>},
              max_fee_per_blob_gas : 0 .. 1])

Eip7702 ==
    Extended(Extended(Body("Eip7702", {1}), Fees),
             [to : {receiver},
              authorization_list : {<<>>, <<"good">>, <<"unrecoverable", "good">>}])

Deposit ==
    [type : {"Deposit"}, gas_limit : {7}, value : {3}, input : {<<"input">>}, to : Kinds,
     source_hash : {1}, mint : {0, 4}, is_system_transaction : BOOLEAN, from : {signer}]

Seismic == Extended(Body("Seismic", Chains), [to : Kinds, gas_price : 0 .. 2])

TransactionsOf(chain) ==
    Legacy \cup Eip2930 \cup Eip1559 \cup Eip7702 \cup
    CASE chain = "eth" -> Eip4844
      [] chain = "op" -> Deposit
      [] chain = "seismic" -> Eip4844 \cup Seismic

SubmissionsOf(chain) ==
    {[chain |-> chain, tx |-> tx, signer |-> signer, bytes |-> bytes] :
        <<tx, bytes>> \in {<<t, EncodingOf(t)>> : t \in TransactionsOf(chain)}
                          \cup {<<t, <<"other", t>>>> : t \in TransactionsOf(chain)}}

AllSubmissions == UNION {SubmissionsOf(chain) : chain \in {"eth", "op", "seismic"}}

=============================================================================
