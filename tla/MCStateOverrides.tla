---------------------------- MODULE MCStateOverrides ----------------------------
(***************************************************************************)
(* A contract with storage and an account that does not exist; overrides of *)
(* every kind, with zeros and with slots that are and are not stored.       *)
(***************************************************************************)
EXTENDS StateOverrides, TLC

CONSTANTS contract, absent, noCode, code, badCode

TwoAccounts == {contract, absent}
TwoSlots == {1, 2}

KeccakOf(c) == <<"keccak256", c>>

BackingAccounts ==
    contract :> [info    |-> [nonce |-> 1, balance |-> 2, code |-> noCode,
                              codeHash |-> KeccakOf(noCode)],
                 storage |-> 1 :> 1 @@ 2 :> 2]
    @@ absent :> [info |-> NoAccount, storage |-> [s \in TwoSlots |-> 0]]

Storages == {<<>>, 1 :> 0, 2 :> 3, 1 :> 2 @@ 2 :> 0}

Nothing == [nonce |-> {}, balance |-> {}, code |-> {}, state |-> {}, state_diff |-> {}]

AccountOverrides ==
    {[Nothing EXCEPT !.state = {st}] : st \in Storages}
    \cup {[Nothing EXCEPT !.state_diff = {st}] : st \in Storages}
    \cup {[Nothing EXCEPT !.code = {c}, !.state = st] :
             c \in {code, badCode}, st \in {{}, {2 :> 3}}}
    \cup {[Nothing EXCEPT !.nonce = {0}, !.balance = {0}],
          [Nothing EXCEPT !.state = {1 :> 0}, !.state_diff = {2 :> 3}],
          [Nothing EXCEPT !.code = {badCode}, !.state = {1 :> 0},
                          !.state_diff = {2 :> 3}]}

\* A base fee that fits and one that does not; hashes of two past blocks.
TheBlock == [number |-> 7, time |-> 7, base_fee |-> 1]

BlockRequests ==
    {[set |-> set, block_hash |-> hash] :
        set \in {<<>>, [number |-> 8], [base_fee |-> 9], [time |-> 9, base_fee |-> 2]},
        hash \in {<<>>, 5 :> 50, 6 :> 60, 5 :> 51}}

Requests == UNION {[accounts -> AccountOverrides] : accounts \in SUBSET TwoAccounts}

=============================================================================
