--------------------------------- MODULE EthEvm ---------------------------------
(***************************************************************************)
(* The trait Evm (crates/evm/src/evm.rs) as its users see it, and EthEvm    *)
(* (crates/evm/src/eth/mod.rs), which passes every method on to revm: each  *)
(* call is one step.  OpEvm has the same methods, and Either picks one of   *)
(* two.  SeismicEvm, which has no system call of revm's to pass on to, is   *)
(* shown to implement this module.                                          *)
(***************************************************************************)
EXTENDS Revm

VARIABLES
    env,        \* the context it was created with, which no call changes
    inspect,    \* whether transactions are inspected
    inspected,  \* what the inspector heard: transactions and their context
    db,         \* Addresses -> [nonce, writes]
    res,        \* the last result, until it is committed
    returned    \* what finish returned: {} or {[db, env]}

evmVars == <<env, inspect, inspected, db, res, returned>>

Alive == returned = {}

-----------------------------------------------------------------------------
\* create_evm leaves the inspector off, create_evm_with_inspector turns it on.
Init ==
    /\ env \in Environments
    /\ inspect \in BOOLEAN
    /\ inspected = {}
    /\ db = [a \in Addresses |-> [nonce |-> 0, writes |-> 0]]
    /\ res = NoResult
    /\ returned = {}

\* transact_raw
Transact(tx) ==
    /\ Alive
    /\ db[tx.caller].nonce < MaxNonce
    /\ \E r \in Outcomes(tx, env, db) :
          /\ res' = r
          /\ \E seen \in Observations(inspect, env, r) :
                inspected' = inspected \cup seen
    /\ UNCHANGED <<env, inspect, db, returned>>

\* transact_system_call
TransactSystemCall(contract) ==
    /\ Alive
    /\ res' \in SystemCallOutcomes(contract, db)
    /\ UNCHANGED <<env, inspect, inspected, db, returned>>

\* db_mut().commit(state), by transact_commit or by an executor.
CommitState ==
    /\ Alive
    /\ res.status = "ok"
    /\ db' = Applied(db, res.state)
    /\ res' = NoResult
    /\ UNCHANGED <<env, inspect, inspected, returned>>

\* A result may be let go.
DropResult ==
    /\ Alive
    /\ res' = NoResult
    /\ UNCHANGED <<env, inspect, inspected, db, returned>>

SetInspectorEnabled(enabled) ==
    /\ Alive
    /\ inspect' = enabled
    /\ UNCHANGED <<env, inspected, db, res, returned>>

\* finish, into_db and into_env.
Finish ==
    /\ Alive
    /\ returned' = {[db |-> db, env |-> env]}
    /\ UNCHANGED <<env, inspect, inspected, db, res>>

Next ==
    \/ \E tx \in Transactions : Transact(tx)
    \/ \E contract \in Contracts : TransactSystemCall(contract)
    \/ CommitState
    \/ DropResult
    \/ \E enabled \in BOOLEAN : SetInspectorEnabled(enabled)
    \/ Finish

Spec == Init /\ [][Next]_evmVars

=============================================================================
